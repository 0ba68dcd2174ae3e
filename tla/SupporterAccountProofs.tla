----------------------- MODULE SupporterAccountProofs -----------------------
(***************************************************************************)
(* Theorems about SupporterAccount, for any number of devices, rotations   *)
(* and waiting calls, any operations and any events.                       *)
(***************************************************************************)
EXTENDS SupporterAccount, TLAPS

ServerType ==
  [Devices -> [kind : Kinds \cup {"none"}, turn : 0 .. MaxTurns, live : BOOLEAN]]
RecordType ==
  [kind : {"none", "pending", "linked", "due", "refreshing", "revoking", "relink"},
   pair : Pairs \cup {NoPair}]
CallType == [stage : Stages, task : Tasks, pair : Pairs \cup {NoPair}]

(* A pair of a device the server s has made. *)
Made(s, p) == p \in Pairs /\ s[p.device].kind # "none"

GoodServer(s) ==
  /\ s \in ServerType
  /\ \A d \in Devices : s[d].live => s[d].kind # "none"

(* A record that has a token has one of a device made, and a marker's pair *)
(* can still be rotated.                                                   *)
GoodRecord(s, x) ==
  /\ x \in RecordType
  /\ x.pair # NoPair => Made(s, x.pair)
  /\ x.kind \in {"none", "pending", "relink"} => x.pair = NoPair
  /\ x.kind \in {"linked", "due", "revoking"} => x.pair # NoPair
  /\ x.kind = "refreshing" /\ x.pair # NoPair => x.pair.turn < MaxTurns

(* An adoption brings a pair. *)
GoodTask(s, t) ==
  /\ t \in Tasks
  /\ t.pair # NoPair => Made(s, t.pair)
  /\ t.op = "adopt" => t.pair # NoPair

(* A request that needs a token has it. *)
GoodCall(s, c) ==
  /\ c \in CallType
  /\ GoodTask(s, c.task)
  /\ c.pair # NoPair => Made(s, c.pair)
  /\ c.stage \in {"refresh", "revoke", "discard", "resend", "dispose", "settle",
                  "request"}
       => c.pair # NoPair
  /\ c.stage \in {"refresh", "resend"} => c.pair.turn < MaxTurns
  /\ c.stage = "settle" => c.task.op = "adopt"

GoodQueue(s, q) ==
  /\ q \in Seq(Tasks) /\ Len(q) <= MaxWaiting
  /\ \A i \in DOMAIN q : GoodTask(s, q[i])

KeyOK == key \in {"none", "pending", "claimed"}
SentOK == sent \subseteq Messages
RestOK ==
  /\ unsure \in BOOLEAN
  /\ window \in {"shut", "open", "stale"}
  /\ leaving \in Accounts
  /\ doubtful \subseteq Devices

Inv ==
  /\ GoodServer(server)
  /\ GoodRecord(server, stored)
  /\ GoodCall(server, call)
  /\ GoodQueue(server, waiting)
  /\ KeyOK /\ SentOK /\ RestOK

-----------------------------------------------------------------------------
LEMMA Bounds == MaxDevices \in Nat /\ MaxTurns \in Nat /\ MaxWaiting \in Nat
BY SupporterAccountAssumption

LEMMA NoPairApart == \A p \in Pairs : p # NoPair /\ p.device \in Devices /\ p.turn \in 0 .. MaxTurns
BY Bounds DEF Pairs, NoPair, Devices

(* No device is unmade. *)
Grows(s, z) == \A d \in Devices : s[d].kind # "none" => z[d].kind # "none"

LEMMA StaysGood ==
  ASSUME NEW s, NEW z, Grows(s, z)
  PROVE  /\ \A x : GoodRecord(s, x) => GoodRecord(z, x)
         /\ \A t : GoodTask(s, t) => GoodTask(z, t)
         /\ \A c : GoodCall(s, c) => GoodCall(z, c)
         /\ \A q : GoodQueue(s, q) => GoodQueue(z, q)
<1>1. \A p : Made(s, p) => Made(z, p)
  BY NoPairApart DEF Made, Grows
<1>2. \A t : GoodTask(s, t) => GoodTask(z, t)
  BY <1>1 DEF GoodTask
<1>3. \A x : GoodRecord(s, x) => GoodRecord(z, x)
  BY <1>1 DEF GoodRecord
<1>4. \A c : GoodCall(s, c) => GoodCall(z, c)
  BY <1>1, <1>2 DEF GoodCall
<1>5. \A q : GoodQueue(s, q) => GoodQueue(z, q)
  BY <1>2 DEF GoodQueue
<1> QED  BY <1>2, <1>3, <1>4, <1>5

-----------------------------------------------------------------------------
(* The queue. *)

LEMMA QueueHead ==
  ASSUME NEW s, NEW q, GoodQueue(s, q), q # <<>>
  PROVE  GoodTask(s, Head(q)) /\ GoodQueue(s, Tail(q))
<1>1. q \in Seq(Tasks) /\ Len(q) \in Nat /\ Len(q) > 0 /\ 1 \in DOMAIN q
  BY DEF GoodQueue
<1>2. GoodTask(s, Head(q))
  BY <1>1 DEF GoodQueue
<1>3. Tail(q) \in Seq(Tasks) /\ Len(Tail(q)) = Len(q) - 1
      /\ \A i \in DOMAIN Tail(q) : i + 1 \in DOMAIN q /\ Tail(q)[i] = q[i + 1]
  BY <1>1
<1> QED  BY <1>1, <1>2, <1>3, Bounds DEF GoodQueue

LEMMA QueueAppend ==
  ASSUME NEW s, NEW q, GoodQueue(s, q), Len(q) < MaxWaiting,
         NEW t, GoodTask(s, t)
  PROVE  GoodQueue(s, Append(q, t))
<1>1. q \in Seq(Tasks) /\ t \in Tasks /\ Len(q) \in Nat
  BY DEF GoodQueue, GoodTask
<1>2. Append(q, t) \in Seq(Tasks) /\ Len(Append(q, t)) = Len(q) + 1
  BY <1>1
<1>3. \A i \in DOMAIN Append(q, t) :
        (i \in DOMAIN q /\ Append(q, t)[i] = q[i]) \/ Append(q, t)[i] = t
  BY <1>1
<1> QED  BY <1>1, <1>2, <1>3, Bounds DEF GoodQueue

(* A sign-out changes the tasks of the queue one by one. *)
LEMMA QueueMapped ==
  ASSUME NEW s, NEW q, GoodQueue(s, q), NEW r,
         DOMAIN r = DOMAIN q, r = [i \in DOMAIN q |-> r[i]],
         \A i \in DOMAIN q : GoodTask(s, r[i])
  PROVE  GoodQueue(s, r)
<1>1. q \in Seq(Tasks) /\ Len(q) \in Nat /\ DOMAIN q = 1 .. Len(q)
  BY DEF GoodQueue
<1>2. \A i \in 1 .. Len(q) : r[i] \in Tasks
  BY <1>1 DEF GoodTask
<1>3. r \in [1 .. Len(q) -> Tasks]
  BY <1>1, <1>2
<1>4. r \in Seq(Tasks) /\ Len(r) = Len(q)
  BY <1>1, <1>3
<1> QED  BY <1>1, <1>4 DEF GoodQueue

-----------------------------------------------------------------------------
(* Accounts, records and tasks. *)

LEMMA AccountType ==
  ASSUME GoodServer(server), NEW p \in Pairs
  PROVE  AccountOf(p) \in Accounts
BY NoPairApart DEF AccountOf, Accounts, KindOf, GoodServer, ServerType

LEMMA NobodyType == Nobody \in Accounts
BY DEF Nobody, Accounts

LEMMA TokenlessRecords ==
  ASSUME NEW s, NEW kind \in {"none", "pending", "relink", "refreshing"}
  PROVE  GoodRecord(s, Record(kind, NoPair))
BY DEF GoodRecord, Record, RecordType

LEMMA TokenRecords ==
  ASSUME NEW s, NEW p, Made(s, p)
  PROVE  /\ \A kind \in {"linked", "due", "revoking"} : GoodRecord(s, Record(kind, p))
         /\ p.turn < MaxTurns => GoodRecord(s, Record("refreshing", p))
BY NoPairApart DEF GoodRecord, Record, RecordType, Made

LEMMA TaskType ==
  ASSUME NEW s, NEW op \in Ops, NEW p, op = "adopt" \/ p = NoPair,
         Made(s, p) \/ (p = NoPair /\ op # "adopt"), NEW who \in Accounts
  PROVE  GoodTask(s, Task(op, p, who))
BY NoPairApart DEF GoodTask, Task, Tasks, Made

LEMMA TaskChanges ==
  ASSUME NEW s, NEW t, GoodTask(s, t)
  PROVE  /\ \A b \in BOOLEAN : GoodTask(s, [t EXCEPT !.stale = b])
         /\ GoodTask(s, Outdated(t))
         /\ GoodTask(s, [t EXCEPT !.who = Nobody])
<1>1. \A b \in BOOLEAN : GoodTask(s, [t EXCEPT !.stale = b])
  BY DEF GoodTask, Tasks
<1>2. GoodTask(s, [t EXCEPT !.who = Nobody])
  BY NobodyType DEF GoodTask, Tasks
<1> QED  BY <1>1, <1>2 DEF Outdated

LEMMA IdleType == \A s : GoodCall(s, Idle)
<1>1. "status" \in Ops
  BY DEF Ops
<1>2. GoodTask(server, Task("status", NoPair, Nobody))
  BY <1>1, NobodyType DEF GoodTask, Task, Tasks
<1>3. \A s : GoodTask(s, Task("status", NoPair, Nobody))
  BY <1>2 DEF GoodTask, Task
<1> QED  BY <1>3 DEF GoodCall, Idle, CallType, Stages, GoodTask

LEMMA ForgottenType ==
  ASSUME NEW s, NEW q, GoodQueue(s, q), NEW account
  PROVE  GoodQueue(s, Forgotten(q, account))
<1>1. \A i \in DOMAIN q : GoodTask(s, Forgotten(q, account)[i])
  BY TaskChanges DEF GoodQueue, Forgotten
<1> QED  BY <1>1, QueueMapped DEF Forgotten

-----------------------------------------------------------------------------
(* What the server does. *)

LEMMA RevokedGood ==
  ASSUME GoodServer(server), NEW ds
  PROVE  GoodServer(Revoked(ds)) /\ Grows(server, Revoked(ds))
BY DEF GoodServer, ServerType, Revoked, Grows

LEMMA DisconnectedGood ==
  ASSUME GoodServer(server), NEW p
  PROVE  GoodServer(Disconnected(p)) /\ Grows(server, Disconnected(p))
<1>1. GoodServer(server) /\ Grows(server, server)
  BY DEF Grows
<1> QED  BY <1>1, RevokedGood DEF Disconnected

LEMMA IssuedGood ==
  ASSUME GoodServer(server), CanIssue, NEW kind \in Kinds
  PROVE  /\ GoodServer(Issued(kind)) /\ Grows(server, Issued(kind))
         /\ Made(Issued(kind), First)
<1>1. Fresh \in Devices /\ server[Fresh].kind = "none"
  BY DEF CanIssue, Fresh
<1>2. kind # "none"
  BY DEF Kinds
<1> HIDE DEF Fresh
<1>3. GoodServer(Issued(kind)) /\ Grows(server, Issued(kind))
  BY <1>1, <1>2, Bounds DEF GoodServer, ServerType, Issued, Grows
<1>4. First \in Pairs /\ First.device = Fresh
  BY <1>1, Bounds DEF First, Pairs
<1>5. Issued(kind)[Fresh].kind = kind
  BY <1>1 DEF GoodServer, ServerType, Issued
<1> QED  BY <1>2, <1>3, <1>4, <1>5 DEF Made

LEMMA RefreshedGood ==
  ASSUME GoodServer(server), NEW p, Made(server, p), p.turn < MaxTurns,
         NEW x \in Refreshed(p)
  PROVE  /\ GoodServer(x.server) /\ Grows(server, x.server)
         /\ x.pair # NoPair => Made(x.server, x.pair)
<1> DEFINE turned == [server EXCEPT ![p.device].turn = p.turn + 1]
           next == [p EXCEPT !.turn = @ + 1]
<1>1. x.server \in {server, Revoked({p.device}), turned} /\ x.pair \in {next, NoPair}
  BY DEF Refreshed
<1>2. p \in Pairs /\ p.device \in Devices /\ p.turn + 1 \in 0 .. MaxTurns
  BY NoPairApart, Bounds DEF Made
<1>3. GoodServer(turned) /\ Grows(server, turned)
  BY <1>2 DEF GoodServer, ServerType, Grows
<1>4. GoodServer(server) /\ Grows(server, server)
  BY DEF Grows
<1>5. GoodServer(x.server) /\ Grows(server, x.server)
  BY <1>1, <1>3, <1>4, RevokedGood
<1>6. next \in Pairs /\ next.device = p.device
  BY <1>2 DEF Pairs
<1> QED  BY <1>1, <1>2, <1>5, <1>6 DEF Made, Grows

-----------------------------------------------------------------------------
(* How a step of a call ends. *)

LEMMA EndsGood ==
  ASSUME NEW s, NEW t, GoodTask(s, t), NEW state \in States, Ends(t, state)
  PROVE  GoodCall(s, call') /\ SentOK'
<1>1. GoodCall(s, call')
  BY IdleType DEF Ends
<1>2. SentOK'
  BY DEF Ends, SentOK, Messages, GoodTask, Tasks
<1> QED  BY <1>1, <1>2

LEMMA GoesGood ==
  ASSUME NEW s, NEW t, GoodTask(s, t), NEW stage \in Stages, NEW p,
         p = NoPair \/ Made(s, p),
         stage \in {"refresh", "revoke", "discard", "resend", "dispose", "settle",
                  "request"}
           => p # NoPair,
         stage \in {"refresh", "resend"} => p.turn < MaxTurns,
         stage = "settle" => t.op = "adopt",
         Goes(t, stage, p)
  PROVE  GoodCall(s, call') /\ SentOK'
<1>1. p \in Pairs \cup {NoPair}
  BY DEF Made
<1>2. GoodCall(s, call')
  BY <1>1 DEF Goes, GoodCall, CallType, GoodTask
<1>3. SentOK'
  BY <1>1 DEF Goes, SentOK, Messages
<1> QED  BY <1>2, <1>3

LEMMA ContinueGood ==
  ASSUME NEW s, NEW t, GoodTask(s, t), NEW state \in States, KeyOK,
         GoodRecord(s, stored'), state = "linked" => stored'.kind = "linked",
         Continue(t, state)
  PROVE  GoodCall(s, call') /\ SentOK' /\ KeyOK'
<1>1. CASE t.op \in {"use", "everywhere"} /\ state = "linked" /\ ~ t.stale
  <2>1. Goes(t, "request", stored'.pair) /\ key' = key
    BY <1>1 DEF Continue
  <2>2. stored'.pair # NoPair /\ Made(s, stored'.pair)
    BY <1>1 DEF GoodRecord
  <2>3. "request" \in Stages
    BY DEF Stages
  <2> QED  BY <2>1, <2>2, <2>3, GoesGood DEF KeyOK
<1>2. CASE ~ (t.op \in {"use", "everywhere"} /\ state = "linked" /\ ~ t.stale)
           /\ MayEnroll(t, state)
  <2>1. Goes(t, "enroll", NoPair) /\ key' \in {"pending", key}
    BY <1>2 DEF Continue
  <2>2. "enroll" \in Stages
    BY DEF Stages
  <2> QED  BY <2>1, <2>2, GoesGood DEF KeyOK
<1>3. CASE ~ (t.op \in {"use", "everywhere"} /\ state = "linked" /\ ~ t.stale)
           /\ ~ MayEnroll(t, state)
  <2>1. Ends(t, state) /\ key' = key
    BY <1>3 DEF Continue
  <2> QED  BY <2>1, EndsGood DEF KeyOK
<1> QED  BY <1>1, <1>2, <1>3

LEMMA RevokeGood ==
  ASSUME NEW s, NEW t, GoodTask(s, t), NEW p, Made(s, p),
         Revoke(t, p) \/ Discard(t, p)
  PROVE  GoodRecord(s, stored') /\ GoodCall(s, call') /\ SentOK'
<1>1. GoodRecord(s, stored')
  BY TokenRecords DEF Revoke, Discard
<1>2. p # NoPair /\ \E stage \in {"revoke", "discard"} : stage \in Stages /\ Goes(t, stage, p)
  BY NoPairApart DEF Revoke, Discard, Made, Stages
<1>3. GoodCall(s, call') /\ SentOK'
  BY <1>2, GoesGood
<1> QED  BY <1>1, <1>3

-----------------------------------------------------------------------------
(* The start of a call. *)

LEMMA StartFacts ==
  ASSUME Inv, NEW t, Starts(t)
  PROVE  GoodTask(server, t) /\ GoodQueue(server, Tail(waiting))
BY QueueHead DEF Inv, Starts

LEMMA StartOutdatedGood ==
  ASSUME Inv, NEW t, StartOutdated(t)
  PROVE  Inv'
<1>1. GoodTask(server, t) /\ GoodQueue(server, Tail(waiting))
  BY StartFacts DEF StartOutdated
<1>2. GoodCall(server, call') /\ SentOK' /\ KeyOK'
  BY <1>1, ContinueGood DEF StartOutdated, Inv, States
<1> QED  BY <1>1, <1>2 DEF StartOutdated, Inv, RestOK

LEMMA StartRevokingGood ==
  ASSUME Inv, NEW t, StartRevoking(t)
  PROVE  Inv'
<1>1. GoodTask(server, t) /\ GoodQueue(server, Tail(waiting))
  BY StartFacts DEF StartRevoking, Performs
<1>2. Made(server, stored.pair) /\ stored.pair # NoPair
  BY DEF Inv, GoodRecord, StartRevoking
<1>3. CASE t.op = "disconnect"
  <2>1. Goes(t, "revoke", stored.pair) /\ key' = key /\ "revoke" \in Stages
    BY <1>3 DEF StartRevoking, Stages
  <2>2. GoodCall(server, call') /\ SentOK'
    BY <1>1, <1>2, <2>1, GoesGood
  <2> QED  BY <1>1, <2>1, <2>2 DEF StartRevoking, Inv, RestOK, KeyOK
<1>4. CASE t.op # "disconnect"
  <2>1. GoodCall(server, call') /\ SentOK' /\ KeyOK'
    BY <1>1, <1>4, ContinueGood DEF StartRevoking, Inv, States
  <2> QED  BY <1>1, <2>1 DEF StartRevoking, Inv, RestOK
<1> QED  BY <1>3, <1>4

LEMMA HeldPair ==
  ASSUME GoodRecord(server, stored), Held
  PROVE  stored.pair # NoPair /\ Made(server, stored.pair)
BY DEF GoodRecord, Held, Linked

LEMMA StartDisconnectGood ==
  ASSUME Inv, NEW t, StartDisconnect(t)
  PROVE  Inv'
<1> DEFINE gone == [t EXCEPT !.who = Nobody]
<1>1. GoodTask(server, t) /\ GoodTask(server, gone) /\ GoodQueue(server, Tail(waiting))
  BY StartFacts, TaskChanges DEF StartDisconnect, Performs
<1>2. KeyOK'
  BY DEF StartDisconnect, KeyOK
<1>3. CASE Held /\ Linked
  <2>1. Made(server, stored.pair)
    BY <1>3, HeldPair DEF Inv
  <2>2. /\ Revoke(gone, stored.pair) /\ unsure' = unsure
        /\ waiting' = Forgotten(Tail(waiting), AccountOf(stored.pair))
    BY <1>3 DEF StartDisconnect
  <2>3. GoodRecord(server, stored') /\ GoodCall(server, call') /\ SentOK'
    BY <1>1, <2>1, <2>2, RevokeGood
  <2>4. GoodQueue(server, waiting')
    BY <1>1, <2>2, ForgottenType
  <2> QED  BY <1>2, <2>2, <2>3, <2>4 DEF StartDisconnect, Inv, RestOK
<1>4. CASE Held /\ ~ Linked
  <2>1. Made(server, stored.pair) /\ stored.pair # NoPair /\ stored.pair.turn < MaxTurns
    BY <1>4, HeldPair DEF Inv, Held, GoodRecord
  <2>2. /\ stored' = Record("revoking", stored.pair) /\ unsure' = unsure
        /\ Goes(gone, "resend", stored.pair) /\ "resend" \in Stages
        /\ waiting' = Forgotten(Tail(waiting), AccountOf(stored.pair))
    BY <1>4 DEF StartDisconnect, Stages
  <2>3. GoodCall(server, call') /\ SentOK'
    BY <1>1, <2>1, <2>2, GoesGood
  <2>4. GoodRecord(server, stored')
    BY <2>1, <2>2, TokenRecords
  <2>5. GoodQueue(server, waiting')
    BY <1>1, <2>2, ForgottenType
  <2> QED  BY <1>2, <2>2, <2>3, <2>4, <2>5 DEF StartDisconnect, Inv, RestOK
<1>5. CASE ~ Held
  <2>1. /\ waiting' = Tail(waiting) /\ unsure' \in BOOLEAN /\ stored' = Empty
        /\ \E state \in {"error", "signed_out"} : Ends(t, state)
    BY <1>1, <1>5 DEF StartDisconnect, Inv, RestOK, Ends
  <2>2. GoodCall(server, call') /\ SentOK'
    BY <1>1, <2>1, EndsGood DEF States
  <2> QED
    BY <1>1, <1>2, <2>1, <2>2, TokenlessRecords DEF Empty, StartDisconnect, Inv, RestOK
<1> QED  BY <1>3, <1>4, <1>5

LEMMA StartCancelGood ==
  ASSUME Inv, NEW t, StartCancel(t)
  PROVE  Inv'
<1>1. GoodTask(server, t) /\ GoodQueue(server, Tail(waiting))
  BY StartFacts DEF StartCancel, Performs
<1>2. \E state \in {"linked", "signed_out"} : Ends(t, state)
  BY DEF StartCancel
<1>3. GoodCall(server, call') /\ SentOK'
  BY <1>1, <1>2, EndsGood DEF States
<1>4. GoodRecord(server, stored')
  BY TokenlessRecords DEF StartCancel, Inv, Empty
<1> QED  BY <1>1, <1>3, <1>4 DEF StartCancel, Inv, RestOK, KeyOK

LEMMA StartInterruptedGood ==
  ASSUME Inv, NEW t, StartInterrupted(t)
  PROVE  Inv'
<1>1. GoodTask(server, t) /\ GoodQueue(server, Tail(waiting))
  BY StartFacts DEF StartInterrupted, Reads, Performs
<1>2. GoodRecord(server, stored')
  BY TokenlessRecords DEF StartInterrupted, Relink
<1>3. GoodCall(server, call') /\ SentOK' /\ KeyOK'
  BY <1>1, <1>2, ContinueGood DEF StartInterrupted, Inv, States
<1> QED  BY <1>1, <1>2, <1>3 DEF StartInterrupted, Inv, RestOK

LEMMA RenewsGood ==
  ASSUME Inv, NEW t, GoodTask(server, t), Held, Renews(t)
  PROVE  GoodRecord(server, stored') /\ GoodCall(server, call') /\ SentOK' /\ KeyOK'
<1>1. stored.pair # NoPair /\ Made(server, stored.pair) /\ stored.pair.turn < MaxTurns
  BY HeldPair DEF Inv, Renews
<1>2. Goes(t, "refresh", stored.pair) /\ key' = key /\ "refresh" \in Stages
  BY DEF Renews, Stages
<1>3. GoodCall(server, call') /\ SentOK'
  BY <1>1, <1>2, GoesGood
<1>4. GoodRecord(server, stored')
  BY <1>1, TokenlessRecords, TokenRecords DEF Renews
<1> QED  BY <1>2, <1>3, <1>4 DEF Inv, KeyOK

LEMMA StartHeldGood ==
  ASSUME Inv, NEW t, StartHeld(t)
  PROVE  Inv'
<1>1. GoodTask(server, t) /\ GoodQueue(server, Tail(waiting))
  BY StartFacts DEF StartHeld, Reads, Performs
<1>2. CASE Renews(t)
  <2>1. GoodRecord(server, stored') /\ GoodCall(server, call') /\ SentOK' /\ KeyOK'
    BY <1>1, <1>2, RenewsGood DEF StartHeld
  <2> QED  BY <1>1, <2>1 DEF StartHeld, Inv, RestOK
<1>3. CASE stored' = Relink /\ Continue(t, "relink_required")
  <2>1. GoodRecord(server, stored')
    BY <1>3, TokenlessRecords DEF Relink
  <2>2. GoodCall(server, call') /\ SentOK' /\ KeyOK'
    BY <1>1, <1>3, <2>1, ContinueGood DEF Inv, States
  <2> QED  BY <1>1, <2>1, <2>2 DEF StartHeld, Inv, RestOK
<1>4. CASE \/ stored.kind = "linked" /\ stored' = stored /\ Continue(t, "linked")
           \/ stored' = stored /\ Continue(t, "unavailable")
  <2>1. GoodRecord(server, stored')
    BY <1>4 DEF Inv
  <2>2. GoodCall(server, call') /\ SentOK' /\ KeyOK'
    BY <1>1, <1>4, <2>1, ContinueGood DEF Inv, States
  <2> QED  BY <1>1, <2>1, <2>2 DEF StartHeld, Inv, RestOK
<1> QED  BY <1>2, <1>3, <1>4 DEF StartHeld

LEMMA StartPendingGood ==
  ASSUME Inv, NEW t, StartPending(t)
  PROVE  Inv'
<1>1. GoodTask(server, t) /\ GoodQueue(server, Tail(waiting))
  BY StartFacts DEF StartPending, Reads, Performs
<1>2. CASE stored' = stored /\ key' = key /\ Goes(t, "poll", NoPair)
  <2>1. GoodCall(server, call') /\ SentOK'
    BY <1>1, <1>2, GoesGood DEF Stages
  <2> QED  BY <1>1, <1>2, <2>1 DEF StartPending, Inv, RestOK, KeyOK
<1>3. CASE \/ stored' = Empty /\ Continue(t, "expired")
           \/ stored' = stored /\ Continue(t, "pending")
  <2>1. GoodRecord(server, stored')
    BY <1>3, TokenlessRecords DEF Inv, Empty
  <2>2. GoodCall(server, call') /\ SentOK' /\ KeyOK'
    BY <1>1, <1>3, <2>1, ContinueGood DEF Inv, States
  <2> QED  BY <1>1, <2>1, <2>2 DEF StartPending, Inv, RestOK
<1> QED  BY <1>2, <1>3 DEF StartPending

LEMMA StartEmptyGood ==
  ASSUME Inv, NEW t, StartEmpty(t)
  PROVE  Inv'
<1>1. GoodTask(server, t) /\ GoodQueue(server, Tail(waiting))
  BY StartFacts DEF StartEmpty, Reads, Performs
<1>2. CASE t.op = "start"
  <2>1. Goes(t, "link", NoPair) /\ key' = key
    BY <1>2 DEF StartEmpty
  <2>2. GoodCall(server, call') /\ SentOK'
    BY <1>1, <2>1, GoesGood DEF Stages
  <2> QED  BY <1>1, <2>1, <2>2 DEF StartEmpty, Inv, RestOK, KeyOK
<1>3. CASE t.op # "start"
  <2>1. \E state \in {"relink_required", "signed_out"} : Continue(t, state)
    BY <1>3 DEF StartEmpty
  <2>2. GoodCall(server, call') /\ SentOK' /\ KeyOK'
    BY <1>1, <2>1, ContinueGood DEF StartEmpty, Inv, States
  <2> QED  BY <1>1, <2>2 DEF StartEmpty, Inv, RestOK
<1> QED  BY <1>2, <1>3

LEMMA StartForgetGood ==
  ASSUME Inv, NEW t, StartForget(t)
  PROVE  Inv'
<1>1. GoodTask(server, t) /\ GoodQueue(server, Tail(waiting))
  BY StartFacts DEF StartForget
<1>2. GoodTask(server, [t EXCEPT !.who = Nobody])
  BY <1>1, TaskChanges
<1>3. GoodCall(server, call') /\ SentOK'
  BY <1>2, EndsGood DEF StartForget, States
<1>4. GoodQueue(server, waiting')
  BY <1>1, ForgottenType DEF StartForget
<1> QED
  BY <1>3, <1>4, TokenlessRecords DEF StartForget, Inv, RestOK, KeyOK, Empty

LEMMA AdoptsGood ==
  ASSUME NEW s, NEW p, Made(s, p), Adopts(p)
  PROVE  GoodRecord(s, stored') /\ stored'.kind = "linked" /\ unsure' = FALSE
BY TokenRecords DEF Adopts, Record

LEMMA StartAdoptGood ==
  ASSUME Inv, NEW t, StartAdopt(t)
  PROVE  Inv'
<1>1. GoodTask(server, t) /\ GoodQueue(server, Tail(waiting)) /\ t.op = "adopt"
  BY StartFacts DEF StartAdopt
<1>2. t.pair # NoPair /\ Made(server, t.pair)
  BY <1>1 DEF GoodTask
<1>3. \/ Goes(t, "dispose", t.pair) /\ stored' = stored /\ unsure' = unsure
      \/ stored.kind = "revoking" /\ Goes(t, "settle", stored.pair)
           /\ stored' = stored /\ unsure' = unsure
      \/ Revoke(t, t.pair) /\ unsure' = unsure
      \/ Adopts(t.pair) /\ Ends(t, "linked")
  BY DEF StartAdopt
<1>4. CASE Goes(t, "dispose", t.pair) /\ stored' = stored /\ unsure' = unsure
  <2>1. GoodCall(server, call') /\ SentOK'
    BY <1>1, <1>2, <1>4, GoesGood DEF Stages
  <2> QED  BY <1>1, <1>4, <2>1 DEF StartAdopt, Inv, RestOK, KeyOK
<1>5. CASE stored.kind = "revoking" /\ Goes(t, "settle", stored.pair)
             /\ stored' = stored /\ unsure' = unsure
  <2>1. stored.pair # NoPair /\ Made(server, stored.pair)
    BY <1>5 DEF Inv, GoodRecord
  <2>2. GoodCall(server, call') /\ SentOK'
    BY <1>1, <1>5, <2>1, GoesGood DEF Stages
  <2> QED  BY <1>1, <1>5, <2>2 DEF StartAdopt, Inv, RestOK, KeyOK
<1>6. CASE Revoke(t, t.pair) /\ unsure' = unsure
  <2>1. GoodRecord(server, stored') /\ GoodCall(server, call') /\ SentOK'
    BY <1>1, <1>2, <1>6, RevokeGood
  <2> QED  BY <1>1, <1>6, <2>1 DEF StartAdopt, Inv, RestOK, KeyOK
<1>7. CASE Adopts(t.pair) /\ Ends(t, "linked")
  <2>1. GoodRecord(server, stored') /\ unsure' = FALSE
    BY <1>2, <1>7, AdoptsGood
  <2>2. GoodCall(server, call') /\ SentOK'
    BY <1>1, <1>7, EndsGood DEF States
  <2> QED  BY <1>1, <2>1, <2>2 DEF StartAdopt, Inv, RestOK, KeyOK
<1> QED  BY <1>3, <1>4, <1>5, <1>6, <1>7

LEMMA StartCallGood ==
  ASSUME Inv, NEW t, StartCall(t)
  PROVE  Inv'
BY StartOutdatedGood, StartRevokingGood, StartDisconnectGood, StartCancelGood,
   StartInterruptedGood, StartHeldGood, StartPendingGood, StartEmptyGood,
   StartForgetGood, StartAdoptGood DEF StartCall

-----------------------------------------------------------------------------
(* The answer to the request in flight. *)

LEMMA AskedFacts ==
  ASSUME Inv
  PROVE  /\ GoodTask(server, Asked)
         /\ call.stage \in {"refresh", "revoke", "discard", "resend", "dispose", "settle",
                  "request"}
              => call.pair # NoPair /\ Made(server, call.pair) /\ call.pair.device \in Devices
         /\ call.stage \in {"refresh", "resend"} => call.pair.turn < MaxTurns
         /\ call.stage = "settle" => Asked.pair # NoPair /\ Made(server, Asked.pair)
BY NoPairApart DEF Inv, GoodCall, GoodTask, Asked, Made

(* What is left alone stays good while the server only makes devices. *)
LEMMA RestGood ==
  ASSUME Inv, GoodServer(server'), Grows(server, server')
  PROVE  /\ waiting' = waiting => GoodQueue(server', waiting')
         /\ stored' = stored => GoodRecord(server', stored')
         /\ call' = call => GoodCall(server', call')
         /\ GoodTask(server', Asked)
BY StaysGood, AskedFacts DEF Inv

LEMMA SameServer ==
  ASSUME Inv, server' = server
  PROVE  GoodServer(server') /\ Grows(server, server')
BY DEF Inv, Grows

LEMMA RefreshNotAttemptedGood ==
  ASSUME Inv, RefreshNotAttempted
  PROVE  Inv'
<1>1. Made(server, call.pair) /\ GoodTask(server, Asked)
  BY AskedFacts DEF RefreshNotAttempted, Answered
<1>2. GoodRecord(server, stored')
  BY <1>1, TokenRecords DEF RefreshNotAttempted
<1>3. GoodCall(server, call') /\ SentOK' /\ KeyOK'
  BY <1>1, <1>2, ContinueGood DEF RefreshNotAttempted, Inv, States
<1> QED  BY <1>2, <1>3 DEF RefreshNotAttempted, Inv, RestOK

LEMMA RefreshUnclearGood ==
  ASSUME Inv, NEW lost \in BOOLEAN, RefreshUnclear(lost)
  PROVE  Inv'
<1>1. /\ Made(server, call.pair) /\ call.pair.turn < MaxTurns
      /\ call.pair.device \in Devices
  BY AskedFacts DEF RefreshUnclear, Answered
<1>2. GoodServer(server') /\ Grows(server, server')
  BY <1>1, RefreshedGood, SameServer DEF RefreshUnclear, Inv
<1>3. GoodTask(server', Asked) /\ GoodQueue(server', waiting')
  BY <1>2, RestGood DEF RefreshUnclear
<1>4. \/ stored' = stored /\ doubtful' = doubtful /\ Continue(Asked, "unavailable")
      \/ stored' = Relink /\ Doubts(call.pair) /\ Continue(Asked, "relink_required")
  BY DEF RefreshUnclear
<1>5. GoodRecord(server', stored')
  BY <1>2, <1>4, RestGood, TokenlessRecords DEF Relink
<1>6. GoodCall(server', call') /\ SentOK' /\ KeyOK'
  BY <1>3, <1>4, <1>5, ContinueGood DEF Inv, States
<1>7. RestOK'
  BY <1>1, <1>4 DEF RefreshUnclear, Inv, RestOK, Doubts, Asked, GoodCall, GoodTask, Tasks
<1> QED  BY <1>2, <1>3, <1>5, <1>6, <1>7 DEF Inv

LEMMA RefreshGarbledGood ==
  ASSUME Inv, RefreshGarbled
  PROVE  Inv'
<1>1. /\ Made(server, call.pair) /\ call.pair.turn < MaxTurns
      /\ call.pair.device \in Devices
  BY AskedFacts DEF RefreshGarbled, Answered
<1>2. GoodServer(server') /\ Grows(server, server')
  BY <1>1, RefreshedGood DEF RefreshGarbled, Inv
<1>3. GoodTask(server', Asked) /\ GoodQueue(server', waiting')
  BY <1>2, RestGood DEF RefreshGarbled
<1>5. GoodRecord(server', stored')
  BY TokenlessRecords DEF RefreshGarbled, Relink
<1>6. GoodCall(server', call') /\ SentOK' /\ KeyOK'
  BY <1>3, <1>5, ContinueGood DEF RefreshGarbled, Inv, States
<1> QED  BY <1>1, <1>2, <1>3, <1>5, <1>6 DEF RefreshGarbled, Doubts, Inv, RestOK

LEMMA RefreshAnswersGood ==
  ASSUME Inv, RefreshAnswers
  PROVE  Inv'
<1>1. Made(server, call.pair) /\ call.pair.turn < MaxTurns
  BY AskedFacts DEF RefreshAnswers, Answered
<1> PICK x \in Refreshed(call.pair) :
       /\ server' = x.server
       /\ IF x.pair = NoPair
          THEN stored' = Relink /\ Continue(Asked, "relink_required")
          ELSE IF Asked.stale THEN Revoke(Asked, x.pair) /\ UNCHANGED key
          ELSE stored' = Record("linked", x.pair) /\ Continue(Asked, "linked")
  BY DEF RefreshAnswers
<1>2. /\ GoodServer(server') /\ Grows(server, server')
      /\ x.pair # NoPair => Made(server', x.pair)
  BY <1>1, RefreshedGood DEF Inv
<1>3. GoodTask(server', Asked) /\ GoodQueue(server', waiting')
  BY <1>2, RestGood DEF RefreshAnswers
<1>4. CASE x.pair = NoPair
  <2>1. GoodRecord(server', stored')
    BY <1>4, TokenlessRecords DEF Relink
  <2>2. GoodCall(server', call') /\ SentOK' /\ KeyOK'
    BY <1>3, <1>4, <2>1, ContinueGood DEF Inv, States
  <2> QED  BY <1>2, <1>3, <2>1, <2>2 DEF RefreshAnswers, Inv, RestOK
<1>5. CASE x.pair # NoPair /\ Asked.stale
  <2>1. GoodRecord(server', stored') /\ GoodCall(server', call') /\ SentOK'
    BY <1>2, <1>3, <1>5, RevokeGood
  <2> QED  BY <1>2, <1>3, <1>5, <2>1 DEF RefreshAnswers, Inv, RestOK, KeyOK
<1>6. CASE x.pair # NoPair /\ ~ Asked.stale
  <2>1. stored' = Record("linked", x.pair) /\ Continue(Asked, "linked")
    BY <1>6
  <2>2. GoodRecord(server', stored') /\ stored'.kind = "linked"
    BY <1>2, <1>6, <2>1, TokenRecords DEF Record
  <2>3. GoodCall(server', call') /\ SentOK' /\ KeyOK'
    BY <1>3, <2>1, <2>2, ContinueGood DEF Inv, States
  <2> QED  BY <1>2, <1>3, <2>2, <2>3 DEF RefreshAnswers, Inv, RestOK
<1> QED  BY <1>4, <1>5, <1>6

LEMMA RevokeEndsGood ==
  ASSUME Inv, RevokeAnswers \/ RevokeFails
  PROVE  Inv'
<1>1. GoodServer(server') /\ Grows(server, server')
  BY DisconnectedGood, SameServer DEF RevokeAnswers, RevokeFails, Inv
<1>2. GoodTask(server', Asked) /\ GoodQueue(server', waiting')
  BY <1>1, RestGood DEF RevokeAnswers, RevokeFails
<1>3. GoodRecord(server', stored')
  BY <1>1, RestGood, TokenlessRecords DEF RevokeAnswers, RevokeFails, Empty
<1>4. CASE key' = key /\ \E state \in {"signed_out", "error"} : Ends(Asked, state)
  <2>1. GoodCall(server', call') /\ SentOK'
    BY <1>2, <1>4, EndsGood DEF States
  <2> QED  BY <1>1, <1>2, <1>3, <1>4, <2>1 DEF RevokeAnswers, RevokeFails, Inv, RestOK, KeyOK
<1>5. CASE RevokeAnswers /\ Continue(Asked, "signed_out")
  <2>1. GoodCall(server', call') /\ SentOK' /\ KeyOK'
    BY <1>2, <1>3, <1>5, ContinueGood DEF Inv, States
  <2> QED  BY <1>1, <1>2, <1>3, <1>5, <2>1 DEF RevokeAnswers, Inv, RestOK
<1> QED  BY <1>4, <1>5 DEF RevokeAnswers, RevokeFails

LEMMA ResendAnswersGood ==
  ASSUME Inv, ResendAnswers
  PROVE  Inv'
<1>1. Made(server, call.pair) /\ call.pair.turn < MaxTurns
  BY AskedFacts DEF ResendAnswers, Answered
<1> PICK x \in Refreshed(call.pair) :
       /\ server' = x.server
       /\ IF x.pair = NoPair
          THEN stored' = Empty /\ unsure' = FALSE /\ Ends(Asked, "signed_out")
          ELSE Revoke(Asked, x.pair) /\ UNCHANGED unsure
  BY DEF ResendAnswers
<1>2. /\ GoodServer(server') /\ Grows(server, server')
      /\ x.pair # NoPair => Made(server', x.pair)
  BY <1>1, RefreshedGood DEF Inv
<1>3. GoodTask(server', Asked) /\ GoodQueue(server', waiting')
  BY <1>2, RestGood DEF ResendAnswers
<1>4. CASE x.pair = NoPair
  <2>1. GoodCall(server', call') /\ SentOK'
    BY <1>3, <1>4, EndsGood DEF States
  <2> QED  BY <1>2, <1>3, <1>4, <2>1, TokenlessRecords
           DEF ResendAnswers, Inv, RestOK, KeyOK, Empty
<1>5. CASE x.pair # NoPair
  <2>1. GoodRecord(server', stored') /\ GoodCall(server', call') /\ SentOK'
    BY <1>2, <1>3, <1>5, RevokeGood
  <2> QED  BY <1>2, <1>3, <1>5, <2>1 DEF ResendAnswers, Inv, RestOK, KeyOK
<1> QED  BY <1>4, <1>5

LEMMA ResendFailsGood ==
  ASSUME Inv, ResendFails
  PROVE  Inv'
<1>1. /\ Made(server, call.pair) /\ call.pair.turn < MaxTurns
      /\ call.pair.device \in Devices
  BY AskedFacts DEF ResendFails, Answered
<1>2. GoodServer(server') /\ Grows(server, server')
  BY <1>1, RefreshedGood, SameServer DEF ResendFails, Inv
<1>3. GoodTask(server', Asked) /\ GoodQueue(server', waiting') /\ Made(server', call.pair)
  BY <1>1, <1>2, RestGood DEF ResendFails, Made, Grows
<1>4. GoodRecord(server', stored') /\ GoodCall(server', call') /\ SentOK'
  BY <1>3, RevokeGood DEF ResendFails
<1> QED  BY <1>1, <1>2, <1>3, <1>4 DEF ResendFails, Doubts, Inv, RestOK, KeyOK

LEMMA DisposeEndsGood ==
  ASSUME Inv, NEW failed \in BOOLEAN, DisposeEnds(failed)
  PROVE  Inv'
<1>1. call.pair.device \in Devices
  BY AskedFacts DEF DisposeEnds, Answered
<1>2. GoodServer(server') /\ Grows(server, server')
  BY DisconnectedGood, SameServer DEF DisposeEnds, Inv
<1>3. GoodTask(server', Asked) /\ GoodQueue(server', waiting') /\ GoodRecord(server', stored')
  BY <1>2, RestGood DEF DisposeEnds
<1>4. \E state \in {"error", "signed_out", "linked"} : Ends(Asked, state)
  BY DEF DisposeEnds
<1>5. GoodCall(server', call') /\ SentOK'
  BY <1>3, <1>4, EndsGood DEF States
<1>6. doubtful' \subseteq Devices
  BY <1>1 DEF DisposeEnds, Inv, RestOK
<1> QED  BY <1>2, <1>3, <1>5, <1>6 DEF DisposeEnds, Inv, RestOK, KeyOK

LEMMA SettleEndsGood ==
  ASSUME Inv, NEW failed \in BOOLEAN, SettleEnds(failed)
  PROVE  Inv'
<1>1. Asked.pair # NoPair /\ Made(server, Asked.pair)
  BY AskedFacts DEF SettleEnds, Answered
<1>2. GoodServer(server') /\ Grows(server, server')
  BY DisconnectedGood, SameServer DEF SettleEnds, Inv
<1>3. GoodTask(server', Asked) /\ GoodQueue(server', waiting') /\ Made(server', Asked.pair)
  BY <1>1, <1>2, RestGood, NoPairApart DEF SettleEnds, Made, Grows
<1>4. CASE failed
  <2>1. Goes(Asked, "dispose", Asked.pair) /\ stored' = stored /\ unsure' = unsure
    BY <1>4 DEF SettleEnds
  <2>2. GoodCall(server', call') /\ SentOK' /\ GoodRecord(server', stored')
    BY <1>1, <1>2, <1>3, <2>1, GoesGood, RestGood DEF Stages
  <2> QED  BY <1>2, <1>3, <2>1, <2>2 DEF SettleEnds, Inv, RestOK, KeyOK
<1>5. CASE ~ failed
  <2>1. Adopts(Asked.pair) /\ Ends(Asked, "linked")
    BY <1>5 DEF SettleEnds
  <2>2. GoodRecord(server', stored') /\ unsure' = FALSE
    BY <1>3, <2>1, AdoptsGood
  <2>3. GoodCall(server', call') /\ SentOK'
    BY <1>3, <2>1, EndsGood DEF States
  <2> QED  BY <1>2, <1>3, <2>2, <2>3 DEF SettleEnds, Inv, RestOK, KeyOK
<1> QED  BY <1>4, <1>5

LEMMA LinkAnswersGood ==
  ASSUME Inv, LinkAnswers
  PROVE  Inv'
<1>1. GoodTask(server, Asked)
  BY AskedFacts
<1>2. \E state \in {"signed_out", "pending", "error"} : Ends(Asked, state)
  BY DEF LinkAnswers
<1>3. GoodCall(server, call') /\ SentOK'
  BY <1>1, <1>2, EndsGood DEF States
<1>4. GoodRecord(server, stored')
  BY TokenlessRecords DEF LinkAnswers, Inv, Empty
<1> QED  BY <1>3, <1>4 DEF LinkAnswers, Inv, RestOK, KeyOK

LEMMA PollApprovedGood ==
  ASSUME Inv, PollApproved
  PROVE  Inv'
<1>1. GoodServer(server') /\ Grows(server, server') /\ Made(server', First)
  BY IssuedGood DEF PollApproved, Kinds, Inv
<1>2. GoodTask(server', Asked) /\ GoodQueue(server', waiting')
  BY <1>1, RestGood DEF PollApproved
<1>3. CASE Asked.stale
  <2>1. Revoke(Asked, First) /\ key' = key /\ unsure' = unsure
    BY <1>3 DEF PollApproved
  <2>2. GoodRecord(server', stored') /\ GoodCall(server', call') /\ SentOK'
    BY <1>1, <1>2, <2>1, RevokeGood
  <2> QED  BY <1>1, <1>2, <2>1, <2>2 DEF PollApproved, Inv, RestOK, KeyOK
<1>4. CASE ~ Asked.stale
  <2>1. Adopts(First) /\ Continue(Asked, "linked")
    BY <1>4 DEF PollApproved
  <2>2. GoodRecord(server', stored') /\ stored'.kind = "linked" /\ unsure' = FALSE
    BY <1>1, <2>1, AdoptsGood
  <2>3. GoodCall(server', call') /\ SentOK' /\ KeyOK'
    BY <1>2, <2>1, <2>2, ContinueGood DEF Inv, States
  <2> QED  BY <1>1, <1>2, <2>2, <2>3 DEF PollApproved, Inv, RestOK
<1> QED  BY <1>3, <1>4

LEMMA PollElseGood ==
  ASSUME Inv, PollElse
  PROVE  Inv'
<1>1. GoodTask(server, Asked)
  BY AskedFacts
<1>2. CASE stored' = stored /\ key' = key /\ Ends(Asked, "error")
  <2>1. GoodCall(server, call') /\ SentOK'
    BY <1>1, <1>2, EndsGood DEF States
  <2> QED  BY <1>2, <2>1 DEF PollElse, Inv, RestOK, KeyOK
<1>3. CASE /\ stored' \in {Empty, Relink, stored}
           /\ \E state \in {"signed_out", "relink_required", "expired", "pending"} :
                Continue(Asked, state)
  <2>1. GoodRecord(server, stored')
    BY <1>3, TokenlessRecords DEF Inv, Empty, Relink
  <2>2. GoodCall(server, call') /\ SentOK' /\ KeyOK'
    BY <1>1, <1>3, <2>1, ContinueGood DEF Inv, States
  <2> QED  BY <2>1, <2>2 DEF PollElse, Inv, RestOK
<1> QED  BY <1>2, <1>3 DEF PollElse

LEMMA EnrollAnswersGood ==
  ASSUME Inv, EnrollAnswers
  PROVE  Inv'
<1>1. GoodServer(server') /\ Grows(server, server') /\ Made(server', First)
  BY IssuedGood DEF EnrollAnswers, Kinds, Inv
<1>2. GoodTask(server', Asked) /\ GoodQueue(server', waiting')
  BY <1>1, RestGood DEF EnrollAnswers
<1>3. KeyOK'
  BY DEF EnrollAnswers, Inv, KeyOK
<1>4. CASE Asked.stale
  <2>1. Discard(Asked, First)
    BY <1>4 DEF EnrollAnswers
  <2>2. GoodRecord(server', stored') /\ GoodCall(server', call') /\ SentOK'
    BY <1>1, <1>2, <2>1, RevokeGood
  <2> QED  BY <1>1, <1>2, <1>3, <2>2 DEF EnrollAnswers, Inv, RestOK
<1>5. CASE ~ Asked.stale
  <2>1. stored' = Record("linked", First) /\ Ends(Asked, "linked")
    BY <1>5 DEF EnrollAnswers
  <2>2. GoodRecord(server', stored')
    BY <1>1, <2>1, TokenRecords
  <2>3. GoodCall(server', call') /\ SentOK'
    BY <1>2, <2>1, EndsGood DEF States
  <2> QED  BY <1>1, <1>2, <1>3, <2>2, <2>3 DEF EnrollAnswers, Inv, RestOK
<1> QED  BY <1>4, <1>5

LEMMA EnrollFailsGood ==
  ASSUME Inv, EnrollFails
  PROVE  Inv'
<1>1. GoodCall(server, call') /\ SentOK'
  BY AskedFacts, EndsGood DEF EnrollFails, States
<1> QED  BY <1>1 DEF EnrollFails, Inv, RestOK, KeyOK, record, around

LEMMA RequestEndsGood ==
  ASSUME Inv, RequestEnds
  PROVE  Inv'
<1>1. call.pair \in Pairs
  BY AskedFacts DEF RequestEnds, Answered, Made
<1>2. GoodServer(server') /\ Grows(server, server')
  BY RevokedGood, SameServer DEF RequestEnds, Inv
<1>3. GoodTask(server', Asked) /\ GoodQueue(server', waiting')
  BY <1>2, RestGood DEF RequestEnds
<1>4. GoodRecord(server', stored')
  BY <1>2, RestGood, TokenlessRecords DEF RequestEnds, Relink
<1>5. \E state \in {"done", "relink_required"} : Ends(Asked, state)
  BY DEF RequestEnds
<1>6. GoodCall(server', call') /\ SentOK'
  BY <1>3, <1>5, EndsGood DEF States
<1>7. leaving' \in Accounts
  BY <1>1, AccountType DEF RequestEnds, Inv, RestOK
<1> QED  BY <1>2, <1>3, <1>4, <1>6, <1>7 DEF RequestEnds, Inv, RestOK, KeyOK

LEMMA AnswerGood ==
  ASSUME Inv, Answer
  PROVE  Inv'
BY RefreshNotAttemptedGood, RefreshUnclearGood, RefreshGarbledGood,
   RefreshAnswersGood, RevokeEndsGood, ResendAnswersGood, ResendFailsGood,
   DisposeEndsGood, SettleEndsGood, LinkAnswersGood, PollApprovedGood,
   PollElseGood, EnrollAnswersGood, EnrollFailsGood, RequestEndsGood DEF Answer

-----------------------------------------------------------------------------
(* The callers, the Twitch window, other devices, and the worker's death. *)

LEMMA OutdatedCall ==
  ASSUME NEW s, GoodCall(s, call)
  PROVE  GoodCall(s, [call EXCEPT !.task = Outdated(@)])
<1>1. GoodTask(s, Outdated(call.task)) /\ Outdated(call.task) \in Tasks
      /\ Outdated(call.task).op = call.task.op
  BY TaskChanges DEF GoodCall, GoodTask, Outdated, Tasks
<1> QED  BY <1>1 DEF GoodCall, CallType

LEMMA EnqueueGood ==
  ASSUME Inv, NEW t, GoodTask(server, t), Enqueue(t)
  PROVE  /\ GoodQueue(server, waiting') /\ GoodCall(server, call')
         /\ window' \in {"shut", "open", "stale"}
<1> DEFINE ts == [i \in DOMAIN waiting |->
                    IF t.op \in Bumps THEN Outdated(waiting[i]) ELSE waiting[i]]
<1>1. \A i \in DOMAIN waiting : GoodTask(server, ts[i])
  BY TaskChanges DEF Inv, GoodQueue
<1>2. GoodQueue(server, ts)
  BY <1>1, QueueMapped DEF Inv
<1>3. Len(ts) = Len(waiting)
  <2>1. waiting \in Seq(Tasks) /\ ts \in Seq(Tasks) /\ DOMAIN ts = DOMAIN waiting
    BY <1>2 DEF Inv, GoodQueue
  <2> QED  BY <2>1
<1>4. waiting' = Append(ts, t) /\ Len(waiting) < MaxWaiting
  BY DEF Enqueue, Room
<1>5. GoodQueue(server, waiting')
  <2> HIDE DEF ts
  <2> QED  BY <1>2, <1>3, <1>4, QueueAppend
<1>6. GoodCall(server, call') /\ window' \in {"shut", "open", "stale"}
  BY OutdatedCall, IdleType DEF Enqueue, OutdateAll, Inv, RestOK
<1> QED  BY <1>5, <1>6

LEMMA CallOpGood ==
  ASSUME Inv, NEW op \in Calls, CallOp(op)
  PROVE  Inv'
<1> DEFINE who == IF op = "disconnect" /\ Held THEN AccountOf(stored.pair) ELSE Nobody
<1>1. op \in Ops /\ op # "adopt"
  BY SupporterAccountAssumption
<1>2. who \in Accounts
  BY HeldPair, AccountType, NobodyType DEF Inv, Made
<1>3. GoodTask(server, Task(op, NoPair, who))
  <2> HIDE DEF who
  <2> QED  BY <1>1, <1>2, TaskType
<1>4. Enqueue(Task(op, NoPair, who))
  BY DEF CallOp
<1>5. /\ GoodQueue(server, waiting') /\ GoodCall(server, call')
      /\ window' \in {"shut", "open", "stale"}
  <2> HIDE DEF who
  <2> QED  BY <1>3, <1>4, EnqueueGood
<1> QED  BY <1>5 DEF CallOp, record, Inv, RestOK, KeyOK, SentOK

LEMMA CallForgetGood ==
  ASSUME Inv, CallForget
  PROVE  Inv'
<1>1. GoodTask(server, Task("forget", NoPair, leaving))
  BY TaskType DEF Ops, Bumps, Inv, RestOK
<1>2. /\ GoodQueue(server, waiting') /\ GoodCall(server, call')
      /\ window' \in {"shut", "open", "stale"}
  BY <1>1, EnqueueGood DEF CallForget
<1> QED  BY <1>2, NobodyType DEF CallForget, record, Inv, RestOK, KeyOK, SentOK

LEMMA OpenWindowGood ==
  ASSUME Inv, OpenWindow
  PROVE  Inv'
BY DEF OpenWindow, record, Inv, RestOK, KeyOK, SentOK

LEMMA WindowEndsGood ==
  ASSUME Inv, NEW signedIn \in BOOLEAN, WindowEnds(signedIn)
  PROVE  Inv'
<1>1. CASE signedIn
  <2>1. server' = Issued("twitch") /\ CanIssue /\ Len(waiting) < MaxWaiting
    BY <1>1 DEF WindowEnds, Room
  <2>2. GoodServer(server') /\ Grows(server, server') /\ Made(server', First)
    BY <2>1, IssuedGood DEF Kinds, Inv
  <2> DEFINE t == Task("adopt", First, Nobody)
  <2>3. GoodTask(server', t)
    BY <2>2, TaskType, NobodyType DEF Ops
  <2>4. GoodTask(server', [t EXCEPT !.stale = window = "stale"])
    <3> HIDE DEF t
    <3>1. (window = "stale") \in BOOLEAN
      OBVIOUS
    <3> QED  BY <2>3, <3>1, TaskChanges
  <2>5. waiting' = Append(waiting, [t EXCEPT !.stale = window = "stale"])
    BY <1>1 DEF WindowEnds
  <2>6. GoodQueue(server', waiting)
    BY <2>2, StaysGood DEF Inv
  <2>7. GoodQueue(server', waiting')
    <3> HIDE DEF t
    <3> QED  BY <2>1, <2>4, <2>5, <2>6, QueueAppend
  <2>8. GoodRecord(server', stored') /\ GoodCall(server', call')
    BY <2>2, StaysGood DEF WindowEnds, record, Inv
  <2> QED  BY <2>2, <2>7, <2>8 DEF WindowEnds, record, Inv, RestOK, KeyOK, SentOK
<1>2. CASE ~ signedIn
  BY <1>2 DEF WindowEnds, record, Inv, RestOK, KeyOK, SentOK
<1> QED  BY <1>1, <1>2

LEMMA RevokedElsewhereGood ==
  ASSUME Inv, NEW d \in Devices, RevokedElsewhere(d)
  PROVE  Inv'
<1>1. GoodServer(server') /\ Grows(server, server')
  BY RevokedGood DEF RevokedElsewhere, Inv
<1>2. GoodRecord(server', stored') /\ GoodCall(server', call') /\ GoodQueue(server', waiting')
  BY <1>1, RestGood DEF RevokedElsewhere, record
<1> QED  BY <1>1, <1>2 DEF RevokedElsewhere, record, around, Inv, RestOK, KeyOK, SentOK

LEMMA DieGood ==
  ASSUME Inv, Die
  PROVE  Inv'
<1>1. GoodServer(server') /\ Grows(server, server')
  <2>1. CASE UNCHANGED server
    BY <2>1, SameServer
  <2>2. CASE /\ call.stage \in {"refresh", "resend"}
             /\ \E x \in Refreshed(call.pair) : server' = x.server
    <3>1. Made(server, call.pair) /\ call.pair.turn < MaxTurns
      BY <2>2, AskedFacts
    <3> QED  BY <2>2, <3>1, RefreshedGood DEF Inv
  <2>3. CASE server' = Disconnected(call.pair)
    BY <2>3, DisconnectedGood DEF Inv
  <2> QED  BY <2>1, <2>2, <2>3 DEF Die
<1>2. GoodRecord(server', stored')
  BY <1>1, RestGood DEF Die
<1>3. GoodCall(server', call')
  BY IdleType DEF Die
<1>4. GoodQueue(server', waiting')
  BY Bounds DEF Die, GoodQueue
<1>5. doubtful' \subseteq Devices
  BY DEF Die, Inv, RestOK
<1> QED  BY <1>1, <1>2, <1>3, <1>4, <1>5, NobodyType DEF Die, Inv, RestOK, KeyOK, SentOK

-----------------------------------------------------------------------------
LEMMA InitInv == Init => Inv
<1> SUFFICES ASSUME Init PROVE Inv
  OBVIOUS
<1>1. GoodServer(server)
  BY Bounds DEF Init, GoodServer, ServerType, NoDevice
<1>2. GoodRecord(server, stored)
  BY TokenlessRecords DEF Init, Empty
<1>3. GoodCall(server, call)
  BY IdleType DEF Init
<1>4. GoodQueue(server, waiting)
  BY Bounds DEF Init, GoodQueue
<1> QED  BY <1>1, <1>2, <1>3, <1>4, NobodyType DEF Init, Inv, RestOK, KeyOK, SentOK

LEMMA NextInv == Inv /\ [Next]_vars => Inv'
<1> SUFFICES ASSUME Inv, [Next]_vars PROVE Inv'
  OBVIOUS
<1>1. ASSUME NEW t, StartCall(t) PROVE Inv'
  BY <1>1, StartCallGood
<1>2. CASE Answer
  BY <1>2, AnswerGood
<1>3. ASSUME NEW op \in Calls, CallOp(op) PROVE Inv'
  BY <1>3, CallOpGood
<1>4. CASE CallForget \/ OpenWindow \/ Die
  BY <1>4, CallForgetGood, OpenWindowGood, DieGood
<1>5. ASSUME NEW signedIn \in BOOLEAN, WindowEnds(signedIn) PROVE Inv'
  BY <1>5, WindowEndsGood
<1>6. ASSUME NEW d \in Devices, RevokedElsewhere(d) PROVE Inv'
  BY <1>6, RevokedElsewhereGood
<1>7. CASE UNCHANGED vars
  BY <1>7 DEF vars, Inv, RestOK, KeyOK, SentOK
<1> QED  BY <1>1, <1>2, <1>3, <1>4, <1>5, <1>6, <1>7 DEF Next

LEMMA InvImplies == Inv => TypeOK
<1> SUFFICES ASSUME Inv PROVE TypeOK
  OBVIOUS
<1>1. stored.pair # NoPair => KindOf(stored.pair) # "none"
  BY DEF Inv, GoodRecord, Made, KindOf
<1> QED  BY <1>1 DEF Inv, TypeOK, GoodServer, ServerType, GoodRecord, RecordType,
           GoodCall, CallType, GoodQueue, KeyOK, SentOK, RestOK

(* Whatever the server answers, loses or garbles, whenever the worker dies *)
(* and however the calls, sign-outs and Twitch windows interleave: a token *)
(* in the stored record is of a device the server has made, a connection   *)
(* and a tombstone always have their token and a signed-out or pending     *)
(* record never has one, and the queue keeps within its bound.             *)
THEOREM TypeCorrect == Spec => []TypeOK
BY InitInv, NextInv, InvImplies, PTL DEF Spec

-----------------------------------------------------------------------------
(* What a refresh may present.  A pair is in step with the server when it  *)
(* is durable, when its device is signed out, or when the device has been  *)
(* rotated exactly as often.                                               *)
Lasting(s, p) == s[p.device].kind \in {"twitch", "installation"}
InStep(s, p) ==
  Lasting(s, p) \/ ~ s[p.device].live \/ s[p.device].turn = p.turn

(* A connection can be renewed; a marker keeps durable pairs only.         *)
FitRecord(s, x) ==
  /\ x.kind \in {"linked", "due"} => InStep(s, x.pair)
  /\ x.kind = "refreshing" /\ x.pair # NoPair => Lasting(s, x.pair)

(* The Twitch window issues durable pairs. *)
FitTask(s, t) == t.op = "adopt" => Lasting(s, t.pair)

(* While a refresh is in flight nothing stored can be renewed.             *)
FitCall(s, x, c) ==
  /\ FitTask(s, c.task)
  /\ c.stage = "refresh" => x.kind = "refreshing" /\ InStep(s, c.pair)
  /\ c.stage = "resend" => Lasting(s, c.pair)

FitQueue(s, q) == \A i \in DOMAIN q : FitTask(s, q[i])

Fit ==
  /\ FitRecord(server, stored)
  /\ FitCall(server, stored, call)
  /\ FitQueue(server, waiting)

(* The step presents no refresh token. *)
Silent == \A m \in sent : m.to = "server" => m.what \notin {"refresh", "resend"}

(* The step presents none that was rotated. *)
Honest ==
  \A m \in sent' :
    m.to = "server" /\ m.what \in {"refresh", "resend"}
      /\ ~ Durable(m.pair) /\ server[m.pair.device].live
    => server[m.pair.device].turn = m.pair.turn

(* The server keeps the kind of what it made; or leaves it as it is, but   *)
(* that it may revoke it.                                                  *)
SameKinds(s, z) ==
  \A d \in Devices : s[d].kind # "none" => z[d].kind = s[d].kind
Quiet(s, z) ==
  \A d \in Devices : s[d].kind # "none" =>
    /\ z[d].kind = s[d].kind /\ z[d].turn = s[d].turn
    /\ z[d].live => s[d].live

LEMMA QuietKeepsKinds == \A s, z : Quiet(s, z) => SameKinds(s, z)
BY DEF Quiet, SameKinds

LEMMA QuietKeepsStep ==
  ASSUME NEW s, NEW z, Quiet(s, z), NEW p, Made(s, p)
  PROVE  /\ InStep(s, p) => InStep(z, p)
         /\ Lasting(s, p) => Lasting(z, p)
BY NoPairApart DEF Quiet, Made, InStep, Lasting

LEMMA FitTaskStays ==
  ASSUME NEW s, NEW z, SameKinds(s, z)
  PROVE  /\ \A t : GoodTask(s, t) /\ FitTask(s, t) => FitTask(z, t)
         /\ \A q : GoodQueue(s, q) /\ FitQueue(s, q) => FitQueue(z, q)
<1>1. \A t : GoodTask(s, t) /\ FitTask(s, t) => FitTask(z, t)
  BY NoPairApart DEF SameKinds, GoodTask, FitTask, Made, Lasting
<1> QED  BY <1>1 DEF GoodQueue, FitQueue

LEMMA FitRecordStays ==
  ASSUME NEW s, NEW z, Quiet(s, z), NEW x, GoodRecord(s, x), FitRecord(s, x)
  PROVE  FitRecord(z, x)
BY QuietKeepsStep DEF GoodRecord, FitRecord

LEMMA FitCallStays ==
  ASSUME NEW s, NEW z, Quiet(s, z), NEW x, NEW c, GoodCall(s, c), FitCall(s, x, c)
  PROVE  FitCall(z, x, c)
<1>1. FitTask(z, c.task)
  BY FitTaskStays, QuietKeepsKinds DEF GoodCall, FitCall
<1> QED  BY <1>1, QuietKeepsStep DEF GoodCall, FitCall

LEMMA QuietServer ==
  ASSUME Inv
  PROVE  /\ Quiet(server, server)
         /\ \A ds : Quiet(server, Revoked(ds))
         /\ \A p : Quiet(server, Disconnected(p))
<1>1. Quiet(server, server)
  BY DEF Quiet
<1>2. \A ds : Quiet(server, Revoked(ds))
  BY DEF Quiet, Revoked, Inv, GoodServer, ServerType
<1> QED  BY <1>1, <1>2 DEF Disconnected

LEMMA IssuedQuiet ==
  ASSUME Inv, CanIssue, NEW kind \in Kinds
  PROVE  /\ Quiet(server, Issued(kind))
         /\ Issued(kind)[First.device] = [kind |-> kind, turn |-> 0, live |-> TRUE]
         /\ First.turn = 0
<1>1. Fresh \in Devices /\ server[Fresh].kind = "none"
  BY DEF CanIssue, Fresh
<1> HIDE DEF Fresh
<1> QED  BY <1>1 DEF Quiet, Issued, First, Inv, GoodServer, ServerType

(* A refresh touches the turn of the device it is for, and its answer is   *)
(* in step.                                                                *)
LEMMA RefreshedFit ==
  ASSUME Inv, NEW p, Made(server, p), InStep(server, p), NEW x \in Refreshed(p)
  PROVE  /\ SameKinds(server, x.server)
         /\ x.pair # NoPair => InStep(x.server, x.pair)
<1> DEFINE turned == [server EXCEPT ![p.device].turn = p.turn + 1]
           next == [p EXCEPT !.turn = @ + 1]
<1>1. x.server \in {server, Revoked({p.device}), turned}
  BY DEF Refreshed
<1>2. p \in Pairs /\ p.device \in Devices /\ p.turn \in Nat
  BY NoPairApart, Bounds DEF Made
<1>3. SameKinds(server, turned)
  BY <1>2 DEF SameKinds, Inv, GoodServer, ServerType
<1>4. SameKinds(server, x.server)
  BY <1>1, <1>3, QuietServer, QuietKeepsKinds
<1>5. next.device = p.device /\ next.turn = p.turn + 1
  BY <1>2 DEF Pairs
<1>6. x.pair # NoPair => x.pair = next /\ (x.server = turned \/ Durable(p))
  BY DEF Refreshed
<1>7. turned[p.device].turn = p.turn + 1
  BY <1>2 DEF Inv, GoodServer, ServerType
<1>8. Durable(p) => Lasting(x.server, p)
  BY <1>2, <1>4 DEF Durable, KindOf, Lasting, SameKinds
<1> QED  BY <1>4, <1>5, <1>6, <1>7, <1>8 DEF InStep, Lasting

-----------------------------------------------------------------------------
LEMMA EndsFit ==
  ASSUME NEW s, NEW x, NEW t, NEW state, Ends(t, state)
  PROVE  FitCall(s, x, call') /\ Silent'
<1>1. FitCall(s, x, call')
  BY DEF Ends, FitCall, FitTask, Idle, Task
<1>2. Silent'
  BY DEF Ends, Silent
<1> QED  BY <1>1, <1>2

LEMMA GoesFit ==
  ASSUME NEW s, NEW x, NEW t, FitTask(s, t), NEW stage, NEW p,
         stage \notin {"refresh", "resend"}, Goes(t, stage, p)
  PROVE  FitCall(s, x, call') /\ Silent'
<1>1. FitCall(s, x, call')
  BY DEF Goes, FitCall
<1>2. Silent'
  BY DEF Goes, Silent
<1> QED  BY <1>1, <1>2

LEMMA ContinueFit ==
  ASSUME NEW s, NEW x, NEW t, FitTask(s, t), NEW state, Continue(t, state)
  PROVE  FitCall(s, x, call') /\ Silent'
<1>1. Goes(t, "request", stored'.pair) \/ Goes(t, "enroll", NoPair) \/ Ends(t, state)
  BY DEF Continue
<1> QED  BY <1>1, GoesFit, EndsFit

LEMMA RevokeFit ==
  ASSUME NEW s, NEW t, FitTask(s, t), NEW p, Revoke(t, p) \/ Discard(t, p)
  PROVE  FitRecord(s, stored') /\ FitCall(s, stored', call') /\ Silent'
<1>1. FitRecord(s, stored')
  BY DEF Revoke, Discard, Record, FitRecord
<1>2. Goes(t, "revoke", p) \/ Goes(t, "discard", p)
  BY DEF Revoke, Discard
<1> QED  BY <1>1, <1>2, GoesFit

LEMMA TokenlessFit ==
  \A s : FitRecord(s, Empty) /\ FitRecord(s, Relink)
         /\ FitRecord(s, Record("pending", NoPair))
BY DEF FitRecord, Empty, Relink, Record

LEMMA SilentHonest == Silent' => Honest
BY DEF Silent, Honest

(* A step that leaves the tasks of the queue what they are. *)
LEMMA ForgottenFit ==
  ASSUME NEW s, NEW q, GoodQueue(s, q), FitQueue(s, q), NEW account
  PROVE  FitQueue(s, Forgotten(q, account))
BY DEF FitQueue, FitTask, Forgotten, GoodQueue, GoodTask, Tasks

LEMMA StartFit ==
  ASSUME Inv, Fit, NEW t, Starts(t)
  PROVE  FitTask(server, t) /\ FitQueue(server, Tail(waiting))
<1>1. waiting \in Seq(Tasks) /\ waiting # <<>> /\ t = Head(waiting)
  BY DEF Inv, GoodQueue, Starts
<1>2. 1 \in DOMAIN waiting /\ t = waiting[1]
  BY <1>1
<1>3. \A i \in DOMAIN Tail(waiting) : i + 1 \in DOMAIN waiting /\ Tail(waiting)[i] = waiting[i + 1]
  BY <1>1
<1> QED  BY <1>2, <1>3 DEF Fit, FitQueue

-----------------------------------------------------------------------------
(* The steps again: the start of a call. *)

LEMMA StartOutdatedFit ==
  ASSUME Inv, Fit, NEW t, StartOutdated(t)
  PROVE  Fit' /\ Honest
<1>1. FitTask(server, t) /\ FitQueue(server, Tail(waiting))
  BY StartFit DEF StartOutdated
<1>2. FitCall(server, stored', call') /\ Silent'
  BY <1>1, ContinueFit DEF StartOutdated
<1> QED  BY <1>1, <1>2, SilentHonest DEF StartOutdated, Fit

LEMMA StartRevokingFit ==
  ASSUME Inv, Fit, NEW t, StartRevoking(t)
  PROVE  Fit' /\ Honest
<1>1. FitTask(server, t) /\ FitQueue(server, Tail(waiting))
  BY StartFit DEF StartRevoking, Performs
<1>2. Goes(t, "revoke", stored.pair) \/ Continue(t, "error")
  BY DEF StartRevoking
<1>3. FitCall(server, stored', call') /\ Silent'
  BY <1>1, <1>2, GoesFit, ContinueFit
<1> QED  BY <1>1, <1>3, SilentHonest DEF StartRevoking, Fit

(* A sign-out resends the refresh of a marker: a durable pair.             *)
LEMMA StartDisconnectFit ==
  ASSUME Inv, Fit, NEW t, StartDisconnect(t)
  PROVE  Fit' /\ Honest
<1> DEFINE gone == [t EXCEPT !.who = Nobody]
<1>1. FitTask(server, t) /\ FitQueue(server, Tail(waiting)) /\ GoodTask(server, t)
      /\ GoodQueue(server, Tail(waiting))
  BY StartFit, StartFacts DEF StartDisconnect, Performs
<1>2. FitTask(server, gone)
  BY <1>1 DEF FitTask, GoodTask, Tasks
<1>3. FitQueue(server, Tail(waiting))
      /\ FitQueue(server, Forgotten(Tail(waiting), AccountOf(stored.pair)))
  BY <1>1, ForgottenFit
<1>4. FitQueue(server, waiting') /\ server' = server
  BY <1>3 DEF StartDisconnect
<1>5. CASE Held /\ Linked
  <2>1. Revoke(gone, stored.pair)
    BY <1>5 DEF StartDisconnect
  <2>2. FitRecord(server, stored') /\ FitCall(server, stored', call') /\ Silent'
    BY <1>2, <2>1, RevokeFit
  <2> QED  BY <1>4, <2>2, SilentHonest DEF Fit
<1>6. CASE Held /\ ~ Linked
  <2>1. Lasting(server, stored.pair)
    BY <1>6 DEF Held, Fit, FitRecord
  <2>2. stored' = Record("revoking", stored.pair) /\ Goes(gone, "resend", stored.pair)
    BY <1>6 DEF StartDisconnect
  <2>3. FitRecord(server, stored') /\ FitCall(server, stored', call')
    BY <1>2, <2>1, <2>2 DEF FitRecord, Record, FitCall, Goes
  <2>4. Honest
    BY <2>1, <2>2 DEF Honest, Goes, Durable, KindOf, Lasting
  <2> QED  BY <1>4, <2>3, <2>4 DEF Fit
<1>7. CASE ~ Held
  <2>1. stored' = Empty /\ \E state : Ends(t, state)
    BY <1>7 DEF StartDisconnect
  <2>2. FitRecord(server, stored') /\ FitCall(server, stored', call') /\ Silent'
    BY <2>1, EndsFit, TokenlessFit
  <2> QED  BY <1>4, <2>2, SilentHonest DEF Fit
<1> QED  BY <1>5, <1>6, <1>7

LEMMA StartCancelFit ==
  ASSUME Inv, Fit, NEW t, StartCancel(t)
  PROVE  Fit' /\ Honest
<1>1. FitQueue(server, Tail(waiting))
  BY StartFit DEF StartCancel, Performs
<1>2. FitCall(server, stored', call') /\ Silent'
  BY EndsFit DEF StartCancel
<1>3. FitRecord(server, stored')
  BY TokenlessFit DEF StartCancel, Fit
<1> QED  BY <1>1, <1>2, <1>3, SilentHonest DEF StartCancel, Fit

LEMMA StartInterruptedFit ==
  ASSUME Inv, Fit, NEW t, StartInterrupted(t)
  PROVE  Fit' /\ Honest
<1>1. FitTask(server, t) /\ FitQueue(server, Tail(waiting))
  BY StartFit DEF StartInterrupted, Reads, Performs
<1>2. FitCall(server, stored', call') /\ Silent'
  BY <1>1, ContinueFit DEF StartInterrupted
<1> QED  BY <1>1, <1>2, SilentHonest, TokenlessFit DEF StartInterrupted, Fit

(* A renewal presents the pair held, which is in step, and puts a marker.  *)
LEMMA RenewsFit ==
  ASSUME Inv, Fit, NEW t, FitTask(server, t), Held, Renews(t)
  PROVE  FitRecord(server, stored') /\ FitCall(server, stored', call') /\ Honest
<1>1. InStep(server, stored.pair)
  BY DEF Held, Linked, Fit, FitRecord, InStep
<1>2. /\ stored'.kind = "refreshing"
      /\ stored'.pair # NoPair => stored'.pair = stored.pair /\ Durable(stored.pair)
      /\ Goes(t, "refresh", stored.pair)
  BY DEF Renews, Record
<1>3. FitRecord(server, stored')
  BY <1>2 DEF FitRecord, Durable, KindOf, Lasting
<1>4. FitCall(server, stored', call')
  BY <1>1, <1>2 DEF FitCall, Goes
<1>5. Honest
  BY <1>1, <1>2 DEF Honest, Goes, InStep, Durable, KindOf, Lasting
<1> QED  BY <1>3, <1>4, <1>5

LEMMA StartHeldFit ==
  ASSUME Inv, Fit, NEW t, StartHeld(t)
  PROVE  Fit' /\ Honest
<1>1. FitTask(server, t) /\ FitQueue(server, Tail(waiting))
  BY StartFit DEF StartHeld, Reads, Performs
<1>2. CASE stored' \in {stored, Relink} /\ \E state : Continue(t, state)
  <2>1. FitCall(server, stored', call') /\ Silent'
    BY <1>1, <1>2, ContinueFit
  <2>2. FitRecord(server, stored')
    BY <1>2, TokenlessFit DEF Fit
  <2> QED  BY <1>1, <2>1, <2>2, SilentHonest DEF StartHeld, Fit
<1>3. CASE Renews(t)
  BY <1>1, <1>3, RenewsFit DEF StartHeld, Fit
<1> QED  BY <1>2, <1>3 DEF StartHeld

LEMMA StartPendingFit ==
  ASSUME Inv, Fit, NEW t, StartPending(t)
  PROVE  Fit' /\ Honest
<1>1. FitTask(server, t) /\ FitQueue(server, Tail(waiting))
  BY StartFit DEF StartPending, Reads, Performs
<1>2. stored' \in {stored, Empty}
      /\ (Goes(t, "poll", NoPair) \/ \E state : Continue(t, state))
  BY DEF StartPending
<1>3. FitCall(server, stored', call') /\ Silent'
  BY <1>1, <1>2, GoesFit, ContinueFit
<1>4. FitRecord(server, stored')
  BY <1>2, TokenlessFit DEF Fit
<1> QED  BY <1>1, <1>3, <1>4, SilentHonest DEF StartPending, Fit

LEMMA StartEmptyFit ==
  ASSUME Inv, Fit, NEW t, StartEmpty(t)
  PROVE  Fit' /\ Honest
<1>1. FitTask(server, t) /\ FitQueue(server, Tail(waiting))
  BY StartFit DEF StartEmpty, Reads, Performs
<1>2. stored' = stored /\ (Goes(t, "link", NoPair) \/ \E state : Continue(t, state))
  BY DEF StartEmpty
<1>3. FitCall(server, stored', call') /\ Silent'
  BY <1>1, <1>2, GoesFit, ContinueFit
<1> QED  BY <1>1, <1>2, <1>3, SilentHonest DEF StartEmpty, Fit

LEMMA StartForgetFit ==
  ASSUME Inv, Fit, NEW t, StartForget(t)
  PROVE  Fit' /\ Honest
<1>1. FitQueue(server, Forgotten(Tail(waiting), t.who))
  BY StartFit, StartFacts, ForgottenFit DEF StartForget
<1>2. FitCall(server, stored', call') /\ Silent'
  BY EndsFit DEF StartForget
<1> QED  BY <1>1, <1>2, SilentHonest, TokenlessFit DEF StartForget, Fit

LEMMA StartAdoptFit ==
  ASSUME Inv, Fit, NEW t, StartAdopt(t)
  PROVE  Fit' /\ Honest
<1>1. FitTask(server, t) /\ FitQueue(server, Tail(waiting))
  BY StartFit DEF StartAdopt
<1>2. CASE stored' = stored /\ (Goes(t, "dispose", t.pair) \/ Goes(t, "settle", stored.pair))
  <2>1. \E stage \in {"dispose", "settle"}, p \in {t.pair, stored.pair} : Goes(t, stage, p)
    BY <1>2
  <2>2. FitCall(server, stored', call') /\ Silent'
    BY <1>1, <2>1, GoesFit
  <2> QED  BY <1>1, <1>2, <2>2, SilentHonest DEF StartAdopt, Fit
<1>3. CASE Revoke(t, t.pair)
  <2>1. FitRecord(server, stored') /\ FitCall(server, stored', call') /\ Silent'
    BY <1>1, <1>3, RevokeFit
  <2> QED  BY <1>1, <2>1, SilentHonest DEF StartAdopt, Fit
<1>4. CASE Adopts(t.pair) /\ Ends(t, "linked")
  <2>1. FitRecord(server, stored')
    BY <1>1, <1>4 DEF StartAdopt, Adopts, Record, FitRecord, FitTask, InStep
  <2>2. FitCall(server, stored', call') /\ Silent'
    BY <1>4, EndsFit
  <2> QED  BY <1>1, <2>1, <2>2, SilentHonest DEF StartAdopt, Fit
<1> QED  BY <1>2, <1>3, <1>4 DEF StartAdopt

LEMMA StartCallFit ==
  ASSUME Inv, Fit, NEW t, StartCall(t)
  PROVE  Fit' /\ Honest
BY StartOutdatedFit, StartRevokingFit, StartDisconnectFit, StartCancelFit,
   StartInterruptedFit, StartHeldFit, StartPendingFit, StartEmptyFit,
   StartForgetFit, StartAdoptFit DEF StartCall

-----------------------------------------------------------------------------
(* The steps again: the answers.  None is followed by another refresh.     *)

LEMMA AskedFit ==
  ASSUME Inv, Fit, SameKinds(server, server')
  PROVE  /\ FitTask(server', Asked)
         /\ waiting' = waiting => FitQueue(server', waiting')
BY FitTaskStays, AskedFacts DEF Inv, Fit, FitCall, Asked

LEMMA QuietFit ==
  ASSUME Inv, Fit, Quiet(server, server')
  PROVE  /\ SameKinds(server, server')
         /\ stored' = stored => FitRecord(server', stored')
         /\ stored' = stored /\ call' = call => FitCall(server', stored', call')
BY QuietKeepsKinds, FitRecordStays, FitCallStays DEF Inv, Fit

LEMMA RefreshNotAttemptedFit ==
  ASSUME Inv, Fit, RefreshNotAttempted
  PROVE  Fit' /\ Silent'
<1>1. SameKinds(server, server') /\ server' = server
  BY DEF RefreshNotAttempted, SameKinds
<1>2. FitTask(server', Asked) /\ FitQueue(server', waiting')
  BY <1>1, AskedFit DEF RefreshNotAttempted
<1>3. FitRecord(server', stored')
  BY <1>1 DEF RefreshNotAttempted, Answered, Fit, FitCall, FitRecord, Record
<1>4. FitCall(server', stored', call') /\ Silent'
  BY <1>2, ContinueFit DEF RefreshNotAttempted
<1> QED  BY <1>2, <1>3, <1>4 DEF Fit

LEMMA RefreshedSteps ==
  ASSUME Inv, Fit, call.stage \in {"refresh", "resend"},
         NEW x \in Refreshed(call.pair)
  PROVE  /\ SameKinds(server, x.server) /\ SameKinds(server, server)
         /\ x.pair # NoPair => InStep(x.server, x.pair)
<1>1. Made(server, call.pair) /\ InStep(server, call.pair)
  BY AskedFacts DEF Fit, FitCall, InStep
<1> QED  BY <1>1, RefreshedFit DEF SameKinds

LEMMA RefreshUnclearFit ==
  ASSUME Inv, Fit, NEW lost \in BOOLEAN, RefreshUnclear(lost)
  PROVE  Fit' /\ Silent'
<1>1. SameKinds(server, server')
  BY RefreshedSteps DEF RefreshUnclear, Answered
<1>2. FitTask(server', Asked) /\ FitQueue(server', waiting')
  BY <1>1, AskedFit DEF RefreshUnclear
<1>3. stored' \in {stored, Relink} /\ \E state : Continue(Asked, state)
  BY DEF RefreshUnclear
<1>4. stored.kind = "refreshing" /\ (stored.pair # NoPair => Lasting(server, stored.pair))
  BY DEF RefreshUnclear, Answered, Fit, FitCall, FitRecord
<1>5. stored.pair # NoPair => Lasting(server', stored.pair)
  BY <1>1, <1>4, NoPairApart DEF Inv, GoodRecord, Made, Lasting, SameKinds
<1>6. FitRecord(server', stored')
  BY <1>3, <1>4, <1>5, TokenlessFit DEF FitRecord
<1>7. FitCall(server', stored', call') /\ Silent'
  BY <1>2, <1>3, ContinueFit
<1> QED  BY <1>2, <1>6, <1>7 DEF Fit

LEMMA RefreshGarbledFit ==
  ASSUME Inv, Fit, RefreshGarbled
  PROVE  Fit' /\ Silent'
<1>1. SameKinds(server, server')
  BY RefreshedSteps DEF RefreshGarbled, Answered
<1>2. FitTask(server', Asked) /\ FitQueue(server', waiting')
  BY <1>1, AskedFit DEF RefreshGarbled
<1>3. FitCall(server', stored', call') /\ Silent'
  BY <1>2, ContinueFit DEF RefreshGarbled
<1> QED  BY <1>2, <1>3, TokenlessFit DEF RefreshGarbled, Fit

LEMMA RefreshAnswersFit ==
  ASSUME Inv, Fit, RefreshAnswers
  PROVE  Fit' /\ Silent'
<1> PICK x \in Refreshed(call.pair) :
       /\ server' = x.server
       /\ IF x.pair = NoPair
          THEN stored' = Relink /\ Continue(Asked, "relink_required")
          ELSE IF Asked.stale THEN Revoke(Asked, x.pair) /\ UNCHANGED key
          ELSE stored' = Record("linked", x.pair) /\ Continue(Asked, "linked")
  BY DEF RefreshAnswers
<1>1. SameKinds(server, server') /\ (x.pair # NoPair => InStep(server', x.pair))
  BY RefreshedSteps DEF RefreshAnswers, Answered
<1>2. FitTask(server', Asked) /\ FitQueue(server', waiting')
  BY <1>1, AskedFit DEF RefreshAnswers
<1>3. CASE Revoke(Asked, x.pair)
  <2>1. FitRecord(server', stored') /\ FitCall(server', stored', call') /\ Silent'
    BY <1>2, <1>3, RevokeFit
  <2> QED  BY <1>2, <2>1 DEF Fit
<1>4. CASE /\ stored' = Relink \/ (x.pair # NoPair /\ stored' = Record("linked", x.pair))
           /\ \E state : Continue(Asked, state)
  <2>1. FitRecord(server', stored')
    BY <1>1, <1>4, TokenlessFit DEF FitRecord, Record
  <2>2. FitCall(server', stored', call') /\ Silent'
    BY <1>2, <1>4, ContinueFit
  <2> QED  BY <1>2, <2>1, <2>2 DEF Fit
<1> QED  BY <1>3, <1>4

LEMMA RevokeEndsFit ==
  ASSUME Inv, Fit, RevokeAnswers \/ RevokeFails
  PROVE  Fit' /\ Silent'
<1>1. Quiet(server, server')
  BY QuietServer DEF RevokeAnswers, RevokeFails
<1>2. FitQueue(server', waiting')
  BY <1>1, QuietFit, AskedFit DEF RevokeAnswers, RevokeFails
<1>3. FitRecord(server', stored')
  BY <1>1, QuietFit, TokenlessFit DEF RevokeAnswers, RevokeFails
<1>4. FitCall(server', stored', call') /\ Silent'
  <2>1. FitTask(server', Asked)
    BY <1>1, QuietFit, AskedFit DEF RevokeAnswers, RevokeFails
  <2> QED  BY <2>1, ContinueFit, EndsFit DEF RevokeAnswers, RevokeFails
<1> QED  BY <1>2, <1>3, <1>4 DEF Fit

LEMMA ResendAnswersFit ==
  ASSUME Inv, Fit, ResendAnswers
  PROVE  Fit' /\ Silent'
<1>1. SameKinds(server, server')
  BY RefreshedSteps DEF ResendAnswers, Answered
<1>2. FitTask(server', Asked) /\ FitQueue(server', waiting')
  BY <1>1, AskedFit DEF ResendAnswers
<1>3. (stored' = Empty /\ Ends(Asked, "signed_out")) \/ \E p : Revoke(Asked, p)
  BY DEF ResendAnswers
<1>4. FitRecord(server', stored') /\ FitCall(server', stored', call') /\ Silent'
  BY <1>2, <1>3, EndsFit, TokenlessFit, RevokeFit
<1> QED  BY <1>2, <1>4 DEF Fit

LEMMA ResendFailsFit ==
  ASSUME Inv, Fit, ResendFails
  PROVE  Fit' /\ Silent'
<1>1. SameKinds(server, server')
  BY RefreshedSteps DEF ResendFails, Answered
<1>2. FitTask(server', Asked) /\ FitQueue(server', waiting')
  BY <1>1, AskedFit DEF ResendFails
<1>3. FitRecord(server', stored') /\ FitCall(server', stored', call') /\ Silent'
  BY <1>2, RevokeFit DEF ResendFails
<1> QED  BY <1>2, <1>3 DEF Fit

LEMMA DisposeEndsFit ==
  ASSUME Inv, Fit, NEW failed \in BOOLEAN, DisposeEnds(failed)
  PROVE  Fit' /\ Silent'
<1>1. Quiet(server, server')
  BY QuietServer DEF DisposeEnds
<1>2. FitQueue(server', waiting') /\ FitRecord(server', stored')
  BY <1>1, QuietFit, AskedFit DEF DisposeEnds
<1>3. FitCall(server', stored', call') /\ Silent'
  BY EndsFit DEF DisposeEnds
<1> QED  BY <1>2, <1>3 DEF Fit

LEMMA SettleEndsFit ==
  ASSUME Inv, Fit, NEW failed \in BOOLEAN, SettleEnds(failed)
  PROVE  Fit' /\ Silent'
<1>1. Quiet(server, server')
  BY QuietServer DEF SettleEnds
<1>2. FitTask(server', Asked) /\ FitQueue(server', waiting')
  BY <1>1, QuietFit, AskedFit DEF SettleEnds
<1>3. CASE stored' = stored /\ Goes(Asked, "dispose", Asked.pair)
  <2>1. FitCall(server', stored', call') /\ Silent'
    BY <1>2, <1>3, GoesFit
  <2> QED  BY <1>1, <1>2, <1>3, <2>1, QuietFit DEF Fit
<1>4. CASE Adopts(Asked.pair) /\ Ends(Asked, "linked")
  <2>1. Asked.op = "adopt"
    BY DEF Inv, GoodCall, SettleEnds, Answered, Asked
  <2>2. FitRecord(server', stored')
    BY <1>2, <1>4, <2>1 DEF Adopts, Record, FitRecord, FitTask, InStep
  <2>3. FitCall(server', stored', call') /\ Silent'
    BY <1>4, EndsFit
  <2> QED  BY <1>2, <2>2, <2>3 DEF Fit
<1> QED  BY <1>3, <1>4 DEF SettleEnds

LEMMA LinkAnswersFit ==
  ASSUME Inv, Fit, LinkAnswers
  PROVE  Fit' /\ Silent'
<1>1. FitCall(server', stored', call') /\ Silent'
  BY EndsFit DEF LinkAnswers
<1>2. FitRecord(server', stored')
  BY TokenlessFit DEF LinkAnswers, Fit
<1> QED  BY <1>1, <1>2 DEF LinkAnswers, Fit

LEMMA PollApprovedFit ==
  ASSUME Inv, Fit, PollApproved
  PROVE  Fit' /\ Silent'
<1>1. Quiet(server, server') /\ InStep(server', First)
  BY IssuedQuiet DEF PollApproved, Kinds, InStep
<1>2. FitTask(server', Asked) /\ FitQueue(server', waiting')
  BY <1>1, QuietFit, AskedFit DEF PollApproved
<1>3. CASE Revoke(Asked, First)
  <2>1. FitRecord(server', stored') /\ FitCall(server', stored', call') /\ Silent'
    BY <1>2, <1>3, RevokeFit
  <2> QED  BY <1>2, <2>1 DEF Fit
<1>4. CASE Adopts(First) /\ Continue(Asked, "linked")
  <2>1. FitRecord(server', stored')
    BY <1>1, <1>4 DEF Adopts, Record, FitRecord
  <2>2. FitCall(server', stored', call') /\ Silent'
    BY <1>2, <1>4, ContinueFit
  <2> QED  BY <1>2, <2>1, <2>2 DEF Fit
<1> QED  BY <1>3, <1>4 DEF PollApproved

LEMMA PollElseFit ==
  ASSUME Inv, Fit, PollElse
  PROVE  Fit' /\ Silent'
<1>1. FitTask(server, Asked)
  BY DEF Fit, FitCall, Asked
<1>2. stored' \in {stored, Empty, Relink}
      /\ (Ends(Asked, "error") \/ \E state : Continue(Asked, state))
  BY DEF PollElse
<1>3. FitRecord(server, stored')
  BY <1>2, TokenlessFit DEF Fit
<1>4. FitCall(server, stored', call') /\ Silent'
  BY <1>1, <1>2, ContinueFit, EndsFit
<1> QED  BY <1>3, <1>4 DEF PollElse, Fit

LEMMA EnrollAnswersFit ==
  ASSUME Inv, Fit, EnrollAnswers
  PROVE  Fit' /\ Silent'
<1>1. Quiet(server, server') /\ InStep(server', First)
  BY IssuedQuiet DEF EnrollAnswers, Kinds, InStep
<1>2. FitTask(server', Asked) /\ FitQueue(server', waiting')
  BY <1>1, QuietFit, AskedFit DEF EnrollAnswers
<1>3. CASE Discard(Asked, First)
  <2>1. FitRecord(server', stored') /\ FitCall(server', stored', call') /\ Silent'
    BY <1>2, <1>3, RevokeFit
  <2> QED  BY <1>2, <2>1 DEF Fit
<1>4. CASE stored' = Record("linked", First) /\ Ends(Asked, "linked")
  <2>1. FitRecord(server', stored')
    BY <1>1, <1>4 DEF Record, FitRecord
  <2>2. FitCall(server', stored', call') /\ Silent'
    BY <1>4, EndsFit
  <2> QED  BY <1>2, <2>1, <2>2 DEF Fit
<1> QED  BY <1>3, <1>4 DEF EnrollAnswers

LEMMA EnrollFailsFit ==
  ASSUME Inv, Fit, EnrollFails
  PROVE  Fit' /\ Silent'
<1>1. FitCall(server, stored, call') /\ Silent'
  BY EndsFit DEF EnrollFails
<1> QED  BY <1>1 DEF EnrollFails, Fit, record

LEMMA RequestEndsFit ==
  ASSUME Inv, Fit, RequestEnds
  PROVE  Fit' /\ Silent'
<1>1. Quiet(server, server')
  BY QuietServer DEF RequestEnds
<1>2. FitQueue(server', waiting')
  BY <1>1, QuietFit, AskedFit DEF RequestEnds
<1>3. FitRecord(server', stored')
  BY <1>1, QuietFit, TokenlessFit DEF RequestEnds
<1>4. FitCall(server', stored', call') /\ Silent'
  BY EndsFit DEF RequestEnds
<1> QED  BY <1>2, <1>3, <1>4 DEF Fit

LEMMA AnswerFit ==
  ASSUME Inv, Fit, Answer
  PROVE  Fit' /\ Silent'
BY RefreshNotAttemptedFit, RefreshUnclearFit, RefreshGarbledFit,
   RefreshAnswersFit, RevokeEndsFit, ResendAnswersFit, ResendFailsFit,
   DisposeEndsFit, SettleEndsFit, LinkAnswersFit, PollApprovedFit, PollElseFit,
   EnrollAnswersFit, EnrollFailsFit, RequestEndsFit DEF Answer

-----------------------------------------------------------------------------
(* The steps again: the surroundings, which present nothing.               *)

LEMMA EmptySilent == sent' = {} => Silent'
BY DEF Silent

LEMMA OutdatedFit ==
  ASSUME NEW s, NEW t \in Tasks, FitTask(s, t)
  PROVE  FitTask(s, Outdated(t))
BY DEF FitTask, Outdated, Tasks

LEMMA AppendFit ==
  ASSUME NEW s, NEW q \in Seq(Tasks), FitQueue(s, q), NEW t \in Tasks, FitTask(s, t)
  PROVE  FitQueue(s, Append(q, t))
<1>1. \A i \in DOMAIN Append(q, t) :
        (i \in DOMAIN q /\ Append(q, t)[i] = q[i]) \/ Append(q, t)[i] = t
  OBVIOUS
<1> QED  BY <1>1 DEF FitQueue

LEMMA EnqueueFit ==
  ASSUME Inv, Fit, NEW t, GoodTask(server, t), t.op # "adopt", Enqueue(t)
  PROVE  FitQueue(server, waiting') /\ FitCall(server, stored, call')
<1> DEFINE ts == [i \in DOMAIN waiting |->
                    IF t.op \in Bumps THEN Outdated(waiting[i]) ELSE waiting[i]]
<1>1. \A i \in DOMAIN waiting : GoodTask(server, ts[i]) /\ FitTask(server, ts[i])
  BY TaskChanges, OutdatedFit DEF Inv, GoodQueue, GoodTask, Fit, FitQueue
<1>2. ts \in Seq(Tasks) /\ FitQueue(server, ts)
  <2>1. GoodQueue(server, ts)
    BY <1>1, QueueMapped DEF Inv
  <2> QED  BY <1>1, <2>1 DEF GoodQueue, FitQueue
<1>3. waiting' = Append(ts, t) /\ t \in Tasks /\ FitTask(server, t)
  BY DEF Enqueue, GoodTask, FitTask
<1>4. FitQueue(server, waiting')
  <2> HIDE DEF ts
  <2> QED  BY <1>2, <1>3, AppendFit
<1>5. FitCall(server, stored, [call EXCEPT !.task = Outdated(@)])
  <2>1. FitTask(server, Outdated(call.task))
    BY OutdatedFit DEF Inv, GoodCall, GoodTask, Fit, FitCall
  <2> QED  BY <2>1 DEF Inv, GoodCall, CallType, Fit, FitCall
<1>6. FitCall(server, stored, call')
  BY <1>5 DEF Enqueue, OutdateAll, Fit
<1> QED  BY <1>4, <1>6

LEMMA CallOpFit ==
  ASSUME Inv, Fit, NEW op \in Calls, CallOp(op)
  PROVE  Fit' /\ Silent'
<1> DEFINE who == IF op = "disconnect" /\ Held THEN AccountOf(stored.pair) ELSE Nobody
           t == Task(op, NoPair, who)
<1>1. op \in Ops /\ op # "adopt"
  BY SupporterAccountAssumption
<1>2. who \in Accounts
  BY HeldPair, AccountType, NobodyType DEF Inv, Made
<1>3. GoodTask(server, t) /\ t.op # "adopt"
  <2> HIDE DEF who
  <2>1. t.op = op
    BY DEF Task
  <2> QED  BY <1>1, <1>2, <2>1, TaskType
<1>4. Enqueue(t)
  BY DEF CallOp
<1>5. FitQueue(server, waiting') /\ FitCall(server, stored, call')
  <2> HIDE DEF t
  <2> QED  BY <1>3, <1>4, EnqueueFit
<1> QED  BY <1>5, EmptySilent DEF CallOp, record, Fit

LEMMA CallForgetFit ==
  ASSUME Inv, Fit, CallForget
  PROVE  Fit' /\ Silent'
<1>1. GoodTask(server, Task("forget", NoPair, leaving))
  BY TaskType DEF Ops, Bumps, Inv, RestOK
<1>2. Task("forget", NoPair, leaving).op # "adopt"
  BY DEF Task
<1>3. FitQueue(server, waiting') /\ FitCall(server, stored, call')
  BY <1>1, <1>2, EnqueueFit DEF CallForget
<1> QED  BY <1>3, EmptySilent DEF CallForget, record, Fit

LEMMA OpenWindowFit ==
  ASSUME Inv, Fit, OpenWindow
  PROVE  Fit' /\ Silent'
BY EmptySilent DEF OpenWindow, record, Fit

LEMMA WindowEndsFit ==
  ASSUME Inv, Fit, NEW signedIn \in BOOLEAN, WindowEnds(signedIn)
  PROVE  Fit' /\ Silent'
<1>1. CASE signedIn
  <2> DEFINE t == [Task("adopt", First, Nobody) EXCEPT !.stale = window = "stale"]
  <2>1. CanIssue /\ server' = Issued("twitch") /\ waiting' = Append(waiting, t)
    BY <1>1 DEF WindowEnds
  <2>2. Quiet(server, server') /\ server'[First.device].kind = "twitch"
    BY <2>1, IssuedQuiet DEF Kinds
  <2>3. FitQueue(server', waiting) /\ waiting \in Seq(Tasks)
    BY <2>2, QuietKeepsKinds, FitTaskStays DEF Inv, Fit, GoodQueue
  <2>4. First \in Pairs
    BY <2>1, IssuedGood DEF Kinds, Inv, Made
  <2>5. t \in Tasks /\ FitTask(server', t)
    BY <2>2, <2>4, NobodyType DEF Task, Tasks, Ops, FitTask, Lasting
  <2>6. FitQueue(server', waiting')
    <3> HIDE DEF t
    <3> QED  BY <2>1, <2>3, <2>5, AppendFit
  <2> QED  BY <2>2, <2>6, QuietFit, EmptySilent DEF WindowEnds, record, Fit
<1>2. CASE ~ signedIn
  BY <1>2, EmptySilent DEF WindowEnds, record, Fit
<1> QED  BY <1>1, <1>2

LEMMA RevokedElsewhereFit ==
  ASSUME Inv, Fit, NEW d \in Devices, RevokedElsewhere(d)
  PROVE  Fit' /\ Silent'
<1>1. Quiet(server, server')
  BY QuietServer DEF RevokedElsewhere
<1> QED  BY <1>1, QuietFit, AskedFit, EmptySilent DEF RevokedElsewhere, record, Fit

(* A worker that dies during a renewal leaves the marker.                  *)
LEMMA DieFit ==
  ASSUME Inv, Fit, Die
  PROVE  Fit' /\ Silent'
<1>1. FitCall(server', stored', call') /\ FitQueue(server', waiting')
  BY DEF Die, FitCall, FitTask, FitQueue, Idle, Task
<1>2. FitRecord(server', stored')
  <2>1. CASE Quiet(server, server')
    BY <2>1, QuietFit DEF Die
  <2>2. CASE /\ call.stage \in {"refresh", "resend"}
             /\ \E x \in Refreshed(call.pair) : server' = x.server
    <3>1. SameKinds(server, server')
      BY <2>2, RefreshedSteps
    <3>2. CASE stored.kind = "refreshing"
      BY <3>1, <3>2, NoPairApart
         DEF Die, Inv, GoodRecord, Made, Fit, FitRecord, Lasting, SameKinds
    <3>3. CASE stored.kind # "refreshing"
      <4>1. Lasting(server, call.pair) /\ call.pair \in Pairs
        BY <2>2, <3>3, AskedFacts DEF Fit, FitCall, Made
      <4>2. \A d \in Devices : d # call.pair.device => server'[d] \in {server[d], [server[d] EXCEPT !.live = FALSE]}
        BY <2>2, <4>1 DEF Refreshed, Revoked, Inv, GoodServer, ServerType
      <4>3. ASSUME NEW p, Made(server, p), InStep(server, p)
            PROVE  InStep(server', p)
        <5>1. CASE p.device = call.pair.device
          BY <3>1, <4>1, <4>3, <5>1, NoPairApart DEF InStep, Lasting, SameKinds, Made
        <5>2. CASE p.device # call.pair.device
          BY <4>2, <4>3, <5>2, NoPairApart
             DEF InStep, Lasting, Made, Inv, GoodServer, ServerType
        <5> QED  BY <5>1, <5>2
      <4> QED  BY <3>3, <4>3 DEF Die, Inv, GoodRecord, Fit, FitRecord
    <3> QED  BY <3>2, <3>3
  <2> QED  BY <2>1, <2>2, QuietServer DEF Die
<1> QED  BY <1>1, <1>2, EmptySilent DEF Die, Fit

LEMMA InitFit == Init => Fit
BY DEF Init, Fit, FitRecord, FitCall, FitTask, FitQueue, Empty, Record, Idle, Task

LEMMA NextFit == Inv /\ Fit /\ Next => Fit' /\ Honest
<1> SUFFICES ASSUME Inv, Fit, Next PROVE Fit' /\ Honest
  OBVIOUS
<1>1. ASSUME NEW t, StartCall(t) PROVE Fit' /\ Honest
  BY <1>1, StartCallFit
<1>2. CASE Answer
  BY <1>2, AnswerFit, SilentHonest
<1>3. ASSUME NEW op \in Calls, CallOp(op) PROVE Fit' /\ Honest
  BY <1>3, CallOpFit, SilentHonest
<1>4. CASE CallForget \/ OpenWindow \/ Die
  BY <1>4, CallForgetFit, OpenWindowFit, DieFit, SilentHonest
<1>5. ASSUME NEW signedIn \in BOOLEAN, WindowEnds(signedIn) PROVE Fit' /\ Honest
  BY <1>5, WindowEndsFit, SilentHonest
<1>6. ASSUME NEW d \in Devices, RevokedElsewhere(d) PROVE Fit' /\ Honest
  BY <1>6, RevokedElsewhereFit, SilentHonest
<1> QED  BY <1>1, <1>2, <1>3, <1>4, <1>5, <1>6 DEF Next

LEMMA StutterFit == Fit /\ UNCHANGED vars => Fit'
BY DEF vars, Fit

(* Whatever answers are lost, unclear or garbled, whenever the worker dies *)
(* and wherever a sign-out falls: the only refreshes sent are of the pair  *)
(* stored, which a lost answer has taken out of the store, and of durable  *)
(* pairs; so a linked device's token is not sent after its rotation.       *)
THEOREM TokenNeverReplayed == Spec => NeverReplayed
<1>1. Inv /\ Fit /\ [Next]_vars => Inv' /\ Fit'
  BY NextInv, NextFit, StutterFit
<1>2. Inv /\ Fit /\ [Next]_vars => [Honest]_vars
  BY NextFit
<1>3. Spec => [][Honest]_vars
  BY <1>1, <1>2, InitInv, InitFit, PTL DEF Spec
<1> QED  BY <1>3 DEF NeverReplayed, Honest

-----------------------------------------------------------------------------
(* The shape of a step: what becomes of the queue and of the call at its   *)
(* head.  A task keeps its operation and its pair; a sign-out may outdate  *)
(* it and take the account it was pressed for from it.                     *)

SameTask(u, t) ==
  u.op = t.op /\ u.pair = t.pair /\ u.who \in {t.who, Nobody}

(* Task i of the queue is there after the step, from place j before it.    *)
Popped ==
  \A i \in DOMAIN waiting' :
    i + 1 \in DOMAIN waiting /\ SameTask(waiting'[i], waiting[i + 1])

Joins(t) ==
  \A i \in DOMAIN waiting' :
    \/ i \in DOMAIN waiting /\ SameTask(waiting'[i], waiting[i])
    \/ i \notin DOMAIN waiting /\ i = Len(waiting) + 1 /\ waiting'[i] = t

SameCall ==
  /\ call'.stage = call.stage /\ call'.pair = call.pair
  /\ SameTask(call'.task, call.task)
  /\ call = Idle => call' = Idle

LEMMA Places ==
  ASSUME NEW s, NEW q, GoodQueue(s, q)
  PROVE  DOMAIN q = 1 .. Len(q) /\ Len(q) \in Nat
BY DEF GoodQueue

LEMMA TailPlaces ==
  ASSUME NEW s, NEW q, GoodQueue(s, q), q # <<>>
  PROVE  /\ 1 \in DOMAIN q /\ Head(q) = q[1]
         /\ \A i \in DOMAIN Tail(q) : i + 1 \in DOMAIN q /\ Tail(q)[i] = q[i + 1]
<1>1. q \in Seq(Tasks)
  BY DEF GoodQueue
<1> QED  BY <1>1

LEMMA TailPopped ==
  ASSUME Inv, waiting # <<>>, NEW account,
         \/ waiting' = Tail(waiting)
         \/ waiting' = Forgotten(Tail(waiting), account)
  PROVE  Popped
<1>1. \A i \in DOMAIN Tail(waiting) :
        i + 1 \in DOMAIN waiting /\ Tail(waiting)[i] = waiting[i + 1]
  BY TailPlaces DEF Inv
<1>2. \A i \in DOMAIN waiting : waiting[i] \in Tasks
  BY DEF Inv, GoodQueue, GoodTask
<1>3. CASE waiting' = Tail(waiting)
  BY <1>1, <1>3 DEF Popped, SameTask
<1>4. CASE waiting' = Forgotten(Tail(waiting), account)
  <2>1. DOMAIN waiting' = DOMAIN Tail(waiting)
    BY <1>4 DEF Forgotten
  <2>2. ASSUME NEW i \in DOMAIN Tail(waiting)
        PROVE  SameTask(waiting'[i], Tail(waiting)[i])
    BY <1>1, <1>2, <1>4 DEF Forgotten, SameTask, Tasks
  <2> QED  BY <1>1, <2>1, <2>2 DEF Popped
<1> QED  BY <1>3, <1>4

LEMMA CallStarts ==
  ASSUME Inv, NEW t, StartCall(t)
  PROVE  /\ call.stage = "idle" /\ 1 \in DOMAIN waiting /\ t = waiting[1]
         /\ GoodTask(server, t)
         /\ Popped
         /\ UNCHANGED <<server, window, leaving, doubtful>>
         /\ call' = Idle \/ (call'.stage # "idle" /\ SameTask(call'.task, t))
<1>1. Starts(t)
  BY DEF StartCall, StartOutdated, StartRevoking, StartDisconnect, StartCancel,
         StartInterrupted, StartHeld, StartPending, StartEmpty, StartForget,
         StartAdopt, Performs, Reads
<1>2. UNCHANGED <<server, window, leaving, doubtful>>
  BY DEF StartCall, StartOutdated, StartRevoking, StartDisconnect, StartCancel,
         StartInterrupted, StartHeld, StartPending, StartEmpty, StartForget,
         StartAdopt
<1>3. \/ waiting' = Tail(waiting)
      \/ \E account : waiting' = Forgotten(Tail(waiting), account)
  BY DEF StartCall, StartOutdated, StartRevoking, StartDisconnect, StartCancel,
         StartInterrupted, StartHeld, StartPending, StartEmpty, StartForget,
         StartAdopt
<1>4. GoodTask(server, t) /\ t \in Tasks
  BY <1>1, StartFacts DEF GoodTask
<1>5. \/ call' = Idle
      \/ \E stage \in Stages \ {"idle"} : \E p :
           \E u \in {t, [t EXCEPT !.who = Nobody]} : Goes(u, stage, p)
  <2>1. CASE StartOutdated(t) \/ StartRevoking(t) \/ StartInterrupted(t)
    BY <2>1 DEF StartOutdated, StartRevoking, StartInterrupted, Continue, Ends, Stages
  <2>2. CASE StartDisconnect(t)
    BY <2>2 DEF StartDisconnect, Revoke, Ends, Stages
  <2>3. CASE StartCancel(t) \/ StartForget(t)
    BY <2>3 DEF StartCancel, StartForget, Ends
  <2>4. CASE StartHeld(t)
    BY <2>4 DEF StartHeld, Continue, Renews, Ends, Stages
  <2>5. CASE StartPending(t) \/ StartEmpty(t)
    BY <2>5 DEF StartPending, StartEmpty, Continue, Ends, Stages
  <2>6. CASE StartAdopt(t)
    BY <2>6 DEF StartAdopt, Revoke, Ends, Stages
  <2> QED  BY <2>1, <2>2, <2>3, <2>4, <2>5, <2>6 DEF StartCall
<1>6. call' = Idle \/ (call'.stage # "idle" /\ SameTask(call'.task, t))
  <2>1. ASSUME NEW stage \in Stages \ {"idle"}, NEW p,
               NEW u \in {t, [t EXCEPT !.who = Nobody]}, Goes(u, stage, p)
        PROVE  call'.stage # "idle" /\ SameTask(call'.task, t)
    <3>1. call'.stage = stage /\ call'.task = u
      BY <2>1 DEF Goes
    <3>2. SameTask(u, t)
      BY <1>4 DEF SameTask, Tasks
    <3> QED  BY <3>1, <3>2
  <2> QED  BY <1>5, <2>1
<1>7. waiting # <<>> /\ t = Head(waiting) /\ call.stage = "idle"
  BY <1>1 DEF Starts
<1> QED  BY <1>2, <1>3, <1>4, <1>6, <1>7, TailPopped, TailPlaces DEF Inv

LEMMA CallGoesOn ==
  ASSUME Inv, Answer
  PROVE  /\ call.stage # "idle" /\ UNCHANGED <<waiting, window>>
         /\ call' = Idle \/ (call'.stage # "idle" /\ call'.task = call.task)
         /\ \/ leaving' = leaving
            \/ /\ call.stage = "request" /\ call.task.op = "everywhere" /\ call' = Idle
               /\ leaving' = AccountOf(call.pair)
               /\ server' = Revoked({p.device : p \in {q \in Pairs :
                               AccountOf(q) = AccountOf(call.pair)}})
<1>1. call.stage # "idle" /\ UNCHANGED <<waiting, window>>
  BY DEF Answer, Answered, RefreshNotAttempted, RefreshUnclear, RefreshGarbled,
         RefreshAnswers, RevokeAnswers, RevokeFails, ResendAnswers, ResendFails,
         DisposeEnds, SettleEnds, LinkAnswers, PollApproved, PollElse,
         EnrollAnswers, EnrollFails, RequestEnds, around
<1>2. ~ RequestEnds => leaving' = leaving
  BY DEF Answer, RefreshNotAttempted, RefreshUnclear, RefreshGarbled,
         RefreshAnswers, RevokeAnswers, RevokeFails, ResendAnswers, ResendFails,
         DisposeEnds, SettleEnds, LinkAnswers, PollApproved, PollElse,
         EnrollAnswers, EnrollFails, around
<1>3. RequestEnds => call' = Idle /\ call.stage = "request"
  BY DEF RequestEnds, Ends, Answered
<1>4. RequestEnds => \/ leaving' = leaving
                     \/ /\ call.task.op = "everywhere" /\ leaving' = AccountOf(call.pair)
                        /\ server' = Revoked({p.device : p \in {q \in Pairs :
                                       AccountOf(q) = AccountOf(call.pair)}})
  BY DEF RequestEnds, Asked
<1>5. \/ call' = Idle
      \/ \E stage \in Stages \ {"idle"} : \E p : Goes(call.task, stage, p)
  <2>1. ASSUME NEW state, Continue(call.task, state)
        PROVE  call' = Idle \/ \E stage \in Stages \ {"idle"} : \E p : Goes(call.task, stage, p)
    BY <2>1 DEF Continue, Ends, Stages
  <2>2. ASSUME NEW p, Revoke(call.task, p) \/ Discard(call.task, p)
        PROVE  \E stage \in Stages \ {"idle"} : Goes(call.task, stage, p)
    BY <2>2 DEF Revoke, Discard, Stages
  <2>3. CASE RefreshNotAttempted \/ (\E lost \in BOOLEAN : RefreshUnclear(lost)) \/ RefreshGarbled
    BY <2>1, <2>3 DEF RefreshNotAttempted, RefreshUnclear, RefreshGarbled, Asked
  <2>4. CASE RefreshAnswers
    BY <2>1, <2>2, <2>4 DEF RefreshAnswers, Asked
  <2>5. CASE RevokeAnswers \/ RevokeFails \/ LinkAnswers \/ EnrollFails \/ RequestEnds
    BY <2>1, <2>5
       DEF RevokeAnswers, RevokeFails, LinkAnswers, EnrollFails, RequestEnds, Ends, Asked
  <2>6. CASE ResendAnswers \/ ResendFails
    BY <2>2, <2>6 DEF ResendAnswers, ResendFails, Ends, Asked
  <2>7. ASSUME NEW failed \in BOOLEAN, DisposeEnds(failed) \/ SettleEnds(failed)
        PROVE  call' = Idle \/ \E stage \in Stages \ {"idle"} : \E p : Goes(call.task, stage, p)
    BY <2>7 DEF DisposeEnds, SettleEnds, Ends, Asked, Stages
  <2>8. CASE PollApproved \/ PollElse \/ EnrollAnswers
    BY <2>1, <2>2, <2>8 DEF PollApproved, PollElse, EnrollAnswers, Ends, Asked
  <2> QED  BY <2>3, <2>4, <2>5, <2>6, <2>7, <2>8 DEF Answer
<1>6. call' = Idle \/ (call'.stage # "idle" /\ call'.task = call.task)
  BY <1>5 DEF Goes
<1> QED  BY <1>1, <1>2, <1>3, <1>4, <1>6

LEMMA AppendJoins ==
  ASSUME Inv, NEW ts, NEW t, waiting' = Append(ts, t),
         ts \in Seq(Tasks), Len(ts) = Len(waiting),
         \A i \in DOMAIN waiting : SameTask(ts[i], waiting[i])
  PROVE  Joins(t)
<1>1. DOMAIN waiting = 1 .. Len(waiting) /\ Len(waiting) \in Nat
  BY Places DEF Inv
<1>2. \A i \in DOMAIN waiting' :
        \/ i \in DOMAIN waiting /\ waiting'[i] = ts[i]
        \/ i = Len(waiting) + 1 /\ waiting'[i] = t
  BY <1>1
<1> QED  BY <1>1, <1>2 DEF Joins

LEMMA CallComes ==
  ASSUME Inv, NEW t, Enqueue(t)
  PROVE  Joins(t) /\ SameCall /\ window' \in {window, IF window = "open" THEN "stale" ELSE window}
<1> DEFINE ts == [i \in DOMAIN waiting |->
                    IF t.op \in Bumps THEN Outdated(waiting[i]) ELSE waiting[i]]
<1>1. \A i \in DOMAIN waiting : waiting[i] \in Tasks /\ Outdated(waiting[i]) \in Tasks
                                 /\ SameTask(Outdated(waiting[i]), waiting[i])
  BY DEF Inv, GoodQueue, GoodTask, Tasks, Outdated, SameTask
<1>2. \A i \in DOMAIN waiting : ts[i] \in Tasks /\ SameTask(ts[i], waiting[i])
  BY <1>1 DEF SameTask
<1>3. DOMAIN waiting = 1 .. Len(waiting) /\ Len(waiting) \in Nat
  BY Places DEF Inv
<1>4. ts \in Seq(Tasks) /\ Len(ts) = Len(waiting)
  <2>1. ts \in [1 .. Len(waiting) -> Tasks]
    BY <1>2, <1>3
  <2> HIDE DEF ts
  <2> QED  BY <1>3, <2>1
<1>5. waiting' = Append(ts, t)
  BY DEF Enqueue
<1>6. Joins(t)
  <2> HIDE DEF ts
  <2> QED  BY <1>2, <1>4, <1>5, AppendJoins
<1>7. call' \in {call, [call EXCEPT !.task = Outdated(@)]} /\ (call = Idle => call' = Idle)
  BY DEF Enqueue, OutdateAll
<1>8. SameCall
  BY <1>7 DEF Inv, GoodCall, CallType, Tasks, Outdated, SameTask, SameCall
<1>9. window' \in {window, IF window = "open" THEN "stale" ELSE window}
  BY DEF Enqueue, OutdateAll
<1> QED  BY <1>6, <1>8, <1>9

(* The window closes, with a pair of a device the server has just made or  *)
(* without one.                                                            *)
Adoption == [Task("adopt", First, Nobody) EXCEPT !.stale = window = "stale"]

LEMMA WindowCloses ==
  ASSUME Inv, NEW signedIn \in BOOLEAN, WindowEnds(signedIn)
  PROVE  /\ window # "shut" /\ window' = "shut"
         /\ UNCHANGED <<stored, key, unsure, call, leaving, doubtful>>
         /\ \/ ~ signedIn /\ UNCHANGED <<server, waiting>>
            \/ /\ signedIn /\ CanIssue /\ server' = Issued("twitch") /\ Joins(Adoption)
               /\ Made(server', First) /\ Adoption.op = "adopt" /\ Adoption.pair = First
<1>1. /\ window # "shut" /\ window' = "shut"
      /\ UNCHANGED <<stored, key, unsure, call, leaving, doubtful>>
  BY DEF WindowEnds, record
<1>2. CASE ~ signedIn
  BY <1>1, <1>2 DEF WindowEnds
<1>3. CASE signedIn
  <2>1. CanIssue /\ server' = Issued("twitch") /\ waiting' = Append(waiting, Adoption)
    BY <1>3 DEF WindowEnds, Adoption
  <2>2. Made(server', First)
    BY <2>1, IssuedGood DEF Kinds, Inv
  <2>3. \A i \in DOMAIN waiting : SameTask(waiting[i], waiting[i])
    BY DEF SameTask
  <2>4. Joins(Adoption)
    <3> HIDE DEF Adoption
    <3> QED  BY <2>1, <2>3, AppendJoins DEF Inv, GoodQueue
  <2>5. Adoption.op = "adopt" /\ Adoption.pair = First
    BY DEF Adoption, Task
  <2> QED  BY <1>1, <1>3, <2>1, <2>2, <2>4, <2>5
<1> QED  BY <1>2, <1>3

-----------------------------------------------------------------------------
(* What the record holds while a call has a request in flight: the marker  *)
(* of a refresh, the tombstone of a revocation, the connection a request   *)
(* goes under.  Only adoptions bring a pair of their own.                  *)
AgreeCall(s, x, c) ==
  /\ c.stage = "idle" => c = Idle
  /\ c.stage = "refresh" =>
       x = Record("refreshing", IF Lasting(s, c.pair) THEN c.pair ELSE NoPair)
  /\ c.stage \in {"revoke", "discard", "resend", "settle"} => x = Record("revoking", c.pair)
  /\ c.stage = "request" => x = Record("linked", c.pair)
  /\ c.stage = "poll" => x.kind = "pending"
  /\ c.stage = "link" => x.kind \in {"none", "relink"} /\ c.task.op = "start"
  /\ c.stage \in {"link", "poll", "enroll"} => c.pair = NoPair
  /\ c.stage \in {"enroll", "discard"} => c.task.op \in Enrolls
  /\ c.stage = "dispose" => c.task.op = "adopt"
  /\ c.task.op = "adopt" =>
       \/ c.stage \in {"revoke", "dispose"} /\ c.pair = c.task.pair
       \/ c.stage = "settle"

BringsOwn(t) == t.op # "adopt" => t.pair = NoPair

Agree ==
  /\ AgreeCall(server, stored, call)
  /\ BringsOwn(call.task)
  /\ \A i \in DOMAIN waiting : BringsOwn(waiting[i])

Agreed == AgreeCall(server', stored', call')

LEMMA RecordFields ==
  \A kind, p : Record(kind, p).kind = kind /\ Record(kind, p).pair = p
BY DEF Record

LEMMA RecordOf ==
  ASSUME NEW s, NEW x, GoodRecord(s, x)
  PROVE  x = Record(x.kind, x.pair)
BY DEF GoodRecord, RecordType, Record

LEMMA IdleAgrees == \A s, x : AgreeCall(s, x, Idle)
BY DEF AgreeCall, Idle, Task

LEMMA EndsAgree ==
  ASSUME NEW t, NEW state, Ends(t, state)
  PROVE  Agreed
BY IdleAgrees DEF Ends, Agreed

LEMMA ContinueAgrees ==
  ASSUME NEW t, NEW state, Continue(t, state),
         state = "linked" => stored' = Record("linked", stored'.pair)
  PROVE  Agreed
<1>1. \/ state = "linked" /\ t.op # "adopt" /\ Goes(t, "request", stored'.pair)
      \/ t.op \in Enrolls /\ t.op # "adopt" /\ Goes(t, "enroll", NoPair)
      \/ Ends(t, state)
  BY DEF Continue, MayEnroll, Enrolls
<1> QED  BY <1>1, EndsAgree DEF Goes, Agreed, AgreeCall

LEMMA RevokeAgrees ==
  ASSUME NEW t, NEW p, t.op # "adopt" \/ p = t.pair, Revoke(t, p)
  PROVE  Agreed
BY DEF Revoke, Goes, Agreed, AgreeCall

LEMMA DiscardAgrees ==
  ASSUME NEW t, NEW p, t.op \in Enrolls, Discard(t, p)
  PROVE  Agreed
BY DEF Discard, Goes, Agreed, AgreeCall, Enrolls

LEMMA IdleStage == Idle.stage = "idle" /\ Idle.pair = NoPair
BY DEF Idle

LEMMA ContinueStage ==
  ASSUME NEW t, NEW state, Continue(t, state)
  PROVE  call'.stage \in {"idle", "request", "enroll"}
BY IdleStage DEF Continue, Ends, Goes

LEMMA StartAgrees ==
  ASSUME Inv, Agree, NEW t, StartCall(t)
  PROVE  Agreed
<1>1. GoodTask(server, t) /\ t \in Tasks /\ server' = server
  BY CallStarts DEF GoodTask
<1>2. stored = Record(stored.kind, stored.pair)
  BY RecordOf DEF Inv
<1>3. CASE StartOutdated(t)
  BY <1>3, ContinueAgrees DEF StartOutdated
<1>4. CASE StartRevoking(t)
  <2>1. CASE t.op = "disconnect"
    BY <1>2, <1>4, <2>1 DEF StartRevoking, Goes, Agreed, AgreeCall
  <2> QED  BY <1>4, <2>1, ContinueAgrees DEF StartRevoking, Performs
<1>5. CASE StartDisconnect(t)
  <2> DEFINE gone == [t EXCEPT !.who = Nobody]
  <2>1. t.op = "disconnect" /\ gone.op = "disconnect"
    BY <1>1, <1>5 DEF StartDisconnect, Tasks
  <2>2. \/ Revoke(gone, stored.pair)
        \/ stored' = Record("revoking", stored.pair) /\ Goes(gone, "resend", stored.pair)
        \/ \E state : Ends(t, state)
    BY <1>5 DEF StartDisconnect
  <2> HIDE DEF gone
  <2> QED  BY <2>1, <2>2, RevokeAgrees, EndsAgree DEF Goes, Agreed, AgreeCall
<1>6. CASE StartCancel(t) \/ StartForget(t)
  BY <1>6, EndsAgree DEF StartCancel, StartForget
<1>7. CASE StartInterrupted(t)
  BY <1>7, ContinueAgrees DEF StartInterrupted, Reads, Performs
<1>8. CASE StartHeld(t)
  <2>1. CASE Renews(t)
    BY <1>1, <1>8, <2>1
       DEF StartHeld, Reads, Performs, Renews, Goes, Agreed, AgreeCall, Durable, KindOf, Lasting
  <2>2. CASE stored.kind = "linked" /\ stored' = stored /\ Continue(t, "linked")
    BY <1>2, <1>8, <2>2, ContinueAgrees DEF StartHeld, Reads, Performs
  <2>3. CASE Continue(t, "relink_required") \/ Continue(t, "unavailable")
    BY <1>8, <2>3, ContinueAgrees DEF StartHeld, Reads, Performs
  <2> QED  BY <1>8, <2>1, <2>2, <2>3 DEF StartHeld
<1>9. CASE StartPending(t)
  <2>1. CASE stored' = stored /\ Goes(t, "poll", NoPair)
    BY <1>9, <2>1 DEF StartPending, Reads, Performs, Goes, Agreed, AgreeCall
  <2>2. CASE Continue(t, "expired") \/ Continue(t, "pending")
    BY <1>9, <2>2, ContinueAgrees DEF StartPending, Reads, Performs
  <2> QED  BY <1>9, <2>1, <2>2 DEF StartPending
<1>10. CASE StartEmpty(t)
  <2>1. CASE Goes(t, "link", NoPair)
    <3>1. t.op = "start"
      <4>1. CASE t.op # "start"
        <5>1. call'.stage \in {"idle", "request", "enroll"}
          BY <1>10, <4>1, ContinueStage DEF StartEmpty
        <5> QED  BY <2>1, <5>1 DEF Goes
      <4> QED  BY <4>1
    <3>2. stored' = stored /\ stored.kind \in {"none", "relink"}
      BY <1>10 DEF StartEmpty
    <3> QED  BY <2>1, <3>1, <3>2 DEF Goes, Agreed, AgreeCall
  <2>2. CASE Continue(t, "relink_required") \/ Continue(t, "signed_out")
    BY <1>10, <2>2, ContinueAgrees DEF StartEmpty, Reads, Performs
  <2> QED  BY <1>10, <2>1, <2>2 DEF StartEmpty
<1>11. CASE StartAdopt(t)
  <2>1. t.op = "adopt"
    BY <1>11 DEF StartAdopt
  <2>2. \/ Goes(t, "dispose", t.pair)
        \/ stored.kind = "revoking" /\ stored' = stored /\ Goes(t, "settle", stored.pair)
        \/ Revoke(t, t.pair)
        \/ Ends(t, "linked")
    BY <1>11 DEF StartAdopt
  <2> QED  BY <1>2, <2>1, <2>2, RevokeAgrees, EndsAgree DEF Goes, Agreed, AgreeCall
<1> QED  BY <1>3, <1>4, <1>5, <1>6, <1>7, <1>8, <1>9, <1>10, <1>11 DEF StartCall

LEMMA AnswerAgrees ==
  ASSUME Inv, Agree, Answer
  PROVE  Agreed
<1> USE DEF Asked, Answered
<1>1. AgreeCall(server, stored, call)
  BY DEF Agree
<1>2. CASE RefreshNotAttempted \/ RefreshGarbled \/ RefreshAnswers
           \/ (\E lost \in BOOLEAN : RefreshUnclear(lost))
  <2>1. call.task.op # "adopt"
    BY <1>1, <1>2
       DEF RefreshNotAttempted, RefreshGarbled, RefreshAnswers, RefreshUnclear, AgreeCall
  <2>2. \/ \E state : state # "linked" /\ Continue(call.task, state)
        \/ \E p : Revoke(call.task, p)
        \/ \E p : stored' = Record("linked", p) /\ Continue(call.task, "linked")
    BY <1>2 DEF RefreshNotAttempted, RefreshGarbled, RefreshAnswers, RefreshUnclear
  <2> QED  BY <2>1, <2>2, ContinueAgrees, RevokeAgrees, RecordFields
<1>3. CASE RevokeAnswers \/ RevokeFails \/ EnrollFails \/ LinkAnswers \/ RequestEnds
  <2>1. \/ \E state : Ends(call.task, state)
        \/ Continue(call.task, "signed_out")
    BY <1>3 DEF RevokeAnswers, RevokeFails, EnrollFails, LinkAnswers, RequestEnds
  <2> QED  BY <2>1, EndsAgree, ContinueAgrees
<1>4. CASE ResendAnswers \/ ResendFails
  <2>1. call.task.op # "adopt"
    BY <1>1, <1>4 DEF ResendAnswers, ResendFails, AgreeCall
  <2> QED  BY <1>4, <2>1, EndsAgree, RevokeAgrees DEF ResendAnswers, ResendFails
<1>5. ASSUME NEW failed \in BOOLEAN, DisposeEnds(failed) \/ SettleEnds(failed)
      PROVE  Agreed
  <2>1. CASE \E state : Ends(call.task, state)
    BY <2>1, EndsAgree
  <2>2. CASE call.stage = "settle" /\ Goes(call.task, "dispose", call.task.pair)
    <3>1. call.task.op = "adopt"
      BY <2>2 DEF Inv, GoodCall
    <3> QED  BY <2>2, <3>1 DEF Goes, Agreed, AgreeCall
  <2> QED  BY <1>5, <2>1, <2>2 DEF DisposeEnds, SettleEnds
<1>6. CASE PollApproved \/ PollElse
  <2>1. call.task.op # "adopt"
    BY <1>1, <1>6 DEF PollApproved, PollElse, AgreeCall
  <2>2. \/ \E state : Ends(call.task, state)
        \/ \E p : Revoke(call.task, p)
        \/ \E state : state # "linked" /\ Continue(call.task, state)
        \/ stored' = Record("linked", First) /\ Continue(call.task, "linked")
    BY <1>6 DEF PollApproved, PollElse, Adopts
  <2> QED  BY <2>1, <2>2, EndsAgree, ContinueAgrees, RevokeAgrees, RecordFields
<1>7. CASE EnrollAnswers
  <2>1. call.task.op \in Enrolls
    BY <1>1, <1>7 DEF EnrollAnswers, AgreeCall
  <2> QED  BY <1>7, <2>1, EndsAgree, DiscardAgrees DEF EnrollAnswers
<1> QED  BY <1>2, <1>3, <1>4, <1>5, <1>6, <1>7 DEF Answer

(* A call in flight agrees with the record whatever becomes of the other   *)
(* devices and however many sign-outs outdate it.                          *)
LEMMA AgreeStays ==
  ASSUME Inv, Agree, SameCall, stored' = stored, SameKinds(server, server')
  PROVE  Agreed
<1>1. AgreeCall(server, stored, call)
  BY DEF Agree
<1>2. call.stage = "refresh" => (Lasting(server, call.pair) <=> Lasting(server', call.pair))
  BY NoPairApart DEF Inv, GoodCall, Made, SameKinds, Lasting
<1>3. /\ call'.stage = call.stage /\ call'.pair = call.pair
      /\ call'.task.op = call.task.op /\ call'.task.pair = call.task.pair
      /\ call = Idle => call' = Idle
  BY DEF SameCall, SameTask
<1> QED  BY <1>1, <1>2, <1>3 DEF Agreed, AgreeCall

LEMMA SameCallKept == Inv /\ call' = call => SameCall
BY DEF SameCall, SameTask

LEMMA SelfKinds == \A s : SameKinds(s, s)
BY DEF SameKinds

LEMMA BringsStays ==
  ASSUME NEW u, NEW t, SameTask(u, t), BringsOwn(t)
  PROVE  BringsOwn(u)
BY DEF SameTask, BringsOwn

LEMMA NextAgree == Inv /\ Agree /\ [Next]_vars => Agree'
<1> SUFFICES ASSUME Inv, Agree, [Next]_vars PROVE Agree'
  OBVIOUS
<1>1. BringsOwn(Idle.task)
  BY DEF BringsOwn, Idle, Task
<1>2. \A i \in DOMAIN waiting : BringsOwn(waiting[i])
  BY DEF Agree
<1>3. ASSUME NEW t, StartCall(t)
      PROVE  Agree'
  <2>1. BringsOwn(call'.task)
    BY <1>1, <1>2, <1>3, CallStarts, BringsStays
  <2>2. \A i \in DOMAIN waiting' : BringsOwn(waiting'[i])
    BY <1>2, <1>3, CallStarts, BringsStays DEF Popped
  <2> QED  BY <1>3, <2>1, <2>2, StartAgrees DEF Agree, Agreed
<1>4. CASE Answer
  <2>1. BringsOwn(call'.task)
    BY <1>1, <1>4, CallGoesOn DEF Agree
  <2> QED  BY <1>2, <1>4, <2>1, CallGoesOn, AnswerAgrees DEF Agree, Agreed
<1>5. ASSUME NEW t, Enqueue(t), t.op # "adopt" /\ t.pair = NoPair,
             UNCHANGED <<server, stored>>
      PROVE  Agree'
  <2>1. Joins(t) /\ SameCall
    BY <1>5, CallComes
  <2>2. \A i \in DOMAIN waiting' : BringsOwn(waiting'[i])
    BY <1>2, <1>5, <2>1, BringsStays DEF Joins, BringsOwn
  <2>3. BringsOwn(call'.task)
    BY <2>1, BringsStays DEF SameCall, Agree
  <2> QED  BY <1>5, <2>1, <2>2, <2>3, AgreeStays, SelfKinds DEF Agree, Agreed
<1>6. ASSUME NEW op \in Calls, CallOp(op)
      PROVE  Agree'
  BY <1>5, <1>6, SupporterAccountAssumption DEF CallOp, Task, record
<1>7. CASE CallForget
  BY <1>5, <1>7 DEF CallForget, Task, record
<1>8. ASSUME NEW signedIn \in BOOLEAN, WindowEnds(signedIn)
      PROVE  Agree'
  <2>1. call' = call /\ stored' = stored /\ SameKinds(server, server')
    BY <1>8, WindowCloses, IssuedQuiet, QuietKeepsKinds, SelfKinds DEF Kinds
  <2>2. \A i \in DOMAIN waiting' : BringsOwn(waiting'[i])
    BY <1>2, <1>8, WindowCloses, BringsStays DEF Joins, BringsOwn
  <2> QED  BY <2>1, <2>2, AgreeStays, SameCallKept DEF Agree, Agreed
<1>9. CASE OpenWindow \/ UNCHANGED vars
  <2>1. UNCHANGED <<server, stored, call, waiting>>
    BY <1>9 DEF OpenWindow, record, vars
  <2> QED  BY <2>1 DEF Agree
<1>10. ASSUME NEW d \in Devices, RevokedElsewhere(d)
       PROVE  Agree'
  <2>1. UNCHANGED <<stored, call, waiting>> /\ SameKinds(server, server')
    BY <1>10, QuietServer, QuietKeepsKinds DEF RevokedElsewhere, record
  <2> QED  BY <1>2, <2>1, AgreeStays, SameCallKept DEF Agree, Agreed
<1>11. CASE Die
  <2>1. call' = Idle /\ waiting' = <<>>
    BY <1>11 DEF Die
  <2> QED  BY <1>1, <2>1, IdleAgrees DEF Agree
<1> QED  BY <1>3, <1>4, <1>6, <1>7, <1>8, <1>9, <1>10, <1>11 DEF Next

LEMMA InitAgree == Init => Agree
<1> SUFFICES ASSUME Init PROVE Agree
  OBVIOUS
<1>1. call = Idle /\ waiting = <<>>
  BY DEF Init
<1>2. BringsOwn(call.task)
  BY <1>1 DEF BringsOwn, Idle, Task
<1> QED  BY <1>1, <1>2, IdleAgrees DEF Agree

LEMMA OutdatedAnswer ==
  ASSUME Inv, Agree, Answer, call.task.stale, call.stage # "settle", Linked'
  PROVE  stored'.pair \in {stored.pair, call.pair}
<1> USE DEF Asked, Answered
<1>1. \A p : ~ Revoke(call.task, p) /\ ~ Discard(call.task, p)
  BY RecordFields DEF Revoke, Discard, Linked
<1>2. stored' # Empty /\ stored' # Relink /\ stored' # Record("pending", NoPair)
  BY RecordFields DEF Empty, Relink, Linked
<1>3. CASE RefreshNotAttempted \/ RefreshGarbled \/ RefreshAnswers
           \/ (\E lost \in BOOLEAN : RefreshUnclear(lost))
  BY <1>1, <1>2, <1>3, RecordFields
     DEF RefreshNotAttempted, RefreshGarbled, RefreshAnswers, RefreshUnclear
<1>4. CASE RevokeAnswers \/ RevokeFails \/ EnrollFails \/ LinkAnswers \/ RequestEnds
  BY <1>2, <1>4 DEF RevokeAnswers, RevokeFails, EnrollFails, LinkAnswers, RequestEnds, record
<1>5. CASE ResendAnswers \/ ResendFails
  BY <1>1, <1>2, <1>5 DEF ResendAnswers, ResendFails
<1>6. CASE \E failed \in BOOLEAN : DisposeEnds(failed) \/ SettleEnds(failed)
  BY <1>6 DEF DisposeEnds, SettleEnds
<1>7. CASE PollApproved \/ PollElse \/ EnrollAnswers
  BY <1>1, <1>2, <1>7 DEF PollApproved, PollElse, EnrollAnswers
<1> QED  BY <1>3, <1>4, <1>5, <1>6, <1>7 DEF Answer

LEMMA StepsOfOthers ==
  ASSUME Inv, [Next]_vars
  PROVE  \/ \E t : StartCall(t)
         \/ Answer
         \/ stored' = stored
BY DEF Next, CallOp, CallForget, OpenWindow, WindowEnds, RevokedElsewhere, Die,
       record, vars

(* An outdated call stores nothing as it starts, an adoption included.     *)
LEMMA OutdatedStart ==
  ASSUME Inv, NEW t, StartCall(t), t.stale, Linked'
  PROVE  stored' = stored
<1>1. stored' # Empty
  BY RecordFields DEF Empty, Linked
<1>2. \A p : ~ Revoke(t, p)
  BY RecordFields DEF Revoke, Linked
<1>3. CASE StartOutdated(t) \/ StartForget(t)
  BY <1>1, <1>3 DEF StartOutdated, StartForget
<1>4. CASE StartAdopt(t)
  BY <1>2, <1>4 DEF StartAdopt
<1> QED  BY <1>3, <1>4
         DEF StartCall, StartRevoking, StartDisconnect, StartCancel,
             StartInterrupted, StartHeld, StartPending, StartEmpty, Reads, Performs

(* What was asked before a sign-out or a cancel connects nothing after it: *)
(* whatever an outdated call's request brings - a renewal, an approved     *)
(* link, an enrolment - and the pair an outdated adoption comes with are   *)
(* revoked or dropped, for any number of devices and waiting calls.        *)
THEOREM OutdatedConnectsNothing == Spec => OutdatedStoresNothing
<1>1. Inv /\ Agree /\ [Next]_vars
        => [Running.stale /\ call.stage # "settle" /\ Linked'
            => stored'.pair \in {stored.pair, call.pair}]_vars
  <2> SUFFICES ASSUME Inv, Agree, [Next]_vars, Running.stale,
                      call.stage # "settle", Linked'
               PROVE  stored'.pair \in {stored.pair, call.pair}
    OBVIOUS
  <2>1. ASSUME NEW t, StartCall(t)
        PROVE  stored' = stored
    <3>1. Starts(t)
      BY <2>1 DEF StartCall, StartOutdated, StartRevoking, StartDisconnect, StartCancel,
                  StartInterrupted, StartHeld, StartPending, StartEmpty, StartForget,
                  StartAdopt, Performs, Reads
    <3>2. t.stale
      BY <3>1 DEF Starts, Running
    <3> QED  BY <2>1, <3>2, OutdatedStart
  <2>2. CASE Answer
    <3>1. Running = call.task
      BY <2>2, CallGoesOn DEF Running
    <3> QED  BY <2>2, <3>1, OutdatedAnswer
  <2> QED  BY <2>1, <2>2, StepsOfOthers
<1> QED  BY <1>1, InitInv, NextInv, InitAgree, NextAgree, PTL
         DEF Spec, OutdatedStoresNothing

-----------------------------------------------------------------------------
(* One flow at a time: an open Twitch window, an account about to be       *)
(* forgotten, and the calls of a sign-in and of "sign out everywhere"      *)
(* exclude each other.                                                     *)
Flow == {"everywhere", "adopt", "forget"}

OneFlow ==
  /\ window # "shut" => leaving = Nobody
  /\ window # "shut" \/ leaving # Nobody =>
       /\ call.task.op \notin Flow
       /\ \A i \in DOMAIN waiting : waiting[i].op \notin Flow
  /\ call.task.op \in Flow => \A i \in DOMAIN waiting : waiting[i].op \notin Flow
  /\ \A i, j \in DOMAIN waiting :
       waiting[i].op \in Flow /\ waiting[j].op \in Flow => i = j

LEMMA IdleOp == Idle.task.op = "status"
BY DEF Idle, Task

LEMMA NextOneFlow ==
  Inv /\ OneFlow /\ [Next]_vars => OneFlow'
<1> SUFFICES ASSUME Inv, OneFlow, [Next]_vars
             PROVE  OneFlow'
  OBVIOUS
<1> USE DEF OneFlow
<1>0. DOMAIN waiting = 1 .. Len(waiting) /\ Len(waiting) \in Nat
  BY Places DEF Inv
<1>1. ASSUME NEW t, StartCall(t)
      PROVE  OneFlow'
  <2>1. /\ 1 \in DOMAIN waiting /\ t = waiting[1]
        /\ call'.task.op \in {t.op, "status"}
        /\ call' = Idle \/ call'.task.op = t.op
        /\ window' = window /\ leaving' = leaving
    BY <1>1, CallStarts, IdleOp DEF SameTask
  <2>2. \A i \in DOMAIN waiting' : i + 1 \in DOMAIN waiting /\ i + 1 # 1 /\ i \in Nat
                                     /\ waiting'[i].op = waiting[i + 1].op
    <3>1. GoodQueue(server', waiting')
      BY NextInv DEF Inv
    <3>2. DOMAIN waiting' = 1 .. Len(waiting') /\ Len(waiting') \in Nat
      BY <3>1, Places
    <3> QED  BY <1>1, <3>2, CallStarts DEF Popped, SameTask
  <2>3. \A i, j \in DOMAIN waiting' : i + 1 = j + 1 => i = j
    BY <2>2
  <2> QED  BY <2>1, <2>2, <2>3 DEF Flow
<1>2. CASE Answer
  <2>1. /\ waiting' = waiting /\ window' = window
        /\ call' = Idle \/ call'.task = call.task
        /\ call.stage # "idle"
        /\ leaving' = leaving \/ (call.task.op = "everywhere" /\ call' = Idle)
    BY <1>2, CallGoesOn
  <2>2. call # Idle
    BY <2>1 DEF Idle
  <2> QED  BY <2>1, <2>2, IdleOp DEF Flow
<1>3. ASSUME NEW t, Enqueue(t),
             t.op \in Flow =>
               /\ window' = "shut" /\ leaving' = Nobody /\ call.task.op \notin Flow
               /\ \A i \in DOMAIN waiting : waiting[i].op \notin Flow,
             leaving' = leaving \/ leaving' = Nobody
      PROVE  OneFlow'
  <2>1. /\ call'.task.op = call.task.op /\ (call' # Idle => call # Idle)
        /\ window' # "shut" => window # "shut"
        /\ window = "shut" => window' = "shut"
    BY <1>3, CallComes DEF SameCall, SameTask
  <2>2. \A i \in DOMAIN waiting' :
          \/ i \in DOMAIN waiting /\ waiting'[i].op = waiting[i].op
          \/ i \notin DOMAIN waiting /\ i = Len(waiting) + 1 /\ waiting'[i] = t
    BY <1>3, CallComes DEF Joins, SameTask
  <2> QED  BY <1>3, <2>1, <2>2
<1>4. ASSUME NEW op \in Calls, CallOp(op)
      PROVE  OneFlow'
  <2>1. PICK who : Enqueue(Task(op, NoPair, who))
    BY <1>4 DEF CallOp
  <2>2. Task(op, NoPair, who).op = op /\ op \notin {"adopt", "forget"}
    BY SupporterAccountAssumption DEF Task
  <2>3. leaving' = leaving
    BY <1>4 DEF CallOp
  <2>4. op \in Flow =>
          /\ window = "shut" /\ leaving = Nobody /\ call.task.op \notin Flow
          /\ \A i \in DOMAIN waiting : waiting[i].op \notin Flow
    BY <1>4, <2>2 DEF CallOp, TwitchActive, InQueue, Flow
  <2>5. window = "shut" => window' = "shut"
    BY <2>1, CallComes
  <2> QED  BY <1>3, <2>1, <2>2, <2>3, <2>4, <2>5
<1>5. CASE CallForget
  <2>1. leaving # Nobody /\ leaving' = Nobody /\ Enqueue(Task("forget", NoPair, leaving))
    BY <1>5 DEF CallForget
  <2>2. Task("forget", NoPair, leaving).op = "forget"
    BY <2>1 DEF Task
  <2>3. window = "shut" => window' = "shut"
    BY <2>1, CallComes
  <2>4. window' = "shut"
    BY <2>1, <2>3
  <2> QED  BY <1>3, <2>1, <2>2, <2>4
<1>6. CASE OpenWindow
  BY <1>6 DEF OpenWindow, TwitchActive, InQueue, Flow
<1>7. ASSUME NEW signedIn \in BOOLEAN, WindowEnds(signedIn)
      PROVE  OneFlow'
  <2>1. /\ window # "shut" /\ window' = "shut" /\ leaving' = leaving /\ call' = call
        /\ waiting' = waiting \/ (Joins(Adoption) /\ Adoption.op = "adopt")
    BY <1>7, WindowCloses
  <2>2. CASE waiting' = waiting
    BY <2>1, <2>2
  <2>3. CASE Joins(Adoption) /\ Adoption.op = "adopt"
    <3>1. \A i \in DOMAIN waiting' :
            \/ i \in DOMAIN waiting /\ waiting'[i].op = waiting[i].op
            \/ i \notin DOMAIN waiting /\ i = Len(waiting) + 1 /\ waiting'[i].op = "adopt"
      BY <2>3 DEF Joins, SameTask
    <3> QED  BY <2>1, <3>1
  <2> QED  BY <2>1, <2>2, <2>3
<1>8. CASE (\E d \in Devices : RevokedElsewhere(d)) \/ UNCHANGED vars
  BY <1>8 DEF RevokedElsewhere, around, vars
<1>9. CASE Die
  BY <1>9, IdleOp DEF Die, Flow
<1> QED  BY <1>1, <1>2, <1>4, <1>5, <1>6, <1>7, <1>8, <1>9 DEF Next

LEMMA InitOneFlow == Init => OneFlow
BY IdleOp DEF Init, OneFlow, Flow

-----------------------------------------------------------------------------
(* The effects of a step on the record, the server and the call, by kind.  *)

(* The start of a call keeps the record, empties it of a pair that is not  *)
(* there or no longer honoured, forgets an account, writes a tombstone or  *)
(* a marker for the pair it holds, or takes an adoption in.                *)
Emptied(x) == stored' = Empty \/ stored' = Relink

StartsAs(t) ==
  \/ stored' = stored /\ call'.stage \notin {"refresh", "resend"}
  \/ /\ Emptied(stored) /\ call'.stage \notin {"refresh", "resend"}
     /\ stored.kind # "revoking"
     /\ stored.pair = NoPair \/ ~ server[stored.pair.device].live
  \/ /\ t.op = "forget" /\ Held /\ AccountOf(stored.pair) = t.who
     /\ stored' = Empty /\ call' = Idle
  \/ /\ Held /\ stored' = Record("revoking", stored.pair)
     /\ call'.pair = stored.pair
     /\ \/ Linked /\ call'.stage = "revoke"
        \/ stored.kind = "refreshing" /\ call'.stage = "resend"
  \/ /\ Held /\ call'.stage = "refresh" /\ call'.pair = stored.pair
     /\ stored' = Record("refreshing",
                         IF Durable(stored.pair) THEN stored.pair ELSE NoPair)
  \/ /\ t.op = "adopt" /\ ~ Linked /\ stored.kind # "revoking"
     /\ stored' \in {Record("linked", t.pair), Record("revoking", t.pair)}
     /\ call'.stage \notin {"refresh", "resend"}

LEMMA StartEffects ==
  ASSUME Inv, NEW t, StartCall(t)
  PROVE  StartsAs(t)
<1> DEFINE quiet == call'.stage \notin {"refresh", "resend"}
<1>1. CASE StartOutdated(t)
  BY <1>1, ContinueStage DEF StartOutdated, StartsAs
<1>2. CASE StartRevoking(t)
  <2>1. quiet
    BY <1>2, ContinueStage DEF StartRevoking, Goes
  <2> QED  BY <1>2, <2>1 DEF StartRevoking, StartsAs
<1>3. CASE StartDisconnect(t)
  <2>1. CASE Held /\ Linked
    BY <1>3, <2>1 DEF StartDisconnect, Revoke, Goes, StartsAs
  <2>2. CASE Held /\ ~ Linked
    BY <1>3, <2>2 DEF StartDisconnect, Goes, StartsAs, Held
  <2>3. CASE ~ Held
    <3>1. stored' = Empty /\ call' = Idle /\ stored.kind # "revoking"
      BY <1>3, <2>3 DEF StartDisconnect, Ends
    <3>2. stored.pair = NoPair
      BY <2>3, <3>1 DEF Inv, GoodRecord, RecordType, Held, Linked
    <3> QED  BY <3>1, <3>2, IdleStage DEF StartsAs, Emptied
  <2> QED  BY <2>1, <2>2, <2>3
<1>4. CASE StartCancel(t)
  <2>1. CASE Held
    BY <1>4, <2>1, IdleStage DEF StartCancel, Ends, StartsAs
  <2>2. CASE ~ Held
    <3>1. stored' = Empty /\ call' = Idle /\ stored.kind # "revoking"
      BY <1>4, <2>2 DEF StartCancel, Ends
    <3>2. stored.pair = NoPair
      BY <2>2, <3>1 DEF Inv, GoodRecord, RecordType, Held, Linked
    <3> QED  BY <3>1, <3>2, IdleStage DEF StartsAs, Emptied
  <2> QED  BY <2>1, <2>2
<1>5. CASE StartInterrupted(t)
  BY <1>5, ContinueStage DEF StartInterrupted, StartsAs, Emptied
<1>6. CASE StartHeld(t)
  <2>1. Held /\ stored.kind # "revoking"
    BY <1>6 DEF StartHeld, Held, Linked
  <2>2. CASE Renews(t)
    BY <2>1, <2>2 DEF Renews, Goes, StartsAs
  <2>3. CASE /\ ~ server[stored.pair.device].live
             /\ stored' = Relink /\ Continue(t, "relink_required")
    BY <2>1, <2>3, ContinueStage DEF StartsAs, Emptied
  <2>4. CASE stored' = stored /\ (Continue(t, "linked") \/ Continue(t, "unavailable"))
    BY <2>4, ContinueStage DEF StartsAs
  <2> QED  BY <1>6, <2>2, <2>3, <2>4 DEF StartHeld
<1>7. CASE StartPending(t)
  <2>1. stored.pair = NoPair /\ stored.kind # "revoking"
    BY <1>7 DEF StartPending, Inv, GoodRecord
  <2>2. quiet
    BY <1>7, ContinueStage DEF StartPending, Goes
  <2>3. stored' = stored \/ stored' = Empty
    BY <1>7 DEF StartPending
  <2> QED  BY <2>1, <2>2, <2>3 DEF StartsAs, Emptied
<1>8. CASE StartEmpty(t)
  <2>1. quiet
    BY <1>8, ContinueStage DEF StartEmpty, Goes
  <2> QED  BY <1>8, <2>1 DEF StartEmpty, StartsAs
<1>9. CASE StartForget(t)
  BY <1>9 DEF StartForget, Forgets, Ends, StartsAs
<1>10. CASE StartAdopt(t)
  <2>1. quiet /\ t.op = "adopt"
    BY <1>10, IdleStage DEF StartAdopt, Revoke, Goes, Ends
  <2>2. \/ stored' = stored
        \/ /\ ~ Linked /\ stored.kind # "revoking"
           /\ stored' \in {Record("linked", t.pair), Record("revoking", t.pair)}
    BY <1>10 DEF StartAdopt, Adopts, Revoke
  <2> QED  BY <2>1, <2>2 DEF StartsAs
<1> QED  BY <1>1, <1>2, <1>3, <1>4, <1>5, <1>6, <1>7, <1>8, <1>9, <1>10 DEF StartCall

(* A refresh touches no device but the one it is for; it brings the pair   *)
(* the server now honours, or finds or leaves the device signed out.       *)
Settled(s, p) == ~ s[p.device].live \/ s[p.device].turn = p.turn

LEMMA RefreshedSettled ==
  ASSUME Inv, NEW p, Made(server, p), NEW x \in Refreshed(p)
  PROVE  /\ SameKinds(server, x.server)
         /\ \A d \in Devices : d # p.device => x.server[d] = server[d]
         /\ \A d \in Devices : x.server[d].live => server[d].live
         /\ x.pair = NoPair => ~ x.server[p.device].live
         /\ x.pair # NoPair => x.pair.device = p.device /\ Settled(x.server, x.pair)
<1> DEFINE turned == [server EXCEPT ![p.device].turn = p.turn + 1]
           next == [p EXCEPT !.turn = @ + 1]
<1>1. p \in Pairs /\ p.device \in Devices /\ p.turn \in Nat
  BY NoPairApart, Bounds DEF Made
<1>2. server \in ServerType
  BY DEF Inv, GoodServer
<1>3. next.device = p.device /\ next.turn = p.turn + 1 /\ next # NoPair
  BY <1>1, NoPairApart DEF Pairs, NoPair, Devices
<1>4. \/ ~ server[p.device].live /\ x.server = server /\ x.pair = NoPair
      \/ x.server = turned /\ x.pair = next
      \/ server[p.device].turn = p.turn + 1 /\ x.server = server /\ x.pair = next
      \/ x.server = Revoked({p.device}) /\ x.pair = NoPair
  BY DEF Refreshed
<1>5. \A d \in Devices : turned[d].kind = server[d].kind /\ turned[d].live = server[d].live
  BY <1>1, <1>2 DEF ServerType
<1>6. turned[p.device].turn = p.turn + 1 /\ \A d \in Devices : d # p.device => turned[d] = server[d]
  BY <1>1, <1>2 DEF ServerType
<1>7. \A d \in Devices : /\ Revoked({p.device})[d].kind = server[d].kind
                         /\ Revoked({p.device})[d].live => server[d].live
                         /\ d # p.device => Revoked({p.device})[d] = server[d]
  BY <1>2 DEF Revoked, ServerType
<1>8. ~ Revoked({p.device})[p.device].live
  BY <1>1, <1>2 DEF Revoked, ServerType
<1> HIDE DEF turned, next
<1>9. SameKinds(server, x.server)
  BY <1>4, <1>5, <1>7 DEF SameKinds
<1>10. /\ \A d \in Devices : d # p.device => x.server[d] = server[d]
       /\ \A d \in Devices : x.server[d].live => server[d].live
  BY <1>1, <1>4, <1>5, <1>6, <1>7
<1>11. x.pair = NoPair => ~ x.server[p.device].live
  BY <1>3, <1>4, <1>8
<1>12. x.pair # NoPair => x.pair.device = p.device /\ Settled(x.server, x.pair)
  BY <1>3, <1>4, <1>6 DEF Settled
<1> QED  BY <1>9, <1>10, <1>11, <1>12

(* How the answer to a refresh or to a resend leaves server and record: it *)
(* was not attempted; its marker waits; nobody knows; the device is signed *)
(* out; it brought a pair, to be kept or revoked.                          *)
RefreshEnds(p) ==
  \/ /\ call.stage = "refresh"
     /\ UNCHANGED <<server, doubtful>> /\ stored' = Record("due", p)
  \/ /\ call.stage = "refresh" /\ Durable(p)
     /\ \E x \in Refreshed(p) : server' \in {server, x.server}
     /\ UNCHANGED <<stored, doubtful>>
  \/ /\ \E x \in Refreshed(p) : server' \in {server, x.server}
     /\ Doubts(p)
     /\ \/ call.stage = "refresh" /\ stored' = Relink
        \/ call.stage = "resend" /\ stored' = Record("revoking", p)
  \/ /\ \E x \in Refreshed(p) : server' = x.server /\ x.pair = NoPair
     /\ UNCHANGED doubtful /\ Emptied(stored)
  \/ \E x \in Refreshed(p) :
       /\ server' = x.server /\ x.pair # NoPair /\ UNCHANGED doubtful
       /\ stored' \in {Record("linked", x.pair), Record("revoking", x.pair)}

(* A revocation or a disposal. *)
RevokeEnds(p) ==
  \/ /\ call.stage \in {"revoke", "discard"} /\ UNCHANGED doubtful
     /\ \/ server' = Disconnected(p) /\ stored' = Empty
        \/ server' \in {server, Disconnected(p)} /\ stored' = stored
  \/ /\ call.stage = "dispose" /\ stored' = stored
     /\ \/ server' = server /\ Doubts(p)
        \/ server' = Disconnected(p) /\ UNCHANGED doubtful
  \/ /\ call.stage = "settle" /\ UNCHANGED doubtful
     /\ \/ /\ server' \in {server, Disconnected(p)} /\ stored' = stored
           /\ call'.stage = "dispose" /\ call'.pair = call.task.pair
        \/ server' = Disconnected(p) /\ stored' = Record("linked", call.task.pair)

(* A device link or an enrolment. *)
ArrivalEnds ==
  \/ /\ call.stage \in {"link", "poll"} /\ UNCHANGED <<server, doubtful>>
     /\ \/ Emptied(stored) \/ stored' = stored
        \/ call.stage = "link" /\ stored' = Record("pending", NoPair)
  \/ /\ call.stage = "enroll" /\ UNCHANGED <<server, stored, doubtful>>
  \/ /\ CanIssue /\ UNCHANGED doubtful
     /\ \/ call.stage = "poll" /\ server' = Issued("link")
        \/ call.stage = "enroll" /\ server' = Issued("installation")
     /\ stored' \in {Record("linked", First), Record("revoking", First)}

(* A request under the access token. *)
UseEnds(p) ==
  /\ call.stage = "request" /\ UNCHANGED doubtful
  /\ \/ UNCHANGED <<server, stored>>
     \/ ~ Current(p) /\ server' = server /\ stored' = Relink
     \/ (\E ds : server' = Revoked(ds)) /\ stored' = stored

AnswersAs(p) ==
  \/ call.stage \in {"refresh", "resend"} /\ RefreshEnds(p)
  \/ RevokeEnds(p) \/ ArrivalEnds \/ UseEnds(p)

LEMMA AnswerEffects ==
  ASSUME Inv, Answer
  PROVE  /\ AnswersAs(call.pair)
         /\ call'.stage \in {"idle", "request", "enroll", "revoke", "discard", "dispose"}
<1> USE DEF Asked, Answered
<1>1. CASE RefreshNotAttempted
  <2>1. RefreshEnds(call.pair)
    BY <1>1 DEF RefreshNotAttempted, RefreshEnds
  <2> QED  BY <1>1, <2>1, ContinueStage DEF RefreshNotAttempted, AnswersAs
<1>2. ASSUME NEW lost \in BOOLEAN, RefreshUnclear(lost)
      PROVE  RefreshEnds(call.pair) /\ call.stage = "refresh"
             /\ call'.stage \in {"idle", "request", "enroll"}
  <2>1. CASE Durable(call.pair)
    BY <1>2, <2>1, ContinueStage DEF RefreshUnclear, RefreshEnds
  <2>2. CASE ~ Durable(call.pair)
    BY <1>2, <2>2, ContinueStage DEF RefreshUnclear, RefreshEnds
  <2> QED  BY <2>1, <2>2
<1>3. CASE RefreshGarbled
  <2>1. RefreshEnds(call.pair)
    BY <1>3 DEF RefreshGarbled, RefreshEnds
  <2> QED  BY <1>3, <2>1, ContinueStage DEF RefreshGarbled, AnswersAs
<1>4. CASE RefreshAnswers
  <2>1. PICK x \in Refreshed(call.pair) :
          /\ server' = x.server
          /\ IF x.pair = NoPair
             THEN stored' = Relink /\ Continue(call.task, "relink_required")
             ELSE IF call.task.stale THEN Revoke(call.task, x.pair) /\ UNCHANGED key
             ELSE stored' = Record("linked", x.pair) /\ Continue(call.task, "linked")
    BY <1>4 DEF RefreshAnswers
  <2>2. call.stage = "refresh" /\ doubtful' = doubtful
    BY <1>4 DEF RefreshAnswers
  <2>3. CASE x.pair = NoPair
    BY <2>1, <2>2, <2>3, ContinueStage DEF AnswersAs, RefreshEnds, Emptied
  <2>4. CASE x.pair # NoPair
    <3>1. stored' \in {Record("linked", x.pair), Record("revoking", x.pair)}
      BY <2>1, <2>4 DEF Revoke
    <3>2. call'.stage \in {"idle", "request", "enroll", "revoke"}
      BY <2>1, <2>4, ContinueStage DEF Revoke, Goes
    <3> QED  BY <2>1, <2>2, <2>4, <3>1, <3>2 DEF AnswersAs, RefreshEnds
  <2> QED  BY <2>3, <2>4
<1>5. CASE RevokeAnswers \/ RevokeFails
  <2>1. RevokeEnds(call.pair)
    BY <1>5 DEF RevokeAnswers, RevokeFails, RevokeEnds
  <2>2. call'.stage \in {"idle", "request", "enroll"}
    BY <1>5, IdleStage, ContinueStage DEF RevokeAnswers, RevokeFails, Ends
  <2> QED  BY <2>1, <2>2 DEF AnswersAs
<1>6. CASE ResendAnswers
  <2>1. PICK x \in Refreshed(call.pair) :
          /\ server' = x.server
          /\ IF x.pair = NoPair
             THEN stored' = Empty /\ unsure' = FALSE /\ Ends(call.task, "signed_out")
             ELSE Revoke(call.task, x.pair) /\ UNCHANGED unsure
    BY <1>6 DEF ResendAnswers
  <2>2. call.stage = "resend" /\ doubtful' = doubtful
    BY <1>6 DEF ResendAnswers
  <2>3. CASE x.pair = NoPair
    BY <2>1, <2>2, <2>3, IdleStage DEF AnswersAs, RefreshEnds, Emptied, Ends
  <2>4. CASE x.pair # NoPair
    BY <2>1, <2>2, <2>4 DEF AnswersAs, RefreshEnds, Revoke, Goes
  <2> QED  BY <2>3, <2>4
<1>7. CASE ResendFails
  <2>1. RefreshEnds(call.pair)
    BY <1>7 DEF ResendFails, RefreshEnds, Revoke
  <2> QED  BY <1>7, <2>1 DEF ResendFails, AnswersAs, Revoke, Goes
<1>8. ASSUME NEW failed \in BOOLEAN, DisposeEnds(failed)
      PROVE  RevokeEnds(call.pair) /\ call'.stage = "idle"
  <2>1. CASE failed
    BY <1>8, <2>1, IdleStage DEF DisposeEnds, RevokeEnds, Doubts, Ends
  <2>2. CASE ~ failed
    BY <1>8, <2>2, IdleStage DEF DisposeEnds, RevokeEnds, Ends
  <2> QED  BY <2>1, <2>2
<1>9. ASSUME NEW failed \in BOOLEAN, SettleEnds(failed)
      PROVE  RevokeEnds(call.pair) /\ call'.stage \in {"idle", "dispose"}
  <2>1. CASE failed
    BY <1>9, <2>1 DEF SettleEnds, RevokeEnds, Goes
  <2>2. CASE ~ failed
    BY <1>9, <2>2, IdleStage DEF SettleEnds, RevokeEnds, Ends, Adopts
  <2> QED  BY <2>1, <2>2
<1>10. CASE LinkAnswers
  <2>1. ArrivalEnds
    BY <1>10 DEF LinkAnswers, ArrivalEnds, Emptied
  <2> QED  BY <1>10, <2>1, IdleStage DEF LinkAnswers, AnswersAs, Ends
<1>11. CASE PollApproved
  <2>1. stored' \in {Record("linked", First), Record("revoking", First)}
    BY <1>11 DEF PollApproved, Revoke, Adopts
  <2>2. call'.stage \in {"idle", "request", "enroll", "revoke"}
    BY <1>11, ContinueStage DEF PollApproved, Revoke, Goes
  <2> QED  BY <1>11, <2>1, <2>2 DEF PollApproved, AnswersAs, ArrivalEnds
<1>12. CASE PollElse
  <2>1. ArrivalEnds
    BY <1>12 DEF PollElse, ArrivalEnds, Emptied
  <2>2. call'.stage \in {"idle", "request", "enroll"}
    BY <1>12, ContinueStage, IdleStage DEF PollElse, Ends
  <2> QED  BY <2>1, <2>2 DEF AnswersAs
<1>13. CASE EnrollAnswers
  <2>1. stored' \in {Record("linked", First), Record("revoking", First)}
    BY <1>13 DEF EnrollAnswers, Discard
  <2>2. call'.stage \in {"idle", "discard"}
    BY <1>13, IdleStage DEF EnrollAnswers, Discard, Goes, Ends
  <2> QED  BY <1>13, <2>1, <2>2 DEF EnrollAnswers, AnswersAs, ArrivalEnds
<1>14. CASE EnrollFails
  <2>1. ArrivalEnds
    BY <1>14 DEF EnrollFails, ArrivalEnds, record
  <2> QED  BY <1>14, <2>1, IdleStage DEF EnrollFails, AnswersAs, Ends
<1>15. CASE RequestEnds
  <2>1. UseEnds(call.pair)
    BY <1>15 DEF RequestEnds, UseEnds
  <2> QED  BY <1>15, <2>1, IdleStage DEF RequestEnds, AnswersAs, Ends
<1> QED  BY <1>1, <1>2, <1>3, <1>4, <1>5, <1>6, <1>7, <1>8, <1>9, <1>10, <1>11,
            <1>12, <1>13, <1>14, <1>15 DEF Answer, AnswersAs

-----------------------------------------------------------------------------
(* Whose pairs the server still knows.  A connection that is good and a    *)
(* pair to adopt have been rotated exactly as often as their device, or    *)
(* the device is signed out; and while an adoption may come, no Twitch     *)
(* device of another adoption is held or being renewed.                    *)
Twitch(s, p) == s[p.device].kind = "twitch"

SettledTask(s, t) == t.op = "adopt" => Twitch(s, t.pair) /\ Settled(s, t.pair)

Coming == window # "shut" \/ \E i \in DOMAIN waiting : waiting[i].op = "adopt"

TasksSettled ==
  /\ SettledTask(server, call.task)
  /\ \A i \in DOMAIN waiting : SettledTask(server, waiting[i])

ConnectionSettled == stored.kind = "linked" => Settled(server, stored.pair)

ComingApart ==
  Coming =>
    /\ stored.pair # NoPair /\ stored.kind # "revoking" => ~ Twitch(server, stored.pair)
    /\ call.stage \in {"refresh", "resend"} => ~ Twitch(server, call.pair)

Steady == TasksSettled /\ ConnectionSettled /\ ComingApart

(* An account about to be forgotten here has no device left.  (A new       *)
(* device link of the same account would be one.)                          *)
Departed(s, a) ==
  /\ \A d \in Devices :
       s[d].kind = a.kind /\ (a.kind = "installation" => d = a.device)
         => ~ s[d].live
  /\ a.kind = "installation" => a.device \in Devices /\ s[a.device].kind = "installation"

Lasts(a) == a.kind \in {"twitch", "installation"}

Gone ==
  /\ Lasts(leaving) => Departed(server, leaving)
  /\ \A i \in DOMAIN waiting :
       waiting[i].op = "forget" /\ Lasts(waiting[i].who)
         => Departed(server, waiting[i].who)

Ground == Agree /\ OneFlow /\ Steady /\ Gone

LEMMA QuietSettled ==
  ASSUME NEW s, NEW z, Quiet(s, z), NEW p, Made(s, p), Settled(s, p)
  PROVE  Settled(z, p)
BY NoPairApart DEF Quiet, Made, Settled

LEMMA KindsTwitch ==
  ASSUME NEW s, NEW z, SameKinds(s, z), NEW p, Made(s, p)
  PROVE  Twitch(s, p) <=> Twitch(z, p)
BY NoPairApart DEF SameKinds, Made, Twitch

LEMMA QuietTasks ==
  ASSUME NEW s, NEW z, Quiet(s, z), NEW t, GoodTask(s, t), SettledTask(s, t)
  PROVE  SettledTask(z, t)
BY QuietSettled, QuietKeepsKinds, KindsTwitch DEF GoodTask, SettledTask

LEMMA SameTaskSettled ==
  ASSUME NEW s, NEW u, NEW t, SameTask(u, t), SettledTask(s, t)
  PROVE  SettledTask(s, u)
BY DEF SameTask, SettledTask

LEMMA IdleSettled == \A s : SettledTask(s, Idle.task)
BY IdleOp DEF SettledTask

LEMMA CallMade ==
  ASSUME Inv
  PROVE  /\ GoodTask(server, call.task) /\ \A i \in DOMAIN waiting : GoodTask(server, waiting[i])
         /\ call.stage \in {"refresh", "resend", "revoke", "discard", "dispose", "settle",
                            "request"}
              => Made(server, call.pair)
         /\ stored.pair # NoPair => Made(server, stored.pair)
BY DEF Inv, GoodCall, GoodQueue, GoodRecord

LEMMA IssuedFirst ==
  ASSUME Inv
  PROVE  /\ First.turn = 0
         /\ CanIssue => \A kind \in Kinds : /\ Issued(kind)[First.device].kind = kind
                                            /\ Issued(kind)[First.device].turn = 0
<1>1. ASSUME CanIssue, NEW kind \in Kinds
      PROVE  /\ Issued(kind)[First.device].kind = kind
             /\ Issued(kind)[First.device].turn = 0
  <2>1. Issued(kind)[First.device] = [kind |-> kind, turn |-> 0, live |-> TRUE]
    BY <1>1, IssuedQuiet
  <2> QED  BY <2>1
<1> QED  BY <1>1 DEF First

LEMMA AnswerServer ==
  ASSUME Inv, Answer
  PROVE  /\ SameKinds(server, server')
         /\ call.stage \notin {"refresh", "resend"} => Quiet(server, server')
         /\ \A d \in Devices : d # call.pair.device /\ server[d].kind # "none"
                               => /\ server'[d].turn = server[d].turn
                                  /\ server'[d].live => server[d].live
<1>1. CASE call.stage \in {"refresh", "resend"}
  <2>1. RefreshEnds(call.pair)
    BY <1>1, AnswerEffects DEF AnswersAs, RevokeEnds, ArrivalEnds, UseEnds
  <2>2. server' = server \/ \E x \in Refreshed(call.pair) : server' = x.server
    BY <2>1 DEF RefreshEnds
  <2>3. Made(server, call.pair)
    BY <1>1, CallMade
  <2> QED  BY <1>1, <2>2, <2>3, RefreshedSettled, SelfKinds
<1>2. CASE call.stage \notin {"refresh", "resend"}
  <2>1. RevokeEnds(call.pair) \/ ArrivalEnds \/ UseEnds(call.pair)
    BY <1>2, AnswerEffects DEF AnswersAs
  <2>2. \/ server' = server \/ server' = Disconnected(call.pair)
        \/ \E ds : server' = Revoked(ds)
        \/ CanIssue /\ \E kind \in Kinds : server' = Issued(kind)
    BY <2>1 DEF RevokeEnds, ArrivalEnds, UseEnds, Kinds
  <2>3. Quiet(server, server')
    BY <2>2, QuietServer, IssuedQuiet
  <2> QED  BY <1>2, <2>3, QuietKeepsKinds DEF Quiet
<1> QED  BY <1>1, <1>2

-----------------------------------------------------------------------------
LEMMA StartSteady ==
  ASSUME Inv, Ground, NEW t, StartCall(t)
  PROVE  Steady'
<1> USE DEF Ground, Steady
<1>1. /\ server' = server /\ window' = window /\ Popped
      /\ 1 \in DOMAIN waiting /\ t = waiting[1] /\ GoodTask(server, t)
      /\ call' = Idle \/ SameTask(call'.task, t)
  BY CallStarts
<1>2. SettledTask(server, t)
  BY <1>1 DEF TasksSettled
<1>3. TasksSettled'
  BY <1>1, <1>2, SameTaskSettled, IdleSettled DEF TasksSettled, Popped
<1>4. DOMAIN waiting' \subseteq Nat
  <2>1. GoodQueue(server', waiting')
    BY StartCallGood DEF Inv
  <2> QED  BY <2>1, Places
<1>5. Coming' => Coming
  BY <1>1 DEF Coming, Popped, SameTask
<1>6. t.op = "adopt" => ~ Coming'
  <2> SUFFICES ASSUME t.op = "adopt" PROVE ~ Coming'
    OBVIOUS
  <2>1. window = "shut"
    BY <1>1 DEF OneFlow, Flow
  <2>2. ASSUME NEW i \in DOMAIN waiting', waiting'[i].op = "adopt"
        PROVE  FALSE
    <3>1. i + 1 \in DOMAIN waiting /\ waiting[i + 1].op = "adopt"
      BY <1>1, <2>2 DEF Popped, SameTask
    <3>2. i + 1 = 1
      BY <1>1, <3>1 DEF OneFlow, Flow
    <3>3. i \in DOMAIN waiting'
      BY <2>2
    <3>4. i # 0
      <4>1. GoodQueue(server', waiting')
        BY StartCallGood DEF Inv
      <4>2. DOMAIN waiting' = 1 .. Len(waiting') /\ Len(waiting') \in Nat
        BY <4>1, Places
      <4> QED  BY <3>3, <4>2
    <3> QED  BY <1>4, <3>2, <3>3, <3>4
  <2> QED  BY <1>1, <2>1, <2>2 DEF Coming
<1>7. StartsAs(t)
  BY StartEffects
<1>8. stored = Record(stored.kind, stored.pair)
  BY RecordOf DEF Inv
<1>9. Held => stored.kind # "revoking" /\ stored.pair # NoPair
  BY HeldPair DEF Inv, Held, Linked
<1>10. ConnectionSettled'
  <2>1. stored' = stored \/ stored'.kind # "linked" \/ (t.op = "adopt" /\ stored'.pair = t.pair)
    BY <1>7, RecordFields DEF StartsAs, Emptied, Empty, Relink
  <2> QED  BY <1>1, <1>2, <2>1 DEF ConnectionSettled, SettledTask
<1>11. ComingApart'
  <2> SUFFICES ASSUME Coming'
               PROVE  /\ stored'.pair # NoPair /\ stored'.kind # "revoking"
                           => ~ Twitch(server, stored'.pair)
                      /\ call'.stage \in {"refresh", "resend"} => ~ Twitch(server, call'.pair)
    BY <1>1 DEF ComingApart
  <2>1. t.op # "adopt"
    BY <1>6
  <2>2. stored.pair # NoPair /\ stored.kind # "revoking" => ~ Twitch(server, stored.pair)
    BY <1>5 DEF ComingApart
  <2>3. \/ stored' = stored \/ stored'.pair = NoPair \/ stored'.kind = "revoking"
        \/ Held /\ stored'.pair \in {stored.pair, NoPair}
    BY <1>7, <2>1, RecordFields DEF StartsAs, Emptied, Empty, Relink
  <2>4. call'.stage \in {"refresh", "resend"} => Held /\ call'.pair = stored.pair
    BY <1>7, <2>1, IdleStage DEF StartsAs
  <2> QED  BY <1>9, <2>2, <2>3, <2>4
<1> QED  BY <1>3, <1>10, <1>11

LEMMA AnswerSteady ==
  ASSUME Inv, Ground, Answer
  PROVE  Steady'
<1> USE DEF Ground, Steady
<1>1. /\ waiting' = waiting /\ window' = window
      /\ call' = Idle \/ call'.task = call.task
  BY CallGoesOn
<1>2. AgreeCall(server, stored, call)
  BY DEF Agree
<1>3. AnswersAs(call.pair) /\ call'.stage \notin {"refresh", "resend"}
  BY AnswerEffects
<1>4. SameKinds(server, server')
  BY AnswerServer
<1>5. ASSUME NEW p, Made(server, p), Settled(server, p),
             call.stage \in {"refresh", "resend"} => p.device # call.pair.device
      PROVE  Settled(server', p)
  <2>1. CASE call.stage \notin {"refresh", "resend"}
    BY <1>5, <2>1, AnswerServer, QuietSettled
  <2>2. CASE p.device # call.pair.device
    BY <1>5, <2>2, AnswerServer, NoPairApart DEF Made, Settled
  <2> QED  BY <1>5, <2>1, <2>2
<1>6. TasksSettled'
  <2>1. SettledTask(server', call.task)
    <3> SUFFICES ASSUME call.task.op = "adopt"
                 PROVE  Twitch(server', call.task.pair) /\ Settled(server', call.task.pair)
      BY DEF SettledTask
    <3>1. call.stage \notin {"refresh", "resend"}
      BY <1>2 DEF AgreeCall
    <3>2. Made(server, call.task.pair)
      BY CallMade DEF GoodTask
    <3> QED  BY <1>4, <1>5, <3>1, <3>2, KindsTwitch DEF TasksSettled, SettledTask
  <2>2. ASSUME NEW i \in DOMAIN waiting
        PROVE  SettledTask(server', waiting[i])
    <3> SUFFICES ASSUME waiting[i].op = "adopt"
                 PROVE  Twitch(server', waiting[i].pair) /\ Settled(server', waiting[i].pair)
      BY DEF SettledTask
    <3>1. Made(server, waiting[i].pair)
      BY CallMade DEF GoodTask
    <3>2. Twitch(server, waiting[i].pair) /\ Settled(server, waiting[i].pair)
      BY DEF TasksSettled, SettledTask
    <3>3. call.stage \in {"refresh", "resend"} => ~ Twitch(server, call.pair)
      BY DEF ComingApart, Coming
    <3>4. call.stage \in {"refresh", "resend"} => waiting[i].pair.device # call.pair.device
      BY <3>2, <3>3 DEF Twitch
    <3> QED  BY <1>4, <1>5, <3>1, <3>2, <3>4, KindsTwitch
  <2> QED  BY <1>1, <2>1, <2>2, IdleSettled DEF TasksSettled
<1>7. /\ First.turn = 0
      /\ CanIssue => \A kind \in Kinds : /\ Issued(kind)[First.device].kind = kind
                                         /\ Issued(kind)[First.device].turn = 0
  BY IssuedFirst
<1>8. call.stage = "settle" => call.task.op = "adopt"
  BY DEF Inv, GoodCall
<1>9. ConnectionSettled'
  <2> SUFFICES ASSUME stored'.kind = "linked" PROVE Settled(server', stored'.pair)
    BY DEF ConnectionSettled
  <2>1. \/ stored' = stored
        \/ \E x \in Refreshed(call.pair) :
             /\ call.stage \in {"refresh", "resend"}
             /\ server' = x.server /\ x.pair # NoPair /\ stored'.pair = x.pair
        \/ CanIssue /\ stored'.pair = First /\ \E kind \in Kinds : server' = Issued(kind)
        \/ call.stage = "settle" /\ stored'.pair = call.task.pair
    BY <1>3, RecordFields
       DEF AnswersAs, RefreshEnds, RevokeEnds, ArrivalEnds, UseEnds, Emptied, Empty,
           Relink, Kinds
  <2>2. CASE stored' = stored
    <3>1. call.stage \notin {"refresh", "resend"}
      BY <1>2, <2>2, RecordFields DEF AgreeCall
    <3>2. Made(server, stored.pair)
      BY <2>2, CallMade DEF Inv, GoodRecord
    <3> QED  BY <1>5, <2>2, <3>1, <3>2 DEF ConnectionSettled
  <2>3. CASE \E x \in Refreshed(call.pair) :
               /\ call.stage \in {"refresh", "resend"}
               /\ server' = x.server /\ x.pair # NoPair /\ stored'.pair = x.pair
    <3>1. PICK x \in Refreshed(call.pair) :
            /\ call.stage \in {"refresh", "resend"}
            /\ server' = x.server /\ x.pair # NoPair /\ stored'.pair = x.pair
      BY <2>3
    <3>2. Made(server, call.pair)
      BY <3>1, CallMade
    <3>3. Settled(x.server, x.pair)
      BY <3>1, <3>2, RefreshedSettled
    <3> QED  BY <3>1, <3>3
  <2>4. CASE CanIssue /\ stored'.pair = First /\ \E kind \in Kinds : server' = Issued(kind)
    <3>1. PICK kind \in Kinds : server' = Issued(kind)
      BY <2>4
    <3>2. server'[First.device].turn = 0
      BY <1>7, <2>4, <3>1
    <3> QED  BY <1>7, <2>4, <3>2 DEF Settled
  <2>5. CASE call.stage = "settle" /\ stored'.pair = call.task.pair
    <3>1. Settled(server, call.task.pair) /\ Made(server, call.task.pair)
      BY <1>8, <2>5, CallMade DEF TasksSettled, SettledTask, GoodTask
    <3> QED  BY <1>5, <2>5, <3>1
  <2> QED  BY <2>1, <2>2, <2>3, <2>4, <2>5
<1>10. ComingApart'
  <2> SUFFICES ASSUME Coming, stored'.pair # NoPair, stored'.kind # "revoking"
               PROVE  ~ Twitch(server', stored'.pair)
    BY <1>1, <1>3 DEF ComingApart, Coming
  <2>1. call.task.op # "adopt"
    BY DEF Coming, OneFlow, Flow
  <2>2. \/ stored' = stored
        \/ /\ call.stage \in {"refresh", "resend"}
           /\ stored'.pair.device = call.pair.device
        \/ /\ CanIssue /\ stored'.pair = First
           /\ \E kind \in {"link", "installation"} : server' = Issued(kind)
    <3>1. call.stage \in {"refresh", "resend"} =>
            \A x \in Refreshed(call.pair) : x.pair # NoPair => x.pair.device = call.pair.device
      BY CallMade, RefreshedSettled
    <3> QED  BY <1>3, <1>8, <2>1, <3>1, RecordFields
             DEF AnswersAs, RefreshEnds, RevokeEnds, ArrivalEnds, UseEnds, Emptied,
                 Empty, Relink
  <2>3. CASE stored' = stored
    BY <1>4, <2>3, CallMade, KindsTwitch DEF ComingApart
  <2>4. CASE call.stage \in {"refresh", "resend"} /\ stored'.pair.device = call.pair.device
    <3>1. ~ Twitch(server', call.pair)
      BY <1>4, <2>4, CallMade, KindsTwitch DEF ComingApart
    <3> QED  BY <2>4, <3>1 DEF Twitch
  <2>5. CASE /\ CanIssue /\ stored'.pair = First
             /\ \E kind \in {"link", "installation"} : server' = Issued(kind)
    BY <1>7, <2>5 DEF Twitch, Kinds
  <2> QED  BY <2>2, <2>3, <2>4, <2>5
<1> QED  BY <1>6, <1>9, <1>10

(* The steps of everyone else leave the record to the call in flight.      *)
LEMMA QuietSteady ==
  ASSUME Inv, Ground, Quiet(server, server'), stored' = stored, SameCall,
         waiting' = waiting \/ \E t : Joins(t) /\ SettledTask(server', t),
         Coming' => Coming
  PROVE  Steady'
<1> USE DEF Ground, Steady
<1>1. \A i \in DOMAIN waiting : SettledTask(server', waiting[i])
  BY CallMade, QuietTasks DEF TasksSettled
<1>2. \A i \in DOMAIN waiting' : SettledTask(server', waiting'[i])
  BY <1>1, SameTaskSettled DEF Joins
<1>3. SettledTask(server', call'.task)
  BY CallMade, QuietTasks, SameTaskSettled DEF TasksSettled, SameCall
<1>4. ConnectionSettled'
  BY CallMade, QuietSettled DEF ConnectionSettled, Inv, GoodRecord
<1>5. ComingApart'
  BY CallMade, QuietKeepsKinds, KindsTwitch DEF ComingApart, SameCall
<1> QED  BY <1>2, <1>3, <1>4, <1>5 DEF TasksSettled

LEMMA SameQueueComing ==
  ASSUME Inv, window' # "shut" => window # "shut",
         waiting' = waiting \/ \E t : Joins(t) /\ t.op # "adopt"
  PROVE  Coming' => Coming
BY DEF Coming, Joins, SameTask

LEMMA DieServer ==
  ASSUME Inv, Die
  PROVE  /\ SameKinds(server, server')
         /\ \A d \in Devices : server'[d].live => server[d].live
         /\ call.stage \notin {"refresh", "resend"} => Quiet(server, server')
<1>1. Quiet(server, server) /\ Quiet(server, Disconnected(call.pair))
  BY QuietServer
<1>2. \A z : Quiet(server, z) => \A d \in Devices :
        server[d].kind # "none" /\ z[d].live => server[d].live
  BY DEF Quiet
<1>3. \A d \in Devices : Disconnected(call.pair)[d].live => server[d].live
  BY DEF Disconnected, Revoked, Inv, GoodServer, ServerType
<1>4. CASE server' = server \/ server' = Disconnected(call.pair)
  BY <1>1, <1>3, <1>4, QuietKeepsKinds
<1>5. CASE /\ call.stage \in {"refresh", "resend"}
           /\ \E x \in Refreshed(call.pair) : server' = x.server
  BY <1>5, CallMade, RefreshedSettled
<1> QED  BY <1>4, <1>5 DEF Die

LEMMA NextSteady ==
  ASSUME Inv, Ground, [Next]_vars
  PROVE  Steady'
<1>0. Quiet(server, server)
  BY QuietServer
<1>1. ASSUME NEW t, StartCall(t)
      PROVE  Steady'
  BY <1>1, StartSteady
<1>2. CASE Answer
  BY <1>2, AnswerSteady
<1>3. ASSUME NEW t, Enqueue(t), t.op # "adopt", UNCHANGED <<server, stored>>
      PROVE  Steady'
  <2>1. Joins(t) /\ SameCall /\ (window' # "shut" => window # "shut")
    BY <1>3, CallComes
  <2>2. SettledTask(server', t)
    BY <1>3 DEF SettledTask
  <2> QED  BY <1>0, <1>3, <2>1, <2>2, QuietSteady, SameQueueComing
<1>4. ASSUME NEW op \in Calls, CallOp(op)
      PROVE  Steady'
  BY <1>3, <1>4, SupporterAccountAssumption DEF CallOp, Task, record
<1>5. CASE CallForget
  BY <1>3, <1>5 DEF CallForget, Task, record
<1>6. CASE OpenWindow
  <2>1. /\ UNCHANGED <<server, stored, waiting, call>>
        /\ stored.pair = NoPair /\ call.stage = "idle"
    BY <1>6, IdleStage DEF OpenWindow, record, Inv, GoodRecord
  <2> QED  BY <2>1 DEF Ground, Steady, TasksSettled, ConnectionSettled, ComingApart
<1>7. ASSUME NEW signedIn \in BOOLEAN, WindowEnds(signedIn)
      PROVE  Steady'
  <2>1. /\ window # "shut" /\ window' = "shut" /\ UNCHANGED <<stored, call>>
        /\ \/ UNCHANGED <<server, waiting>>
           \/ /\ CanIssue /\ server' = Issued("twitch") /\ Joins(Adoption)
              /\ Adoption.pair = First
    BY <1>7, WindowCloses
  <2>2. Quiet(server, server')
    BY <1>0, <2>1, IssuedQuiet DEF Kinds
  <2>3. CanIssue /\ server' = Issued("twitch") /\ Adoption.pair = First
          => SettledTask(server', Adoption)
    BY IssuedFirst DEF SettledTask, Settled, Twitch, Kinds
  <2>4. Coming
    BY <2>1 DEF Coming
  <2> QED  BY <2>1, <2>2, <2>3, <2>4, QuietSteady, SameCallKept
<1>8. ASSUME NEW d \in Devices, RevokedElsewhere(d)
      PROVE  Steady'
  <2>1. UNCHANGED <<stored, call, waiting, window>> /\ Quiet(server, server')
    BY <1>8, QuietServer DEF RevokedElsewhere, record, around
  <2>2. Coming' => Coming
    BY <2>1 DEF Coming
  <2> QED  BY <2>1, <2>2, QuietSteady, SameCallKept
<1>9. CASE Die
  <2>1. call' = Idle /\ waiting' = <<>> /\ window' = "shut" /\ stored' = stored
    BY <1>9 DEF Die
  <2>2. ~ Coming' /\ TasksSettled'
    BY <2>1, IdleSettled DEF Coming, TasksSettled
  <2>3. ConnectionSettled'
    <3> SUFFICES ASSUME stored.kind = "linked" PROVE Settled(server', stored.pair)
      BY <2>1 DEF ConnectionSettled
    <3>1. call.stage \notin {"refresh", "resend"}
      BY RecordFields DEF Ground, Agree, AgreeCall
    <3>2. Made(server, stored.pair)
      BY CallMade DEF Inv, GoodRecord
    <3> QED  BY <1>9, <3>1, <3>2, DieServer, QuietSettled DEF Ground, Steady, ConnectionSettled
  <2> QED  BY <2>2, <2>3 DEF Steady, ComingApart
<1>10. CASE UNCHANGED vars
  BY <1>10 DEF vars, Ground, Steady, TasksSettled, ConnectionSettled, ComingApart, Coming
<1> QED  BY <1>1, <1>2, <1>4, <1>5, <1>6, <1>7, <1>8, <1>9, <1>10 DEF Next

-----------------------------------------------------------------------------
LEMMA AnswerKinds ==
  ASSUME Inv, Ground, Answer
  PROVE  \/ \A d \in Devices : server'[d].kind = server[d].kind
                               /\ (server'[d].live => server[d].live)
         \/ /\ CanIssue
            /\ \/ call.stage = "poll" /\ server' = Issued("link")
               \/ call.stage = "enroll" /\ server' = Issued("installation")
<1>1. AnswersAs(call.pair)
  BY AnswerEffects
<1>2. CASE call.stage \in {"refresh", "resend"} /\ RefreshEnds(call.pair)
  <2>1. server' = server \/ \E x \in Refreshed(call.pair) : server' = x.server
    BY <1>2 DEF RefreshEnds
  <2>2. \A x \in Refreshed(call.pair) : \A d \in Devices :
          x.server[d].kind = server[d].kind /\ (x.server[d].live => server[d].live)
    <3> SUFFICES ASSUME NEW x \in Refreshed(call.pair), NEW d \in Devices
                 PROVE  x.server[d].kind = server[d].kind
                        /\ (x.server[d].live => server[d].live)
      OBVIOUS
    <3>1. x.server \in {server, Revoked({call.pair.device}),
                        [server EXCEPT ![call.pair.device].turn = call.pair.turn + 1]}
      BY DEF Refreshed
    <3> QED  BY <3>1 DEF Revoked, Inv, GoodServer, ServerType
  <2> QED  BY <2>1, <2>2
<1>3. \A ds : \A d \in Devices : Revoked(ds)[d].kind = server[d].kind
                                 /\ (Revoked(ds)[d].live => server[d].live)
  BY DEF Revoked, Inv, GoodServer, ServerType
<1>4. CASE RevokeEnds(call.pair) \/ UseEnds(call.pair)
  <2>1. server' = server \/ \E ds : server' = Revoked(ds)
    BY <1>4 DEF RevokeEnds, UseEnds, Disconnected
  <2> QED  BY <1>3, <2>1
<1>5. CASE ArrivalEnds
  BY <1>5 DEF ArrivalEnds
<1> QED  BY <1>1, <1>2, <1>4, <1>5 DEF AnswersAs

(* The rest of the steps only sign devices out, but for the Twitch window. *)
LEMMA OtherKinds ==
  ASSUME Inv, [Next]_vars, ~ Answer
  PROVE  \/ \A d \in Devices : server'[d].kind = server[d].kind
                               /\ (server'[d].live => server[d].live)
         \/ CanIssue /\ server' = Issued("twitch") /\ WindowEnds(TRUE)
<1>1. ASSUME NEW t, StartCall(t)
      PROVE  server' = server
  BY <1>1, CallStarts
<1>2. ASSUME NEW signedIn \in BOOLEAN, WindowEnds(signedIn)
      PROVE  server' = server \/ (CanIssue /\ server' = Issued("twitch") /\ WindowEnds(TRUE))
  BY <1>2, WindowCloses
<1>3. ASSUME NEW d \in Devices, RevokedElsewhere(d)
      PROVE  server' = Revoked({d})
  BY <1>3 DEF RevokedElsewhere
<1>4. \A ds : \A d \in Devices : Revoked(ds)[d].kind = server[d].kind
                                 /\ (Revoked(ds)[d].live => server[d].live)
  BY DEF Revoked, Inv, GoodServer, ServerType
<1>5. CASE Die
  <2>1. server' = server \/ server' = Disconnected(call.pair)
        \/ \E x \in Refreshed(call.pair) : server' = x.server
    BY <1>5 DEF Die
  <2>2. \A x \in Refreshed(call.pair) : \A d \in Devices :
          x.server[d].kind = server[d].kind /\ (x.server[d].live => server[d].live)
    <3> SUFFICES ASSUME NEW x \in Refreshed(call.pair), NEW d \in Devices
                 PROVE  x.server[d].kind = server[d].kind
                        /\ (x.server[d].live => server[d].live)
      OBVIOUS
    <3>1. x.server \in {server, Revoked({call.pair.device}),
                        [server EXCEPT ![call.pair.device].turn = call.pair.turn + 1]}
      BY DEF Refreshed
    <3> QED  BY <3>1 DEF Revoked, Inv, GoodServer, ServerType
  <2> QED  BY <1>4, <2>1, <2>2 DEF Disconnected
<1>6. CASE server' = server
  BY <1>6
<1> QED  BY <1>1, <1>2, <1>3, <1>4, <1>5, <1>6
         DEF Next, CallOp, CallForget, OpenWindow, vars

-----------------------------------------------------------------------------
(* The account that is about to be forgotten has gone from the server.     *)
LEMMA NobodyDeparted ==
  ASSUME NEW s, GoodServer(s)
  PROVE  Departed(s, Nobody)
BY DEF Nobody, Departed, GoodServer

LEMMA DepartedFalls ==
  ASSUME NEW s, NEW z, NEW a, Departed(s, a),
         \A d \in Devices : z[d].kind = s[d].kind /\ (z[d].live => s[d].live)
  PROVE  Departed(z, a)
BY DEF Departed

LEMMA DepartedIssued ==
  ASSUME Inv, CanIssue, NEW a, Departed(server, a), NEW kind \in Kinds,
         a.kind # kind \/ kind = "installation"
  PROVE  Departed(Issued(kind), a)
<1>1. Fresh \in Devices /\ server[Fresh].kind = "none"
  BY DEF CanIssue, Fresh
<1>2. Issued(kind)[Fresh].kind = kind
      /\ \A d \in Devices : d # Fresh => Issued(kind)[d] = server[d]
  <2> HIDE DEF Fresh
  <2> QED  BY <1>1 DEF Issued, Inv, GoodServer, ServerType
<1>3. a.kind = "installation" => a.device \in Devices /\ a.device # Fresh
  <2> HIDE DEF Fresh
  <2> QED  BY <1>1 DEF Departed
<1> HIDE DEF Fresh
<1> QED  BY <1>1, <1>2, <1>3 DEF Departed

LEMMA EverywhereDeparts ==
  ASSUME Inv, NEW p, Made(server, p)
  PROVE  Departed(Revoked({q.device : q \in {r \in Pairs :
                             AccountOf(r) = AccountOf(p)}}), AccountOf(p))
<1> DEFINE ds == {q.device : q \in {r \in Pairs : AccountOf(r) = AccountOf(p)}}
           a == AccountOf(p)
<1>1. p \in Pairs /\ p.device \in Devices
  BY NoPairApart DEF Made
<1>2. a.kind = server[p.device].kind
      /\ (a.kind = "installation" => a.device = p.device)
  BY DEF AccountOf, KindOf
<1>3. \A d \in Devices : Revoked(ds)[d].kind = server[d].kind
                         /\ (d \in ds => ~ Revoked(ds)[d].live)
  BY DEF Revoked, Inv, GoodServer, ServerType
<1>4. ASSUME NEW d \in Devices, server[d].kind = a.kind,
             a.kind = "installation" => d = a.device
      PROVE  d \in ds
  <2> DEFINE q == [device |-> d, turn |-> 0]
  <2>1. q \in Pairs
    BY Bounds DEF Pairs
  <2>2. AccountOf(q) = AccountOf(p)
    BY <1>2, <1>4 DEF AccountOf, KindOf
  <2> QED  BY <2>1, <2>2
<1> HIDE DEF ds, a
<1>5. Departed(Revoked(ds), a)
  BY <1>1, <1>2, <1>3, <1>4 DEF Departed
<1> QED  BY <1>5 DEF ds, a

LEMMA GoneOne ==
  ASSUME Inv, Ground, [Next]_vars, NEW a, Lasts(a), Departed(server, a),
         window # "shut" => a = Nobody
  PROVE  Departed(server', a)
<1> USE DEF Ground
<1>1. CASE Answer
  <2>1. CASE \A d \in Devices : server'[d].kind = server[d].kind
                                /\ (server'[d].live => server[d].live)
    BY <2>1, DepartedFalls
  <2>2. CASE CanIssue /\ call.stage = "poll" /\ server' = Issued("link")
    BY <2>2, DepartedIssued DEF Lasts, Kinds
  <2>3. CASE CanIssue /\ call.stage = "enroll" /\ server' = Issued("installation")
    BY <2>3, DepartedIssued DEF Kinds
  <2> QED  BY <1>1, <2>1, <2>2, <2>3, AnswerKinds
<1>2. CASE ~ Answer
  <2>1. CASE \A d \in Devices : server'[d].kind = server[d].kind
                                /\ (server'[d].live => server[d].live)
    BY <2>1, DepartedFalls
  <2>2. CASE CanIssue /\ server' = Issued("twitch") /\ WindowEnds(TRUE)
    <3>1. a.kind # "twitch"
      BY <2>2 DEF WindowEnds, Nobody
    <3> QED  BY <2>2, <3>1, DepartedIssued DEF Kinds
  <2> QED  BY <1>2, <2>1, <2>2, OtherKinds
<1> QED  BY <1>1, <1>2

LEMMA GoneQueue ==
  ASSUME Inv, Ground, [Next]_vars, NEW i \in DOMAIN waiting, NEW u,
         SameTask(u, waiting[i]), u.op = "forget", Lasts(u.who)
  PROVE  Departed(server', u.who)
<1>1. GoodServer(server')
  BY NextInv DEF Inv
<1>2. window = "shut"
  BY DEF Ground, OneFlow, Flow, SameTask
<1>3. CASE u.who = Nobody
  BY <1>1, <1>3, NobodyDeparted
<1>4. CASE u.who = waiting[i].who
  <2>1. Departed(server, u.who)
    BY <1>4 DEF Ground, Gone, SameTask
  <2> QED  BY <1>2, <2>1, GoneOne
<1> QED  BY <1>3, <1>4 DEF SameTask

LEMMA NextGone ==
  ASSUME Inv, Ground, [Next]_vars
  PROVE  Gone'
<1> USE DEF Ground
<1>0. GoodServer(server')
  BY NextInv DEF Inv
<1>1. ASSUME leaving' = leaving, Lasts(leaving')
      PROVE  Departed(server', leaving')
  <2>1. window # "shut" => leaving = Nobody
    BY DEF OneFlow
  <2> QED  BY <1>1, <2>1, GoneOne DEF Gone
<1>2. ASSUME leaving' = Nobody
      PROVE  Departed(server', leaving')
  BY <1>0, <1>2, NobodyDeparted
<1>3. \A i \in DOMAIN waiting : SameTask(waiting[i], waiting[i])
  BY DEF SameTask
<1>4. ASSUME waiting' = waiting
      PROVE  \A i \in DOMAIN waiting' :
               waiting'[i].op = "forget" /\ Lasts(waiting'[i].who)
                 => Departed(server', waiting'[i].who)
  BY <1>3, <1>4, GoneQueue
<1>5. ASSUME NEW t, Joins(t), t.op = "forget" /\ Lasts(t.who) => Departed(server', t.who)
      PROVE  \A i \in DOMAIN waiting' :
               waiting'[i].op = "forget" /\ Lasts(waiting'[i].who)
                 => Departed(server', waiting'[i].who)
  BY <1>5, GoneQueue DEF Joins
<1>6. ASSUME NEW t, StartCall(t)
      PROVE  Gone'
  <2>1. leaving' = leaving /\ Popped
    BY <1>6, CallStarts
  <2>2. \A i \in DOMAIN waiting' :
          waiting'[i].op = "forget" /\ Lasts(waiting'[i].who)
            => Departed(server', waiting'[i].who)
    BY <2>1, GoneQueue DEF Popped
  <2> QED  BY <1>1, <2>1, <2>2 DEF Gone
<1>7. CASE Answer
  <2>1. waiting' = waiting
    BY <1>7, CallGoesOn
  <2>2. ASSUME call.stage = "request", leaving' = AccountOf(call.pair),
               server' = Revoked({p.device : p \in {q \in Pairs :
                               AccountOf(q) = AccountOf(call.pair)}})
        PROVE  Departed(server', leaving')
    <3>1. Made(server, call.pair)
      BY <2>2, CallMade
    <3> QED  BY <2>2, <3>1, EverywhereDeparts
  <2> QED  BY <1>1, <1>4, <1>7, <2>1, <2>2, CallGoesOn DEF Gone
<1>8. ASSUME NEW op \in Calls, CallOp(op)
      PROVE  Gone'
  <2>1. leaving' = leaving
    BY <1>8 DEF CallOp
  <2>2. PICK who : Enqueue(Task(op, NoPair, who))
    BY <1>8 DEF CallOp
  <2>3. Task(op, NoPair, who).op # "forget"
    BY SupporterAccountAssumption DEF Task
  <2>4. Joins(Task(op, NoPair, who))
    BY <2>2, CallComes
  <2> QED  BY <1>1, <1>5, <2>1, <2>3, <2>4 DEF Gone
<1>9. CASE CallForget
  <2> DEFINE t == Task("forget", NoPair, leaving)
  <2>1. leaving' = Nobody /\ server' = server /\ Joins(t)
    BY <1>9, CallComes DEF CallForget
  <2>2. t.who = leaving
    BY DEF Task
  <2>3. Lasts(t.who) => Departed(server', t.who)
    BY <2>1, <2>2 DEF Gone
  <2> HIDE DEF t
  <2> QED  BY <1>2, <1>5, <2>1, <2>3 DEF Gone
<1>10. ASSUME NEW signedIn \in BOOLEAN, WindowEnds(signedIn)
       PROVE  Gone'
  <2>1. leaving' = leaving
        /\ (waiting' = waiting \/ (Joins(Adoption) /\ Adoption.op = "adopt"))
    BY <1>10, WindowCloses
  <2>2. CASE waiting' = waiting
    BY <1>1, <1>4, <2>1, <2>2 DEF Gone
  <2>3. CASE Joins(Adoption) /\ Adoption.op = "adopt"
    BY <1>1, <1>5, <2>1, <2>3 DEF Gone
  <2> QED  BY <2>1, <2>2, <2>3
<1>11. CASE OpenWindow \/ (\E d \in Devices : RevokedElsewhere(d)) \/ UNCHANGED vars
  <2>1. leaving' = leaving /\ waiting' = waiting
    BY <1>11 DEF OpenWindow, RevokedElsewhere, around, vars
  <2> QED  BY <1>1, <1>4, <2>1 DEF Gone
<1>12. CASE Die
  <2>1. leaving' = Nobody /\ waiting' = <<>>
    BY <1>12 DEF Die
  <2> QED  BY <1>2, <2>1 DEF Gone
<1> QED  BY <1>6, <1>7, <1>8, <1>9, <1>10, <1>11, <1>12 DEF Next

LEMMA InitGround == Init => Ground
<1> SUFFICES ASSUME Init PROVE Ground
  OBVIOUS
<1>1. /\ stored = Empty /\ call = Idle /\ waiting = <<>> /\ leaving = Nobody
      /\ window = "shut" /\ server = [d \in Devices |-> NoDevice]
  BY DEF Init
<1>2. stored.kind = "none"
  BY <1>1, RecordFields DEF Empty
<1>3. \A d \in Devices : server[d].kind = "none" /\ ~ server[d].live
  BY <1>1 DEF NoDevice
<1>4. Steady
  BY <1>1, <1>2, IdleSettled DEF Steady, TasksSettled, ConnectionSettled, ComingApart, Coming
<1>5. Gone
  BY <1>1, <1>3 DEF Gone, Departed, Nobody
<1> QED  BY <1>4, <1>5, InitAgree, InitOneFlow DEF Ground

LEMMA NextGround == Inv /\ Ground /\ [Next]_vars => Ground'
BY NextAgree, NextOneFlow, NextSteady, NextGone DEF Ground

-----------------------------------------------------------------------------
(* Nothing is dropped from the queue but its head.                         *)
LEMMA TailKept ==
  ASSUME Inv, NEW t, StartCall(t)
  PROVE  \A i \in DOMAIN waiting :
           i # 1 => i - 1 \in DOMAIN waiting' /\ waiting'[i - 1].pair = waiting[i].pair
<1>1. waiting # <<>>
  BY CallStarts DEF Inv, GoodQueue
<1>2. \/ waiting' = Tail(waiting)
      \/ \E account : waiting' = Forgotten(Tail(waiting), account)
  BY DEF StartCall, StartOutdated, StartRevoking, StartDisconnect, StartCancel,
         StartInterrupted, StartHeld, StartPending, StartEmpty, StartForget,
         StartAdopt
<1>3. waiting \in Seq(Tasks) /\ Len(waiting) \in Nat /\ DOMAIN waiting = 1 .. Len(waiting)
  BY Places DEF Inv, GoodQueue
<1>4. \A i \in DOMAIN waiting :
        i # 1 => i - 1 \in DOMAIN Tail(waiting) /\ Tail(waiting)[i - 1] = waiting[i]
  BY <1>1, <1>3
<1>5. \A i \in DOMAIN Tail(waiting) : Tail(waiting)[i] \in Tasks
  BY <1>1, <1>3
<1>6. ASSUME NEW account, waiting' = Forgotten(Tail(waiting), account)
      PROVE  /\ DOMAIN waiting' = DOMAIN Tail(waiting)
             /\ \A i \in DOMAIN Tail(waiting) : waiting'[i].pair = Tail(waiting)[i].pair
  BY <1>5, <1>6 DEF Forgotten, Tasks
<1> QED  BY <1>2, <1>4, <1>6

LEMMA AppendKeeps ==
  ASSUME Inv, NEW ts, NEW t, waiting' = Append(ts, t),
         ts \in Seq(Tasks), Len(ts) = Len(waiting),
         \A i \in DOMAIN waiting : SameTask(ts[i], waiting[i])
  PROVE  /\ \A i \in DOMAIN waiting :
              i \in DOMAIN waiting' /\ waiting'[i].pair = waiting[i].pair
         /\ Len(waiting) + 1 \in DOMAIN waiting' /\ waiting'[Len(waiting) + 1] = t
<1>1. DOMAIN waiting = 1 .. Len(waiting) /\ Len(waiting) \in Nat
  BY Places DEF Inv
<1>2. /\ \A i \in DOMAIN waiting : i \in DOMAIN waiting' /\ waiting'[i] = ts[i]
      /\ Len(waiting) + 1 \in DOMAIN waiting' /\ waiting'[Len(waiting) + 1] = t
  BY <1>1
<1> QED  BY <1>2 DEF SameTask

LEMMA CallKeepsQueue ==
  ASSUME Inv, NEW t, Enqueue(t)
  PROVE  \A i \in DOMAIN waiting :
           i \in DOMAIN waiting' /\ waiting'[i].pair = waiting[i].pair
<1> DEFINE ts == [i \in DOMAIN waiting |->
                    IF t.op \in Bumps THEN Outdated(waiting[i]) ELSE waiting[i]]
<1>1. \A i \in DOMAIN waiting : waiting[i] \in Tasks /\ Outdated(waiting[i]) \in Tasks
                                 /\ SameTask(Outdated(waiting[i]), waiting[i])
  BY DEF Inv, GoodQueue, GoodTask, Tasks, Outdated, SameTask
<1>2. \A i \in DOMAIN waiting : ts[i] \in Tasks /\ SameTask(ts[i], waiting[i])
  BY <1>1 DEF SameTask
<1>3. DOMAIN waiting = 1 .. Len(waiting) /\ Len(waiting) \in Nat
  BY Places DEF Inv
<1>4. ts \in Seq(Tasks) /\ Len(ts) = Len(waiting)
  <2>1. ts \in [1 .. Len(waiting) -> Tasks]
    BY <1>2, <1>3
  <2> HIDE DEF ts
  <2> QED  BY <1>3, <2>1
<1>5. waiting' = Append(ts, t)
  BY DEF Enqueue
<1> HIDE DEF ts
<1> QED  BY <1>2, <1>4, <1>5, AppendKeeps

LEMMA WindowKeepsQueue ==
  ASSUME Inv, NEW signedIn \in BOOLEAN, WindowEnds(signedIn)
  PROVE  /\ \A i \in DOMAIN waiting :
              i \in DOMAIN waiting' /\ waiting'[i].pair = waiting[i].pair
         /\ signedIn => \E i \in DOMAIN waiting' : waiting'[i].pair = First
<1>1. CASE ~ signedIn
  BY <1>1 DEF WindowEnds
<1>2. CASE signedIn
  <2>1. waiting' = Append(waiting, Adoption)
    BY <1>2 DEF WindowEnds, Adoption
  <2>2. \A i \in DOMAIN waiting : SameTask(waiting[i], waiting[i])
    BY DEF SameTask
  <2>3. Adoption.pair = First
    BY DEF Adoption, Task
  <2> HIDE DEF Adoption
  <2> QED  BY <2>1, <2>2, <2>3, AppendKeeps DEF Inv, GoodQueue
<1> QED  BY <1>1, <1>2

-----------------------------------------------------------------------------
(* What an enrolment may find stored: nothing, or it is a purchase or a    *)
(* restore outdated before it looked.                                      *)
EnrolsFit ==
  call.stage = "enroll" /\ stored.pair # NoPair
    => call.task.stale /\ call.task.op \in {"purchase", "restore"}

LEMMA ContinueEnrolls ==
  ASSUME NEW t, NEW state, Continue(t, state), call'.stage = "enroll"
  PROVE  /\ call'.task = t /\ t.op \in Enrolls
         /\ state \notin {"linked", "unavailable", "pending", "error"}
         /\ t.op = "connect" => ~ t.stale
BY IdleStage DEF Continue, Ends, Goes, MayEnroll, Enrolls

LEMMA StartEnrolls ==
  ASSUME Inv, NEW t, StartCall(t)
  PROVE  EnrolsFit'
<1> SUFFICES ASSUME call'.stage = "enroll"
             PROVE  \/ stored'.pair = NoPair
                    \/ call'.task.stale /\ call'.task.op \in {"purchase", "restore"}
  BY DEF EnrolsFit
<1>1. CASE StartOutdated(t)
  <2>1. call'.task = t /\ t.op \in Enrolls /\ (t.op = "connect" => ~ t.stale)
    BY <1>1, ContinueEnrolls DEF StartOutdated
  <2> QED  BY <1>1, <2>1 DEF StartOutdated, Enrolls
<1>2. CASE StartRevoking(t)
  BY <1>2, ContinueEnrolls DEF StartRevoking, Goes
<1>3. CASE StartDisconnect(t) \/ StartCancel(t) \/ StartForget(t) \/ StartAdopt(t)
  BY <1>3, IdleStage
     DEF StartDisconnect, StartCancel, StartForget, StartAdopt, Revoke, Goes, Ends
<1>4. CASE StartInterrupted(t)
  BY <1>4, RecordFields DEF StartInterrupted, Relink
<1>5. CASE StartHeld(t)
  <2>1. \/ stored' = Relink
        \/ Continue(t, "linked") \/ Continue(t, "unavailable")
        \/ Renews(t)
    BY <1>5 DEF StartHeld
  <2> QED  BY <2>1, ContinueEnrolls, RecordFields DEF Renews, Goes, Relink
<1>6. CASE StartPending(t)
  <2>1. \/ stored' = Empty
        \/ Continue(t, "pending")
        \/ Goes(t, "poll", NoPair)
    BY <1>6 DEF StartPending
  <2> QED  BY <2>1, ContinueEnrolls, RecordFields DEF Goes, Empty
<1>7. CASE StartEmpty(t)
  <2>1. stored' = stored /\ stored.kind \in {"none", "relink"}
    BY <1>7 DEF StartEmpty
  <2> QED  BY <2>1 DEF Inv, GoodRecord
<1> QED  BY <1>1, <1>2, <1>3, <1>4, <1>5, <1>6, <1>7 DEF StartCall

LEMMA AnswerEnrolls ==
  ASSUME Inv, Answer, call'.stage = "enroll"
  PROVE  stored'.pair = NoPair
<1> USE DEF Asked
<1>1. \A p : ~ Revoke(call.task, p) /\ ~ Discard(call.task, p)
  BY DEF Revoke, Discard, Goes
<1>2. \A state : ~ Ends(call.task, state)
  BY IdleStage DEF Ends
<1>3. \A state \in {"linked", "unavailable", "pending", "error"} : ~ Continue(call.task, state)
  BY ContinueEnrolls
<1>4. CASE RefreshNotAttempted \/ RefreshGarbled \/ RefreshAnswers
           \/ (\E lost \in BOOLEAN : RefreshUnclear(lost))
  <2>1. stored' = Relink
    BY <1>1, <1>3, <1>4 DEF RefreshNotAttempted, RefreshGarbled, RefreshAnswers, RefreshUnclear
  <2> QED  BY <2>1, RecordFields DEF Relink
<1>5. CASE RevokeAnswers \/ RevokeFails \/ EnrollFails \/ LinkAnswers \/ RequestEnds
  <2>1. stored' = Empty
    BY <1>2, <1>5 DEF RevokeAnswers, RevokeFails, EnrollFails, LinkAnswers, RequestEnds
  <2> QED  BY <2>1, RecordFields DEF Empty
<1>6. CASE ResendAnswers \/ ResendFails
  BY <1>1, <1>2, <1>6 DEF ResendAnswers, ResendFails
<1>7. CASE \E failed \in BOOLEAN : DisposeEnds(failed) \/ SettleEnds(failed)
  BY <1>2, <1>7 DEF DisposeEnds, SettleEnds, Goes
<1>8. CASE PollApproved \/ PollElse \/ EnrollAnswers
  <2>1. stored' = Relink \/ stored' = Empty
    BY <1>1, <1>2, <1>3, <1>8 DEF PollApproved, PollElse, EnrollAnswers
  <2> QED  BY <2>1, RecordFields DEF Relink, Empty
<1> QED  BY <1>4, <1>5, <1>6, <1>7, <1>8 DEF Answer

(* A call in flight only becomes outdated.                                 *)
LEMMA EnqueueOutdates ==
  ASSUME Inv, NEW t, Enqueue(t)
  PROVE  \/ call' = call
         \/ /\ call'.stage = call.stage /\ call'.task.op = call.task.op
            /\ call'.task.stale
<1>1. call \in CallType
  BY DEF Inv, GoodCall
<1>2. call' = call \/ call' = [call EXCEPT !.task = Outdated(@)]
  BY DEF Enqueue, OutdateAll
<1>3. Outdated(call.task).op = call.task.op /\ Outdated(call.task).stale
  BY <1>1 DEF CallType, Tasks, Outdated
<1> QED  BY <1>1, <1>2, <1>3 DEF CallType

Hold == Ground /\ EnrolsFit

LEMMA NextHold == Inv /\ Hold /\ [Next]_vars => Hold'
<1> SUFFICES ASSUME Inv, Hold, [Next]_vars PROVE EnrolsFit'
  BY NextGround DEF Hold
<1>1. ASSUME NEW t, StartCall(t)
      PROVE  EnrolsFit'
  BY <1>1, StartEnrolls
<1>2. CASE Answer
  BY <1>2, AnswerEnrolls DEF EnrolsFit
<1>3. ASSUME NEW t, Enqueue(t), stored' = stored
      PROVE  EnrolsFit'
  BY <1>3, EnqueueOutdates DEF Hold, EnrolsFit
<1>4. CASE (\E op \in Calls : CallOp(op)) \/ CallForget
  BY <1>3, <1>4 DEF CallOp, CallForget, record
<1>5. CASE \/ (\E signedIn \in BOOLEAN : WindowEnds(signedIn))
           \/ OpenWindow \/ (\E d \in Devices : RevokedElsewhere(d)) \/ UNCHANGED vars
  <2>1. UNCHANGED <<stored, call>>
    BY <1>5 DEF WindowEnds, OpenWindow, RevokedElsewhere, record, vars
  <2> QED  BY <2>1 DEF Hold, EnrolsFit
<1>6. CASE Die
  BY <1>6, IdleStage DEF Die, EnrolsFit
<1> QED  BY <1>1, <1>2, <1>4, <1>5, <1>6 DEF Next

LEMMA InitHold == Init => Hold
BY InitGround, IdleStage DEF Init, Hold, EnrolsFit

-----------------------------------------------------------------------------
(* The steps of the known losses, by their effects.                        *)
LEMMA HeadStarts ==
  ASSUME NEW t, StartCall(t)
  PROVE  /\ t.op = "adopt" => StartAdopt(Head(waiting))
         /\ Forgets(t) => StartForget(Head(waiting))
<1>1. t = Head(waiting)
  BY DEF StartCall, StartOutdated, StartRevoking, StartDisconnect, StartCancel,
         StartInterrupted, StartHeld, StartPending, StartEmpty, StartForget,
         StartAdopt, Performs, Reads, Starts
<1>2. StartAdopt(t) => t.op = "adopt"
  BY DEF StartAdopt
<1>3. t.op = "adopt" => StartAdopt(t)
  BY DEF StartCall, StartOutdated, StartRevoking, StartDisconnect, StartCancel,
         StartInterrupted, StartHeld, StartPending, StartEmpty, StartForget,
         Performs, Reads, Forgets
<1>4. Forgets(t) => StartForget(t)
  BY <1>2 DEF StartCall, StartOutdated, StartRevoking, StartDisconnect, StartCancel,
         StartInterrupted, StartHeld, StartPending, StartEmpty, Performs, Reads, Forgets
<1> QED  BY <1>1, <1>3, <1>4

LEMMA AnswerNames ==
  ASSUME Answer, stored' # stored
  PROVE  /\ call.stage \in {"revoke", "discard"} => RevokeAnswers
         /\ call.stage = "settle" => SettleEnds(FALSE)
         /\ call.stage = "enroll" => EnrollAnswers
         /\ call.stage = "refresh" /\ Durable(call.pair) /\ stored' = Relink
              => \/ RefreshGarbled
                 \/ \E x \in Refreshed(call.pair) : server' = x.server /\ x.pair = NoPair
<1>1. CASE call.stage \in {"revoke", "discard"}
  BY <1>1 DEF Answer, Answered, RefreshNotAttempted, RefreshUnclear, RefreshGarbled,
     RefreshAnswers, RevokeFails, ResendAnswers, ResendFails, DisposeEnds, SettleEnds,
     LinkAnswers, PollApproved, PollElse, EnrollAnswers, EnrollFails, RequestEnds
<1>2. CASE call.stage = "settle"
  BY <1>2 DEF Answer, Answered, RefreshNotAttempted, RefreshUnclear, RefreshGarbled,
     RefreshAnswers, RevokeAnswers, RevokeFails, ResendAnswers, ResendFails, DisposeEnds,
     SettleEnds, LinkAnswers, PollApproved, PollElse, EnrollAnswers, EnrollFails, RequestEnds
<1>3. CASE call.stage = "enroll"
  BY <1>3 DEF Answer, Answered, RefreshNotAttempted, RefreshUnclear, RefreshGarbled,
     RefreshAnswers, RevokeAnswers, RevokeFails, ResendAnswers, ResendFails, DisposeEnds,
     SettleEnds, LinkAnswers, PollApproved, PollElse, EnrollFails, record, RequestEnds
<1>4. CASE call.stage = "refresh" /\ Durable(call.pair) /\ stored' = Relink
  <2>1. ~ RefreshNotAttempted /\ \A p : ~ Revoke(Asked, p)
    BY <1>4, RecordFields DEF RefreshNotAttempted, Revoke, Relink
  <2>2. \A p : stored' # Record("linked", p)
    BY <1>4, RecordFields DEF Relink
  <2>3. \/ RefreshGarbled \/ RefreshAnswers
        \/ \E lost \in BOOLEAN : RefreshUnclear(lost)
    BY <1>4, <2>1 DEF Answer, Answered, RevokeAnswers, RevokeFails, ResendAnswers,
       ResendFails, DisposeEnds, SettleEnds, LinkAnswers, PollApproved, PollElse,
       EnrollAnswers, EnrollFails, RequestEnds
  <2>4. CASE RefreshAnswers
    <3>1. PICK x \in Refreshed(call.pair) :
            /\ server' = x.server
            /\ \/ x.pair = NoPair \/ Revoke(Asked, x.pair)
               \/ stored' = Record("linked", x.pair)
      BY <2>4 DEF RefreshAnswers
    <3> QED  BY <1>4, <2>1, <2>2, <3>1
  <2>5. CASE \E lost \in BOOLEAN : RefreshUnclear(lost)
    BY <1>4, <2>5 DEF RefreshUnclear
  <2> QED  BY <1>4, <2>3, <2>4, <2>5
<1> QED  BY <1>1, <1>2, <1>3, <1>4

(* An account with a durable pair that is forgotten here has gone from the *)
(* server.                                                                 *)
LEMMA ForgottenGone ==
  ASSUME Inv, Ground, NEW i \in DOMAIN waiting, waiting[i].op = "forget",
         Held, AccountOf(stored.pair) = waiting[i].who, Durable(stored.pair)
  PROVE  ~ server[stored.pair.device].live
<1> DEFINE a == waiting[i].who
<1>1. stored.pair.device \in Devices
  BY HeldPair, CallMade, NoPairApart DEF Made, Inv
<1>2. a.kind = server[stored.pair.device].kind
      /\ (a.kind = "installation" => a.device = stored.pair.device)
  BY DEF AccountOf, KindOf
<1>3. Departed(server, a)
  BY <1>2 DEF Ground, Gone, Durable, KindOf, Lasts
<1> HIDE DEF a
<1> QED  BY <1>1, <1>2, <1>3 DEF Departed

-----------------------------------------------------------------------------
(* Durable pairs stay.                                                     *)
LEMMA StartKeepsDurable ==
  ASSUME Inv, Hold, NEW t, StartCall(t),
         Held, Durable(stored.pair), server'[stored.pair.device].live
  PROVE  stored'.pair.device = stored.pair.device \/ AdoptsOver
<1> USE DEF Hold
<1>1. /\ call.stage = "idle" /\ server' = server
      /\ 1 \in DOMAIN waiting /\ t = waiting[1]
  BY CallStarts
<1>2. stored.pair # NoPair /\ (Linked \/ stored.kind = "refreshing")
  BY HeldPair DEF Inv, Held
<1>3. ~ (t.op = "forget" /\ AccountOf(stored.pair) = t.who)
  BY <1>1, ForgottenGone
<1>4. CASE t.op = "adopt" /\ ~ Linked
  BY <1>2, <1>4, HeadStarts DEF AdoptsOver
<1>5. CASE ~ (t.op = "adopt" /\ ~ Linked)
  BY <1>1, <1>2, <1>3, <1>5, StartEffects, RecordFields DEF StartsAs, Emptied
<1> QED  BY <1>4, <1>5

LEMMA AnswerKeepsDurable ==
  ASSUME Inv, Hold, Answer,
         Held, Durable(stored.pair), server'[stored.pair.device].live
  PROVE  stored'.pair.device = stored.pair.device \/ EnrolsOver \/ RefreshGarbled
<1> USE DEF Hold
<1> SUFFICES ASSUME stored' # stored PROVE stored'.pair.device = stored.pair.device
                                           \/ EnrolsOver \/ RefreshGarbled
  OBVIOUS
<1>1. AgreeCall(server, stored, call)
  BY DEF Ground, Agree
<1>2. stored.pair # NoPair /\ stored.kind \in {"linked", "due", "refreshing"}
  BY HeldPair DEF Inv, Held, Linked
<1>3. CASE call.stage \in {"refresh", "resend"} /\ RefreshEnds(call.pair)
  <2>1. call.stage = "refresh" /\ stored.pair = call.pair
    BY <1>1, <1>2, <1>3, RecordFields DEF AgreeCall
  <2>2. \A x \in Refreshed(call.pair) :
          /\ x.pair = NoPair => ~ x.server[stored.pair.device].live
          /\ x.pair # NoPair => x.pair.device = stored.pair.device
    BY <2>1, CallMade, RefreshedSettled
  <2>3. stored' = Relink => RefreshGarbled
    BY <2>1, <2>2, AnswerNames
  <2> QED  BY <1>3, <2>1, <2>2, <2>3, RecordFields DEF RefreshEnds, Emptied
<1>4. CASE RevokeEnds(call.pair)
  <2>1. call.stage \notin {"revoke", "discard", "settle"}
    BY <1>1, <1>2, RecordFields DEF AgreeCall
  <2> QED  BY <1>4, <2>1 DEF RevokeEnds
<1>5. CASE ArrivalEnds
  <2>1. call.stage = "enroll"
    BY <1>1, <1>2, <1>5 DEF AgreeCall, ArrivalEnds
  <2>2. EnrollAnswers
    BY <2>1, AnswerNames
  <2> QED  BY <1>2, <2>1, <2>2 DEF EnrolsFit, EnrolsOver
<1>6. CASE UseEnds(call.pair)
  <2>1. stored.kind = "linked" /\ stored.pair = call.pair
    BY <1>1, <1>6, RecordFields DEF AgreeCall, UseEnds
  <2>2. server' = server => Current(call.pair)
    BY <2>1 DEF Ground, Steady, ConnectionSettled, Settled, Current
  <2> QED  BY <1>6, <2>2 DEF UseEnds
<1> QED  BY <1>3, <1>4, <1>5, <1>6, AnswerEffects DEF AnswersAs

(* A durable pair the server still honours leaves the browser by no lost   *)
(* answer, server error, stopped worker, sign-out or forgetting, in any    *)
(* order of any number of calls of every kind: only by the enrolment of an *)
(* outdated purchase or restore, an adoption over its marker, or an answer *)
(* that is not this device's credentials.                                  *)
THEOREM DurableStays == Spec => DurableKept
<1>1. Inv /\ Hold /\ [Next]_vars => Inv' /\ Hold'
  BY NextInv, NextHold
<1>2. Inv /\ Hold /\ [Next]_vars
        => [\A d \in Devices :
              /\ Held /\ stored.pair.device = d /\ Durable(stored.pair)
              /\ server'[d].live
              => \/ stored'.pair.device = d
                 \/ EnrolsOver \/ AdoptsOver \/ RefreshGarbled]_vars
  <2> SUFFICES ASSUME Inv, Hold, [Next]_vars, NEW d \in Devices,
                      Held, stored.pair.device = d, Durable(stored.pair), server'[d].live
               PROVE  \/ stored'.pair.device = d
                      \/ EnrolsOver \/ AdoptsOver \/ RefreshGarbled
    OBVIOUS
  <2> QED  BY StepsOfOthers, StartKeepsDurable, AnswerKeepsDurable
<1> QED  BY <1>1, <1>2, InitInv, InitHold, PTL DEF Spec, DurableKept

-----------------------------------------------------------------------------
(* No credential left behind.  A device is left behind by a step when the  *)
(* browser knew of it, or it was not there.                                *)
Loses(d) == ~ LeftBehind(d) /\ LeftBehind(d)'

KnownLoss(d) ==
  d = stored.pair.device /\ (EnrolsOver \/ AdoptsOver \/ ForgetsLink \/ RevokesNothing)

LEMMA KnownAt ==
  ASSUME NEW d, server[d].live, ~ LeftBehind(d)
  PROVE  \/ d \in doubtful
         \/ d \in {call.pair.device, call.task.pair.device, stored.pair.device}
         \/ \E i \in DOMAIN waiting : d = waiting[i].pair.device
BY DEF LeftBehind, InHand

LEMMA LostAt ==
  ASSUME NEW d, LeftBehind(d)'
  PROVE  /\ server'[d].live /\ d \notin doubtful'
         /\ d # call'.pair.device /\ d # call'.task.pair.device /\ d # stored'.pair.device
         /\ \A i \in DOMAIN waiting' : d # waiting'[i].pair.device
BY DEF LeftBehind, InHand

LEMMA NoDevice0 == \A d \in Devices : d # NoPair.device
BY DEF Devices, NoPair

LEMMA DoubtsGrow ==
  ASSUME Inv, [Next]_vars
  PROVE  doubtful \subseteq doubtful'
<1>1. CASE Answer
  BY <1>1, AnswerEffects
     DEF AnswersAs, RefreshEnds, RevokeEnds, ArrivalEnds, UseEnds, Doubts
<1>2. ASSUME NEW t, StartCall(t)
      PROVE  doubtful' = doubtful
  BY <1>2, CallStarts
<1> QED  BY <1>1, <1>2
         DEF Next, CallOp, CallForget, OpenWindow, WindowEnds, RevokedElsewhere, Die, vars

(* An adoption keeps its pair in hand, or stores it.                       *)
LEMMA AdoptKept ==
  ASSUME NEW t, StartCall(t), t.op = "adopt"
  PROVE  call'.task.pair = t.pair \/ stored'.pair = t.pair
<1>1. StartAdopt(t)
  BY DEF StartCall, StartOutdated, StartRevoking, StartDisconnect, StartCancel,
         StartInterrupted, StartHeld, StartPending, StartEmpty, StartForget,
         Performs, Reads, Forgets
<1>2. \/ \E stage, p : Goes(t, stage, p)
      \/ Adopts(t.pair)
  BY <1>1 DEF StartAdopt, Revoke
<1> QED  BY <1>2, RecordFields DEF Goes, Adopts

LEMMA StartLeaves ==
  ASSUME Inv, Hold, NEW t, StartCall(t), NEW d \in Devices, Loses(d)
  PROVE  KnownLoss(d)
<1> USE DEF Hold
<1>1. /\ call.stage = "idle" /\ server' = server /\ doubtful' = doubtful
      /\ 1 \in DOMAIN waiting /\ t = waiting[1]
  BY CallStarts
<1>2. call.pair = NoPair /\ call.task.pair = NoPair
  BY <1>1 DEF Ground, Agree, AgreeCall, Idle, Task
<1>3. /\ d # call'.pair.device /\ d # call'.task.pair.device /\ d # stored'.pair.device
      /\ \A i \in DOMAIN waiting' : d # waiting'[i].pair.device
  BY LostAt DEF Loses
<1>4. \/ d = stored.pair.device
      \/ \E i \in DOMAIN waiting : d = waiting[i].pair.device
  BY <1>1, <1>2, NoDevice0, KnownAt, LostAt DEF Loses
<1>5. \A i \in DOMAIN waiting : i = 1 \/ d # waiting[i].pair.device
  BY <1>3, TailKept
<1>6. d # t.pair.device
  <2>1. t.op # "adopt" => t.pair = NoPair
    BY <1>1 DEF Ground, Agree, BringsOwn
  <2> QED  BY <1>3, <2>1, NoDevice0, AdoptKept
<1>7. d = stored.pair.device /\ stored.pair # NoPair
  BY <1>1, <1>4, <1>5, <1>6, NoDevice0
<1>8. stored.kind # "revoking" /\ ~ Linked => stored.kind = "refreshing"
  BY <1>7 DEF Inv, GoodRecord, RecordType, Linked
<1>9. CASE t.op = "forget" /\ Held /\ AccountOf(stored.pair) = t.who
  <2>1. StartForget(Head(waiting))
    BY <1>9, HeadStarts DEF Forgets
  <2>2. ~ Durable(stored.pair)
    BY <1>1, <1>7, <1>9, ForgottenGone, LostAt DEF Loses
  <2>3. server[d].kind \in Kinds \cup {"none"} /\ server[d].kind # "none"
    BY <1>1, LostAt DEF Loses, Inv, GoodServer, ServerType
  <2>4. KindOf(stored.pair) = "link"
    BY <1>7, <2>2, <2>3 DEF KindOf, Durable, Kinds
  <2> QED  BY <1>7, <2>1, <2>4 DEF KnownLoss, ForgetsLink
<1>10. CASE t.op = "adopt" /\ ~ Linked /\ stored.kind # "revoking"
  BY <1>7, <1>8, <1>10, HeadStarts DEF KnownLoss, AdoptsOver
<1>11. CASE /\ ~ (t.op = "forget" /\ Held /\ AccountOf(stored.pair) = t.who)
            /\ ~ (t.op = "adopt" /\ ~ Linked /\ stored.kind # "revoking")
  <2>1. server[stored.pair.device].live
    BY <1>1, <1>7, LostAt DEF Loses
  <2>2. stored'.pair = stored.pair \/ call'.pair = stored.pair
    BY <1>7, <1>11, <2>1, StartEffects, RecordFields DEF StartsAs, Emptied
  <2> QED  BY <1>3, <1>7, <2>2
<1> QED  BY <1>9, <1>10, <1>11

(* A disconnect by the current token signs the device out.                 *)
LEMMA DisconnectedGone ==
  ASSUME Inv, NEW p, p.device \in Devices, Current(p)
  PROVE  ~ Disconnected(p)[p.device].live
BY DEF Disconnected, Revoked, Inv, GoodServer, ServerType

LEMMA AnswerLeaves ==
  ASSUME Inv, Hold, Answer, NEW d \in Devices, Loses(d), [Next]_vars
  PROVE  KnownLoss(d)
<1> USE DEF Hold
<1>1. /\ AnswersAs(call.pair) /\ waiting' = waiting /\ doubtful \subseteq doubtful'
      /\ call' = Idle \/ call'.task = call.task
  BY AnswerEffects, CallGoesOn, DoubtsGrow
<1>2. AgreeCall(server, stored, call) /\ BringsOwn(call.task)
  BY DEF Ground, Agree
<1>3. /\ server'[d].live /\ d \notin doubtful'
      /\ d # call'.pair.device /\ d # call'.task.pair.device /\ d # stored'.pair.device
      /\ \A i \in DOMAIN waiting' : d # waiting'[i].pair.device
  BY LostAt DEF Loses
<1>4. CASE server[d].live
  <2>1. d \in {call.pair.device, call.task.pair.device, stored.pair.device}
    BY <1>1, <1>3, <1>4, KnownAt DEF Loses
  <2>2. CASE call.stage \in {"refresh", "resend"} /\ RefreshEnds(call.pair)
    <3>1. call.task.pair = NoPair
      BY <1>2, <2>2 DEF AgreeCall, BringsOwn
    <3>2. stored.pair \in {call.pair, NoPair}
      BY <1>2, <2>2, RecordFields DEF AgreeCall
    <3>3. d = call.pair.device
      BY <2>1, <3>1, <3>2, NoDevice0
    <3>4. call.stage = "refresh" /\ Durable(call.pair) => stored.pair = call.pair
      BY <1>2, RecordFields DEF AgreeCall, Durable, Lasting, KindOf
    <3>5. \A x \in Refreshed(call.pair) :
            /\ x.pair = NoPair => ~ x.server[d].live
            /\ x.pair # NoPair => x.pair.device = d
      BY <2>2, <3>3, CallMade, RefreshedSettled
    <3>6. ~ Doubts(call.pair)
      BY <1>3, <3>3 DEF Doubts
    <3> QED  BY <1>3, <2>2, <3>3, <3>4, <3>5, <3>6, RecordFields DEF RefreshEnds
  <2>3. CASE RevokeEnds(call.pair)
    <3>1. d # NoPair.device
      BY NoDevice0
    <3>2. call.stage \in {"revoke", "discard", "settle"} => stored.pair = call.pair
      BY <1>2, RecordFields DEF AgreeCall
    <3>3. call.stage = "dispose" => call.pair = call.task.pair /\ call.task.op = "adopt"
      BY <1>2 DEF AgreeCall
    <3>4. call.stage \in {"revoke", "discard", "dispose"} =>
            call.task.pair \in {NoPair, call.pair}
      BY <1>2 DEF AgreeCall, BringsOwn, Enrolls
    <3>5. d = call.pair.device
      <4>1. CASE call.stage \in {"revoke", "discard", "dispose"}
        BY <1>3, <2>1, <2>3, <3>1, <3>2, <3>3, <3>4, <4>1 DEF RevokeEnds
      <4>2. CASE call.stage = "settle"
        BY <1>3, <2>1, <2>3, <3>1, <3>2, <4>2, RecordFields DEF RevokeEnds
      <4> QED  BY <2>3, <4>1, <4>2 DEF RevokeEnds
    <3>6. stored' = stored => call.stage = "dispose"
      BY <1>3, <2>3, <3>2, <3>5 DEF RevokeEnds
    <3>7. server' = Disconnected(call.pair)
      BY <1>3, <2>3, <3>5, <3>6 DEF RevokeEnds, Doubts
    <3>8. ~ Current(call.pair)
      BY <1>3, <3>5, <3>7, DisconnectedGone
    <3>9. CASE call.stage = "dispose"
      <4>1. Settled(server, call.pair)
        BY <3>3, <3>9 DEF Ground, Steady, TasksSettled, SettledTask
      <4> QED  BY <1>4, <3>5, <3>8, <4>1 DEF Settled, Current
    <3>10. CASE call.stage # "dispose"
      <4>1. stored' # stored /\ call.stage \in {"revoke", "discard", "settle"}
        BY <2>3, <3>6, <3>10 DEF RevokeEnds
      <4>2. RevokeAnswers \/ SettleEnds(FALSE)
        BY <4>1, AnswerNames
      <4> QED  BY <3>2, <3>5, <3>8, <4>1, <4>2 DEF KnownLoss, RevokesNothing
    <3> QED  BY <3>9, <3>10
  <2>4. CASE ArrivalEnds
    <3>1. call.stage \in {"link", "poll", "enroll"}
      BY <2>4 DEF ArrivalEnds
    <3>2. call.pair = NoPair /\ call.task.pair = NoPair
      BY <1>2, <3>1 DEF AgreeCall, BringsOwn, Enrolls
    <3>3. d = stored.pair.device /\ stored.pair # NoPair
      BY <2>1, <3>2, NoDevice0
    <3>4. call.stage = "enroll"
      BY <1>2, <3>1, <3>3 DEF AgreeCall, Inv, GoodRecord
    <3>5. EnrollAnswers
      BY <1>3, <3>3, <3>4, AnswerNames
    <3> QED  BY <3>3, <3>4, <3>5 DEF EnrolsFit, EnrolsOver, KnownLoss
  <2>5. CASE UseEnds(call.pair)
    <3>1. call.stage = "request"
      BY <2>5 DEF UseEnds
    <3>2. stored.kind = "linked" /\ stored.pair = call.pair /\ call.task.pair = NoPair
      BY <1>2, <3>1, RecordFields DEF AgreeCall, BringsOwn
    <3>3. d = call.pair.device
      BY <2>1, <3>2, NoDevice0
    <3>4. Current(call.pair)
      BY <1>4, <3>2, <3>3 DEF Ground, Steady, ConnectionSettled, Settled, Current
    <3> QED  BY <1>3, <2>5, <3>2, <3>3, <3>4 DEF UseEnds
  <2> QED  BY <1>1, <2>2, <2>3, <2>4, <2>5 DEF AnswersAs
<1>5. CASE ~ server[d].live
  <2>1. CanIssue /\ \E kind \in Kinds : server' = Issued(kind)
    BY <1>3, <1>5, AnswerKinds DEF Kinds
  <2>2. d = First.device
    <3>1. \A kind : \A e \in Devices : e # Fresh => Issued(kind)[e] = server[e]
      BY DEF Issued, Inv, GoodServer, ServerType
    <3> QED  BY <1>3, <1>5, <2>1, <3>1 DEF First
  <2>3. stored'.pair = First
    <3>1. ArrivalEnds
      <4>1. \A x \in Refreshed(call.pair) : x.server[d].live => server[d].live
        BY DEF Refreshed, Revoked, Inv, GoodServer, ServerType
      <4>2. \A ds : Revoked(ds)[d].live => server[d].live
        BY DEF Revoked, Inv, GoodServer, ServerType
      <4> QED  BY <1>1, <1>3, <1>5, <4>1, <4>2
               DEF AnswersAs, RefreshEnds, RevokeEnds, UseEnds, Disconnected
    <3> QED  BY <1>3, <1>5, <3>1, RecordFields DEF ArrivalEnds
  <2> QED  BY <1>3, <2>2, <2>3
<1> QED  BY <1>4, <1>5

(* The steps of everyone else but a death keep every pair where it is.     *)
LEMMA QuietLeaves ==
  ASSUME SameCall, UNCHANGED <<stored, doubtful>>,
         \A i \in DOMAIN waiting :
           i \in DOMAIN waiting' /\ waiting'[i].pair = waiting[i].pair,
         NEW d \in Devices,
         server'[d].live =>
           server[d].live \/ \E i \in DOMAIN waiting' : d = waiting'[i].pair.device
  PROVE  ~ Loses(d)
<1> SUFFICES ASSUME Loses(d) PROVE FALSE
  OBVIOUS
<1>1. server[d].live
  BY LostAt DEF Loses
<1> QED  BY <1>1, KnownAt, LostAt DEF Loses, SameCall, SameTask

LEMMA DieLeaves ==
  ASSUME Inv, Hold, Die, NEW d \in Devices
  PROVE  ~ Loses(d)
<1> USE DEF Hold
<1> SUFFICES ASSUME Loses(d) PROVE FALSE
  OBVIOUS
<1>0. server'[d].live /\ d \notin doubtful' /\ d # stored'.pair.device
  BY LostAt DEF Loses
<1>1. AgreeCall(server, stored, call) /\ BringsOwn(call.task)
  BY DEF Ground, Agree
<1>2. server[d].live
  BY <1>0, DieServer
<1>3. CASE \E i \in DOMAIN waiting : d = waiting[i].pair.device
  <2>1. d \in LeftOpen
    BY <1>3 DEF LeftOpen
  <2> QED  BY <1>0, <2>1 DEF Die
<1>4. CASE d \in {call.pair.device, call.task.pair.device}
  <2>1. d # NoPair.device
    BY NoDevice0
  <2>2. call.task.pair = NoPair \/ (call.task.op = "adopt"
                                    /\ (call.stage = "settle" \/ call.pair = call.task.pair))
    BY <1>1 DEF AgreeCall, BringsOwn, Enrolls
  <2>3. CASE call.stage \in {"dispose", "settle"} /\ d = call.task.pair.device
    <3>1. d \in LeftOpen
      BY <2>3 DEF LeftOpen
    <3> QED  BY <1>0, <3>1 DEF Die
  <2>4. CASE call.stage = "resend" \/ (call.stage = "refresh" /\ stored.pair = NoPair)
    <3>1. d = call.pair.device
      BY <1>1, <1>4, <2>1, <2>4 DEF AgreeCall, BringsOwn
    <3>2. d \in LeftOpen
      BY <2>4, <3>1 DEF LeftOpen
    <3> QED  BY <1>0, <3>2 DEF Die
  <2>5. CASE call.stage \in {"revoke", "discard", "settle", "request"} /\ d = call.pair.device
    <3>1. stored.pair = call.pair
      BY <1>1, <2>5, RecordFields DEF AgreeCall
    <3> QED  BY <1>0, <2>5, <3>1 DEF Die
  <2>6. CASE call.stage = "refresh" /\ stored.pair # NoPair
    <3>1. stored.pair = call.pair /\ call.task.pair = NoPair
      BY <1>1, <2>6, RecordFields DEF AgreeCall, BringsOwn
    <3> QED  BY <1>0, <1>4, <2>1, <3>1 DEF Die
  <2>7. call.stage \in {"idle", "link", "poll", "enroll"} => call.pair = NoPair /\ call.task.pair = NoPair
    BY <1>1 DEF AgreeCall, BringsOwn, Idle, Task, Enrolls
  <2>8. call.stage \in Stages
    BY DEF Inv, GoodCall, CallType
  <2>9. call.stage = "dispose" => call.pair = call.task.pair
    BY <1>1 DEF AgreeCall
  <2>10. call.stage \in {"revoke", "discard", "request"} => d = call.pair.device
    BY <1>1, <1>4, <2>1, <2>2 DEF AgreeCall
  <2> QED  BY <1>4, <2>1, <2>3, <2>4, <2>5, <2>6, <2>7, <2>8, <2>9, <2>10 DEF Stages
<1>5. CASE d \in doubtful \/ d = stored.pair.device
  BY <1>0, <1>5 DEF Die
<1> QED  BY <1>2, <1>3, <1>4, <1>5, KnownAt DEF Loses

LEMMA NextLeaves ==
  ASSUME Inv, Hold, [Next]_vars, NEW d \in Devices, Loses(d)
  PROVE  KnownLoss(d)
<1>1. ASSUME NEW t, Enqueue(t), UNCHANGED <<server, stored, doubtful>>
      PROVE  FALSE
  BY <1>1, CallComes, CallKeepsQueue, QuietLeaves
<1>2. ASSUME NEW op \in Calls, CallOp(op)
      PROVE  FALSE
  BY <1>1, <1>2 DEF CallOp, record
<1>3. CASE CallForget
  BY <1>1, <1>3 DEF CallForget, record
<1>4. ASSUME NEW signedIn \in BOOLEAN, WindowEnds(signedIn)
      PROVE  FALSE
  <2>1. SameCall /\ UNCHANGED <<stored, doubtful>>
        /\ \/ server' = server
           \/ signedIn /\ server' = Issued("twitch")
    BY <1>4, WindowCloses, SameCallKept
  <2>2. Issued("twitch")[d].live => server[d].live \/ d = First.device
    <3>1. \A e \in Devices : e # Fresh => Issued("twitch")[e] = server[e]
      BY DEF Issued, Inv, GoodServer, ServerType
    <3> QED  BY <3>1 DEF First
  <2> QED  BY <1>4, <2>1, <2>2, WindowKeepsQueue, QuietLeaves
<1>5. CASE OpenWindow \/ (\E e \in Devices : RevokedElsewhere(e)) \/ UNCHANGED vars
  <2>1. UNCHANGED <<stored, doubtful, waiting, call>> /\ SameCall
    BY <1>5, SameCallKept DEF OpenWindow, RevokedElsewhere, record, vars
  <2>2. server'[d].live => server[d].live
    BY <1>5 DEF OpenWindow, RevokedElsewhere, vars, Revoked, Inv, GoodServer, ServerType
  <2> QED  BY <2>1, <2>2, QuietLeaves
<1> QED  BY <1>2, <1>3, <1>4, <1>5, StartLeaves, AnswerLeaves, DieLeaves DEF Next

(* No step leaves a credential the server honours behind but the four the  *)
(* code is known to lose one by, for any number of devices, rotations and  *)
(* waiting calls, every mix of operations and events: whatever answers are *)
(* lost or garbled, wherever the worker dies and a sign-out falls, the pair*)
(* is stored, in hand, or its device is one the browser knows it is unsure *)
(* of.                                                                     *)
THEOREM NothingLeftBehind == Spec => LeftOnlyAsKnown
<1>1. Inv /\ Hold /\ [Next]_vars => Inv' /\ Hold'
  BY NextInv, NextHold
<1>2. Inv /\ Hold /\ [Next]_vars
        => [\A d \in Devices :
              LeftBehind(d)' =>
                \/ LeftBehind(d)
                \/ /\ d = stored.pair.device
                   /\ EnrolsOver \/ AdoptsOver \/ ForgetsLink \/ RevokesNothing]_vars
  BY NextLeaves DEF Loses, KnownLoss
<1> QED  BY <1>1, <1>2, InitInv, InitHold, PTL DEF Spec, LeftOnlyAsKnown
=============================================================================
