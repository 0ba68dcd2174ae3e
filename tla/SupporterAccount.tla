-------------------------- MODULE SupporterAccount --------------------------
(***************************************************************************)
(* The account credential of one browser: the worker's                     *)
(* SupporterAccountCoordinator, with the Twitch sign-in and "sign out      *)
(* everywhere" that call it, against the account server.                   *)
(*                                                                         *)
(* A credential is a pair of tokens: the device the server made for it and *)
(* how often it has been rotated.  Calls run one at a time, in order, each *)
(* until its next request to the server; a sign-out or a cancel outdates   *)
(* at once every call made before it (the code's generation).  Whether a   *)
(* credential is due for renewal, waiting to retry or expired is a choice  *)
(* of the step that reads it: no clock is kept.                            *)
(***************************************************************************)
EXTENDS Naturals, Sequences, FiniteSets

CONSTANTS
  MaxDevices,  \* devices the server makes for this browser (a bound)
  MaxTurns,    \* rotations of one device's tokens (a bound)
  MaxWaiting,  \* calls waiting at one time (a bound)
  Calls,       \* the operations that are called
  Events       \* what may happen around the worker

Devices == 1 .. MaxDevices
Kinds == {"link", "twitch", "installation"}
Enrolls == {"connect", "purchase", "restore"}
Bumps == {"cancel", "disconnect", "forget"}
Ops == {"status", "start", "use", "everywhere", "adopt"} \cup Enrolls \cup Bumps

ASSUME SupporterAccountAssumption ==
  /\ MaxDevices \in Nat /\ MaxTurns \in Nat /\ MaxWaiting \in Nat
  /\ Calls \subseteq Ops \ {"adopt", "forget"}
  /\ Events \subseteq {"signIn", "remote", "lost", "busy", "garble", "die"}

VARIABLES
  server,    \* the server's devices
  stored,    \* the private record in IndexedDB
  key,       \* the installation key beside it
  call,      \* the call at the head of the queue, and its request in flight
  waiting,   \* the calls behind it
  unsure,    \* revocationUnconfirmed
  window,    \* the Twitch window: attempt() between its generation and adopt
  leaving,   \* the account signOutEverywhere is about to forget here
  doubtful,  \* devices a lost or unclear answer left the browser unsure of
  sent       \* the requests and answers the last step sent

vars == <<server, stored, key, call, waiting, unsure, window, leaving,
          doubtful, sent>>
record == <<stored, key, unsure>>
around == <<window, leaving>>

Pairs == [device : Devices, turn : 0 .. MaxTurns]
NoPair == [device |-> 0, turn |-> 0]
NoDevice == [kind |-> "none", turn |-> 0, live |-> FALSE]
Record(kind, pair) == [kind |-> kind, pair |-> pair]
Empty == Record("none", NoPair)
Relink == Record("relink", NoPair)

Task(op, pair, who) == [op |-> op, stale |-> FALSE, pair |-> pair, who |-> who]
Nobody == [kind |-> "none", device |-> 0]
Idle == [stage |-> "idle", task |-> Task("status", NoPair, Nobody),
         pair |-> NoPair]

KindOf(p) == server[p.device].kind

(* The account of a pair: each installation key is an account of its own.  *)
AccountOf(p) ==
  [kind |-> KindOf(p),
   device |-> IF KindOf(p) = "installation" THEN p.device ELSE 0]
Durable(p) == KindOf(p) \in {"twitch", "installation"}

(* linked(raw), its access token good ("linked") or at its end ("due"). *)
Linked == stored.kind \in {"linked", "due"}

(* ... or the credentials a refreshing marker kept. *)
Held == Linked \/ (stored.kind = "refreshing" /\ stored.pair # NoPair)

-----------------------------------------------------------------------------
(* The server. *)

Live == {d \in Devices : server[d].live}
Current(p) == server[p.device].live /\ server[p.device].turn = p.turn

Revoked(ds) ==
  [d \in Devices |-> IF d \in ds THEN [server[d] EXCEPT !.live = FALSE]
                     ELSE server[d]]

(* The next device, issued with its first pair. *)
Fresh == CHOOSE d \in Devices : server[d].kind = "none"
CanIssue == \E d \in Devices : server[d].kind = "none"
Issued(kind) ==
  [server EXCEPT ![Fresh] = [kind |-> kind, turn |-> 0, live |-> TRUE]]
First == [device |-> Fresh, turn |-> 0]

(* What the refresh token of p can bring: a rotation; for a while, the     *)
(* same successor again for a durable pair; a replay revokes the device.   *)
Refreshed(p) ==
  LET d == server[p.device]
      next == [p EXCEPT !.turn = @ + 1]
  IN  {x \in [server : {server, Revoked({p.device}),
                        [server EXCEPT ![p.device].turn = p.turn + 1]},
              pair : {next, NoPair}] :
         \/ ~ d.live /\ x = [server |-> server, pair |-> NoPair]
         \/ /\ d.live /\ d.turn = p.turn
            /\ x = [server |-> [server EXCEPT ![p.device].turn = p.turn + 1],
                    pair |-> next]
         \/ /\ d.live /\ d.turn = p.turn + 1 /\ Durable(p)
            /\ x = [server |-> server, pair |-> next]
         \/ /\ d.live /\ d.turn > p.turn
            /\ x = [server |-> Revoked({p.device}), pair |-> NoPair]}

(* A disconnect by an access token that is not current revokes nothing. *)
Disconnected(p) == IF Current(p) THEN Revoked({p.device}) ELSE server

-----------------------------------------------------------------------------
(* How a step of a call ends: with an answer, or with a request. *)

Ends(t, state) ==
  /\ call' = Idle
  /\ sent' = {[to |-> "caller", op |-> t.op, state |-> state, who |-> t.who]}

Goes(t, stage, p) ==
  /\ call' = [stage |-> stage, task |-> t, pair |-> p]
  /\ sent' = {[to |-> "server", what |-> stage, pair |-> p]}

(* ensureInstallation goes on unless a connection is there or may be; a    *)
(* connect replaces nothing, and checks again whether it is outdated.      *)
MayEnroll(t, state) ==
  /\ t.op \in Enrolls
  /\ IF t.op = "connect" THEN ~ t.stale /\ state = "signed_out"
     ELSE state \notin {"linked", "unavailable", "pending", "error"}

(* What the caller of perform('status') does with its result. *)
Continue(t, state) ==
  IF t.op \in {"use", "everywhere"} /\ state = "linked" /\ ~ t.stale
  THEN Goes(t, "request", stored'.pair) /\ UNCHANGED key
  ELSE IF MayEnroll(t, state)
  THEN /\ key' = IF key = "none" \/ t.op = "restore" THEN "pending" ELSE key
       /\ Goes(t, "enroll", NoPair)
  ELSE Ends(t, state) /\ UNCHANGED key

(* Revocation: the tombstone is written before the request. *)
MutantTombstoneWithoutToken(t, p) ==
  stored' = Record("revoking", NoPair) /\ Goes(t, "revoke", p)
Revoke(t, p) == stored' = Record("revoking", p) /\ Goes(t, "revoke", p)

(* ... by ensureInstallation itself, which ends with it. *)
Discard(t, p) == stored' = Record("revoking", p) /\ Goes(t, "discard", p)

(* Everything called so far is outdated. *)
Outdated(t) == [t EXCEPT !.stale = TRUE]
OutdateAll ==
  /\ call' = IF call = Idle THEN Idle ELSE [call EXCEPT !.task = Outdated(@)]
  /\ window' = IF window = "open" THEN "stale" ELSE window

(* accountForgotten: the copy of this account's data is removed. *)
Forgotten(ts, account) ==
  [i \in DOMAIN ts |->
     IF ts[i].who = account THEN [ts[i] EXCEPT !.who = Nobody] ELSE ts[i]]

-----------------------------------------------------------------------------
(* The start of a call. *)

Starts(t) == call.stage = "idle" /\ waiting # <<>> /\ t = Head(waiting)

Forgets(t) == t.op = "forget" /\ Held /\ AccountOf(stored.pair) = t.who

(* perform() by an outdated call does nothing. *)
StartOutdated(t) ==
  /\ Starts(t) /\ t.stale /\ t.op # "adopt" /\ ~ Forgets(t)
  /\ waiting' = Tail(waiting)
  /\ UNCHANGED stored /\ Continue(t, "signed_out")
  /\ UNCHANGED <<server, unsure, window, leaving, doubtful>>

Performs(t) == Starts(t) /\ ~ t.stale /\ t.op # "adopt" /\ ~ Forgets(t)

(* A tombstone is retried by a sign-out only. *)
StartRevoking(t) ==
  /\ Performs(t) /\ stored.kind = "revoking"
  /\ waiting' = Tail(waiting)
  /\ UNCHANGED stored
  /\ IF t.op = "disconnect"
     THEN Goes(t, "revoke", stored.pair) /\ UNCHANGED key
     ELSE Continue(t, "error")
  /\ UNCHANGED <<server, unsure, window, leaving, doubtful>>

(* An explicit sign-out forgets first, revokes what it holds, and resends  *)
(* a refresh whose answer was lost to learn the pair to revoke.            *)
StartDisconnect(t) ==
  LET gone == [t EXCEPT !.who = Nobody]
  IN  /\ Performs(t) /\ t.op = "disconnect" /\ stored.kind # "revoking"
      /\ key' = "none"
      /\ IF Held
         THEN /\ waiting' = Forgotten(Tail(waiting), AccountOf(stored.pair))
              /\ IF Linked THEN Revoke(gone, stored.pair)
                 ELSE /\ stored' = Record("revoking", stored.pair)
                      /\ Goes(gone, "resend", stored.pair)
              /\ UNCHANGED unsure
         ELSE /\ waiting' = Tail(waiting)
              /\ unsure' = (unsure \/ stored.kind = "refreshing")
              /\ stored' = Empty
              /\ Ends(t, IF unsure' THEN "error" ELSE "signed_out")
      /\ UNCHANGED <<server, window, leaving, doubtful>>

StartCancel(t) ==
  /\ Performs(t) /\ t.op = "cancel" /\ stored.kind # "revoking"
  /\ waiting' = Tail(waiting)
  /\ stored' = IF Held THEN stored ELSE Empty
  /\ Ends(t, IF Held THEN "linked" ELSE "signed_out")
  /\ UNCHANGED <<server, key, unsure, window, leaving, doubtful>>

Reads(t) == Performs(t) /\ t.op \notin {"disconnect", "cancel"}

(* A marker without credentials is a refresh nobody may replay. *)
StartInterrupted(t) ==
  /\ Reads(t) /\ stored.kind = "refreshing" /\ stored.pair = NoPair
  /\ waiting' = Tail(waiting)
  /\ stored' = Relink /\ Continue(t, "relink_required")
  /\ UNCHANGED <<server, unsure, window, leaving, doubtful>>

(* Only a durable pair is kept through its refresh. *)
MutantMarkerDropsPair(t) ==
  /\ stored.pair.turn < MaxTurns
  /\ stored' = Record("refreshing", NoPair)
  /\ Goes(t, "refresh", stored.pair) /\ UNCHANGED key
MutantMarkerKeepsPair(t) ==
  /\ stored.pair.turn < MaxTurns
  /\ stored' = Record("refreshing", stored.pair)
  /\ Goes(t, "refresh", stored.pair) /\ UNCHANGED key
Renews(t) ==
  /\ stored.pair.turn < MaxTurns
  /\ stored' = Record("refreshing",
                      IF Durable(stored.pair) THEN stored.pair ELSE NoPair)
  /\ Goes(t, "refresh", stored.pair) /\ UNCHANGED key

(* Credentials: fresh, past their refresh time (then dead at the server    *)
(* too), in a pause, or due.                                               *)
StartHeld(t) ==
  /\ Reads(t) /\ Held
  /\ waiting' = Tail(waiting)
  /\ \/ /\ stored.kind = "linked"
        /\ UNCHANGED stored /\ Continue(t, "linked")
     \/ "remote" \in Events /\ ~ server[stored.pair.device].live
        /\ stored' = Relink /\ Continue(t, "relink_required")
     \/ /\ stored.kind # "linked"
        /\ UNCHANGED stored /\ Continue(t, "unavailable")
     \/ Renews(t)
  /\ UNCHANGED <<server, unsure, window, leaving, doubtful>>

StartPending(t) ==
  /\ Reads(t) /\ stored.kind = "pending"
  /\ waiting' = Tail(waiting)
  /\ \/ stored' = Empty /\ Continue(t, "expired")
     \/ UNCHANGED stored /\ Continue(t, "pending")
     \/ t.op # "start" /\ UNCHANGED <<stored, key>> /\ Goes(t, "poll", NoPair)
  /\ UNCHANGED <<server, unsure, window, leaving, doubtful>>

StartEmpty(t) ==
  /\ Reads(t) /\ stored.kind \in {"none", "relink"}
  /\ waiting' = Tail(waiting)
  /\ UNCHANGED stored
  /\ IF t.op = "start" THEN Goes(t, "link", NoPair) /\ UNCHANGED key
     ELSE Continue(t, IF stored = Relink THEN "relink_required"
                      ELSE "signed_out")
  /\ UNCHANGED <<server, unsure, window, leaving, doubtful>>

(* forgetSignedOutEverywhere, when that account's pair is still here. *)
StartForget(t) ==
  /\ Starts(t) /\ Forgets(t)
  /\ waiting' = Forgotten(Tail(waiting), t.who)
  /\ key' = "none" /\ stored' = Empty /\ unsure' = FALSE
  /\ Ends([t EXCEPT !.who = Nobody], "signed_out")
  /\ UNCHANGED <<server, window, leaving, doubtful>>

Adopts(p) == stored' = Record("linked", p) /\ unsure' = FALSE

MutantAdoptsOutdated(t) ==
  /\ Starts(t) /\ t.op = "adopt"
  /\ waiting' = Tail(waiting)
  /\ CASE Linked ->
            Goes(t, "dispose", t.pair) /\ UNCHANGED <<stored, unsure>>
       [] stored.kind = "revoking" ->
            Goes(t, "settle", stored.pair) /\ UNCHANGED <<stored, unsure>>
       [] OTHER -> Adopts(t.pair) /\ Ends(t, "linked")
  /\ UNCHANGED <<server, key, window, leaving, doubtful>>
(* A pair from the Twitch window: kept, or revoked when outdated or when a *)
(* connection appeared; a tombstone is settled first.                      *)
StartAdopt(t) ==
  /\ Starts(t) /\ t.op = "adopt"
  /\ waiting' = Tail(waiting)
  /\ CASE Linked \/ (stored.kind = "revoking" /\ t.stale) ->
            Goes(t, "dispose", t.pair) /\ UNCHANGED <<stored, unsure>>
       [] stored.kind = "revoking" /\ ~ t.stale ->
            Goes(t, "settle", stored.pair) /\ UNCHANGED <<stored, unsure>>
       [] ~ Linked /\ stored.kind # "revoking" /\ t.stale ->
            Revoke(t, t.pair) /\ UNCHANGED unsure
       [] OTHER -> Adopts(t.pair) /\ Ends(t, "linked")
  /\ UNCHANGED <<server, key, window, leaving, doubtful>>

StartCall(t) ==
  \/ StartOutdated(t) \/ StartRevoking(t) \/ StartDisconnect(t)
  \/ StartCancel(t) \/ StartInterrupted(t) \/ StartHeld(t) \/ StartPending(t)
  \/ StartEmpty(t) \/ StartForget(t) \/ StartAdopt(t)

-----------------------------------------------------------------------------
(* The answer to the request in flight. *)

Answered(stage) == call.stage = stage
Asked == call.task
Doubts(p) == doubtful' = doubtful \cup {p.device}

(* The request never left, or the server says it attempted nothing. *)
RefreshNotAttempted ==
  /\ "busy" \in Events /\ Answered("refresh")
  /\ stored' = Record("due", call.pair)
  /\ Continue(Asked, "unavailable")
  /\ UNCHANGED <<server, unsure, waiting, window, leaving, doubtful>>

(* No answer (no status tells), or a server error: a durable pair waits.   *)
RefreshUnclear(lost) ==
  /\ "lost" \in Events /\ Answered("refresh")
  /\ \E x \in Refreshed(call.pair) : server' \in {server, x.server}
  /\ unsure' = (unsure \/ (lost /\ Asked.stale))
  /\ IF Durable(call.pair)
     THEN UNCHANGED <<stored, doubtful>> /\ Continue(Asked, "unavailable")
     ELSE /\ stored' = Relink /\ Doubts(call.pair)
          /\ Continue(Asked, "relink_required")
  /\ UNCHANGED <<waiting, window, leaving>>

(* A 200 whose body is not this device's credentials. *)
RefreshGarbled ==
  /\ "garble" \in Events /\ Answered("refresh")
  /\ \E x \in Refreshed(call.pair) : server' = x.server /\ x.pair # NoPair
  /\ Doubts(call.pair)
  /\ stored' = Relink /\ Continue(Asked, "relink_required")
  /\ UNCHANGED <<unsure, waiting, window, leaving>>

RefreshAnswers ==
  /\ Answered("refresh")
  /\ \E x \in Refreshed(call.pair) :
       /\ server' = x.server
       /\ IF x.pair = NoPair
          THEN stored' = Relink /\ Continue(Asked, "relink_required")
          ELSE IF Asked.stale THEN Revoke(Asked, x.pair) /\ UNCHANGED key
          ELSE stored' = Record("linked", x.pair) /\ Continue(Asked, "linked")
  /\ UNCHANGED <<unsure, waiting, window, leaving, doubtful>>

(* The confirmation a revocation needs is a 204 or a 401.  A purchase or a *)
(* restore whose status read revoked an outdated pair enrols all the same. *)
RevokeAnswers ==
  /\ Answered("revoke") \/ Answered("discard")
  /\ server' = Disconnected(call.pair)
  /\ stored' = Empty /\ unsure' = FALSE
  /\ IF call.stage = "revoke" THEN Continue(Asked, "signed_out")
     ELSE Ends(Asked, "signed_out") /\ UNCHANGED key
  /\ UNCHANGED <<waiting, window, leaving, doubtful>>

RevokeFails ==
  /\ Answered("revoke") \/ Answered("discard")
  /\ server' \in {server, Disconnected(call.pair)}
  /\ Ends(Asked, "error")
  /\ UNCHANGED <<stored, key, unsure, waiting, window, leaving, doubtful>>

(* revokeKept: the resent refresh. *)
ResendAnswers ==
  /\ Answered("resend")
  /\ \E x \in Refreshed(call.pair) :
       /\ server' = x.server
       /\ IF x.pair = NoPair
          THEN stored' = Empty /\ unsure' = FALSE /\ Ends(Asked, "signed_out")
          ELSE Revoke(Asked, x.pair) /\ UNCHANGED unsure
  /\ UNCHANGED <<key, waiting, window, leaving, doubtful>>

ResendFails ==
  /\ "lost" \in Events /\ Answered("resend")
  /\ \E x \in Refreshed(call.pair) : server' \in {server, x.server}
  /\ Doubts(call.pair)
  /\ Revoke(Asked, call.pair)
  /\ UNCHANGED <<key, unsure, waiting, window, leaving>>

MutantAdoptsAgain(failed) ==
  /\ Answered("dispose")
  /\ server' = IF failed THEN server ELSE Disconnected(call.pair)
  /\ IF failed /\ stored.kind = "revoking" THEN Goes(Asked, "settle", stored.pair)
     ELSE Ends(Asked, "signed_out")
  /\ UNCHANGED <<stored, key, unsure, waiting, window, leaving, doubtful>>
(* adopt: the pair it does not keep is disposed of, best effort. *)
DisposeEnds(failed) ==
  /\ Answered("dispose")
  /\ server' = IF failed THEN server ELSE Disconnected(call.pair)
  /\ doubtful' = IF failed THEN doubtful \cup {call.pair.device} ELSE doubtful
  /\ Ends(Asked, IF ~ Linked THEN "error"
                 ELSE IF Asked.stale THEN "signed_out" ELSE "linked")
  /\ UNCHANGED <<stored, key, unsure, waiting, window, leaving>>

SettleEnds(failed) ==
  /\ Answered("settle")
  /\ IF failed
     THEN /\ server' \in {server, Disconnected(call.pair)}
          /\ Goes(Asked, "dispose", Asked.pair) /\ UNCHANGED <<stored, unsure>>
     ELSE /\ server' = Disconnected(call.pair)
          /\ Adopts(Asked.pair) /\ Ends(Asked, "linked")
  /\ UNCHANGED <<key, waiting, window, leaving, doubtful>>

(* The device link: a code, then its approval.  An outdated poll revokes   *)
(* the credentials of an approval it collected.                            *)
LinkAnswers ==
  /\ Answered("link")
  /\ \/ Asked.stale /\ stored' = Empty /\ Ends(Asked, "signed_out")
     \/ ~ Asked.stale /\ stored' = Record("pending", NoPair)
        /\ Ends(Asked, "pending")
     \/ UNCHANGED stored /\ Ends(Asked, "error")
  /\ UNCHANGED <<server, key, unsure, waiting, window, leaving, doubtful>>

MutantApprovalDropped ==
  /\ Answered("poll") /\ CanIssue
  /\ server' = Issued("link")
  /\ IF Asked.stale
     THEN stored' = Empty /\ UNCHANGED unsure /\ Continue(Asked, "signed_out")
     ELSE Adopts(First) /\ Continue(Asked, "linked")
  /\ UNCHANGED <<waiting, window, leaving, doubtful>>
PollApproved ==
  /\ Answered("poll") /\ CanIssue
  /\ server' = Issued("link")
  /\ IF Asked.stale THEN Revoke(Asked, First) /\ UNCHANGED <<key, unsure>>
     ELSE Adopts(First) /\ Continue(Asked, "linked")
  /\ UNCHANGED <<waiting, window, leaving, doubtful>>

PollElse ==
  /\ Answered("poll")
  /\ \/ Asked.stale /\ stored' = Empty /\ Continue(Asked, "signed_out")
     \/ ~ Asked.stale /\ stored' = Relink /\ Continue(Asked, "relink_required")
     \/ ~ Asked.stale /\ stored' = Empty /\ Continue(Asked, "expired")
     \/ ~ Asked.stale /\ UNCHANGED stored /\ Continue(Asked, "pending")
     \/ UNCHANGED <<stored, key>> /\ Ends(Asked, "error")
  /\ UNCHANGED <<server, unsure, waiting, window, leaving, doubtful>>

(* A claimed key is not enrolled again. *)
EnrollAnswers ==
  /\ Answered("enroll") /\ CanIssue /\ key = "pending"
  /\ server' = Issued("installation")
  /\ IF Asked.stale THEN Discard(Asked, First) /\ UNCHANGED key
     ELSE /\ stored' = Record("linked", First) /\ key' = "claimed"
          /\ Ends(Asked, "linked")
  /\ UNCHANGED <<unsure, waiting, window, leaving, doubtful>>

EnrollFails ==
  /\ Answered("enroll") /\ Ends(Asked, "error")
  /\ UNCHANGED <<server, record, around, waiting, doubtful>>

(* A request under the access token: withCredential, entitlement and the   *)
(* saves.  Outdated, its answer is dropped; a 401 clears the credential.   *)
RequestEnds ==
  /\ Answered("request")
  /\ \/ UNCHANGED <<server, stored, leaving>> /\ Ends(Asked, "done")
     \/ /\ ~ Asked.stale /\ ~ Current(call.pair)
        /\ stored' = Relink /\ Ends(Asked, "relink_required")
        /\ UNCHANGED <<server, leaving>>
     \/ /\ Asked.op = "everywhere" /\ Current(call.pair)
        /\ server' = Revoked({p.device : p \in {q \in Pairs :
                               AccountOf(q) = AccountOf(call.pair)}})
        /\ leaving' \in IF Asked.stale THEN {leaving}
                        ELSE {leaving, AccountOf(call.pair)}
        /\ UNCHANGED stored /\ Ends(Asked, "done")
  /\ UNCHANGED <<key, unsure, waiting, window, doubtful>>

Answer ==
  \/ RefreshNotAttempted \/ (\E lost \in BOOLEAN : RefreshUnclear(lost))
  \/ RefreshGarbled \/ RefreshAnswers \/ RevokeAnswers \/ RevokeFails
  \/ ResendAnswers \/ ResendFails
  \/ (\E failed \in BOOLEAN : DisposeEnds(failed) \/ SettleEnds(failed))
  \/ LinkAnswers \/ PollApproved \/ PollElse \/ EnrollAnswers \/ EnrollFails
  \/ RequestEnds

-----------------------------------------------------------------------------
(* The callers, the Twitch window, other devices, and the worker's death. *)

Room == Len(waiting) < MaxWaiting

Enqueue(t) ==
  LET ts == [i \in DOMAIN waiting |->
               IF t.op \in Bumps THEN Outdated(waiting[i]) ELSE waiting[i]]
  IN  /\ Room /\ waiting' = Append(ts, t)
      /\ IF t.op \in Bumps THEN OutdateAll ELSE UNCHANGED <<call, window>>

InQueue(ops) ==
  call.task.op \in ops \/ \E i \in DOMAIN waiting : waiting[i].op \in ops

(* TwitchSignIn's active flag. *)
TwitchActive ==
  window # "shut" \/ leaving # Nobody \/ InQueue({"everywhere", "adopt", "forget"})

(* A sign-out remembers the account it is pressed for. *)
CallOp(op) ==
  /\ op = "everywhere" => ~ TwitchActive
  /\ Enqueue(Task(op, NoPair, IF op = "disconnect" /\ Held
                              THEN AccountOf(stored.pair) ELSE Nobody))
  /\ sent' = {}
  /\ UNCHANGED <<server, record, leaving, doubtful>>

CallForget ==
  /\ leaving # Nobody
  /\ Enqueue(Task("forget", NoPair, leaving)) /\ leaving' = Nobody
  /\ sent' = {}
  /\ UNCHANGED <<server, record, doubtful>>

(* Its status read has just been answered: no connection, no tombstone.    *)
OpenWindow ==
  /\ "signIn" \in Events /\ ~ TwitchActive /\ call = Idle
  /\ stored.kind \in {"none", "relink"}
  /\ window' = "open" /\ sent' = {}
  /\ UNCHANGED <<server, record, call, waiting, leaving, doubtful>>

WindowEnds(signedIn) ==
  /\ window # "shut" /\ window' = "shut" /\ sent' = {}
  /\ IF signedIn
     THEN /\ CanIssue /\ Room
          /\ server' = Issued("twitch")
          /\ waiting' = Append(waiting,
               [Task("adopt", First, Nobody) EXCEPT !.stale = window = "stale"])
     ELSE UNCHANGED <<server, waiting>>
  /\ UNCHANGED <<record, call, leaving, doubtful>>

(* Another device signs this one out, or its tokens expire. *)
RevokedElsewhere(d) ==
  /\ "remote" \in Events /\ server[d].live
  /\ server' = Revoked({d}) /\ sent' = {}
  /\ UNCHANGED <<record, call, waiting, around, doubtful>>

InHand ==
  {call.pair.device, call.task.pair.device}
    \cup {waiting[i].pair.device : i \in DOMAIN waiting}

(* What the worker's death leaves open: a refresh nobody may replay, the   *)
(* refresh of a sign-out, a pair not yet stored.                           *)
LeftOpen ==
  {waiting[i].pair.device : i \in DOMAIN waiting}
    \cup (IF \/ call.stage = "resend"
             \/ call.stage = "refresh" /\ stored.pair = NoPair
          THEN {call.pair.device}
          ELSE IF call.stage \in {"dispose", "settle"}
          THEN {call.task.pair.device} ELSE {})

(* The request in flight may or may not have arrived. *)
Die ==
  /\ "die" \in Events
  /\ call' = Idle /\ waiting' = <<>> /\ unsure' = FALSE
  /\ window' = "shut" /\ leaving' = Nobody /\ sent' = {}
  /\ \/ UNCHANGED server
     \/ /\ call.stage \in {"refresh", "resend"}
        /\ \E x \in Refreshed(call.pair) : server' = x.server
     \/ /\ call.stage \in {"revoke", "discard", "dispose", "settle"}
        /\ server' = Disconnected(call.pair)
  /\ doubtful' = doubtful \cup (LeftOpen \cap Devices)
  /\ UNCHANGED <<stored, key>>

-----------------------------------------------------------------------------
Init ==
  /\ server = [d \in Devices |-> NoDevice]
  /\ stored = Empty /\ key = "none" /\ unsure = FALSE
  /\ call = Idle /\ waiting = <<>>
  /\ window = "shut" /\ leaving = Nobody
  /\ doubtful = {} /\ sent = {}

Next ==
  \/ \E t \in {waiting[i] : i \in DOMAIN waiting} : StartCall(t)
  \/ Answer
  \/ \E op \in Calls : CallOp(op)
  \/ CallForget \/ OpenWindow
  \/ (\E signedIn \in BOOLEAN : WindowEnds(signedIn))
  \/ (\E d \in Devices : RevokedElsewhere(d))
  \/ Die

Spec == Init /\ [][Next]_vars

(* Every request has a deadline, so every request in flight ends.          *)
FairSpec == Spec /\ WF_vars(Answer)

-----------------------------------------------------------------------------
Accounts == [kind : Kinds \cup {"none"}, device : {0} \cup Devices]
Tasks ==
  [op : Ops, stale : BOOLEAN, pair : Pairs \cup {NoPair}, who : Accounts]
Stages == {"idle", "refresh", "revoke", "discard", "resend", "dispose",
           "settle", "link", "poll", "enroll", "request"}
States == {"signed_out", "pending", "linked", "unavailable", "relink_required",
           "expired", "error", "done"}
Messages ==
  [to : {"caller"}, op : Ops, state : States, who : Accounts]
  \cup [to : {"server"}, what : Stages, pair : Pairs \cup {NoPair}]

(* Types; credentials are of devices the server has made; a connection and *)
(* a tombstone have their token, and nothing else has one but a marker.    *)
TypeOK ==
  /\ server \in [Devices -> [kind : Kinds \cup {"none"}, turn : 0 .. MaxTurns,
                             live : BOOLEAN]]
  /\ \A d \in Devices : server[d].live => server[d].kind # "none"
  /\ stored \in [kind : {"none", "pending", "linked", "due", "refreshing",
                         "revoking", "relink"},
                 pair : Pairs \cup {NoPair}]
  /\ stored.pair # NoPair => KindOf(stored.pair) # "none"
  /\ stored.kind \in {"none", "pending", "relink"} => stored.pair = NoPair
  /\ stored.kind \in {"linked", "due", "revoking"} => stored.pair # NoPair
  /\ key \in {"none", "pending", "claimed"}
  /\ call \in [stage : Stages, task : Tasks, pair : Pairs \cup {NoPair}]
  /\ waiting \in Seq(Tasks) /\ Len(waiting) <= MaxWaiting
  /\ unsure \in BOOLEAN
  /\ window \in {"shut", "open", "stale"}
  /\ leaving \in Accounts
  /\ doubtful \subseteq Devices
  /\ sent \subseteq Messages

(* The ways the code is known to lose the credential it holds.             *)
(* An outdated purchase or restore enrols over it.                         *)
EnrolsOver ==
  /\ EnrollAnswers /\ call.task.stale
  /\ call.task.op \in {"purchase", "restore"}

(* An adoption takes the place of a pair kept through its renewal. *)
AdoptsOver == StartAdopt(Head(waiting)) /\ stored.kind = "refreshing"

(* "Sign out everywhere" forgets a link approved since its answer. *)
ForgetsLink == StartForget(Head(waiting)) /\ KindOf(stored.pair) = "link"

(* An access token that a renewal with a lost answer replaced revokes      *)
(* nothing, and the 401 counts as a confirmation.                          *)
RevokesNothing ==
  /\ RevokeAnswers \/ SettleEnds(FALSE)
  /\ ~ Current(call.pair)

(* One that the server honours and the browser has no trace of.            *)
LeftBehind(d) ==
  server[d].live /\ d \notin doubtful \cup InHand \cup {stored.pair.device}

(* No other step leaves a credential behind, however calls, lost answers,  *)
(* the worker's deaths and what the other devices do are mixed: it is      *)
(* stored, or being dealt with by a call, or a lost or unclear answer made *)
(* it doubtful.                                                            *)
LeftOnlyAsKnown ==
  [][\A d \in Devices :
       LeftBehind(d)' =>
         \/ LeftBehind(d)
         \/ /\ d = stored.pair.device
            /\ EnrolsOver \/ AdoptsOver \/ ForgetsLink \/ RevokesNothing]_vars

(* A linked device's refresh token is never presented once the server has  *)
(* rotated it - after a lost answer, a stopped worker, a sign-out during   *)
(* the renewal: the server would take it for a replay and revoke the       *)
(* device.  (Durable pairs may be: their successor is sent again.)         *)
NeverReplayed ==
  [][\A m \in sent' :
       m.to = "server" /\ m.what \in {"refresh", "resend"}
         /\ ~ Durable(m.pair) /\ server[m.pair.device].live
       => server[m.pair.device].turn = m.pair.turn]_vars

(* A lost answer, a server error or a stopped worker never signs out a     *)
(* durable pair the server still honours: it stays here to be used,        *)
(* renewed or revoked - but for two of the known losses, and for an answer *)
(* to its renewal that is not this device's credentials.                   *)
DurableKept ==
  [][\A d \in Devices :
       /\ Held /\ stored.pair.device = d /\ Durable(stored.pair)
       /\ server'[d].live
       => \/ stored'.pair.device = d
          \/ EnrolsOver \/ AdoptsOver \/ RefreshGarbled]_vars

(* The call at work, or the one that starts. *)
Running ==
  IF call.stage = "idle" /\ waiting # <<>> THEN Head(waiting) ELSE call.task

(* What was asked before a sign-out or a cancel never connects the browser *)
(* after it, whatever the server answers: the pair it brings is not stored.*)
(* (Credentials a renewal left untouched go back where they were.  Adopt   *)
(* alone does not look again once it has settled an older tombstone.)      *)
OutdatedStoresNothing ==
  [][Running.stale /\ call.stage # "settle" /\ Linked'
     => stored'.pair \in {stored.pair, call.pair}]_vars

(* No chain of requests - a renewal, the revocation it turns into, a resend*)
(* - holds the queue for good: every account feature waits behind it.      *)
QueueDrains == []<>(call.stage = "idle")

-----------------------------------------------------------------------------
(* What comments and tests say, and the code does not do. *)

(* Sign out removes the copy of the account it was pressed for. *)
SignOutForgets ==
  \A m \in sent :
    m.to = "caller" /\ m.op = "disconnect" => m.who = Nobody

(* Sign out everywhere removes it too. *)
EverywhereForgets ==
  \A m \in sent :
    m.to = "caller" /\ m.op = "forget" => m.who = Nobody

(* A connection that appeared during a Twitch sign-in is kept. *)
AdoptKeepsConnection ==
  [][Held /\ Linked'
     => stored'.pair.device = stored.pair.device]_vars
=============================================================================
