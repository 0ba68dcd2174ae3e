---------------------- MODULE SupporterPayFirstProofs ----------------------
(***************************************************************************)
(* Proofs about SupporterPayFirst, for any accounts and bounds.  IndInv    *)
(* says why a payment is remembered: every copy of the journey that may    *)
(* still be written knows each payment that may go through (HandFits), and *)
(* the account's queue keeps a request from being answered for an account  *)
(* other than the one its copy is about (Lineage, OpFits).                 *)
(***************************************************************************)
EXTENDS SupporterPayFirst, TLAPS

Ops == [stage : Stages, action : Actions, mode : {"none", "buy", "recover", "reclaim"},
        account : Accounts \cup {None}, copy : Journeys, answer : Answers,
        outdated : BOOLEAN]

(* The journeys that are stored or may be written. *)
Busy == op.stage \notin {"idle", "value"}
Hand == {stored} \cup (IF rec.on THEN {rec.copy} ELSE {})
                 \cup (IF Busy THEN {op.copy} ELSE {})

(* A payment that may go through: one the user began, or has a page for.   *)
Shown(a) == \E j \in Hand : j.billing.account = a /\ j.billing.url
Vital(a) ==
  /\ a \in begun \/ Shown(a)
  /\ server[a].state \in {"open", "paid"} /\ server[a].until > now

(* A journey knows of it for as long as it may go through, and names no    *)
(* other attempt for it.                                                   *)
Lasting(j, a) ==
  IF j.billing.account = a
  THEN j.billing.until >= server[a].until /\ j.billing.attempt \in {0, server[a].attempt}
  ELSE \E m \in j.marks : m.account = a /\ m.until >= server[a].until

Knows(j) == \A a \in Accounts : Vital(a) => Lasting(j, a)
Single(j) == \A a, b \in Accounts : Remembers(j, a) /\ Remembers(j, b) => a = b
SameUrl(j, k) ==
  j.billing.account = k.billing.account /\ j.billing.account # None
    => j.billing.url = k.billing.url

HandFits ==
  /\ \A j \in Hand : Knows(j) /\ Single(j)
  /\ \A j, k \in Hand : SameUrl(j, k)

ServerFits ==
  \A a \in Accounts :
    server[a].until <= now + 1 /\ (Active(a) => server[a].state = "active")

(* How the copies of an operation and of an identity change agree.         *)
Lineage ==
  /\ BetweenRequests /\ rec.on => identity = None
  /\ rec.on /\ identity # None /\ rec.copy.billing.account = identity
       => stored.billing.account = identity
  /\ op.stage \in {"look", "part"} =>
       /\ stored.billing.account # None
            => op.copy.billing.account = stored.billing.account
       /\ rec.on /\ identity # None /\ rec.copy.billing.account = identity
            => op.copy.billing.account = identity
  /\ At("decide") /\ ~ op.outdated /\ op.copy.billing.account = None
       => stored.billing.account = None

NoneVital == \A a \in Accounts : ~ Vital(a)
Own == op.account \in Accounts /\ op.copy.billing.account = op.account

BarrierFits == At("barrier") =>
  /\ op.account \in Accounts /\ op.copy.billing.account = None
  /\ stored.billing.account = None /\ (rec.on => rec.copy.billing.account = None)
  /\ \/ op.mode = "buy" /\ op.copy.marks = {}
     \/ op.mode = "reclaim" /\ Marked(op.copy, op.account)

PostFits == At("post") =>
  /\ Own /\ ~ op.copy.billing.url /\ op.mode \in {"buy", "recover", "reclaim"}
  /\ op.mode # "recover" =>
       /\ op.copy.billing.until = now + 1 /\ op.copy.billing.attempt = 0
       /\ ~ op.outdated /\ identity = op.account => ~ rec.on /\ stored = op.copy
  /\ op.mode = "buy" => NoneVital

AnswerFits ==
  /\ At("answered") => Own /\ (op.mode = "buy" /\ op.answer = "refused" => NoneVital)
  /\ At("open") => Own /\ op.copy.billing.url
  /\ op.stage \in {"exists", "membership"} => Own /\ (~ op.outdated => identity = op.account)
  /\ At("membership") /\ op.answer = "active" => server[op.account].state = "active"
  /\ op.stage \in {"again", "poll"} => Own /\ op.copy.billing.attempt # 0
  /\ At("resolve") =>
       /\ op.account \in Accounts /\ op.copy.billing.account \in {None, op.account}
       /\ ~ Vital(op.account)

OpFits == BarrierFits /\ PostFits /\ AnswerFits

IndInv == TypeOK /\ HandFits /\ ServerFits /\ Lineage /\ OpFits

-----------------------------------------------------------------------------
(* Types of the journeys that are made of others. *)
LEMMA Facts ==
  /\ MaxNow \in Nat /\ MaxAttempts \in Nat /\ None \notin Accounts
  /\ 0 \in Times /\ 0 \in 0 .. MaxAttempts
BY SupporterPayFirstAssumption DEF Times

LEMMA NoJourneyType ==
  /\ NoBilling \in Billings /\ NoJourney \in Journeys /\ Idle \in Ops
  /\ NoBilling.account = None /\ NoBilling.url = FALSE /\ NoBilling.attempt = 0
  /\ NoJourney.billing = NoBilling /\ NoJourney.marks = {}
  /\ Idle.stage = "idle" /\ Idle.copy = NoJourney
BY Facts DEF NoBilling, NoJourney, Billings, Journeys, Idle, Ops, Stages, Actions, Answers

LEMMA JourneyParts ==
  ASSUME NEW j \in Journeys
  PROVE  /\ j.billing \in Billings /\ j.billing.account \in Accounts \cup {None}
         /\ j.billing.until \in Times /\ j.billing.until \in Nat
         /\ j.billing.attempt \in 0 .. MaxAttempts /\ j.billing.url \in BOOLEAN
         /\ j.marks \in SUBSET [account : Accounts, until : Times]
         /\ \A m \in j.marks : m.account \in Accounts /\ m.until \in Nat
BY Facts DEF Journeys, Billings, Times

LEMMA ReadType ==
  ASSUME TypeOK
  PROVE  Read \in Journeys /\ Read.billing = stored.billing
         /\ Read.marks = {m \in stored.marks : m.until > now}
BY DEF TypeOK, Read, Journeys

LEMMA ReconciledType ==
  ASSUME NEW j \in Journeys
  PROVE  Reconciled(j) \in Journeys
         /\ IF j.billing.account \in {None, identity} THEN Reconciled(j) = j
            ELSE /\ Reconciled(j).billing = NoBilling
                 /\ Reconciled(j).marks =
                      {m \in j.marks : m.account # j.billing.account}
                        \cup {[account |-> j.billing.account, until |-> j.billing.until]}
<1>1. CASE j.billing.account \in {None, identity}
  BY <1>1 DEF Reconciled
<1>2. CASE j.billing.account \notin {None, identity}
  <2> DEFINE marks == {m \in j.marks : m.account # j.billing.account}
                        \cup {[account |-> j.billing.account, until |-> j.billing.until]}
  <2>1. marks \in SUBSET [account : Accounts, until : Times]
    BY <1>2, JourneyParts
  <2>2. Reconciled(j) = [billing |-> NoBilling, marks |-> marks]
    BY <1>2 DEF Reconciled
  <2> HIDE DEF marks
  <2>3. Reconciled(j) \in Journeys /\ Reconciled(j).billing = NoBilling
          /\ Reconciled(j).marks = marks
    BY <2>1, <2>2, NoJourneyType DEF Journeys
  <2> QED BY <1>2, <2>3 DEF marks
<1> QED BY <1>1, <1>2

LEMMA ResolvedType ==
  ASSUME NEW j \in Journeys, NEW a
  PROVE  /\ Resolved(j, a) \in Journeys /\ Resolved(j, a).billing = NoBilling
         /\ Resolved(j, a).marks = {m \in j.marks : m.account # a}
BY NoJourneyType DEF Resolved, Journeys

LEMMA ServerTypes ==
  ASSUME TypeOK, NEW a \in Accounts
  PROVE  /\ server[a].until \in Nat /\ server[a].until \in Times /\ now \in Nat
         /\ now \in 0 .. MaxNow /\ now + 1 \in Times
         /\ server[a].attempt \in 0 .. MaxAttempts /\ server[a].attempt \in Nat
         /\ server[a].state \in {"none", "open", "paid", "active", "ended"}
BY Facts DEF TypeOK, Times

LEMMA HandParts ==
  ASSUME TypeOK
  PROVE  /\ Hand \subseteq Journeys /\ stored \in Hand
         /\ rec.on => rec.copy \in Hand
         /\ Busy => op.copy \in Hand
         /\ \A j \in Hand : j = stored \/ (rec.on /\ j = rec.copy) \/ (Busy /\ j = op.copy)
BY DEF TypeOK, Hand

-----------------------------------------------------------------------------
(* Journeys made of those at hand know what they did.                      *)
Sound(k) == Single(k) /\ Knows(k)
From(k) ==
  \/ k.billing.account = None
  \/ \E j \in Hand : j.billing.account = k.billing.account /\ j.billing.url = k.billing.url

LEMMA HandSound ==
  ASSUME HandFits, NEW j \in Hand PROVE Sound(j) /\ From(j)
BY DEF HandFits, Sound, From

LEMMA ReadSound ==
  ASSUME TypeOK, HandFits PROVE Sound(Read) /\ From(Read)
<1>1. stored \in Hand /\ stored \in Journeys
  BY HandParts DEF TypeOK
<1>2. Sound(stored) /\ From(stored)
  BY <1>1, HandSound
<1>3. Single(Read)
  BY <1>2, ReadType DEF Sound, Single, Remembers, Marked
<1>4. ASSUME NEW a \in Accounts, Vital(a) PROVE Lasting(Read, a)
  <2>1. Lasting(stored, a)
    BY <1>2, <1>4 DEF Sound, Knows
  <2>2. CASE stored.billing.account = a
    BY <2>1, <2>2, ReadType DEF Lasting
  <2>3. CASE stored.billing.account # a
    <3>1. PICK m \in stored.marks : m.account = a /\ m.until >= server[a].until
      BY <2>1, <2>3 DEF Lasting
    <3>2. m.until > now
      BY <1>1, <1>4, <3>1, JourneyParts, ServerTypes DEF Vital
    <3> QED BY <2>3, <3>1, <3>2, ReadType DEF Lasting
  <2> QED BY <2>2, <2>3
<1>5. From(Read)
  BY <1>2, ReadType DEF From
<1> QED BY <1>3, <1>4, <1>5 DEF Sound, Knows

LEMMA ReconciledSound ==
  ASSUME TypeOK, HandFits, NEW j \in Hand PROVE Sound(Reconciled(j)) /\ From(Reconciled(j))
<1>1. j \in Journeys /\ Sound(j) /\ From(j)
  BY HandParts, HandSound
<1>2. CASE j.billing.account \in {None, identity}
  BY <1>1, <1>2, ReconciledType
<1>3. CASE j.billing.account \notin {None, identity}
  <2> DEFINE k == Reconciled(j)
  <2>1. /\ k.billing = NoBilling /\ k.billing.account = None
        /\ k.marks = {m \in j.marks : m.account # j.billing.account}
                       \cup {[account |-> j.billing.account, until |-> j.billing.until]}
    BY <1>1, <1>3, ReconciledType, NoJourneyType
  <2> HIDE DEF k
  <2>2. \A a \in Accounts : Remembers(k, a) => Remembers(j, a)
    BY <2>1, Facts DEF Remembers, Marked
  <2>3. Single(k)
    BY <1>1, <2>2 DEF Sound, Single
  <2>4. ASSUME NEW a \in Accounts, Vital(a) PROVE Lasting(k, a)
    <3>1. Lasting(j, a)
      BY <1>1, <2>4 DEF Sound, Knows
    <3>2. CASE j.billing.account = a
      <4> DEFINE m == [account |-> j.billing.account, until |-> j.billing.until]
      <4>1. m \in k.marks /\ m.account = a /\ m.until = j.billing.until
        BY <2>1, <3>2
      <4>2. j.billing.until >= server[a].until /\ k.billing.account # a
        BY <2>1, <3>1, <3>2, Facts DEF Lasting
      <4> HIDE DEF m
      <4> QED BY <4>1, <4>2 DEF Lasting
    <3>3. CASE j.billing.account # a
      BY <2>1, <3>1, <3>3, Facts DEF Lasting
    <3> QED BY <3>2, <3>3
  <2> QED BY <2>1, <2>3, <2>4 DEF k, Sound, Knows, From
<1> QED BY <1>2, <1>3

LEMMA ResolvedSound ==
  ASSUME TypeOK, HandFits, NEW j \in Hand, NEW x \in Accounts, ~ Vital(x),
         j.billing.account \in {None, x}
  PROVE  Sound(Resolved(j, x)) /\ From(Resolved(j, x))
<1> DEFINE k == Resolved(j, x)
<1>1. j \in Journeys /\ Sound(j)
  BY HandParts, HandSound
<1>2. /\ k.billing.account = None /\ k.marks = {m \in j.marks : m.account # x}
  BY <1>1, ResolvedType, NoJourneyType
<1> HIDE DEF k
<1>3. \A a \in Accounts : Remembers(k, a) => Remembers(j, a)
  BY <1>2, Facts DEF Remembers, Marked
<1>4. Single(k)
  BY <1>1, <1>3 DEF Sound, Single
<1>5. ASSUME NEW a \in Accounts, Vital(a) PROVE Lasting(k, a)
  <2>1. Lasting(j, a) /\ a # x /\ j.billing.account # a
    BY <1>1, <1>5, Facts DEF Sound, Knows
  <2> QED BY <1>2, <2>1, Facts DEF Lasting
<1> QED BY <1>2, <1>4, <1>5 DEF k, Sound, Knows, From

(* Nothing is vital that was not, as long as the server and the pages are  *)
(* left alone.                                                             *)
LEMMA Steady ==
  ASSUME TypeOK, HandFits, UNCHANGED <<server, now>>,
         \A a \in begun' : a \in begun \/ Shown(a),
         \A k \in Hand' : Sound(k) /\ From(k)
  PROVE  HandFits' /\ \A a \in Accounts : Vital(a)' => Vital(a)
<1>1. \A a \in Accounts : Shown(a)' => Shown(a)
  BY Facts DEF Shown, From
<1>2. \A a \in Accounts : Vital(a)' => Vital(a)
  BY <1>1 DEF Vital
<1>3. \A k \in Hand' : Knows(k)' /\ Single(k)'
  BY <1>2 DEF Sound, Knows, Lasting, Single, Remembers, Marked
<1>4. \A j, k \in Hand' : SameUrl(j, k)'
  <2> SUFFICES ASSUME NEW j \in Hand', NEW k \in Hand',
                      j.billing.account = k.billing.account, j.billing.account # None
               PROVE  j.billing.url = k.billing.url
    BY DEF SameUrl
  <2>1. PICK j0 \in Hand :
          j0.billing.account = j.billing.account /\ j0.billing.url = j.billing.url
    BY DEF From
  <2>2. PICK k0 \in Hand :
          k0.billing.account = k.billing.account /\ k0.billing.url = k.billing.url
    BY DEF From
  <2> QED BY <2>1, <2>2 DEF HandFits, SameUrl
<1> QED BY <1>2, <1>3, <1>4 DEF HandFits

-----------------------------------------------------------------------------
(* A change of the identity takes a copy of the journey.                   *)
LEMMA HandAfter ==
  ASSUME NEW k \in Hand'
  PROVE  k = stored' \/ (rec'.on /\ k = rec'.copy)
           \/ (op'.stage \notin {"idle", "value"} /\ k = op'.copy)
BY DEF Hand, Busy

LEMMA Parts0 ==
  ASSUME TypeOK
  PROVE  /\ op \in Ops /\ op.stage \in Stages /\ op.copy \in Journeys /\ op.outdated \in BOOLEAN
         /\ op.account \in Accounts \cup {None} /\ op.answer \in Answers
         /\ rec.on \in BOOLEAN /\ rec.copy \in Journeys /\ stored \in Journeys
         /\ identity \in Accounts \cup {None} /\ now \in Nat /\ begun \in SUBSET Accounts
BY Facts DEF TypeOK, Ops

LEMMA OvertakenFields ==
  ASSUME TypeOK
  PROVE  /\ Overtaken \in Ops /\ Overtaken.stage = op.stage /\ Overtaken.mode = op.mode
         /\ Overtaken.account = op.account /\ Overtaken.copy = op.copy
         /\ Overtaken.answer = op.answer /\ (op.stage \in Queued => Overtaken.outdated)
<1>1. op \in Ops
  BY DEF TypeOK, Ops
<1>2. ASSUME NEW flag \in BOOLEAN, flag = (op.stage \in Queued)
      PROVE  LET w == [op EXCEPT !.outdated = flag]
             IN  /\ w \in Ops /\ w.stage = op.stage /\ w.mode = op.mode
                 /\ w.account = op.account /\ w.copy = op.copy /\ w.answer = op.answer
                 /\ w.outdated = flag
  BY <1>1 DEF Ops
<1>3. (op.stage \in Queued) \in BOOLEAN
  OBVIOUS
<1> QED BY <1>2, <1>3, Zenon DEF Overtaken

(* The operation goes on as it is, or knows that it was overtaken.         *)
Carries ==
  /\ op' \in Ops /\ op'.stage = op.stage /\ op'.mode = op.mode /\ op'.account = op.account
  /\ op'.copy = op.copy /\ op'.answer = op.answer
  /\ op.stage \in Queued /\ op.outdated => op'.outdated

LEMMA IdentityKeeps ==
  ASSUME IndInv, NEW a \in Accounts \cup {None}, IdentityChanges(a), Carries,
         UNCHANGED <<stored, server, member, begun, made, now>>,
         BetweenRequests => a = None,
         op.stage \in Queued => op'.outdated \/ (At("decide") /\ op.copy.billing.account = None)
  PROVE  IndInv'
<1> USE DEF IndInv
<1>1. identity' = a /\ ~ rec.on /\ rec' = [on |-> TRUE, copy |-> Read]
  BY DEF IdentityChanges, QueueFree
<1>2. rec'.on = TRUE /\ rec'.copy = Read /\ Read.billing = stored.billing
  BY <1>1, ReadType
<1>3. TypeOK'
  BY <1>1, ReadType DEF TypeOK, Carries, Ops
<1>4. \A k \in Hand' : Sound(k) /\ From(k)
  <2> TAKE k \in Hand'
  <2>1. CASE k = stored'
    BY <2>1, HandParts, HandSound
  <2>2. CASE k = rec'.copy
    BY <1>2, <2>2, ReadSound
  <2>3. CASE op'.stage \notin {"idle", "value"} /\ k = op'.copy
    <3>1. op.copy \in Hand /\ k = op.copy
      BY <2>3, HandParts DEF Carries, Busy
    <3> QED BY <3>1, HandSound
  <2> QED BY <2>1, <2>2, <2>3, HandAfter
<1>5. HandFits' /\ \A x \in Accounts : Vital(x)' => Vital(x)
  BY <1>4, Steady
<1>6. ServerFits'
  BY DEF ServerFits, Active
<1>7. Lineage'
  <2>1. BetweenRequests' /\ rec'.on => identity' = None
    BY <1>1 DEF BetweenRequests, Carries
  <2>2. rec'.copy.billing.account = stored'.billing.account
    BY <1>2
  <2>3. op'.stage \in {"look", "part"} =>
       /\ stored'.billing.account # None => op'.copy.billing.account = stored'.billing.account
       /\ rec'.on /\ identity' # None /\ rec'.copy.billing.account = identity'
            => op'.copy.billing.account = identity'
    BY <2>2 DEF Lineage, Carries
  <2>4. op'.stage = "decide" /\ ~ op'.outdated /\ op'.copy.billing.account = None
          => stored'.billing.account = None
    BY DEF Lineage, Carries, At, Queued
  <2> QED BY <2>1, <2>2, <2>3, <2>4 DEF Lineage, At
<1>8. BarrierFits'
  BY <1>2 DEF OpFits, BarrierFits, Carries, At, Marked
<1>9. NoneVital => NoneVital'
  BY <1>5 DEF NoneVital
<1>10. PostFits'
  BY <1>9 DEF OpFits, PostFits, Carries, At, Own, Queued
<1>11. AnswerFits'
  <2>1. op.stage \in {"exists", "membership"} => op'.outdated
    BY DEF Queued, At
  <2>2. At("resolve") => ~ Vital(op.account)'
    <3>1. op'.account = op.account
      BY DEF Carries
    <3> QED BY <1>5, <3>1 DEF OpFits, AnswerFits
  <2> QED BY <1>9, <2>1, <2>2 DEF OpFits, AnswerFits, Carries, At, Own
<1> QED BY <1>3, <1>5, <1>6, <1>7, <1>8, <1>10, <1>11 DEF OpFits

LEMMA SignOutKeeps == ASSUME IndInv, SignOut PROVE IndInv'
<1>1. Carries /\ (op.stage \in Queued => op'.outdated)
  BY OvertakenFields DEF SignOut, Carries, IndInv
<1> QED BY <1>1, IdentityKeeps DEF SignOut, backend, world

LEMMA SignInKeeps == ASSUME IndInv, NEW a \in Accounts, SignIn(a) PROVE IndInv'
<1>1. Carries /\ (op.stage \in Queued => op'.outdated)
  BY OvertakenFields DEF SignIn, Carries, IndInv
<1> QED BY <1>1, IdentityKeeps DEF SignIn, backend, world

LEMMA RestoreKeeps == ASSUME IndInv, NEW a \in Accounts, Restore(a) PROVE IndInv'
<1>1. Carries /\ op.stage \notin Queued /\ ~ BetweenRequests
  BY Parts0 DEF Restore, Carries, IndInv, At, Queued, BetweenRequests
<1> QED BY <1>1, IdentityKeeps DEF Restore, backend, world

LEMMA EnrollsKeeps == ASSUME IndInv, Enrolls PROVE IndInv'
<1>1. Carries /\ At("decide") /\ op.copy.billing.account = None /\ ~ BetweenRequests
  BY Parts0 DEF Enrolls, Unburdened, Deciding, Carries, IndInv, At, BetweenRequests
<1> QED BY <1>1, IdentityKeeps DEF Enrolls, backend, world

LEMMA ReconcileWritesKeeps == ASSUME IndInv, ReconcileWrites PROVE IndInv'
<1> USE DEF IndInv
<1>1. /\ rec.on /\ rec' = NoRec /\ stored' = Reconciled(rec.copy)
      /\ UNCHANGED <<identity, op, server, member, begun, made, now>>
  BY DEF ReconcileWrites, backend, world
<1>2. rec'.on = FALSE /\ rec' \in [on : BOOLEAN, copy : Journeys]
  BY <1>1, NoJourneyType DEF NoRec
<1>3. rec.copy \in Hand /\ rec.copy \in Journeys
  BY <1>1, HandParts, Parts0
<1>4. TypeOK'
  BY <1>1, <1>2, <1>3, ReconciledType DEF TypeOK
<1>5. \A k \in Hand' : Sound(k) /\ From(k)
  <2> TAKE k \in Hand'
  <2>1. CASE k = stored'
    BY <1>1, <1>3, <2>1, ReconciledSound
  <2>2. CASE op'.stage \notin {"idle", "value"} /\ k = op'.copy
    BY <1>1, <2>2, HandParts, HandSound DEF Busy
  <2> QED BY <1>2, <2>1, <2>2, HandAfter
<1>6. HandFits' /\ \A x \in Accounts : Vital(x)' => Vital(x)
  BY <1>1, <1>5, Steady
<1>7. ServerFits'
  BY <1>1 DEF ServerFits, Active
<1>8. \/ stored'.billing.account = None
      \/ identity # None /\ stored'.billing.account = identity
           /\ rec.copy.billing.account = identity
  BY <1>1, <1>3, ReconciledType, NoJourneyType
<1>9. Lineage'
  BY <1>1, <1>2, <1>8 DEF Lineage, At, BetweenRequests
<1>10. BarrierFits'
  BY <1>1, <1>2, <1>3, ReconciledType DEF OpFits, BarrierFits, At, Marked
<1>11. NoneVital => NoneVital'
  BY <1>6 DEF NoneVital
<1>12. PostFits'
  BY <1>1, <1>11 DEF OpFits, PostFits, At, Own
<1>13. AnswerFits'
  <2>1. At("resolve") => ~ Vital(op.account)'
    BY <1>1, <1>6 DEF OpFits, AnswerFits
  <2> QED BY <1>1, <1>11, <2>1 DEF OpFits, AnswerFits, At, Own
<1> QED BY <1>4, <1>6, <1>7, <1>9, <1>10, <1>12, <1>13 DEF OpFits

-----------------------------------------------------------------------------
(* A step of the operation that sends nothing and writes what is at hand.  *)
LEMMA StepKeeps ==
  ASSUME IndInv, UNCHANGED <<identity, rec, server, member, made, now>>,
         begun' \in SUBSET Accounts, \A a \in begun' : a \in begun \/ Shown(a),
         op' \in Ops, stored' \in Journeys, Sound(stored'), From(stored'),
         op'.stage \notin {"idle", "value"} => Sound(op'.copy) /\ From(op'.copy),
         rec.on /\ identity # None /\ rec.copy.billing.account = identity
           => stored'.billing.account = identity
  PROVE  /\ TypeOK' /\ HandFits' /\ ServerFits' /\ \A a \in Accounts : Vital(a)' => Vital(a)
         /\ op'.stage \in {"idle", "value"} => IndInv'
<1> USE DEF IndInv
<1>1. TypeOK'
  BY DEF TypeOK, Ops
<1>2. \A k \in Hand' : Sound(k) /\ From(k)
  <2> TAKE k \in Hand'
  <2>1. CASE rec'.on /\ k = rec'.copy
    BY <2>1, HandParts, HandSound
  <2> QED BY <2>1, HandAfter
<1>3. HandFits' /\ \A a \in Accounts : Vital(a)' => Vital(a)
  BY <1>2, Steady
<1>4. ServerFits'
  BY DEF ServerFits, Active
<1>5. ASSUME op'.stage \in {"idle", "value"} PROVE Lineage' /\ OpFits'
  BY <1>5 DEF Lineage, OpFits, BarrierFits, PostFits, AnswerFits, At, BetweenRequests
<1> QED BY <1>1, <1>3, <1>4, <1>5

(* What holds of the copies at hand. *)
LEMMA StoredSound == ASSUME IndInv PROVE Sound(stored) /\ From(stored) /\ stored \in Journeys
BY HandParts, HandSound, Parts0 DEF IndInv

LEMMA CopySound ==
  ASSUME IndInv, op.stage \notin {"idle", "value"}
  PROVE  Sound(op.copy) /\ From(op.copy) /\ op.copy \in Journeys /\ op.copy \in Hand
BY HandParts, HandSound, Parts0 DEF IndInv, Busy

LEMMA EndsKeeps ==
  ASSUME IndInv, UNCHANGED <<identity, rec, server, member, made, now, stored>>,
         begun' \in SUBSET Accounts, \A a \in begun' : a \in begun \/ Shown(a), Ends
  PROVE  IndInv'
<1>1. op' \in Ops /\ op'.stage = "idle"
  BY NoJourneyType DEF Ends
<1>2. rec.on /\ identity # None /\ rec.copy.billing.account = identity
        => stored'.billing.account = identity
  BY DEF IndInv, Lineage
<1> QED BY <1>1, <1>2, StoredSound, StepKeeps

(* The operation ends with its own copy written back; nobody else writes.  *)
LEMMA EndsWriting ==
  ASSUME IndInv, UNCHANGED <<identity, rec, server, member, begun, made, now>>, ~ rec.on,
         op.stage \notin {"idle", "value"}, Ends, stored' = op.copy
  PROVE  IndInv'
<1>1. op' \in Ops /\ op'.stage = "idle"
  BY NoJourneyType DEF Ends
<1> QED BY <1>1, CopySound, StepKeeps, Parts0 DEF IndInv

LEMMA GoesFields ==
  ASSUME NEW stage \in Stages, NEW mode \in {"none", "buy", "recover", "reclaim"},
         NEW a \in Accounts \cup {None}, TypeOK, Goes(stage, mode, a)
  PROVE  /\ op' \in Ops /\ op'.stage = stage /\ op'.mode = mode /\ op'.account = a
         /\ op'.copy = op.copy /\ op'.answer = "none" /\ op'.outdated = FALSE
BY NoJourneyType, Parts0, ZenonT(60) DEF Goes, Idle, Ops

LEMMA PartsKeeps ==
  ASSUME IndInv, Parts, UNCHANGED <<identity, stored, rec, server, member, begun, made, now>>
  PROVE  IndInv'
<1>1. /\ op' \in Ops /\ op'.stage = "part" /\ op'.copy = Read
  BY NoJourneyType, ReadType DEF Parts, Idle, Ops, IndInv, Stages
<1>2. Sound(Read) /\ From(Read) /\ Read.billing = stored.billing
  BY ReadSound, ReadType DEF IndInv
<1>3. rec.on /\ identity # None /\ rec.copy.billing.account = identity
        => stored.billing.account = identity
  BY DEF IndInv, Lineage
<1>4. TypeOK' /\ HandFits' /\ ServerFits'
  BY <1>1, <1>2, <1>3, StoredSound, StepKeeps, Parts0 DEF IndInv
<1>5. Lineage'
  BY <1>1, <1>2, <1>3 DEF Lineage, At, BetweenRequests
<1>6. OpFits'
  BY <1>1 DEF OpFits, BarrierFits, PostFits, AnswerFits, At
<1> QED BY <1>4, <1>5, <1>6 DEF IndInv

-----------------------------------------------------------------------------
(* An operation begins.                                                    *)
LEMMA BeginKeeps == ASSUME IndInv, NEW action \in Actions, Begin(action) PROVE IndInv'
<1>1. /\ UNCHANGED <<identity, stored, rec, server, member, begun, made, now>>
      /\ op' = [Idle EXCEPT !.stage = "look", !.action = action, !.copy = Read]
  BY DEF Begin, backend, world
<1>2. op' \in Ops /\ op'.stage = "look" /\ op'.copy = Read
  BY <1>1, NoJourneyType, ReadType DEF Idle, Ops, IndInv, Stages
<1>3. Sound(Read) /\ From(Read) /\ Read.billing = stored.billing
  BY ReadSound, ReadType DEF IndInv
<1>4. rec.on /\ identity # None /\ rec.copy.billing.account = identity
        => stored.billing.account = identity
  BY DEF IndInv, Lineage
<1>5. TypeOK' /\ HandFits' /\ ServerFits'
  BY <1>1, <1>2, <1>3, <1>4, StoredSound, StepKeeps, Parts0 DEF IndInv
<1>6. Lineage'
  BY <1>1, <1>2, <1>3, <1>4 DEF Lineage, At, BetweenRequests
<1>7. OpFits'
  BY <1>2 DEF OpFits, BarrierFits, PostFits, AnswerFits, At
<1> QED BY <1>5, <1>6, <1>7 DEF IndInv

LEMMA ReconcilesKeeps == ASSUME IndInv, Reconciles PROVE IndInv'
<1>1. /\ UNCHANGED <<identity, rec, server, member, begun, made, now>>
      /\ op.stage \in {"look", "part"} /\ stored' = Reconciled(op.copy)
  BY DEF Reconciles, backend, world, At
<1>2. op' \in Ops /\ op'.stage \in {"idle", "value"}
  BY NoJourneyType, Parts0, ZenonT(60) DEF Reconciles, Idle, Ops, IndInv, Stages
<1>3. op.copy \in Journeys /\ Sound(Reconciled(op.copy)) /\ From(Reconciled(op.copy))
  BY <1>1, CopySound, ReconciledSound DEF IndInv
<1>4. ASSUME rec.on, identity # None, rec.copy.billing.account = identity
      PROVE  stored'.billing.account = identity
  <2>1. op.copy.billing.account = identity
    BY <1>1, <1>4 DEF IndInv, Lineage
  <2> QED BY <1>1, <1>3, <2>1, ReconciledType
<1> QED BY <1>1, <1>2, <1>3, <1>4, ReconciledType, StepKeeps, Parts0 DEF IndInv

LEMMA ReadsValueKeeps == ASSUME IndInv, ReadsValue PROVE IndInv'
<1>1. /\ UNCHANGED <<identity, stored, rec, server, member, begun, made, now>>
      /\ op' = [op EXCEPT !.stage = "decide", !.copy = Read]
  BY DEF ReadsValue, backend, world
<1>2. op' \in Ops /\ op'.stage = "decide" /\ op'.copy = Read
  BY <1>1, ReadType, Parts0 DEF Ops, IndInv, Stages
<1>3. Sound(Read) /\ From(Read) /\ Read.billing = stored.billing
  BY ReadSound, ReadType DEF IndInv
<1>4. rec.on /\ identity # None /\ rec.copy.billing.account = identity
        => stored.billing.account = identity
  BY DEF IndInv, Lineage
<1>5. TypeOK' /\ HandFits' /\ ServerFits'
  BY <1>1, <1>2, <1>3, <1>4, StoredSound, StepKeeps, Parts0 DEF IndInv
<1>6. Lineage'
  BY <1>1, <1>2, <1>3, <1>4 DEF Lineage, At, BetweenRequests
<1>7. OpFits'
  BY <1>2 DEF OpFits, BarrierFits, PostFits, AnswerFits, At
<1> QED BY <1>5, <1>6, <1>7 DEF IndInv

-----------------------------------------------------------------------------
(* The decisions.                                                          *)

(* An active membership leaves nothing that may go through.                *)
LEMMA ActiveSettles ==
  ASSUME IndInv, NEW a \in Accounts, Active(a) \/ server[a].state \in {"active", "ended", "none"}
  PROVE  ~ Vital(a)
BY DEF IndInv, ServerFits, Vital

(* The operation goes on with its own copy.                                *)
LEMMA GoesKeeps ==
  ASSUME IndInv, UNCHANGED <<identity, rec, server, member, begun, made, now>>,
         op.stage \notin {"idle", "value"}, op' \in Ops, op'.copy = op.copy,
         op'.stage \notin {"idle", "value", "look", "part", "decide"},
         stored' = stored \/ ((rec.on => identity = None) /\ stored' = op.copy),
         BetweenRequests' => ~ rec.on \/ identity = None,
         (\A a \in Accounts : Vital(a)' => Vital(a)) => OpFits'
  PROVE  IndInv'
<1>1. rec.on /\ identity # None /\ rec.copy.billing.account = identity
        => stored'.billing.account = identity
  BY DEF IndInv, Lineage
<1>2. Sound(stored') /\ From(stored') /\ stored' \in Journeys
  BY StoredSound, CopySound
<1>3. TypeOK' /\ HandFits' /\ ServerFits' /\ \A a \in Accounts : Vital(a)' => Vital(a)
  BY <1>1, <1>2, CopySound, StepKeeps, Parts0 DEF IndInv
<1>4. Lineage'
  BY <1>1 DEF Lineage, At
<1> QED BY <1>3, <1>4 DEF IndInv

LEMMA LooksKeeps ==
  ASSUME IndInv, LooksAfterPayment, UNCHANGED <<identity, rec, server, member, made, now>>
  PROVE  IndInv'
<1>1. /\ At("decide") /\ ~ rec.on /\ op.copy.billing.account # None
      /\ op.copy.billing.account = identity /\ identity \in Accounts /\ begun' = begun
  BY Parts0 DEF LooksAfterPayment, Known, Deciding, Ours, QueueFree, IndInv
<1>2. CASE op.action = "check" /\ ~ op.copy.billing.url
  <2>1. Goes("post", "recover", identity) /\ stored' = stored
    BY <1>2 DEF LooksAfterPayment
  <2>2. /\ op' \in Ops /\ op'.stage = "post" /\ op'.mode = "recover"
        /\ op'.account = identity /\ op'.copy = op.copy
    <3>1. "post" \in Stages /\ identity \in Accounts \cup {None} /\ TypeOK
      BY <1>1 DEF Stages, IndInv
    <3> QED BY <2>1, <3>1, GoesFields
  <2>3. OpFits'
    BY <1>1, <1>2, <2>2 DEF OpFits, BarrierFits, PostFits, AnswerFits, At, Own
  <2> QED BY <1>1, <2>1, <2>2, <2>3, GoesKeeps DEF At, BetweenRequests
<1>3. CASE Ends /\ stored' = stored
  BY <1>1, <1>3, EndsKeeps, Parts0 DEF IndInv
<1>4. CASE Goes(Poll(op.copy.billing), "none", identity) /\ stored' = op.copy
  <2>1. /\ op' \in Ops /\ op'.stage = Poll(op.copy.billing) /\ op'.answer = "none"
        /\ op'.account = identity /\ op'.copy = op.copy
    <3>1. /\ Poll(op.copy.billing) \in Stages /\ identity \in Accounts \cup {None}
          /\ TypeOK
      BY <1>1 DEF Stages, IndInv, Poll
    <3> QED BY <1>4, <3>1, GoesFields
  <2>2. OpFits'
    BY <1>1, <2>1 DEF OpFits, BarrierFits, PostFits, AnswerFits, At, Own, Poll
  <2> QED BY <1>1, <1>4, <2>1, <2>2, GoesKeeps DEF At, BetweenRequests, Poll
<1> QED BY <1>2, <1>3, <1>4 DEF LooksAfterPayment

LEMMA UnresolvedKeeps ==
  ASSUME IndInv, DecidesUnresolved, UNCHANGED <<identity, rec, server, member, made, now>>
  PROVE  IndInv'
<1>1. /\ At("decide") /\ ~ rec.on /\ op.copy.billing.account = None
      /\ stored' = stored /\ begun' = begun
  BY DEF DecidesUnresolved, Unresolved, Deciding, QueueFree
<1>2. CASE Ends
  BY <1>1, <1>2, EndsKeeps, Parts0 DEF IndInv
<1>3. CASE ~ Ends
  <2>1. identity \in Accounts /\ ~ op.outdated /\ Marked(op.copy, identity)
        /\ stored.billing.account = None
    BY <1>1, <1>3, Parts0 DEF DecidesUnresolved, Granted, IndInv, Lineage
  <2>2. CASE Active(identity) /\ Goes("resolve", "none", identity)
    <3>1. op' \in Ops /\ op'.stage = "resolve" /\ op'.account = identity /\ op'.copy = op.copy
      BY <2>1, <2>2, GoesFields DEF Stages, IndInv
    <3>2. ~ Vital(identity)
      BY <2>1, <2>2, ActiveSettles
    <3>3. (\A a \in Accounts : Vital(a)' => Vital(a)) => OpFits'
      <4> SUFFICES ASSUME \A a \in Accounts : Vital(a)' => Vital(a) PROVE OpFits'
        OBVIOUS
      <4>1. ~ Vital(op.account)'
        BY <2>1, <3>1, <3>2
      <4> QED BY <1>1, <2>1, <3>1, <4>1 DEF OpFits, BarrierFits, PostFits, AnswerFits, At
    <3> QED BY <1>1, <3>1, <3>3, GoesKeeps DEF At
  <2>3. CASE Goes("barrier", "reclaim", identity)
    <3>1. /\ op' \in Ops /\ op'.stage = "barrier" /\ op'.mode = "reclaim"
          /\ op'.account = identity /\ op'.copy = op.copy
      BY <2>1, <2>3, GoesFields DEF Stages, IndInv
    <3>2. OpFits'
      BY <1>1, <2>1, <3>1 DEF OpFits, BarrierFits, PostFits, AnswerFits, At, Marked
    <3> QED BY <1>1, <3>1, <3>2, GoesKeeps DEF At
  <2> QED BY <1>3, <2>2, <2>3 DEF DecidesUnresolved
<1> QED BY <1>2, <1>3

LEMMA DecidesKeeps == ASSUME IndInv, Decides PROVE IndInv'
<1>1. UNCHANGED <<identity, rec, server, member, made, now>>
  BY DEF Decides, backend
<1>2. CASE LeavesPayment
  BY <1>1, <1>2, PartsKeeps DEF LeavesPayment
<1>3. CASE ResumesPayment
  <2>1. /\ At("decide") /\ op.copy.billing.account = identity /\ identity \in Accounts
        /\ op.copy.billing.url /\ begun' = begun \cup {identity} /\ stored' = stored /\ Ends
    BY <1>3, Parts0 DEF ResumesPayment, Known, Deciding, Ours, MayResume, IndInv
  <2>2. Shown(identity)
    BY <2>1, CopySound DEF Shown, At
  <2> QED BY <1>1, <2>1, <2>2, EndsKeeps, Parts0 DEF IndInv
<1>4. CASE LooksAfterPayment
  BY <1>1, <1>4, LooksKeeps
<1>5. CASE DecidesUnresolved
  BY <1>1, <1>5, UnresolvedKeeps
<1>6. CASE DecidesNew
  <2>1. /\ At("decide") /\ ~ rec.on /\ op.copy.billing.account = None /\ op.copy.marks = {}
        /\ stored' = stored /\ begun' = begun
    BY <1>6 DEF DecidesNew, Unburdened, Deciding, QueueFree
  <2>2. CASE Ends
    BY <1>1, <2>1, <2>2, EndsKeeps, Parts0 DEF IndInv
  <2>3. CASE ~ Ends
    <3>1. /\ identity \in Accounts /\ Goes("barrier", "buy", identity)
          /\ stored.billing.account = None
      BY <1>6, <2>1, <2>3, Parts0 DEF DecidesNew, Granted, IndInv, Lineage
    <3>2. /\ op' \in Ops /\ op'.stage = "barrier" /\ op'.mode = "buy"
          /\ op'.account = identity /\ op'.copy = op.copy
      BY <3>1, GoesFields DEF Stages, IndInv
    <3>3. OpFits'
      BY <1>1, <2>1, <3>1, <3>2 DEF OpFits, BarrierFits, PostFits, AnswerFits, At
    <3> QED BY <1>1, <2>1, <3>2, <3>3, GoesKeeps DEF At
  <2> QED BY <2>2, <2>3
<1> QED BY <1>2, <1>3, <1>4, <1>5, <1>6 DEF Decides

-----------------------------------------------------------------------------
(* The barrier is written.                                                 *)
LEMMA WritesBarrierKeeps == ASSUME IndInv, WritesBarrier PROVE IndInv'
<1> USE DEF IndInv
<1> DEFINE b == [NoBilling EXCEPT !.account = op.account, !.until = now + 1]
<1> DEFINE c == [op.copy EXCEPT !.billing = b]
<1>1. /\ op.stage = "barrier" /\ stored' = c /\ op' = [op EXCEPT !.stage = "post", !.copy = c]
      /\ UNCHANGED <<identity, rec, server, member, begun, made, now>>
  BY DEF WritesBarrier, At, backend, world
<1>2. /\ op.account \in Accounts /\ op.copy.billing.account = None
      /\ rec.on => identity = None /\ rec.copy.billing.account = None
      /\ \/ op.mode = "buy" /\ op.copy.marks = {}
         \/ op.mode = "reclaim" /\ Marked(op.copy, op.account)
  BY <1>1 DEF OpFits, BarrierFits, Lineage, At, BetweenRequests
<1>3. /\ b \in Billings /\ b.account = op.account /\ b.until = now + 1 /\ b.attempt = 0
      /\ b.url = FALSE
  BY <1>2, ServerTypes, Facts, NoJourneyType DEF NoBilling, Billings
<1> HIDE DEF b
<1>4. c \in Journeys /\ c.billing = b /\ c.marks = op.copy.marks
  BY <1>3, Parts0 DEF Journeys
<1> HIDE DEF c
<1>5. /\ op' \in Ops /\ op'.stage = "post" /\ op'.copy = c /\ op'.mode = op.mode
      /\ op'.account = op.account /\ op'.outdated = op.outdated
  BY <1>1, <1>4, Parts0 DEF Ops, Stages
<1>6. \A k \in Hand' : k = c \/ (rec.on /\ k = rec.copy)
  BY <1>1, <1>5, HandAfter
<1>7. \A x \in Accounts : ~ Shown(x)'
  BY <1>2, <1>3, <1>4, <1>6, Facts DEF Shown
<1>8. \A x \in Accounts : Vital(x)' => Vital(x)
  BY <1>1, <1>7 DEF Vital
<1>9. Sound(op.copy)
  BY <1>1, CopySound
<1>10. ASSUME NEW x \in Accounts, Vital(x)
       PROVE  Lasting(c, x) /\ \E m \in op.copy.marks : m.account = x /\ m.until >= server[x].until
  <2>1. \E m \in op.copy.marks : m.account = x /\ m.until >= server[x].until
    BY <1>2, <1>9, <1>10, Facts DEF Sound, Knows, Lasting
  <2>2. CASE x = op.account
    BY <1>3, <1>4, <2>1, <2>2 DEF Lasting, ServerFits
  <2>3. CASE x # op.account
    BY <1>3, <1>4, <2>1, <2>3 DEF Lasting
  <2> QED BY <2>1, <2>2, <2>3
<1>11. Single(c)
  <2>1. \A x \in Accounts : Remembers(c, x) => x = op.account
    BY <1>2, <1>3, <1>4, <1>9 DEF Remembers, Marked, Sound, Single
  <2> QED BY <2>1 DEF Single
<1>12. \A k \in Hand' : Knows(k) /\ Single(k)
  BY <1>6, <1>10, <1>11, HandParts, HandSound DEF Sound, Knows
<1>13. HandFits'
  <2>1. \A k \in Hand' : Knows(k)' /\ Single(k)'
    BY <1>1, <1>8, <1>12 DEF Knows, Lasting, Single, Remembers, Marked
  <2>2. \A j, k \in Hand' : SameUrl(j, k)'
    BY <1>2, <1>6 DEF SameUrl
  <2> QED BY <2>1, <2>2 DEF HandFits
<1>14. TypeOK' /\ ServerFits'
  BY <1>1, <1>4, <1>5 DEF TypeOK, ServerFits, Active, Ops
<1>15. Lineage'
  BY <1>1, <1>2, <1>5 DEF Lineage, At, BetweenRequests
<1>16. op.mode = "buy" => NoneVital'
  BY <1>2, <1>8, <1>10 DEF NoneVital
<1>17. OpFits'
  BY <1>1, <1>2, <1>3, <1>4, <1>5, <1>16, Facts
  DEF OpFits, BarrierFits, PostFits, AnswerFits, At, Own
<1> QED BY <1>13, <1>14, <1>15, <1>17

-----------------------------------------------------------------------------
(* The request and its answer.                                             *)
LEMMA ConfirmingFields ==
  ASSUME TypeOK, op.account \in Accounts, NEW j \in Journeys, op' = Confirming(j)
  PROVE  /\ op' \in Ops
         /\ \/ op' = Idle /\ op'.stage = "idle"
            \/ /\ op.mode = "recover" /\ op'.stage = "again" /\ op'.account = op.account
               /\ op'.copy = j /\ j.billing.attempt # 0
<1>1. Idle \in Ops /\ Idle.stage = "idle"
  BY NoJourneyType DEF Idle
<1>2. CASE op.mode = "recover" /\ j.billing.attempt # 0
  <2>1. op' = [Idle EXCEPT !.stage = "again", !.account = op.account, !.copy = j]
    BY <1>2 DEF Confirming
  <2>2. /\ op'.stage = "again" /\ op'.account = op.account /\ op'.copy = j
    BY <1>1, <2>1 DEF Ops
  <2>3. op' \in Ops
    BY <1>1, <2>1 DEF Ops, Stages
  <2> QED BY <1>2, <2>2, <2>3
<1>3. CASE ~ (op.mode = "recover" /\ j.billing.attempt # 0)
  BY <1>1, <1>3 DEF Confirming
<1> QED BY <1>2, <1>3

LEMMA LostKeeps ==
  ASSUME IndInv, ~ rec.on, op.stage \in {"post", "exists"}, Lost,
         UNCHANGED <<identity, stored, rec, server, member, begun, made, now>>
  PROVE  IndInv'
<1>1. Own
  BY DEF IndInv, OpFits, PostFits, AnswerFits, At
<1>2. op.account \in Accounts /\ op.copy \in Journeys /\ TypeOK
  BY <1>1, Parts0 DEF Own, IndInv
<1>3. /\ op' \in Ops
      /\ \/ op' = Idle
         \/ /\ op'.stage = "again" /\ op'.account = op.account
            /\ op'.copy = op.copy /\ op.copy.billing.attempt # 0
  BY <1>2, ConfirmingFields DEF Lost
<1>4. CASE op' = Idle
  BY <1>2, <1>4, EndsKeeps, Parts0 DEF Ends
<1>5. CASE op' # Idle
  <2>1. OpFits'
    BY <1>1, <1>3, <1>5 DEF OpFits, BarrierFits, PostFits, AnswerFits, At, Own
  <2> QED BY <1>3, <1>5, <2>1, GoesKeeps
<1> QED BY <1>4, <1>5

LEMMA CreatedFields ==
  ASSUME TypeOK, NEW a \in Accounts, made < MaxAttempts
  PROVE  /\ Created(a) \in [Accounts -> [attempt : 0 .. MaxAttempts, until : Times,
                              state : {"none", "open", "paid", "active", "ended"}]]
         /\ Created(a)[a].attempt = made + 1 /\ Created(a)[a].until = now + 1
         /\ \A x \in Accounts : x # a => Created(a)[x] = server[x]
         /\ made + 1 \in 0 .. MaxAttempts
<1>1. /\ [attempt |-> made + 1, state |-> "open", until |-> now + 1]
           \in [attempt : 0 .. MaxAttempts, until : Times,
                state : {"none", "open", "paid", "active", "ended"}]
      /\ made + 1 \in 0 .. MaxAttempts
  BY Facts, ServerTypes DEF TypeOK
<1> QED BY <1>1 DEF TypeOK, Created

LEMMA CreatesKeeps ==
  ASSUME IndInv, NEW a \in Accounts, a = op.account, At("post"), Granted, identity = a,
         ~ Active(a), MayCreate(a), Answer("url"), server' = Created(a), made' = made + 1,
         begun' = IF op.mode = "buy" THEN begun \cup {a} ELSE begun \ {a},
         UNCHANGED <<identity, stored, rec, member, now>>
  PROVE  IndInv'
<1> USE DEF IndInv
<1>1. /\ ~ rec.on /\ op.stage = "post" /\ ~ op.outdated /\ made < MaxAttempts /\ Own
      /\ ~ op.copy.billing.url /\ op.copy.billing.account = a /\ op.copy \in Journeys
  BY Parts0 DEF OpFits, PostFits, At, Granted, QueueFree, MayCreate, Own
<1>2. /\ op' \in Ops
      /\ \/ op'.stage = "idle"
         \/ /\ op'.stage = "again" /\ op'.account = op.account
            /\ op'.copy = op.copy /\ op.copy.billing.attempt # 0
         \/ /\ op'.stage = "answered" /\ op'.account = op.account
            /\ op'.copy = op.copy /\ op'.answer = "url"
  <2>1. CASE Lost
    <3>1. op' = Confirming(op.copy)
      BY <2>1 DEF Lost
    <3> QED BY <1>1, <3>1, ConfirmingFields
  <2>2. CASE op' = [op EXCEPT !.stage = "answered", !.answer = "url"]
    BY <2>2, Parts0 DEF Ops, Stages, Answers
  <2> QED BY <2>1, <2>2 DEF Answer
<1>3. /\ server'[a].attempt = made + 1 /\ server'[a].until = now + 1
      /\ \A x \in Accounts : x # a => server'[x] = server[x]
  BY <1>1, CreatedFields
<1>4. TypeOK'
  BY <1>1, <1>2, CreatedFields DEF TypeOK, Ops
<1>5. \A k \in Hand' : k \in Hand /\ (k = stored \/ k = op.copy)
  BY <1>1, <1>2, HandAfter, HandParts DEF Busy
<1>6. \A x \in Accounts : Shown(x)' => Shown(x)
  BY <1>5 DEF Shown
<1>7. \A x \in Accounts : x # a /\ Vital(x)' => Vital(x)
  BY <1>3, <1>6 DEF Vital
<1>8. Vital(a)' => op.mode = "buy"
  <2> SUFFICES ASSUME op.mode # "buy", Shown(a)' PROVE FALSE
    BY DEF Vital
  <2>1. PICK j \in Hand : j.billing.account = a /\ j.billing.url
    BY <1>6 DEF Shown
  <2>2. op.copy \in Hand
    BY <1>1, HandParts DEF Busy
  <2> QED BY <1>1, <2>1, <2>2, Facts DEF HandFits, SameUrl
<1>9. op.mode = "buy" => stored = op.copy /\ op.copy.billing.until = now + 1
                           /\ op.copy.billing.attempt = 0
  BY <1>1 DEF OpFits, PostFits
<1>10. HandFits'
  <2>1. ASSUME NEW k \in Hand', NEW x \in Accounts, Vital(x)' PROVE Lasting(k, x)'
    <3>1. CASE x = a
      <4>1. k = op.copy /\ op.copy.billing.until = now + 1 /\ op.copy.billing.attempt = 0
        BY <1>5, <1>8, <1>9, <2>1, <3>1
      <4> QED BY <1>1, <1>3, <3>1, <4>1, Parts0 DEF Lasting
    <3>2. CASE x # a
      <4>1. Lasting(k, x)
        BY <1>5, <1>7, <2>1, <3>2 DEF HandFits, Knows
      <4> QED BY <1>3, <3>2, <4>1 DEF Lasting
    <3> QED BY <3>1, <3>2
  <2>2. \A k \in Hand' : Knows(k)'
    BY <2>1 DEF Knows
  <2>3. \A k \in Hand' : Single(k)'
    BY <1>5 DEF HandFits, Single, Remembers, Marked
  <2>4. \A j, k \in Hand' : SameUrl(j, k)'
    BY <1>5 DEF HandFits, SameUrl
  <2> QED BY <2>2, <2>3, <2>4 DEF HandFits
<1>11. ServerFits'
  BY <1>3, Parts0 DEF ServerFits, Active
<1>12. Lineage'
  BY <1>1, <1>2 DEF Lineage, At, BetweenRequests
<1>13. OpFits'
  BY <1>1, <1>2 DEF OpFits, BarrierFits, PostFits, AnswerFits, At, Own
<1> QED BY <1>4, <1>10, <1>11, <1>12, <1>13

LEMMA PostsKeeps == ASSUME IndInv, Posts PROVE IndInv'
<1>1. /\ At("post") /\ op.stage = "post" /\ ~ rec.on /\ Own /\ op.account \in Accounts
      /\ UNCHANGED <<identity, stored, rec, member, now>>
  BY DEF Posts, At, QueueFree, IndInv, OpFits, PostFits, Own
<1>2. CASE Lost /\ UNCHANGED <<server, begun, made>>
  BY <1>1, <1>2, LostKeeps
<1>3. CASE /\ Granted /\ identity = op.account /\ ~ Active(op.account) /\ MayCreate(op.account)
           /\ Answer("url") /\ server' = Created(op.account) /\ made' = made + 1
           /\ begun' = IF op.mode = "buy" THEN begun \cup {op.account} ELSE begun \ {op.account}
  BY <1>1, <1>3, CreatesKeeps
<1>4. ASSUME NEW kind \in Answers, UNCHANGED <<server, begun, made>>, Answer(kind)
      PROVE  IndInv'
  <2>1. CASE Lost
    BY <1>1, <1>4, <2>1, LostKeeps
  <2>2. CASE op' = [op EXCEPT !.stage = "answered", !.answer = kind]
    <3>1. /\ op' \in Ops /\ op'.stage = "answered" /\ op'.account = op.account
          /\ op'.copy = op.copy /\ op'.mode = op.mode
      BY <1>4, <2>2, Parts0 DEF Ops, Stages, IndInv
    <3>2. (\A a \in Accounts : Vital(a)' => Vital(a)) => OpFits'
      <4> SUFFICES ASSUME \A a \in Accounts : Vital(a)' => Vital(a) PROVE OpFits'
        OBVIOUS
      <4>1. op.mode = "buy" => NoneVital'
        BY <1>1 DEF IndInv, OpFits, PostFits, NoneVital
      <4> QED BY <1>1, <3>1, <4>1 DEF OpFits, BarrierFits, PostFits, AnswerFits, At, Own
    <3> QED BY <1>1, <1>4, <3>1, <3>2, GoesKeeps
  <2> QED BY <1>4, <2>1, <2>2 DEF Answer
<1>5. CASE /\ UNCHANGED <<server, begun, made>>
           /\ \E kind \in {"exists", "url", "named", "refused", "unclear"} : Answer(kind)
  BY <1>4, <1>5 DEF Answers
<1> QED BY <1>2, <1>3, <1>5 DEF Posts

-----------------------------------------------------------------------------
(* What was answered is noted.                                             *)
LEMMA NotedFields ==
  ASSUME IndInv, At("answered")
  PROVE  /\ Noted(op.copy.billing) \in Billings
         /\ Noted(op.copy.billing).account = op.copy.billing.account
         /\ op.answer \notin {"url", "named"} => Noted(op.copy.billing) = op.copy.billing
         /\ op.answer \in {"url", "named"} =>
              /\ Noted(op.copy.billing).attempt = server[op.account].attempt
              /\ Noted(op.copy.billing).until = server[op.account].until
         /\ op.answer = "url" => Noted(op.copy.billing).url
<1> DEFINE b == op.copy.billing
<1> DEFINE n == Noted(b)
<1>1. op.account \in Accounts /\ b \in Billings
  BY Parts0, JourneyParts DEF IndInv, OpFits, AnswerFits, Own
<1>2. CASE op.answer \notin {"url", "named"}
  BY <1>1, <1>2 DEF Noted
<1>3. CASE op.answer \in {"url", "named"}
  <2>1. PICK url \in BOOLEAN, waiting \in BOOLEAN :
          /\ n = [b EXCEPT !.attempt = server[op.account].attempt,
                           !.until = server[op.account].until,
                           !.url = url, !.waiting = waiting]
          /\ op.answer = "url" => url
    <3>1. n = [b EXCEPT !.attempt = server[op.account].attempt,
                        !.until = server[op.account].until,
                        !.url = @ \/ op.answer = "url",
                        !.waiting = @ \/ op.answer = "url"]
      BY <1>3, Zenon DEF Noted
    <3>2. /\ (b.url \/ op.answer = "url") \in BOOLEAN
          /\ (b.waiting \/ op.answer = "url") \in BOOLEAN
      OBVIOUS
    <3> QED BY <3>1, <3>2, Zenon
  <2>2. server[op.account].attempt \in 0 .. MaxAttempts /\ server[op.account].until \in Times
    BY <1>1, ServerTypes DEF IndInv
  <2> HIDE DEF b, n
  <2>3. /\ n \in Billings /\ n.account = b.account
        /\ n.attempt = server[op.account].attempt /\ n.until = server[op.account].until
        /\ url => n.url
    <3>1. n = [b EXCEPT !.attempt = server[op.account].attempt,
                        !.until = server[op.account].until,
                        !.url = url, !.waiting = waiting]
      BY <2>1, Zenon
    <3>2. /\ server[op.account].attempt \in 0 .. MaxAttempts
          /\ server[op.account].until \in Times /\ b \in Billings
      BY <1>1, <2>2
    <3> HIDE DEF IndInv
    <3> DEFINE m == server[op.account].attempt
    <3> DEFINE t == server[op.account].until
    <3> DEFINE e == [b EXCEPT !.attempt = m, !.until = t, !.url = url, !.waiting = waiting]
    <3>3. /\ e \in Billings /\ e.account = b.account /\ e.attempt = m /\ e.until = t
          /\ url => e.url
      <4>1. m \in 0 .. MaxAttempts /\ t \in Times /\ b \in Billings
        BY <3>2
      <4> HIDE DEF m, t
      <4>2. e \in Billings
        BY <4>1 DEF Billings
      <4>3. e.account = b.account /\ e.attempt = m /\ e.until = t
        BY <4>1 DEF Billings
      <4>4. url => e.url
        BY <4>1 DEF Billings
      <4> QED BY <4>2, <4>3, <4>4, Zenon
    <3>4. n = e
      BY <3>1
    <3> HIDE DEF e
    <3> QED BY <3>3, <3>4, Zenon
  <2> QED BY <1>3, <2>1, <2>3 DEF b, n
<1> QED BY <1>2, <1>3

LEMMA AfterwardsFields ==
  ASSUME TypeOK, op.account \in Accounts, NEW j \in Journeys, op' = Afterwards(j)
  PROVE  /\ op' \in Ops /\ op'.stage \in {"idle", "open", "exists", "resolve", "again"}
         /\ op'.stage # "idle" => op'.account = op.account /\ op'.copy = j
         /\ op'.stage = "open" => op.answer = "url"
         /\ op'.stage = "resolve" => op.answer = "refused" /\ op.mode = "buy"
         /\ op'.stage = "again" => j.billing.attempt # 0
<1>1. ASSUME NEW stage \in Stages
      PROVE  LET w == [op EXCEPT !.stage = stage, !.copy = j]
             IN  w \in Ops /\ w.stage = stage /\ w.account = op.account /\ w.copy = j
  BY Parts0 DEF Ops
<1>2. {"idle", "open", "exists", "resolve"} \subseteq Stages
  BY DEF Stages
<1>3. CASE op.answer = "url"
  <2>1. op' = Idle \/ op' = [op EXCEPT !.stage = "open", !.copy = j]
    BY <1>3 DEF Afterwards
  <2> QED BY <1>1, <1>2, <1>3, <2>1, NoJourneyType, ZenonT(60)
<1>4. CASE op.answer = "exists"
  <2>1. op' = [op EXCEPT !.stage = "exists", !.copy = j]
    BY <1>4 DEF Afterwards
  <2> QED BY <1>1, <1>2, <1>4, <2>1
<1>5. CASE op.answer = "refused" /\ op.mode = "buy"
  <2>1. op' = [op EXCEPT !.stage = "resolve", !.copy = j]
    BY <1>5 DEF Afterwards
  <2> QED BY <1>1, <1>2, <1>5, <2>1
<1>6. CASE op.answer \notin {"url", "exists"} /\ ~ (op.answer = "refused" /\ op.mode = "buy")
  <2>1. op' = Confirming(j)
    BY <1>6 DEF Afterwards
  <2> QED BY <2>1, ConfirmingFields
<1> QED BY <1>3, <1>4, <1>5, <1>6

LEMMA AnsweredKeeps == ASSUME IndInv, Answered PROVE IndInv'
<1> USE DEF IndInv
<1>1. /\ At("answered") /\ op.stage = "answered" /\ Own /\ op.account \in Accounts
      /\ op.copy.billing.account = op.account /\ op.copy \in Journeys
      /\ UNCHANGED <<identity, rec, server, member, begun, made, now>>
  BY Parts0 DEF Answered, At, OpFits, AnswerFits, Own, backend, world
<1>2. CASE identity # op.account
  BY <1>1, <1>2, PartsKeeps DEF Answered
<1>3. CASE identity = op.account
  <2> DEFINE n == Noted(op.copy.billing)
  <2> DEFINE j == [op.copy EXCEPT !.billing = n]
  <2>1. ~ rec.on
    BY <1>1, <1>3, Facts DEF Lineage, BetweenRequests
  <2>2. stored' = j /\ op' = Afterwards(j)
    BY <1>3 DEF Answered
  <2>3. /\ n \in Billings /\ n.account = op.account
        /\ op.answer \notin {"url", "named"} => n = op.copy.billing
        /\ op.answer \in {"url", "named"} =>
             /\ n.attempt = server[op.account].attempt
             /\ n.until = server[op.account].until
        /\ op.answer = "url" => n.url
    BY <1>1, NotedFields
  <2> HIDE DEF n
  <2>4. j \in Journeys /\ j.billing = n /\ j.marks = op.copy.marks
    BY <1>1, <2>3 DEF Journeys
  <2> HIDE DEF j
  <2>5. /\ op' \in Ops /\ op'.stage \in {"idle", "open", "exists", "resolve", "again"}
        /\ op'.stage # "idle" => op'.account = op.account /\ op'.copy = j
        /\ op'.stage = "open" => op.answer = "url"
        /\ op'.stage = "resolve" => op.answer = "refused" /\ op.mode = "buy"
        /\ op'.stage = "again" => j.billing.attempt # 0
    BY <1>1, <2>2, <2>4, AfterwardsFields
  <2>6. \A k \in Hand' : k = j
    BY <1>1, <2>1, <2>2, <2>5, HandAfter
  <2>7. Sound(op.copy) /\ op.copy \in Hand
    BY <1>1, CopySound
  <2>8. ASSUME NEW x \in Accounts, Vital(x)', x # op.account \/ op.answer \notin {"url", "named"}
        PROVE  Vital(x)
    <3>1. x \in begun \/ Shown(x)
      BY <1>1, <2>3, <2>4, <2>6, <2>7, <2>8 DEF Vital, Shown
    <3> QED BY <1>1, <2>8, <3>1 DEF Vital
  <2>9. ASSUME NEW x \in Accounts, Vital(x)' PROVE Lasting(j, x)
    <3>1. CASE x = op.account /\ op.answer \in {"url", "named"}
      BY <1>1, <2>3, <2>4, <3>1, ServerTypes DEF Lasting
    <3>2. CASE x # op.account \/ op.answer \notin {"url", "named"}
      <4>1. Lasting(op.copy, x)
        BY <2>7, <2>8, <2>9, <3>2 DEF Sound, Knows
      <4> QED BY <1>1, <2>3, <2>4, <3>2, <4>1 DEF Lasting
    <3> QED BY <3>1, <3>2
  <2>10. Single(j)
    BY <1>1, <2>3, <2>4, <2>7 DEF Sound, Single, Remembers, Marked
  <2>11. HandFits'
    <3>1. \A k \in Hand' : Knows(k)' /\ Single(k)'
      BY <1>1, <2>6, <2>9, <2>10 DEF Knows, Lasting, Single, Remembers, Marked
    <3>2. \A k, l \in Hand' : SameUrl(k, l)'
      BY <2>6 DEF SameUrl
    <3> QED BY <3>1, <3>2 DEF HandFits
  <2>12. TypeOK' /\ ServerFits'
    BY <1>1, <2>2, <2>4, <2>5 DEF TypeOK, Ops, ServerFits, Active
  <2>13. Lineage'
    BY <1>1, <2>1, <2>5 DEF Lineage, At, BetweenRequests
  <2>14. op'.stage = "resolve" => ~ Vital(op.account)'
    <3> SUFFICES ASSUME op'.stage = "resolve", Vital(op.account)' PROVE FALSE
      OBVIOUS
    <3>1. Vital(op.account)
      BY <1>1, <2>5, <2>8
    <3> QED BY <1>1, <2>5, <3>1 DEF OpFits, AnswerFits, NoneVital
  <2>15. OpFits'
    <3>1. op'.stage \in {"open", "exists", "again"} => Own'
      BY <1>1, <2>3, <2>4, <2>5 DEF Own
    <3> QED BY <1>1, <1>3, <2>3, <2>4, <2>5, <2>14, <3>1
        DEF OpFits, BarrierFits, PostFits, AnswerFits, At
  <2> QED BY <2>11, <2>12, <2>13, <2>15
<1> QED BY <1>2, <1>3

-----------------------------------------------------------------------------
(* The remaining steps of an operation.                                    *)
LEMMA OpensPageKeeps == ASSUME IndInv, OpensPage PROVE IndInv'
<1>1. /\ op.stage = "open" /\ Ends /\ begun' = begun \cup {op.account}
      /\ UNCHANGED <<identity, stored, rec, server, member, made, now>>
  BY DEF OpensPage, At, backend
<1>2. Own /\ op.copy.billing.url /\ op.account \in Accounts
  BY <1>1 DEF IndInv, OpFits, AnswerFits, At, Own
<1>3. Shown(op.account)
  BY <1>1, <1>2, CopySound DEF Shown, Own
<1> QED BY <1>1, <1>2, <1>3, EndsKeeps, Parts0 DEF IndInv

(* A proof that nothing may go through lets the payment be forgotten.      *)
LEMMA ResolvingKeeps ==
  ASSUME IndInv, ~ rec.on, op.stage \in {"exists", "membership"}, Own, ~ Vital(op.account),
         Goes("resolve", "none", op.account),
         UNCHANGED <<identity, stored, rec, server, member, begun, made, now>>
  PROVE  IndInv'
<1>1. op.account \in Accounts /\ "resolve" \in Stages /\ TypeOK
  BY DEF Own, Stages, IndInv
<1>2. op' \in Ops /\ op'.stage = "resolve" /\ op'.account = op.account /\ op'.copy = op.copy
  BY <1>1, GoesFields
<1>3. (\A a \in Accounts : Vital(a)' => Vital(a)) => OpFits'
  <2> SUFFICES ASSUME \A a \in Accounts : Vital(a)' => Vital(a) PROVE OpFits'
    OBVIOUS
  <2>1. ~ Vital(op.account)'
    BY <1>1, <1>2
  <2> QED BY <1>1, <1>2, <2>1 DEF OpFits, BarrierFits, PostFits, AnswerFits, At, Own
<1> QED BY <1>2, <1>3, GoesKeeps

LEMMA ReadsExistingKeeps == ASSUME IndInv, ReadsExisting PROVE IndInv'
<1>1. /\ op.stage = "exists" /\ ~ rec.on
      /\ UNCHANGED <<identity, stored, rec, server, member, begun, made, now>>
  BY DEF ReadsExisting, At, QueueFree, backend, world
<1>2. Own /\ op.account \in Accounts /\ (~ op.outdated => identity = op.account)
  BY <1>1 DEF IndInv, OpFits, AnswerFits, At, Own
<1>3. CASE Lost
  BY <1>1, <1>3, LostKeeps
<1>4. CASE ~ Lost
  <2>1. ~ op.outdated /\ Active(identity) /\ Goes("resolve", "none", op.account)
    BY <1>4 DEF ReadsExisting, Granted
  <2>2. ~ Vital(op.account)
    BY <1>2, <2>1, ActiveSettles
  <2> QED BY <1>1, <1>2, <2>1, <2>2, ResolvingKeeps
<1> QED BY <1>3, <1>4

LEMMA PollsAgainKeeps == ASSUME IndInv, PollsAgain PROVE IndInv'
<1>1. /\ op.stage = "again"
      /\ UNCHANGED <<identity, rec, server, member, begun, made, now>>
  BY DEF PollsAgain, At, backend, world
<1>2. /\ Own /\ op.account \in Accounts /\ op.copy.billing.attempt # 0
      /\ rec.on => identity = None
  BY <1>1 DEF IndInv, OpFits, AnswerFits, At, Own, Lineage, BetweenRequests
<1>3. CASE Ends /\ stored' = stored
  BY <1>1, <1>3, EndsKeeps, Parts0 DEF IndInv
<1>4. CASE Goes("poll", "none", op.account) /\ stored' = op.copy
  <2>1. "poll" \in Stages /\ TypeOK
    BY DEF Stages, IndInv
  <2>2. op' \in Ops /\ op'.stage = "poll" /\ op'.account = op.account /\ op'.copy = op.copy
    BY <1>2, <1>4, <2>1, GoesFields
  <2>3. OpFits'
    BY <1>2, <2>2 DEF OpFits, BarrierFits, PostFits, AnswerFits, At, Own
  <2> QED BY <1>1, <1>2, <1>4, <2>2, <2>3, GoesKeeps DEF BetweenRequests
<1> QED BY <1>3, <1>4 DEF PollsAgain

LEMMA PollFailsKeeps == ASSUME IndInv, PollFails PROVE IndInv'
<1>1. /\ op.stage = "poll" /\ ~ rec.on /\ Ends /\ (stored' = stored \/ stored' = op.copy)
      /\ UNCHANGED <<identity, rec, server, member, begun, made, now>>
  BY DEF PollFails, At, QueueFree, backend, world
<1>2. CASE stored' = stored
  BY <1>1, <1>2, EndsKeeps, Parts0 DEF IndInv
<1>3. CASE stored' = op.copy
  BY <1>1, <1>3, EndsWriting
<1> QED BY <1>1, <1>2, <1>3

LEMMA PollAnsweredKeeps == ASSUME IndInv, PollAnswered PROVE IndInv'
<1> USE DEF IndInv
<1> DEFINE b == op.copy.billing
<1> DEFINE a == op.account
<1> DEFINE state == StateOf(a, b.attempt)
<1>1. /\ op.stage = "poll" /\ ~ rec.on /\ ~ op.outdated /\ identity = a
      /\ UNCHANGED <<identity, stored, rec, server, member, begun, made, now>>
  BY DEF PollAnswered, At, Granted, QueueFree, backend, world
<1>2. Own /\ a \in Accounts /\ b.account = a /\ b.attempt # 0 /\ b \in Billings
  BY <1>1, Parts0, JourneyParts DEF OpFits, AnswerFits, At, Own
<1>3. Sound(op.copy) /\ From(op.copy) /\ op.copy \in Journeys
  BY <1>1, CopySound
<1>4. Vital(a) => b.attempt = server[a].attempt
  BY <1>2, <1>3 DEF Sound, Knows, Lasting
<1>5. CASE state = "ended"
  <2>1. op' = [op EXCEPT !.stage = "resolve"]
    BY <1>5 DEF PollAnswered
  <2>2. op' \in Ops /\ op'.stage = "resolve" /\ op'.account = a /\ op'.copy = op.copy
    BY <2>1, Parts0 DEF Ops, Stages
  <2>3. ~ Vital(a)
    BY <1>4, <1>5 DEF StateOf, Vital
  <2>4. (\A x \in Accounts : Vital(x)' => Vital(x)) => OpFits'
    <3> SUFFICES ASSUME \A x \in Accounts : Vital(x)' => Vital(x) PROVE OpFits'
      OBVIOUS
    <3>1. ~ Vital(op.account)'
      BY <1>2, <2>2, <2>3
    <3> QED BY <1>2, <2>2, <3>1 DEF OpFits, BarrierFits, PostFits, AnswerFits, At
  <2> QED BY <1>1, <2>2, <2>4, GoesKeeps
<1>6. CASE state # "ended"
  <2> DEFINE w == b.waiting /\ state = "open"
  <2> DEFINE seen == [b EXCEPT !.waiting = w, !.until = server[a].until]
  <2> DEFINE c == [op.copy EXCEPT !.billing = seen]
  <2>1. op' = [op EXCEPT !.stage = "membership", !.answer = state, !.copy.billing = seen]
    BY <1>6 DEF PollAnswered
  <2>2. b.attempt = server[a].attempt /\ state = server[a].state /\ state \in Answers
    BY <1>2, <1>6, ServerTypes DEF StateOf, Answers
  <2>3. w \in BOOLEAN
    OBVIOUS
  <2> HIDE DEF w
  <2>4. /\ seen \in Billings /\ seen.account = a /\ seen.attempt = b.attempt
        /\ seen.until = server[a].until /\ seen.url = b.url
    BY <1>2, <2>3, ServerTypes DEF Billings
  <2> HIDE DEF seen
  <2>5. c \in Journeys /\ c.billing = seen /\ c.marks = op.copy.marks
    BY <1>3, <2>4 DEF Journeys
  <2>6. op' = [op EXCEPT !.stage = "membership", !.answer = state, !.copy = c]
    BY <2>1, Parts0 DEF Ops
  <2> HIDE DEF c, state
  <2>7. /\ op' \in Ops /\ op'.stage = "membership" /\ op'.account = a /\ op'.copy = c
        /\ op'.answer = state
    BY <2>2, <2>5, <2>6, Parts0 DEF Ops, Stages
  <2>8. Sound(c) /\ From(c)
    <3>1. Single(c)
      BY <1>2, <1>3, <2>4, <2>5 DEF Sound, Single, Remembers, Marked
    <3>2. ASSUME NEW x \in Accounts, Vital(x) PROVE Lasting(c, x)
      <4>1. Lasting(op.copy, x)
        BY <1>3, <3>2 DEF Sound, Knows
      <4>2. CASE x = a
        BY <1>2, <2>2, <2>4, <2>5, <4>2, ServerTypes DEF Lasting
      <4>3. CASE x # a
        BY <1>2, <2>4, <2>5, <4>1, <4>3 DEF Lasting
      <4> QED BY <4>2, <4>3
    <3> QED BY <1>2, <1>3, <2>4, <2>5, <3>1, <3>2 DEF Sound, Knows, From
  <2>9. TypeOK' /\ HandFits' /\ ServerFits'
    BY <1>1, <2>7, <2>8, StoredSound, StepKeeps, Parts0
  <2>10. Lineage'
    BY <1>1, <2>7 DEF Lineage, At, BetweenRequests
  <2>11. OpFits'
    BY <1>1, <1>2, <2>2, <2>4, <2>5, <2>7
    DEF OpFits, BarrierFits, PostFits, AnswerFits, At, Own
  <2> QED BY <2>9, <2>10, <2>11
<1> QED BY <1>5, <1>6

LEMMA MembershipFailsKeeps == ASSUME IndInv, MembershipFails PROVE IndInv'
<1>1. /\ op.stage = "membership" /\ ~ rec.on /\ Ends /\ stored' = op.copy
      /\ UNCHANGED <<identity, rec, server, member, begun, made, now>>
  BY DEF MembershipFails, At, QueueFree, backend, world
<1> QED BY <1>1, EndsWriting

LEMMA ReadsMembershipKeeps == ASSUME IndInv, ReadsMembership PROVE IndInv'
<1>1. /\ op.stage = "membership" /\ ~ rec.on /\ ~ op.outdated
      /\ UNCHANGED <<identity, rec, server, member, begun, made, now>>
  BY DEF ReadsMembership, At, Granted, QueueFree, backend, world
<1>2. /\ Own /\ op.account \in Accounts /\ identity = op.account
      /\ op.answer = "active" => server[op.account].state = "active"
  BY <1>1 DEF IndInv, OpFits, AnswerFits, At, Own
<1>3. CASE Proves
  <2>1. ~ Vital(op.account)
    BY <1>2, <1>3, ActiveSettles DEF Proves
  <2> QED BY <1>1, <1>2, <1>3, <2>1, ResolvingKeeps DEF ReadsMembership
<1>4. CASE ~ Proves
  BY <1>1, <1>4, EndsWriting DEF ReadsMembership
<1> QED BY <1>3, <1>4

LEMMA ResolvesKeeps == ASSUME IndInv, Resolves PROVE IndInv'
<1>1. /\ op.stage = "resolve" /\ Ends /\ stored' = Resolved(op.copy, op.account)
      /\ UNCHANGED <<identity, rec, server, member, begun, made, now>>
  BY DEF Resolves, At, backend, world
<1>2. /\ op.account \in Accounts /\ op.copy.billing.account \in {None, op.account}
      /\ ~ Vital(op.account) /\ (rec.on => identity = None)
  BY <1>1 DEF IndInv, OpFits, AnswerFits, Lineage, BetweenRequests, At
<1>3. op.copy \in Hand /\ op.copy \in Journeys /\ TypeOK /\ HandFits
  BY <1>1, CopySound DEF IndInv
<1>4. Sound(stored') /\ From(stored') /\ stored' \in Journeys
  <2>1. Sound(Resolved(op.copy, op.account)) /\ From(Resolved(op.copy, op.account))
    BY <1>2, <1>3, ResolvedSound
  <2> QED BY <1>1, <1>3, <2>1, ResolvedType
<1>5. op' \in Ops /\ op'.stage = "idle"
  BY <1>1, NoJourneyType DEF Ends
<1> QED BY <1>1, <1>2, <1>4, <1>5, StepKeeps, Parts0 DEF IndInv

-----------------------------------------------------------------------------
(* The user, the server, time and a stop of the worker.                    *)
LEMMA ServerMoves ==
  ASSUME IndInv, UNCHANGED <<identity, stored, op, rec, begun, made, now>>, TypeOK',
         \A x \in Accounts :
           /\ server'[x].until = server[x].until /\ server'[x].attempt = server[x].attempt
           /\ server'[x].state \in {"open", "paid"} => server[x].state \in {"open", "paid"}
           /\ server[x].state = "active" => server'[x].state = "active"
           /\ member'[x] = "active" => server'[x].state = "active"
  PROVE  IndInv'
<1> USE DEF IndInv
<1>1. Hand' = Hand
  BY DEF Hand, Busy
<1>2. \A x \in Accounts : Vital(x)' => Vital(x)
  BY <1>1 DEF Vital, Shown
<1>3. HandFits'
  <2>1. \A k \in Hand : Knows(k)'
    BY <1>2 DEF HandFits, Knows, Lasting
  <2> QED BY <1>1, <2>1 DEF HandFits, Single, Remembers, Marked, SameUrl
<1>4. ServerFits'
  BY DEF ServerFits, Active
<1>5. Lineage'
  BY DEF Lineage, At, BetweenRequests
<1>6. NoneVital => NoneVital'
  BY <1>2 DEF NoneVital
<1>7. BarrierFits' /\ PostFits'
  BY <1>6 DEF OpFits, BarrierFits, PostFits, At, Own, Marked
<1>8. AnswerFits'
  <2>1. At("resolve") => ~ Vital(op.account)'
    BY <1>2 DEF OpFits, AnswerFits
  <2> QED BY <1>6, <2>1 DEF OpFits, AnswerFits, At, Own
<1> QED BY <1>3, <1>4, <1>5, <1>7, <1>8 DEF OpFits

(* One account's attempt changes its state, or its membership ends.        *)
LEMMA OneMoves ==
  ASSUME IndInv, NEW a \in Accounts, NEW state \in {"paid", "active", "ended"},
         NEW standing \in {"none", "active", "ended"},
         UNCHANGED <<identity, stored, op, rec, begun, made, now>>,
         server' = [server EXCEPT ![a].state = state],
         member' = [member EXCEPT ![a] = standing],
         server[a].state \in {"open", "paid"} \/ state = server[a].state,
         state = "paid" => server[a].state = "open" \/ state = server[a].state,
         standing = "active" => state = "active"
  PROVE  IndInv'
<1> USE DEF IndInv
<1>1. TypeOK'
  BY DEF TypeOK
<1>2. ASSUME NEW x \in Accounts
      PROVE  /\ server'[x].until = server[x].until /\ server'[x].attempt = server[x].attempt
             /\ server'[x].state = IF x = a THEN state ELSE server[x].state
             /\ member'[x] = IF x = a THEN standing ELSE member[x]
  BY DEF TypeOK
<1>3. \A x \in Accounts : member[x] = "active" => server[x].state = "active"
  BY DEF ServerFits, Active
<1> QED BY <1>1, <1>2, <1>3, ServerMoves

LEMMA BackendKeeps == ASSUME IndInv, Backend PROVE IndInv'
<1> USE DEF IndInv
<1>1. PICK a \in Accounts : Pays(a) \/ Settles(a) \/ Expires(a) \/ MembershipEnds(a)
  BY DEF Backend
<1>2. UNCHANGED <<identity, stored, op, rec, begun, made, now>>
  BY DEF Backend, world
<1>3. /\ member[a] \in {"none", "active", "ended"}
      /\ member[a] = "active" => server[a].state = "active"
      /\ member' = member => member' = [member EXCEPT ![a] = member[a]]
      /\ server' = server => server' = [server EXCEPT ![a].state = server[a].state]
  BY DEF ServerFits, Active, TypeOK
<1>4. CASE Pays(a)
  BY <1>2, <1>3, <1>4, OneMoves DEF Pays, Open
<1>5. CASE Settles(a)
  BY <1>2, <1>3, <1>5, OneMoves DEF Settles, Ending
<1>6. CASE Expires(a)
  BY <1>2, <1>3, <1>6, OneMoves DEF Expires, Ending
<1>7. CASE MembershipEnds(a)
  <2>1. server' = [server EXCEPT ![a].state = "active"]
    BY <1>3, <1>7 DEF MembershipEnds, Active
  <2> QED BY <1>2, <1>3, <1>7, <2>1, OneMoves DEF MembershipEnds, Active
<1> QED BY <1>1, <1>4, <1>5, <1>6, <1>7

LEMMA TickKeeps == ASSUME IndInv, Tick PROVE IndInv'
<1> USE DEF IndInv
<1>1. /\ op.stage = "idle" /\ now < MaxNow /\ now' = now + 1
      /\ UNCHANGED <<identity, stored, op, rec, server, member, begun, made>>
  BY DEF Tick, At, backend
<1>2. TypeOK'
  BY <1>1, Facts DEF TypeOK
<1>3. Hand' = Hand
  BY <1>1 DEF Hand, Busy
<1>4. \A x \in Accounts : Vital(x)' => Vital(x)
  BY <1>1, <1>3, ServerTypes DEF Vital, Shown
<1>5. HandFits'
  <2>1. \A k \in Hand : Knows(k)'
    BY <1>1, <1>4 DEF HandFits, Knows, Lasting
  <2> QED BY <1>3, <2>1 DEF HandFits, Single, Remembers, Marked, SameUrl
<1>6. ServerFits'
  BY <1>1, ServerTypes DEF ServerFits, Active
<1>7. Lineage' /\ OpFits'
  BY <1>1 DEF Lineage, OpFits, BarrierFits, PostFits, AnswerFits, At, BetweenRequests
<1> QED BY <1>2, <1>5, <1>6, <1>7

LEMMA StopKeeps == ASSUME IndInv, Stop PROVE IndInv'
<1> USE DEF IndInv
<1>1. /\ op' = Idle /\ rec' = NoRec /\ op' \in Ops /\ op'.stage = "idle" /\ rec'.on = FALSE
      /\ rec' \in [on : BOOLEAN, copy : Journeys]
      /\ UNCHANGED <<identity, stored, server, member, begun, made, now>>
  BY NoJourneyType DEF Stop, NoRec, backend, world
<1>2. TypeOK'
  BY <1>1 DEF TypeOK, Ops
<1>3. \A k \in Hand' : Sound(k) /\ From(k)
  BY <1>1, HandAfter, StoredSound
<1>4. HandFits'
  BY <1>1, <1>3, Steady
<1>5. ServerFits'
  BY <1>1 DEF ServerFits, Active
<1>6. Lineage' /\ OpFits'
  BY <1>1 DEF Lineage, OpFits, BarrierFits, PostFits, AnswerFits, At, BetweenRequests
<1> QED BY <1>2, <1>4, <1>5, <1>6

LEMMA StutterKeeps == ASSUME IndInv, UNCHANGED vars PROVE IndInv'
<1>1. UNCHANGED <<identity, stored, op, rec, begun, made, now>> /\ UNCHANGED <<server, member>>
  BY DEF vars
<1>2. TypeOK'
  BY <1>1 DEF IndInv, TypeOK
<1>3. \A x \in Accounts : member[x] = "active" => server[x].state = "active"
  BY DEF IndInv, ServerFits, Active
<1> QED BY <1>1, <1>2, <1>3, ServerMoves

-----------------------------------------------------------------------------
LEMMA InitFits == ASSUME Init PROVE IndInv
<1>1. /\ Hand = {NoJourney} /\ op.stage = "idle" /\ rec.on = FALSE
  BY NoJourneyType DEF Init, Hand, Busy, NoRec
<1>2. TypeOK
  <2>1. rec \in [on : BOOLEAN, copy : Journeys] /\ op \in Ops /\ stored \in Journeys
    BY NoJourneyType DEF Init, NoRec
  <2>2. server \in [Accounts -> [attempt : 0 .. MaxAttempts, until : Times,
                              state : {"none", "open", "paid", "active", "ended"}]]
    BY Facts DEF Init
  <2> QED BY <2>1, <2>2, Facts DEF Init, TypeOK, Ops
<1>3. \A a \in Accounts : ~ Vital(a)
  BY DEF Init, Vital
<1>4. HandFits
  <2>1. Knows(NoJourney) /\ SameUrl(NoJourney, NoJourney)
    BY <1>3 DEF Knows, SameUrl
  <2>2. Single(NoJourney)
    BY NoJourneyType, Facts DEF Single, Remembers, Marked
  <2> QED BY <1>1, <2>1, <2>2 DEF HandFits
<1>5. ServerFits
  BY DEF Init, ServerFits, Active
<1>6. Lineage /\ OpFits
  BY <1>1 DEF Lineage, OpFits, BarrierFits, PostFits, AnswerFits, At, BetweenRequests
<1> QED BY <1>2, <1>4, <1>5, <1>6 DEF IndInv

LEMMA NextKeeps == ASSUME IndInv, [Next]_vars PROVE IndInv'
<1>1. CASE GoesOn
  BY <1>1, ReconcilesKeeps, ReadsValueKeeps, DecidesKeeps, EnrollsKeeps, WritesBarrierKeeps,
     PostsKeeps, AnsweredKeeps, OpensPageKeeps, ReadsExistingKeeps, PollsAgainKeeps,
     PollFailsKeeps, PollAnsweredKeeps, MembershipFailsKeeps, ReadsMembershipKeeps,
     ResolvesKeeps
  DEF GoesOn
<1>2. CASE ~ GoesOn
  BY <1>2, SignOutKeeps, ReconcileWritesKeeps, SignInKeeps, RestoreKeeps, BeginKeeps,
     BackendKeeps, TickKeeps, StopKeeps, StutterKeeps
  DEF Next
<1> QED BY <1>1, <1>2

LEMMA Inductive == Spec => []IndInv
BY InitFits, NextKeeps, PTL DEF Spec

(* Each variable keeps its type.                                           *)
THEOREM TypeCorrect == Spec => []TypeOK
<1>1. IndInv => TypeOK
  BY DEF IndInv
<1> QED BY <1>1, Inductive, PTL

(* A payment the user may still make, or has made, is never forgotten: not *)
(* by an operation that writes its copy over an identity change, not by    *)
(* the reconciliation that writes its copy over an operation, and not by a *)
(* worker that stops between two writes.                                   *)
THEOREM PaymentsKept == Spec => []PaymentsRemembered
<1>1. ASSUME IndInv, NEW a \in Accounts, Pending(a) PROVE Remembers(stored, a)
  <2>1. Vital(a) /\ Knows(stored)
    BY <1>1, StoredSound DEF Pending, Vital, Sound
  <2>2. Lasting(stored, a)
    BY <2>1 DEF Knows
  <2> QED BY <2>2 DEF Lasting, Remembers, Marked
<1>2. IndInv => PaymentsRemembered
  BY <1>1 DEF PaymentsRemembered
<1> QED BY <1>2, Inductive, PTL

(* The user is never brought to pay a second time, with another account,   *)
(* while a first payment may go through.                                   *)
THEOREM OnlyOnePayment == Spec => []OnePayment
<1>1. ASSUME IndInv, NEW a \in Accounts, Pending(a) PROVE Remembers(stored, a)
  <2>1. Vital(a) /\ Knows(stored)
    BY <1>1, StoredSound DEF Pending, Vital, Sound
  <2>2. Lasting(stored, a)
    BY <2>1 DEF Knows
  <2> QED BY <2>2 DEF Lasting, Remembers, Marked
<1>2. IndInv => Single(stored)
  BY StoredSound DEF Sound
<1>3. IndInv => OnePayment
  BY <1>1, <1>2 DEF OnePayment, Single
<1> QED BY <1>3, Inductive, PTL
=============================================================================
