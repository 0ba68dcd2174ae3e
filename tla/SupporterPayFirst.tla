------------------------- MODULE SupporterPayFirst -------------------------
(***************************************************************************)
(* Paying for Supporter from the extension: the worker's                   *)
(* SupporterPayFirstCoordinator and its private journey record.            *)
(*                                                                         *)
(* Operations run one at a time, each on a copy of the journey it read at  *)
(* its start and writes back whole.  A change of the account's identity    *)
(* rewrites the journey beside them, while it holds the account's queue:   *)
(* until it is done no operation gets a request through.  A request and    *)
(* its answer are one step, and time is counted in lifetimes of a payment  *)
(* page; an operation is short against one.                                *)
(***************************************************************************)
EXTENDS Naturals, FiniteSets

CONSTANTS
  Accounts,     \* the accounts of one user
  None,         \* no account
  MaxNow,       \* bound: lifetimes that pass
  MaxAttempts   \* bound: attempts to pay that are made

ASSUME SupporterPayFirstAssumption ==
  None \notin Accounts /\ {MaxNow, MaxAttempts} \subseteq Nat

VARIABLES
  identity,  \* the account this browser is connected to
  stored,    \* the journey in IndexedDB
  op,        \* the operation at work
  rec,       \* reconcileIdentity, called by a change of the identity
  server,    \* the last attempt of each account to pay
  member,    \* the membership of each account
  begun,     \* accounts whose last attempt a purchase made, or is in a tab
  made,      \* how many attempts the server made
  now

vars == <<identity, stored, op, rec, server, member, begun, made, now>>
backend == <<server, member>>
world == <<begun, made, now>>

NoBilling == [account |-> None, until |-> 0, attempt |-> 0, url |-> FALSE,
              waiting |-> FALSE]
NoJourney == [billing |-> NoBilling, marks |-> {}]

Idle == [stage |-> "idle", action |-> "status", mode |-> "none",
         account |-> None, copy |-> NoJourney, answer |-> "none",
         outdated |-> FALSE]
NoRec == [on |-> FALSE, copy |-> NoJourney]

At(stage) == op.stage = stage
Ends == op' = Idle

(* Requests, and reads of the identity that may renew it, wait their turn  *)
(* in the account's queue; one that an identity change overtook brings     *)
(* nothing.                                                                *)
QueueFree == ~ rec.on
Queued == {"decide", "post", "exists", "poll", "membership"}
Granted == QueueFree /\ ~ op.outdated
MutantAnswersAnyway == op
Overtaken == [op EXCEPT !.outdated = op.stage \in Queued]

(* read(): what outlived its deadline is dropped. *)
Read == [stored EXCEPT !.marks = {m \in @ : m.until > now}]

(* The payment of an account that is left is only marked as unresolved. *)
Reconciled(journey) ==
  LET b == journey.billing IN
  IF b.account \in {None, identity} THEN journey
  ELSE [billing |-> NoBilling,
        marks |-> {m \in journey.marks : m.account # b.account}
                    \cup {[account |-> b.account, until |-> b.until]}]

Marked(journey, a) == \E m \in journey.marks : m.account = a

Resolved(journey, a) ==
  [billing |-> NoBilling, marks |-> {m \in journey.marks : m.account # a}]

-----------------------------------------------------------------------------
(* The identity changes: signed out, signed in, or another account of the  *)
(* user restored, by an operation of the same queue.  A sign-in takes      *)
(* longer than an operation's own steps between two requests.              *)

IdentityChanges(a) ==
  /\ QueueFree /\ identity' = a
  /\ rec' = [on |-> TRUE, copy |-> Read]

BetweenRequests == op.stage \in {"barrier", "answered", "open", "again", "resolve"}

SignOut ==
  /\ identity # None /\ IdentityChanges(None) /\ op' = Overtaken
  /\ UNCHANGED <<stored, backend, world>>
SignIn(a) ==
  /\ identity = None /\ ~ BetweenRequests
  /\ IdentityChanges(a) /\ op' = Overtaken
  /\ UNCHANGED <<stored, backend, world>>
Restore(a) ==
  /\ identity \notin {None, a} /\ At("idle") /\ IdentityChanges(a)
  /\ UNCHANGED <<stored, op, backend, world>>

(* reconcileIdentity writes the whole journey back, as it read it. *)
ReconcileWrites ==
  /\ rec.on /\ rec' = NoRec /\ stored' = Reconciled(rec.copy)
  /\ UNCHANGED <<identity, op, backend, world>>

-----------------------------------------------------------------------------
(* An operation begins with a reconciliation of its own. *)

Begin(action) ==
  /\ At("idle")
  /\ op' = [Idle EXCEPT !.stage = "look", !.action = action, !.copy = Read]
  /\ UNCHANGED <<identity, stored, rec, backend, world>>

Reconciles ==
  /\ At("look") \/ At("part")
  /\ stored' = Reconciled(op.copy)
  /\ op' = IF At("part") THEN Idle
           ELSE [Idle EXCEPT !.stage = "value", !.action = op.action]
  /\ UNCHANGED <<identity, rec, backend, world>>

ReadsValue ==
  /\ At("value") /\ op' = [op EXCEPT !.stage = "decide", !.copy = Read]
  /\ UNCHANGED <<identity, stored, rec, backend, world>>

Goes(stage, mode, a) ==
  op' = [Idle EXCEPT !.stage = stage, !.mode = mode, !.account = a,
                     !.copy = op.copy]
Parts == op' = [Idle EXCEPT !.stage = "part", !.copy = Read]

Active(a) == member[a] = "active"

(* A payment is known: it is taken up, looked after or left.  An account   *)
(* that cannot be read now is taken for another.                           *)
Deciding == At("decide") /\ QueueFree
Known == Deciding /\ op.copy.billing.account # None
Ours == ~ op.outdated /\ op.copy.billing.account = identity
MayResume ==
  LET b == op.copy.billing IN
  op.action = "resume" /\ b.waiting /\ b.url /\ b.until > now

LeavesPayment == Known /\ Parts /\ UNCHANGED <<stored, begun>>

ResumesPayment ==
  /\ Known /\ Ours /\ MayResume
  /\ Ends /\ begun' = begun \cup {identity} /\ UNCHANGED stored

Poll(b) == IF b.attempt = 0 THEN "membership" ELSE "poll"
LooksAfterPayment ==
  LET b == op.copy.billing IN
  /\ Known /\ Ours /\ ~ MayResume
  /\ IF op.action = "check" /\ ~ b.url
     THEN Goes("post", "recover", identity) /\ UNCHANGED stored
     ELSE \/ Ends /\ UNCHANGED stored
          \/ /\ op.action = "check" \/ b.until > now
             /\ Goes(Poll(b), "none", identity) /\ stored' = op.copy
  /\ UNCHANGED begun

(* None is known, but one of an account left earlier may be unresolved. *)
Unresolved == Deciding /\ op.copy.billing.account = None /\ op.copy.marks # {}

DecidesUnresolved ==
  /\ Unresolved
  /\ \/ Ends
     \/ /\ Granted /\ op.action # "resume" /\ identity # None
        /\ Marked(op.copy, identity)
        /\ \/ Active(identity) /\ Goes("resolve", "none", identity)
           \/ /\ ~ Active(identity) /\ op.action = "check"
              /\ Goes("barrier", "reclaim", identity)
  /\ UNCHANGED <<stored, begun>>

(* Nothing stands against a new payment but the membership and the sale;   *)
(* without an account, an installation is enrolled first.                  *)
MutantBuysBesideUnresolved == Deciding /\ op.copy.billing.account = None
Unburdened ==
  Deciding /\ op.copy.billing.account = None /\ op.copy.marks = {}

DecidesNew ==
  /\ Unburdened
  /\ \/ Ends
     \/ /\ Granted /\ op.action = "checkout"
        /\ identity # None /\ ~ Active(identity)
        /\ Goes("barrier", "buy", identity)
  /\ UNCHANGED <<stored, begun>>

Decides ==
  /\ \/ LeavesPayment \/ ResumesPayment \/ LooksAfterPayment
     \/ DecidesUnresolved \/ DecidesNew
  /\ UNCHANGED <<identity, rec, backend, made, now>>

Enrolls ==
  /\ Unburdened /\ Granted /\ op.action = "checkout" /\ identity = None
  /\ \E a \in Accounts :
       server[a].attempt = 0 /\ member[a] = "none" /\ IdentityChanges(a)
  /\ UNCHANGED <<stored, op, backend, world>>

-----------------------------------------------------------------------------
(* createOrRecoverCheckout: the barrier is written before the request, and *)
(* the page is opened last.                                                *)

MutantBarrierOutlives ==
  LET b == [NoBilling EXCEPT !.account = op.account, !.until = now + 2] IN
  /\ At("barrier")
  /\ stored' = [op.copy EXCEPT !.billing = b]
  /\ op' = [op EXCEPT !.stage = "post", !.copy = stored']
  /\ UNCHANGED <<identity, rec, backend, world>>
WritesBarrier ==
  LET b == [NoBilling EXCEPT !.account = op.account, !.until = now + 1] IN
  /\ At("barrier")
  /\ stored' = [op.copy EXCEPT !.billing = b]
  /\ op' = [op EXCEPT !.stage = "post", !.copy = stored']
  /\ UNCHANGED <<identity, rec, backend, world>>

(* The server keeps one attempt of an account: it is answered again while  *)
(* it may be paid.                                                         *)
Open(a) == server[a].state = "open" /\ server[a].until > now
MayCreate(a) ==
  ~ Open(a) /\ server[a].state # "paid" /\ made < MaxAttempts
Created(a) ==
  [server EXCEPT ![a] = [attempt |-> made + 1, state |-> "open",
                         until |-> now + 1]]

(* A recovery that tells nothing ends with a look at the attempt known.    *)
Confirming(journey) ==
  IF op.mode = "recover" /\ journey.billing.attempt # 0
  THEN [Idle EXCEPT !.stage = "again", !.account = op.account, !.copy = journey]
  ELSE Idle

Lost == op' = Confirming(op.copy)
Answer(kind) == Lost \/ op' = [op EXCEPT !.stage = "answered", !.answer = kind]

Posts ==
  LET a == op.account IN
  /\ At("post") /\ QueueFree
  /\ \/ Lost /\ UNCHANGED <<server, begun, made>>
     \/ /\ Granted /\ identity = a /\ ~ Active(a) /\ MayCreate(a)
        /\ Answer("url") /\ server' = Created(a) /\ made' = made + 1
        /\ begun' = IF op.mode = "buy" THEN begun \cup {a} ELSE begun \ {a}
     \/ /\ Granted /\ identity = a /\ UNCHANGED <<server, begun, made>>
        /\ \/ Active(a) /\ Answer("exists")
           \/ ~ Active(a) /\ Open(a) /\ Answer("url")
           \/ ~ Active(a) /\ server[a].state \in {"paid", "ended"} /\ Answer("named")
           \/ Answer("refused") \/ Answer("unclear")
  /\ UNCHANGED <<identity, stored, rec, member, now>>

(* What is kept of an answer that names the attempt. *)
Noted(b) ==
  IF op.answer \in {"url", "named"}
  THEN [b EXCEPT !.attempt = server[op.account].attempt,
                 !.until = server[op.account].until,
                 !.url = @ \/ op.answer = "url",
                 !.waiting = @ \/ op.answer = "url"]
  ELSE b

(* A refusal proves nothing of an attempt made before: only for a payment  *)
(* just begun does it lift the barrier.                                    *)
Afterwards(journey) ==
  LET goes(stage) == [op EXCEPT !.stage = stage, !.copy = journey] IN
  CASE op.answer = "url" -> IF op.mode = "buy" THEN goes("open") ELSE Idle
    [] op.answer = "exists" -> goes("exists")
    [] op.answer = "refused" /\ op.mode = "buy" -> goes("resolve")
    [] OTHER -> Confirming(journey)

Answered ==
  /\ At("answered")
  /\ IF identity # op.account THEN Parts /\ UNCHANGED stored
     ELSE /\ stored' = [op.copy EXCEPT !.billing = Noted(@)]
          /\ op' = Afterwards(stored')
  /\ UNCHANGED <<identity, rec, backend, world>>

OpensPage ==
  /\ At("open") /\ Ends
  /\ begun' = begun \cup {op.account}
  /\ UNCHANGED <<identity, stored, rec, backend, made, now>>

(* subscription_exists: the membership itself is to say so. *)
ReadsExisting ==
  /\ At("exists") /\ QueueFree
  /\ \/ Lost
     \/ /\ Granted /\ identity # None /\ Active(identity)
        /\ Goes("resolve", "none", op.account)
  /\ UNCHANGED <<identity, stored, rec, backend, world>>

-----------------------------------------------------------------------------
(* pollBilling: the attempt, if one is known, then the membership.         *)

(* An attempt that was followed by another ended. *)
StateOf(a, n) == IF n = server[a].attempt THEN server[a].state ELSE "ended"

PollsAgain ==
  /\ At("again")
  /\ \/ Ends /\ UNCHANGED stored
     \/ Goes("poll", "none", op.account) /\ stored' = op.copy
  /\ UNCHANGED <<identity, rec, backend, world>>

(* Asked to come back later, the operation keeps that in the journey. *)
PollFails ==
  /\ At("poll") /\ QueueFree /\ Ends
  /\ \/ UNCHANGED stored
     \/ Granted /\ identity = op.account /\ stored' = op.copy
  /\ UNCHANGED <<identity, rec, backend, world>>

(* An attempt that ended unpaid is resolved.  So is one under review, and  *)
(* a payment of a membership under review (supporterPayFirst.ts:356, 364): *)
(* the backend decides of those, and they are left out.                    *)
PollAnswered ==
  LET b == op.copy.billing
      state == StateOf(op.account, b.attempt)
      seen == [b EXCEPT !.waiting = @ /\ state = "open",
                        !.until = server[op.account].until]
  IN
  /\ At("poll") /\ Granted /\ identity = op.account
  /\ op' = IF state = "ended" THEN [op EXCEPT !.stage = "resolve"]
           ELSE [op EXCEPT !.stage = "membership", !.answer = state,
                           !.copy.billing = seen]
  /\ UNCHANGED <<identity, stored, rec, backend, world>>

(* A membership that is there, or one that ended after this very attempt   *)
(* was paid, is a proof.                                                   *)
Proves ==
  /\ identity # None
  /\ \/ Active(identity)
     \/ op.answer = "active" /\ member[identity] = "ended" /\ identity = op.account

MembershipFails ==
  /\ At("membership") /\ QueueFree /\ Ends /\ stored' = op.copy
  /\ UNCHANGED <<identity, rec, backend, world>>
ReadsMembership ==
  /\ At("membership") /\ Granted
  /\ IF Proves THEN Goes("resolve", "none", op.account) /\ UNCHANGED stored
     ELSE Ends /\ stored' = op.copy
  /\ UNCHANGED <<identity, rec, backend, world>>

Resolves ==
  /\ At("resolve") /\ Ends
  /\ stored' = Resolved(op.copy, op.account)
  /\ UNCHANGED <<identity, rec, backend, world>>

-----------------------------------------------------------------------------
(* The user pays; the payment is settled, or ends. *)

Ending(a) == [server EXCEPT ![a].state = "ended"]
Pays(a) ==
  /\ a \in begun /\ Open(a)
  /\ server' = [server EXCEPT ![a].state = "paid"] /\ UNCHANGED member
Settles(a) ==
  /\ server[a].state = "paid"
  /\ \/ /\ server' = [server EXCEPT ![a].state = "active"]
        /\ member' = [member EXCEPT ![a] = "active"]
     \/ server' = Ending(a) /\ UNCHANGED member
Expires(a) ==
  server[a].state = "open" /\ server' = Ending(a) /\ UNCHANGED member
MembershipEnds(a) ==
  Active(a) /\ member' = [member EXCEPT ![a] = "ended"] /\ UNCHANGED server

Backend ==
  /\ \E a \in Accounts : Pays(a) \/ Settles(a) \/ Expires(a) \/ MembershipEnds(a)
  /\ UNCHANGED <<identity, stored, op, rec, world>>

Tick ==
  /\ At("idle") /\ now < MaxNow /\ now' = now + 1
  /\ UNCHANGED <<identity, stored, op, rec, backend, begun, made>>

Stop ==
  /\ op' = Idle /\ rec' = NoRec
  /\ UNCHANGED <<identity, stored, backend, world>>

-----------------------------------------------------------------------------
Actions == {"status", "check", "checkout", "resume"}

Init ==
  /\ identity = None /\ stored = NoJourney /\ op = Idle /\ rec = NoRec
  /\ server = [a \in Accounts |-> [attempt |-> 0, state |-> "none", until |-> 0]]
  /\ member = [a \in Accounts |-> "none"]
  /\ begun = {} /\ made = 0 /\ now = 0

GoesOn ==
  \/ Reconciles \/ ReadsValue \/ Decides \/ Enrolls \/ WritesBarrier
  \/ Posts \/ Answered \/ OpensPage \/ ReadsExisting
  \/ PollsAgain \/ PollFails \/ PollAnswered \/ MembershipFails \/ ReadsMembership \/ Resolves

Next ==
  \/ SignOut \/ ReconcileWrites
  \/ \E a \in Accounts : SignIn(a) \/ Restore(a)
  \/ \E action \in Actions : Begin(action)
  \/ GoesOn \/ Backend \/ Tick \/ Stop

Spec == Init /\ [][Next]_vars

-----------------------------------------------------------------------------
Times == 0 .. MaxNow + 1
Billings == [account : Accounts \cup {None}, until : Times,
             attempt : 0 .. MaxAttempts, url : BOOLEAN, waiting : BOOLEAN]
Journeys == [billing : Billings, marks : SUBSET [account : Accounts, until : Times]]
Stages == {"idle", "look", "part", "value", "decide", "barrier", "post",
           "answered", "open", "exists", "again", "poll", "membership",
           "resolve"}
Answers == {"none", "url", "named", "exists", "refused", "unclear",
            "open", "paid", "active"}

(* Each variable has its type. *)
TypeOK ==
  /\ identity \in Accounts \cup {None} /\ stored \in Journeys
  /\ op \in [stage : Stages, action : Actions,
             mode : {"none", "buy", "recover", "reclaim"},
             account : Accounts \cup {None}, copy : Journeys, answer : Answers,
             outdated : BOOLEAN]
  /\ rec \in [on : BOOLEAN, copy : Journeys]
  /\ server \in [Accounts -> [attempt : 0 .. MaxAttempts, until : Times,
                              state : {"none", "open", "paid", "active", "ended"}]]
  /\ member \in [Accounts -> {"none", "active", "ended"}]
  /\ begun \subseteq Accounts /\ made \in 0 .. MaxAttempts /\ now \in 0 .. MaxNow

(* A payment the user began, or has the page of, may still be made, or was *)
(* and is not settled.                                                     *)
Pending(a) ==
  a \in begun /\ server[a].state \in {"open", "paid"} /\ server[a].until > now
Remembers(journey, a) == journey.billing.account = a \/ Marked(journey, a)

(* A payment the user may still make, or has made, is never forgotten,     *)
(* whatever the operation and the changes of identity wrote over one       *)
(* another, and wherever the worker was stopped.                           *)
PaymentsRemembered == \A a \in Accounts : Pending(a) => Remembers(stored, a)

(* The user is never brought to pay a second time, with another account,   *)
(* while a first payment may go through.                                   *)
OnePayment == \A a, b \in Accounts : Pending(a) /\ Pending(b) => a = b
=============================================================================
