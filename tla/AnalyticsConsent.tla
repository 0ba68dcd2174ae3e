-------------------------- MODULE AnalyticsConsent --------------------------
(***************************************************************************)
(* Consent to product analytics: the worker's changes of it, one at a time *)
(* behind a promise chain, the tickets a grant needs, Firefox's own        *)
(* permission, and the events sent under it.                               *)
(*                                                                         *)
(* A withdrawal denies in the worker's memory before anything else, and    *)
(* outdates whatever is under way (the code's generation, and the abort of *)
(* pending events); storage follows.  Storage may fail, and the worker may *)
(* be stopped between any two awaits.                                      *)
(*                                                                         *)
(* The model stands for a build with EXTENSION_ANALYTICS_INGEST_ENABLED.   *)
(***************************************************************************)
EXTENDS Naturals, Sequences, FiniteSets

CONSTANTS
  Emissions,    \* events that may be under way at one time
  MaxTickets,   \* MAX_PENDING_GRANT_TICKETS
  MaxIssued,    \* tickets ever issued (a bound)
  MaxWaiting    \* changes waiting at one time (a bound)

ASSUME AnalyticsConsentAssumption ==
  MaxTickets \in Nat \ {0, 1} /\ MaxIssued \in Nat /\ MaxWaiting \in Nat

VARIABLES
  memory,     \* memoryDenial
  granted,    \* local storage holds a grant
  tickets,    \* the grant tickets in session storage
  platform,   \* Firefox's permission
  removed,    \* its removal is still to be told to the worker
  change,     \* the change under way
  waiting,    \* the changes chained behind it
  events,     \* the events under way
  held,       \* the tickets a settings page was given
  issued,     \* how many tickets were issued
  dead        \* tickets that have granted, or are older than a withdrawal
              \* that was acknowledged

vars == <<memory, granted, tickets, platform, removed, change, waiting, events,
          held, issued, dead>>
storage == <<granted, tickets>>
firefox == <<platform, removed>>
pages == <<held, issued>>

Task(kind, ticket) == [kind |-> kind, ticket |-> ticket, stale |-> FALSE]
At(stage, task) == [stage |-> stage, task |-> task, failed |-> FALSE]
Idle == At("idle", Task("withdraw", 0))
Silent == [stage |-> "none", stale |-> FALSE]

Outdated(ts) == [i \in DOMAIN ts |-> [ts[i] EXCEPT !.stale = TRUE]]

(* denyAnalyticsConsentInMemory, but for the changes it outdates too: the  *)
(* events under way are outdated, those being sent aborted.                *)
MutantDenyKeepsEvents == memory' = TRUE /\ UNCHANGED events
Deny ==
  /\ memory' = TRUE
  /\ events' = [e \in Emissions |->
                  [events[e] EXCEPT !.stale = (events[e] # Silent)]]

-----------------------------------------------------------------------------
(* What pages and Firefox ask of the worker. *)

Room == Len(waiting) < MaxWaiting

Asks(task) ==
  /\ Room /\ waiting' = Append(waiting, task)
  /\ UNCHANGED <<memory, storage, firefox, change, events, pages, dead>>

(* PREPARE_ANALYTICS_CONSENT_GRANT and SET_ANALYTICS_CONSENT.  The worker  *)
(* does not count on a page to send a ticket only once.                    *)
Prepare == Asks(Task("issue", 0))
AskGrant == \E t \in held : Asks(Task("grant", t))

Withdraw ==
  /\ Room /\ Deny
  /\ change' = IF change = Idle THEN Idle ELSE [change EXCEPT !.task.stale = TRUE]
  /\ waiting' = Append(Outdated(waiting), Task("withdraw", 0))
  /\ UNCHANGED <<storage, pages, dead>>

AskWithdrawal == Withdraw /\ UNCHANGED firefox
ToldOfRemoval == removed /\ Withdraw /\ removed' = FALSE /\ UNCHANGED platform

(* The permission changes in Firefox; the worker is told of a removal.     *)
PermissionChanges ==
  /\ platform' = ~ platform /\ removed' = (removed \/ platform)
  /\ UNCHANGED <<memory, storage, change, waiting, events, pages, dead>>

-----------------------------------------------------------------------------
(* The chain: one change at a time. *)

(* Tickets are numbered in the order they were issued.                     *)
Oldest == CHOOSE t \in tickets : \A u \in tickets : t <= u
MutantKeepsOneMore ==
  IF Cardinality(tickets) <= MaxTickets THEN tickets ELSE tickets \ {Oldest}
Newest ==
  IF Cardinality(tickets) < MaxTickets THEN tickets ELSE tickets \ {Oldest}

(* The write under way reaches storage. *)
Lands ==
  LET stage == change.stage
      t == change.task.ticket
  IN  \/ /\ stage = "add" /\ UNCHANGED granted
         /\ tickets' = Newest \cup {t}
      \/ stage = "clear" /\ tickets' = {} /\ UNCHANGED granted
      \/ stage = "erase" /\ granted' = FALSE /\ UNCHANGED tickets
      \/ stage = "spend" /\ tickets' = tickets \ {t} /\ UNCHANGED granted
      \/ stage = "store" /\ granted' = TRUE /\ UNCHANGED tickets

Starts(kind) ==
  /\ change = Idle /\ waiting # <<>> /\ Head(waiting).kind = kind
  /\ waiting' = Tail(waiting)
  /\ UNCHANGED <<memory, storage, firefox, events, held, dead>>

Continues(stage) ==
  change.stage = stage /\ UNCHANGED <<firefox, waiting, events, issued>>

Stage(stage) == [change EXCEPT !.stage = stage]

(* A change that is refused leaves the chain to the next one.              *)
StartIssue ==
  /\ Starts("issue")
  /\ \/ change' = Idle /\ UNCHANGED issued
     \/ /\ ~ Head(waiting).stale /\ issued < MaxIssued
        /\ issued' = issued + 1
        /\ change' = At("add", [Head(waiting) EXCEPT !.ticket = issued'])

FinishIssue ==
  /\ Continues("add") /\ change' = Idle
  /\ \/ UNCHANGED <<storage, held>>
     \/ /\ Lands
        /\ held' = held \cup (IF change.task.stale THEN {} ELSE {change.task.ticket})
  /\ UNCHANGED <<memory, dead>>

StartWithdrawal ==
  /\ Starts("withdraw") /\ change' = At("clear", Head(waiting))
  /\ UNCHANGED issued

(* A failure here does not keep the record from being erased; it keeps the *)
(* withdrawal from being acknowledged.                                     *)
MutantClearIgnored ==
  /\ Continues("clear")
  /\ (UNCHANGED storage \/ Lands) /\ change' = Stage("erase")
  /\ UNCHANGED <<memory, held, dead>>
ClearTickets ==
  /\ Continues("clear")
  /\ \/ Lands /\ change' = Stage("erase")
     \/ UNCHANGED storage /\ change' = [Stage("erase") EXCEPT !.failed = TRUE]
  /\ UNCHANGED <<memory, held, dead>>

EraseRecord ==
  /\ Continues("erase") /\ change' = Idle
  /\ \/ UNCHANGED <<storage, dead>>
     \/ Lands /\ dead' = IF change.failed THEN dead ELSE 1 .. issued
  /\ UNCHANGED <<memory, held>>

StartGrant ==
  /\ Starts("grant")
  /\ \/ change' = Idle
     \/ /\ ~ Head(waiting).stale
        /\ Head(waiting).ticket \in tickets
        /\ change' = At("spend", Head(waiting))
  /\ UNCHANGED issued

SpendTicket ==
  /\ Continues("spend")
  /\ \/ UNCHANGED storage /\ change' = Idle
     \/ Lands /\ change' = IF change.task.stale THEN Idle ELSE Stage("platform")
  /\ UNCHANGED <<memory, held, dead>>

(* A grant refused by Firefox, or by storage, denies: its failure outdates *)
(* what waits like a withdrawal does, but storage is left as it was.       *)
RefuseGrant ==
  /\ change.stage \in {"platform", "store"}
  /\ Deny /\ change' = Idle /\ waiting' = Outdated(waiting)
  /\ UNCHANGED <<storage, firefox, pages, dead>>

AskPlatform ==
  /\ Continues("platform") /\ platform
  /\ change' = IF change.task.stale THEN Idle ELSE Stage("store")
  /\ UNCHANGED <<memory, storage, held, dead>>

(* A withdrawal that came while the record was written leaves the worker   *)
(* denied; the record is erased by that withdrawal, which waits.           *)
MutantGrantOverWithdrawal ==
  /\ Continues("store") /\ Lands /\ change' = Idle
  /\ memory' = FALSE
  /\ dead' = dead \cup {change.task.ticket}
  /\ UNCHANGED held
StoreGrant ==
  /\ Continues("store") /\ Lands /\ change' = Idle
  /\ memory' = (memory /\ change.task.stale)
  /\ dead' = dead \cup {change.task.ticket}
  /\ UNCHANGED held

(* The write lands, and the worker never hears of it: it is to be stopped. *)
LandsUnheard ==
  /\ Lands /\ change' = Stage("unheard")
  /\ dead' = dead \cup (IF change.stage = "store" THEN {change.task.ticket} ELSE {})
  /\ UNCHANGED <<memory, firefox, waiting, events, pages>>

(* The worker is stopped; session and local storage stay.                  *)
Stop ==
  /\ memory' = FALSE /\ change' = Idle /\ waiting' = <<>>
  /\ events' = [e \in Emissions |-> Silent]
  /\ UNCHANGED <<storage, firefox, pages, dead>>

-----------------------------------------------------------------------------
(* emitAnalyticsEvents, and the reading of consent it awaits. *)

Moves(e, stage) ==
  /\ events' = [events EXCEPT ![e] = IF stage = "none" THEN Silent
                                     ELSE [@ EXCEPT !.stage = stage]]
  /\ UNCHANGED <<memory, storage, firefox, change, waiting, pages, dead>>

(* A denial in memory answers at once.                                     *)
Emit(e) == events[e] = Silent /\ ~ memory /\ Moves(e, "record")

(* Storage or Firefox's permission is read, or cannot be ...               *)
Reads(e, stage, good, next) ==
  events[e].stage = stage /\ (Moves(e, "none") \/ (good /\ Moves(e, next)))

(* ... and the answer counts only if nothing was withdrawn meanwhile (nor  *)
(* while the backend's address, the last of what is awaited, is read).     *)
Resumes(e, stage, next) ==
  events[e].stage = stage /\ Moves(e, IF events[e].stale THEN "none" ELSE next)

EmitStep(e) ==
  \/ Emit(e)
  \/ Reads(e, "record", granted, "recorded")
  \/ Resumes(e, "recorded", "firefox")
  \/ Reads(e, "firefox", platform, "permitted")
  \/ Resumes(e, "permitted", "fetch")
  \/ Reads(e, "fetch", FALSE, "none")

(* The events being sent, but for those aborted.                           *)
Out == {e \in Emissions : events[e].stage = "fetch" /\ ~ events[e].stale}

-----------------------------------------------------------------------------
Init ==
  /\ memory = FALSE /\ granted \in BOOLEAN /\ tickets = {}
  /\ platform \in BOOLEAN /\ removed = FALSE
  /\ change = Idle /\ waiting = <<>> /\ events = [e \in Emissions |-> Silent]
  /\ held = {} /\ issued = 0 /\ dead = {}

Next ==
  \/ Prepare \/ AskGrant \/ AskWithdrawal \/ ToldOfRemoval \/ PermissionChanges
  \/ StartIssue \/ FinishIssue
  \/ StartWithdrawal \/ ClearTickets \/ EraseRecord
  \/ StartGrant \/ SpendTicket \/ AskPlatform \/ RefuseGrant \/ StoreGrant
  \/ LandsUnheard \/ Stop
  \/ \E e \in Emissions : EmitStep(e)

Spec == Init /\ [][Next]_vars

-----------------------------------------------------------------------------
Tasks == [kind : {"issue", "grant", "withdraw"}, ticket : 0 .. MaxIssued,
          stale : BOOLEAN]

(* Each variable has its type. *)
TypeOK ==
  /\ memory \in BOOLEAN /\ granted \in BOOLEAN
  /\ platform \in BOOLEAN /\ removed \in BOOLEAN
  /\ tickets \in SUBSET (1 .. issued) /\ Cardinality(tickets) <= MaxTickets
  /\ change \in [stage : {"idle", "add", "clear", "erase", "spend", "platform",
                          "store", "unheard"},
                 task : Tasks, failed : BOOLEAN]
  /\ waiting \in Seq(Tasks) /\ Len(waiting) <= MaxWaiting
  /\ events \in [Emissions -> [stage : {"none", "record", "recorded", "firefox",
                                        "permitted", "fetch"},
                               stale : BOOLEAN]]
  /\ issued \in 0 .. MaxIssued
  /\ held \in SUBSET (1 .. issued) /\ dead \in SUBSET (1 .. issued)

(* An event being sent was not withdrawn from: the worker is not denied    *)
(* and storage holds the grant, however the withdrawal, the grants before  *)
(* it and the reads of the event interleave.                               *)
SentUnderConsent == Out # {} => ~ memory /\ granted

(* No grant gets to storage with a ticket that has already granted, nor with one *)
(* older than a withdrawal the viewer saw acknowledged, though that page   *)
(* still holds it and the worker was restarted since.                      *)
DeadTicketsGrantNothing ==
  change.stage = "store" => change.task.ticket \notin dead

Grants == {i \in DOMAIN waiting : waiting[i].kind = "grant" /\ ~ waiting[i].stale}

(* Consent is kept as Consent says: through the chain, the awaits of every *)
(* change and event, failing storage and restarts.                         *)
C == INSTANCE Consent WITH
  consent <- IF ~ granted THEN "denied" ELSE IF memory THEN "doubted" ELSE "granted",
  asked <- \/ Grants # {}
           \/ change.task.kind = "grant" /\ ~ change.task.stale,
  out <- Out
ConsentKept == C!Spec
=============================================================================
