----------------------- MODULE AnalyticsConsentProofs -----------------------
(***************************************************************************)
(* Proofs about AnalyticsConsent, for every number of tickets, waiting     *)
(* changes and events, and that it implements Consent.  IndInv says why:   *)
(* whatever is outdated implies a denial in memory, a withdrawal outdates  *)
(* all that waits before it, and an event that is not outdated still has   *)
(* the consent it read.                                                    *)
(***************************************************************************)
EXTENDS AnalyticsConsent, TLAPS, FiniteSetTheorems, WellFoundedInduction

(* A withdrawal, and whatever is outdated, comes after outdated changes only. *)
Ordered(ts) ==
  \A i, j \in DOMAIN ts :
    i < j /\ (ts[j].stale \/ ts[j].kind = "withdraw") => ts[i].stale

Clean(ts) == \A i \in DOMAIN ts : ~ ts[i].stale /\ ts[i].kind # "withdraw"

Busy == change.stage # "idle"

WaitingFits ==
  /\ Ordered(waiting)
  /\ ~ Clean(waiting) => memory /\ (Busy => change.task.stale)

ChangeFits ==
  /\ Busy /\ (change.task.stale \/ change.task.kind = "withdraw") => memory
  /\ ~ Busy => change = Idle
  /\ change.stage \in {"clear", "erase"} => change.task.kind = "withdraw"
  /\ change.stage = "add" => change.task.kind = "issue"
  /\ change.stage \in {"spend", "platform", "store"} => change.task.kind = "grant"

(* An event that is not outdated has the consent it read.                  *)
Fits(event, denied, stored) ==
  /\ event.stage = "none" => ~ event.stale
  /\ event.stage # "none" /\ ~ event.stale
       => ~ denied /\ (event.stage # "record" => stored)
EventsFit == \A e \in Emissions : Fits(events[e], memory, granted)

TicketsFit ==
  /\ tickets \cap dead = {}
  /\ change.stage = "erase" /\ ~ change.failed => tickets = {}
  /\ change.stage \in {"add", "spend", "platform", "store"}
       => change.task.ticket \in (1 .. issued) \ dead
  /\ change.stage \in {"platform", "store"} => change.task.ticket \notin tickets

IndInv == TypeOK /\ WaitingFits /\ ChangeFits /\ EventsFit /\ TicketsFit

-----------------------------------------------------------------------------
(* The chain of changes as a sequence. *)
LEMMA OutdatedType ==
  ASSUME NEW ts \in Seq(Tasks)
  PROVE  /\ Outdated(ts) \in Seq(Tasks) /\ Len(Outdated(ts)) = Len(ts)
         /\ \A i \in DOMAIN Outdated(ts) : Outdated(ts)[i].stale
<1>1. ts \in [1 .. Len(ts) -> Tasks] /\ DOMAIN ts = 1 .. Len(ts) /\ Len(ts) \in Nat
  OBVIOUS
<1>2. \A i \in 1 .. Len(ts) : [ts[i] EXCEPT !.stale = TRUE] \in Tasks
  BY <1>1 DEF Tasks
<1>3. Outdated(ts) \in [1 .. Len(ts) -> Tasks]
  BY <1>1, <1>2 DEF Outdated
<1>4. \A i \in DOMAIN Outdated(ts) : Outdated(ts)[i].stale
  BY <1>1 DEF Outdated, Tasks
<1>5. DOMAIN Outdated(ts) = 1 .. Len(ts)
  BY <1>1 DEF Outdated
<1> QED BY <1>1, <1>3, <1>4, <1>5

LEMMA OutdatedOrdered ==
  ASSUME NEW ts \in Seq(Tasks), NEW task \in Tasks
  PROVE  Ordered(Outdated(ts)) /\ Ordered(Append(Outdated(ts), task))
<1>1. Outdated(ts) \in Seq(Tasks) /\ \A i \in DOMAIN Outdated(ts) : Outdated(ts)[i].stale
  BY OutdatedType
<1> HIDE DEF Outdated
<1> QED BY <1>1 DEF Ordered

LEMMA AppendFresh ==
  ASSUME NEW ts \in Seq(Tasks), Ordered(ts),
         NEW task \in Tasks, ~ task.stale, task.kind # "withdraw"
  PROVE  Ordered(Append(ts, task)) /\ (Clean(Append(ts, task)) <=> Clean(ts))
<1>1. \A i \in DOMAIN Append(ts, task) :
        Append(ts, task)[i] = IF i <= Len(ts) THEN ts[i] ELSE task
  OBVIOUS
<1>2. DOMAIN Append(ts, task) = 1 .. Len(ts) + 1 /\ DOMAIN ts = 1 .. Len(ts)
        /\ Len(ts) \in Nat
  OBVIOUS
<1>3. Ordered(Append(ts, task))
  BY <1>1, <1>2 DEF Ordered
<1>4. Clean(Append(ts, task)) <=> Clean(ts)
  BY <1>1, <1>2 DEF Clean
<1> QED BY <1>3, <1>4

LEMMA TailOrdered ==
  ASSUME NEW ts \in Seq(Tasks), ts # <<>>, Ordered(ts)
  PROVE  /\ Head(ts) \in Tasks /\ Tail(ts) \in Seq(Tasks) /\ Len(Tail(ts)) = Len(ts) - 1
         /\ Ordered(Tail(ts))
         /\ ~ Clean(Tail(ts)) => Head(ts).stale /\ ~ Clean(ts)
         /\ Head(ts).stale \/ Head(ts).kind = "withdraw" => ~ Clean(ts)
<1>1. Len(ts) \in Nat \ {0} /\ DOMAIN ts = 1 .. Len(ts) /\ Head(ts) = ts[1]
  OBVIOUS
<1>2. DOMAIN Tail(ts) = 1 .. Len(ts) - 1
        /\ \A i \in DOMAIN Tail(ts) : Tail(ts)[i] = ts[i + 1]
  OBVIOUS
<1>3. Ordered(Tail(ts))
  BY <1>1, <1>2 DEF Ordered
<1>4. ASSUME ~ Clean(Tail(ts)) PROVE Head(ts).stale /\ ~ Clean(ts)
  <2>1. PICK i \in DOMAIN Tail(ts) : ts[i + 1].stale \/ ts[i + 1].kind = "withdraw"
    BY <1>2, <1>4 DEF Clean
  <2>2. i + 1 \in DOMAIN ts /\ 1 \in DOMAIN ts /\ 1 < i + 1
    BY <1>1, <1>2
  <2> QED BY <2>1, <2>2, <1>1 DEF Ordered, Clean
<1>5. Head(ts).stale \/ Head(ts).kind = "withdraw" => ~ Clean(ts)
  BY <1>1 DEF Clean
<1> QED BY <1>3, <1>4, <1>5

(* A finite set of numbers has a least one: the one whose smaller ones are *)
(* minimal among the finite subsets.                                       *)
LEMMA LeastExists ==
  ASSUME NEW S \in SUBSET Nat, IsFiniteSet(S), S # {}
  PROVE  \E t \in S : \A u \in S : t <= u
<1> DEFINE Below(t) == {u \in S : u < t}
           Family == {Below(t) : t \in S}
           R == StrictSubsetOrdering(S)
<1>1. IsWellFoundedOn(R, SUBSET S)
  BY FS_StrictSubsetOrderingWellFounded, FS_FiniteSubsetsOfFinite
<1>2. Family \subseteq SUBSET S /\ Family # {}
  OBVIOUS
<1>3. \A x, y \in SUBSET S : <<x, y>> \in R <=> x \subseteq y /\ x # y
  BY DEF StrictSubsetOrdering
<1> HIDE DEF R
<1>4. PICK least \in Family : \A y \in Family : ~ (<<y, least>> \in R)
  <2> HIDE DEF Family
  <2> QED BY <1>1, <1>2, WFMin
<1>5. PICK t \in S : least = Below(t)
  BY <1>4
<1>6. ASSUME NEW u \in S, u < t PROVE FALSE
  <2>0. t \in Nat /\ u \in Nat /\ \A v \in S : v \in Nat
    OBVIOUS
  <2>1. Below(u) \subseteq Below(t) /\ u \in Below(t) /\ u \notin Below(u)
    <3>1. \A v \in S : v < u => v < t
      BY <2>0, <1>6
    <3>2. u < t /\ ~ (u < u)
      BY <2>0, <1>6
    <3> QED BY <3>1, <3>2
  <2>2. Below(u) \in Family /\ Below(u) \in SUBSET S /\ Below(t) \in SUBSET S
    OBVIOUS
  <2> HIDE DEF Below, Family
  <2>3. <<Below(u), least>> \in R
    BY <2>1, <2>2, <1>3, <1>5
  <2> QED BY <2>2, <2>3, <1>4
<1>7. \A u \in S : t \in Nat /\ u \in Nat
  OBVIOUS
<1> QED BY <1>6, <1>7

LEMMA SomeTickets ==
  ASSUME NEW n \in Nat, NEW S \in SUBSET (1 .. n)
  PROVE  IsFiniteSet(S) /\ Cardinality(S) \in Nat
<1>1. IsFiniteSet(1 .. n)
  BY FS_Interval
<1>2. IsFiniteSet(S)
  BY <1>1, FS_Subset
<1> QED BY <1>2, FS_CardinalityType

(* Adding a ticket to a full list drops one, so that there is room.        *)
LEMMA NewestFits ==
  ASSUME TypeOK
  PROVE  Newest \subseteq tickets /\ IsFiniteSet(Newest) /\ Cardinality(Newest) < MaxTickets
<1> USE AnalyticsConsentAssumption
<1>1. issued \in Nat /\ tickets \subseteq 1 .. issued /\ Cardinality(tickets) <= MaxTickets
  BY DEF TypeOK
<1>2. tickets \subseteq Nat
  BY <1>1
<1>3. IsFiniteSet(tickets) /\ Cardinality(tickets) \in Nat
  BY <1>1, SomeTickets
<1>4. CASE Cardinality(tickets) < MaxTickets
  BY <1>3, <1>4 DEF Newest
<1>5. CASE ~ Cardinality(tickets) < MaxTickets
  <2>1. tickets # {}
    BY <1>3, <1>5, FS_EmptySet
  <2>2. \E t \in tickets : \A u \in tickets : t <= u
    BY <2>1, <1>2, <1>3, LeastExists
  <2>3. Oldest \in tickets
    BY <2>2 DEF Oldest
  <2>4. Newest = tickets \ {Oldest}
    BY <1>5 DEF Newest
  <2>5. Cardinality(Newest) = Cardinality(tickets) - 1 /\ IsFiniteSet(Newest)
    BY <2>3, <2>4, <1>3, FS_RemoveElement
  <2> QED BY <2>4, <2>5, <1>1, <1>3
<1> QED BY <1>4, <1>5

(* What a write leaves of the tickets.                                     *)
LEMMA LandsTickets ==
  ASSUME TypeOK, Lands, issued' \in issued .. MaxIssued,
         change.stage = "add" => change.task.ticket \in 1 .. issued
  PROVE  /\ granted' \in BOOLEAN
         /\ tickets' \in SUBSET (1 .. issued') /\ Cardinality(tickets') <= MaxTickets
<1> USE AnalyticsConsentAssumption
<1>1. /\ issued \in Nat /\ tickets \subseteq 1 .. issued /\ granted \in BOOLEAN
      /\ Cardinality(tickets) <= MaxTickets /\ MaxTickets \in Nat /\ MaxIssued \in Nat
  BY DEF TypeOK
<1>2. IsFiniteSet(tickets) /\ Cardinality(tickets) \in Nat
  BY <1>1, SomeTickets
<1>3. CASE change.stage = "add"
  <2>1. tickets' = Newest \cup {change.task.ticket} /\ granted' = granted
    BY <1>3 DEF Lands
  <2>2. Newest \subseteq tickets /\ IsFiniteSet(Newest) /\ Cardinality(Newest) < MaxTickets
    BY NewestFits
  <2>3. Cardinality(Newest) \in Nat
    BY <2>2, FS_CardinalityType
  <2>4. Cardinality(tickets') = IF change.task.ticket \in Newest
                                THEN Cardinality(Newest) ELSE Cardinality(Newest) + 1
    <3> DEFINE t == change.task.ticket
    <3>1. Cardinality(Newest \cup {t}) = IF t \in Newest
                                THEN Cardinality(Newest) ELSE Cardinality(Newest) + 1
      <4> HIDE DEF t
      <4> QED BY <2>2, FS_AddElement
    <3> QED BY <3>1, <2>1
  <2>5. Cardinality(tickets') <= MaxTickets
    BY <2>2, <2>3, <2>4, <1>1
  <2>6. change.task.ticket \in 1 .. issued /\ 1 .. issued \subseteq 1 .. issued'
    BY <1>1, <1>3
  <2> QED BY <2>1, <2>2, <2>5, <2>6, <1>1
<1>4. CASE change.stage = "clear"
  <2>1. tickets' = {} /\ granted' = granted BY <1>4 DEF Lands
  <2> QED BY <2>1, <1>1, FS_EmptySet
<1>5. CASE change.stage = "spend"
  <2>1. tickets' = tickets \ {change.task.ticket} /\ granted' = granted
    BY <1>5 DEF Lands
  <2>2. tickets' \in SUBSET tickets
    BY <2>1
  <2>3. Cardinality(tickets') <= Cardinality(tickets)
    BY <2>2, <1>2, FS_Subset
  <2>4. tickets' \in SUBSET (1 .. issued) /\ 1 .. issued \subseteq 1 .. issued'
    BY <2>2, <1>1
  <2>5. Cardinality(tickets') \in Nat
    BY <2>4, <1>1, SomeTickets
  <2> QED BY <2>1, <2>3, <2>4, <2>5, <1>1, <1>2
<1>6. CASE change.stage \in {"erase", "store"}
  <2>1. tickets' = tickets /\ granted' \in BOOLEAN BY <1>6 DEF Lands
  <2> QED BY <2>1, <1>1
<1> QED BY <1>3, <1>4, <1>5, <1>6 DEF Lands

-----------------------------------------------------------------------------
(* The actions, one by one. *)
Stages == {"idle", "add", "clear", "erase", "spend", "platform", "store", "unheard"}
EventStages == {"none", "record", "recorded", "firefox", "permitted", "fetch"}

LEMMA TaskTyped ==
  ASSUME NEW kind \in {"issue", "grant", "withdraw"}, NEW t \in 0 .. MaxIssued
  PROVE  /\ Task(kind, t) \in Tasks /\ ~ Task(kind, t).stale /\ Task(kind, t).kind = kind
         /\ Task(kind, t).ticket = t
BY DEF Task, Tasks

LEMMA IdleTyped ==
  /\ Idle \in [stage : Stages, task : Tasks, failed : BOOLEAN]
  /\ Idle.stage = "idle" /\ ~ Idle.task.stale /\ Idle.task.kind = "withdraw"
<1>1. Task("withdraw", 0) \in Tasks /\ ~ Task("withdraw", 0).stale
        /\ Task("withdraw", 0).kind = "withdraw"
  BY AnalyticsConsentAssumption DEF Task, Tasks
<1> QED BY <1>1 DEF Idle, At, Stages

(* A denial leaves no event under way that is not outdated.                *)
LEMMA DenyEvents ==
  ASSUME TypeOK, EventsFit, Deny
  PROVE  /\ memory' = TRUE /\ EventsFit'
         /\ events' \in [Emissions -> [stage : EventStages, stale : BOOLEAN]]
         /\ Out' = {}
<1>1. ASSUME NEW e \in Emissions
      PROVE  /\ events'[e] \in [stage : EventStages, stale : BOOLEAN]
             /\ events'[e].stage = "none" => ~ events'[e].stale
             /\ events'[e].stage # "none" => events'[e].stale
  <2>1. events[e] \in [stage : EventStages, stale : BOOLEAN]
    BY DEF TypeOK, EventStages
  <2>2. events'[e] = [events[e] EXCEPT !.stale = (events[e] # Silent)]
    BY DEF Deny
  <2>3. CASE events[e] = Silent
    <3>1. events'[e] = [Silent EXCEPT !.stale = FALSE]
      BY <2>2, <2>3
    <3> QED BY <3>1 DEF Silent, EventStages
  <2>4. CASE events[e] # Silent
    <3>1. events'[e] = [events[e] EXCEPT !.stale = TRUE]
      BY <2>2, <2>4
    <3>2. events[e].stage # "none"
      <4>1. events[e].stage = "none" => events[e].stale = FALSE
        BY <2>1 DEF EventsFit, Fits
      <4> QED BY <2>1, <2>4, <4>1 DEF Silent
    <3> QED BY <2>1, <3>1, <3>2
  <2> QED BY <2>3, <2>4
<1>2. events' \in [Emissions -> [stage : EventStages, stale : BOOLEAN]]
  BY <1>1 DEF Deny
<1>3. memory' = TRUE
  BY DEF Deny
<1>4. EventsFit'
  BY <1>1, <1>3 DEF EventsFit, Fits
<1>5. Out' = {}
  BY <1>1 DEF Out
<1> QED BY <1>2, <1>3, <1>4, <1>5

(* What a page asks waits at the end, not outdated.                        *)
LEMMA AsksKeeps ==
  ASSUME IndInv, NEW kind \in {"issue", "grant"}, NEW t \in 0 .. MaxIssued,
         Asks(Task(kind, t))
  PROVE  IndInv'
<1> DEFINE task == Task(kind, t)
<1>1. task \in Tasks /\ ~ task.stale /\ task.kind # "withdraw"
  BY TaskTyped
<1>2. waiting \in Seq(Tasks) /\ Ordered(waiting) /\ Len(waiting) < MaxWaiting
        /\ MaxWaiting \in Nat
  BY AnalyticsConsentAssumption DEF IndInv, TypeOK, WaitingFits, Asks, Room
<1>3. waiting' = Append(waiting, task)
  BY DEF Asks
<1>4. UNCHANGED <<memory, granted, tickets, platform, removed, change, events,
                  held, issued, dead>>
  BY DEF Asks, storage, firefox, pages
<1> HIDE DEF task
<1>5. waiting' \in Seq(Tasks) /\ Len(waiting') <= MaxWaiting
  BY <1>1, <1>2, <1>3
<1>6. Ordered(waiting') /\ (Clean(waiting') <=> Clean(waiting))
  BY <1>1, <1>2, <1>3, AppendFresh
<1>7. TypeOK'
  BY <1>4, <1>5 DEF IndInv, TypeOK
<1>8. WaitingFits'
  BY <1>4, <1>6 DEF IndInv, WaitingFits, Busy
<1>9. ChangeFits' /\ EventsFit' /\ TicketsFit'
  BY <1>4 DEF IndInv, ChangeFits, Busy, EventsFit, Fits, TicketsFit
<1> QED BY <1>7, <1>8, <1>9 DEF IndInv

(* The change under way, outdated.                                         *)
LEMMA OutdatedChange ==
  ASSUME TypeOK, ChangeFits,
         change' = IF change = Idle THEN Idle ELSE [change EXCEPT !.task.stale = TRUE]
  PROVE  /\ change' \in [stage : Stages, task : Tasks, failed : BOOLEAN]
         /\ change'.stage = change.stage /\ change'.failed = change.failed
         /\ change'.task.kind = change.task.kind
         /\ change'.task.ticket = change.task.ticket
         /\ Busy => change'.task.stale
         /\ ~ Busy => change' = Idle
<1>1. change \in [stage : Stages, task : Tasks, failed : BOOLEAN]
  BY DEF TypeOK, Stages
<1>2. CASE change = Idle
  BY <1>2, IdleTyped DEF Busy
<1>3. CASE change # Idle
  <2>1. change' = [change EXCEPT !.task.stale = TRUE]
    BY <1>3
  <2>2. Busy
    BY <1>3 DEF ChangeFits
  <2> QED BY <1>1, <2>1, <2>2, ZenonT(60) DEF Tasks
<1> QED BY <1>2, <1>3

LEMMA WithdrawKeeps ==
  ASSUME IndInv, Withdraw, platform' \in BOOLEAN, removed' \in BOOLEAN
  PROVE  IndInv' /\ ~ Clean(waiting')
<1> DEFINE task == Task("withdraw", 0)
<1>1. task \in Tasks /\ task.kind = "withdraw"
  BY TaskTyped, AnalyticsConsentAssumption
<1>2. waiting \in Seq(Tasks) /\ Len(waiting) < MaxWaiting /\ MaxWaiting \in Nat
  BY AnalyticsConsentAssumption DEF IndInv, TypeOK, Withdraw, Room
<1>3. Outdated(waiting) \in Seq(Tasks) /\ Len(Outdated(waiting)) = Len(waiting)
  BY <1>2, OutdatedType
<1>4. waiting' = Append(Outdated(waiting), task)
  BY DEF Withdraw
<1>5. Ordered(waiting')
  BY <1>1, <1>2, <1>4, OutdatedOrdered
<1>6. waiting' \in Seq(Tasks) /\ Len(waiting') <= MaxWaiting /\ ~ Clean(waiting')
  <2> HIDE DEF task, Outdated
  <2>1. waiting'[Len(waiting')] = task /\ Len(waiting') \in DOMAIN waiting'
    BY <1>1, <1>3, <1>4
  <2>2. ~ Clean(waiting')
    BY <2>1, <1>1 DEF Clean
  <2> QED BY <1>1, <1>2, <1>3, <1>4, <2>2
<1>7. /\ memory' = TRUE /\ EventsFit'
      /\ events' \in [Emissions -> [stage : EventStages, stale : BOOLEAN]]
  BY DenyEvents DEF IndInv, Withdraw
<1>8. /\ change' \in [stage : Stages, task : Tasks, failed : BOOLEAN]
      /\ change'.stage = change.stage /\ change'.failed = change.failed
      /\ change'.task.kind = change.task.kind
      /\ change'.task.ticket = change.task.ticket
      /\ Busy => change'.task.stale
      /\ ~ Busy => change' = Idle
  BY OutdatedChange DEF IndInv, Withdraw
<1>9. UNCHANGED <<granted, tickets, held, issued, dead>>
  BY DEF Withdraw, storage, pages
<1>10. TypeOK'
  BY <1>6, <1>7, <1>8, <1>9 DEF IndInv, TypeOK, Stages, EventStages
<1>11. WaitingFits'
  BY <1>5, <1>7, <1>8 DEF WaitingFits, Busy
<1>12. ChangeFits'
  BY <1>7, <1>8 DEF IndInv, ChangeFits, Busy
<1>13. TicketsFit'
  BY <1>8, <1>9 DEF IndInv, TicketsFit
<1> QED BY <1>6, <1>7, <1>10, <1>11, <1>12, <1>13 DEF IndInv

LEMMA PermissionChangesKeeps == IndInv /\ PermissionChanges => IndInv'
<1> SUFFICES ASSUME IndInv, PermissionChanges PROVE IndInv'
  OBVIOUS
<1>1. /\ UNCHANGED <<memory, granted, tickets, change, waiting, events, held, issued, dead>>
      /\ platform' \in BOOLEAN /\ removed' \in BOOLEAN
  BY DEF PermissionChanges, storage, pages, IndInv, TypeOK
<1>2. TypeOK'
  BY <1>1 DEF IndInv, TypeOK
<1> QED BY <1>1, <1>2 DEF IndInv, WaitingFits, ChangeFits, Busy, EventsFit, Fits, TicketsFit

(* What taking the first change from the chain leaves.                     *)
LEMMA StartsEffect ==
  ASSUME IndInv, NEW kind \in {"issue", "grant", "withdraw"}, Starts(kind)
  PROVE  /\ Head(waiting) \in Tasks /\ Head(waiting).kind = kind /\ ~ Busy
         /\ waiting' \in Seq(Tasks) /\ Len(waiting') <= MaxWaiting /\ Ordered(waiting')
         /\ ~ Clean(waiting') => memory /\ Head(waiting).stale
         /\ Head(waiting).stale \/ kind = "withdraw" => memory
         /\ UNCHANGED <<memory, granted, tickets, platform, removed, events, held, dead>>
<1>1. waiting \in Seq(Tasks) /\ waiting # <<>> /\ Ordered(waiting)
        /\ Len(waiting) \in Nat /\ Len(waiting) <= MaxWaiting /\ MaxWaiting \in Nat
  BY AnalyticsConsentAssumption DEF IndInv, TypeOK, WaitingFits, Starts
<1>2. waiting' = Tail(waiting) /\ Head(waiting).kind = kind /\ change = Idle
        /\ UNCHANGED <<memory, granted, tickets, platform, removed, events, held, dead>>
  BY DEF Starts, storage, firefox
<1>3. ~ Busy
  BY <1>2, IdleTyped DEF Busy
<1>4. ~ Clean(waiting) => memory
  BY DEF IndInv, WaitingFits
<1> QED BY <1>1, <1>2, <1>3, <1>4, TailOrdered

(* A step that leaves memory, storage and the events alone.                *)
LEMMA SameEvents ==
  ASSUME IndInv, UNCHANGED <<memory, granted, events>>
  PROVE  EventsFit'
BY DEF IndInv, EventsFit, Fits

(* A refused change leaves the chain to the next one.                      *)
LEMMA RefusedKeeps ==
  ASSUME IndInv, NEW kind \in {"issue", "grant", "withdraw"}, Starts(kind),
         change' = Idle, UNCHANGED issued
  PROVE  IndInv'
<1>1. /\ waiting' \in Seq(Tasks) /\ Len(waiting') <= MaxWaiting /\ Ordered(waiting')
      /\ ~ Clean(waiting') => memory
      /\ UNCHANGED <<memory, granted, tickets, platform, removed, events, held, dead>>
  BY StartsEffect
<1>2. TypeOK'
  BY <1>1, IdleTyped DEF IndInv, TypeOK, Stages
<1>3. WaitingFits' /\ ChangeFits' /\ TicketsFit'
  BY <1>1, IdleTyped DEF IndInv, WaitingFits, ChangeFits, TicketsFit, Busy
<1> QED BY <1>1, <1>2, <1>3, SameEvents DEF IndInv

LEMMA StartIssueKeeps == IndInv /\ StartIssue => IndInv'
<1> SUFFICES ASSUME IndInv, StartIssue, change' # Idle PROVE IndInv'
  BY RefusedKeeps, IdleTyped DEF StartIssue, At
<1> DEFINE task == [Head(waiting) EXCEPT !.ticket = issued']
<1>1. /\ Head(waiting) \in Tasks /\ Head(waiting).kind = "issue" /\ ~ Busy
      /\ waiting' \in Seq(Tasks) /\ Len(waiting') <= MaxWaiting /\ Ordered(waiting')
      /\ ~ Clean(waiting') => Head(waiting).stale
      /\ UNCHANGED <<memory, granted, tickets, platform, removed, events, held, dead>>
  BY StartsEffect DEF StartIssue
<1>2. ~ Head(waiting).stale /\ issued < MaxIssued /\ issued' = issued + 1
        /\ change' = At("add", task)
  BY DEF StartIssue
<1>3. issued \in 0 .. MaxIssued /\ MaxIssued \in Nat /\ issued' \in 1 .. MaxIssued
  BY <1>2, AnalyticsConsentAssumption DEF IndInv, TypeOK
<1>4. task \in Tasks /\ ~ task.stale /\ task.kind = "issue" /\ task.ticket = issued'
  BY <1>1, <1>2, <1>3 DEF Tasks
<1> HIDE DEF task
<1>5. /\ change' \in [stage : Stages, task : Tasks, failed : BOOLEAN]
      /\ change'.stage = "add" /\ change'.task = task
  BY <1>2, <1>4 DEF At, Stages
<1>6. 1 .. issued \subseteq 1 .. issued' /\ issued' \notin 1 .. issued
        /\ issued' \in 1 .. issued'
  BY <1>2, <1>3
<1>7. TypeOK'
  BY <1>1, <1>3, <1>5, <1>6 DEF IndInv, TypeOK, Stages
<1>8. WaitingFits'
  BY <1>1, <1>2 DEF WaitingFits
<1>9. ChangeFits'
  BY <1>4, <1>5 DEF ChangeFits, Busy
<1>10. TicketsFit'
  BY <1>1, <1>4, <1>5, <1>6 DEF IndInv, TypeOK, TicketsFit
<1> QED BY <1>1, <1>7, <1>8, <1>9, <1>10, SameEvents DEF IndInv

LEMMA StartWithdrawalKeeps == IndInv /\ StartWithdrawal => IndInv'
<1> SUFFICES ASSUME IndInv, StartWithdrawal PROVE IndInv'
  OBVIOUS
<1>1. /\ Head(waiting) \in Tasks /\ Head(waiting).kind = "withdraw" /\ memory
      /\ waiting' \in Seq(Tasks) /\ Len(waiting') <= MaxWaiting /\ Ordered(waiting')
      /\ ~ Clean(waiting') => Head(waiting).stale
      /\ UNCHANGED <<memory, granted, tickets, platform, removed, events, held, issued, dead>>
  BY StartsEffect DEF StartWithdrawal
<1>2. /\ change' \in [stage : Stages, task : Tasks, failed : BOOLEAN]
      /\ change'.stage = "clear" /\ change'.task = Head(waiting)
  BY <1>1 DEF StartWithdrawal, At, Stages
<1>3. TypeOK'
  BY <1>1, <1>2 DEF IndInv, TypeOK, Stages
<1>4. WaitingFits' /\ ChangeFits' /\ TicketsFit'
  BY <1>1, <1>2 DEF IndInv, WaitingFits, ChangeFits, TicketsFit, Busy
<1> QED BY <1>1, <1>3, <1>4, SameEvents DEF IndInv

LEMMA StartGrantKeeps == IndInv /\ StartGrant => IndInv'
<1> SUFFICES ASSUME IndInv, StartGrant, change' # Idle PROVE IndInv'
  BY RefusedKeeps DEF StartGrant
<1>1. /\ Head(waiting) \in Tasks /\ Head(waiting).kind = "grant"
      /\ waiting' \in Seq(Tasks) /\ Len(waiting') <= MaxWaiting /\ Ordered(waiting')
      /\ ~ Clean(waiting') => Head(waiting).stale
      /\ UNCHANGED <<memory, granted, tickets, platform, removed, events, held, issued, dead>>
  BY StartsEffect DEF StartGrant
<1>2. /\ change' = At("spend", Head(waiting))
      /\ ~ Head(waiting).stale /\ Head(waiting).ticket \in tickets
  BY DEF StartGrant
<1>3. /\ change' \in [stage : Stages, task : Tasks, failed : BOOLEAN]
      /\ change'.stage = "spend" /\ change'.task = Head(waiting)
      /\ ~ Head(waiting).stale /\ Head(waiting).ticket \in tickets
  BY <1>1, <1>2 DEF At, Stages
<1>4. TypeOK'
  BY <1>1, <1>3 DEF IndInv, TypeOK, Stages
<1>5. WaitingFits' /\ ChangeFits'
  BY <1>1, <1>3 DEF IndInv, WaitingFits, ChangeFits, Busy
<1>6. TicketsFit'
  BY <1>1, <1>3 DEF IndInv, TypeOK, TicketsFit
<1> QED BY <1>1, <1>4, <1>5, <1>6, SameEvents DEF IndInv

(* A step of the change under way leaves the chain behind it in order.     *)
LEMMA ChainKept ==
  ASSUME IndInv, Busy, UNCHANGED <<memory, waiting>>,
         change' = Idle \/ (change'.stage # "idle" /\ change'.task = change.task)
  PROVE  WaitingFits'
BY IdleTyped DEF IndInv, WaitingFits, Busy

LEMMA FinishIssueKeeps == IndInv /\ FinishIssue => IndInv'
<1> SUFFICES ASSUME IndInv, FinishIssue PROVE IndInv'
  OBVIOUS
<1>1. /\ change.stage = "add" /\ change' = Idle /\ Busy
      /\ UNCHANGED <<memory, platform, removed, waiting, events, issued, dead>>
  BY DEF FinishIssue, Continues, firefox, Busy
<1>2. issued \in Nat /\ issued' \in issued .. MaxIssued
        /\ change.task.ticket \in (1 .. issued) \ dead
  BY <1>1, AnalyticsConsentAssumption DEF IndInv, TypeOK, TicketsFit
<1>3. held' \in SUBSET (1 .. issued)
  BY <1>2 DEF FinishIssue, IndInv, TypeOK
<1>4. /\ granted' = granted /\ tickets' \in SUBSET (1 .. issued')
      /\ Cardinality(tickets') <= MaxTickets /\ tickets' \cap dead = {}
  <2>1. CASE UNCHANGED storage
    BY <2>1, <1>1 DEF storage, IndInv, TypeOK, TicketsFit
  <2>2. CASE Lands
    <3>1. granted' = granted /\ tickets' = Newest \cup {change.task.ticket}
      BY <1>1, <2>2 DEF Lands
    <3>2. Newest \subseteq tickets
      BY NewestFits DEF IndInv
    <3> QED BY <3>1, <3>2, <2>2, <1>2, LandsTickets DEF IndInv, TicketsFit
  <2> QED BY <2>1, <2>2 DEF FinishIssue
<1>5. TypeOK'
  BY <1>1, <1>3, <1>4, IdleTyped DEF IndInv, TypeOK, Stages
<1>6. ChangeFits' /\ TicketsFit'
  BY <1>1, <1>4, IdleTyped DEF ChangeFits, Busy, TicketsFit
<1> QED BY <1>1, <1>4, <1>5, <1>6, ChainKept, SameEvents DEF IndInv

(* The next stage of the change under way.                                 *)
LEMMA StageTyped ==
  ASSUME TypeOK, NEW stage \in Stages
  PROVE  /\ Stage(stage) \in [stage : Stages, task : Tasks, failed : BOOLEAN]
         /\ Stage(stage).stage = stage /\ Stage(stage).task = change.task
         /\ Stage(stage).failed = change.failed
         /\ [Stage(stage) EXCEPT !.failed = TRUE]
              \in [stage : Stages, task : Tasks, failed : BOOLEAN]
         /\ [Stage(stage) EXCEPT !.failed = TRUE].stage = stage
         /\ [Stage(stage) EXCEPT !.failed = TRUE].task = change.task
         /\ [Stage(stage) EXCEPT !.failed = TRUE].failed
<1>1. change \in [stage : Stages, task : Tasks, failed : BOOLEAN]
  BY DEF TypeOK, Stages
<1> QED BY <1>1 DEF Stage

LEMMA ClearTicketsKeeps == IndInv /\ ClearTickets => IndInv'
<1> SUFFICES ASSUME IndInv, ClearTickets PROVE IndInv'
  OBVIOUS
<1>1. /\ change.stage = "clear" /\ Busy
      /\ UNCHANGED <<memory, platform, removed, waiting, events, held, issued, dead>>
  BY DEF ClearTickets, Continues, firefox, Busy
<1>2. change.task.kind = "withdraw" /\ memory
  BY <1>1 DEF IndInv, ChangeFits
<1>3. /\ granted' = granted /\ tickets' \in {tickets, {}}
      /\ change'.failed \/ tickets' = {}
      /\ change' \in [stage : Stages, task : Tasks, failed : BOOLEAN]
      /\ change'.stage = "erase" /\ change'.task = change.task
  <2>1. CASE Lands /\ change' = Stage("erase")
    BY <2>1, <1>1, StageTyped DEF Lands, IndInv, Stages
  <2>2. CASE UNCHANGED storage /\ change' = [Stage("erase") EXCEPT !.failed = TRUE]
    BY <2>2, StageTyped DEF storage, IndInv, Stages
  <2> QED BY <2>1, <2>2 DEF ClearTickets
<1>4. TypeOK'
  <2>1. tickets' \in SUBSET (1 .. issued) /\ Cardinality(tickets') <= MaxTickets
    <3>1. CASE tickets' = tickets
      BY <3>1 DEF IndInv, TypeOK
    <3>2. CASE tickets' = {}
      BY <3>2, FS_EmptySet, AnalyticsConsentAssumption
    <3> QED BY <3>1, <3>2, <1>3
  <2> QED BY <2>1, <1>1, <1>3 DEF IndInv, TypeOK, Stages
<1>5. ChangeFits' /\ TicketsFit'
  BY <1>1, <1>2, <1>3 DEF IndInv, ChangeFits, Busy, TicketsFit
<1> QED BY <1>1, <1>3, <1>4, <1>5, ChainKept, SameEvents DEF IndInv

LEMMA EraseRecordKeeps == IndInv /\ EraseRecord => IndInv'
<1> SUFFICES ASSUME IndInv, EraseRecord PROVE IndInv'
  OBVIOUS
<1>1. /\ change.stage = "erase" /\ change' = Idle /\ Busy
      /\ UNCHANGED <<memory, platform, removed, waiting, events, held, issued>>
  BY DEF EraseRecord, Continues, firefox, Busy
<1>2. memory
  BY <1>1 DEF IndInv, ChangeFits
<1>3. tickets' = tickets /\ granted' \in BOOLEAN
        /\ (dead' = dead \/ (dead' = 1 .. issued /\ ~ change.failed))
  BY <1>1 DEF EraseRecord, Lands, storage, IndInv, TypeOK
<1>4. TypeOK'
  BY <1>1, <1>3, IdleTyped DEF IndInv, TypeOK, Stages
<1>5. ChangeFits' /\ TicketsFit'
  BY <1>1, <1>3, IdleTyped DEF IndInv, ChangeFits, Busy, TicketsFit
<1>6. EventsFit'
  BY <1>1, <1>2 DEF IndInv, EventsFit, Fits
<1> QED BY <1>1, <1>4, <1>5, <1>6, ChainKept DEF IndInv

LEMMA SpendTicketKeeps == IndInv /\ SpendTicket => IndInv'
<1> SUFFICES ASSUME IndInv, SpendTicket PROVE IndInv'
  OBVIOUS
<1>1. /\ change.stage = "spend" /\ Busy
      /\ UNCHANGED <<memory, platform, removed, waiting, events, held, issued, dead>>
  BY DEF SpendTicket, Continues, firefox, Busy
<1>2. /\ issued \in Nat /\ issued' \in issued .. MaxIssued
      /\ change.task.kind = "grant" /\ change.task.ticket \in (1 .. issued) \ dead
      /\ change.task.stale => memory
  BY <1>1, AnalyticsConsentAssumption DEF IndInv, TypeOK, ChangeFits, TicketsFit
<1>3. /\ granted' = granted /\ tickets' \subseteq tickets
      /\ tickets' \in SUBSET (1 .. issued') /\ Cardinality(tickets') <= MaxTickets
  <2>1. CASE UNCHANGED storage
    BY <2>1, <1>1 DEF storage, IndInv, TypeOK
  <2>2. CASE Lands
    <3>1. granted' = granted /\ tickets' \subseteq tickets
      BY <1>1, <2>2 DEF Lands
    <3> QED BY <3>1, <2>2, <1>1, <1>2, LandsTickets DEF IndInv
  <2> QED BY <2>1, <2>2 DEF SpendTicket
<1>4. \/ change' = Idle
      \/ change' = Stage("platform") /\ change.task.ticket \notin tickets'
  BY <1>1 DEF SpendTicket, Lands
<1>5. /\ change' \in [stage : Stages, task : Tasks, failed : BOOLEAN]
      /\ \/ change' = Idle
         \/ /\ change'.stage = "platform" /\ change'.task = change.task
            /\ change.task.ticket \notin tickets'
  BY <1>4, IdleTyped, StageTyped DEF IndInv, Stages
<1>6. TypeOK'
  BY <1>1, <1>3, <1>5 DEF IndInv, TypeOK, Stages
<1>7. WaitingFits'
  BY <1>1, <1>5, ChainKept
<1>8. ChangeFits' /\ TicketsFit'
  BY <1>1, <1>2, <1>3, <1>5, IdleTyped DEF IndInv, ChangeFits, Busy, TicketsFit
<1> QED BY <1>1, <1>3, <1>6, <1>7, <1>8, SameEvents DEF IndInv

LEMMA AskPlatformKeeps == IndInv /\ AskPlatform => IndInv'
<1> SUFFICES ASSUME IndInv, AskPlatform PROVE IndInv'
  OBVIOUS
<1>1. /\ change.stage = "platform" /\ Busy
      /\ UNCHANGED <<memory, granted, tickets, platform, removed, waiting, events,
                     held, issued, dead>>
  BY DEF AskPlatform, Continues, storage, firefox, Busy
<1>2. /\ change' \in [stage : Stages, task : Tasks, failed : BOOLEAN]
      /\ change' = Idle \/ (change'.stage = "store" /\ change'.task = change.task)
  BY IdleTyped, StageTyped DEF AskPlatform, IndInv, Stages
<1>3. TypeOK'
  BY <1>1, <1>2 DEF IndInv, TypeOK, Stages
<1>4. WaitingFits'
  BY <1>1, <1>2, ChainKept
<1>5. ChangeFits' /\ TicketsFit'
  BY <1>1, <1>2, IdleTyped DEF IndInv, ChangeFits, Busy, TicketsFit
<1> QED BY <1>1, <1>3, <1>4, <1>5, SameEvents DEF IndInv

LEMMA RefuseGrantKeeps == IndInv /\ RefuseGrant => IndInv'
<1> SUFFICES ASSUME IndInv, RefuseGrant PROVE IndInv'
  OBVIOUS
<1>1. waiting \in Seq(Tasks) /\ Len(waiting) <= MaxWaiting
  BY DEF IndInv, TypeOK
<1>2. waiting' \in Seq(Tasks) /\ Len(waiting') <= MaxWaiting /\ Ordered(waiting')
  <2>1. waiting' = Outdated(waiting)
    BY DEF RefuseGrant
  <2>2. Task("issue", 0) \in Tasks
    BY TaskTyped, AnalyticsConsentAssumption
  <2> QED BY <2>1, <2>2, <1>1, OutdatedType, OutdatedOrdered
<1>3. /\ memory' = TRUE /\ EventsFit'
      /\ events' \in [Emissions -> [stage : EventStages, stale : BOOLEAN]]
  BY DenyEvents DEF IndInv, RefuseGrant
<1>4. change' = Idle /\ UNCHANGED <<granted, tickets, platform, removed, held, issued, dead>>
  BY DEF RefuseGrant, storage, firefox, pages
<1>5. TypeOK'
  BY <1>2, <1>3, <1>4, IdleTyped DEF IndInv, TypeOK, Stages, EventStages
<1>6. WaitingFits' /\ ChangeFits' /\ TicketsFit'
  BY <1>2, <1>3, <1>4, IdleTyped DEF IndInv, WaitingFits, ChangeFits, Busy, TicketsFit
<1> QED BY <1>3, <1>5, <1>6 DEF IndInv

LEMMA StoreGrantKeeps == IndInv /\ StoreGrant => IndInv'
<1> SUFFICES ASSUME IndInv, StoreGrant PROVE IndInv'
  OBVIOUS
<1>1. /\ change.stage = "store" /\ change' = Idle /\ Busy
      /\ memory' = (memory /\ change.task.stale)
      /\ dead' = dead \cup {change.task.ticket}
      /\ granted' = TRUE /\ tickets' = tickets
      /\ UNCHANGED <<platform, removed, waiting, events, held, issued>>
  BY DEF StoreGrant, Continues, Lands, firefox, Busy
<1>2. /\ change.task.ticket \in 1 .. issued /\ change.task.ticket \notin tickets
      /\ change.task.stale => memory
      /\ memory \in BOOLEAN /\ change.task.stale \in BOOLEAN
  BY <1>1 DEF IndInv, ChangeFits, TicketsFit, TypeOK, Tasks
<1>3. TypeOK'
  BY <1>1, <1>2, IdleTyped DEF IndInv, TypeOK, Stages
<1>4. WaitingFits'
  BY <1>1, <1>2, IdleTyped DEF IndInv, WaitingFits, Busy
<1>5. ChangeFits' /\ TicketsFit'
  BY <1>1, <1>2, IdleTyped DEF IndInv, ChangeFits, Busy, TicketsFit
<1>6. EventsFit'
  BY <1>1, <1>2 DEF IndInv, EventsFit, Fits
<1> QED BY <1>3, <1>4, <1>5, <1>6 DEF IndInv

LEMMA LandsUnheardKeeps == IndInv /\ LandsUnheard => IndInv'
<1> SUFFICES ASSUME IndInv, LandsUnheard PROVE IndInv'
  OBVIOUS
<1>1. /\ Busy /\ Lands /\ change' = Stage("unheard")
      /\ change.stage \in {"add", "clear", "erase", "spend", "store"}
      /\ dead' = dead \cup (IF change.stage = "store" THEN {change.task.ticket} ELSE {})
      /\ UNCHANGED <<memory, platform, removed, waiting, events, held, issued>>
  BY DEF LandsUnheard, Lands, firefox, pages, Busy
<1>2. /\ issued \in Nat /\ issued' \in issued .. MaxIssued
      /\ change.stage \in {"add", "spend", "store"} => change.task.ticket \in (1 .. issued) \ dead
      /\ change.stage = "store" => change.task.ticket \notin tickets
      /\ change.stage \in {"clear", "erase"} => memory
  BY <1>1, AnalyticsConsentAssumption DEF IndInv, TypeOK, ChangeFits, TicketsFit
<1>3. /\ change' \in [stage : Stages, task : Tasks, failed : BOOLEAN]
      /\ change'.stage = "unheard" /\ change'.task = change.task
  BY <1>1, StageTyped DEF IndInv, Stages
<1>4. /\ granted' \in BOOLEAN
      /\ tickets' \in SUBSET (1 .. issued') /\ Cardinality(tickets') <= MaxTickets
  BY <1>1, <1>2, LandsTickets DEF IndInv
<1>5. TypeOK'
  BY <1>1, <1>2, <1>3, <1>4 DEF IndInv, TypeOK, Stages
<1>6. WaitingFits'
  BY <1>1, <1>3, ChainKept
<1>7. ChangeFits'
  BY <1>1, <1>3 DEF IndInv, ChangeFits, Busy
<1>8. tickets' \cap dead' = {}
  <2>1. Newest \subseteq tickets
    BY NewestFits DEF IndInv
  <2> QED BY <2>1, <1>1, <1>2 DEF Lands, IndInv, TicketsFit
<1>9. TicketsFit'
  BY <1>3, <1>8 DEF TicketsFit
<1>10. EventsFit'
  <2>1. granted' = granted \/ granted' = TRUE \/ memory
    BY <1>1, <1>2 DEF Lands
  <2> QED BY <2>1, <1>1 DEF IndInv, EventsFit, Fits
<1> QED BY <1>5, <1>6, <1>7, <1>9, <1>10 DEF IndInv

LEMMA StopKeeps == IndInv /\ Stop => IndInv'
<1> SUFFICES ASSUME IndInv, Stop PROVE IndInv'
  OBVIOUS
<1>1. /\ memory' = FALSE /\ change' = Idle /\ waiting' = <<>>
      /\ events' = [e \in Emissions |-> Silent]
      /\ UNCHANGED <<granted, tickets, platform, removed, held, issued, dead>>
  BY DEF Stop, storage, firefox, pages
<1>2. \A e \in Emissions : events'[e].stage = "none" /\ ~ events'[e].stale
  BY <1>1 DEF Silent
<1>3. TypeOK'
  <2>1. waiting' \in Seq(Tasks) /\ Len(waiting') <= MaxWaiting
    BY <1>1, AnalyticsConsentAssumption
  <2>2. events' \in [Emissions -> [stage : EventStages, stale : BOOLEAN]]
    BY <1>1 DEF Silent, EventStages
  <2> QED BY <2>1, <2>2, <1>1, IdleTyped DEF IndInv, TypeOK, Stages, EventStages
<1>4. WaitingFits' /\ ChangeFits'
  BY <1>1, IdleTyped DEF WaitingFits, ChangeFits, Busy, Ordered, Clean
<1>5. TicketsFit' /\ EventsFit'
  BY <1>1, <1>2, IdleTyped DEF IndInv, TicketsFit, EventsFit, Fits
<1> QED BY <1>3, <1>4, <1>5 DEF IndInv

LEMMA MovesEffect ==
  ASSUME TypeOK, NEW e \in Emissions, NEW stage \in EventStages, Moves(e, stage)
  PROVE  /\ \A f \in Emissions : f # e => events'[f] = events[f]
         /\ events' \in [Emissions -> [stage : EventStages, stale : BOOLEAN]]
         /\ events'[e].stage = stage
         /\ events'[e].stale = (stage # "none" /\ events[e].stale)
         /\ UNCHANGED <<memory, granted, tickets, platform, removed, change, waiting,
                        held, issued, dead>>
<1>1. events \in [Emissions -> [stage : EventStages, stale : BOOLEAN]]
  BY DEF TypeOK, EventStages
<1>2. UNCHANGED <<memory, granted, tickets, platform, removed, change, waiting,
                  held, issued, dead>>
  BY DEF Moves, storage, firefox, pages
<1>3. CASE stage = "none"
  <2>1. events' = [events EXCEPT ![e] = Silent]
    BY <1>3 DEF Moves
  <2> QED BY <2>1, <1>1, <1>2, <1>3 DEF Silent, EventStages
<1>4. CASE stage # "none"
  <2>1. events' = [events EXCEPT ![e] = [events[e] EXCEPT !.stage = stage]]
    BY <1>4 DEF Moves
  <2>2. events[e] \in [stage : EventStages, stale : BOOLEAN]
    BY <1>1
  <2> QED BY <2>1, <2>2, <1>1, <1>2, <1>4
<1> QED BY <1>3, <1>4

(* Each step of an event, as a move from one stage to another, keeps or    *)
(* confirms the consent the event depends on.                              *)
LEMMA EmitMoves ==
  ASSUME IndInv, NEW e \in Emissions, EmitStep(e)
  PROVE  \E stage \in EventStages :
           /\ Moves(e, stage)
           /\ stage # "none" /\ ~ events[e].stale
                => ~ memory /\ (stage # "record" => granted)
           /\ stage = "fetch" => ~ events[e].stale
<1>1. Fits(events[e], memory, granted)
  BY DEF IndInv, EventsFit
<1>2. CASE Emit(e)
  BY <1>2 DEF Emit, EventStages, Silent
<1>3. CASE Reads(e, "record", granted, "recorded")
  BY <1>1, <1>3 DEF Reads, EventStages, Fits
<1>4. CASE Resumes(e, "recorded", "firefox")
  BY <1>1, <1>4 DEF Resumes, EventStages, Fits
<1>5. CASE Reads(e, "firefox", platform, "permitted")
  BY <1>1, <1>5 DEF Reads, EventStages, Fits
<1>6. CASE Resumes(e, "permitted", "fetch")
  BY <1>1, <1>6 DEF Resumes, EventStages, Fits
<1>7. CASE Reads(e, "fetch", FALSE, "none")
  BY <1>1, <1>7 DEF Reads, EventStages, Fits
<1> QED BY <1>2, <1>3, <1>4, <1>5, <1>6, <1>7 DEF EmitStep

LEMMA EmitStepKeeps ==
  ASSUME IndInv, NEW e \in Emissions, EmitStep(e)
  PROVE  IndInv'
<1>1. PICK stage \in EventStages :
        /\ Moves(e, stage)
        /\ stage # "none" /\ ~ events[e].stale
             => ~ memory /\ (stage # "record" => granted)
  BY EmitMoves
<1>2. /\ \A f \in Emissions : f # e => events'[f] = events[f]
      /\ events' \in [Emissions -> [stage : EventStages, stale : BOOLEAN]]
      /\ events'[e].stage = stage
      /\ events'[e].stale = (stage # "none" /\ events[e].stale)
      /\ UNCHANGED <<memory, granted, tickets, platform, removed, change, waiting,
                     held, issued, dead>>
  BY <1>1, MovesEffect DEF IndInv
<1>3. TypeOK'
  BY <1>2 DEF IndInv, TypeOK, EventStages
<1>4. EventsFit'
  <2> SUFFICES ASSUME NEW f \in Emissions PROVE Fits(events'[f], memory, granted)
    BY <1>2 DEF EventsFit
  <2>1. CASE f = e
    BY <2>1, <1>1, <1>2 DEF Fits
  <2>2. CASE f # e
    BY <2>2, <1>2 DEF IndInv, EventsFit
  <2> QED BY <2>1, <2>2
<1>5. WaitingFits' /\ ChangeFits' /\ TicketsFit'
  BY <1>2 DEF IndInv, WaitingFits, ChangeFits, Busy, TicketsFit
<1> QED BY <1>3, <1>4, <1>5 DEF IndInv

-----------------------------------------------------------------------------
LEMMA InitHolds == Init => IndInv
<1> SUFFICES ASSUME Init PROVE IndInv
  OBVIOUS
<1>1. /\ memory = FALSE /\ granted \in BOOLEAN /\ tickets = {}
      /\ platform \in BOOLEAN /\ removed = FALSE
      /\ change = Idle /\ waiting = <<>> /\ events = [e \in Emissions |-> Silent]
      /\ held = {} /\ issued = 0 /\ dead = {}
  BY DEF Init
<1>2. TypeOK
  <2>1. waiting \in Seq(Tasks) /\ Len(waiting) <= MaxWaiting
    BY <1>1, AnalyticsConsentAssumption
  <2>2. events \in [Emissions -> [stage : EventStages, stale : BOOLEAN]]
    BY <1>1 DEF Silent, EventStages
  <2>3. Cardinality(tickets) <= MaxTickets /\ issued \in 0 .. MaxIssued
    BY <1>1, FS_EmptySet, AnalyticsConsentAssumption
  <2> QED BY <2>1, <2>2, <2>3, <1>1, IdleTyped DEF TypeOK, Stages, EventStages
<1>3. WaitingFits /\ ChangeFits /\ TicketsFit
  BY <1>1, IdleTyped DEF WaitingFits, ChangeFits, TicketsFit, Busy, Ordered, Clean
<1>4. EventsFit
  BY <1>1 DEF EventsFit, Fits, Silent
<1> QED BY <1>2, <1>3, <1>4 DEF IndInv

LEMMA NextKeeps == IndInv /\ [Next]_vars => IndInv'
<1> SUFFICES ASSUME IndInv, [Next]_vars PROVE IndInv'
  OBVIOUS
<1>1. CASE Prepare
  BY <1>1, AsksKeeps, AnalyticsConsentAssumption DEF Prepare
<1>2. CASE AskGrant
  <2>1. PICK t \in held : Asks(Task("grant", t))
    BY <1>2 DEF AskGrant
  <2>2. t \in 0 .. MaxIssued
    BY AnalyticsConsentAssumption DEF IndInv, TypeOK
  <2> QED BY <2>1, <2>2, AsksKeeps
<1>3. CASE AskWithdrawal
  BY <1>3, WithdrawKeeps DEF AskWithdrawal, firefox, IndInv, TypeOK
<1>4. CASE ToldOfRemoval
  BY <1>4, WithdrawKeeps DEF ToldOfRemoval, IndInv, TypeOK
<1>5. CASE \E e \in Emissions : EmitStep(e)
  BY <1>5, EmitStepKeeps
<1>6. CASE UNCHANGED vars
  <2>1. UNCHANGED <<memory, granted, tickets, platform, removed, change, waiting,
                    events, held, issued, dead>>
    BY <1>6 DEF vars
  <2>2. TypeOK'
    BY <2>1 DEF IndInv, TypeOK
  <2> QED BY <2>1, <2>2 DEF IndInv, WaitingFits, ChangeFits, Busy, EventsFit, Fits,
                            TicketsFit
<1> QED
  BY <1>1, <1>2, <1>3, <1>4, <1>5, <1>6, PermissionChangesKeeps, StartIssueKeeps,
     FinishIssueKeeps, StartWithdrawalKeeps, ClearTicketsKeeps, EraseRecordKeeps,
     StartGrantKeeps, SpendTicketKeeps, AskPlatformKeeps, RefuseGrantKeeps,
     StoreGrantKeeps, LandsUnheardKeeps, StopKeeps DEF Next

LEMMA Inductive == Spec => []IndInv
BY InitHolds, NextKeeps, PTL DEF Spec

-----------------------------------------------------------------------------
(* The variables keep their types and the list of tickets its limit.       *)
THEOREM TypeCorrect == Spec => []TypeOK
<1>1. IndInv => TypeOK BY DEF IndInv
<1> QED BY Inductive, <1>1, PTL

(* No event is being sent without the consent it was sent under.           *)
THEOREM SendsOnlyUnderConsent == Spec => []SentUnderConsent
<1>1. IndInv => SentUnderConsent
  BY DEF IndInv, EventsFit, Fits, SentUnderConsent, Out
<1> QED BY Inductive, <1>1, PTL

(* A ticket that has granted, or was withdrawn from, grants nothing.       *)
THEOREM TicketsGrantOnce == Spec => []DeadTicketsGrantNothing
<1>1. IndInv => DeadTicketsGrantNothing
  BY DEF IndInv, TicketsFit, DeadTicketsGrantNothing
<1> QED BY Inductive, <1>1, PTL

-----------------------------------------------------------------------------
(* The refinement: what each step is to Consent. *)
Mode == IF ~ granted THEN "denied" ELSE IF memory THEN "doubted" ELSE "granted"
Asked == Grants # {} \/ (change.task.kind = "grant" /\ ~ change.task.stale)
Promised == C!Next \/ UNCHANGED C!vars

LEMMA AsWithdraw ==
  ASSUME granted' = granted, memory' = TRUE, ~ Asked', Out' = {} PROVE Promised
BY DEF Promised, C!Next, C!Withdraw, Asked, Grants

LEMMA AsRestart ==
  ASSUME granted' = granted, memory' = FALSE, ~ Asked', Out' = {} PROVE Promised
BY DEF Promised, C!Next, C!Restart, Asked, Grants

(* A step that leaves consent and the events alone only asks, or gives up. *)
LEMMA AsAsk ==
  ASSUME Mode' = Mode, Out' = Out PROVE Promised
<1>1. CASE Asked'
  BY <1>1 DEF Promised, C!Next, C!Ask, Mode, Asked, Grants
<1>2. CASE ~ Asked'
  BY <1>2 DEF Promised, C!Next, C!GiveUp, Mode, Asked, Grants
<1> QED BY <1>1, <1>2

LEMMA AsSettleOrReach ==
  ASSUME memory, memory' = memory, granted' \in BOOLEAN, granted \in BOOLEAN,
         Asked' <=> Asked, Out' = Out
  PROVE  Promised
<1>1. CASE granted /\ ~ granted'
  BY <1>1 DEF Promised, C!Next, C!Settle, Asked, Grants
<1>2. CASE ~ granted /\ granted'
  BY <1>2 DEF Promised, C!Next, C!Reach, Asked, Grants
<1>3. CASE granted' = granted
  BY <1>3, AsAsk DEF Mode
<1> QED BY <1>1, <1>2, <1>3

LEMMA AsGrant ==
  ASSUME Asked, granted' = TRUE, memory' = FALSE, Out' = Out PROVE Promised
BY DEF Promised, C!Next, C!Grant, Asked, Grants

LEMMA AsSend ==
  ASSUME NEW e \in Emissions, granted, ~ memory, UNCHANGED <<granted, memory, waiting, change>>,
         Out' = Out \cup {e}
  PROVE  Promised
BY DEF Promised, C!Next, C!Send, Grants

LEMMA AsSent ==
  ASSUME NEW e \in Emissions, UNCHANGED <<granted, memory, waiting, change>>,
         Out' = Out \ {e}
  PROVE  Promised
BY DEF Promised, C!Next, C!Sent, Grants

(* A step that touches neither consent nor the events.                     *)
LEMMA QuietPromised ==
  ASSUME UNCHANGED <<granted, memory, events>> PROVE Promised
<1>1. Mode' = Mode /\ Out' = Out
  BY DEF Mode, Out
<1> QED BY <1>1, AsAsk

LEMMA WithdrawPromised ==
  ASSUME IndInv, Withdraw PROVE Promised
<1>1. waiting \in Seq(Tasks) /\ Task("withdraw", 0).kind = "withdraw"
  BY TaskTyped, AnalyticsConsentAssumption DEF IndInv, TypeOK
<1>2. /\ memory' = TRUE /\ Out' = {} /\ granted' = granted
      /\ waiting' = Append(Outdated(waiting), Task("withdraw", 0))
      /\ change' = IF change = Idle THEN Idle ELSE [change EXCEPT !.task.stale = TRUE]
  BY DenyEvents DEF IndInv, Withdraw, storage
<1>3. Grants' = {}
  <2>1. Outdated(waiting) \in Seq(Tasks)
          /\ \A i \in DOMAIN Outdated(waiting) : Outdated(waiting)[i].stale
    BY <1>1, OutdatedType
  <2>2. \A i \in DOMAIN waiting' : waiting'[i].stale \/ waiting'[i].kind = "withdraw"
    <3> HIDE DEF Outdated, Task
    <3> QED BY <2>1, <1>1, <1>2
  <2> QED BY <2>2 DEF Grants
<1>4. ~ Asked'
  <2>1. change'.task.stale \/ change'.task.kind = "withdraw"
    BY <1>2, OutdatedChange, IdleTyped DEF IndInv
  <2> QED BY <1>3, <2>1 DEF Asked
<1> QED BY <1>2, <1>4, AsWithdraw

LEMMA RefuseGrantPromised ==
  ASSUME IndInv, RefuseGrant PROVE Promised
<1>1. /\ memory' = TRUE /\ Out' = {} /\ granted' = granted
      /\ waiting' = Outdated(waiting) /\ change' = Idle
  BY DenyEvents DEF IndInv, RefuseGrant, storage
<1>2. \A i \in DOMAIN waiting' : waiting'[i].stale
  BY <1>1, OutdatedType DEF IndInv, TypeOK
<1>3. ~ Asked'
  BY <1>1, <1>2, IdleTyped DEF Asked, Grants
<1> QED BY <1>1, <1>3, AsWithdraw

LEMMA EraseRecordPromised ==
  ASSUME IndInv, EraseRecord PROVE Promised
<1>1. /\ change.stage = "erase" /\ change' = Idle
      /\ UNCHANGED <<memory, waiting, events>> /\ granted' \in BOOLEAN
      /\ granted \in BOOLEAN
  BY DEF EraseRecord, Continues, Lands, storage, IndInv, TypeOK
<1>2. change.task.kind = "withdraw" /\ memory
  BY <1>1 DEF IndInv, ChangeFits, Busy
<1>3. Asked' <=> Asked
  BY <1>1, <1>2, IdleTyped DEF Asked, Grants
<1>4. Out' = Out
  BY <1>1 DEF Out
<1> QED BY <1>1, <1>2, <1>3, <1>4, AsSettleOrReach

LEMMA StoreGrantPromised ==
  ASSUME IndInv, StoreGrant PROVE Promised
<1>1. /\ change.stage = "store" /\ change' = Idle
      /\ memory' = (memory /\ change.task.stale) /\ granted' = TRUE
      /\ UNCHANGED <<waiting, events>>
  BY DEF StoreGrant, Continues, Lands
<1>2. /\ change.task.kind = "grant"
      /\ change.task.stale => memory
      /\ memory \in BOOLEAN /\ granted \in BOOLEAN /\ change.task.stale \in BOOLEAN
  BY <1>1 DEF IndInv, ChangeFits, Busy, TypeOK, Tasks
<1>3. Out' = Out
  BY <1>1 DEF Out
<1>4. CASE change.task.stale
  <2>1. Asked' <=> Asked
    BY <1>1, <1>4, IdleTyped DEF Asked, Grants
  <2>2. memory /\ memory' = memory
    BY <1>1, <1>2, <1>4
  <2> QED BY <2>1, <2>2, <1>1, <1>2, <1>3, AsSettleOrReach
<1>5. CASE ~ change.task.stale
  <2>1. Asked /\ memory' = FALSE
    BY <1>1, <1>2, <1>5 DEF Asked
  <2> QED BY <2>1, <1>1, <1>3, AsGrant
<1> QED BY <1>4, <1>5

LEMMA LandsUnheardPromised ==
  ASSUME IndInv, LandsUnheard PROVE Promised
<1>1. /\ Busy /\ Lands /\ change' = Stage("unheard")
      /\ change.stage \in {"add", "clear", "erase", "spend", "store"}
      /\ UNCHANGED <<memory, waiting, events>>
  BY DEF LandsUnheard, Lands, Busy
<1>2. change'.task = change.task
  BY <1>1, StageTyped DEF IndInv, Stages
<1>3. Out' = Out /\ (Asked' <=> Asked)
  BY <1>1, <1>2 DEF Out, Asked, Grants
<1>4. /\ granted \in BOOLEAN /\ memory \in BOOLEAN /\ granted' \in BOOLEAN
      /\ granted' = granted \/ change.stage \in {"erase", "store"}
      /\ change.stage = "store" => granted' = TRUE
  BY <1>1 DEF Lands, IndInv, TypeOK
<1>5. CASE memory
  BY <1>1, <1>3, <1>4, <1>5, AsSettleOrReach
<1>6. CASE ~ memory /\ change.stage = "store"
  <2>1. Asked
    BY <1>1, <1>6 DEF IndInv, ChangeFits, Asked
  <2> QED BY <2>1, <1>1, <1>3, <1>4, <1>6, AsGrant
<1>7. CASE ~ memory /\ change.stage # "store"
  <2>1. change.stage # "erase"
    BY <1>1, <1>7 DEF IndInv, ChangeFits
  <2> QED BY <2>1, <1>1, <1>4, <1>7, QuietPromised
<1> QED BY <1>5, <1>6, <1>7

LEMMA StopPromised ==
  ASSUME Stop PROVE Promised
<1>1. granted' = granted /\ memory' = FALSE
  BY DEF Stop, storage
<1>2. ~ Asked' /\ Out' = {}
  BY IdleTyped DEF Stop, Asked, Grants, Out, Silent
<1> QED BY <1>1, <1>2, AsRestart

LEMMA EmitStepPromised ==
  ASSUME IndInv, NEW e \in Emissions, EmitStep(e) PROVE Promised
<1>1. PICK stage \in EventStages :
        /\ Moves(e, stage)
        /\ stage # "none" /\ ~ events[e].stale
             => ~ memory /\ (stage # "record" => granted)
        /\ stage = "fetch" => ~ events[e].stale
  BY EmitMoves
<1>2. /\ \A f \in Emissions : f # e => events'[f] = events[f]
      /\ events'[e].stage = stage
      /\ events'[e].stale = (stage # "none" /\ events[e].stale)
      /\ UNCHANGED <<memory, granted, change, waiting>>
  BY <1>1, MovesEffect DEF IndInv
<1>3. CASE stage = "fetch"
  <2>1. Out' = Out \cup {e}
    BY <1>1, <1>2, <1>3 DEF Out
  <2> QED BY <2>1, <1>1, <1>2, <1>3, AsSend
<1>4. CASE stage # "fetch"
  <2>1. Out' = Out \ {e}
    BY <1>2, <1>4 DEF Out
  <2> QED BY <2>1, <1>2, AsSent
<1> QED BY <1>3, <1>4

LEMMA NextPromised == IndInv /\ [Next]_vars => [C!Next]_(C!vars)
<1> SUFFICES ASSUME IndInv, [Next]_vars PROVE Promised
  BY DEF Promised
<1>1. CASE Prepare \/ AskGrant
  BY <1>1, QuietPromised DEF Prepare, AskGrant, Asks, storage
<1>2. CASE AskWithdrawal \/ ToldOfRemoval
  BY <1>2, WithdrawPromised DEF AskWithdrawal, ToldOfRemoval
<1>3. CASE PermissionChanges
  BY <1>3, QuietPromised DEF PermissionChanges, storage
<1>4. CASE StartIssue \/ StartWithdrawal \/ StartGrant
  BY <1>4, QuietPromised DEF StartIssue, StartWithdrawal, StartGrant, Starts, storage
<1>5. CASE FinishIssue \/ ClearTickets \/ SpendTicket
  BY <1>5, QuietPromised DEF FinishIssue, ClearTickets, SpendTicket, Continues, Lands, storage
<1>6. CASE AskPlatform
  BY <1>6, QuietPromised DEF AskPlatform, Continues, storage
<1>7. CASE \E e \in Emissions : EmitStep(e)
  BY <1>7, EmitStepPromised
<1>8. CASE UNCHANGED vars
  BY <1>8, QuietPromised DEF vars
<1> QED
  BY <1>1, <1>2, <1>3, <1>4, <1>5, <1>6, <1>7, <1>8, RefuseGrantPromised,
     EraseRecordPromised, StoreGrantPromised, LandsUnheardPromised, StopPromised DEF Next

LEMMA InitPromised == Init => C!Init
BY IdleTyped DEF Init, C!Init, Grants, Out, Silent

(* AnalyticsConsent implements Consent: it keeps the promise at every step. *)
THEOREM Implements == Spec => ConsentKept
BY InitPromised, NextPromised, Inductive, PTL DEF Spec, ConsentKept, C!Spec
=============================================================================
