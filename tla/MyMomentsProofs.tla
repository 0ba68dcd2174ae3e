-------------------------- MODULE MyMomentsProofs --------------------------
(***************************************************************************)
(* Proofs about MyMoments, for any accounts, moments, mixes and bounds.    *)
(* The invariant has four layers, each inductive given the first: what the *)
(* requests are (Base), when a jump was timed (Timings), what is left of a *)
(* forgotten account (Gone) and where a save and its note are while an     *)
(* import carries them over (Carried).                                     *)
(***************************************************************************)
EXTENDS MyMoments, TLAPS

Waiting(q) == {q[i] : i \in DOMAIN q}

(* Only an account is forgotten, and nobody waits half-way. *)
QueueFits ==
  \A r \in Waiting(queue) :
    r.step = "start" /\ (r.kind = "forget" => r.scope \in Accounts)

(* Past its first step a request is of an account, still signed in while   *)
(* an import writes.                                                       *)
OpFits ==
  /\ op.step # "start" => op.scope \in Accounts
  /\ Writing => op.kind = "import" /\ scope = op.scope

Base == TypeOK /\ QueueFits /\ OpFits

(* No epoch is ahead of the clock. *)
EpochsPast == \A s \in Scopes : kept[s].epoch <= now

(* A jump's epoch, unless two scopes shared it, is still that of a scope   *)
(* only where it was timed, and only as long as nothing voided it.         *)
Timed(records, clock, jump) ==
  /\ 1 <= jump.epoch /\ jump.epoch <= clock
  /\ ~ jump.twin =>
       \A s \in Scopes : records[s].epoch = jump.epoch => s = jump.of /\ ~ jump.void

JumpsTimed ==
  /\ capture # NoJump => Timed(kept, now, capture)
  /\ \A r \in Waiting(queue) : r.kind = "record" => Timed(kept, now, r.jump)
  /\ op.kind = "record" => Timed(kept, now, op.jump)

(* While a clear goes on to this browser's own history no jump has the     *)
(* epoch it gave the account's, so that sharing it is safe.                *)
Older(clock, jump) == jump.epoch < clock
DeviceLast ==
  op.step = "device" =>
    /\ capture # NoJump => Older(now, capture)
    /\ \A r \in Waiting(queue) : r.kind = "record" => Older(now, r.jump)

Timings == EpochsPast /\ JumpsTimed /\ DeviceLast /\ RecordedWhereTimed

(* Neither who is signed in nor whoever a request serves was forgotten. *)
NobodyForgotten == scope \notin forgotten /\ op.scope \notin forgotten

Gone == NobodyForgotten /\ ForgottenStaysForgotten

(* An import under way: what it takes the account to have is there, or     *)
(* neither wanted nor noted any more, as long as the account is signed in; *)
(* it saw every note of the device, and where it is about to drop one the  *)
(* account has one on the moment.                                          *)
Importing == op.kind = "import" /\ op.step # "start"
Missed(saves, notes) == {m \in Moments : m \in saves \/ On(notes, m) # {}}

ImportedIsThere ==
  Importing /\ StillHere =>
    /\ op.have \cap Missed(wanted, noted) \subseteq hosted[op.scope]
    /\ Writing => op.moment \subseteq op.have
NotesSeen == Importing => kept[Local].notes \subseteq op.notes
NoteMoved ==
  Importing /\ op.step = "drop" =>
    \A n \in kept[Local].notes \cap noted :
      n.on \in op.moment => On(kept[op.scope].notes, n.on) # {}

(* A removal the account confirmed took the note's mark with it. *)
RemovedIsUnnoted ==
  op.kind = "unsave" /\ op.step = "apply" => \A m \in op.moment : On(noted, m) = {}

Carried ==
  ImportedIsThere /\ NotesSeen /\ NoteMoved /\ RemovedIsUnnoted /\ SavesKept

IInv == Base /\ Timings /\ Gone /\ Carried

-----------------------------------------------------------------------------
(* What the data are. *)
LEMMA Places ==
  /\ Local \in Scopes /\ Accounts \subseteq Scopes /\ Local \notin Accounts
  /\ MaxEpoch \in Nat /\ \A s \in Scopes : s = Local \/ s \in Accounts
BY MyMomentsAssumption DEF Scopes

LEMMA Blank ==
  /\ NoJump \in Jumps /\ Idle \in Requests /\ Empty \in ScopeRecords
  /\ Idle.kind = "none" /\ Idle.step = "start" /\ Idle.scope = Local
  /\ Empty.saves = {} /\ Empty.history = {} /\ Empty.epoch = 0 /\ Empty.on = FALSE
  /\ Empty.notes = {} /\ Empty.aside = {}
BY Places DEF NoJump, Jumps, Idle, Requests, Empty, ScopeRecords, Kinds, Steps

LEMMA RequestTyped ==
  ASSUME NEW kind \in Kinds, NEW s \in Scopes, NEW moments \in SUBSET Moments
  PROVE  /\ Request(kind, s, moments) \in Requests
         /\ Request(kind, s, moments).kind = kind /\ Request(kind, s, moments).scope = s
         /\ Request(kind, s, moments).step = "start"
BY Blank DEF Request, Requests

LEMMA VoidTyped ==
  ASSUME NEW j \in Jumps, NEW s
  PROVE  /\ VoidIn(s, j) \in Jumps /\ VoidIn(s, j).of = j.of /\ VoidIn(s, j).twin = j.twin
         /\ VoidIn(s, j).epoch = j.epoch /\ VoidIn(s, j).void = (j.void \/ j.of = s)
         /\ j = NoJump => VoidIn(s, j) = NoJump
<1>1. VoidIn(s, j) = [of |-> j.of, epoch |-> j.epoch, void |-> j.void \/ j.of = s, twin |-> j.twin]
  BY DEF VoidIn, Jumps
<1>2. j.void \in BOOLEAN /\ (j.void \/ j.of = s) \in BOOLEAN /\ j.twin \in BOOLEAN
  BY DEF Jumps
<1>3. ASSUME j = NoJump PROVE VoidIn(s, j) = NoJump
  <2>1. j.of = Local /\ j.epoch = 0 /\ j.void = TRUE /\ j.twin = FALSE
    BY <1>3 DEF NoJump
  <2>2. (j.void \/ j.of = s) = TRUE
    BY <2>1
  <2> QED BY <1>1, <2>1, <2>2 DEF NoJump
<1>4. j.of \in Scopes /\ j.epoch \in 0..MaxEpoch
  BY DEF Jumps
<1>5. VoidIn(s, j) \in Jumps
  BY <1>1, <1>2, <1>4 DEF Jumps
<1> QED BY <1>1, <1>3, <1>5

LEMMA VisitsTyped ==
  /\ \A s \in Scopes : Visit(s) \in Visits
  /\ \A j \in Jumps : VisitOf(j) \in Visits
<1>1. ASSUME NEW s \in Scopes PROVE Visit(s) \in Visits
  BY DEF Visit, Visits
<1>2. ASSUME NEW j \in Jumps PROVE VisitOf(j) \in Visits
  <2>1. j.of \in Scopes /\ j.void \in BOOLEAN /\ j.twin \in BOOLEAN
    BY DEF Jumps
  <2> QED BY <2>1 DEF VisitOf, Visits
<1> QED BY <1>1, <1>2

(* Queues. *)
LEMMA Appended ==
  ASSUME NEW q \in Seq(Requests), NEW r \in Requests
  PROVE  /\ Append(q, r) \in Seq(Requests)
         /\ \A x \in Waiting(Append(q, r)) : x = r \/ x \in Waiting(q)
<1>1. \A i \in DOMAIN Append(q, r) :
        \/ i \in DOMAIN q /\ Append(q, r)[i] = q[i]
        \/ Append(q, r)[i] = r
  OBVIOUS
<1> QED BY <1>1 DEF Waiting

LEMMA Served1 ==
  ASSUME NEW q \in Seq(Requests), q # <<>>
  PROVE  /\ Tail(q) \in Seq(Requests) /\ Waiting(Tail(q)) \subseteq Waiting(q)
         /\ Head(q) \in Waiting(q) /\ Head(q) \in Requests
<1>1. \A i \in DOMAIN Tail(q) : i + 1 \in DOMAIN q /\ Tail(q)[i] = q[i + 1]
  OBVIOUS
<1>2. 1 \in DOMAIN q /\ Head(q) = q[1] /\ q[1] \in Requests
  OBVIOUS
<1> QED BY <1>1, <1>2 DEF Waiting

Voided(s, r) == [r EXCEPT !.jump = VoidIn(s, r.jump)]

LEMMA VoidedTyped ==
  ASSUME NEW r \in Requests, NEW s
  PROVE  /\ Voided(s, r) \in Requests /\ Voided(s, r).jump = VoidIn(s, r.jump)
         /\ Voided(s, r).kind = r.kind /\ Voided(s, r).scope = r.scope
         /\ Voided(s, r).step = r.step
<1>1. r.jump \in Jumps
  BY DEF Requests
<1>2. VoidIn(s, r.jump) \in Jumps
  BY <1>1, VoidTyped
<1> QED BY <1>2 DEF Voided, Requests

LEMMA VoidedQueue ==
  ASSUME NEW q \in Seq(Requests), NEW s, VoidJumps(s, q)
  PROVE  /\ queue' \in Seq(Requests)
         /\ \A x \in Waiting(queue') : \E r \in Waiting(q) : x = Voided(s, r)
         /\ capture' = VoidIn(s, capture)
<1>1. capture' = VoidIn(s, capture) /\ queue' = [i \in DOMAIN q |-> Voided(s, q[i])]
  BY DEF VoidJumps, Voided
<1>2. \A i \in DOMAIN q : q[i] \in Requests
  OBVIOUS
<1>3. \A i \in DOMAIN q : Voided(s, q[i]) \in Requests
  BY <1>2, VoidedTyped
<1>4. queue' \in Seq(Requests)
  BY <1>1, <1>3, Len(q) \in Nat, DOMAIN q = 1..Len(q)
<1> QED BY <1>1, <1>4 DEF Waiting

(* Records. *)
KeptOK(k) == k \in [Scopes -> ScopeRecords] /\ \A a \in Accounts : k[a].saves = {}

LEMMA PutKept ==
  ASSUME NEW k, KeptOK(k), NEW s \in Scopes, NEW d \in ScopeRecords,
         s \in Accounts => d.saves = {}
  PROVE  KeptOK([k EXCEPT ![s] = d])
BY DEF KeptOK

LEMMA RecordUpdates ==
  ASSUME NEW d \in ScopeRecords
  PROVE  /\ \A entries \in SUBSET Visits : [d EXCEPT !.history = @ \cup entries] \in ScopeRecords
         /\ \A notes \in SUBSET Notes : [d EXCEPT !.notes = notes] \in ScopeRecords
         /\ \A e \in 0..MaxEpoch : [d EXCEPT !.epoch = e] \in ScopeRecords
BY DEF ScopeRecords

(* What a removal, a bookmark that is gone and a note that joins make of a *)
(* record.                                                                 *)
LEMMA WithoutFits ==
  ASSUME NEW d \in ScopeRecords, NEW m
  PROVE  /\ Without(d, m) \in ScopeRecords
         /\ Without(d, m).saves = d.saves \ {m} /\ Without(d, m).notes = d.notes \ On(d.notes, m)
         /\ Without(d, m).history = d.history /\ Without(d, m).epoch = d.epoch
BY DEF ScopeRecords, Without, On

LEMMA OrphanedFits ==
  ASSUME NEW d \in ScopeRecords, NEW m
  PROVE  /\ Orphaned(d, m) \in ScopeRecords
         /\ Orphaned(d, m).saves = d.saves /\ Orphaned(d, m).notes = d.notes \ On(d.notes, m)
         /\ Orphaned(d, m).history = d.history /\ Orphaned(d, m).epoch = d.epoch
         /\ d = Empty => Orphaned(d, m) = Empty
<1> DEFINE gone == {n.on : n \in On(d.notes, m)}
<1>1. gone \subseteq Moments /\ (d.notes = {} => gone = {})
  BY DEF ScopeRecords, On, Notes
<1>2. Orphaned(d, m) = [d EXCEPT !.notes = @ \ On(@, m), !.aside = @ \cup gone]
  BY DEF Orphaned
<1> HIDE DEF gone
<1>3. ASSUME d = Empty PROVE Orphaned(d, m) = Empty
  <2>1. d.notes = {} /\ d.aside = {} /\ gone = {} /\ On(d.notes, m) = {}
    BY <1>1, <1>3 DEF Empty, On
  <2> QED BY <1>2, <1>3, <2>1 DEF Empty
<1> QED BY <1>1, <1>2, <1>3 DEF ScopeRecords

LEMMA JoinedFits ==
  ASSUME NEW d \in ScopeRecords, NEW m, op \in Requests
  PROVE  /\ Joined(d, m) \in ScopeRecords
         /\ Joined(d, m).saves = d.saves /\ d.notes \subseteq Joined(d, m).notes
         /\ Joined(d, m).history = d.history /\ Joined(d, m).epoch = d.epoch
         /\ m \in hosted[op.scope] /\ On(op.notes, m) # {} => On(Joined(d, m).notes, m) # {}
<1> DEFINE new == On(op.notes, m)
           gone == {n.on : n \in new}
<1>1. new \subseteq Notes /\ gone \subseteq Moments /\ \A n \in new : n.on = m
  BY DEF Requests, On, Notes
<1>2. \/ On(d.notes, m) # {} /\ Joined(d, m) = d
      \/ m \in hosted[op.scope] /\ Joined(d, m) = [d EXCEPT !.notes = @ \cup new]
      \/ m \notin hosted[op.scope] /\ Joined(d, m) = [d EXCEPT !.aside = @ \cup gone]
  BY DEF Joined
<1> HIDE DEF new, gone
<1>3. /\ Joined(d, m) \in ScopeRecords
      /\ Joined(d, m).saves = d.saves /\ d.notes \subseteq Joined(d, m).notes
      /\ Joined(d, m).history = d.history /\ Joined(d, m).epoch = d.epoch
  BY <1>1, <1>2 DEF ScopeRecords
<1>4. ASSUME m \in hosted[op.scope], new # {} PROVE On(Joined(d, m).notes, m) # {}
  <2>1. CASE On(d.notes, m) # {} /\ Joined(d, m) = d
    BY <2>1
  <2>2. CASE Joined(d, m) = [d EXCEPT !.notes = @ \cup new]
    <3>1. Joined(d, m).notes = d.notes \cup new
      BY <2>2 DEF ScopeRecords
    <3> QED BY <1>1, <1>4, <3>1 DEF On
  <2> QED BY <1>2, <1>4, <2>1, <2>2
<1> QED BY <1>3, <1>4 DEF new
-----------------------------------------------------------------------------
(* Types and shapes of requests, one step per action that writes the part. *)
(* What importBackup adds: saves, their notes, and to the scope's history. *)
BackupVisits == IF kept[scope].on THEN {Visit(scope)} ELSE {}
BackupNotes(m) == SUBSET {[on |-> m, by |-> Local]}

LEMMA KeptOfBase == Base => KeptOK(kept) /\ (\A s \in Scopes : kept[s] \in ScopeRecords)
BY DEF Base, TypeOK, KeptOK

LEMMA KeptStep ==
  ASSUME Base, Next PROVE KeptOK(kept')
<1> USE KeptOfBase, Places
<1>0. scope \in Scopes /\ op.scope \in Scopes /\ now \in 0..MaxEpoch /\ op \in Requests
      /\ op.jump \in Jumps /\ mix \cap Moments \subseteq Moments
  BY DEF Base, TypeOK, Requests
<1>1. CASE kept' = kept
  BY <1>1
<1>2. ASSUME NEW s \in Scopes, NEW d \in ScopeRecords, s \in Accounts => d.saves = {},
             kept' = [kept EXCEPT ![s] = d]
      PROVE  KeptOK(kept')
  BY <1>2, PutKept
<1>3. CASE Forget
  <2>1. Head(queue).scope \in Scopes
    BY <1>3, Served1 DEF Forget, Base, TypeOK, Requests
  <2> QED BY <1>2, <1>3, <2>1, Blank DEF Forget
<1>4. CASE Status
  <2>1. FirstEpoch(op.scope) \in 0..MaxEpoch
    BY <1>0, <1>4 DEF Status, FirstEpoch, ScopeRecords
  <2> DEFINE d == [kept[op.scope] EXCEPT !.epoch = FirstEpoch(op.scope)]
  <2>2. d \in ScopeRecords /\ d.saves = kept[op.scope].saves
    BY <1>0, <2>1 DEF ScopeRecords
  <2>3. kept' = [kept EXCEPT ![op.scope] = d]
    BY <1>4 DEF Status
  <2> HIDE DEF d
  <2> QED BY <1>0, <1>2, <2>2, <2>3 DEF KeptOK
<1>5. CASE Record
  <2> SUFFICES ASSUME kept' # kept PROVE KeptOK(kept')
    BY <1>1
  <2> DEFINE d == [kept[scope] EXCEPT !.history = @ \cup {VisitOf(op.jump)}]
  <2>1. VisitOf(op.jump) \in Visits
    BY <1>0, VisitsTyped
  <2>2. d \in ScopeRecords /\ d.saves = kept[scope].saves
    BY <1>0, <2>1 DEF ScopeRecords
  <2>3. kept' = [kept EXCEPT ![scope] = d]
    BY <1>5 DEF Record
  <2> HIDE DEF d
  <2> QED BY <1>0, <1>2, <2>2, <2>3 DEF KeptOK
<1>6. ASSUME NEW s \in Scopes, NEW e \in ScopeRecords, NEW time \in {now, now + 1},
             Moves(s, e, time), e.saves = kept[s].saves
      PROVE  KeptOK(kept')
  <2>1. time \in 0..MaxEpoch
    BY <1>0, <1>6 DEF Moves
  <2> DEFINE d == [e EXCEPT !.epoch = time]
  <2>2. d \in ScopeRecords /\ d.saves = kept[s].saves
    BY <1>6, <2>1, RecordUpdates DEF ScopeRecords
  <2>3. kept' = [kept EXCEPT ![s] = d]
    BY <1>6 DEF Moves
  <2> HIDE DEF d
  <2> QED BY <1>2, <2>2, <2>3 DEF KeptOK
<1>7. CASE Clear \/ ClearDevice \/ Switch
  <2>1. \A s \in Scopes, on \in BOOLEAN :
          /\ [kept[s] EXCEPT !.history = {}] \in ScopeRecords
          /\ [kept[s] EXCEPT !.history = {}].saves = kept[s].saves
          /\ [kept[s] EXCEPT !.on = on] \in ScopeRecords
          /\ [kept[s] EXCEPT !.on = on].saves = kept[s].saves
    BY DEF ScopeRecords
  <2> QED BY <1>0, <1>1, <1>6, <1>7, <2>1 DEF Clear, ClearDevice, Switch
<1>8. CASE LearnSync
  <2> DEFINE d == [kept[scope] EXCEPT !.on = TRUE]
  <2>1. d \in ScopeRecords /\ d.saves = kept[scope].saves /\ kept' = [kept EXCEPT ![scope] = d]
    BY <1>0, <1>8 DEF LearnSync, ScopeRecords
  <2> HIDE DEF d
  <2> QED BY <1>0, <1>2, <2>1 DEF KeptOK
<1>9. CASE ImportHistory
  <2> SUFFICES ASSUME kept' # kept PROVE KeptOK(kept')
    BY <1>1
  <2> DEFINE d == [kept[scope] EXCEPT !.history = @ \cup {Visit(scope)}]
  <2>0. Visit(scope) \in Visits
    BY <1>0, VisitsTyped
  <2>1. d \in ScopeRecords /\ d.saves = kept[scope].saves
    BY <1>0, <2>0 DEF ScopeRecords
  <2>2. kept' = [kept EXCEPT ![scope] = d]
    BY <1>9 DEF ImportHistory
  <2> HIDE DEF d
  <2> QED BY <1>0, <1>2, <2>1, <2>2 DEF KeptOK
<1>10. ASSUME NEW m \in Moments, kept' = [kept EXCEPT ![Local].saves = @ \cup {m}]
       PROVE  KeptOK(kept')
  <2>1. kept' = [kept EXCEPT ![Local] = [kept[Local] EXCEPT !.saves = @ \cup {m}]]
    BY <1>10
  <2>2. [kept[Local] EXCEPT !.saves = @ \cup {m}] \in ScopeRecords
    BY DEF ScopeRecords
  <2> QED BY <1>2, <2>1, <2>2
<1>11. ASSUME NEW s \in Scopes, NEW d \in ScopeRecords, d.saves = kept[s].saves,
              kept' = [kept EXCEPT ![s] = d]
       PROVE  KeptOK(kept')
  BY <1>2, <1>11 DEF KeptOK
<1>12. ASSUME NEW s \in Scopes, NEW m, kept' = [kept EXCEPT ![s] = Without(@, m)]
       PROVE  KeptOK(kept')
  <2>1. Without(kept[s], m) \in ScopeRecords /\ Without(kept[s], m).saves = kept[s].saves \ {m}
    BY WithoutFits
  <2> QED BY <1>2, <1>12, <2>1 DEF KeptOK
<1>18. ASSUME NEW s \in Scopes, NEW m, kept' = [kept EXCEPT ![s] = Orphaned(@, m)]
       PROVE  KeptOK(kept')
  <2>1. Orphaned(kept[s], m) \in ScopeRecords /\ Orphaned(kept[s], m).saves = kept[s].saves
    BY OrphanedFits
  <2> QED BY <1>11, <1>18, <2>1
<1>13. ASSUME NEW m \in Moments, ImportBackup(m) PROVE KeptOK(kept')
  <2> SUFFICES ASSUME kept' # kept PROVE KeptOK(kept')
    BY <1>1
  <2>1. PICK added \in SUBSET {m}, notes \in SUBSET Notes :
          kept' = [kept EXCEPT ![Local].saves = @ \cup added,
                               ![Local].notes = @ \cup notes,
                               ![scope].history = @ \cup BackupVisits]
    <3>1. PICK seen \in {{}, IF scope = Local THEN {} ELSE hosted[scope]}, note \in BackupNotes(m) :
            kept' = [kept EXCEPT
                      ![Local].saves = @ \cup ({m} \ (seen \cup kept[Local].saves)),
                      ![Local].notes =
                        @ \cup {n \in note : n.on \in {m} \ (seen \cup kept[Local].saves)},
                      ![scope].history = @ \cup BackupVisits]
      BY <1>13, Zenon DEF ImportBackup, BackupVisits, BackupNotes
    <3>2. {m} \ (seen \cup kept[Local].saves) \in SUBSET {m}
      OBVIOUS
    <3>3. [on |-> m, by |-> Local] \in Notes
      BY DEF Notes
    <3>4. {n \in note : n.on \in {m} \ (seen \cup kept[Local].saves)} \in SUBSET Notes
      BY <3>3 DEF BackupNotes
    <3> QED BY <3>1, <3>2, <3>4, Zenon
  <2>3. added \subseteq Moments /\ BackupVisits \in SUBSET Visits
    BY <1>0, VisitsTyped DEF BackupVisits
  <2> DEFINE d == [kept[Local] EXCEPT !.saves = @ \cup added, !.notes = @ \cup notes]
             e == [(IF scope = Local THEN d ELSE kept[scope]) EXCEPT !.history = @ \cup BackupVisits]
  <2>4. d \in ScopeRecords
    BY <1>0, <2>3 DEF ScopeRecords
  <2>5. e \in ScopeRecords /\ (scope \in Accounts => e.saves = kept[scope].saves)
    <3> HIDE DEF d
    <3> QED BY <1>0, <2>3, <2>4 DEF ScopeRecords
  <2>6. kept' = [[kept EXCEPT ![Local] = d] EXCEPT ![scope] = e]
    BY <1>0, <2>1 DEF KeptOK
  <2> HIDE DEF d, e
  <2> QED BY <1>0, <2>4, <2>5, <2>6, PutKept DEF KeptOK
<1>14. ASSUME NEW m \in Moments, Served(m) PROVE KeptOK(kept')
  <2>1. CASE SavePosted(m) \/ UnsaveDeleted(m) \/ ImportPosted(m)
    BY <1>0, <1>1, <1>18, <2>1 DEF SavePosted, UnsaveDeleted, ImportPosted
  <2>2. CASE Save(m)
    BY <1>1, <1>10, <2>2 DEF Save
  <2>3. CASE Unsave(m) \/ UnsaveApplied(m) \/ UnsaveDevice(m) \/ ImportDropped(m)
    BY <1>0, <1>1, <1>12, <2>3 DEF Unsave, UnsaveApplied, UnsaveDevice, ImportDropped
  <2>4. CASE Edit(m)
    <3> SUFFICES ASSUME kept' # kept PROVE KeptOK(kept')
      BY <1>1
    <3>1. PICK new \in SUBSET {[on |-> m, by |-> scope]} :
            kept' = [kept EXCEPT ![scope].notes = (@ \ On(kept[scope].notes, m)) \cup new]
      BY <2>4 DEF Edit
    <3> DEFINE d == [kept[scope] EXCEPT !.notes = (@ \ On(kept[scope].notes, m)) \cup new]
    <3>2. [on |-> m, by |-> scope] \in Notes
      BY <1>0 DEF Notes
    <3>3. d \in ScopeRecords /\ d.saves = kept[scope].saves
      BY <1>0, <3>2 DEF ScopeRecords
    <3>4. kept' = [kept EXCEPT ![scope] = d]
      BY <1>0, <3>1
    <3> HIDE DEF d
    <3> QED BY <1>0, <1>11, <3>3, <3>4
  <2>5. CASE ImportNoted(m)
    <3>1. kept' = [kept EXCEPT ![op.scope] = Joined(kept[op.scope], m)]
      BY <2>5 DEF ImportNoted
    <3>2. /\ Joined(kept[op.scope], m) \in ScopeRecords
          /\ Joined(kept[op.scope], m).saves = kept[op.scope].saves
      BY <1>0, JoinedFits
    <3> QED BY <1>0, <1>11, <3>1, <3>2
  <2> QED BY <1>13, <1>14, <2>1, <2>2, <2>3, <2>4, <2>5 DEF Served
<1>15. ASSUME NEW m \in Moments, PanelSaves(m) \/ PanelRemoves(m) PROVE KeptOK(kept')
  <2>1. CASE PanelSaves(m)
    BY <1>1, <1>10, <2>1 DEF PanelSaves
  <2>2. CASE PanelRemoves(m)
    <3>1. \/ kept' = [kept EXCEPT ![Local] = Without(@, m)]
          \/ kept' = [kept EXCEPT ![scope] = Orphaned(@, m)]
          \/ kept' = [kept EXCEPT ![scope] = Without(@, m)]
      BY <2>2 DEF PanelRemoves
    <3> QED BY <1>0, <1>12, <1>18, <3>1
  <2> QED BY <1>15, <2>1, <2>2
<1>16. ASSUME NEW a \in Accounts, LinkReplays(a) PROVE KeptOK(kept')
  <2> SUFFICES ASSUME kept' # kept PROVE KeptOK(kept')
    BY <1>1
  <2>1. PICK m \in Moments : kept' = [kept EXCEPT ![a].aside = @ \cup {m}]
    BY <1>16 DEF LinkReplays, Base, TypeOK
  <2> DEFINE d == [kept[a] EXCEPT !.aside = @ \cup {m}]
  <2>2. d \in ScopeRecords /\ d.saves = kept[a].saves /\ kept' = [kept EXCEPT ![a] = d]
    BY <2>1 DEF ScopeRecords
  <2> HIDE DEF d
  <2> QED BY <1>2, <2>2 DEF KeptOK
<1>17. CASE \/ Ask \/ AskRecord \/ TabLeaves \/ Serve \/ Load \/ ImportListed
            \/ (\E a \in Accounts : SignIn(a)) \/ SignOut \/ Rejected \/ Stop
            \/ \E a \in Accounts, m \in Moments : SavedElsewhere(a, m)
  BY <1>1, <1>17 DEF Ask, AskRecord, TabLeaves, Serve, Load, ImportListed, SignIn, SignOut,
                     Rejected, Stop, SavedElsewhere
<1>19. ASSUME NEW a \in Accounts, NEW m \in Moments, RemovedElsewhere(a, m) PROVE KeptOK(kept')
  BY <1>18, <1>19 DEF RemovedElsewhere
<1> QED
  BY <1>3, <1>4, <1>5, <1>7, <1>8, <1>9, <1>14, <1>15, <1>16, <1>17, <1>19 DEF Next
LEMMA QueueStep ==
  ASSUME Base, Next PROVE queue' \in Seq(Requests) /\ QueueFits'
<1> USE Places
<1>0. /\ scope \in Scopes /\ op.scope \in Scopes /\ op \in Requests /\ capture \in Jumps
      /\ queue \in Seq(Requests) /\ QueueFits
  BY DEF Base, TypeOK, Requests
<1>1. CASE Waiting(queue') \subseteq Waiting(queue) /\ queue' \in Seq(Requests)
  BY <1>0, <1>1 DEF QueueFits
<1>2. ASSUME NEW r \in Requests, queue' = Append(queue, r), r.step = "start",
             r.kind = "forget" => r.scope \in Accounts
      PROVE  queue' \in Seq(Requests) /\ QueueFits'
  BY <1>0, <1>2, Appended DEF QueueFits
<1>3. ASSUME NEW s \in Scopes, NEW q \in Seq(Requests), VoidJumps(s, q),
             Waiting(q) \subseteq Waiting(queue)
      PROVE  queue' \in Seq(Requests) /\ QueueFits'
  <2>1. \A r \in Waiting(q) : r \in Requests
    BY DEF Waiting
  <2> QED BY <1>0, <1>3, <2>1, VoidedQueue, VoidedTyped DEF QueueFits
<1>4. CASE Ask
  <2>1. PICK kind \in Kinds \ {"forget"}, moments \in SUBSET Moments :
          queue' = Append(queue, Request(kind, scope, moments))
    BY <1>4, Zenon DEF Ask, Kinds
  <2> QED BY <1>0, <1>2, <2>1, RequestTyped
<1>5. CASE AskRecord
  <2> DEFINE r == [Request("record", scope, {}) EXCEPT !.jump = capture]
  <2>1. Request("record", scope, {}) \in Requests /\ Request("record", scope, {}).kind = "record"
        /\ Request("record", scope, {}).step = "start"
    BY <1>0, RequestTyped DEF Kinds
  <2>2. r \in Requests /\ r.kind = "record" /\ r.step = "start"
    BY <1>0, <2>1 DEF Requests
  <2>3. queue' = Append(queue, r)
    BY <1>5 DEF AskRecord
  <2> HIDE DEF r
  <2> QED BY <1>2, <2>2, <2>3
<1>6. CASE Serve
  BY <1>0, <1>1, <1>6, Served1 DEF Serve
<1>7. CASE Forget
  <2>1. VoidJumps(Head(queue).scope, Tail(queue)) /\ queue # <<>>
    BY <1>7 DEF Forget
  <2> QED BY <1>0, <1>3, <2>1, Served1 DEF Requests
<1>8. CASE Clear \/ ClearDevice \/ Switch
  <2>1. queue' = queue \/ \E s \in Scopes : VoidJumps(s, queue)
    BY <1>0, <1>8 DEF Clear, ClearDevice, Switch, Moves
  <2> QED BY <1>0, <1>1, <1>3, <2>1
<1>9. CASE SignOut
  <2>1. queue' = Append(queue, Request("forget", scope, {})) /\ scope \in Accounts
    BY <1>9 DEF SignOut
  <2> QED BY <1>0, <1>2, <2>1, RequestTyped DEF Kinds
<1>10. CASE Stop
  <2>1. Waiting(<<>>) = {} /\ <<>> \in Seq(Requests)
    BY DEF Waiting
  <2> QED BY <1>10, <2>1 DEF Stop, QueueFits
<1>11. CASE queue' = queue
  BY <1>0, <1>11 DEF QueueFits
<1>12. CASE \/ TabLeaves \/ Status \/ Record \/ LearnSync \/ ImportHistory \/ ImportListed
            \/ Load \/ (\E m \in Moments : PanelSaves(m) \/ PanelRemoves(m)) \/ Rejected
            \/ (\E a \in Accounts : LinkReplays(a) \/ SignIn(a))
            \/ \E a \in Accounts, m \in Moments : SavedElsewhere(a, m) \/ RemovedElsewhere(a, m)
  BY <1>11, <1>12 DEF TabLeaves, Status, Record, LearnSync, ImportHistory, ImportListed,
                      Load, PanelSaves, PanelRemoves, Rejected, LinkReplays, SignIn,
                      SavedElsewhere, RemovedElsewhere
<1>13. CASE \E m \in Moments : Served(m)
  BY <1>11, <1>13 DEF Served, Save, SavePosted, Unsave, UnsaveDeleted, UnsaveApplied,
         UnsaveDevice, Edit, ImportPosted, ImportNoted, ImportDropped, ImportBackup
<1> QED
  BY <1>4, <1>5, <1>6, <1>7, <1>8, <1>9, <1>10, <1>12, <1>13 DEF Next

LEMMA OpStep ==
  ASSUME Base, Next PROVE op' \in Requests /\ OpFits'
<1> USE Places, Blank
<1>0. /\ scope \in Scopes /\ op.scope \in Scopes /\ op \in Requests /\ OpFits
      /\ queue \in Seq(Requests) /\ QueueFits
  BY DEF Base, TypeOK, Requests
<1>1. CASE op' = Idle
  BY <1>0, <1>1 DEF OpFits, Writing
<1>2. CASE op' = op /\ (Writing => scope' = scope)
  BY <1>0, <1>2 DEF OpFits, Writing
<1>3. CASE Serve
  <2>1. Head(queue) \in Requests /\ Head(queue).step = "start"
    BY <1>0, <1>3, Served1 DEF Serve, QueueFits
  <2>2. Resolved(Head(queue)) \in Requests /\ Resolved(Head(queue)).step = "start"
    BY <1>0, <2>1 DEF Resolved, Requests
  <2>3. op' = Resolved(Head(queue))
    BY <1>3 DEF Serve
  <2> QED BY <2>2, <2>3 DEF OpFits, Writing
<1>4. ASSUME NEW step \in Steps \ {"note", "drop"}, op.scope \in Accounts,
             op' = [op EXCEPT !.step = step]
      PROVE  op' \in Requests /\ OpFits'
  BY <1>0, <1>4 DEF OpFits, Writing, Requests
<1>5. CASE Clear
  BY <1>0, <1>1, <1>4, <1>5 DEF Clear, Ended, Step, Steps
<1>6. CASE ImportListed
  <2>1. CASE op' = Idle
    BY <1>1, <2>1
  <2>2. CASE op' # Idle
    <3>1. scope = op.scope /\ scope \in Accounts /\ hosted[scope] \in SUBSET Moments
          /\ kept[Local].notes \in SUBSET Notes
      BY <1>6, <2>2, KeptOfBase DEF ImportListed, Ended, StillHere, Base, TypeOK, ScopeRecords
    <3>2. op.moment \cap kept[Local].saves \in SUBSET Moments
      BY <1>0 DEF Requests
    <3>3. op' = [op EXCEPT !.step = "post", !.chosen = op.moment \cap kept[Local].saves,
                           !.have = hosted[scope], !.notes = kept[Local].notes]
      BY <1>6, <2>2 DEF ImportListed, Ended
    <3> QED BY <1>0, <3>1, <3>2, <3>3 DEF OpFits, Writing, Requests, Steps
  <2> QED BY <2>1, <2>2
<1>7. ASSUME NEW m \in Moments, ImportPosted(m) PROVE op' \in Requests /\ OpFits'
  <2>1. CASE op' = Idle
    BY <1>1, <2>1
  <2>2. CASE op' # Idle
    <3>1. scope = op.scope /\ ImportConfirmed(m) /\ UNCHANGED scope
          /\ op.kind = "import" /\ op.step = "post"
      BY <1>7, <2>2 DEF ImportPosted, Ended, StillHere, Serves
    <3>2. op.scope \in Accounts
      BY <1>0, <3>1 DEF OpFits
    <3>3. op' = [op EXCEPT !.step = "note", !.moment = {m}, !.have = op.have \cup {m}]
      BY <3>1 DEF ImportConfirmed
    <3> QED BY <1>0, <3>1, <3>2, <3>3 DEF OpFits, Writing, Requests, Steps
  <2> QED BY <2>1, <2>2
<1>8. ASSUME NEW m \in Moments, ImportNoted(m) PROVE op' \in Requests /\ OpFits'
  BY <1>0, <1>8 DEF ImportNoted, Serves, Step, OpFits, Writing, Requests, Steps
<1>9. ASSUME NEW m \in Moments, ImportDropped(m) PROVE op' \in Requests /\ OpFits'
  <2>1. CASE op.chosen = {m}
    BY <1>1, <1>9, <2>1 DEF ImportDropped, Ended
  <2>2. CASE op.chosen # {m}
    <3>1. op' = [op EXCEPT !.step = "post", !.chosen = op.chosen \ {m}] /\ op.step = "drop"
      BY <1>9, <2>2 DEF ImportDropped, Serves
    <3>2. op.scope \in Accounts /\ op.chosen \ {m} \in SUBSET Moments
      BY <1>0, <3>1 DEF OpFits, Requests
    <3> QED BY <1>0, <3>1, <3>2 DEF OpFits, Writing, Requests, Steps
  <2> QED BY <2>1, <2>2
<1>10. ASSUME NEW m \in Moments, Save(m) \/ Unsave(m) \/ UnsaveDeleted(m)
       PROVE  op' \in Requests /\ OpFits'
  <2>1. op' = Idle
        \/ (op.scope \in Accounts
            /\ \E step \in {"post", "delete", "apply"} : op' = [op EXCEPT !.step = step])
    BY <1>0, <1>10 DEF Save, Unsave, UnsaveDeleted, Ended, Step, Serves, OpFits
  <2> QED BY <1>1, <1>4, <2>1 DEF Steps
<1>11. ASSUME NEW m \in Moments, Served(m) PROVE op' \in Requests /\ OpFits'
  BY <1>1, <1>7, <1>8, <1>9, <1>10, <1>11
     DEF Served, SavePosted, UnsaveApplied, UnsaveDevice, Edit, ImportBackup, Ended
<1>12. CASE Status \/ Record \/ ClearDevice \/ Switch \/ ImportHistory \/ Load \/ Stop
  BY <1>1, <1>12 DEF Status, Record, ClearDevice, Switch, ImportHistory, Load, Stop, Ended
<1>13. CASE \/ Ask \/ AskRecord \/ TabLeaves \/ Forget \/ LearnSync \/ SignOut \/ Rejected
            \/ \E m \in Moments : PanelSaves(m) \/ PanelRemoves(m)
            \/ \E a \in Accounts : LinkReplays(a)
            \/ \E a \in Accounts, m \in Moments : SavedElsewhere(a, m) \/ RemovedElsewhere(a, m)
  BY <1>2, <1>13 DEF Ask, AskRecord, TabLeaves, Forget, LearnSync, SignOut, Rejected,
         PanelSaves, PanelRemoves, LinkReplays, SavedElsewhere, RemovedElsewhere
<1>14. ASSUME NEW a \in Accounts, SignIn(a) PROVE op' \in Requests /\ OpFits'
  <2>1. op' = op /\ ~ Writing
    BY <1>0, <1>14 DEF SignIn, BetweenRequests, Writing, OpFits
  <2> QED BY <1>2, <2>1
<1> QED
  BY <1>3, <1>5, <1>6, <1>11, <1>12, <1>13, <1>14 DEF Next
LEMMA BaseStep ==
  ASSUME Base, [Next]_vars PROVE Base'
<1>1. CASE UNCHANGED vars
  BY <1>1 DEF Base, TypeOK, QueueFits, OpFits, Writing, Waiting, vars
<1>2. CASE Next
  <2> USE Places, Blank
  <2>0. TypeOK /\ op \in Requests /\ op.scope \in Scopes /\ capture \in Jumps
        /\ now \in 0..MaxEpoch
    BY DEF Base, TypeOK, Requests
  <2>1. scope' \in Scopes
    BY <1>2, <2>0 DEF TypeOK, Next, Ask, AskRecord, TabLeaves, Serve, Forget, Status, Record,
       Clear, ClearDevice, Switch, LearnSync, ImportHistory, ImportListed, Load, Served, Save,
       SavePosted, Unsave, UnsaveDeleted, UnsaveApplied, UnsaveDevice, Edit, ImportPosted,
       ImportNoted, ImportDropped, ImportBackup, PanelSaves, PanelRemoves, LinkReplays, SignIn,
       SignOut, Rejected, Stop, SavedElsewhere, RemovedElsewhere
  <2>2. hosted' \in [Accounts -> SUBSET Moments]
    <3>1. \A a \in Accounts, m \in Moments :
            /\ [hosted EXCEPT ![a] = @ \cup {m}] \in [Accounts -> SUBSET Moments]
            /\ [hosted EXCEPT ![a] = @ \ {m}] \in [Accounts -> SUBSET Moments]
      BY <2>0 DEF TypeOK
    <3>2. ASSUME NEW a \in Scopes, NEW m \in Moments, NEW outcome, NEW add \in BOOLEAN,
                 Hosted(a, m, outcome, add), outcome # "refused" => a \in Accounts
          PROVE  hosted' \in [Accounts -> SUBSET Moments]
      BY <2>0, <3>1, <3>2 DEF Hosted, TypeOK
    <3>3. ASSUME NEW m \in Moments, SavePosted(m) \/ UnsaveDeleted(m) \/ ImportPosted(m)
          PROVE  hosted' \in [Accounts -> SUBSET Moments]
      <4>1. op.scope \in Accounts
        BY <3>3 DEF SavePosted, UnsaveDeleted, ImportPosted, Serves, Base, OpFits
      <4>2. hosted' = hosted \/ \E outcome : \E add \in BOOLEAN : Hosted(op.scope, m, outcome, add)
        BY <3>3 DEF SavePosted, UnsaveDeleted, ImportPosted
      <4> QED BY <2>0, <3>2, <4>1, <4>2 DEF TypeOK
    <3>4. ASSUME NEW m \in Moments, PanelSaves(m) \/ PanelRemoves(m)
          PROVE  hosted' \in [Accounts -> SUBSET Moments]
      <4>1. hosted' = hosted \/ (scope # Local
               /\ \E outcome : \E add \in BOOLEAN : Hosted(scope, m, outcome, add))
        BY <3>4 DEF PanelSaves, PanelRemoves
      <4> QED BY <2>0, <3>2, <4>1 DEF TypeOK
    <3>5. ASSUME NEW a \in Accounts, NEW m \in Moments,
                 SavedElsewhere(a, m) \/ RemovedElsewhere(a, m)
          PROVE  hosted' \in [Accounts -> SUBSET Moments]
      BY <3>1, <3>5 DEF SavedElsewhere, RemovedElsewhere
    <3>6. ASSUME NEW m \in Moments, Served(m)
          PROVE  hosted' \in [Accounts -> SUBSET Moments]
      BY <2>0, <3>3, <3>6 DEF TypeOK, Served, Save, Unsave, UnsaveApplied, UnsaveDevice, Edit,
         ImportNoted, ImportDropped, ImportBackup
    <3> QED BY <1>2, <2>0, <3>4, <3>5, <3>6 DEF TypeOK, Next, Ask, AskRecord, TabLeaves, Serve,
         Forget, Status, Record, Clear, ClearDevice, Switch, LearnSync, ImportHistory,
         ImportListed, Load, LinkReplays, SignIn, SignOut, Rejected, Stop
  <2>3. late' \subseteq Accounts
    BY <1>2, <2>0 DEF TypeOK, Next, Ask, AskRecord, TabLeaves, Serve, Forget, Status, Record,
       Clear, ClearDevice, Switch, LearnSync, ImportHistory, ImportListed, Load, Served, Save,
       SavePosted, Unsave, UnsaveDeleted, UnsaveApplied, UnsaveDevice, Edit, ImportPosted,
       ImportNoted, ImportDropped, ImportBackup, PanelSaves, PanelRemoves, LinkReplays, SignIn,
       SignOut, Rejected, Stop, SavedElsewhere, RemovedElsewhere
  <2>4. capture' \in Jumps /\ now' \in 0..MaxEpoch /\ mix' \in Mixes
    <3>1. CASE Status
      <4>1. FirstEpoch(op.scope) \in 0..MaxEpoch
        BY <2>0, <3>1, KeptOfBase DEF Status, FirstEpoch, ScopeRecords
      <4>2. SharesEpoch(op.scope) \in BOOLEAN
        BY DEF SharesEpoch
      <4>3. now' \in 0..MaxEpoch /\ mix' = mix
        BY <2>0, <3>1 DEF Status
      <4>4. capture' = capture \/ capture' =
              [of |-> op.scope, epoch |-> FirstEpoch(op.scope), void |-> FALSE,
               twin |-> SharesEpoch(op.scope)]
        BY <3>1 DEF Status
      <4>5. ASSUME NEW e \in 0..MaxEpoch, NEW twin \in BOOLEAN
            PROVE  [of |-> op.scope, epoch |-> e, void |-> FALSE, twin |-> twin] \in Jumps
        BY <2>0 DEF Jumps
      <4> QED BY <2>0, <4>1, <4>2, <4>3, <4>4, <4>5 DEF TypeOK
    <3>2. ASSUME NEW s, NEW d, NEW time \in {now, now + 1}, Moves(s, d, time)
          PROVE  capture' \in Jumps /\ now' \in 0..MaxEpoch
      BY <2>0, <3>2, VoidTyped DEF Moves, VoidJumps
    <3>3. CASE Clear \/ ClearDevice \/ Switch
      <4>1. UNCHANGED tab \/ \E s, d : \E time \in {now, now + 1} : Moves(s, d, time)
        BY <3>3 DEF Clear, ClearDevice, Switch, tab
      <4>2. mix' = mix
        BY <3>3 DEF Clear, ClearDevice, Switch
      <4> QED BY <2>0, <3>2, <4>1, <4>2 DEF TypeOK, tab
    <3>4. CASE Forget
      BY <2>0, <3>4, VoidTyped DEF Forget, VoidJumps, TypeOK
    <3>5. ASSUME NEW m \in Moments, Served(m) \/ PanelSaves(m) \/ PanelRemoves(m)
          PROVE  UNCHANGED tab
      BY <3>5 DEF Served, Save, SavePosted, Unsave, UnsaveDeleted, UnsaveApplied, UnsaveDevice,
         Edit, ImportPosted, ImportNoted, ImportDropped, ImportBackup, PanelSaves, PanelRemoves
    <3>6. CASE AskRecord \/ TabLeaves
      BY <2>0, <3>6 DEF AskRecord, TabLeaves, TypeOK
    <3>7. CASE \/ Ask \/ Serve \/ Record \/ LearnSync \/ ImportHistory \/ ImportListed \/ Load
               \/ (\E a \in Accounts : LinkReplays(a) \/ SignIn(a)) \/ SignOut \/ Rejected \/ Stop
               \/ \E a \in Accounts, m \in Moments : SavedElsewhere(a, m) \/ RemovedElsewhere(a, m)
      BY <2>0, <3>7 DEF TypeOK, tab, Ask, Serve, Record, LearnSync, ImportHistory, ImportListed,
         Load, LinkReplays, SignIn, SignOut, Rejected, Stop, SavedElsewhere, RemovedElsewhere
    <3> QED BY <1>2, <2>0, <3>1, <3>3, <3>4, <3>5, <3>6, <3>7 DEF TypeOK, tab, Next
  <2>5. wanted' \subseteq Moments /\ noted' \subseteq Notes /\ forgotten' \subseteq Accounts
    <3>1. ASSUME NEW m \in Moments, Served(m) \/ PanelSaves(m) \/ PanelRemoves(m)
          PROVE  wanted' \subseteq Moments /\ noted' \subseteq Notes /\ forgotten' = forgotten
      <4> USE <2>0 DEF TypeOK, wishes, Unwanted
      <4>0. \A by \in Scopes : [on |-> m, by |-> by] \in Notes
        BY DEF Notes
      <4>1. CASE ImportBackup(m)
        <5>1. noted' = noted \/ \E seen : \E note \in SUBSET {[on |-> m, by |-> Local]} :
                noted' = noted \cup {n \in note : n.on \in {m} \ (seen \cup kept[Local].saves)}
          BY <4>1, Zenon DEF ImportBackup
        <5>2. noted' \subseteq Notes
          BY <4>0, <5>1
        <5>3. wanted' \subseteq Moments /\ forgotten' = forgotten
          BY <4>1 DEF ImportBackup
        <5> QED BY <5>2, <5>3
      <4>2. CASE Edit(m)
        <5>1. noted' = noted \/ \E new \in SUBSET {[on |-> m, by |-> scope]} :
                                  noted' = (noted \ On(kept[scope].notes, m)) \cup new
          BY <4>2, Zenon DEF Edit
        <5> QED BY <4>0, <4>2, <5>1 DEF Edit
      <4>3. CASE ~ ImportBackup(m) /\ ~ Edit(m)
        BY <3>1, <4>3 DEF Served, Save, SavePosted, Unsave, UnsaveDeleted, UnsaveApplied,
           UnsaveDevice, ImportPosted, ImportNoted, ImportDropped, PanelSaves, PanelRemoves
      <4> QED BY <4>1, <4>2, <4>3
    <3>2. CASE Forget
      <4>1. Head(queue).scope \in Accounts
        BY <2>0, <3>2, Served1 DEF Forget, Base, QueueFits, TypeOK
      <4> QED BY <2>0, <3>2, <4>1 DEF TypeOK, Forget
    <3> QED BY <1>2, <2>0, <3>1, <3>2 DEF TypeOK, wishes, Unwanted, Next, Ask, AskRecord,
         TabLeaves, Serve, Status, Record, Clear, ClearDevice, Switch, LearnSync, ImportHistory,
         ImportListed, Load, LinkReplays, SignIn, SignOut, Rejected, Stop, SavedElsewhere,
         RemovedElsewhere
  <2> QED
    BY <1>2, <2>1, <2>2, <2>3, <2>4, <2>5, KeptStep, QueueStep, OpStep DEF Base, TypeOK, KeptOK
<1> QED BY <1>1, <1>2
-----------------------------------------------------------------------------
(* When a jump was timed. *)

(* The records whose epochs and histories a step leaves alone. *)
SameTimes ==
  \A s \in Scopes : kept'[s].epoch = kept[s].epoch /\ kept'[s].history = kept[s].history

(* Every request to record a jump was one already, waiting or being served. *)
NoNewJumps ==
  /\ \A r \in Waiting(queue') : r.kind = "record" => r \in Waiting(queue)
  /\ op'.kind = "record" =>
       \E r \in Waiting(queue) \cup {op} : r.kind = "record" /\ op'.jump = r.jump

LEMMA TimesKept ==
  ASSUME Timings, SameTimes, now' = now, capture' \in {capture, NoJump}, NoNewJumps,
         op'.step = "device" => op.step = "device"
  PROVE  Timings'
<1>1. EpochsPast' /\ RecordedWhereTimed'
  BY DEF Timings, SameTimes, EpochsPast, RecordedWhereTimed
<1>2. \A j : Timed(kept, now, j) => Timed(kept', now', j)
  BY DEF Timed, SameTimes
<1>3. JumpsTimed' /\ DeviceLast'
  BY <1>2 DEF Timings, JumpsTimed, DeviceLast, NoNewJumps
<1> QED BY <1>1, <1>3 DEF Timings

(* A jump stays timed when one scope moves on to an epoch that is none yet, *)
(* to a time nobody had or to one no jump has, and its own jumps are void.  *)
LEMMA VoidedStaysTimed ==
  ASSUME Base, NEW s \in Scopes, NEW j \in Jumps, Timed(kept, now, j), now <= now',
         \A t \in Scopes \ {s} : kept'[t] = kept[t],
         kept'[s].epoch # j.epoch, now \in Nat, now' \in Nat
  PROVE  Timed(kept', now', VoidIn(s, j))
<1>1. VoidIn(s, j).epoch = j.epoch /\ VoidIn(s, j).of = j.of /\ VoidIn(s, j).twin = j.twin
      /\ VoidIn(s, j).void = (j.void \/ j.of = s) /\ j.epoch \in Nat
  BY VoidTyped, Places DEF Jumps
<1>3. ASSUME ~ j.twin, NEW t \in Scopes, kept'[t].epoch = j.epoch
      PROVE  t = j.of /\ ~ VoidIn(s, j).void
  <2>1. t # s /\ kept[t].epoch = j.epoch
    BY <1>3
  <2> QED BY <1>1, <1>3, <2>1 DEF Timed
<1> QED BY <1>1, <1>3 DEF Timed

LEMMA MovedKeepsTimings ==
  ASSUME Base, Timings, NEW s \in Scopes, NEW q \in Seq(Requests), VoidJumps(s, q),
         Waiting(q) \subseteq Waiting(queue), now' \in {now, now + 1},
         \A t \in Scopes \ {s} : kept'[t] = kept[t],
         \/ kept'[s].epoch = 0
         \/ kept'[s].epoch = now + 1 /\ now' = now + 1
         \/ kept'[s].epoch = now /\ op.step = "device",
         kept'[s].history \subseteq kept[s].history,
         op'.kind # "record", op'.step = "device" => now' = now + 1
  PROVE  Timings'
<1>0. /\ now \in Nat /\ now' \in Nat /\ now <= now' /\ capture \in Jumps
      /\ \A t \in Scopes : kept[t].epoch \in Nat
  <2>1. now \in 0..MaxEpoch /\ capture \in Jumps /\ \A t \in Scopes : kept[t] \in ScopeRecords
    BY KeptOfBase DEF Base, TypeOK
  <2> QED BY <2>1, Places DEF ScopeRecords
<1>1. EpochsPast'
  BY <1>0 DEF Timings, EpochsPast
<1>2. RecordedWhereTimed'
  BY DEF Timings, RecordedWhereTimed
<1>3. capture' # NoJump =>
        Timed(kept', now', capture') /\ (now' = now + 1 => Older(now', capture'))
  <2> SUFFICES ASSUME capture' # NoJump
               PROVE  Timed(kept', now', capture') /\ (now' = now + 1 => Older(now', capture'))
    OBVIOUS
  <2>1. capture' = VoidIn(s, capture) /\ capture # NoJump /\ capture'.epoch = capture.epoch
    BY <1>0, VoidedQueue, VoidTyped
  <2>2. /\ Timed(kept, now, capture) /\ (op.step = "device" => Older(now, capture))
        /\ capture.epoch \in Nat
    BY <1>0, <2>1, Places DEF Timings, JumpsTimed, DeviceLast, Jumps
  <2>3. kept'[s].epoch # capture.epoch
    BY <1>0, <2>2 DEF Timed, Older
  <2> QED BY <1>0, <2>1, <2>2, <2>3, VoidedStaysTimed DEF Timed, Older
<1>4. \A x \in Waiting(queue') : x.kind = "record" =>
        Timed(kept', now', x.jump) /\ (now' = now + 1 => Older(now', x.jump))
  <2> SUFFICES ASSUME NEW x \in Waiting(queue'), x.kind = "record"
               PROVE  Timed(kept', now', x.jump) /\ (now' = now + 1 => Older(now', x.jump))
    OBVIOUS
  <2>1. PICK r \in Waiting(q) : x = Voided(s, r)
    BY VoidedQueue
  <2>2. r \in Requests /\ r.jump \in Jumps
    <3>1. r \in Requests
      BY DEF Waiting
    <3> QED BY <3>1 DEF Requests
  <2>3. r.kind = "record" /\ x.jump = VoidIn(s, r.jump) /\ x.jump.epoch = r.jump.epoch
    BY <2>1, <2>2, VoidedTyped, VoidTyped
  <2>4. /\ Timed(kept, now, r.jump) /\ (op.step = "device" => Older(now, r.jump))
        /\ r.jump.epoch \in Nat
    BY <2>2, <2>3, Places DEF Timings, JumpsTimed, DeviceLast, Jumps
  <2>5. kept'[s].epoch # r.jump.epoch
    BY <1>0, <2>4 DEF Timed, Older
  <2> QED BY <1>0, <2>2, <2>3, <2>4, <2>5, VoidedStaysTimed DEF Timed, Older
<1> QED BY <1>1, <1>2, <1>3, <1>4 DEF Timings, JumpsTimed, DeviceLast

LEMMA StatusKeepsTimings ==
  ASSUME Base, Timings, Status PROVE Timings'
<1> DEFINE s == op.scope
           e == FirstEpoch(s)
<1>0. /\ s \in Scopes /\ now \in Nat /\ \A t \in Scopes : kept[t].epoch \in Nat
      /\ \A t \in Scopes : kept[t] \in ScopeRecords
      /\ kept \in [Scopes -> ScopeRecords]
  <2>1. now \in 0..MaxEpoch /\ (\A t \in Scopes : kept[t] \in ScopeRecords) /\ op \in Requests
    BY KeptOfBase DEF Base, TypeOK
  <2> QED BY <2>1, Places DEF ScopeRecords, Requests, Base, TypeOK
<1>1. /\ kept'[s].epoch = e /\ kept'[s].history = kept[s].history
      /\ \A t \in Scopes \ {s} : kept'[t] = kept[t]
  <2>1. kept' = [kept EXCEPT ![s].epoch = e]
    BY DEF Status
  <2> QED BY <1>0, <2>1 DEF ScopeRecords
<1>2. \/ kept[s].on /\ kept[s].epoch = 0 /\ e = now + 1 /\ now' = now + 1
      \/ ~ (kept[s].on /\ kept[s].epoch = 0) /\ e = kept[s].epoch /\ now' = now
  BY DEF Status, FirstEpoch
<1> DEFINE jump == [of |-> s, epoch |-> e, void |-> FALSE, twin |-> SharesEpoch(s)]
<1>3. capture' = IF kept[s].on THEN jump ELSE capture
  BY DEF Status
<1>4. queue' = queue /\ op' = Idle
  BY DEF Status, Ended
<1>11. /\ jump.of = s /\ jump.epoch = e /\ ~ jump.void
       /\ ~ jump.twin => kept[s].epoch = 0 \/ \A t \in Scopes \ {s} : kept[t].epoch # kept[s].epoch
  BY DEF SharesEpoch
<1> HIDE DEF s, e, jump
<1>5. EpochsPast'
  BY <1>0, <1>1, <1>2 DEF Timings, EpochsPast
<1>6. RecordedWhereTimed'
  BY <1>0, <1>1 DEF Timings, RecordedWhereTimed
<1>7. \A j : Timed(kept, now, j) /\ j.epoch \in Nat => Timed(kept', now', j)
  BY <1>0, <1>1, <1>2 DEF Timed
<1>8. kept[s].on => Timed(kept', now', jump)
  <2> SUFFICES ASSUME kept[s].on PROVE Timed(kept', now', jump)
    OBVIOUS
  <2>1. 1 <= jump.epoch /\ jump.epoch <= now'
    BY <1>0, <1>1, <1>2, <1>11 DEF Timings, EpochsPast
  <2>2. ASSUME ~ jump.twin, NEW t \in Scopes, kept'[t].epoch = jump.epoch PROVE t = s
    BY <1>0, <1>1, <1>2, <1>11, <2>2 DEF Timings, EpochsPast
  <2> QED BY <1>11, <2>1, <2>2 DEF Timed
<1>9. capture.epoch \in Nat /\ \A r \in Waiting(queue) : r.jump.epoch \in Nat
  <2>1. \A r \in Waiting(queue) : r \in Requests
    BY DEF Base, TypeOK, Waiting
  <2>2. capture \in Jumps /\ \A r \in Waiting(queue) : r.jump \in Jumps
    BY <2>1 DEF Base, TypeOK, Requests
  <2> QED BY <2>2, Places DEF Jumps
<1>10. JumpsTimed' /\ DeviceLast'
  BY <1>3, <1>4, <1>7, <1>8, <1>9, Blank DEF JumpsTimed, DeviceLast, Timings
<1> QED BY <1>5, <1>6, <1>10 DEF Timings

LEMMA RecordKeepsTimings ==
  ASSUME Base, Timings, Record PROVE Timings'
<1>0. kept \in [Scopes -> ScopeRecords] /\ scope \in Scopes /\ op.kind = "record"
      /\ op' = Idle /\ UNCHANGED <<queue, capture, now>>
  BY DEF Base, TypeOK, Record, Ended, Serves, tab
<1>1. CASE kept' = kept
  <2>1. SameTimes /\ NoNewJumps
    BY <1>0, <1>1, Blank DEF SameTimes, NoNewJumps
  <2> QED BY <1>0, <2>1, TimesKept, Blank
<1>2. CASE kept' # kept
  <2>1. /\ kept[scope].epoch = op.jump.epoch
        /\ kept' = [kept EXCEPT ![scope].history =
                      @ \cup {VisitOf(op.jump)}]
    BY <1>2 DEF Record, Records
  <2>2. op.jump.twin \/ (scope = op.jump.of /\ ~ op.jump.void)
    BY <1>0, <2>1 DEF Timings, JumpsTimed, Timed
  <2>7. /\ VisitOf(op.jump).of = op.jump.of /\ VisitOf(op.jump).void = op.jump.void
        /\ VisitOf(op.jump).twin = op.jump.twin
    BY DEF VisitOf
  <2>3. RecordedWhereTimed'
    <3>1. \A s \in Scopes : \A visit \in kept'[s].history :
            visit \in kept[s].history \/ (s = scope /\ visit = VisitOf(op.jump))
      BY <1>0, <2>1 DEF ScopeRecords
    <3> QED BY <2>2, <2>7, <3>1 DEF Timings, RecordedWhereTimed
  <2>4. \A s \in Scopes : kept'[s].epoch = kept[s].epoch
    BY <1>0, <2>1 DEF ScopeRecords
  <2>5. EpochsPast'
    BY <1>0, <2>4 DEF Timings, EpochsPast
  <2>6. JumpsTimed' /\ DeviceLast'
    BY <1>0, <2>4, Blank DEF Timings, JumpsTimed, DeviceLast, Timed
  <2> QED BY <2>3, <2>5, <2>6 DEF Timings
<1> QED BY <1>1, <1>2

(* What the viewer brings from this browser's history, or from a file, is  *)
(* of the scope it goes to.                                                *)
LEMMA OwnVisitsKeepTimings ==
  ASSUME Base, Timings, op' = Idle, UNCHANGED <<queue, capture, now>>,
         \A s \in Scopes : /\ kept'[s].epoch = kept[s].epoch
                           /\ \A entry \in kept'[s].history :
                                entry \in kept[s].history \/ entry = Visit(s)
  PROVE  Timings'
<1>1. RecordedWhereTimed'
  BY DEF Timings, RecordedWhereTimed, Visit
<1>2. EpochsPast'
  BY DEF Timings, EpochsPast
<1>3. JumpsTimed' /\ DeviceLast'
  BY Blank DEF Timings, JumpsTimed, DeviceLast, Timed
<1> QED BY <1>1, <1>2, <1>3 DEF Timings
(* What a step does to saves, notes and replays is no matter of times. *)
LEMMA SavesLeaveTimes ==
  ASSUME Base, NEW m \in Moments,
         \/ Served(m) /\ ~ ImportBackup(m)
         \/ PanelSaves(m) \/ PanelRemoves(m)
         \/ \E a \in Accounts : LinkReplays(a) \/ RemovedElsewhere(a, m)
  PROVE  /\ SameTimes /\ UNCHANGED <<queue, capture, now>>
         /\ op'.kind = "record" \/ op'.step = "device" => op' = op
<1>0. kept \in [Scopes -> ScopeRecords] /\ scope \in Scopes /\ op.scope \in Scopes
      /\ op \in Requests
  BY DEF Base, TypeOK, Requests
<1>1. UNCHANGED <<queue, capture, now>>
  BY DEF Served, Save, SavePosted, Unsave, UnsaveDeleted, UnsaveApplied, UnsaveDevice, Edit,
     ImportPosted, ImportNoted, ImportDropped, PanelSaves, PanelRemoves, LinkReplays,
     RemovedElsewhere, tab
<1>2. op'.kind = "record" \/ op'.step = "device" => op' = op
  BY <1>0, Blank DEF Served, Save, SavePosted, Unsave, UnsaveDeleted, UnsaveApplied, UnsaveDevice,
     Edit, ImportPosted, ImportNoted, ImportDropped, PanelSaves, PanelRemoves, LinkReplays,
     RemovedElsewhere, Ended, Step, Serves, ImportConfirmed, Requests
<1>3. SameTimes
  <2> USE <1>0, Places DEF SameTimes
  <2>1. CASE kept' = kept
    BY <2>1
  <2>2. CASE \E s \in Scopes : kept' = [kept EXCEPT ![s] = Without(@, m)]
    BY <2>2, WithoutFits
  <2>6. CASE \E s \in Scopes : kept' = [kept EXCEPT ![s] = Orphaned(@, m)]
    BY <2>6, OrphanedFits
  <2>3. CASE ImportNoted(m)
    <3>1. kept' = [kept EXCEPT ![op.scope] = Joined(kept[op.scope], m)]
      BY <2>3 DEF ImportNoted
    <3> QED BY <3>1, JoinedFits
  <2>7. CASE Edit(m)
    <3>1. kept' = kept \/ \E x : kept' = [kept EXCEPT ![scope].notes = x]
      BY <2>7 DEF Edit
    <3> QED BY <2>1, <3>1 DEF ScopeRecords
  <2>4. CASE kept' = [kept EXCEPT ![Local].saves = @ \cup {m}]
    BY <2>4 DEF ScopeRecords
  <2>5. CASE \E a \in Accounts : LinkReplays(a)
    <3>1. kept' = kept \/ \E a \in Accounts : \E x : kept' = [kept EXCEPT ![a].aside = @ \cup {x}]
      BY <2>5 DEF LinkReplays
    <3> QED BY <2>1, <3>1 DEF ScopeRecords
  <2> QED
    BY <2>1, <2>2, <2>3, <2>4, <2>5, <2>6, <2>7 DEF Served, Save, SavePosted, Unsave,
       UnsaveDeleted, UnsaveApplied, UnsaveDevice, ImportPosted, ImportDropped, PanelSaves,
       PanelRemoves, RemovedElsewhere
<1> QED BY <1>1, <1>2, <1>3

LEMMA BackupKeepsTimings ==
  ASSUME Base, Timings, NEW m \in Moments, ImportBackup(m) PROVE Timings'
<1>0. kept \in [Scopes -> ScopeRecords] /\ scope \in Scopes
  BY DEF Base, TypeOK
<1>1. op' = Idle /\ UNCHANGED <<queue, capture, now>>
  BY DEF ImportBackup, Ended, tab
<1>2. CASE kept' = kept
  BY <1>1, <1>2, OwnVisitsKeepTimings
<1>3. CASE kept' # kept
  <2>1. PICK added, notes :
          kept' = [kept EXCEPT ![Local].saves = @ \cup added,
                               ![Local].notes = @ \cup notes,
                               ![scope].history = @ \cup BackupVisits]
    BY <1>3, Zenon DEF ImportBackup, BackupVisits
  <2>2. \A s \in Scopes :
          /\ kept'[s].epoch = kept[s].epoch
          /\ kept'[s].history =
               IF s = scope THEN kept[s].history \cup BackupVisits ELSE kept[s].history
    BY <1>0, <2>1, Places DEF ScopeRecords
  <2> QED BY <1>1, <2>2, OwnVisitsKeepTimings DEF BackupVisits
<1> QED BY <1>2, <1>3

LEMMA TimingsStep ==
  ASSUME Base, Timings, [Next]_vars PROVE Timings'
<1> USE Places, Blank
<1>0. /\ scope \in Scopes /\ op.scope \in Scopes /\ op \in Requests /\ capture \in Jumps
      /\ queue \in Seq(Requests) /\ kept \in [Scopes -> ScopeRecords]
  BY DEF Base, TypeOK, Requests
<1>1. CASE /\ UNCHANGED <<queue, capture, now>> /\ SameTimes
           /\ op'.kind = "record" \/ op'.step = "device" => op' = op
  BY <1>1, TimesKept DEF NoNewJumps
<1>2. CASE UNCHANGED vars
  BY <1>1, <1>2 DEF vars, SameTimes, tab
<1>3. CASE Ask
  <2>1. PICK kind \in Kinds \ {"record"}, moments \in SUBSET Moments :
          queue' = Append(queue, Request(kind, scope, moments))
    BY <1>3, Zenon DEF Ask, Kinds
  <2>2. SameTimes /\ UNCHANGED <<op, capture, now>>
    BY <1>3 DEF Ask, SameTimes, tab
  <2>3. NoNewJumps
    BY <1>0, <2>1, <2>2, Appended, RequestTyped DEF NoNewJumps
  <2> QED BY <2>2, <2>3, TimesKept
<1>4. CASE AskRecord
  <2> DEFINE r == [Request("record", scope, {}) EXCEPT !.jump = capture]
  <2>1. r \in Requests /\ r.jump = capture
    <3>1. Request("record", scope, {}) \in Requests
      BY <1>0, RequestTyped DEF Kinds
    <3> QED BY <1>0, <3>1 DEF Requests
  <2>2. queue' = Append(queue, r) /\ capture' = NoJump /\ capture # NoJump
        /\ UNCHANGED <<op, kept, now>>
    BY <1>4 DEF AskRecord
  <2> HIDE DEF r
  <2>3. \A x \in Waiting(queue') : x = r \/ x \in Waiting(queue)
    BY <1>0, <2>1, <2>2, Appended
  <2>4. JumpsTimed' /\ DeviceLast'
    BY <2>1, <2>2, <2>3 DEF Timings, JumpsTimed, DeviceLast
  <2>5. EpochsPast' /\ RecordedWhereTimed'
    BY <2>2 DEF Timings, EpochsPast, RecordedWhereTimed
  <2> QED BY <2>4, <2>5 DEF Timings
<1>5. CASE TabLeaves
  <2>1. SameTimes /\ NoNewJumps
    BY <1>5 DEF TabLeaves, SameTimes, NoNewJumps
  <2> QED BY <1>5, <2>1, TimesKept DEF TabLeaves
<1>6. CASE Serve
  <2>1. Head(queue) \in Waiting(queue) /\ Head(queue) \in Requests
        /\ Waiting(Tail(queue)) \subseteq Waiting(queue)
    BY <1>0, <1>6, Served1 DEF Serve
  <2>2. Resolved(Head(queue)).kind = "record"
          => Head(queue).kind = "record" /\ Resolved(Head(queue)).jump = Head(queue).jump
    BY <2>1 DEF Resolved, Requests
  <2>3. SameTimes /\ NoNewJumps /\ UNCHANGED <<capture, now>>
    BY <1>6, <2>1, <2>2 DEF Serve, SameTimes, NoNewJumps, tab
  <2>4. Head(queue).step = "start"
    BY <2>1 DEF Base, QueueFits
  <2>5. op'.step # "device"
    BY <1>6, <2>1, <2>4 DEF Serve, Resolved, Requests
  <2> QED BY <2>3, <2>5, TimesKept
<1>7. CASE Forget
  <2> DEFINE a == Head(queue).scope
  <2>1. a \in Scopes /\ Tail(queue) \in Seq(Requests)
        /\ Waiting(Tail(queue)) \subseteq Waiting(queue)
    BY <1>0, <1>7, Served1 DEF Forget, Requests
  <2>2. kept' = [kept EXCEPT ![a] = Empty] /\ VoidJumps(a, Tail(queue)) /\ now' = now
        /\ op' = Idle
    BY <1>7 DEF Forget
  <2> HIDE DEF a
  <2>3. kept'[a] = Empty /\ \A t \in Scopes \ {a} : kept'[t] = kept[t]
    BY <1>0, <2>1, <2>2
  <2> QED BY <2>1, <2>2, <2>3, MovedKeepsTimings
<1>8. ASSUME NEW s \in Scopes, NEW d \in ScopeRecords, NEW time \in {now, now + 1},
             Moves(s, d, time), d.history \subseteq kept[s].history, op'.kind # "record",
             time = now + 1 \/ (op.step = "device" /\ op'.step # "device")
      PROVE  Timings'
  <2>1. kept' = [kept EXCEPT ![s] = [d EXCEPT !.epoch = time]] /\ now' = time
        /\ VoidJumps(s, queue)
    BY <1>8 DEF Moves
  <2>2. kept'[s].epoch = time /\ kept'[s].history = d.history
        /\ \A t \in Scopes \ {s} : kept'[t] = kept[t]
    BY <1>0, <2>1 DEF ScopeRecords
  <2> QED BY <1>0, <1>8, <2>1, <2>2, MovedKeepsTimings
<1>9. CASE Clear \/ ClearDevice \/ Switch
  <2>1. op'.kind # "record"
    BY <1>0, <1>9 DEF Clear, ClearDevice, Switch, Ended, Step, Serves, Requests
  <2>2. \A s \in Scopes, on \in BOOLEAN :
          /\ [kept[s] EXCEPT !.history = {}] \in ScopeRecords
          /\ [kept[s] EXCEPT !.history = {}].history \subseteq kept[s].history
          /\ [kept[s] EXCEPT !.on = on] \in ScopeRecords
          /\ [kept[s] EXCEPT !.on = on].history = kept[s].history
    BY <1>0 DEF ScopeRecords
  <2>3. CASE Clear
    BY <1>0, <1>8, <2>1, <2>2, <2>3 DEF Clear
  <2>4. CASE ClearDevice
    <3>1. op.step = "device" /\ op' = Idle
      BY <2>4 DEF ClearDevice, Serves, Ended
    <3>2. UNCHANGED <<kept, queue, tab>>
          \/ \E time \in {now, now + 1} : Moves(Local, [kept[Local] EXCEPT !.history = {}], time)
      BY <2>4 DEF ClearDevice, tab
    <3>3. CASE UNCHANGED <<kept, queue, tab>>
      BY <1>1, <3>1, <3>3 DEF SameTimes, tab
    <3> QED BY <1>8, <2>1, <2>2, <3>1, <3>2, <3>3
  <2>5. CASE Switch
    <3>1. \E on \in BOOLEAN : Moves(op.scope, [kept[op.scope] EXCEPT !.on = on], now + 1)
      BY <2>5 DEF Switch
    <3> QED BY <1>0, <1>8, <2>1, <2>2, <3>1
  <2> QED BY <1>9, <2>3, <2>4, <2>5
<1>10. CASE LearnSync
  <2>1. SameTimes
    BY <1>0, <1>10 DEF LearnSync, SameTimes, ScopeRecords
  <2> QED BY <1>1, <1>10, <2>1 DEF LearnSync, tab
<1>11. CASE ImportHistory
  <2>1. \A s \in Scopes : /\ kept'[s].epoch = kept[s].epoch
                          /\ \A entry \in kept'[s].history :
                               entry \in kept[s].history \/ entry = Visit(s)
    BY <1>0, <1>11 DEF ImportHistory, ScopeRecords
  <2> QED BY <1>11, <2>1, OwnVisitsKeepTimings DEF ImportHistory, Ended, tab
<1>12. CASE ImportListed \/ Load \/ SignOut \/ Rejected \/ Stop
  <2>1. SameTimes /\ UNCHANGED <<capture, now>>
    BY <1>12 DEF SameTimes, tab, ImportListed, Load, SignOut, Rejected, Stop
  <2>2. NoNewJumps
    <3>1. CASE ImportListed \/ Load \/ Rejected
      BY <1>0, <3>1 DEF ImportListed, Load, Rejected, NoNewJumps, Ended, Serves, Requests
    <3>2. CASE SignOut
      BY <1>0, <3>2, Appended, RequestTyped DEF SignOut, NoNewJumps, Kinds
    <3>3. CASE Stop
      BY <3>3 DEF Stop, NoNewJumps, Waiting
    <3> QED BY <1>12, <3>1, <3>2, <3>3
  <2>3. op'.step = "device" => op.step = "device"
    BY <1>0, <1>12 DEF ImportListed, Load, SignOut, Rejected, Stop, Ended, Requests
  <2> QED BY <2>1, <2>2, <2>3, TimesKept
<1>13. CASE \/ \E a \in Accounts : SignIn(a)
            \/ \E a \in Accounts, m \in Moments : SavedElsewhere(a, m)
  BY <1>1, <1>13 DEF SignIn, SavedElsewhere, SameTimes, tab
<1>14. ASSUME NEW a \in Accounts, LinkReplays(a) PROVE Timings'
  <2>1. CASE kept' = kept
    BY <1>1, <1>14, <2>1 DEF LinkReplays, SameTimes, tab
  <2>2. CASE kept' # kept
    <3>1. \E m \in Moments : TRUE
      BY <1>14, <2>2 DEF LinkReplays, Base, TypeOK
    <3> QED BY <1>1, <1>14, <3>1, SavesLeaveTimes
  <2> QED BY <2>1, <2>2
<1>15. ASSUME NEW m \in Moments,
              \/ Served(m) \/ PanelSaves(m) \/ PanelRemoves(m)
              \/ \E a \in Accounts : RemovedElsewhere(a, m)
       PROVE  Timings'
  BY <1>1, <1>15, SavesLeaveTimes, BackupKeepsTimings
<1> QED
  BY <1>2, <1>3, <1>4, <1>5, <1>6, <1>7, <1>9, <1>10, <1>11, <1>12, <1>13, <1>14, <1>15,
     StatusKeepsTimings, RecordKeepsTimings DEF Next
-----------------------------------------------------------------------------
(* What is left of a forgotten account: a step writes the records of the   *)
(* scope it serves, of who is signed in or of nobody, and none was         *)
(* forgotten.                                                              *)
LEMMA OthersStayEmpty ==
  ASSUME Base, Gone, [Next]_vars, ~ Forget, NEW a \in forgotten
  PROVE  kept'[a] = Empty
<1> USE Places
<1>0. /\ kept \in [Scopes -> ScopeRecords] /\ a \in Accounts /\ a # Local
      /\ kept[a] = Empty /\ a # scope /\ a # op.scope
      /\ scope \in Scopes /\ op.scope \in Scopes
  BY DEF Base, TypeOK, Requests, Gone, NobodyForgotten, ForgottenStaysForgotten
<1>1. CASE kept'[a] = kept[a]
  BY <1>0, <1>1
<1>2. ASSUME NEW s \in {scope, op.scope, Local}, NEW d, kept' = [kept EXCEPT ![s] = d]
      PROVE  kept'[a] = kept[a]
  BY <1>0, <1>2
<1>3. CASE Status
  <2>1. kept' = [kept EXCEPT ![op.scope] = [kept[op.scope] EXCEPT !.epoch = FirstEpoch(op.scope)]]
    BY <1>3 DEF Status
  <2> QED BY <1>1, <1>2, <2>1
<1>4. CASE \E s \in {op.scope, Local} : \E d, time : Moves(s, d, time)
  <2>1. \E s \in {op.scope, Local} : \E d : kept' = [kept EXCEPT ![s] = d]
    BY <1>4 DEF Moves
  <2> QED BY <1>1, <1>2, <2>1
<1>5. CASE Clear \/ ClearDevice \/ Switch
  BY <1>1, <1>4, <1>5 DEF Clear, ClearDevice, Switch
<1>6. CASE Record \/ ImportHistory \/ LearnSync
  BY <1>0, <1>1, <1>6 DEF Record, ImportHistory, LearnSync
<1>7. ASSUME NEW m \in Moments, Served(m) \/ PanelSaves(m) \/ PanelRemoves(m)
      PROVE  kept'[a] = kept[a]
  <2>1. CASE ImportBackup(m)
    <3>1. CASE kept' = kept
      BY <3>1
    <3>2. CASE kept' # kept
      <4>1. \E added, notes :
              kept' = [kept EXCEPT ![Local].saves = @ \cup added,
                                   ![Local].notes = @ \cup notes,
                                   ![scope].history = @ \cup BackupVisits]
        BY <2>1, <3>2, Zenon DEF ImportBackup, BackupVisits
      <4> QED BY <1>0, <4>1
    <3> QED BY <3>1, <3>2
  <2>2. CASE Save(m) \/ SavePosted(m) \/ Unsave(m) \/ UnsaveDeleted(m) \/ UnsaveApplied(m)
             \/ UnsaveDevice(m) \/ ImportPosted(m) \/ ImportDropped(m)
    BY <1>0, <2>2 DEF Save, SavePosted, Unsave, UnsaveDeleted, UnsaveApplied, UnsaveDevice,
       ImportPosted, ImportDropped
  <2>3. CASE Edit(m) \/ ImportNoted(m) \/ PanelSaves(m) \/ PanelRemoves(m)
    BY <1>0, <2>3 DEF Edit, ImportNoted, PanelSaves, PanelRemoves
  <2> QED BY <1>7, <2>1, <2>2, <2>3 DEF Served
<1>8. ASSUME NEW b \in Accounts, LinkReplays(b) PROVE kept'[a] = kept[a]
  BY <1>0, <1>8 DEF LinkReplays, MayLink
<1>9. CASE \/ Ask \/ AskRecord \/ TabLeaves \/ Serve \/ Load \/ ImportListed
           \/ (\E b \in Accounts : SignIn(b)) \/ SignOut \/ Rejected \/ Stop \/ UNCHANGED vars
           \/ \E b \in Accounts, m \in Moments : SavedElsewhere(b, m)
  BY <1>1, <1>9 DEF Ask, AskRecord, TabLeaves, Serve, Load, ImportListed, SignIn, SignOut,
                    Rejected, Stop, SavedElsewhere, vars
<1>10. ASSUME NEW b \in Accounts, NEW m \in Moments, RemovedElsewhere(b, m)
       PROVE  kept'[a] = Empty
  BY <1>0, <1>10, Blank, OrphanedFits DEF RemovedElsewhere
<1> QED
  BY <1>0, <1>3, <1>5, <1>6, <1>7, <1>8, <1>9, <1>10 DEF Next

LEMMA GoneStep ==
  ASSUME Base, Gone, [Next]_vars PROVE Gone'
<1> USE Places, Blank
<1>0. /\ Base' /\ scope \in Scopes /\ op \in Requests /\ queue \in Seq(Requests)
      /\ forgotten \subseteq Accounts /\ NobodyForgotten
  BY BaseStep DEF Base, TypeOK, Gone
<1>1. CASE Forget
  <2> DEFINE a == Head(queue).scope
  <2>1. /\ kept' = [kept EXCEPT ![a] = Empty] /\ op' = Idle /\ scope' = scope
        /\ forgotten' = IF scope = a THEN forgotten ELSE forgotten \cup {a}
    BY <1>1 DEF Forget
  <2>2. a \in Accounts
    BY <1>0, <1>1, Served1 DEF Forget, Base, QueueFits
  <2> HIDE DEF a
  <2>3. NobodyForgotten'
    BY <1>0, <2>1, <2>2 DEF NobodyForgotten
  <2>4. ForgottenStaysForgotten'
    BY <1>0, <2>1, <2>2 DEF ForgottenStaysForgotten, Gone, Base, TypeOK
  <2> QED BY <2>3, <2>4 DEF Gone
<1>2. CASE ~ Forget
  <2>1. forgotten' \subseteq forgotten /\ scope' \notin forgotten'
        /\ op'.scope \in {op.scope, scope, Local}
    <3>1. CASE Serve
      <4>1. Head(queue) \in Requests
        BY <1>0, <3>1, Served1 DEF Serve
      <4>2. Resolved(Head(queue)).scope \in {scope, Local}
        BY <1>0, <4>1 DEF Resolved, Requests
      <4> QED BY <1>0, <3>1, <4>2 DEF Serve, NobodyForgotten, wishes
    <3>2. ASSUME NEW a \in Accounts, SignIn(a)
          PROVE  /\ forgotten' \subseteq forgotten /\ scope' \notin forgotten'
                 /\ op'.scope = op.scope
      BY <3>2 DEF SignIn
    <3>3. ASSUME NEW m \in Moments, Served(m)
          PROVE  /\ UNCHANGED <<forgotten, scope>> /\ op'.scope \in {op.scope, Local}
      BY <1>0, <3>3 DEF Served, Save, SavePosted, Unsave, UnsaveDeleted, UnsaveApplied,
         UnsaveDevice, Edit, ImportPosted, ImportNoted, ImportDropped, ImportBackup, Ended,
         Step, ImportConfirmed, wishes, Requests
    <3>4. CASE SignOut \/ Rejected
      BY <1>0, <3>4 DEF SignOut, Rejected, wishes
    <3>5. CASE \/ Ask \/ AskRecord \/ TabLeaves \/ Status \/ Record \/ Clear \/ ClearDevice
               \/ Switch \/ LearnSync \/ ImportHistory \/ ImportListed \/ Load \/ Stop
               \/ \E m \in Moments : PanelSaves(m) \/ PanelRemoves(m)
               \/ \E a \in Accounts : LinkReplays(a)
               \/ \E a \in Accounts, m \in Moments : SavedElsewhere(a, m) \/ RemovedElsewhere(a, m)
               \/ UNCHANGED vars
      <4>1. UNCHANGED <<forgotten, scope>> /\ op'.scope \in {op.scope, Local}
        BY <1>0, <3>5 DEF Ask, AskRecord, TabLeaves, Status, Record, Clear, ClearDevice, Switch,
           LearnSync, ImportHistory, ImportListed, Load, Stop, PanelSaves, PanelRemoves,
           LinkReplays, SavedElsewhere, RemovedElsewhere, Ended, Step, wishes, vars, Requests
      <4> QED BY <1>0, <4>1 DEF NobodyForgotten
    <3> QED
      BY <1>0, <1>2, <3>1, <3>2, <3>3, <3>4, <3>5 DEF Next, NobodyForgotten
  <2>2. ForgottenStaysForgotten'
    BY <1>2, <2>1, OthersStayEmpty DEF ForgottenStaysForgotten
  <2> QED BY <1>0, <2>1, <2>2 DEF Gone, NobodyForgotten
<1> QED BY <1>1, <1>2
-----------------------------------------------------------------------------
(* Where saves and notes are. *)

(* What an account holds leaves it only as the user removes it. *)
LEMMA HostedStays ==
  ASSUME Base, [Next]_vars, NEW a \in Accounts, NEW m \in Missed(wanted', noted'),
         m \in hosted[a]
  PROVE  m \in hosted'[a]
<1> USE Places
<1>0. hosted \in [Accounts -> SUBSET Moments] /\ op.scope \in Scopes /\ scope \in Scopes
  BY DEF Base, TypeOK, Requests
<1>1. CASE hosted' = hosted
  BY <1>1
<1>2. ASSUME NEW b, NEW n, NEW outcome, Hosted(b, n, outcome, TRUE) PROVE m \in hosted'[a]
  BY <1>0, <1>2 DEF Hosted
<1>9. ASSUME NEW n, Unwanted(n) PROVE m # n
  BY <1>9 DEF Unwanted, Missed, On
<1>3. ASSUME NEW b, NEW n, NEW outcome, Hosted(b, n, outcome, FALSE),
             outcome = "refused" \/ Unwanted(n)
      PROVE  m \in hosted'[a]
  BY <1>0, <1>3, <1>9 DEF Hosted
<1>4. ASSUME NEW n \in Moments, SavePosted(n) \/ ImportPosted(n) \/ PanelSaves(n)
      PROVE  m \in hosted'[a]
  BY <1>1, <1>2, <1>4 DEF SavePosted, ImportPosted, PanelSaves
<1>5. ASSUME NEW n \in Moments, UnsaveDeleted(n) \/ PanelRemoves(n)
      PROVE  m \in hosted'[a]
  BY <1>1, <1>3, <1>5 DEF UnsaveDeleted, PanelRemoves
<1>6. ASSUME NEW n \in Moments, Served(n), ~ SavePosted(n), ~ ImportPosted(n), ~ UnsaveDeleted(n)
      PROVE  m \in hosted'[a]
  BY <1>1, <1>6 DEF Served, Save, Unsave, UnsaveApplied, UnsaveDevice, Edit, ImportNoted,
     ImportDropped, ImportBackup
<1>7. ASSUME NEW b \in Accounts, NEW n \in Moments,
             SavedElsewhere(b, n) \/ RemovedElsewhere(b, n)
      PROVE  m \in hosted'[a]
  BY <1>0, <1>7, <1>9 DEF SavedElsewhere, RemovedElsewhere
<1>8. CASE \/ Ask \/ AskRecord \/ TabLeaves \/ Serve \/ Forget \/ Status \/ Record \/ Clear
           \/ ClearDevice \/ Switch \/ LearnSync \/ ImportHistory \/ ImportListed \/ Load
           \/ (\E b \in Accounts : LinkReplays(b) \/ SignIn(b)) \/ SignOut \/ Rejected \/ Stop
           \/ UNCHANGED vars
  BY <1>1, <1>8 DEF Ask, AskRecord, TabLeaves, Serve, Forget, Status, Record, Clear, ClearDevice,
     Switch, LearnSync, ImportHistory, ImportListed, Load, LinkReplays, SignIn, SignOut,
     Rejected, Stop, vars
<1> QED BY <1>4, <1>5, <1>6, <1>7, <1>8 DEF Next

(* A save leaves this browser as the user removes it or at the end of its  *)
(* import, a note leaves its place with its save, when it is written over  *)
(* or with its account.                                                    *)
SaveStays(m) == m \in wanted' /\ m \in kept[Local].saves => m \in kept'[Local].saves
NoteStays(s, n) ==
  n \in kept[s].notes =>
    n \in kept'[s].notes \/ (op.kind = "edit" /\ n \notin noted') \/ On(noted', n.on) = {}
Stay == /\ \A m \in Moments : SaveStays(m)
        /\ \A s \in Scopes, n \in Notes : NoteStays(s, n)

LEMMA SameRecordsStay ==
  ASSUME \A s \in Scopes : kept'[s].saves = kept[s].saves /\ kept[s].notes \subseteq kept'[s].notes
  PROVE  Stay
BY Places DEF Stay, SaveStays, NoteStays

(* What was kept for a moment goes once nobody wants it and it has no note. *)
LEMMA RemovedStays ==
  ASSUME Base, NEW s \in Scopes, NEW m \in Moments, On(noted', m) = {},
         \/ kept' = [kept EXCEPT ![s] = Without(@, m)] /\ (s = Local => m \notin wanted')
         \/ kept' = [kept EXCEPT ![s] = Orphaned(@, m)]
  PROVE  Stay
<1>0. kept \in [Scopes -> ScopeRecords]
  BY DEF Base, TypeOK
<1>1. /\ \A t \in Scopes \ {s} : kept'[t] = kept[t]
      /\ kept'[s].notes = kept[s].notes \ On(kept[s].notes, m)
      /\ kept'[s].saves = kept[s].saves \/
           (kept'[s].saves = kept[s].saves \ {m} /\ (s = Local => m \notin wanted'))
  BY <1>0, WithoutFits, OrphanedFits
<1> QED BY <1>1, Places DEF Stay, SaveStays, NoteStays, On

LEMMA UnwantedIsUnnoted == ASSUME NEW m, Unwanted(m) PROVE m \notin wanted' /\ On(noted', m) = {}
BY DEF Unwanted, On

LEMMA DeviceStays ==
  ASSUME Base, RemovedIsUnnoted, [Next]_vars
  PROVE  \/ Stay
         \/ /\ Forget /\ \A m \in Moments : SaveStays(m)
            /\ \A s \in Scopes, n \in Notes :
                 n \in kept[s].notes /\ n \in noted' => n \in kept'[s].notes \/ n \in kept'[Local].notes
         \/ \E m \in Moments : ImportDropped(m)
<1> USE Places
<1>0. /\ kept \in [Scopes -> ScopeRecords] /\ scope \in Scopes /\ op.scope \in Scopes
      /\ queue \in Seq(Requests) /\ op \in Requests
  BY DEF Base, TypeOK, Requests
<1>1. ASSUME \A s \in Scopes : kept'[s].saves = kept[s].saves /\ kept[s].notes \subseteq kept'[s].notes
      PROVE  Stay
  BY <1>1, SameRecordsStay
<1>2. ASSUME kept' = kept PROVE Stay
  BY <1>1, <1>2
<1>3. CASE Forget
  <2>1. Head(queue).scope \in Accounts
    BY <1>0, <1>3, Served1 DEF Forget, Base, QueueFits
  <2>2. /\ kept' = [kept EXCEPT ![Head(queue).scope] = Empty]
        /\ noted' = noted \ (kept[Head(queue).scope].notes \ kept[Local].notes)
    BY <1>3 DEF Forget
  <2>3. kept'[Local] = kept[Local] /\ \A s \in Scopes \ {Head(queue).scope} : kept'[s] = kept[s]
    BY <1>0, <2>1, <2>2
  <2> QED BY <1>3, <2>2, <2>3 DEF SaveStays
<1>4. ASSUME Status PROVE Stay
  <2>1. kept' = [kept EXCEPT ![op.scope].epoch = FirstEpoch(op.scope)]
    BY <1>4 DEF Status
  <2> QED BY <1>0, <1>1, <2>1 DEF ScopeRecords
<1>5. ASSUME Record \/ ImportHistory \/ LearnSync PROVE Stay
  <2>1. \/ kept' = kept
        \/ \E x : kept' = [kept EXCEPT ![scope].history = @ \cup x]
        \/ kept' = [kept EXCEPT ![scope].on = TRUE]
    BY <1>5 DEF Record, ImportHistory, LearnSync
  <2>2. ASSUME NEW x, kept' = [kept EXCEPT ![scope].history = @ \cup x] PROVE Stay
    BY <1>0, <1>1, <2>2 DEF ScopeRecords
  <2>3. ASSUME kept' = [kept EXCEPT ![scope].on = TRUE] PROVE Stay
    BY <1>0, <1>1, <2>3 DEF ScopeRecords
  <2> QED BY <1>2, <2>1, <2>2, <2>3
<1>6. ASSUME Clear \/ ClearDevice \/ Switch PROVE Stay
  <2>1. ASSUME NEW s \in Scopes, NEW d \in ScopeRecords, NEW time, Moves(s, d, time),
               d.saves = kept[s].saves, d.notes = kept[s].notes
        PROVE  Stay
    <3>1. kept' = [kept EXCEPT ![s] = [d EXCEPT !.epoch = time]]
      BY <2>1 DEF Moves
    <3> QED BY <1>0, <1>1, <2>1, <3>1 DEF ScopeRecords
  <2>2. \A s \in Scopes, on \in BOOLEAN :
          /\ [kept[s] EXCEPT !.history = {}] \in ScopeRecords
          /\ [kept[s] EXCEPT !.history = {}].saves = kept[s].saves
          /\ [kept[s] EXCEPT !.history = {}].notes = kept[s].notes
          /\ [kept[s] EXCEPT !.on = on] \in ScopeRecords
          /\ [kept[s] EXCEPT !.on = on].saves = kept[s].saves
          /\ [kept[s] EXCEPT !.on = on].notes = kept[s].notes
    BY <1>0 DEF ScopeRecords
  <2>3. kept' = kept
        \/ \E s \in Scopes, on \in BOOLEAN : \E time :
             \/ Moves(s, [kept[s] EXCEPT !.history = {}], time)
             \/ Moves(s, [kept[s] EXCEPT !.on = on], time)
    BY <1>0, <1>6 DEF Clear, ClearDevice, Switch
  <2> QED BY <1>2, <2>1, <2>2, <2>3
<1>8. ASSUME NEW n \in Moments, Save(n) \/ PanelSaves(n) PROVE Stay
  <2>1. kept' = kept \/ kept' = [kept EXCEPT ![Local].saves = @ \cup {n}]
    BY <1>8 DEF Save, PanelSaves
  <2>2. ASSUME kept' = [kept EXCEPT ![Local].saves = @ \cup {n}] PROVE Stay
    <3>1. \A s \in Scopes : kept[s].saves \subseteq kept'[s].saves /\ kept'[s].notes = kept[s].notes
      BY <1>0, <2>2 DEF ScopeRecords
    <3> QED BY <3>1 DEF Stay, SaveStays, NoteStays
  <2> QED BY <1>2, <2>1, <2>2
<1>9. ASSUME NEW n \in Moments,
             \/ Unsave(n) \/ UnsaveDeleted(n) \/ UnsaveDevice(n) \/ PanelRemoves(n)
             \/ \E a \in Accounts : RemovedElsewhere(a, n)
      PROVE  Stay
  <2>1. kept' = kept
        \/ /\ Unwanted(n)
           /\ \E s \in Scopes : \/ kept' = [kept EXCEPT ![s] = Without(@, n)]
                               \/ kept' = [kept EXCEPT ![s] = Orphaned(@, n)]
    <3>1. CASE Unsave(n) \/ UnsaveDevice(n)
      BY <1>0, <3>1 DEF Unsave, UnsaveDevice
    <3>2. CASE UnsaveDeleted(n)
      BY <1>0, <3>2 DEF UnsaveDeleted
    <3>3. CASE PanelRemoves(n)
      BY <1>0, <3>3 DEF PanelRemoves
    <3>4. CASE \E a \in Accounts : RemovedElsewhere(a, n)
      BY <3>4 DEF RemovedElsewhere
    <3> QED BY <1>9, <3>1, <3>2, <3>3, <3>4
  <2> QED BY <1>2, <2>1, RemovedStays, UnwantedIsUnnoted
<1>10. ASSUME NEW n \in Moments, UnsaveApplied(n) PROVE Stay
  <2>1. CASE kept' = kept
    BY <1>2, <2>1
  <2>2. CASE kept' # kept
    <3>1. op.kind = "unsave" /\ op.step = "apply" /\ op.moment = {n} /\ noted' = noted
          /\ scope = op.scope /\ kept' = [kept EXCEPT ![scope] = Without(@, n)]
      BY <1>10, <2>2 DEF UnsaveApplied, Serves, StillHere, wishes
    <3>2. On(noted', n) = {} /\ scope # Local
      BY <3>1 DEF RemovedIsUnnoted, Base, OpFits
    <3> QED BY <1>0, <3>1, <3>2, RemovedStays
  <2> QED BY <2>1, <2>2
<1>11. ASSUME NEW m \in Moments, Edit(m) PROVE Stay
  <2>1. CASE kept' = kept
    BY <1>2, <2>1
  <2>2. CASE kept' # kept
    <3>1. PICK new \in SUBSET {[on |-> m, by |-> scope]} :
            /\ kept' = [kept EXCEPT ![scope].notes = (@ \ On(kept[scope].notes, m)) \cup new]
            /\ noted' = (noted \ On(kept[scope].notes, m)) \cup new
      BY <1>11, <2>2, Zenon DEF Edit
    <3>2. \A s \in Scopes :
            /\ kept'[s].saves = kept[s].saves
            /\ s # scope => kept'[s].notes = kept[s].notes
      BY <1>0, <3>1 DEF ScopeRecords
    <3>3. kept'[scope].notes = (kept[scope].notes \ On(kept[scope].notes, m)) \cup new
      BY <1>0, <3>1 DEF ScopeRecords
    <3>4. \A n \in kept[scope].notes : n \in kept'[scope].notes \/ n \notin noted'
      BY <3>1, <3>3
    <3>5. op.kind = "edit"
      BY <1>11 DEF Edit, Serves
    <3> QED BY <3>2, <3>4, <3>5 DEF Stay, SaveStays, NoteStays
  <2> QED BY <2>1, <2>2
<1>12. ASSUME NEW m \in Moments, ImportNoted(m) PROVE Stay
  <2>1. kept' = [kept EXCEPT ![op.scope] = Joined(kept[op.scope], m)]
    BY <1>12 DEF ImportNoted
  <2> QED BY <1>0, <1>1, <2>1, JoinedFits
<1>14. ASSUME NEW n \in Moments, ImportBackup(n) PROVE Stay
  <2>1. CASE kept' = kept
    BY <1>2, <2>1
  <2>2. CASE kept' # kept
    <3>1. PICK added, notes :
            kept' = [kept EXCEPT ![Local].saves = @ \cup added,
                                 ![Local].notes = @ \cup notes,
                                 ![scope].history = @ \cup BackupVisits]
      BY <1>14, <2>2, Zenon DEF ImportBackup, BackupVisits
    <3>2. \A s \in Scopes :
            /\ kept'[s].saves = IF s = Local THEN kept[s].saves \cup added ELSE kept[s].saves
            /\ kept'[s].notes = IF s = Local THEN kept[s].notes \cup notes ELSE kept[s].notes
      BY <1>0, <3>1 DEF ScopeRecords
    <3> QED BY <3>2 DEF Stay, SaveStays, NoteStays
  <2> QED BY <2>1, <2>2
<1>15. ASSUME NEW a \in Accounts, LinkReplays(a) PROVE Stay
  <2>1. kept' = kept \/ \E x : kept' = [kept EXCEPT ![a].aside = @ \cup {x}]
    BY <1>15 DEF LinkReplays
  <2>2. ASSUME NEW x, kept' = [kept EXCEPT ![a].aside = @ \cup {x}] PROVE Stay
    BY <1>0, <1>1, <2>2 DEF ScopeRecords
  <2> QED BY <1>2, <2>1, <2>2
<1>16. ASSUME \/ Ask \/ AskRecord \/ TabLeaves \/ Serve \/ ImportListed \/ Load
              \/ (\E a \in Accounts : SignIn(a)) \/ SignOut \/ Rejected \/ Stop \/ UNCHANGED vars
              \/ (\E a \in Accounts, n \in Moments : SavedElsewhere(a, n))
              \/ \E n \in Moments : SavePosted(n) \/ ImportPosted(n)
       PROVE  Stay
  BY <1>2, <1>16 DEF Ask, AskRecord, TabLeaves, Serve, ImportListed, Load, SignIn, SignOut,
     Rejected, Stop, vars, SavedElsewhere, SavePosted, ImportPosted
<1>17. ASSUME NEW n \in Moments, Served(n) PROVE Stay \/ ImportDropped(n)
  BY <1>8, <1>9, <1>10, <1>11, <1>12, <1>14, <1>16, <1>17 DEF Served
<1> QED BY <1>3, <1>4, <1>5, <1>6, <1>8, <1>9, <1>15, <1>16, <1>17 DEF Next

(* What is dropped at the end of an import leaves this browser alone.      *)
LEMMA DroppedAlone ==
  ASSUME Base, NEW m \in Moments, ImportDropped(m)
  PROVE  /\ Importing /\ op.moment = {m} /\ op.step = "drop" /\ StillHere
         /\ op.scope \in Accounts /\ UNCHANGED <<hosted, wanted, noted, scope>>
         /\ \A s \in Scopes \ {Local} : kept'[s] = kept[s]
         /\ kept'[Local].saves = kept[Local].saves \ {m}
         /\ kept'[Local].notes = kept[Local].notes \ On(kept[Local].notes, m)
<1>1. /\ op.kind = "import" /\ op.step = "drop" /\ op.moment = {m}
      /\ UNCHANGED <<hosted, wanted, noted, scope>>
      /\ kept' = [kept EXCEPT ![Local] = Without(@, m)]
  BY DEF ImportDropped, Serves, wishes
<1>2. op.scope \in Accounts /\ StillHere
  BY <1>1 DEF Base, OpFits, Writing, StillHere
<1>3. kept \in [Scopes -> ScopeRecords]
  BY DEF Base, TypeOK
<1> QED BY <1>1, <1>2, <1>3, Places, WithoutFits DEF Importing
(* A save is counted once it is somewhere; only the panel saves beside a   *)
(* request, where whoever is signed in keeps it.                           *)
LEMMA NewlyThere ==
  ASSUME Base, [Next]_vars, NEW m \in Moments
  PROVE  /\ m \in wanted' \ wanted =>
              \/ m \in kept'[Local].saves
              \/ scope \in Accounts /\ m \in hosted'[scope]
         /\ m \in wanted' \ wanted /\ op.kind = "import" => scope = Local \/ m \in hosted'[scope]
         /\ noted' \subseteq noted \/ op.kind \notin {"import", "unsave"}
<1> DEFINE New == /\ m \in wanted' \ wanted =>
                       \/ m \in kept'[Local].saves
                       \/ scope \in Accounts /\ m \in hosted'[scope]
                  /\ m \in wanted' \ wanted /\ op.kind = "import"
                       => scope = Local \/ m \in hosted'[scope]
                  /\ noted' \subseteq noted \/ op.kind \notin {"import", "unsave"}
<1> USE Places
<1>0. /\ kept \in [Scopes -> ScopeRecords] /\ scope \in Scopes /\ op.scope \in Scopes
      /\ hosted \in [Accounts -> SUBSET Moments]
  BY DEF Base, TypeOK, Requests
<1>1. ASSUME wanted' \subseteq wanted, noted' \subseteq noted PROVE New
  BY <1>1
<1>2. ASSUME NEW n \in Moments, Save(n) PROVE New
  BY <1>0, <1>2 DEF Save, Serves, ScopeRecords
<1>3. ASSUME NEW n \in Moments, SavePosted(n) PROVE New
  <2>1. op.kind = "save" /\ noted' = noted /\ op.scope \in Accounts
    BY <1>3 DEF SavePosted, Serves, Base, OpFits
  <2>2. CASE wanted' = wanted
    BY <1>1, <2>1, <2>2
  <2>3. CASE wanted' # wanted
    <3>1. wanted' = wanted \cup {n} /\ StillHere /\ Hosted(op.scope, n, "confirmed", TRUE)
      BY <1>3, <2>3 DEF SavePosted
    <3> QED BY <1>0, <2>1, <3>1 DEF StillHere, Hosted
  <2> QED BY <2>2, <2>3
<1>4. ASSUME NEW n \in Moments, Edit(n) PROVE New
  <2>1. op.kind = "edit" /\ wanted' = wanted
    BY <1>4 DEF Edit, Serves
  <2> QED BY <2>1
<1>5. ASSUME NEW n \in Moments, ImportBackup(n) PROVE New
  <2>1. op.kind = "backup"
    BY <1>5 DEF ImportBackup, Serves
  <2>2. CASE UNCHANGED <<wanted, noted>>
    BY <1>1, <2>2
  <2>3. CASE ~ UNCHANGED <<wanted, noted>>
    <3>1. PICK seen \in {{}, IF scope = Local THEN {} ELSE hosted[scope]}, note \in BackupNotes(n) :
            /\ kept' = [kept EXCEPT
                  ![Local].saves = @ \cup ({n} \ (seen \cup kept[Local].saves)),
                  ![Local].notes =
                    @ \cup {k \in note : k.on \in {n} \ (seen \cup kept[Local].saves)},
                  ![scope].history = @ \cup BackupVisits]
            /\ wanted' = wanted \cup {n} /\ hosted' = hosted
      BY <1>5, <2>3, Zenon DEF ImportBackup, BackupVisits, BackupNotes
    <3> DEFINE added == {n} \ (seen \cup kept[Local].saves)
    <3>2. kept'[Local].saves = kept[Local].saves \cup added
      BY <1>0, <3>1 DEF ScopeRecords
    <3>3. n \in added \/ n \in seen \/ n \in kept[Local].saves
      OBVIOUS
    <3>4. n \in kept'[Local].saves \/ (scope \in Accounts /\ n \in hosted'[scope])
      BY <1>0, <3>1, <3>2, <3>3
    <3> QED BY <2>1, <3>1, <3>2, <3>4
  <2> QED BY <2>2, <2>3
<1>6. ASSUME NEW n \in Moments, PanelSaves(n) PROVE New
  <2>1. noted' = noted /\ wanted' \subseteq wanted \cup {n}
    BY <1>6 DEF PanelSaves
  <2>2. CASE scope = Local
    BY <1>0, <1>6, <2>1, <2>2 DEF PanelSaves, ScopeRecords
  <2>3. CASE scope # Local
    <3>1. wanted' = wanted \/ Hosted(scope, n, "confirmed", TRUE)
      BY <1>6, <2>3 DEF PanelSaves
    <3> QED BY <1>0, <2>1, <2>3, <3>1 DEF Hosted
  <2> QED BY <2>2, <2>3
<1>7. ASSUME \/ \E n \in Moments : \/ Unsave(n) \/ UnsaveDeleted(n) \/ UnsaveApplied(n)
                                   \/ UnsaveDevice(n) \/ ImportPosted(n) \/ ImportNoted(n)
                                   \/ ImportDropped(n) \/ PanelRemoves(n)
             \/ Ask \/ AskRecord \/ TabLeaves \/ Serve \/ Forget \/ Status \/ Record \/ Clear
             \/ ClearDevice \/ Switch \/ LearnSync \/ ImportHistory \/ ImportListed \/ Load
             \/ (\E a \in Accounts : LinkReplays(a) \/ SignIn(a)) \/ SignOut \/ Rejected \/ Stop
             \/ (\E a \in Accounts, n \in Moments : SavedElsewhere(a, n) \/ RemovedElsewhere(a, n))
             \/ UNCHANGED vars
      PROVE  New
  <2>1. wanted' \subseteq wanted /\ noted' \subseteq noted
    BY <1>7 DEF Unsave, UnsaveDeleted, UnsaveApplied, UnsaveDevice, ImportPosted, ImportNoted,
       ImportDropped, PanelRemoves, Ask, AskRecord, TabLeaves, Serve, Forget, Status, Record,
       Clear, ClearDevice, Switch, LearnSync, ImportHistory, ImportListed, Load, LinkReplays,
       SignIn, SignOut, Rejected, Stop, SavedElsewhere, RemovedElsewhere, vars, wishes, Unwanted
  <2> QED BY <1>1, <2>1
<1> HIDE DEF New
<1>8. New
  BY <1>2, <1>3, <1>4, <1>5, <1>6, <1>7 DEF Next, Served
<1> QED BY <1>8 DEF New

(* An import goes on by its own steps alone. *)
LEMMA ImportSteps ==
  ASSUME Base, [Next]_vars, Importing'
  PROVE  op' = op \/ ImportListed
         \/ \E m \in Moments : ImportPosted(m) \/ ImportNoted(m) \/ ImportDropped(m)
<1> USE Blank
<1>0. op \in Requests /\ queue \in Seq(Requests)
  BY DEF Base, TypeOK
<1>1. CASE Serve
  <2>1. Head(queue) \in Requests /\ Head(queue).step = "start"
    BY <1>0, <1>1, Served1 DEF Serve, Base, QueueFits
  <2>2. Resolved(Head(queue)).step = "start"
    BY <2>1 DEF Resolved, Requests
  <2> QED BY <1>1, <2>2 DEF Serve, Importing
<1>2. CASE Clear
  BY <1>0, <1>2 DEF Clear, Ended, Step, Serves, Importing, Requests
<1>3. ASSUME NEW m \in Moments, Served(m), ~ ImportPosted(m), ~ ImportNoted(m), ~ ImportDropped(m)
      PROVE  FALSE
  <2>1. op' = Idle \/ \E step : op' = [op EXCEPT !.step = step] /\ op.kind \in {"save", "unsave"}
    BY <1>3 DEF Served, Save, SavePosted, Unsave, UnsaveDeleted, UnsaveApplied, UnsaveDevice,
       Edit, ImportBackup, Ended, Step, Serves
  <2> QED BY <1>0, <2>1 DEF Importing, Requests
<1>4. CASE Status \/ Record \/ ClearDevice \/ Switch \/ ImportHistory \/ Load \/ Stop
  BY <1>4 DEF Status, Record, ClearDevice, Switch, ImportHistory, Load, Stop, Ended, Importing
<1>5. CASE \/ Ask \/ AskRecord \/ TabLeaves \/ Forget \/ LearnSync \/ SignOut \/ Rejected
           \/ (\E m \in Moments : PanelSaves(m) \/ PanelRemoves(m))
           \/ (\E a \in Accounts : LinkReplays(a) \/ SignIn(a)) \/ UNCHANGED vars
           \/ \E a \in Accounts, m \in Moments : SavedElsewhere(a, m) \/ RemovedElsewhere(a, m)
  BY <1>0, <1>5 DEF Ask, AskRecord, TabLeaves, Forget, LearnSync, SignOut, Rejected, PanelSaves,
     PanelRemoves, LinkReplays, SignIn, SavedElsewhere, RemovedElsewhere, vars, Importing
<1> QED BY <1>1, <1>2, <1>3, <1>4, <1>5 DEF Next

(* While an import is under way its account signs out but not in, and the  *)
(* device gets no new note.                                                *)
LEMMA DuringImport ==
  ASSUME Base, [Next]_vars, Importing, Importing'
  PROVE  /\ op.scope \in Accounts /\ (scope' = scope \/ scope' = Local)
         /\ kept'[Local].notes \subseteq kept[Local].notes
<1> USE Places
<1>0. /\ op.scope \in Accounts /\ op.kind = "import" /\ op.step # "start"
      /\ kept \in [Scopes -> ScopeRecords] /\ scope \in Scopes /\ op \in Requests
      /\ queue \in Seq(Requests)
  BY DEF Importing, Base, OpFits, TypeOK
<1>1. ASSUME NEW s \in Scopes, NEW m,
             \/ kept' = [kept EXCEPT ![s] = Without(@, m)]
             \/ kept' = [kept EXCEPT ![s] = Orphaned(@, m)]
      PROVE  kept'[Local].notes \subseteq kept[Local].notes
  BY <1>0, <1>1, WithoutFits, OrphanedFits
<1>2. ASSUME NEW m \in Moments, ImportPosted(m) \/ ImportNoted(m) \/ ImportDropped(m)
      PROVE  scope' = scope /\ kept'[Local].notes \subseteq kept[Local].notes
  <2>1. CASE ImportPosted(m)
    BY <2>1 DEF ImportPosted
  <2>2. CASE ImportNoted(m)
    BY <1>0, <2>2 DEF ImportNoted
  <2>3. CASE ImportDropped(m)
    BY <1>1, <2>3 DEF ImportDropped
  <2> QED BY <1>2, <2>1, <2>2, <2>3
<1>3. CASE op' = op
  <2>1. ~ Serve /\ ~ Forget /\ ~ Stop /\ ~ ImportListed
    BY <1>0, <1>3, Blank DEF Serve, Forget, Stop, Importing, ImportListed, Serves
  <2>2. ~ Status /\ ~ Record /\ ~ Clear /\ ~ ClearDevice /\ ~ Switch /\ ~ ImportHistory /\ ~ Load
    BY <1>0 DEF Status, Record, Clear, ClearDevice, Switch, ImportHistory, Load, Serves
  <2>3. ASSUME NEW m \in Moments, Served(m)
        PROVE  ImportPosted(m) \/ ImportNoted(m) \/ ImportDropped(m)
    BY <1>0, <2>3 DEF Served, Save, SavePosted, Unsave, UnsaveDeleted, UnsaveApplied,
       UnsaveDevice, Edit, ImportBackup, Serves
  <2>4. \A a \in Accounts : ~ SignIn(a)
    BY <1>0 DEF SignIn, BetweenRequests
  <2>6. ASSUME NEW m \in Moments, PanelSaves(m) \/ PanelRemoves(m)
        PROVE  scope' = scope /\ kept'[Local].notes \subseteq kept[Local].notes
    <3>1. scope' = scope
      BY <2>6 DEF PanelSaves, PanelRemoves
    <3>2. \/ kept' = kept
          \/ kept' = [kept EXCEPT ![Local].saves = @ \cup {m}]
          \/ \E s \in Scopes : \/ kept' = [kept EXCEPT ![s] = Without(@, m)]
                               \/ kept' = [kept EXCEPT ![s] = Orphaned(@, m)]
      BY <1>0, <2>6 DEF PanelSaves, PanelRemoves
    <3>3. CASE kept' = [kept EXCEPT ![Local].saves = @ \cup {m}]
      BY <1>0, <3>1, <3>3 DEF ScopeRecords
    <3> QED BY <1>1, <3>1, <3>2, <3>3
  <2>7. CASE LearnSync
    BY <1>0, <2>7 DEF LearnSync, ScopeRecords
  <2>8. ASSUME NEW a \in Accounts, LinkReplays(a)
        PROVE  scope' = scope /\ kept'[Local].notes \subseteq kept[Local].notes
    BY <1>0, <2>8 DEF LinkReplays, ScopeRecords
  <2>9. CASE \/ Ask \/ AskRecord \/ TabLeaves \/ SignOut \/ Rejected \/ UNCHANGED vars
             \/ \E a \in Accounts, m \in Moments : SavedElsewhere(a, m)
    BY <1>0, <2>9 DEF Ask, AskRecord, TabLeaves, SignOut, Rejected, vars, SavedElsewhere
  <2>10. ASSUME NEW a \in Accounts, NEW m \in Moments, RemovedElsewhere(a, m)
         PROVE  scope' = scope /\ kept'[Local].notes \subseteq kept[Local].notes
    BY <1>1, <2>10 DEF RemovedElsewhere
  <2> QED BY <1>0, <2>1, <2>2, <2>3, <2>4, <1>2, <2>6, <2>7, <2>8, <2>9, <2>10 DEF Next
<1>4. CASE ImportListed
  BY <1>0, <1>4 DEF ImportListed, Serves
<1> QED BY <1>0, <1>3, <1>4, <1>2, ImportSteps
LEMMA ImportedIsThereStep ==
  ASSUME Base, Carried, [Next]_vars PROVE ImportedIsThere'
<1> SUFFICES ASSUME Importing', StillHere'
             PROVE  /\ op'.have \cap Missed(wanted', noted') \subseteq hosted'[op'.scope]
                    /\ Writing' => op'.moment \subseteq op'.have
  BY DEF ImportedIsThere
<1> USE Places, Blank
<1>0. /\ op \in Requests /\ Base' /\ ImportedIsThere
      /\ hosted \in [Accounts -> SUBSET Moments]
  BY BaseStep DEF Base, TypeOK, Carried
<1>4. ASSUME noted' \subseteq noted, NEW m \in Missed(wanted', noted'), m \notin Missed(wanted, noted)
      PROVE  m \in wanted' \ wanted
  BY <1>4 DEF Missed, On
<1>1. CASE op' = op
  <2>1. Importing /\ scope = op.scope /\ op.scope \in Accounts
    BY <1>0, <1>1, DuringImport DEF Importing, StillHere
  <2>2. /\ op.have \cap Missed(wanted, noted) \subseteq hosted[op.scope]
        /\ Writing => op.moment \subseteq op.have
    BY <1>0, <2>1 DEF ImportedIsThere, StillHere
  <2>3. ASSUME NEW m \in op.have \cap Missed(wanted', noted') PROVE m \in hosted'[op.scope]
    <3>0. m \in Moments
      BY DEF Missed
    <3>1. CASE m \in Missed(wanted, noted)
      BY <2>1, <2>2, <2>3, <3>1, HostedStays
    <3>2. CASE m \notin Missed(wanted, noted)
      <4>1. noted' \subseteq noted
        BY <2>1, <3>0, NewlyThere DEF Importing
      <4>2. m \in wanted' \ wanted
        BY <1>4, <3>2, <4>1
      <4> QED BY <1>0, <2>1, <3>0, <4>2, NewlyThere DEF Importing
    <3> QED BY <3>1, <3>2
  <2> QED BY <1>1, <2>2, <2>3 DEF Writing
<1>2. CASE ImportListed
  <2>1. op' # Idle /\ hosted' = hosted
    BY <1>2 DEF ImportListed, Importing
  <2>2. op'.have = hosted[scope] /\ op'.scope = scope /\ op'.step = "post"
    BY <1>0, <1>2, <2>1 DEF ImportListed, Ended, StillHere, Requests
  <2> QED BY <2>1, <2>2 DEF Writing
<1>3. ASSUME NEW m \in Moments, ImportPosted(m) \/ ImportNoted(m) \/ ImportDropped(m)
      PROVE  /\ op'.have \cap Missed(wanted', noted') \subseteq hosted'[op'.scope]
             /\ Writing' => op'.moment \subseteq op'.have
  <2>1. op' # Idle /\ UNCHANGED <<wanted, noted>> /\ scope' = scope /\ op.kind = "import"
        /\ op.step # "start" /\ op.scope \in Accounts
    BY <1>0, <1>3 DEF ImportPosted, ImportNoted, ImportDropped, Importing, wishes, Serves,
       Base, OpFits
  <2>2. op'.scope = op.scope
    BY <1>0, <1>3, <2>1 DEF ImportPosted, ImportNoted, ImportDropped, Ended, ImportConfirmed,
       Step, Requests
  <2>3. /\ op.have \cap Missed(wanted, noted) \subseteq hosted[op.scope]
        /\ Writing => op.moment \subseteq op.have
    BY <1>0, <2>1, <2>2 DEF ImportedIsThere, StillHere, Importing
  <2>4. \A n \in op.have \cap Missed(wanted, noted) : n \in hosted'[op.scope]
    BY <2>1, <2>3, HostedStays
  <2>5. CASE ImportPosted(m)
    <3>1. op' = [op EXCEPT !.step = "note", !.moment = {m}, !.have = op.have \cup {m}]
      BY <2>1, <2>5 DEF ImportPosted, Ended, ImportConfirmed
    <3>2. op'.have = op.have \cup {m} /\ op'.moment = {m}
      BY <1>0, <3>1 DEF Requests
    <3>3. m \in hosted'[op.scope] \/ m \in op.have
      BY <1>0, <2>1, <2>5 DEF ImportPosted, Ended, Hosted
    <3> QED BY <2>1, <2>2, <2>4, <3>2, <3>3
  <2>6. CASE ImportNoted(m)
    <3>1. op'.have = op.have /\ op'.moment = op.moment /\ Writing
      BY <1>0, <2>6 DEF ImportNoted, Step, Requests, Writing, Serves
    <3> QED BY <2>1, <2>2, <2>3, <2>4, <3>1
  <2>7. CASE ImportDropped(m)
    <3>1. op'.have = op.have /\ op'.step = "post"
      BY <1>0, <2>1, <2>7 DEF ImportDropped, Ended, Requests
    <3> QED BY <2>1, <2>2, <2>4, <3>1 DEF Writing
  <2> QED BY <1>3, <2>5, <2>6, <2>7
<1> QED BY <1>1, <1>2, <1>3, ImportSteps

LEMMA NotesSeenStep ==
  ASSUME Base, Carried, [Next]_vars PROVE NotesSeen'
<1> SUFFICES ASSUME Importing' PROVE kept'[Local].notes \subseteq op'.notes
  BY DEF NotesSeen
<1>0. op \in Requests /\ NotesSeen
  BY DEF Base, TypeOK, Carried
<1>1. CASE Importing /\ op'.notes = op.notes
  BY <1>0, <1>1, DuringImport DEF NotesSeen
<1>2. CASE op' = op
  BY <1>1, <1>2 DEF Importing
<1>3. CASE ImportListed
  <2>1. op' # Idle /\ kept' = kept
    BY <1>3, Blank DEF ImportListed, Importing
  <2>2. op'.notes = kept[Local].notes
    BY <1>0, <1>3, <2>1 DEF ImportListed, Ended, Requests
  <2> QED BY <2>1, <2>2
<1>4. ASSUME NEW m \in Moments, ImportPosted(m) \/ ImportNoted(m) \/ ImportDropped(m)
      PROVE  Importing /\ op'.notes = op.notes
  <2>1. op' # Idle /\ Importing
    BY <1>4, Blank DEF ImportPosted, ImportNoted, ImportDropped, Importing, Serves
  <2> QED BY <1>0, <1>4, <2>1 DEF ImportPosted, ImportNoted, ImportDropped, Ended, ImportConfirmed,
       Step, Requests
<1> QED BY <1>1, <1>2, <1>3, <1>4, ImportSteps

LEMMA NoteMovedStep ==
  ASSUME Base, Carried, [Next]_vars PROVE NoteMoved'
<1> SUFFICES ASSUME Importing', op'.step = "drop",
                    NEW n \in kept'[Local].notes \cap noted', n.on \in op'.moment
             PROVE  On(kept'[op'.scope].notes, n.on) # {}
  BY DEF NoteMoved
<1> USE Places, Blank
<1>0. /\ op \in Requests /\ NoteMoved /\ NotesSeen /\ RemovedIsUnnoted /\ ImportedIsThere
      /\ n \in Notes /\ n.on \in Moments /\ kept \in [Scopes -> ScopeRecords]
  BY BaseStep DEF Base, TypeOK, Carried, Notes
<1>1. CASE op' = op
  <2>1. Importing /\ op.scope \in Accounts /\ op.step = "drop" /\ n \in kept[Local].notes
    BY <1>1, DuringImport DEF Importing
  <2>2. n \in noted
    BY <1>0, <2>1, NewlyThere DEF Importing
  <2>3. PICK k \in kept[op.scope].notes : k.on = n.on
    BY <1>0, <1>1, <2>1, <2>2 DEF NoteMoved, On
  <2>4. ~ Forget /\ \A m \in Moments : ~ ImportDropped(m)
    <3>1. ASSUME NEW m \in Moments, ImportDropped(m) PROVE FALSE
      BY <1>0, <1>1, <2>1, <3>1 DEF ImportDropped, Ended, Requests, Importing
    <3> QED BY <2>1, <3>1 DEF Forget, Importing
  <2>5. Stay /\ k \in Notes
    BY <1>0, <2>1, <2>3, <2>4, DeviceStays DEF ScopeRecords
  <2>6. k \in kept'[op.scope].notes \/ On(noted', k.on) = {}
    BY <2>1, <2>3, <2>5 DEF Stay, NoteStays, Importing
  <2> QED BY <1>1, <2>3, <2>6 DEF On
<1>2. CASE ImportListed
  <2>1. op' # Idle
    BY DEF Importing
  <2> QED BY <1>0, <1>2, <2>1 DEF ImportListed, Ended, Requests
<1>3. ASSUME NEW m \in Moments, ImportPosted(m) \/ ImportDropped(m) PROVE FALSE
  <2>1. op' # Idle
    BY DEF Importing
  <2> QED BY <1>0, <1>3, <2>1 DEF ImportPosted, ImportDropped, Ended, ImportConfirmed, Requests
<1>4. ASSUME NEW m \in Moments, ImportNoted(m) PROVE On(kept'[op'.scope].notes, n.on) # {}
  <2>1. /\ op.kind = "import" /\ op.step = "note" /\ op.moment = {m} /\ op.scope \in Accounts
        /\ op' = [op EXCEPT !.step = "drop"] /\ StillHere /\ noted' = noted
        /\ kept' = [kept EXCEPT ![op.scope] = Joined(kept[op.scope], m)]
    BY <1>4 DEF ImportNoted, Serves, Step, Base, OpFits, Writing, StillHere, wishes
  <2>2. op'.moment = {m} /\ op'.scope = op.scope /\ n.on = m
    BY <1>0, <2>1 DEF Requests
  <2>3. n \in kept[Local].notes /\ n \in noted
    BY <1>0, <2>1
  <2>4. n \in On(op.notes, m)
    BY <1>0, <2>1, <2>2, <2>3 DEF NotesSeen, Importing, On
  <2>5. m \in op.have /\ m \in Missed(wanted, noted)
    BY <1>0, <2>1, <2>2, <2>3 DEF ImportedIsThere, Importing, Writing, Missed, On
  <2>6. m \in hosted[op.scope]
    BY <1>0, <2>1, <2>5 DEF ImportedIsThere, Importing
  <2>7. On(Joined(kept[op.scope], m).notes, m) # {}
    BY <1>0, <2>1, <2>4, <2>6, JoinedFits
  <2>8. kept'[op.scope] = Joined(kept[op.scope], m)
    BY <1>0, <2>1
  <2> QED BY <2>2, <2>7, <2>8
<1> QED BY <1>1, <1>2, <1>3, <1>4, ImportSteps

LEMMA RemovedIsUnnotedStep ==
  ASSUME Base, Carried, [Next]_vars PROVE RemovedIsUnnoted'
<1> SUFFICES ASSUME op'.kind = "unsave", op'.step = "apply",
                    NEW m \in op'.moment, On(noted', m) # {}
             PROVE  FALSE
  BY DEF RemovedIsUnnoted
<1> USE Places, Blank
<1>0. /\ op \in Requests /\ queue \in Seq(Requests) /\ RemovedIsUnnoted /\ m \in Moments
  <2>1. op' \in Requests
    BY BaseStep DEF Base, TypeOK
  <2> QED BY <2>1 DEF Base, TypeOK, Carried, Requests
<1>1. CASE op' = op
  <2>1. noted' \subseteq noted
    BY <1>0, <1>1, NewlyThere
  <2> QED BY <1>0, <1>1, <2>1 DEF RemovedIsUnnoted, On
<1>2. CASE Serve
  <2>1. Head(queue) \in Requests /\ Head(queue).step = "start"
    BY <1>0, <1>2, Served1 DEF Serve, Base, QueueFits
  <2>2. Resolved(Head(queue)).step = "start"
    BY <2>1 DEF Resolved, Requests
  <2> QED BY <1>2, <2>2 DEF Serve
<1>3. ASSUME NEW n \in Moments, UnsaveDeleted(n) PROVE FALSE
  <2>1. op' # Idle /\ op.moment = {n}
    BY <1>3 DEF UnsaveDeleted
  <2>2. op' = [op EXCEPT !.step = "apply"] /\ On(noted', n) = {}
    BY <1>3, <2>1, UnwantedIsUnnoted DEF UnsaveDeleted, Ended, Step
  <2> QED BY <1>0, <2>1, <2>2 DEF Requests
<1>4. ASSUME NEW n \in Moments, Served(n), ~ UnsaveDeleted(n) PROVE FALSE
  <2>1. op' # Idle
    OBVIOUS
  <2>2. op'.kind = "import"
        \/ \E step \in {"post", "delete"} : op' = [op EXCEPT !.step = step]
    BY <1>0, <1>4, <2>1 DEF Served, Save, SavePosted, Unsave, UnsaveApplied, UnsaveDevice, Edit,
       ImportPosted, ImportNoted, ImportDropped, ImportBackup, Ended, Step, Serves,
       ImportConfirmed, Requests
  <2> QED BY <1>0, <2>2 DEF Requests
<1>5. CASE ImportListed \/ Clear
  BY <1>0, <1>5 DEF ImportListed, Clear, Ended, Step, Serves, Requests
<1>6. CASE Status \/ Record \/ ClearDevice \/ Switch \/ ImportHistory \/ Load \/ Stop
  BY <1>6 DEF Status, Record, ClearDevice, Switch, ImportHistory, Load, Stop, Ended
<1>7. CASE \/ Ask \/ AskRecord \/ TabLeaves \/ Forget \/ LearnSync \/ SignOut \/ Rejected
           \/ (\E n \in Moments : PanelSaves(n) \/ PanelRemoves(n))
           \/ (\E a \in Accounts : LinkReplays(a) \/ SignIn(a)) \/ UNCHANGED vars
           \/ \E a \in Accounts, n \in Moments : SavedElsewhere(a, n) \/ RemovedElsewhere(a, n)
  <2>1. op' = op \/ Forget
    BY <1>7 DEF Ask, AskRecord, TabLeaves, LearnSync, SignOut, Rejected, PanelSaves,
       PanelRemoves, LinkReplays, SignIn, SavedElsewhere, RemovedElsewhere, vars
  <2> QED BY <1>1, <2>1 DEF Forget
<1> QED BY <1>2, <1>3, <1>4, <1>5, <1>6, <1>7 DEF Next

LEMMA SavesKeptStep ==
  ASSUME Base, Carried, [Next]_vars PROVE SavesKept'
<1> USE Places
<1>0. /\ Base' /\ wanted' \subseteq Moments /\ ImportedIsThere /\ RemovedIsUnnoted /\ SavesKept
  BY BaseStep DEF Base, TypeOK, Carried
<1>1. ASSUME NEW m \in wanted'
      PROVE  m \in kept'[Local].saves \/ \E a \in Accounts : m \in hosted'[a]
  <2>0. m \in Moments /\ m \in Missed(wanted', noted')
    BY <1>0 DEF Missed
  <2>1. CASE m \notin wanted
    BY <2>0, <2>1, NewlyThere
  <2>2. CASE \E a \in Accounts : m \in hosted[a]
    BY <2>0, <2>2, HostedStays
  <2>3. CASE m \in wanted /\ m \in kept[Local].saves
    <3>1. CASE Stay \/ SaveStays(m)
      BY <2>0, <2>3, <3>1 DEF Stay, SaveStays
    <3>2. ASSUME NEW n \in Moments, ImportDropped(n)
          PROVE  m \in kept'[Local].saves \/ \E a \in Accounts : m \in hosted'[a]
      <4>1. CASE n = m
        <5>1. m \in op.have /\ m \in Missed(wanted, noted)
          BY <1>0, <2>0, <2>3, <3>2, <4>1, DroppedAlone DEF ImportedIsThere, Writing, Missed
        <5>2. m \in hosted[op.scope] /\ op.scope \in Accounts
          BY <1>0, <3>2, <5>1, DroppedAlone DEF ImportedIsThere
        <5> QED BY <2>0, <5>2, HostedStays
      <4> QED BY <2>3, <3>2, <4>1, DroppedAlone
    <3> QED BY <1>0, <2>0, <3>1, <3>2, DeviceStays
  <2> QED BY <1>0, <2>1, <2>2, <2>3 DEF SavesKept
<1> QED BY <1>1 DEF SavesKept

LEMMA NotesKeptStep ==
  ASSUME Base, Carried, [Next]_vars, NEW n \in noted \cap noted', Noted(n)
  PROVE  Noted(n)' \/ PassedOver(n)
<1> USE Places
<1>1. PICK s \in Scopes : n \in kept[s].notes
  BY DEF Noted
<1>2. n \in Notes /\ RemovedIsUnnoted /\ NoteMoved
  BY DEF Base, TypeOK, Carried
<1>3. CASE Stay
  <2>1. n \in kept'[s].notes
    BY <1>1, <1>2, <1>3 DEF Stay, NoteStays, On
  <2> QED BY <2>1 DEF Noted
<1>4. CASE \A t \in Scopes, k \in Notes :
             k \in kept[t].notes /\ k \in noted' => k \in kept'[t].notes \/ k \in kept'[Local].notes
  BY <1>1, <1>2, <1>4 DEF Noted
<1>5. ASSUME NEW m \in Moments, ImportDropped(m) PROVE Noted(n)' \/ PassedOver(n)
  <2>1. CASE s # Local \/ n.on # m
    <3>1. n \in kept'[s].notes
      BY <1>1, <1>5, <2>1, DroppedAlone DEF On
    <3> QED BY <3>1 DEF Noted
  <2>2. CASE s = Local /\ n.on = m
    BY <1>1, <1>2, <1>5, <2>2, DroppedAlone DEF NoteMoved, PassedOver, Serves, Importing
  <2> QED BY <2>1, <2>2
<1> QED BY <1>2, <1>3, <1>4, <1>5, DeviceStays

-----------------------------------------------------------------------------
(* The invariant holds in every state of every behaviour. *)
LEMMA Inductive == Spec => []IInv
<1>1. ASSUME Init PROVE IInv
  <2> USE <1>1, Places, Blank DEF Init
  <2>1. kept \in [Scopes -> ScopeRecords] /\ \A s \in Scopes : kept[s] = Empty
    OBVIOUS
  <2>2. Waiting(queue) = {} /\ queue \in Seq(Requests)
    BY DEF Waiting
  <2>3. Base
    BY <2>1, <2>2, MyMomentsAssumption DEF Base, TypeOK, QueueFits, OpFits, Writing
  <2>4. Timings
    BY <2>1, <2>2 DEF Timings, EpochsPast, JumpsTimed, DeviceLast, RecordedWhereTimed
  <2>5. Gone /\ Carried
    BY DEF Gone, NobodyForgotten, ForgottenStaysForgotten, Carried, ImportedIsThere, NotesSeen,
       NoteMoved, RemovedIsUnnoted, Importing, SavesKept
  <2> QED BY <2>3, <2>4, <2>5 DEF IInv
<1>2. IInv /\ [Next]_vars => IInv'
  BY BaseStep, TimingsStep, GoneStep, ImportedIsThereStep, NotesSeenStep, NoteMovedStep,
     RemovedIsUnnotedStep, SavesKeptStep DEF IInv, Carried
<1> QED BY <1>1, <1>2, PTL DEF Spec

(* Type correctness of the records, the queue and who is signed in. *)
THEOREM TypeCorrect == Spec => []TypeOK
<1>1. IInv => TypeOK BY DEF IInv, Base
<1> QED BY Inductive, <1>1, PTL

(* Whatever an import loses of its answers and wherever the worker stops,  *)
(* what the user saved is still somewhere.                                 *)
THEOREM NoSaveLost == Spec => []SavesKept
<1>1. IInv => SavesKept BY DEF IInv, Carried
<1> QED BY Inductive, <1>1, PTL

(* No step loses a note the user has not removed or replaced, but the end  *)
(* of an import into an account that has one on the moment.                *)
THEOREM NoOtherNoteLost == Spec => NotesKept
<1> DEFINE Keeps == \A n \in noted \cap noted' : Noted(n) => Noted(n)' \/ PassedOver(n)
<1>1. IInv /\ [Next]_vars => [Keeps]_vars
  BY NotesKeptStep DEF IInv
<1> QED BY Inductive, <1>1, PTL DEF Spec, NotesKept

(* The epochs alone keep a jump out of the history of another scope, and   *)
(* out of one that was cleared, switched or forgotten since, unless one    *)
(* clear gave the two scopes the same epoch.                               *)
THEOREM JumpsRecordedWhereTimed == Spec => []RecordedWhereTimed
<1>1. IInv => RecordedWhereTimed BY DEF IInv, Timings
<1> QED BY Inductive, <1>1, PTL

(* Nothing late writes into the record of an account that was forgotten. *)
THEOREM ForgottenIsForgotten == Spec => []ForgottenStaysForgotten
<1>1. IInv => ForgottenStaysForgotten BY DEF IInv, Gone
<1> QED BY Inductive, <1>1, PTL
=============================================================================
