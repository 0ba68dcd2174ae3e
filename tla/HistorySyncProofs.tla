------------------------- MODULE HistorySyncProofs -------------------------
(***************************************************************************)
(* Theorems about HistorySync, for any moments, batch size and bounds.     *)
(***************************************************************************)
EXTENDS HistorySync, TLAPS

USE BoundsAssumption

-----------------------------------------------------------------------------
(* The fragments keep the shape of the records they are given. *)

LEMMA LaterType ==
  ASSUME NEW s \in Times, NEW t \in Times
  PROVE  Later(s, t) \in Times /\ Later(s, t) >= s /\ Later(s, t) >= t
BY DEF Later, Times

LEMMA NothingType == Nothing \in History
BY DEF Nothing, History, Times

LEMMA AnswerType == NoAnswer \in Answers
BY NothingType DEF NoAnswer, Answers, Times

LEMMA NewWorkerType == NewWorker \in Workers
BY NothingType, AnswerType DEF NewWorker, Workers

LEMMA VoidTypes ==
  ASSUME NEW w \in Workers
  PROVE  VoidEpoch(w) \in Workers /\ VoidRevision(w) \in Workers
BY DEF VoidEpoch, VoidRevision, InFlight, Workers

LEMMA SyncNowType ==
  ASSUME NEW w \in Workers
  PROVE  SyncNow(w) \in Workers
BY DEF SyncNow, Workers

LEMMA RoundEndsType ==
  ASSUME NEW w \in Workers, NEW more \in BOOLEAN
  PROVE  RoundEnds(w, more) \in Workers
<1> DEFINE run    == IF more \/ w.queued THEN "ready" ELSE "idle"
           queued == w.queued /\ more
<1>1. run \in {"idle", "ready", "sent", "answered"} /\ queued \in BOOLEAN
  OBVIOUS
<1>2. ASSUME NEW r \in {"idle", "ready", "sent", "answered"}, NEW q \in BOOLEAN
      PROVE  [w EXCEPT !.run = r, !.queued = q, !.sent = Nothing,
                       !.answer = NoAnswer, !.sameEpoch = TRUE,
                       !.sameRevision = TRUE] \in Workers
  BY NothingType, AnswerType DEF Workers
<1>3. [w EXCEPT !.run = run, !.queued = queued, !.sent = Nothing,
                !.answer = NoAnswer, !.sameEpoch = TRUE, !.sameRevision = TRUE]
        \in Workers
  <2> HIDE DEF run, queued
  <2> QED
    BY <1>1, <1>2
<1> QED
  BY <1>3 DEF RoundEnds

QueueHeld(d) == d.pending \subseteq Held(d)

LEMMA SwitchedType ==
  ASSUME NEW d \in Devices, NEW on \in BOOLEAN
  PROVE  Switched(d, on) \in Devices /\ QueueHeld(Switched(d, on))
<1>1. 0 \in Times /\ 0 \in 0 .. MaxSerial
  BY DEF Times
<1>2. (IF on THEN Held(d) ELSE {}) \in SUBSET Moments
  BY DEF Held
<1>3. d.captureHistory \in BOOLEAN
  BY DEF Devices
<1>4. CASE on
  BY <1>1, <1>2, <1>4 DEF Switched, Devices, QueueHeld, Held
<1>5. CASE ~on
  BY <1>1, <1>3, <1>5 DEF Switched, Devices, QueueHeld, Held
<1> QED
  BY <1>4, <1>5

LEMMA EmptiedType ==
  ASSUME NEW d \in Devices
  PROVE  Emptied(d) \in Devices /\ QueueHeld(Emptied(d))
BY NothingType DEF Emptied, Devices, QueueHeld, Held

LEMMA RecordedType ==
  ASSUME NEW d \in Devices, QueueHeld(d), NEW m \in Moments, NEW t \in Times \ {0}
  PROVE  Recorded(d, m, t) \in Devices /\ QueueHeld(Recorded(d, m, t))
BY DEF Recorded, Devices, History, QueueHeld, Held

LEMMA PushedType ==
  ASSUME server \in Servers, NEW j \in History, Pushed(j).serial <= MaxSerial
  PROVE  Pushed(j) \in Servers
<1> DEFINE newer == {m \in Moments : j[m] > server.rows[m]}
           next  == IF newer = {} THEN server.serial ELSE server.serial + 1
<1>1. Pushed(j).serial = next
  BY DEF Pushed, Servers
<1>2. next \in 1 .. MaxSerial
  BY <1>1 DEF Servers
<1>3. [m \in Moments |-> Later(server.rows[m], j[m])] \in History
  BY LaterType DEF Servers, History
<1>4. [m \in Moments |-> IF m \in newer THEN next ELSE server.version[m]]
        \in [Moments -> 0 .. MaxSerial]
  BY <1>2 DEF Servers
<1> QED
  BY <1>2, <1>3, <1>4 DEF Pushed, Servers

LEMMA ReplyType ==
  ASSUME NEW s \in Servers, NEW c \in 0 .. MaxSerial
  PROVE  Reply(s, c) \in Answers
BY DEF Reply, Answers, Servers, History, Times

LEMMA MergedType ==
  ASSUME NEW d \in Devices, NEW r \in Answers
  PROVE  Merged(d, r) \in History /\ Watermark(d, r) \in Times
BY DEF Merged, Watermark, Later, Devices, Answers, History, Times

-----------------------------------------------------------------------------
(* Every variable keeps its shape, and only held moments are queued: the    *)
(* queue of historySync.ts:20 never names a jump the history has not.       *)
THEOREM TypeCorrect == Spec => []TypeOK
<1>1. Init => TypeOK
  BY NothingType, NewWorkerType
     DEF Init, TypeOK, NewDevice, Devices, Servers, Times, History
<1>2. TypeOK /\ [Next]_vars => TypeOK'
  <2> SUFFICES ASSUME TypeOK, [Next]_vars PROVE TypeOK'
    OBVIOUS
  <2> USE DEF TypeOK
  <2>0. QueueHeld(device)
    BY DEF QueueHeld, Held
  <2>1. CASE CaptureStatus
    <3>1. device' \in Devices /\ QueueHeld(device')
      BY <2>0, <2>1 DEF CaptureStatus, Devices, QueueHeld, Held
    <3>2. watching' \in Times /\ worker' \in Workers
      BY <2>1, VoidTypes DEF CaptureStatus, Times
    <3> QED
      BY <2>1, <3>1, <3>2 DEF CaptureStatus, QueueHeld, Held
  <2>2. CASE \E m \in Moments : CaptureRecord(m)
    <3> PICK m \in Moments : CaptureRecord(m)
      BY <2>2
    <3>1. CASE now < MaxTime /\ now' = now + 1 /\ device' = Recorded(device, m, now + 1)
      <4>1. now + 1 \in Times \ {0} /\ now' \in 1 .. MaxTime
        BY <3>1 DEF Times
      <4>2. device' \in Devices /\ QueueHeld(device')
        BY <4>1, <3>1, <2>0, RecordedType
      <4> QED
        BY <4>1, <4>2 DEF CaptureRecord, QueueHeld, Held, Times
    <3>2. CASE UNCHANGED <<device, now>>
      BY <3>2 DEF CaptureRecord, Times
    <3> QED
      BY <3>1, <3>2 DEF CaptureRecord
  <2>3. CASE CaptureAbandoned
    BY <2>3 DEF CaptureAbandoned, Times
  <2>4. CASE \E on \in BOOLEAN : SetCapture(on)
    <3> PICK on \in BOOLEAN : SetCapture(on)
      BY <2>4
    <3>1. device' = [device EXCEPT !.captureHistory = on, !.firstEpoch = FALSE]
      BY DEF SetCapture
    <3>2. device' \in Devices
      BY <3>1 DEF Devices
    <3>3. device'.pending = device.pending /\ device'.history = device.history
      BY <3>1 DEF Devices
    <3>4. worker' \in Workers /\ watchSame' \in BOOLEAN
      BY VoidTypes DEF SetCapture, VoidCapture
    <3>5. UNCHANGED <<watching, server, now, clearedHere, wiped>>
      BY DEF SetCapture
    <3>6. device'.pending \subseteq {m \in Moments : device'.history[m] # 0}
      BY <3>3
    <3>7. /\ server' \in Servers /\ now' \in 1 .. MaxTime /\ watching' \in Times
          /\ clearedHere' \in Times /\ wiped' \in SUBSET Moments
      BY <3>5
    <3> QED
      BY <3>2, <3>4, <3>6, <3>7
  <2>5. CASE \E on \in BOOLEAN : SwitchAsk(on)
    <3> PICK on \in BOOLEAN : SwitchAsk(on)
      BY <2>5
    <3> DEFINE next == IF server.syncEnabled = on THEN "apply" ELSE "change"
    <3>1. worker' = [worker EXCEPT !.enable = on, !.command = next]
      BY DEF SwitchAsk
    <3>2. next \in {"apply", "change"}
      OBVIOUS
    <3> HIDE DEF next
    <3>3. worker' \in Workers
      BY <3>1, <3>2 DEF Workers
    <3> QED
      BY <3>3 DEF SwitchAsk
  <2>6. CASE ServerSwitch \/ \E on \in BOOLEAN : ElsewhereSwitch(on)
    <3>1. server' \in Servers
      <4>1. ASSUME NEW on \in BOOLEAN, AccountSwitched(on) PROVE server' \in Servers
        <5>1. CASE on
          BY <4>1, <5>1 DEF AccountSwitched, Servers
        <5>2. CASE ~on
          <6>1. server.serial + 1 \in 1 .. MaxSerial
            BY <4>1, <5>2 DEF AccountSwitched, Servers
          <6>2. [m \in Moments |-> 0] \in [Moments -> 0 .. MaxSerial]
            OBVIOUS
          <6> QED
            BY <4>1, <5>2, <6>1, <6>2, NothingType DEF AccountSwitched, Servers
        <5> QED
          BY <5>1, <5>2
      <4> QED
        BY <2>6, <4>1 DEF ServerSwitch, ElsewhereSwitch, Workers
    <3> QED
      BY <2>6, <3>1 DEF ServerSwitch, ElsewhereSwitch, Workers
  <2>7. CASE SwitchApply
    <3> DEFINE w == [worker EXCEPT !.command = "none", !.enable = FALSE]
    <3>1. w \in Workers /\ worker.enable \in BOOLEAN
      BY DEF Workers
    <3>2. worker' \in Workers
      BY <2>7, <3>1, VoidTypes, SyncNowType DEF SwitchApply
    <3>3. Switched(device, worker.enable) \in Devices
            /\ QueueHeld(Switched(device, worker.enable))
      BY <3>1, SwitchedType
    <3>4. device' \in Devices /\ QueueHeld(device')
      BY <2>7, <3>3 DEF SwitchApply, Devices, QueueHeld, Held
    <3> QED
      BY <2>7, <3>2, <3>4 DEF SwitchApply, VoidCapture, QueueHeld, Held
  <2>8. CASE ClearHere
    BY <2>8, VoidTypes, EmptiedType DEF ClearHere, VoidCapture, QueueHeld, Held
  <2>9. CASE ClearAsk
    BY <2>9 DEF ClearAsk, Workers
  <2>10. CASE ServerClear \/ ElsewhereClear
    <3>1. server' \in Servers /\ now' \in 1 .. MaxTime
      <4>1. server.serial + 1 \in 1 .. MaxSerial /\ now + 1 \in Times
              /\ now' \in 1 .. MaxTime
        BY <2>10 DEF ServerClear, ElsewhereClear, AccountCleared, Servers, Times
      <4>2. [m \in Moments |-> 0] \in [Moments -> 0 .. MaxSerial]
        OBVIOUS
      <4> QED
        BY <2>10, <4>1, <4>2, NothingType
           DEF ServerClear, ElsewhereClear, AccountCleared, Servers
    <3> QED
      BY <2>10, <3>1 DEF ServerClear, ElsewhereClear, Workers
  <2>11. CASE ClearApply
    <3>1. [worker EXCEPT !.command = "none"] \in Workers
      BY DEF Workers
    <3>2. worker' \in Workers
      BY <2>11, <3>1, VoidTypes DEF ClearApply
    <3>3. clearedHere' \in Times /\ wiped' \in SUBSET Moments
      BY <2>11 DEF ClearApply, Servers
    <3> QED
      BY <2>11, <3>2, <3>3, EmptiedType DEF ClearApply, VoidCapture, QueueHeld, Held
  <2>12. CASE CommandFails
    BY <2>12 DEF CommandFails, Workers
  <2>13. CASE RefreshSync \/ RefreshAsk
    BY <2>13, SyncNowType DEF RefreshSync, RefreshAsk, Workers
  <2>14. CASE RefreshApply
    <3>2. worker' \in Workers
      BY <2>14, VoidTypes, SyncNowType DEF RefreshApply
    <3>3. device' \in Devices /\ QueueHeld(device')
      BY <2>14, <2>0, SwitchedType DEF RefreshApply
    <3> QED
      BY <2>14, <3>2, <3>3 DEF RefreshApply, QueueHeld, Held
  <2>15. CASE NotEnabled \/ RunStops
    BY <2>15, RoundEndsType DEF NotEnabled, RunStops
  <2>16. CASE Send
    <3> PICK batch \in Batches(device) :
          worker' = [worker EXCEPT !.run = "sent",
                       !.sent = [m \in Moments |->
                                   IF m \in batch THEN device.history[m] ELSE 0]]
      BY <2>16 DEF Send
    <3>1. [m \in Moments |-> IF m \in batch THEN device.history[m] ELSE 0] \in History
      BY DEF Devices, History, Times
    <3> QED
      BY <2>16, <3>1 DEF Send, Workers
  <2>17. CASE ServerSync
    <3>1. worker.sent \in History /\ device.cursor \in 0 .. MaxSerial
      BY DEF Workers, Devices
    <3>2. [NoAnswer EXCEPT !.off = TRUE] \in Answers
      BY AnswerType DEF Answers
    <3>3. server' \in Servers
      BY <2>17, <3>1, PushedType DEF ServerSync
    <3>4. worker' \in Workers
      <4>1. CASE ~server.syncEnabled
        BY <2>17, <4>1, <3>2 DEF ServerSync, Workers
      <4>2. CASE server.syncEnabled
        <5>1. Reply(Pushed(worker.sent), device.cursor) \in Answers
          BY <2>17, <4>2, <3>1, PushedType, ReplyType DEF ServerSync
        <5>2. ASSUME NEW a \in Answers
              PROVE  [worker EXCEPT !.run = "answered", !.answer = a] \in Workers
          BY DEF Workers
        <5> QED
          BY <2>17, <4>2, <5>1, <5>2 DEF ServerSync
      <4> QED
        BY <4>1, <4>2
    <3> QED
      BY <2>17, <3>3, <3>4 DEF ServerSync
  <2>18. CASE ApplyReply
    <3> DEFINE r    == worker.answer
               kept == Merged(device, r)
               left == StillPending(device, worker, kept)
    <3>1. r \in Answers
      BY DEF Workers
    <3>2. kept \in History /\ Watermark(device, r) \in Times
      BY <3>1, MergedType
    <3>3. left \subseteq {m \in Moments : kept[m] # 0}
      BY DEF StillPending, Devices
    <3>4. device' \in Devices /\ device'.pending = left /\ device'.history = kept
      BY <2>18, <3>1, <3>2, <3>3 DEF ApplyReply, RemoteClear, Devices, Answers
    <3>5. worker' \in Workers
      BY <2>18, RoundEndsType DEF ApplyReply
    <3>6. watchSame' \in BOOLEAN
      BY <2>18 DEF ApplyReply, VoidCapture
    <3> QED
      BY <2>18, <3>3, <3>4, <3>5, <3>6 DEF ApplyReply
  <2>19. CASE ApplyOff
    <3>1. device' \in Devices
      <4>1. [device EXCEPT !.enabled = FALSE, !.pending = {}, !.cursor = 0] \in Devices
        <5>1. 0 \in 0 .. MaxSerial /\ {} \in SUBSET Moments
          OBVIOUS
        <5> QED
          BY <5>1 DEF Devices
      <4> QED
        BY <2>19, <4>1 DEF ApplyOff
    <3>2. QueueHeld(device')
      BY <2>0, <2>19 DEF ApplyOff, Devices, QueueHeld, Held
    <3> QED
      BY <2>19, <3>1, <3>2, RoundEndsType DEF ApplyOff, QueueHeld, Held
  <2>20. CASE Restart
    BY <2>20, NewWorkerType DEF Restart
  <2>21. CASE \E m \in Moments, at \in Times : ElsewhereJump(m, at)
    <3> PICK m \in Moments, at \in Times : ElsewhereJump(m, at)
      BY <2>21
    <3>1. [Nothing EXCEPT ![m] = at] \in History
      BY NothingType DEF History
    <3>2. Pushed([Nothing EXCEPT ![m] = at]).serial <= MaxSerial
      BY <3>1 DEF ElsewhereJump, Pushed, Servers
    <3>3. server' \in Servers
      BY <3>1, <3>2, PushedType DEF ElsewhereJump
    <3>4. now' \in 1 .. MaxTime
      BY DEF ElsewhereJump, Later, Times
    <3> QED
      BY <3>3, <3>4 DEF ElsewhereJump
  <2>22. CASE UNCHANGED vars
    BY <2>22 DEF vars
  <2> QED
    BY <2>1, <2>2, <2>3, <2>4, <2>5, <2>6, <2>7, <2>8, <2>9, <2>10, <2>11, <2>12,
       <2>13, <2>14, <2>15, <2>16, <2>17, <2>18, <2>19, <2>20, <2>21, <2>22
       DEF Next, Page, Sync, Elsewhere
<1> QED
  BY <1>1, <1>2, PTL DEF Spec

-----------------------------------------------------------------------------
(* What the strengthening needs to say of the clock, of the clears and of   *)
(* the reply under way. *)

ClockOrder ==
  /\ clearedHere <= server.clearedAt
  /\ server.clearedAt <= now
  /\ watching <= now
  /\ device.clearedAt <= server.clearedAt
  /\ worker.answer.clearedAt <= server.clearedAt

\* A reply that still counts is younger than this browser's own clear.
ReplyAfterClear ==
  worker.run = "answered" /\ ~worker.answer.off /\ worker.sameEpoch
    => worker.answer.clearedAt >= clearedHere

ClearInv == TypeOK /\ ClockOrder /\ ReplyAfterClear /\ ClearedStaysCleared
                   /\ ClearVoidsCaptures

\* Most steps leave the reply under way as it is, or end it.
ReplyKept ==
  \/ worker'.run # "answered" /\ worker'.answer.clearedAt = 0
  \/ /\ worker'.answer = worker.answer
     /\ worker'.run = "answered" => worker.run = "answered"
     /\ worker'.sameEpoch => worker.sameEpoch

LEMMA FragmentsKeepReply ==
  ASSUME NEW w \in Workers
  PROVE  /\ VoidEpoch(w).answer = w.answer /\ VoidEpoch(w).run = w.run
         /\ VoidEpoch(w).sameEpoch => w.sameEpoch /\ ~InFlight(w)
         /\ VoidRevision(w).answer = w.answer /\ VoidRevision(w).run = w.run
         /\ VoidRevision(w).sameEpoch = w.sameEpoch
         /\ SyncNow(w).answer = w.answer /\ SyncNow(w).sameEpoch = w.sameEpoch
         /\ SyncNow(w).run = "answered" => w.run = "answered"
<1>1. /\ VoidEpoch(w).answer = w.answer /\ VoidEpoch(w).run = w.run
      /\ VoidEpoch(w).sameEpoch => w.sameEpoch /\ ~InFlight(w)
  BY DEF VoidEpoch, Workers
<1>2. /\ VoidRevision(w).answer = w.answer /\ VoidRevision(w).run = w.run
      /\ VoidRevision(w).sameEpoch = w.sameEpoch
  BY DEF VoidRevision, Workers
<1>3. /\ SyncNow(w).answer = w.answer /\ SyncNow(w).sameEpoch = w.sameEpoch
      /\ SyncNow(w).run = "answered" => w.run = "answered"
  BY DEF SyncNow, Workers
<1> QED
  BY <1>1, <1>2, <1>3

LEMMA RoundEndsReply ==
  ASSUME NEW w \in Workers, NEW more \in BOOLEAN
  PROVE  RoundEnds(w, more).run # "answered" /\ RoundEnds(w, more).answer.clearedAt = 0
BY DEF RoundEnds, NoAnswer, Workers

ClockTypes ==
  /\ now \in Nat /\ watching \in Nat /\ clearedHere \in Nat
  /\ server.clearedAt \in Nat /\ device.clearedAt \in Nat
  /\ worker.answer.clearedAt \in Nat
  /\ \A m \in Moments : device.history[m] \in Nat

LEMMA TypesOfClock == TypeOK => ClockTypes
<1> SUFFICES ASSUME TypeOK PROVE ClockTypes
  OBVIOUS
<1>1. Times \subseteq Nat
  BY DEF Times
<1>2. worker.answer \in Answers
  BY DEF TypeOK, Workers
<1>3. worker.answer.clearedAt \in Times
  BY <1>2 DEF Answers
<1>4. server.clearedAt \in Times /\ device.clearedAt \in Times
  BY DEF TypeOK, Servers, Devices
<1>5. \A m \in Moments : device.history[m] \in Times
  BY DEF TypeOK, Devices, History
<1>6. now \in Nat /\ watching \in Times /\ clearedHere \in Times
  BY DEF TypeOK
<1> QED
  BY <1>1, <1>3, <1>4, <1>5, <1>6 DEF ClockTypes

LEMMA TypesOfClockNext == TypeOK' => ClockTypes'
BY TypesOfClock, PTL

\* A step that touches no clock and no history, and at most voids or ends things.
LEMMA QuietSteps ==
  ASSUME ClearInv, TypeOK', ReplyKept,
         UNCHANGED <<server, now, clearedHere>>,
         watching' = watching \/ watching' = 0 \/ (watching' = now /\ device'.clearedAt = device.clearedAt),
         watchSame' /\ watching' = watching /\ watching # 0 => watchSame,
         device'.history = device.history \/ device'.history = Nothing,
         device'.clearedAt = 0 \/
           (device'.clearedAt = device.clearedAt /\ (device'.enabled => device.enabled))
  PROVE  ClearInv'
<1>0. ClockTypes /\ ClockTypes'
  BY TypesOfClock, TypesOfClockNext DEF ClearInv
<1>1. ClockOrder'
  BY <1>0 DEF ClearInv, ClockOrder, ClockTypes, ReplyKept
<1>2. ReplyAfterClear'
  BY DEF ClearInv, ReplyAfterClear, ReplyKept
<1>3. ClearedStaysCleared'
  BY DEF ClearInv, ClearedStaysCleared, Nothing
<1>4. ClearVoidsCaptures'
  BY <1>0, <1>1 DEF ClearInv, ClearVoidsCaptures, ClockOrder, ClockTypes
<1> QED
  BY <1>1, <1>2, <1>3, <1>4 DEF ClearInv

LEMMA ClearInvStep == ClearInv /\ TypeOK' /\ [Next]_vars => ClearInv'
<1> SUFFICES ASSUME ClearInv, TypeOK', [Next]_vars PROVE ClearInv'
  OBVIOUS
<1> USE FragmentsKeepReply, RoundEndsReply
<1>0. TypeOK /\ worker \in Workers /\ ClockTypes /\ ClockTypes'
  BY TypesOfClock, TypesOfClockNext DEF ClearInv, TypeOK
<1>1. CASE CaptureStatus
  <2>1. ReplyKept
    BY <1>0, <1>1 DEF CaptureStatus, ReplyKept
  <2>2. device'.clearedAt = device.clearedAt /\ device'.history = device.history
    BY <1>0, <1>1 DEF CaptureStatus, TypeOK, Devices
  <2> QED
    BY <1>1, <2>1, <2>2, QuietSteps DEF CaptureStatus
<1>2. CASE \E m \in Moments : CaptureRecord(m)
  <2> PICK m \in Moments : CaptureRecord(m)
    BY <1>2
  <2>1. CASE UNCHANGED <<device, now>>
    BY <2>1, <1>0, QuietSteps DEF CaptureRecord, ReplyKept
  <2>2. CASE now' = now + 1 /\ device' = Recorded(device, m, now + 1)
    <3>1. /\ device'.clearedAt = device.clearedAt
          /\ device'.history = [device.history EXCEPT ![m] = now + 1]
      BY <1>0, <2>2 DEF Recorded, TypeOK, Devices
    <3>2. ClearedStaysCleared'
      BY <1>0, <2>2, <3>1 DEF CaptureRecord, ClearInv, ClearedStaysCleared, ClockOrder,
         ClockTypes, TypeOK, Devices, History
    <3> QED
      BY <1>0, <2>2, <3>1, <3>2 DEF CaptureRecord, ClearInv, ClockOrder, ClockTypes,
         ReplyAfterClear, ClearVoidsCaptures
  <2> QED
    BY <2>1, <2>2 DEF CaptureRecord
<1>3. CASE CaptureAbandoned
  BY <1>3, <1>0, QuietSteps DEF CaptureAbandoned, ReplyKept
<1>4. CASE \E on \in BOOLEAN : SetCapture(on)
  <2>1. ReplyKept
    BY <1>0, <1>4 DEF SetCapture, ReplyKept
  <2>2. /\ device'.clearedAt = device.clearedAt /\ device'.history = device.history
        /\ device'.enabled = device.enabled
    BY <1>0, <1>4 DEF SetCapture, TypeOK, Devices
  <2> QED
    BY <1>4, <2>1, <2>2, QuietSteps DEF SetCapture, VoidCapture
<1>5. CASE \E on \in BOOLEAN : SwitchAsk(on)
  <2>1. ReplyKept
    BY <1>0, <1>5 DEF SwitchAsk, ReplyKept, Workers
  <2> QED
    BY <1>5, <2>1, QuietSteps DEF SwitchAsk
<1>6. CASE ServerSwitch \/ \E on \in BOOLEAN : ElsewhereSwitch(on)
  <2>1. server'.clearedAt = server.clearedAt
    BY <1>0, <1>6 DEF ServerSwitch, ElsewhereSwitch, AccountSwitched, TypeOK, Servers
  <2>2. worker'.answer = worker.answer /\ worker'.run = worker.run
          /\ worker'.sameEpoch = worker.sameEpoch
    BY <1>0, <1>6 DEF ServerSwitch, ElsewhereSwitch, Workers
  <2> QED
    BY <1>6, <2>1, <2>2 DEF ServerSwitch, ElsewhereSwitch, ClearInv, ClockOrder,
       ReplyAfterClear, ClearedStaysCleared, ClearVoidsCaptures
<1>7. CASE SwitchApply
  <2> DEFINE w == [worker EXCEPT !.command = "none", !.enable = FALSE]
  <2>1. /\ w \in Workers /\ w.answer = worker.answer /\ w.run = worker.run
        /\ w.sameEpoch = worker.sameEpoch
    BY <1>0 DEF Workers
  <2> HIDE DEF w
  <2> DEFINE v == VoidRevision(VoidEpoch(w))
  <2>2. /\ v \in Workers /\ v.answer = w.answer /\ v.run = w.run
        /\ v.sameEpoch => w.sameEpoch
    <3> DEFINE u == VoidEpoch(w)
    <3>1. /\ u \in Workers /\ u.answer = w.answer /\ u.run = w.run
          /\ u.sameEpoch => w.sameEpoch
      BY <2>1, VoidTypes
    <3> HIDE DEF u
    <3>2. /\ VoidRevision(u) \in Workers /\ VoidRevision(u).answer = u.answer
          /\ VoidRevision(u).run = u.run /\ VoidRevision(u).sameEpoch = u.sameEpoch
      BY <3>1, VoidTypes
    <3> QED
      BY <3>1, <3>2 DEF u
  <2>3. worker' = IF worker.enable THEN SyncNow(v) ELSE v
    BY <1>7 DEF SwitchApply, w
  <2> HIDE DEF v
  <2>4. ReplyKept
    BY <2>1, <2>2, <2>3 DEF ReplyKept
  <2>5. device'.clearedAt = 0 /\ device'.history = device.history
    BY <1>0, <1>7 DEF SwitchApply, Switched, TypeOK, Devices
  <2> QED
    BY <1>7, <2>4, <2>5, QuietSteps DEF SwitchApply, VoidCapture
<1>8. CASE ClearHere
  <2>1. ReplyKept
    BY <1>0, <1>8 DEF ClearHere, ReplyKept
  <2>2. /\ device'.clearedAt = device.clearedAt /\ device'.history = Nothing
        /\ device'.enabled = device.enabled
    BY <1>0, <1>8 DEF ClearHere, Emptied, TypeOK, Devices
  <2> QED
    BY <1>8, <2>1, <2>2, QuietSteps DEF ClearHere, VoidCapture
<1>9. CASE ClearAsk \/ CommandFails
  <2>1. ReplyKept
    <3>1. CASE ClearAsk
      BY <1>0, <3>1 DEF ClearAsk, ReplyKept, Workers
    <3>2. CASE CommandFails
      BY <1>0, <3>2 DEF CommandFails, ReplyKept, Workers
    <3> QED
      BY <1>9, <3>1, <3>2
  <2> QED
    BY <1>9, <2>1, QuietSteps DEF ClearAsk, CommandFails
<1>10. CASE ServerClear \/ ElsewhereClear
  <2>1. server'.clearedAt = now + 1 /\ now' = now + 1
    BY <1>0, <1>10 DEF ServerClear, ElsewhereClear, AccountCleared, TypeOK, Servers
  <2>2. worker'.answer = worker.answer /\ worker'.run = worker.run
          /\ worker'.sameEpoch = worker.sameEpoch
    BY <1>0, <1>10 DEF ServerClear, ElsewhereClear, Workers
  <2> QED
    BY <1>0, <1>10, <2>1, <2>2 DEF ServerClear, ElsewhereClear, ClearInv, ClockOrder,
       ClockTypes, ReplyAfterClear, ClearedStaysCleared, ClearVoidsCaptures
<1>11. CASE ClearApply
  <2> DEFINE w == [worker EXCEPT !.command = "none"]
  <2>1. /\ w \in Workers /\ w.answer = worker.answer /\ w.run = worker.run
        /\ w.sameEpoch = worker.sameEpoch
    BY <1>0 DEF Workers
  <2>2. /\ worker'.answer = worker.answer /\ worker'.run = worker.run
        /\ worker'.sameEpoch => ~InFlight(worker)
    <3>1. worker' = VoidEpoch(w)
      BY <1>11 DEF ClearApply
    <3>2. InFlight(w) = InFlight(worker)
      BY <2>1 DEF InFlight
    <3> QED
      BY <2>1, <3>1, <3>2
  <2> HIDE DEF w
  <2>3. /\ device'.clearedAt = device.clearedAt /\ device'.history = Nothing
        /\ device'.enabled = device.enabled
    BY <1>0, <1>11 DEF ClearApply, Emptied, TypeOK, Devices
  <2>4. ClockOrder'
    BY <1>0, <1>11, <2>1, <2>2, <2>3 DEF ClearApply, ClearInv, ClockOrder, ClockTypes
  <2>5. ReplyAfterClear'
    BY <2>1, <2>2 DEF ReplyAfterClear, InFlight
  <2>6. ClearedStaysCleared' /\ ClearVoidsCaptures'
    BY <1>11, <2>3 DEF ClearApply, VoidCapture, ClearedStaysCleared, ClearVoidsCaptures, Nothing
  <2> QED
    BY <2>4, <2>5, <2>6 DEF ClearInv
<1>12. CASE RefreshSync \/ RefreshAsk
  <2>1. ReplyKept
    BY <1>0, <1>12 DEF RefreshSync, RefreshAsk, ReplyKept, Workers
  <2> QED
    BY <1>12, <2>1, QuietSteps DEF RefreshSync, RefreshAsk
<1>13. CASE RefreshApply
  <2> DEFINE v == VoidRevision(worker)
  <2>2. /\ v \in Workers /\ v.answer = worker.answer /\ v.run = worker.run
        /\ v.sameEpoch = worker.sameEpoch
    BY <1>0, VoidTypes, FragmentsKeepReply
  <2>3. worker' = IF worker.refresh = "on" THEN SyncNow(v) ELSE v
    BY <1>13 DEF RefreshApply
  <2> HIDE DEF v
  <2>4. ReplyKept
    BY <2>2, <2>3 DEF ReplyKept
  <2>5. device' = device \/ (device'.clearedAt = 0 /\ device'.history = device.history)
    BY <1>0, <1>13 DEF RefreshApply, Switched, TypeOK, Devices
  <2> QED
    BY <1>13, <2>4, <2>5, QuietSteps DEF RefreshApply
<1>14. CASE NotEnabled \/ RunStops
  <2>1. ReplyKept
    <3>1. worker' = RoundEnds(worker, FALSE)
      BY <1>14 DEF NotEnabled, RunStops
    <3> QED
      BY <1>0, <3>1 DEF ReplyKept
  <2> QED
    <3>1. /\ device' = device /\ watching' = watching /\ watchSame' = watchSame
          /\ UNCHANGED <<server, now, clearedHere>>
      BY <1>14 DEF NotEnabled, RunStops
    <3> QED
      BY <2>1, <3>1, QuietSteps
<1>15. CASE Send
  <2>1. ReplyKept
    BY <1>0, <1>15 DEF Send, ReplyKept, Workers
  <2> QED
    BY <1>15, <2>1, QuietSteps DEF Send
<1>16. CASE ServerSync
  <2>1. \/ worker'.answer.clearedAt = 0 /\ worker'.answer.off
        \/ worker'.answer.clearedAt = server.clearedAt
    <3>2. \/ worker'.answer = [NoAnswer EXCEPT !.off = TRUE]
          \/ worker'.answer = Reply(Pushed(worker.sent), device.cursor)
      <4>1. CASE ~server.syncEnabled
        <5>1. worker' = [worker EXCEPT !.run = "answered",
                                       !.answer = [NoAnswer EXCEPT !.off = TRUE]]
          BY <1>16, <4>1 DEF ServerSync
        <5> QED
          BY <1>0, <5>1 DEF Workers
      <4>2. CASE server.syncEnabled
        <5>1. worker' = [worker EXCEPT
                           !.run = "answered",
                           !.answer = Reply(Pushed(worker.sent), device.cursor)]
          BY <1>16, <4>2 DEF ServerSync
        <5> QED
          BY <1>0, <5>1 DEF Workers
      <4> QED
        BY <4>1, <4>2
    <3>3. Pushed(worker.sent).clearedAt = server.clearedAt
      BY <1>0 DEF Pushed, TypeOK, Servers
    <3> QED
      BY <3>2, <3>3 DEF Reply, NoAnswer
  <2>2. server'.clearedAt = server.clearedAt
    BY <1>0, <1>16 DEF ServerSync, Pushed, TypeOK, Servers
  <2> QED
    BY <1>0, <1>16, <2>1, <2>2 DEF ServerSync, ClearInv, ClockOrder, ClockTypes,
       ReplyAfterClear, ClearedStaysCleared, ClearVoidsCaptures
<1>17. CASE ApplyReply
  <2> DEFINE r == worker.answer
  <2>1. r.clearedAt >= clearedHere
    BY <1>17 DEF ApplyReply, ReplyCounts, ClearInv, ReplyAfterClear
  <2>2. /\ device'.history = Merged(device, r)
        /\ device'.clearedAt = Watermark(device, r)
        /\ device'.enabled = device.enabled
    BY <1>0, <1>17 DEF ApplyReply, TypeOK, Devices
  <2>3. /\ Watermark(device, r) \in {device.clearedAt, r.clearedAt}
        /\ Watermark(device, r) >= r.clearedAt
        /\ ~RemoteClear(device, r) => Watermark(device, r) = device.clearedAt
    BY <1>0 DEF Watermark, Later, RemoteClear, ClockTypes
  <2>4. \A m \in Moments : Merged(device, r)[m] = 0
                             \/ Merged(device, r)[m] > Watermark(device, r)
    BY DEF Merged
  <2>5. ClearedStaysCleared'
    BY <1>0, <1>17, <2>1, <2>2, <2>3, <2>4
       DEF ApplyReply, ClearedStaysCleared, ClockTypes
  <2>6. worker'.run # "answered" /\ worker'.answer.clearedAt = 0
    BY <1>0, <1>17 DEF ApplyReply
  <2>7. ClockOrder'
    BY <1>0, <1>17, <2>2, <2>3, <2>6 DEF ApplyReply, ClearInv, ClockOrder, ClockTypes
  <2>8. ClearVoidsCaptures'
    <3>1. CASE RemoteClear(device, r)
      BY <1>17, <3>1 DEF ApplyReply, VoidCapture, ClearVoidsCaptures
    <3>2. CASE ~RemoteClear(device, r)
      <4>1. UNCHANGED <<watching, watchSame>>
        BY <1>17, <3>2 DEF ApplyReply
      <4> QED
        BY <2>2, <2>3, <3>2, <4>1 DEF ClearInv, ClearVoidsCaptures
    <3> QED
      BY <3>1, <3>2
  <2> QED
    BY <2>5, <2>6, <2>7, <2>8 DEF ClearInv, ReplyAfterClear
<1>18. CASE ApplyOff
  <2>1. ReplyKept
    BY <1>0, <1>18 DEF ApplyOff, ReplyKept
  <2>2. device'.clearedAt = device.clearedAt /\ device'.history = device.history
          /\ (device'.enabled => device.enabled)
    BY <1>0, <1>18 DEF ApplyOff, TypeOK, Devices
  <2> QED
    BY <1>18, <2>1, <2>2, QuietSteps DEF ApplyOff
<1>19. CASE Restart
  <2>1. ReplyKept
    BY <1>19 DEF Restart, ReplyKept, NewWorker, NoAnswer
  <2> QED
    BY <1>19, <2>1, QuietSteps DEF Restart
<1>20. CASE \E m \in Moments, at \in Times : ElsewhereJump(m, at)
  <2>1. server'.clearedAt = server.clearedAt
    BY <1>0, <1>20 DEF ElsewhereJump, Pushed, TypeOK, Servers
  <2>2. now' >= now
    BY <1>0, <1>20 DEF ElsewhereJump, Later, ClockTypes, Times
  <2> QED
    BY <1>0, <1>20, <2>1, <2>2 DEF ElsewhereJump, ClearInv, ClockOrder, ClockTypes,
       ReplyAfterClear, ClearedStaysCleared, ClearVoidsCaptures
<1>21. CASE UNCHANGED vars
  BY <1>21 DEF vars, ClearInv, ClockOrder, ReplyAfterClear, ClearedStaysCleared,
     ClearVoidsCaptures
<1> QED
  BY <1>1, <1>2, <1>3, <1>4, <1>5, <1>6, <1>7, <1>8, <1>9, <1>10, <1>11, <1>12,
     <1>13, <1>14, <1>15, <1>16, <1>17, <1>18, <1>19, <1>20, <1>21
     DEF Next, Page, Sync, Elsewhere

LEMMA ClearInvariant == Spec => []ClearInv
<1>1. Init => ClearInv
  BY NothingType, NewWorkerType
     DEF Init, ClearInv, TypeOK, NewDevice, Devices, Servers, Times, History,
         ClockOrder, ReplyAfterClear, ClearedStaysCleared, ClearVoidsCaptures,
         NewWorker, NoAnswer, Nothing
<1> QED
  BY <1>1, TypeCorrect, ClearInvStep, PTL DEF Spec

(* What the viewer cleared from the account on this browser never comes     *)
(* back to it (applySyncReply's epoch fence and clear watermark).           *)
THEOREM ClearsAreFinal == Spec => []ClearedStaysCleared
<1>1. ClearInv => ClearedStaysCleared
  BY DEF ClearInv
<1> QED
  BY <1>1, ClearInvariant, PTL

(* A capture begun before a clear that this browser has learned of can no   *)
(* longer be recorded (the epoch of applySyncReply and of clear-history).   *)
THEOREM ClearsVoidCaptures == Spec => []ClearVoidsCaptures
<1>1. ClearInv => ClearVoidsCaptures
  BY DEF ClearInv
<1> QED
  BY <1>1, ClearInvariant, PTL
-----------------------------------------------------------------------------
(* What the strengthening needs to say of the account's copy, of the cursor *)
(* into it and of a reply on its way back to the browser. *)

\* Nobody has seen a jump that is yet to come.
TimesPassed ==
  \A m \in Moments :
    /\ device.history[m] <= now /\ server.rows[m] <= now
    /\ worker.sent[m] <= now /\ worker.answer.entries[m] <= now

\* A cursor is never ahead of the copy it was taken from, and one of a copy
\* that was switched off is behind the base of the next.
CopyOrder ==
  /\ server.base <= server.serial
  /\ device.cursor <= server.serial
  /\ worker.answer.cursor <= server.serial
  /\ \A m \in Moments : server.version[m] <= server.serial
  /\ ~server.syncEnabled => /\ device.cursor < server.base
                            /\ worker.answer.cursor < server.base

ReplyOfCopy ==
  /\ worker.run = "answered" /\ ~worker.answer.off
  /\ worker.answer.cursor >= server.base

\* A reply of the present copy: what it acknowledges and what it brings is in
\* the account or was cleared, and what it does not bring the browser had.
ReplyTells ==
  ReplyOfCopy =>
    /\ ~worker.answer.reset /\ worker.sameRevision => device.cursor >= server.base
    /\ \A m \in Moments :
         /\ worker.sent[m] <= Later(server.clearedAt, server.rows[m])
         /\ worker.answer.entries[m] <= Later(server.clearedAt, server.rows[m])
         /\ server.version[m] <= worker.answer.cursor
              => \/ worker.answer.entries[m] >= server.rows[m]
                 \/ /\ ~worker.answer.reset
                    /\ worker.sameRevision => server.version[m] <= device.cursor

\* Between the two halves of a clear nothing is missed at all.
NothingMissedSinceClear ==
  worker.command = "cleared" /\ Following => \A m \in Moments :
    server.version[m] <= device.cursor =>
      \/ device.history[m] >= server.rows[m]
      \/ server.rows[m] <= server.clearedAt

CopyInv ==
  /\ TimesPassed /\ CopyOrder /\ ReplyTells
  /\ NothingLeftUnsent /\ NothingMissed /\ NothingMissedSinceClear

CopyTypes ==
  /\ server.serial \in Nat /\ server.base \in Nat \ {0}
  /\ device.cursor \in Nat /\ worker.answer.cursor \in Nat
  /\ \A m \in Moments :
       /\ server.rows[m] \in Nat /\ server.version[m] \in Nat
       /\ worker.sent[m] \in Nat /\ worker.answer.entries[m] \in Nat

LEMMA TypesOfCopy == TypeOK => CopyTypes
<1> SUFFICES ASSUME TypeOK PROVE CopyTypes
  OBVIOUS
<1>1. server.serial \in Nat /\ server.base \in Nat \ {0} /\ device.cursor \in Nat
  BY DEF TypeOK, Servers, Devices
<1>2. \A m \in Moments : server.rows[m] \in Nat /\ server.version[m] \in Nat
  BY DEF TypeOK, Servers, History, Times
<1>3. worker.answer \in Answers /\ worker.sent \in History
  BY DEF TypeOK, Workers
<1>4. worker.answer.cursor \in Nat /\ worker.answer.entries \in History
  BY <1>3 DEF Answers
<1>5. \A h \in History : \A m \in Moments : h[m] \in Nat
  BY DEF History, Times
<1> QED
  BY <1>1, <1>2, <1>3, <1>4, <1>5 DEF CopyTypes

LEMMA TypesOfCopyNext == TypeOK' => CopyTypes'
BY TypesOfCopy, PTL

LEMMA NothingHolds == \A m \in Moments : Nothing[m] = 0 /\ NoAnswer.entries[m] = 0
BY DEF Nothing, NoAnswer

\* Most steps leave the batch and the reply under way as they are, or end them.
RoundKept ==
  /\ worker'.answer \in {worker.answer, NoAnswer}
  /\ \A m \in Moments : worker'.sent[m] \in {0, worker.sent[m], device.history[m]}
  /\ worker'.run = "answered" =>
       /\ worker.run = "answered"
       /\ worker'.answer = worker.answer /\ worker'.sent = worker.sent
       /\ worker'.sameRevision => worker.sameRevision /\ device'.cursor = device.cursor

LEMMA FragmentsKeepRound ==
  ASSUME NEW w \in Workers
  PROVE  /\ VoidEpoch(w).sent = w.sent /\ VoidEpoch(w).command = w.command
         /\ VoidEpoch(w).sameRevision = w.sameRevision
         /\ VoidRevision(w).sent = w.sent /\ VoidRevision(w).command = w.command
         /\ VoidRevision(w).run = "answered" => ~VoidRevision(w).sameRevision
         /\ SyncNow(w).sent = w.sent /\ SyncNow(w).command = w.command
         /\ SyncNow(w).sameRevision = w.sameRevision
<1>1. /\ VoidEpoch(w).sent = w.sent /\ VoidEpoch(w).command = w.command
      /\ VoidEpoch(w).sameRevision = w.sameRevision
  BY DEF VoidEpoch, Workers
<1>2. /\ VoidRevision(w).sent = w.sent /\ VoidRevision(w).command = w.command
      /\ VoidRevision(w).run = "answered" => ~VoidRevision(w).sameRevision
  BY DEF VoidRevision, InFlight, Workers
<1>3. /\ SyncNow(w).sent = w.sent /\ SyncNow(w).command = w.command
      /\ SyncNow(w).sameRevision = w.sameRevision
  BY DEF SyncNow, Workers
<1> QED
  BY <1>1, <1>2, <1>3

LEMMA RoundEndsRound ==
  ASSUME NEW w \in Workers, NEW more \in BOOLEAN
  PROVE  /\ RoundEnds(w, more).run # "answered" /\ RoundEnds(w, more).sent = Nothing
         /\ RoundEnds(w, more).answer = NoAnswer
         /\ RoundEnds(w, more).command = w.command
BY DEF RoundEnds, Workers

\* A step that leaves the account alone and at most empties the browser's
\* history, by one of the steps after which it no longer follows the account.
LEMMA LocalSteps ==
  ASSUME TypeOK, TypeOK', CopyInv, RoundKept, UNCHANGED <<server, now, wiped>>,
         worker'.command = "cleared" => worker.command = "cleared",
         \/ /\ device'.history = device.history /\ device'.cursor = device.cursor
            /\ device'.enabled = device.enabled /\ device'.pending = device.pending
         \/ /\ device'.history \in {device.history, Nothing}
            /\ device'.cursor = 0 \/ (~device'.enabled /\ device'.cursor = device.cursor)
  PROVE  CopyInv'
<1>0. CopyTypes /\ CopyTypes' /\ ClockTypes /\ ClockTypes'
  BY TypesOfCopy, TypesOfCopyNext, TypesOfClock, TypesOfClockNext
<1>1. TimesPassed'
  BY <1>0, NothingHolds DEF CopyInv, TimesPassed, RoundKept, CopyTypes, ClockTypes
<1>2. CopyOrder'
  BY <1>0 DEF CopyInv, CopyOrder, RoundKept, CopyTypes, NoAnswer
<1>3. ReplyTells'
  BY <1>0 DEF CopyInv, ReplyTells, ReplyOfCopy, RoundKept
<1>4. NothingLeftUnsent' /\ NothingMissed' /\ NothingMissedSinceClear'
  <2>1. Following' => /\ Following /\ device'.history = device.history
                      /\ device'.cursor = device.cursor /\ device'.pending = device.pending
    <3>1. CASE /\ device'.history = device.history /\ device'.cursor = device.cursor
               /\ device'.enabled = device.enabled /\ device'.pending = device.pending
      BY <3>1 DEF Following
    <3>2. CASE device'.cursor = 0
      BY <1>0, <3>2 DEF Following, CopyTypes
    <3>3. CASE ~device'.enabled
      BY <3>3 DEF Following
    <3> QED
      BY <3>1, <3>2, <3>3
  <2> QED
    BY <2>1 DEF CopyInv, NothingLeftUnsent, NothingMissed, NothingMissedSinceClear
<1> QED
  BY <1>1, <1>2, <1>3, <1>4 DEF CopyInv

\* A push reaches the account.
LEMMA PushedFacts ==
  ASSUME TypeOK, NEW j \in History
  PROVE  LET s == Pushed(j) IN
         /\ s.syncEnabled = server.syncEnabled /\ s.base = server.base
         /\ s.clearedAt = server.clearedAt
         /\ s.serial \in {server.serial, server.serial + 1}
         /\ \A m \in Moments :
              /\ s.rows[m] = Later(server.rows[m], j[m])
              /\ \/ s.rows[m] = server.rows[m] /\ s.version[m] = server.version[m]
                 \/ s.serial = server.serial + 1 /\ s.version[m] = s.serial
<1>0. CopyTypes /\ \A m \in Moments : j[m] \in Nat
  BY TypesOfCopy DEF History, Times
<1> DEFINE newer == {m \in Moments : j[m] > server.rows[m]}
           next  == IF newer = {} THEN server.serial ELSE server.serial + 1
           s     == Pushed(j)
<1>1. /\ s.syncEnabled = server.syncEnabled /\ s.base = server.base
      /\ s.clearedAt = server.clearedAt /\ s.serial = next
  BY DEF Pushed, TypeOK, Servers
<1>2. s.rows = [m \in Moments |-> Later(server.rows[m], j[m])]
  BY DEF Pushed, TypeOK, Servers
<1>3. s.version = [m \in Moments |-> IF m \in newer THEN next ELSE server.version[m]]
  BY DEF Pushed, TypeOK, Servers
<1> HIDE DEF s
<1>4. ASSUME NEW m \in Moments
      PROVE  \/ s.rows[m] = server.rows[m] /\ s.version[m] = server.version[m]
             \/ s.serial = server.serial + 1 /\ s.version[m] = s.serial
  <2>1. CASE m \in newer
    BY <2>1, <1>1, <1>3
  <2>2. CASE m \notin newer
    BY <2>2, <1>0, <1>2, <1>3 DEF Later, CopyTypes
  <2> QED
    BY <2>1, <2>2
<1>5. s.serial \in {server.serial, server.serial + 1}
  BY <1>1
<1> QED
  BY <1>1, <1>2, <1>4, <1>5 DEF s

\* What a push leaves true of the browser, whose reply, if any, is older.
LEMMA PushKeeps ==
  ASSUME TypeOK, TypeOK', CopyInv, NEW j \in History, server' = Pushed(j),
         UNCHANGED <<device, watching, watchSame, clearedHere, wiped>>, now' >= now,
         \A m \in Moments : j[m] <= now',
         worker' = worker
  PROVE  CopyInv'
<1>0. CopyTypes /\ CopyTypes' /\ ClockTypes /\ ClockTypes' /\ \A m \in Moments : j[m] \in Nat
  BY TypesOfCopy, TypesOfCopyNext, TypesOfClock, TypesOfClockNext DEF History, Times
<1>1. /\ server'.syncEnabled = server.syncEnabled /\ server'.base = server.base
      /\ server'.clearedAt = server.clearedAt
      /\ server'.serial \in {server.serial, server.serial + 1}
      /\ \A m \in Moments :
           /\ server'.rows[m] = Later(server.rows[m], j[m])
           /\ \/ server'.rows[m] = server.rows[m] /\ server'.version[m] = server.version[m]
              \/ server'.serial = server.serial + 1 /\ server'.version[m] = server'.serial
  BY PushedFacts
<1>2. TimesPassed'
  BY <1>0, <1>1 DEF CopyInv, TimesPassed, CopyTypes, ClockTypes, Later
<1>3. CopyOrder'
  BY <1>0, <1>1 DEF CopyInv, CopyOrder, CopyTypes
<1>4. ASSUME NEW m \in Moments
      PROVE  /\ Later(server.clearedAt, server.rows[m]) <= Later(server'.clearedAt, server'.rows[m])
             /\ \A c \in Nat : server'.version[m] <= c /\ c <= server.serial
                  => server'.rows[m] = server.rows[m] /\ server'.version[m] = server.version[m]
  BY <1>0, <1>1 DEF CopyTypes, ClockTypes, Later
<1>5. ReplyTells'
  <2> SUFFICES ASSUME ReplyOfCopy' PROVE
        /\ ~worker.answer.reset /\ worker.sameRevision => device.cursor >= server'.base
        /\ \A m \in Moments :
             /\ worker.sent[m] <= Later(server'.clearedAt, server'.rows[m])
             /\ worker.answer.entries[m] <= Later(server'.clearedAt, server'.rows[m])
             /\ server'.version[m] <= worker.answer.cursor
                  => \/ worker.answer.entries[m] >= server'.rows[m]
                     \/ /\ ~worker.answer.reset
                        /\ worker.sameRevision => server'.version[m] <= device.cursor
    BY DEF ReplyTells
  <2>1. ReplyOfCopy
    BY <1>1 DEF ReplyOfCopy
  <2>2. worker.answer.cursor <= server.serial
    BY DEF CopyInv, CopyOrder
  <2>3. \A m \in Moments :
          Later(server.clearedAt, server.rows[m]) \in Nat
            /\ Later(server'.clearedAt, server'.rows[m]) \in Nat
    BY <1>0 DEF Later, CopyTypes, ClockTypes
  <2> QED
    BY <1>0, <1>1, <1>4, <2>1, <2>2, <2>3 DEF CopyInv, ReplyTells, CopyTypes, ClockTypes
<1>6. NothingLeftUnsent'
  <2>1. \A m \in Moments :
          Later(server.clearedAt, server.rows[m]) \in Nat
            /\ Later(server'.clearedAt, server'.rows[m]) \in Nat
    BY <1>0 DEF Later, CopyTypes, ClockTypes
  <2> QED
    BY <1>0, <1>1, <1>4, <2>1 DEF CopyInv, NothingLeftUnsent, Following, CopyTypes, ClockTypes
<1>7. NothingMissed' /\ NothingMissedSinceClear'
  BY <1>0, <1>1, <1>4 DEF CopyInv, CopyOrder, NothingMissed, NothingMissedSinceClear,
     Following, CopyTypes
<1> QED
  BY <1>2, <1>3, <1>5, <1>6, <1>7 DEF CopyInv

LEMMA CopyInvStep == CopyInv /\ ClearInv /\ TypeOK' /\ [Next]_vars => CopyInv'
<1> SUFFICES ASSUME CopyInv, ClearInv, TypeOK', [Next]_vars PROVE CopyInv'
  OBVIOUS
<1> USE FragmentsKeepReply, FragmentsKeepRound, RoundEndsRound
<1>0. /\ TypeOK /\ worker \in Workers /\ device \in Devices /\ server \in Servers
      /\ CopyTypes /\ CopyTypes' /\ ClockTypes /\ ClockTypes'
  BY TypesOfCopy, TypesOfCopyNext, TypesOfClock, TypesOfClockNext DEF ClearInv, TypeOK
<1>1. CASE CaptureStatus
  <2>1. /\ device'.history = device.history /\ device'.cursor = device.cursor
        /\ device'.enabled = device.enabled /\ device'.pending = device.pending
    BY <1>0, <1>1 DEF CaptureStatus, Devices
  <2>2. RoundKept /\ worker'.command = worker.command
    BY <1>0, <1>1, <2>1 DEF CaptureStatus, RoundKept
  <2> QED
    BY <1>0, <1>1, <2>1, <2>2, LocalSteps DEF CaptureStatus
<1>2. CASE \E m \in Moments : CaptureRecord(m)
  <2> PICK m \in Moments : CaptureRecord(m)
    BY <1>2
  <2>1. CASE UNCHANGED <<device, now>>
    <3>1. RoundKept
      BY <2>1 DEF CaptureRecord, RoundKept
    <3> QED
      BY <1>0, <2>1, <3>1, LocalSteps DEF CaptureRecord
  <2>2. CASE now' = now + 1 /\ device' = Recorded(device, m, now + 1)
    <3>1. /\ device'.cursor = device.cursor /\ device'.enabled = device.enabled
          /\ device'.history = [device.history EXCEPT ![m] = now + 1]
          /\ device.enabled => device'.pending = device.pending \cup {m}
      BY <1>0, <2>2 DEF Recorded, Devices
    <3>2. \A k \in Moments : device'.history[k] = IF k = m THEN now + 1 ELSE device.history[k]
      BY <1>0, <3>1 DEF Devices, History
    <3>3. UNCHANGED <<worker, server, wiped>>
      BY DEF CaptureRecord
    <3>4. TimesPassed'
      BY <1>0, <2>2, <3>2, <3>3 DEF CopyInv, TimesPassed, CopyTypes, ClockTypes
    <3>5. CopyOrder' /\ ReplyTells'
      BY <3>1, <3>3 DEF CopyInv, CopyOrder, ReplyTells, ReplyOfCopy
    <3>6. NothingLeftUnsent'
      BY <3>1, <3>2, <3>3 DEF CopyInv, NothingLeftUnsent, Following
    <3>7. NothingMissed' /\ NothingMissedSinceClear'
      <4>1. \A k \in Moments : server.rows[k] <= now
        BY DEF CopyInv, TimesPassed
      <4> QED
        BY <1>0, <3>1, <3>2, <3>3, <4>1
           DEF CopyInv, NothingMissed, NothingMissedSinceClear, Following, CopyTypes, ClockTypes
    <3> QED
      BY <3>4, <3>5, <3>6, <3>7 DEF CopyInv
  <2> QED
    BY <2>1, <2>2 DEF CaptureRecord
<1>3. CASE CaptureAbandoned
  <2>1. RoundKept
    BY <1>3 DEF CaptureAbandoned, RoundKept
  <2> QED
    BY <1>0, <1>3, <2>1, LocalSteps DEF CaptureAbandoned
<1>4. CASE \E on \in BOOLEAN : SetCapture(on)
  <2>1. /\ device'.history = device.history /\ device'.cursor = device.cursor
        /\ device'.enabled = device.enabled /\ device'.pending = device.pending
    BY <1>0, <1>4 DEF SetCapture, Devices
  <2>2. RoundKept /\ worker'.command = worker.command
    BY <1>0, <1>4, <2>1 DEF SetCapture, RoundKept
  <2> QED
    BY <1>0, <1>4, <2>1, <2>2, LocalSteps DEF SetCapture
<1>5. CASE \E on \in BOOLEAN : SwitchAsk(on)
  <2>1. RoundKept /\ worker'.command # "cleared"
    BY <1>0, <1>5 DEF SwitchAsk, RoundKept, Workers
  <2> QED
    BY <1>0, <1>5, <2>1, LocalSteps DEF SwitchAsk
<1>6. CASE ServerSwitch \/ \E on \in BOOLEAN : ElsewhereSwitch(on)
  <2>1. /\ UNCHANGED <<device, now, wiped>>
        /\ worker'.command = "cleared" => worker.command = "cleared"
        /\ worker'.run = worker.run /\ worker'.sent = worker.sent
        /\ worker'.answer = worker.answer /\ worker'.sameRevision = worker.sameRevision
    BY <1>0, <1>6 DEF ServerSwitch, ElsewhereSwitch, Workers
  <2>2. PICK on \in BOOLEAN : AccountSwitched(on)
    <3>1. worker.enable \in BOOLEAN
      BY <1>0 DEF Workers
    <3> QED
      BY <1>6, <3>1 DEF ServerSwitch, ElsewhereSwitch
  <2>3. CASE on
    <3>1. /\ server'.syncEnabled /\ server'.rows = server.rows
          /\ server'.version = server.version /\ server'.serial = server.serial
          /\ server'.base = server.base /\ server'.clearedAt = server.clearedAt
      BY <1>0, <2>2, <2>3 DEF AccountSwitched, Servers
    <3>2. TimesPassed' /\ CopyOrder' /\ ReplyTells'
      BY <2>1, <3>1 DEF CopyInv, TimesPassed, CopyOrder, ReplyTells, ReplyOfCopy
    <3>3. Following' => Following
      BY <1>0, <2>1, <3>1 DEF CopyInv, CopyOrder, Following, CopyTypes
    <3> QED
      BY <2>1, <3>1, <3>2, <3>3
         DEF CopyInv, NothingLeftUnsent, NothingMissed, NothingMissedSinceClear
  <2>4. CASE ~on
    <3>1. /\ ~server'.syncEnabled /\ server'.rows = Nothing
          /\ server'.version = [m \in Moments |-> 0] /\ server'.serial = server.serial + 1
          /\ server'.base = server.serial + 1
      <4>1. server' = [server EXCEPT
                         !.syncEnabled = FALSE, !.rows = Nothing,
                         !.version = [m \in Moments |-> 0],
                         !.serial = @ + 1, !.base = server.serial + 1]
        BY <2>2, <2>4 DEF AccountSwitched
      <4> QED
        BY <1>0, <4>1 DEF Servers
    <3>2. TimesPassed'
      BY <1>0, <2>1, <3>1, NothingHolds DEF CopyInv, TimesPassed, ClockTypes
    <3>3. CopyOrder'
      BY <1>0, <2>1, <3>1 DEF CopyInv, CopyOrder, CopyTypes
    <3>4. ~Following' /\ ~ReplyOfCopy'
      BY <1>0, <2>1, <3>1 DEF Following, ReplyOfCopy, CopyInv, CopyOrder, CopyTypes
    <3> QED
      BY <3>2, <3>3, <3>4
         DEF CopyInv, ReplyTells, NothingLeftUnsent, NothingMissed, NothingMissedSinceClear
  <2> QED
    BY <2>3, <2>4
<1>7. CASE SwitchApply
  <2> DEFINE w == [worker EXCEPT !.command = "none", !.enable = FALSE]
             u == VoidEpoch(w)
             v == VoidRevision(u)
  <2>1. /\ w \in Workers /\ w.answer = worker.answer /\ w.run = worker.run
        /\ w.sent = worker.sent /\ w.command = "none"
    BY <1>0 DEF Workers
  <2>2. worker' = IF worker.enable THEN SyncNow(v) ELSE v
    BY <1>7 DEF SwitchApply
  <2> HIDE DEF w
  <2>3. /\ u \in Workers /\ u.answer = w.answer /\ u.run = w.run
        /\ u.sent = w.sent /\ u.command = w.command
    BY <2>1, VoidTypes
  <2> HIDE DEF u
  <2>4. /\ v \in Workers /\ v.answer = u.answer /\ v.run = u.run
        /\ v.sent = u.sent /\ v.command = u.command
        /\ v.run = "answered" => ~v.sameRevision
    BY <2>3, VoidTypes
  <2> HIDE DEF v
  <2>5. RoundKept /\ worker'.command = "none"
    BY <2>1, <2>2, <2>3, <2>4 DEF RoundKept
  <2>6. device'.cursor = 0 /\ device'.history = device.history
    BY <1>0, <1>7 DEF SwitchApply, Switched, Devices
  <2> QED
    BY <1>0, <1>7, <2>5, <2>6, LocalSteps DEF SwitchApply
<1>8. CASE ClearHere
  <2>1. /\ device'.cursor = device.cursor /\ device'.history = Nothing
        /\ device'.enabled = device.enabled /\ ~device.enabled
    BY <1>0, <1>8 DEF ClearHere, Emptied, Devices
  <2>2. RoundKept /\ worker'.command = worker.command
    BY <1>0, <1>8, <2>1 DEF ClearHere, RoundKept
  <2> QED
    BY <1>0, <1>8, <2>1, <2>2, LocalSteps DEF ClearHere
<1>9. CASE ClearAsk
  <2>1. RoundKept /\ worker'.command = "clear"
    BY <1>0, <1>9 DEF ClearAsk, RoundKept, Workers
  <2> QED
    BY <1>0, <1>9, <2>1, LocalSteps DEF ClearAsk
<1>10. CASE CommandFails
  <2>1. RoundKept /\ worker'.command = "none"
    BY <1>0, <1>10 DEF CommandFails, RoundKept, Workers
  <2> QED
    BY <1>0, <1>10, <2>1, LocalSteps DEF CommandFails
<1>11. CASE ServerClear \/ ElsewhereClear
  <2>1. /\ now' = now + 1 /\ UNCHANGED <<device, wiped>>
        /\ worker'.run = worker.run /\ worker'.sent = worker.sent
        /\ worker'.answer = worker.answer /\ worker'.sameRevision = worker.sameRevision
    BY <1>0, <1>11 DEF ServerClear, ElsewhereClear, AccountCleared, Workers
  <2>2. /\ server'.clearedAt = now + 1 /\ server'.rows = Nothing
        /\ server'.version = [m \in Moments |-> 0] /\ server'.base = server.base
        /\ server'.serial = server.serial + 1 /\ server'.syncEnabled = server.syncEnabled
    BY <1>0, <1>11 DEF ServerClear, ElsewhereClear, AccountCleared, Servers
  <2>3. \A m \in Moments : server'.rows[m] = 0 /\ server'.version[m] = 0
    BY <2>2, NothingHolds
  <2>4. TimesPassed'
    BY <1>0, <2>1, <2>3 DEF CopyInv, TimesPassed, CopyTypes, ClockTypes
  <2>5. CopyOrder'
    BY <1>0, <2>1, <2>2, <2>3 DEF CopyInv, CopyOrder, CopyTypes
  <2>6. \A m \in Moments : Later(server'.clearedAt, server'.rows[m]) = now + 1
    BY <1>0, <2>2, <2>3 DEF Later, ClockTypes
  <2>7. ReplyTells'
    BY <1>0, <2>1, <2>2, <2>3, <2>4, <2>6
       DEF CopyInv, ReplyTells, ReplyOfCopy, TimesPassed, CopyTypes, ClockTypes
  <2>8. NothingLeftUnsent'
    BY <2>1, <2>4, <2>6 DEF TimesPassed, NothingLeftUnsent
  <2>9. NothingMissed' /\ NothingMissedSinceClear'
    BY <1>0, <2>2, <2>3 DEF NothingMissed, NothingMissedSinceClear, ClockTypes
  <2> QED
    BY <2>4, <2>5, <2>7, <2>8, <2>9 DEF CopyInv
<1>12. CASE ClearApply
  <2> DEFINE w == [worker EXCEPT !.command = "none"]
  <2>1. /\ w \in Workers /\ w.answer = worker.answer /\ w.run = worker.run
        /\ w.sent = worker.sent /\ w.command = "none"
        /\ w.sameRevision = worker.sameRevision
    BY <1>0 DEF Workers
  <2>2. worker' = VoidEpoch(w)
    BY <1>12 DEF ClearApply
  <2> HIDE DEF w
  <2>3. /\ worker'.answer = worker.answer /\ worker'.run = worker.run
        /\ worker'.sent = worker.sent /\ worker'.command = "none"
        /\ worker'.sameRevision = worker.sameRevision
    BY <2>1, <2>2
  <2>4. /\ device'.cursor = device.cursor /\ device'.history = Nothing
        /\ device'.enabled = device.enabled
        /\ UNCHANGED <<server, now>>
        /\ wiped' = {m \in Moments : device.history[m] > server.clearedAt}
    BY <1>0, <1>12 DEF ClearApply, Emptied, Devices
  <2>5. TimesPassed' /\ CopyOrder' /\ ReplyTells'
    BY <1>0, <2>3, <2>4, NothingHolds
       DEF CopyInv, TimesPassed, CopyOrder, ReplyTells, ReplyOfCopy, ClockTypes
  <2>6. NothingLeftUnsent'
    BY <1>0, <2>4, NothingHolds DEF NothingLeftUnsent, Later, CopyTypes, ClockTypes
  <2>7. NothingMissedSinceClear'
    BY <2>3 DEF NothingMissedSinceClear
  <2>8. NothingMissed'
    <3>1. Following' => Following
      BY <2>4 DEF Following
    <3> QED
      BY <1>0, <1>12, <2>4, <3>1
         DEF ClearApply, CopyInv, NothingMissed, NothingMissedSinceClear, CopyTypes, ClockTypes
  <2> QED
    BY <2>5, <2>6, <2>7, <2>8 DEF CopyInv
<1>13. CASE RefreshSync \/ RefreshAsk
  <2>1. RoundKept /\ worker'.command = worker.command
    <3>1. CASE RefreshSync
      BY <1>0, <3>1 DEF RefreshSync, RoundKept
    <3>2. CASE RefreshAsk
      BY <1>0, <3>2 DEF RefreshAsk, RoundKept, Workers
    <3> QED
      BY <1>13, <3>1, <3>2
  <2> QED
    BY <1>0, <1>13, <2>1, LocalSteps DEF RefreshSync, RefreshAsk
<1>14. CASE RefreshApply
  <2> DEFINE v == VoidRevision(worker)
  <2>1. /\ v \in Workers /\ v.answer = worker.answer /\ v.run = worker.run
        /\ v.sent = worker.sent /\ v.command = worker.command
        /\ v.run = "answered" => ~v.sameRevision
    BY <1>0, VoidTypes
  <2>2. worker' = IF worker.refresh = "on" THEN SyncNow(v) ELSE v
    BY <1>14 DEF RefreshApply
  <2> HIDE DEF v
  <2>3. RoundKept /\ worker'.command = worker.command
    BY <2>1, <2>2 DEF RoundKept
  <2>4. device'.cursor = 0 /\ device'.history = device.history
    BY <1>0, <1>14 DEF RefreshApply, Switched, Devices
  <2> QED
    BY <1>0, <1>14, <2>3, <2>4, LocalSteps DEF RefreshApply
<1>15. CASE NotEnabled \/ RunStops
  <2>1. worker' = RoundEnds(worker, FALSE) /\ UNCHANGED <<device, server, now, wiped>>
    BY <1>15 DEF NotEnabled, RunStops
  <2>2. RoundKept /\ worker'.command = worker.command
    BY <1>0, <2>1, NothingHolds DEF RoundKept
  <2> QED
    BY <1>0, <2>1, <2>2, LocalSteps
<1>16. CASE Send
  <2>1. RoundKept /\ worker'.command = worker.command
    BY <1>0, <1>16 DEF Send, RoundKept, Workers
  <2> QED
    BY <1>0, <1>16, <2>1, LocalSteps DEF Send
<1>17. CASE ServerSync
  <2>1. CASE ~server.syncEnabled
    <3>1. /\ UNCHANGED <<device, server, now, wiped>>
          /\ worker'.answer.off /\ worker'.answer.cursor = 0
          /\ worker'.answer.entries = Nothing
          /\ worker'.sent = worker.sent /\ worker'.command = worker.command
      <4>1. /\ UNCHANGED <<device, server, now, wiped>>
            /\ worker' = [worker EXCEPT !.run = "answered",
                                        !.answer = [NoAnswer EXCEPT !.off = TRUE]]
        BY <1>17, <2>1 DEF ServerSync
      <4>2. worker'.answer = [NoAnswer EXCEPT !.off = TRUE]
              /\ worker'.sent = worker.sent /\ worker'.command = worker.command
        BY <1>0, <4>1 DEF Workers
      <4> QED
        BY <4>1, <4>2 DEF NoAnswer
    <3>2. TimesPassed'
      BY <1>0, <3>1, NothingHolds DEF CopyInv, TimesPassed, ClockTypes
    <3>3. CopyOrder'
      BY <1>0, <3>1 DEF CopyInv, CopyOrder, CopyTypes
    <3>4. ReplyTells'
      BY <3>1 DEF ReplyTells, ReplyOfCopy
    <3> QED
      BY <3>1, <3>2, <3>3, <3>4 DEF CopyInv, NothingLeftUnsent, NothingMissed,
         NothingMissedSinceClear, Following
  <2>2. CASE server.syncEnabled
    <3> DEFINE j == worker.sent
               a == Reply(Pushed(j), device.cursor)
    <3>1. j \in History /\ server' = Pushed(j)
            /\ UNCHANGED <<device, now, wiped>>
      BY <1>0, <1>17, <2>2 DEF ServerSync, Workers
    <3>2. /\ worker'.run = "answered" /\ worker'.answer = a
          /\ worker'.sent = j /\ worker'.command = worker.command
          /\ worker'.sameRevision = worker.sameRevision
      <4>1. worker' = [worker EXCEPT !.run = "answered", !.answer = a]
        BY <1>17, <2>2 DEF ServerSync
      <4> HIDE DEF a
      <4> QED
        BY <1>0, <4>1 DEF Workers
    <3>3. /\ ~a.off /\ a.cursor = server'.serial
          /\ a.reset <=> device.cursor < server'.base
          /\ \A m \in Moments :
               a.entries[m] = IF a.reset \/ server'.version[m] > device.cursor
                              THEN server'.rows[m] ELSE 0
      BY <3>1 DEF Reply
    <3>4. /\ server'.syncEnabled = server.syncEnabled /\ server'.base = server.base
          /\ server'.clearedAt = server.clearedAt
          /\ server'.serial \in {server.serial, server.serial + 1}
          /\ \A m \in Moments :
               /\ server'.rows[m] = Later(server.rows[m], j[m])
               /\ \/ server'.rows[m] = server.rows[m] /\ server'.version[m] = server.version[m]
                  \/ server'.serial = server.serial + 1 /\ server'.version[m] = server'.serial
      BY <1>0, <3>1, PushedFacts
    <3> HIDE DEF a
    <3>5. \A m \in Moments : j[m] \in Nat /\ j[m] <= now
      BY <1>0 DEF CopyInv, TimesPassed, CopyTypes
    <3>6. TimesPassed'
      BY <1>0, <3>1, <3>2, <3>3, <3>4, <3>5
         DEF CopyInv, TimesPassed, CopyTypes, ClockTypes, Later
    <3>7. CopyOrder'
      BY <1>0, <2>2, <3>1, <3>2, <3>3, <3>4 DEF CopyInv, CopyOrder, CopyTypes
    <3>8. ReplyTells'
      <4>1. \A m \in Moments :
              /\ j[m] <= Later(server'.clearedAt, server'.rows[m])
              /\ a.entries[m] <= Later(server'.clearedAt, server'.rows[m])
        BY <1>0, <3>3, <3>4, <3>5 DEF Later, CopyTypes, ClockTypes
      <4>2. \A m \in Moments :
              \/ a.entries[m] >= server'.rows[m]
              \/ ~a.reset /\ server'.version[m] <= device.cursor
        BY <1>0, <3>3 DEF CopyTypes
      <4>3. ~a.reset => device.cursor >= server'.base
        BY <1>0, <3>3 DEF CopyTypes
      <4> QED
        <5> HIDE DEF j
        <5> SUFFICES ASSUME ReplyOfCopy' PROVE
              /\ ~a.reset /\ worker'.sameRevision => device.cursor >= server'.base
              /\ \A m \in Moments :
                   /\ j[m] <= Later(server'.clearedAt, server'.rows[m])
                   /\ a.entries[m] <= Later(server'.clearedAt, server'.rows[m])
                   /\ server'.version[m] <= a.cursor
                        => \/ a.entries[m] >= server'.rows[m]
                           \/ /\ ~a.reset
                              /\ worker'.sameRevision => server'.version[m] <= device.cursor
          <6>1. device' = device
            BY <3>1
          <6> QED
            BY <3>2, <6>1 DEF ReplyTells
        <5> QED
          BY <4>1, <4>2, <4>3
    <3>9. NothingLeftUnsent'
      <4>1. \A m \in Moments :
              /\ Later(server.clearedAt, server.rows[m]) \in Nat
              /\ Later(server'.clearedAt, server'.rows[m]) \in Nat
              /\ Later(server.clearedAt, server.rows[m])
                   <= Later(server'.clearedAt, server'.rows[m])
        BY <1>0, <3>4, <3>5 DEF Later, CopyTypes, ClockTypes
      <4> QED
        BY <1>0, <3>1, <3>4, <4>1 DEF CopyInv, NothingLeftUnsent, Following, ClockTypes
    <3>10. NothingMissed' /\ NothingMissedSinceClear'
      <4>1. \A m \in Moments : server'.version[m] <= device.cursor =>
              server'.rows[m] = server.rows[m] /\ server'.version[m] = server.version[m]
        BY <1>0, <3>4 DEF CopyInv, CopyOrder, CopyTypes
      <4> QED
        BY <3>1, <3>2, <3>4, <4>1
           DEF CopyInv, NothingMissed, NothingMissedSinceClear, Following
    <3> QED
      BY <3>6, <3>7, <3>8, <3>9, <3>10 DEF CopyInv
  <2> QED
    BY <1>0, <2>1, <2>2 DEF Servers
<1>18. CASE ApplyReply
  <2> DEFINE r    == worker.answer
             kept == Merged(device, r)
             left == StillPending(device, worker, kept)
             mark == Watermark(device, r)
  <2>1. /\ device'.history = kept /\ device'.cursor = r.cursor
        /\ device'.pending = left /\ device'.enabled = device.enabled
        /\ device.enabled /\ worker.sameRevision
        /\ worker.run = "answered" /\ ~r.off
        /\ UNCHANGED <<server, now, wiped>>
    BY <1>0, <1>18 DEF ApplyReply, ReplyCounts, Devices
  <2>2. PICK more \in BOOLEAN : worker' = RoundEnds(worker, more)
    BY <1>18 DEF ApplyReply
  <2>3. /\ worker'.run # "answered" /\ worker'.sent = Nothing
        /\ worker'.answer = NoAnswer /\ worker'.command = worker.command
    BY <1>0, <2>2
  <2>4. mark \in Nat /\ mark <= server.clearedAt
    BY <1>0 DEF Watermark, Later, ClearInv, ClockOrder, ClockTypes
  <2>5. ASSUME NEW m \in Moments
        PROVE  LET t == Later(device.history[m], r.entries[m]) IN
               /\ t \in {device.history[m], r.entries[m]} /\ t \in Nat
               /\ t >= device.history[m] /\ t >= r.entries[m]
               /\ kept[m] = t \/ (kept[m] = 0 /\ t <= mark)
    <3>1. kept[m] = IF Later(device.history[m], r.entries[m]) > mark
                    THEN Later(device.history[m], r.entries[m]) ELSE 0
      BY DEF Merged
    <3> QED
      BY <1>0, <2>4, <3>1 DEF Later, CopyTypes, ClockTypes
  <2> DEFINE lacking == {m \in Moments : r.reset /\ r.entries[m] < kept[m]}
             sentOff == {m \in Moments : worker.sent[m] # 0 /\ kept[m] <= worker.sent[m]}
  <2>6. left = {m \in (device.pending \ sentOff) \cup lacking : kept[m] # 0}
    BY DEF StillPending
  <2> HIDE DEF kept, left, mark
  <2>7. TimesPassed'
    BY <1>0, <2>1, <2>3, <2>5, NothingHolds
       DEF CopyInv, TimesPassed, CopyTypes, ClockTypes
  <2>8. CopyOrder'
    BY <1>0, <2>1, <2>3 DEF CopyInv, CopyOrder, CopyTypes, NoAnswer
  <2>9. ReplyTells'
    BY <2>3 DEF ReplyTells, ReplyOfCopy
  <2>10. Following' => ReplyOfCopy /\ (~r.reset => Following)
    <3> SUFFICES ASSUME Following' PROVE ReplyOfCopy /\ (~r.reset => Following)
      OBVIOUS
    <3>1. ReplyOfCopy /\ server.syncEnabled
      BY <2>1 DEF Following, ReplyOfCopy
    <3> QED
      BY <2>1, <3>1 DEF CopyInv, ReplyTells, Following
  <2>11. NothingLeftUnsent'
    <3> SUFFICES ASSUME Following', NEW m \in Moments
                 PROVE  kept[m] <= Later(server.clearedAt, server.rows[m]) \/ m \in left
      BY <2>1 DEF NothingLeftUnsent
    <3> DEFINE safe == Later(server.clearedAt, server.rows[m])
    <3>1. safe \in Nat /\ kept[m] \in Nat
      BY <1>0, <2>5 DEF Later, CopyTypes, ClockTypes
    <3>2. worker.sent[m] <= safe /\ r.entries[m] <= safe
      BY <2>10 DEF CopyInv, ReplyTells
    <3>3. CASE kept[m] = 0
      BY <3>1, <3>3
    <3>4. CASE kept[m] # 0 /\ m \in device.pending
      <4>1. m \in sentOff => kept[m] <= safe
        BY <1>0, <3>1, <3>2 DEF CopyTypes
      <4> QED
        BY <2>6, <3>4, <4>1
    <3>5. CASE kept[m] # 0 /\ m \notin device.pending
      <4>1. kept[m] \in {device.history[m], r.entries[m]}
        BY <2>5, <3>5
      <4>2. CASE kept[m] = r.entries[m]
        BY <3>2, <4>2
      <4>3. CASE kept[m] # r.entries[m] /\ r.reset
        <5>1. r.entries[m] < kept[m]
          BY <1>0, <2>5, <3>5, <4>3 DEF CopyTypes, ClockTypes
        <5> QED
          BY <2>6, <3>5, <4>3, <5>1
      <4>4. CASE kept[m] # r.entries[m] /\ ~r.reset
        BY <2>10, <3>5, <4>1, <4>4 DEF CopyInv, NothingLeftUnsent
      <4> QED
        BY <4>2, <4>3, <4>4
    <3> QED
      BY <3>3, <3>4, <3>5
  <2>12. ASSUME Following', NEW m \in Moments, server.version[m] <= r.cursor,
                server.rows[m] > server.clearedAt
         PROVE  \/ kept[m] >= server.rows[m]
                \/ Following /\ server.version[m] <= device.cursor
                     /\ ~(device.history[m] >= server.rows[m])
    <3>1. \/ r.entries[m] >= server.rows[m]
          \/ ~r.reset /\ server.version[m] <= device.cursor
      BY <2>1, <2>10, <2>12 DEF CopyInv, ReplyTells
    <3>2. CASE r.entries[m] >= server.rows[m] \/ device.history[m] >= server.rows[m]
      BY <1>0, <2>4, <2>5, <2>12, <3>2 DEF CopyTypes, ClockTypes
    <3> QED
      BY <2>10, <2>12, <3>1, <3>2
  <2>13. NothingMissed'
    BY <1>0, <2>1, <2>12 DEF CopyInv, NothingMissed, CopyTypes, ClockTypes
  <2>14. NothingMissedSinceClear'
    BY <1>0, <2>1, <2>3, <2>12 DEF CopyInv, NothingMissedSinceClear, CopyTypes, ClockTypes
  <2> QED
    BY <2>7, <2>8, <2>9, <2>11, <2>13, <2>14 DEF CopyInv
<1>19. CASE ApplyOff
  <2>1. worker' = RoundEnds(worker, FALSE)
    BY <1>19 DEF ApplyOff
  <2>2. RoundKept /\ worker'.command = worker.command
    BY <1>0, <2>1, NothingHolds DEF RoundKept
  <2>3. device' = device
          \/ (~device'.enabled /\ device'.cursor = 0 /\ device'.history = device.history)
    BY <1>0, <1>19 DEF ApplyOff, Devices
  <2> QED
    BY <1>0, <1>19, <2>2, <2>3, LocalSteps DEF ApplyOff
<1>20. CASE Restart
  <2>1. RoundKept /\ worker'.command = "none"
    BY <1>20, NothingHolds DEF Restart, RoundKept, NewWorker
  <2> QED
    BY <1>0, <1>20, <2>1, LocalSteps DEF Restart
<1>21. CASE \E m \in Moments, at \in Times : ElsewhereJump(m, at)
  <2> PICK m \in Moments, at \in Times : ElsewhereJump(m, at)
    BY <1>21
  <2> DEFINE j == [Nothing EXCEPT ![m] = at]
  <2>1. j \in History
    BY NothingType DEF History
  <2>2. now' >= now /\ at <= now' /\ now' \in Nat
    BY <1>0 DEF ElsewhereJump, Later, ClockTypes, Times
  <2>3. \A k \in Moments : j[k] <= now'
    BY <1>0, <2>2 DEF Nothing, ClockTypes
  <2>4. server' = Pushed(j) /\ UNCHANGED <<device, watching, watchSame, clearedHere, wiped>>
          /\ worker' = worker
    BY DEF ElsewhereJump
  <2> HIDE DEF j
  <2> QED
    BY <1>0, <2>1, <2>2, <2>3, <2>4, PushKeeps
<1>22. CASE UNCHANGED vars
  <2>1. RoundKept
    BY <1>22 DEF vars, RoundKept
  <2> QED
    BY <1>0, <1>22, <2>1, LocalSteps DEF vars
<1> QED
  BY <1>1, <1>2, <1>3, <1>4, <1>5, <1>6, <1>7, <1>8, <1>9, <1>10, <1>11, <1>12,
     <1>13, <1>14, <1>15, <1>16, <1>17, <1>18, <1>19, <1>20, <1>21, <1>22
     DEF Next, Page, Sync, Elsewhere

HistoryInv == TypeOK /\ ClearInv /\ CopyInv

LEMMA HistoryInvariant == Spec => []HistoryInv
<1>1. Init => CopyInv
  BY DEF Init, CopyInv, NewDevice, NewWorker, NoAnswer, Nothing, TimesPassed, CopyOrder,
     ReplyTells, ReplyOfCopy, NothingLeftUnsent, NothingMissed, NothingMissedSinceClear,
     Following
<1> QED
  BY <1>1, TypeCorrect, ClearInvariant, CopyInvStep, PTL DEF Spec, HistoryInv

(* Every jump a syncing browser holds is in the account, waits in its queue *)
(* or was cleared: a jump leaves the queue of historySync.ts only for a     *)
(* reply that acknowledges it and still counts.                             *)
THEOREM NoJumpLost == Spec => []NothingLeftUnsent
<1>1. HistoryInv => NothingLeftUnsent
  BY DEF HistoryInv, CopyInv
<1> QED
  BY <1>1, HistoryInvariant, PTL

(* The account's rows up to the browser's cursor are in the browser, but    *)
(* for those its own clear removed: applySyncReply never moves the cursor   *)
(* past a row it did not merge.                                             *)
THEOREM NoRowMissed == Spec => []NothingMissed
<1>1. HistoryInv => NothingMissed
  BY DEF HistoryInv, CopyInv
<1> QED
  BY <1>1, HistoryInvariant, PTL

\* One step's worth of JumpsLeaveByClearing.
JumpsKept ==
  \A m \in Moments :
    \/ device'.history[m] >= device.history[m]
    \/ device'.history = Nothing /\ (worker.command = "cleared" \/ ~device.enabled)
    \/ device'.history[m] = 0 /\ device.history[m] <= server.clearedAt

(* A jump leaves the browser only by a clear on it or by an account clear   *)
(* later than the jump, and is never replaced by an older one               *)
(* (applySyncReply keeps each moment's latest jump above the watermark).    *)
THEOREM JumpsOnlyCleared == Spec => JumpsLeaveByClearing
<1>1. HistoryInv /\ [Next]_vars => JumpsKept
  <2> SUFFICES ASSUME HistoryInv, [Next]_vars PROVE JumpsKept
    OBVIOUS
  <2>0. /\ TypeOK /\ device \in Devices /\ CopyTypes /\ ClockTypes
        /\ CopyInv /\ ClearInv
    BY TypesOfCopy, TypesOfClock DEF HistoryInv, TypeOK
  <2>1. CASE device'.history = device.history
    BY <2>0, <2>1 DEF JumpsKept, ClockTypes
  <2>2. CASE \E m \in Moments : CaptureRecord(m)
    <3> PICK m \in Moments : CaptureRecord(m)
      BY <2>2
    <3>1. CASE UNCHANGED device
      BY <2>1, <3>1
    <3>2. CASE device' = Recorded(device, m, now + 1)
      <4>1. device'.history = [device.history EXCEPT ![m] = now + 1]
        BY <2>0, <3>2 DEF Recorded, Devices
      <4>2. \A k \in Moments :
              device'.history[k] = IF k = m THEN now + 1 ELSE device.history[k]
        BY <2>0, <4>1 DEF Devices, History
      <4>3. \A k \in Moments : device.history[k] <= now
        BY <2>0 DEF CopyInv, TimesPassed
      <4> QED
        BY <2>0, <4>2, <4>3 DEF JumpsKept, ClockTypes
    <3> QED
      BY <3>1, <3>2 DEF CaptureRecord
  <2>3. CASE ClearHere \/ ClearApply
    <3>1. device'.history = Nothing
      BY <2>0, <2>3 DEF ClearHere, ClearApply, Emptied, Devices
    <3> QED
      BY <2>3, <3>1 DEF JumpsKept, ClearHere, ClearApply
  <2>4. CASE ApplyReply
    <3> DEFINE r == worker.answer
               mark == Watermark(device, r)
    <3>1. device'.history = Merged(device, r)
      BY <2>0, <2>4 DEF ApplyReply, Devices
    <3>2. mark \in Nat /\ mark <= server.clearedAt
      BY <2>0 DEF Watermark, Later, ClearInv, ClockOrder, ClockTypes
    <3>3. ASSUME NEW m \in Moments
          PROVE  \/ Merged(device, r)[m] >= device.history[m]
                 \/ Merged(device, r)[m] = 0 /\ device.history[m] <= mark
      <4> DEFINE t == Later(device.history[m], r.entries[m])
      <4>1. t \in Nat /\ t >= device.history[m]
        BY <2>0 DEF Later, CopyTypes, ClockTypes
      <4>2. Merged(device, r)[m] = IF t > mark THEN t ELSE 0
        BY DEF Merged
      <4> HIDE DEF t, mark
      <4> QED
        BY <2>0, <3>2, <4>1, <4>2 DEF ClockTypes
    <3> HIDE DEF mark
    <3> QED
      BY <2>0, <3>1, <3>2, <3>3 DEF JumpsKept, ClockTypes
  <2>5. CASE SwitchApply \/ RefreshApply
    <3>1. device'.history = device.history
      BY <2>0, <2>5 DEF SwitchApply, RefreshApply, Switched, Devices
    <3> QED
      BY <2>1, <3>1
  <2>6. CASE CaptureStatus \/ (\E on \in BOOLEAN : SetCapture(on)) \/ ApplyOff
    <3>1. device'.history = device.history
      BY <2>0, <2>6 DEF CaptureStatus, SetCapture, ApplyOff, Devices
    <3> QED
      BY <2>1, <3>1
  <2>7. CASE UNCHANGED device
    BY <2>1, <2>7
  <2> QED
    BY <2>2, <2>3, <2>4, <2>5, <2>6, <2>7
       DEF Next, Page, Sync, Elsewhere, vars, CaptureAbandoned, SwitchAsk, ServerSwitch,
           ClearAsk, ServerClear, CommandFails, RefreshSync, RefreshAsk, NotEnabled, Send,
           ServerSync, RunStops, Restart, ElsewhereJump, ElsewhereClear, ElsewhereSwitch
<1>2. [JumpsKept]_vars <=> JumpsKept \/ UNCHANGED vars
  OBVIOUS
<1> QED
  BY <1>1, HistoryInvariant, PTL DEF Spec, JumpsLeaveByClearing, JumpsKept
=============================================================================
