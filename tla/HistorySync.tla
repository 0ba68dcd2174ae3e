---------------------------- MODULE HistorySync ----------------------------
(***************************************************************************)
(* Watched history synced through a linked account, on one browser:        *)
(* src/background/historySync.ts, driven by the My Moments handlers of     *)
(* src/background/myMoments.ts and by recordWatched in myMomentsStore.ts.  *)
(* The account's other browsers and the website share nothing with this    *)
(* one but the account, so they are the three Elsewhere actions on it.     *)
(*                                                                         *)
(* The browser keeps one IndexedDB record (device) that every step reads   *)
(* and writes in a transaction, and a service worker (worker) whose memory *)
(* a restart loses.  Requests to the account travel: the account handles   *)
(* one in a step of its own, and its answer may be lost.                   *)
(*                                                                         *)
(* Abstractions.  A moment is its sync key; history maps each moment to    *)
(* its latest jump, 0 for none.  One clock orders jumps and clears.  epoch *)
(* and revision only meet the copies a capture or a run took of them, so   *)
(* each pair is a boolean ("same").  Retention, expiry and the 1000 entry  *)
(* cap are left out, and pending has no order: a push takes any            *)
(* BatchEntries of it.  A trigger, a timer or a re-check may come any time.*)
(***************************************************************************)
EXTENDS Naturals, FiniteSets

CONSTANTS
  Moments,
  BatchEntries,  \* BATCH_ENTRIES: how many jumps one push takes
  MaxTime,       \* bound: jumps and account clears
  MaxSerial      \* bound: versions of the account's copy

ASSUME BatchAssumption == BatchEntries \in Nat \ {0}
ASSUME BoundsAssumption == MaxTime \in Nat \ {0} /\ MaxSerial \in Nat \ {0}

VARIABLES
  device,      \* the PersonalData of the account's scope on this browser
  worker,      \* the service worker's run, settings read and open command
  watching,    \* a page's capture under way: when its status was answered
  watchSame,   \* the epoch it was given is still device.epoch
  server,      \* the account's copy
  now,
  clearedHere, \* history: the last account clear this browser carried out
  wiped        \* history: newer jumps that clear also removed here

vars == <<device, worker, watching, watchSame, server, now, clearedHere, wiped>>

Times   == 0 .. MaxTime
History == [Moments -> Times]
Nothing == [m \in Moments |-> 0]
Later(s, t) == IF s < t THEN t ELSE s

Devices ==
  [history: History, captureHistory: BOOLEAN, firstEpoch: BOOLEAN,
   enabled: BOOLEAN, cursor: 0 .. MaxSerial, pending: SUBSET Moments,
   clearedAt: Times]

Answers ==
  [off: BOOLEAN, entries: History, cursor: 0 .. MaxSerial, reset: BOOLEAN,
   clearedAt: Times]

Workers ==
  [run: {"idle", "ready", "sent", "answered"}, queued: BOOLEAN,
   sent: History, answer: Answers, sameEpoch: BOOLEAN, sameRevision: BOOLEAN,
   command: {"none", "change", "apply", "clear", "cleared"}, enable: BOOLEAN,
   refresh: {"none", "on", "off"}]

Servers ==
  [syncEnabled: BOOLEAN, rows: History, version: [Moments -> 0 .. MaxSerial],
   serial: 1 .. MaxSerial, base: 1 .. MaxSerial, clearedAt: Times]

TypeOK ==
  /\ device \in Devices
  /\ worker \in Workers
  /\ watching \in Times
  /\ watchSame \in BOOLEAN
  /\ server \in Servers
  /\ now \in 1 .. MaxTime
  /\ clearedHere \in Times
  /\ wiped \in SUBSET Moments
  /\ device.pending \subseteq {m \in Moments : device.history[m] # 0}

NewDevice ==
  [history |-> Nothing, captureHistory |-> FALSE, firstEpoch |-> TRUE,
   enabled |-> FALSE, cursor |-> 0, pending |-> {}, clearedAt |-> 0]

NoAnswer ==
  [off |-> FALSE, entries |-> Nothing, cursor |-> 0, reset |-> FALSE,
   clearedAt |-> 0]

NewWorker ==
  [run |-> "idle", queued |-> FALSE, sent |-> Nothing, answer |-> NoAnswer,
   sameEpoch |-> TRUE, sameRevision |-> TRUE, command |-> "none",
   enable |-> FALSE, refresh |-> "none"]

Init ==
  /\ device = NewDevice
  /\ worker = NewWorker
  /\ watching = 0
  /\ watchSame = TRUE
  /\ server = [syncEnabled |-> FALSE, rows |-> Nothing,
               version |-> [m \in Moments |-> 0], serial |-> 1, base |-> 1,
               clearedAt |-> 0]
  /\ now = 1
  /\ clearedHere = 0
  /\ wiped = {}

-----------------------------------------------------------------------------
(* Fragments of the steps. *)

Held(d) == {m \in Moments : d.history[m] # 0}

InFlight(w) == w.run \in {"sent", "answered"}

\* A new epoch: a reply and a capture begun under the old one are void.
VoidEpoch(w) == [w EXCEPT !.sameEpoch = @ /\ ~InFlight(w)]
VoidCapture  == watchSame' = (watching = 0)

\* A new revision: a reply begun under the old one is void, and a settings read
\* comes to no more than a sync, which a timer may start all the same.
VoidRevision(w) ==
  [w EXCEPT !.sameRevision = @ /\ ~InFlight(w), !.refresh = "none"]

\* syncHistoryNow: single flight, one more run queued behind it.
SyncNow(w) ==
  [w EXCEPT !.run = IF @ = "idle" THEN "ready" ELSE @,
            !.queued = @ \/ w.run # "idle"]

\* A round ends; the run goes on to another one, or to a queued request.
RoundEnds(w, more) ==
  [w EXCEPT !.run = IF more \/ w.queued THEN "ready" ELSE "idle",
            !.queued = w.queued /\ more, !.sent = Nothing, !.answer = NoAnswer,
            !.sameEpoch = TRUE, !.sameRevision = TRUE]

\* accountSync as setHistorySync and refreshHistorySync write it anew.
Switched(d, on) ==
  [d EXCEPT !.enabled = on, !.cursor = 0, !.clearedAt = 0,
            !.pending = IF on THEN Held(d) ELSE {},
            !.captureHistory = on \/ @]

-----------------------------------------------------------------------------
(* Captures: the page asks for the epoch, plays the moment, records it. *)

QueueFree == worker.command = "none"

CaptureStatus ==
  /\ QueueFree
  /\ watching = 0
  /\ device.captureHistory
  /\ watching' = now
  /\ device' = [device EXCEPT !.firstEpoch = FALSE]
  /\ worker' = IF device.firstEpoch THEN VoidEpoch(worker) ELSE worker
  /\ UNCHANGED <<watchSame, server, now, clearedHere, wiped>>

\* recordWatched: the jump joins the history and, while syncing, the queue.
Recorded(d, m, at) ==
  [d EXCEPT !.history[m] = at,
            !.pending = IF d.enabled THEN @ \cup {m} ELSE @]

CaptureRecord(m) ==
  /\ QueueFree
  /\ watching # 0
  /\ watching' = 0
  /\ watchSame' = TRUE
  /\ \/ /\ watchSame /\ device.captureHistory
        /\ now < MaxTime
        /\ now' = now + 1
        /\ device' = Recorded(device, m, now + 1)
     \/ /\ ~(watchSame /\ device.captureHistory)
        /\ UNCHANGED <<device, now>>
  /\ UNCHANGED <<worker, server, clearedHere, wiped>>

\* The page closed, or left the moment before it was watched.
CaptureAbandoned ==
  /\ watching # 0
  /\ watching' = 0
  /\ watchSame' = TRUE
  /\ UNCHANGED <<device, worker, server, now, clearedHere, wiped>>

-----------------------------------------------------------------------------
(* Commands of the My Moments page; its queue runs one at a time. *)

SetCapture(on) ==
  /\ QueueFree
  /\ device' = [device EXCEPT !.captureHistory = on, !.firstEpoch = FALSE]
  /\ worker' = VoidEpoch(worker)
  /\ VoidCapture
  /\ UNCHANGED <<watching, server, now, clearedHere, wiped>>

\* setHistorySync reads the account's settings, changes them if they differ...
SwitchAsk(on) ==
  /\ QueueFree
  /\ worker' = [worker EXCEPT !.enable = on,
                  !.command = IF server.syncEnabled = on THEN "apply" ELSE "change"]
  /\ UNCHANGED <<device, watching, watchSame, server, now, clearedHere, wiped>>

\* The account's sync turned on, or off with its copy.
AccountSwitched(on) ==
  \/ on /\ server' = [server EXCEPT !.syncEnabled = TRUE]
  \/ /\ ~on
     /\ server.serial < MaxSerial
     /\ server' = [server EXCEPT
                     !.syncEnabled = FALSE, !.rows = Nothing,
                     !.version = [m \in Moments |-> 0],
                     !.serial = @ + 1, !.base = server.serial + 1]

ServerSwitch ==
  /\ worker.command = "change"
  /\ AccountSwitched(worker.enable)
  /\ worker' = [worker EXCEPT !.command = "apply"]
  /\ UNCHANGED <<device, watching, watchSame, now, clearedHere, wiped>>

\* ... then switches this browser's record, and syncs if it is now on.
SwitchApply ==
  LET on == worker.enable
      w  == VoidRevision(VoidEpoch([worker EXCEPT !.command = "none", !.enable = FALSE]))
  IN /\ worker.command = "apply"
     /\ device' = [Switched(device, on) EXCEPT !.firstEpoch = FALSE]
     /\ worker' = IF on THEN SyncNow(w) ELSE w
     /\ VoidCapture
     /\ UNCHANGED <<watching, server, now, clearedHere, wiped>>

MutantKeepsQueue(d) == [d EXCEPT !.history = Nothing, !.firstEpoch = FALSE]
Emptied(d) == [d EXCEPT !.history = Nothing, !.pending = {}, !.firstEpoch = FALSE]

\* clear-history while not syncing touches this device only.
ClearHere ==
  /\ QueueFree
  /\ ~device.enabled
  /\ device' = Emptied(device)
  /\ worker' = VoidEpoch(worker)
  /\ VoidCapture
  /\ UNCHANGED <<watching, server, now, clearedHere, wiped>>

\* While it syncs, the account's copy goes first...
ClearAsk ==
  /\ QueueFree
  /\ device.enabled
  /\ worker' = [worker EXCEPT !.command = "clear"]
  /\ UNCHANGED <<device, watching, watchSame, server, now, clearedHere, wiped>>

AccountCleared ==
  /\ now < MaxTime
  /\ server.serial < MaxSerial
  /\ now' = now + 1
  /\ server' = [server EXCEPT !.rows = Nothing, !.version = [m \in Moments |-> 0],
                              !.serial = @ + 1, !.clearedAt = now + 1]

ServerClear ==
  /\ worker.command = "clear"
  /\ AccountCleared
  /\ worker' = [worker EXCEPT !.command = "cleared"]
  /\ UNCHANGED <<device, watching, watchSame, clearedHere, wiped>>

\* ... and once it answers, this device's.
ClearApply ==
  /\ worker.command = "cleared"
  /\ device' = Emptied(device)
  /\ worker' = VoidEpoch([worker EXCEPT !.command = "none"])
  /\ VoidCapture
  /\ clearedHere' = server.clearedAt
  /\ wiped' = {m \in Moments : device.history[m] > server.clearedAt}
  /\ UNCHANGED <<watching, server, now>>

\* A request or its answer is lost: nothing changes on this device.
CommandFails ==
  /\ worker.command # "none"
  /\ worker' = [worker EXCEPT !.command = "none", !.enable = FALSE]
  /\ UNCHANGED <<device, watching, watchSame, server, now, clearedHere, wiped>>

-----------------------------------------------------------------------------
(* refreshHistorySync: sync if on, else learn whether the account syncs.   *)
(* It may outlast the handler that started it (within).                    *)

RefreshSync ==
  /\ device.enabled
  /\ worker' = SyncNow(worker)
  /\ UNCHANGED <<device, watching, watchSame, server, now, clearedHere, wiped>>

RefreshAsk ==
  /\ ~device.enabled
  /\ worker.refresh = "none"
  /\ worker' = [worker EXCEPT !.refresh = IF server.syncEnabled THEN "on" ELSE "off"]
  /\ UNCHANGED <<device, watching, watchSame, server, now, clearedHere, wiped>>

RefreshApply ==
  LET on == worker.refresh = "on"
      w  == VoidRevision(worker)
  IN /\ worker.refresh # "none"
     /\ device' = Switched(device, on)
     /\ worker' = IF on THEN SyncNow(w) ELSE w
     /\ UNCHANGED <<watching, watchSame, server, now, clearedHere, wiped>>

-----------------------------------------------------------------------------
(* runSync, one round: read the record, push a batch, merge the reply. *)

NotEnabled ==
  /\ worker.run = "ready"
  /\ ~device.enabled
  /\ worker' = RoundEnds(worker, FALSE)
  /\ UNCHANGED <<device, watching, watchSame, server, now, clearedHere, wiped>>

\* nextBatch: as many queued jumps as one push takes.
Batches(d) ==
  LET ready == d.pending \cap Held(d)
  IN {batch \in SUBSET ready :
        \/ Cardinality(batch) = BatchEntries
        \/ batch = ready /\ Cardinality(batch) < BatchEntries}

Send ==
  /\ worker.run = "ready"
  /\ device.enabled
  /\ \E batch \in Batches(device) :
       worker' = [worker EXCEPT !.run = "sent",
                    !.sent = [m \in Moments |->
                                IF m \in batch THEN device.history[m] ELSE 0]]
  /\ UNCHANGED <<device, watching, watchSame, server, now, clearedHere, wiped>>

\* The account keeps each moment's latest jump.
Pushed(jumps) ==
  LET newer == {m \in Moments : jumps[m] > server.rows[m]}
      next  == IF newer = {} THEN server.serial ELSE server.serial + 1
  IN [server EXCEPT
        !.rows = [m \in Moments |-> Later(server.rows[m], jumps[m])],
        !.version = [m \in Moments |-> IF m \in newer THEN next ELSE @[m]],
        !.serial = next]

\* It answers with what changed since the cursor, or with everything when the
\* cursor is not of this copy.  (A cursor that changed since the request was
\* sent is of another revision, which voids the reply.)
Reply(s, cursor) ==
  LET reset == cursor < s.base
  IN [off |-> FALSE, reset |-> reset, cursor |-> s.serial, clearedAt |-> s.clearedAt,
      entries |-> [m \in Moments |->
                     IF reset \/ s.version[m] > cursor THEN s.rows[m] ELSE 0]]

ServerSync ==
  /\ worker.run = "sent"
  /\ \/ /\ ~server.syncEnabled
        /\ worker' = [worker EXCEPT !.run = "answered",
                                    !.answer = [NoAnswer EXCEPT !.off = TRUE]]
        /\ UNCHANGED server
     \/ /\ server.syncEnabled
        /\ Pushed(worker.sent).serial <= MaxSerial
        /\ server' = Pushed(worker.sent)
        /\ worker' = [worker EXCEPT
                        !.run = "answered",
                        !.answer = Reply(Pushed(worker.sent), device.cursor)]
  /\ UNCHANGED <<device, watching, watchSame, now, clearedHere, wiped>>

MutantIgnoresEpoch == device.enabled /\ worker.sameRevision
\* applySyncReply's early return.
ReplyCounts == device.enabled /\ worker.sameRevision /\ worker.sameEpoch

Watermark(d, r) == Later(d.clearedAt, r.clearedAt)

MutantKeepsMine(d, r) ==
  [m \in Moments |-> IF d.history[m] > Watermark(d, r) THEN d.history[m]
                     ELSE IF r.entries[m] > Watermark(d, r) THEN r.entries[m] ELSE 0]
MutantTakesTheirs(d, r) ==
  [m \in Moments |-> LET t == IF r.entries[m] # 0 THEN r.entries[m] ELSE d.history[m]
                     IN IF t > Watermark(d, r) THEN t ELSE 0]

\* A moment keeps its latest jump; the last clear applies to everything here.
Merged(d, r) ==
  [m \in Moments |->
     LET t == Later(d.history[m], r.entries[m])
     IN IF t > Watermark(d, r) THEN t ELSE 0]

MutantSentLeaves(d, w, kept) ==
  LET lacking == {m \in Moments : w.answer.reset /\ w.answer.entries[m] < kept[m]}
  IN {m \in {k \in d.pending : w.sent[k] = 0} \cup lacking : kept[m] # 0}

\* Sent jumps leave the queue unless jumped again; after a full reply what the
\* account lacks or holds older joins it.
StillPending(d, w, kept) ==
  LET acknowledged == {m \in Moments : w.sent[m] # 0 /\ kept[m] <= w.sent[m]}
      lacking == {m \in Moments : w.answer.reset /\ w.answer.entries[m] < kept[m]}
  IN {m \in (d.pending \ acknowledged) \cup lacking : kept[m] # 0}

MutantNeverRemote(d, r) == FALSE
RemoteClear(d, r) == r.clearedAt > d.clearedAt

\* The run ends early after MAX_ROUNDS; the queue waits for the next trigger.
ApplyReply ==
  LET r    == worker.answer
      kept == Merged(device, r)
      left == StillPending(device, worker, kept)
  IN /\ worker.run = "answered" /\ ~r.off
     /\ ReplyCounts
     /\ device' = [device EXCEPT
                     !.history = kept, !.pending = left, !.cursor = r.cursor,
                     !.clearedAt = Watermark(device, r),
                     !.firstEpoch = @ /\ ~RemoteClear(device, r)]
     /\ IF RemoteClear(device, r) THEN VoidCapture ELSE UNCHANGED watchSame
     /\ \E more \in BOOLEAN : /\ more => left # {}
                              /\ worker' = RoundEnds(worker, more)
     /\ UNCHANGED <<watching, server, now, clearedHere, wiped>>

\* The account no longer syncs (409, 404): this device keeps its own copy.
ApplyOff ==
  /\ worker.run = "answered" /\ worker.answer.off
  /\ device' = IF worker.sameRevision
               THEN [device EXCEPT !.enabled = FALSE, !.pending = {}, !.cursor = 0]
               ELSE device
  /\ worker' = RoundEnds(worker, FALSE)
  /\ UNCHANGED <<watching, watchSame, server, now, clearedHere, wiped>>

\* The reply was lost or no longer counts; the next trigger starts over.
RunStops ==
  /\ InFlight(worker)
  /\ worker' = RoundEnds(worker, FALSE)
  /\ UNCHANGED <<device, watching, watchSame, server, now, clearedHere, wiped>>

\* The browser stops the service worker; the record and the page stay.
Restart ==
  /\ worker # NewWorker
  /\ worker' = NewWorker
  /\ UNCHANGED <<device, watching, watchSame, server, now, clearedHere, wiped>>

-----------------------------------------------------------------------------
(* The account's other browsers and the website. *)

\* A jump, new or kept waiting since any earlier time, is pushed.
ElsewhereJump(m, at) ==
  /\ server.syncEnabled
  /\ at <= now + 1
  /\ at > server.rows[m]
  /\ now' = Later(now, at)
  /\ server' = Pushed([Nothing EXCEPT ![m] = at])
  /\ server.serial < MaxSerial
  /\ UNCHANGED <<device, worker, watching, watchSame, clearedHere, wiped>>

ElsewhereClear ==
  /\ AccountCleared
  /\ UNCHANGED <<device, worker, watching, watchSame, clearedHere, wiped>>

ElsewhereSwitch(on) ==
  /\ server.syncEnabled # on
  /\ AccountSwitched(on)
  /\ UNCHANGED <<device, worker, watching, watchSame, now, clearedHere, wiped>>

Elsewhere ==
  \/ \E m \in Moments, at \in Times : ElsewhereJump(m, at)
  \/ ElsewhereClear
  \/ \E on \in BOOLEAN : ElsewhereSwitch(on)

Page ==
  \/ CaptureStatus
  \/ \E m \in Moments : CaptureRecord(m)
  \/ CaptureAbandoned
  \/ \E on \in BOOLEAN : SetCapture(on) \/ SwitchAsk(on)
  \/ ServerSwitch
  \/ SwitchApply
  \/ ClearHere
  \/ ClearAsk
  \/ ServerClear
  \/ ClearApply
  \/ CommandFails

Sync ==
  \/ RefreshSync
  \/ RefreshAsk
  \/ RefreshApply
  \/ NotEnabled
  \/ Send
  \/ ServerSync
  \/ ApplyReply
  \/ ApplyOff
  \/ RunStops
  \/ Restart

Next == Page \/ Sync \/ Elsewhere

Spec == Init /\ [][Next]_vars

-----------------------------------------------------------------------------
\* The cursor is of the account's present copy.
Following == device.enabled /\ server.syncEnabled /\ device.cursor >= server.base

(* Every jump a syncing browser holds is in the account, waits in its queue *)
(* or was cleared: no race of a push with a new jump, a lost answer or a    *)
(* restart drops one from the queue.                                        *)
NothingLeftUnsent ==
  Following => \A m \in Moments :
    \/ device.history[m] <= Later(server.clearedAt, server.rows[m])
    \/ m \in device.pending

(* The account's rows up to the browser's cursor are in the browser: the    *)
(* cursor never passes a row whose reply was ignored.  The one exception is *)
(* a jump of another browser that a clear removed here although it was      *)
(* recorded after the account was cleared.                                  *)
NothingMissed ==
  Following => \A m \in Moments :
    server.version[m] <= device.cursor =>
      \/ device.history[m] >= server.rows[m]
      \/ server.rows[m] <= server.clearedAt
      \/ m \in wiped

(* What the viewer cleared from the account on this browser never comes     *)
(* back to it, from a reply under way, another browser or a late push.      *)
ClearedStaysCleared ==
  \A m \in Moments : device.history[m] = 0 \/ device.history[m] > clearedHere

(* A capture begun before a clear that this browser has learned of can no   *)
(* longer be recorded.                                                      *)
ClearVoidsCaptures ==
  watching # 0 /\ watchSame /\ device.enabled => watching >= device.clearedAt

(* A jump leaves the browser only by a clear on it or by an account clear   *)
(* later than the jump, and is never replaced by an older one.              *)
JumpsLeaveByClearing ==
  [][\A m \in Moments :
       \/ device'.history[m] >= device.history[m]
       \/ device'.history = Nothing /\ (worker.command = "cleared" \/ ~device.enabled)
       \/ device'.history[m] = 0 /\ device.history[m] <= server.clearedAt]_vars

(* "every browser signed in to that account sends the jumps it records and  *)
(* merges the others'" (historySync.ts:8): a browser level with the account *)
(* shows what the account holds.                                            *)
LevelMeansSame ==
  Following /\ device.cursor = server.serial /\ QueueFree =>
    \A m \in Moments :
      server.rows[m] > server.clearedAt => device.history[m] >= server.rows[m]

(* "A clear from elsewhere also voids captures already under way here."     *)
(* (historySync.ts:126): a reply voids a capture only for a clear other     *)
(* than the one this browser already carried out.                           *)
RepliesVoidOnlyForOtherClears ==
  [][watchSame /\ ~watchSame' /\ worker.run = "answered" /\ worker'.run # "answered"
       => worker.answer.clearedAt # clearedHere]_vars
=============================================================================
