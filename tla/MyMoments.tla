----------------------------- MODULE MyMoments -----------------------------
(***************************************************************************)
(* My Moments: the saves, notes and watched history this browser keeps,    *)
(* apart for each account and for nobody signed in (a scope), while        *)
(* accounts come and go.  Requests of the extension's pages are served one *)
(* at a time; those of the Twitch panel, the look-up of replays, sign-ins  *)
(* and sign-outs run beside them.                                          *)
(*                                                                         *)
(* A request to the account holds the account queue, so it and its answer  *)
(* are one step; so are a read of who is signed in and the transaction     *)
(* right behind it, for a sign-out takes a request of its own.             *)
(***************************************************************************)
EXTENDS Naturals, Sequences

CONSTANTS
  Accounts,    \* accounts that sign in on this browser
  Local,       \* the scope of nobody signed in
  Moments,     \* moments by channel, stream and second
  Mixes,       \* bound: what requests, accounts and moments a behaviour mixes
  MaxQueue,    \* bound: requests waiting
  MaxEpoch     \* bound: times an epoch was moved to

ASSUME MyMomentsAssumption ==
  Local \notin Accounts /\ MaxQueue \in Nat \ {0} /\ MaxEpoch \in Nat \ {0}

Scopes == Accounts \cup {Local}

VARIABLES
  scope,      \* currentScope: who is signed in, or Local
  hosted,     \* the bookmarks each account holds on the server
  kept,       \* this browser's record of each scope
  queue,      \* requests and forgettings that wait
  op,         \* the request being served
  late,       \* accounts whose replays are still being looked up
  capture,    \* the jump a Twitch tab is timing, if any
  now,        \* the time of the latest epoch; the clock never goes back
  mix,        \* what this behaviour mixes
  wanted,     \* moments saved and not removed since
  noted,      \* notes written, and neither replaced nor removed since
  forgotten   \* accounts forgotten here and not signed in since

vars == <<scope, hosted, kept, queue, op, late, capture, now, mix,
          wanted, noted, forgotten>>
wishes == <<wanted, noted, forgotten>>
tab == <<capture, now, mix>>

(* A note, told from another one on the moment by the scope it was written *)
(* in.                                                                     *)
Notes == [on : Moments, by : Scopes]
On(notes, m) == {n \in notes : n.on = m}

(* emptyPersonalData.  aside: what else is kept under hosted ids, replays   *)
(* that were found, and notes of bookmarks that are gone.                  *)
Empty == [saves |-> {}, notes |-> {}, aside |-> {}, history |-> {},
          on |-> FALSE, epoch |-> 0]

(* A jump being timed, and a visit.  void: what it was timed in was cleared *)
(* since; twin: another scope had the same epoch.  Both marks are for the  *)
(* properties alone, the code compares epochs.                             *)
NoJump == [of |-> Local, epoch |-> 0, void |-> TRUE, twin |-> FALSE]
Jumps == [of : Scopes, epoch : 0..MaxEpoch, void : BOOLEAN, twin : BOOLEAN]
Visits == [of : Scopes, void : BOOLEAN, twin : BOOLEAN]
Visit(s) == [of |-> s, void |-> FALSE, twin |-> FALSE]
VisitOf(jump) == [of |-> jump.of, void |-> jump.void, twin |-> jump.twin]

Idle == [kind |-> "none", scope |-> Local, moment |-> {}, jump |-> NoJump,
         step |-> "start", chosen |-> {}, have |-> {}, notes |-> {}]

Request(kind, s, moments) == [Idle EXCEPT !.kind = kind, !.scope = s, !.moment = moments]

(* Whoever empties a history or moves its epoch voids the jumps timed in it. *)
VoidIn(s, jump) == [jump EXCEPT !.void = @ \/ jump.of = s]
VoidJumps(s, requests) ==
  /\ capture' = VoidIn(s, capture)
  /\ queue' = [i \in DOMAIN requests |->
                 [requests[i] EXCEPT !.jump = VoidIn(s, @)]]

Ended == op' = Idle
Step(step) == op' = [op EXCEPT !.step = step]
Serves(kind, step) == op.kind = kind /\ op.step = step

(* assertScope *)
StillHere == scope = op.scope

-----------------------------------------------------------------------------
(* The queue: handleMyMoments chains every request behind the last.  A page *)
(* names the scope it shows, and is refused once another one is current.   *)

Ask ==
  /\ Len(queue) < MaxQueue
  /\ \/ \E kind \in mix \cap {"status", "load", "clear", "switch", "history"} :
          queue' = Append(queue, Request(kind, scope, {}))
     \/ \E kind \in mix \cap {"save", "unsave", "unsaveDevice", "edit", "import",
                            "backup"},
            m \in mix \cap Moments :
          queue' = Append(queue, Request(kind, scope, {m}))
     \/ "import" \in mix /\ queue' = Append(queue, Request("import", scope, mix \cap Moments))
  /\ UNCHANGED <<scope, hosted, kept, op, late, tab, wishes>>

(* Seconds after the jump the tab asks to record it, unless it left. *)
AskRecord ==
  /\ Len(queue) < MaxQueue /\ capture # NoJump
  /\ queue' = Append(queue, [Request("record", scope, {}) EXCEPT !.jump = capture])
  /\ capture' = NoJump
  /\ UNCHANGED <<scope, hosted, kept, op, late, now, mix, wishes>>

TabLeaves ==
  /\ capture # NoJump /\ capture' = NoJump
  /\ UNCHANGED <<scope, hosted, kept, queue, op, late, now, mix, wishes>>

Resolved(r) ==
  IF r.kind \in {"status", "record", "load"} THEN [r EXCEPT !.scope = scope]
  ELSE IF r.scope = scope THEN r ELSE Idle

Serve ==
  /\ op = Idle /\ queue # <<>> /\ Head(queue).kind # "forget"
  /\ op' = Resolved(Head(queue))
  /\ queue' = Tail(queue)
  /\ UNCHANGED <<scope, hosted, kept, late, tab, wishes>>

(* forgetAccountScope, in its turn: the account's copy goes. *)
Forget ==
  /\ op = Idle /\ queue # <<>> /\ Head(queue).kind = "forget"
  /\ LET a == Head(queue).scope
     IN  /\ kept' = [kept EXCEPT ![a] = Empty]
         /\ VoidJumps(a, Tail(queue))
         /\ noted' = noted \ (kept[a].notes \ kept[Local].notes)
         /\ forgotten' = IF scope = a THEN forgotten ELSE forgotten \cup {a}
  /\ UNCHANGED <<scope, hosted, op, late, now, mix, wanted>>

-----------------------------------------------------------------------------
(* Watched history.  A jump asks whether to be recorded and gets the epoch *)
(* of the scope it is timed in; a scope's first capture moves it to a time. *)

(* recordWatched *)
Records(d, jump) == d.on /\ d.epoch = jump.epoch

MutantEpochLeft(s) == kept[s].epoch
FirstEpoch(s) ==
  IF kept[s].on /\ kept[s].epoch = 0 THEN now + 1 ELSE kept[s].epoch

SharesEpoch(s) ==
  kept[s].epoch # 0 /\ \E t \in Scopes \ {s} : kept[t].epoch = kept[s].epoch

Status ==
  /\ Serves("status", "start") /\ Ended
  /\ LET s == op.scope
         first == kept[s].on /\ kept[s].epoch = 0
         epoch == FirstEpoch(s)
     IN  /\ first => now < MaxEpoch
         /\ kept' = [kept EXCEPT ![s].epoch = epoch]
         /\ now' = IF first THEN now + 1 ELSE now
         /\ capture' = IF kept[s].on
                       THEN [of |-> s, epoch |-> epoch, void |-> FALSE, twin |-> SharesEpoch(s)]
                       ELSE capture
  /\ UNCHANGED <<scope, hosted, queue, late, mix, wishes>>

Record ==
  /\ Serves("record", "start") /\ Ended
  /\ kept' = IF StillHere /\ Records(kept[scope], op.jump)
             THEN [kept EXCEPT ![scope].history = @ \cup {VisitOf(op.jump)}]
             ELSE kept
  /\ UNCHANGED <<scope, hosted, queue, late, tab, wishes>>

(* clear-history and preferences; HistorySync has what the account does.   *)
(* Clearing an account's history clears the browser's own, next, maybe in  *)
(* the same millisecond: the two scopes then share an epoch.               *)
Moves(s, d, time) ==
  /\ time <= MaxEpoch /\ now' = time
  /\ kept' = [kept EXCEPT ![s] = [d EXCEPT !.epoch = time]]
  /\ VoidJumps(s, queue)

Clear ==
  /\ Serves("clear", "start")
  /\ Moves(op.scope, [kept[op.scope] EXCEPT !.history = {}], now + 1)
  /\ IF op.scope = Local THEN Ended ELSE Step("device")
  /\ UNCHANGED <<scope, hosted, late, mix, wishes>>

ClearDevice ==
  /\ Serves("clear", "device") /\ Ended
  /\ IF kept[Local].history # {}
     THEN \E time \in {now, now + 1} : Moves(Local, [kept[Local] EXCEPT !.history = {}], time)
     ELSE UNCHANGED <<kept, queue, capture, now>>
  /\ UNCHANGED <<scope, hosted, late, mix, wishes>>

Switch ==
  /\ Serves("switch", "start") /\ Ended
  /\ \E on \in BOOLEAN : Moves(op.scope, [kept[op.scope] EXCEPT !.on = on], now + 1)
  /\ UNCHANGED <<scope, hosted, late, mix, wishes>>

(* refreshHistorySync learns that the account syncs. *)
LearnSync ==
  /\ "status" \in mix /\ scope \in Accounts /\ ~ kept[scope].on
  /\ kept' = [kept EXCEPT ![scope].on = TRUE]
  /\ UNCHANGED <<scope, hosted, queue, op, late, tab, wishes>>

(* import-device-history, which the user asked for. *)
ImportHistory ==
  /\ Serves("history", "start") /\ Ended
  /\ kept' = IF scope \in Accounts /\ StillHere /\ kept[scope].on /\ kept[Local].history # {}
             THEN [kept EXCEPT ![scope].history = @ \cup {Visit(scope)}]
             ELSE kept
  /\ UNCHANGED <<scope, hosted, queue, late, tab, wishes>>
-----------------------------------------------------------------------------
(* Saves and notes of a page.  Without an account they are this browser's; *)
(* an account's bookmarks are the server's, and only what it cannot hold   *)
(* stays here, under their ids.                                            *)

(* A request to change the account's bookmarks of m: refused, done and     *)
(* confirmed, or done with the answer lost.  It is pinned to the account   *)
(* the scope names.                                                        *)
Outcomes == {"refused", "confirmed", "lost"}
Hosted(a, m, outcome, add) ==
  hosted' = IF outcome = "refused" THEN hosted
            ELSE [hosted EXCEPT ![a] = IF add THEN @ \cup {m} ELSE @ \ {m}]

Save(m) ==
  /\ Serves("save", "start") /\ op.moment = {m}
  /\ IF op.scope = Local
     THEN /\ Ended /\ wanted' = wanted \cup {m}
          /\ kept' = [kept EXCEPT ![Local].saves = @ \cup {m}]
     ELSE /\ UNCHANGED <<kept, wanted>>
          /\ IF StillHere /\ m \notin hosted[op.scope] THEN Step("post") \/ Ended ELSE Ended
  /\ UNCHANGED <<scope, hosted, queue, late, tab, noted, forgotten>>

SavePosted(m) ==
  /\ Serves("save", "post") /\ op.moment = {m} /\ Ended
  /\ \E outcome \in IF StillHere THEN Outcomes ELSE {"refused"} :
       /\ Hosted(op.scope, m, outcome, TRUE)
       /\ wanted' = IF outcome = "confirmed" THEN wanted \cup {m} ELSE wanted
  /\ UNCHANGED <<scope, kept, queue, late, tab, noted, forgotten>>

(* A moment is removed from a record with all that was kept for it. *)
Without(d, m) ==
  [d EXCEPT !.saves = @ \ {m}, !.notes = @ \ On(@, m), !.aside = @ \ {m}]
Unwanted(m) == wanted' = wanted \ {m} /\ noted' = noted \ On(noted, m)

(* A hosted bookmark goes, and its id with it: no other one finds the note. *)
Orphaned(d, m) ==
  [d EXCEPT !.notes = @ \ On(@, m), !.aside = @ \cup {n.on : n \in On(d.notes, m)}]

Unsave(m) ==
  /\ Serves("unsave", "start") /\ op.moment = {m}
  /\ IF op.scope = Local
     THEN Ended /\ kept' = [kept EXCEPT ![Local] = Without(@, m)] /\ Unwanted(m)
     ELSE /\ UNCHANGED <<kept, wanted, noted>>
          /\ IF StillHere /\ m \in hosted[op.scope] THEN Step("delete") \/ Ended ELSE Ended
  /\ UNCHANGED <<scope, hosted, queue, late, tab, forgotten>>

UnsaveDeleted(m) ==
  /\ Serves("unsave", "delete") /\ op.moment = {m}
  /\ \E outcome \in IF StillHere THEN Outcomes ELSE {"refused"} :
       /\ Hosted(op.scope, m, outcome, FALSE)
       /\ IF outcome = "confirmed" THEN Step("apply") ELSE Ended
       /\ IF outcome = "refused" THEN UNCHANGED <<kept, wanted, noted>>
          ELSE kept' = [kept EXCEPT ![op.scope] = Orphaned(@, m)] /\ Unwanted(m)
  /\ UNCHANGED <<scope, queue, late, tab, forgotten>>

(* A bookmark made again meanwhile has another id, and keeps its note.     *)
UnsaveApplied(m) ==
  /\ Serves("unsave", "apply") /\ op.moment = {m} /\ Ended
  /\ kept' = IF StillHere /\ m \notin hosted[scope] THEN [kept EXCEPT ![scope] = Without(@, m)] ELSE kept
  /\ UNCHANGED <<scope, hosted, queue, late, tab, wishes>>

(* A save made before signing in, listed beside the account's bookmarks. *)
UnsaveDevice(m) ==
  /\ Serves("unsaveDevice", "start") /\ op.moment = {m} /\ Ended
  /\ IF scope \in Accounts /\ StillHere /\ m \in kept[Local].saves
     THEN kept' = [kept EXCEPT ![Local] = Without(@, m)] /\ Unwanted(m)
     ELSE UNCHANGED <<kept, wanted, noted>>
  /\ UNCHANGED <<scope, hosted, queue, late, tab, forgotten>>

(* A note is written over the one there was, or made empty. *)
Edit(m) ==
  /\ Serves("edit", "start") /\ op.moment = {m} /\ Ended
  /\ LET listed == IF scope = Local THEN kept[Local].saves ELSE hosted[scope]
         old == On(kept[scope].notes, m)
     IN  \/ /\ StillHere /\ m \in listed
            /\ \E new \in SUBSET {[on |-> m, by |-> scope]} :
                 /\ kept' = [kept EXCEPT ![scope].notes = (@ \ old) \cup new]
                 /\ noted' = (noted \ old) \cup new
         \/ UNCHANGED <<kept, noted>>
  /\ UNCHANGED <<scope, hosted, queue, late, tab, wanted, forgotten>>

-----------------------------------------------------------------------------
(* importDeviceSaves: the chosen saves of this browser join the account    *)
(* one by one, each leaving the device once the account has confirmed it.  *)

ImportListed ==
  /\ Serves("import", "start")
  /\ LET chosen == op.moment \cap kept[Local].saves
     IN  \/ /\ scope \in Accounts /\ StillHere /\ chosen # {}
            /\ op' = [op EXCEPT !.step = "post", !.chosen = chosen,
                                !.have = hosted[scope], !.notes = kept[Local].notes]
         \/ Ended
  /\ UNCHANGED <<scope, hosted, kept, queue, late, tab, wishes>>

ImportConfirmed(m) ==
  op' = [op EXCEPT !.step = "note", !.moment = {m}, !.have = @ \cup {m}]

MutantGoesOn(m) ==
  /\ Serves("import", "post") /\ m \in op.chosen
  /\ \E outcome \in IF StillHere THEN Outcomes ELSE {"refused"} :
       Hosted(op.scope, m, outcome, TRUE) /\ ImportConfirmed(m)
  /\ UNCHANGED <<scope, kept, queue, late, tab, wishes>>
ImportPosted(m) ==
  /\ Serves("import", "post") /\ m \in op.chosen
  /\ IF StillHere /\ m \in op.have
     THEN ImportConfirmed(m) /\ UNCHANGED hosted
     ELSE \E outcome \in IF StillHere THEN Outcomes ELSE {"refused"} :
            /\ Hosted(op.scope, m, outcome, TRUE)
            /\ IF outcome = "confirmed" THEN ImportConfirmed(m) ELSE Ended
  /\ UNCHANGED <<scope, kept, queue, late, tab, wishes>>

(* Its note joins the account's, which never leave the browser, unless the *)
(* account has one on it.  Nobody sees it if the bookmark is gone again.   *)
MutantNoteStays(d, m) == d
Joined(d, m) ==
  IF On(d.notes, m) # {} THEN d
  ELSE IF m \in hosted[op.scope] THEN [d EXCEPT !.notes = @ \cup On(op.notes, m)]
  ELSE [d EXCEPT !.aside = @ \cup {n.on : n \in On(op.notes, m)}]

ImportNoted(m) ==
  /\ Serves("import", "note") /\ op.moment = {m} /\ Step("drop")
  /\ kept' = [kept EXCEPT ![op.scope] = Joined(@, m)]
  /\ UNCHANGED <<scope, hosted, queue, late, tab, wishes>>

ImportDropped(m) ==
  /\ Serves("import", "drop") /\ op.moment = {m}
  /\ kept' = [kept EXCEPT ![Local] = Without(@, m)]
  /\ IF op.chosen = {m} THEN Ended
     ELSE op' = [op EXCEPT !.step = "post", !.chosen = @ \ {m}]
  /\ UNCHANGED <<scope, hosted, queue, late, tab, wishes>>

(* importBackup: a file's saves join this browser's, unless the account    *)
(* was seen to have them; its visits join the history of the scope.        *)
ImportBackup(m) ==
  /\ Serves("backup", "start") /\ op.moment = {m} /\ Ended
  /\ \/ /\ StillHere /\ wanted' = wanted \cup {m}
        /\ \E seen \in {{}, IF scope = Local THEN {} ELSE hosted[scope]},
              note \in SUBSET {[on |-> m, by |-> Local]} :
             LET added == {m} \ (seen \cup kept[Local].saves)
                 notes == {n \in note : n.on \in added}
                 visits == IF kept[scope].on THEN {Visit(scope)} ELSE {}
             IN  /\ kept' = [kept EXCEPT ![Local].saves = @ \cup added,
                                        ![Local].notes = @ \cup notes,
                                        ![scope].history = @ \cup visits]
                 /\ noted' = noted \cup notes
     \/ UNCHANGED <<kept, wanted, noted>>
  /\ UNCHANGED <<scope, hosted, queue, late, tab, forgotten>>

-----------------------------------------------------------------------------
(* Beside the queue: replays looked up after a load, and the Twitch panel. *)

Load ==
  /\ Serves("load", "start") /\ Ended
  /\ late' = IF op.scope \in Accounts THEN late \cup {op.scope} ELSE late
  /\ UNCHANGED <<scope, hosted, kept, queue, tab, wishes>>

MutantLinksUnasked(a) == TRUE
MayLink(a) == scope = a

(* linkReplays, as late as the archive answers. *)
LinkReplays(a) ==
  /\ a \in late /\ late' = late \ {a}
  /\ \/ MayLink(a) /\ \E m \in hosted[a] : kept' = [kept EXCEPT ![a].aside = @ \cup {m}]
     \/ UNCHANGED kept
  /\ UNCHANGED <<scope, hosted, queue, op, tab, wishes>>

(* handleDeviceBookmarks, or createPulseBookmark.  The note an undo brings *)
(* back, and the seconds kept beside the id, are left out.                 *)
MutantPanelKeeps(m) ==
  /\ {"save", m} \subseteq mix
  /\ kept' = [kept EXCEPT ![scope].saves = @ \cup {m}] /\ wanted' = wanted \cup {m}
  /\ UNCHANGED <<scope, hosted, queue, op, late, tab, noted, forgotten>>
PanelSaves(m) ==
  /\ {"save", m} \subseteq mix
  /\ IF scope = Local
     THEN /\ kept' = [kept EXCEPT ![Local].saves = @ \cup {m}]
          /\ wanted' = wanted \cup {m} /\ UNCHANGED hosted
     ELSE \E outcome \in {"confirmed", "lost"} :
            /\ Hosted(scope, m, outcome, TRUE) /\ UNCHANGED kept
            /\ wanted' = IF outcome = "confirmed" THEN wanted \cup {m} ELSE wanted
  /\ UNCHANGED <<scope, queue, op, late, tab, noted, forgotten>>

(* removePanelBookmark: the note goes with it.                             *)
PanelRemoves(m) ==
  /\ IF scope = Local
     THEN /\ m \in kept[Local].saves /\ UNCHANGED hosted
          /\ kept' = [kept EXCEPT ![Local] = Without(@, m)]
     ELSE /\ m \in hosted[scope]
          /\ \E outcome \in {"confirmed", "lost"} :
               /\ Hosted(scope, m, outcome, FALSE)
               /\ kept' = [kept EXCEPT ![scope] = IF outcome = "lost" THEN Orphaned(@, m)
                                                  ELSE Without(@, m)]
  /\ Unwanted(m)
  /\ UNCHANGED <<scope, queue, op, late, tab, forgotten>>

-----------------------------------------------------------------------------
(* Accounts come and go.  A request under way keeps the account queue: no  *)
(* sign-in ends between two requests of one operation, and no sign-out     *)
(* between an answer and the writes right behind it.                       *)

BetweenRequests == op.scope \in Accounts /\ op.step # "start"
Writing == op.step \in {"note", "drop"}

SignIn(a) ==
  /\ a \in mix /\ scope = Local /\ ~ BetweenRequests
  /\ scope' = a /\ forgotten' = forgotten \ {a}
  /\ UNCHANGED <<hosted, kept, queue, op, late, tab, wanted, noted>>

(* A confirmed sign-out, here or everywhere: the copy is to be forgotten.  *)
SignOut ==
  /\ scope \in Accounts /\ ~ Writing /\ Len(queue) <= MaxQueue
  /\ scope' = Local
  /\ queue' = Append(queue, Request("forget", scope, {}))
  /\ UNCHANGED <<hosted, kept, op, late, tab, wishes>>

(* A credential the server rejects keeps the copy. *)
Rejected ==
  /\ scope \in Accounts /\ ~ Writing /\ scope' = Local
  /\ UNCHANGED <<hosted, kept, queue, op, late, tab, wishes>>

(* The browser stops the worker: storage stays. *)
Stop ==
  /\ op' = Idle /\ queue' = <<>> /\ late' = {}
  /\ UNCHANGED <<scope, hosted, kept, tab, wishes>>

(* The account is used elsewhere. *)
SavedElsewhere(a, m) ==
  /\ {"save", a, m} \subseteq mix
  /\ hosted' = [hosted EXCEPT ![a] = @ \cup {m}]
  /\ UNCHANGED <<scope, kept, queue, op, late, tab, wishes>>
RemovedElsewhere(a, m) ==
  /\ m \in hosted[a] /\ hosted' = [hosted EXCEPT ![a] = @ \ {m}] /\ Unwanted(m)
  /\ kept' = [kept EXCEPT ![a] = Orphaned(@, m)]
  /\ UNCHANGED <<scope, queue, op, late, tab, forgotten>>

-----------------------------------------------------------------------------
Init ==
  /\ scope = Local /\ hosted = [a \in Accounts |-> {}]
  /\ kept = [s \in Scopes |-> Empty]
  /\ queue = <<>> /\ op = Idle /\ late = {} /\ mix \in Mixes
  /\ capture = NoJump /\ now = 0
  /\ wanted = {} /\ noted = {} /\ forgotten = {}

Served(m) ==
  \/ Save(m) \/ SavePosted(m)
  \/ Unsave(m) \/ UnsaveDeleted(m) \/ UnsaveApplied(m) \/ UnsaveDevice(m) \/ Edit(m)
  \/ ImportPosted(m) \/ ImportNoted(m) \/ ImportDropped(m)
  \/ ImportBackup(m)

Next ==
  \/ Ask \/ AskRecord \/ TabLeaves \/ Serve \/ Forget
  \/ Status \/ Record \/ Clear \/ ClearDevice \/ Switch \/ LearnSync \/ ImportHistory
  \/ ImportListed \/ Load
  \/ \E m \in Moments : Served(m) \/ PanelSaves(m) \/ PanelRemoves(m)
  \/ \E a \in Accounts : LinkReplays(a) \/ SignIn(a)
  \/ SignOut \/ Rejected \/ Stop
  \/ \E a \in Accounts, m \in Moments : SavedElsewhere(a, m) \/ RemovedElsewhere(a, m)

Spec == Init /\ [][Next]_vars

-----------------------------------------------------------------------------
ScopeRecords ==
  [saves : SUBSET Moments, notes : SUBSET Notes, aside : SUBSET Moments,
   history : SUBSET Visits, on : BOOLEAN, epoch : 0..MaxEpoch]
Kinds == {"none", "forget", "status", "record", "load", "clear", "switch", "history",
          "save", "unsave", "unsaveDevice", "edit", "import", "backup"}
Steps == {"start", "device", "post", "delete", "apply", "note", "drop"}
Requests == [kind : Kinds, scope : Scopes, moment : SUBSET Moments, jump : Jumps,
             step : Steps, chosen : SUBSET Moments, have : SUBSET Moments,
             notes : SUBSET Notes]

(* Each variable has its type, only the browser's own record holds saves,  *)
(* and an account's request finds its account.                             *)
TypeOK ==
  /\ scope \in Scopes /\ hosted \in [Accounts -> SUBSET Moments]
  /\ kept \in [Scopes -> ScopeRecords] /\ \A a \in Accounts : kept[a].saves = {}
  /\ queue \in Seq(Requests) /\ op \in Requests
  /\ late \subseteq Accounts /\ mix \in Mixes
  /\ capture \in Jumps /\ now \in 0..MaxEpoch
  /\ wanted \subseteq Moments /\ noted \subseteq Notes
  /\ forgotten \subseteq Accounts

(* What the user saved is on this device or in an account until the user   *)
(* removes it: an import, whatever answer it loses and wherever the worker *)
(* stops, drops none.                                                      *)
SavesKept ==
  \A m \in wanted : m \in kept[Local].saves \/ \E a \in Accounts : m \in hosted[a]

(* A note stays where it was written or where its save went until the user *)
(* replaces or removes it or signs out.  One is lost: that of a save that  *)
(* joins an account which has a note on the moment (myMoments.ts:366-373). *)
Noted(n) == \E s \in Scopes : n \in kept[s].notes
PassedOver(n) ==
  /\ Serves("import", "drop") /\ op.moment = {n.on}
  /\ On(kept[op.scope].notes, n.on) # {}
NotesKept == [][
  \A n \in noted \cap noted' : Noted(n) => Noted(n)' \/ PassedOver(n)
  ]_vars

(* The note of an imported save "moves to the account's local notes" (the  *)
(* comment at myMoments.ts:331), so that an import loses none.             *)
NotesMove == [][\A n \in noted \cap noted' : Noted(n) => Noted(n)']_vars

(* A jump joins the history of the scope it was timed in, and none when    *)
(* that was cleared, switched or forgotten since, whoever signed in or out *)
(* while it was watched.  One timed under an epoch two scopes share, given *)
(* both by one clear, may join the other's (myMoments.ts:600, 605).        *)
RecordedWhereTimed ==
  \A s \in Scopes : \A visit \in kept[s].history :
    visit.twin \/ (visit.of = s /\ ~ visit.void)

(* Nothing of a forgotten account comes back before it signs in again:     *)
(* neither a request that was under way, nor a late look-up, nor the panel *)
(* writes into its record.                                                 *)
ForgottenStaysForgotten ==
  \A a \in forgotten : kept[a] = Empty
=============================================================================
