---------------------------- MODULE ProtectSync ----------------------------
(***************************************************************************)
(* Protect: the channels the user keeps on the watchlist are tracked by    *)
(* the backend.  The list lives in browser-synced storage, what is known   *)
(* of the backend in local storage, and the handlers of the worker read,   *)
(* change and write both without waiting for one another.                  *)
(***************************************************************************)
EXTENDS Naturals, FiniteSets

CONSTANTS
  Logins,         \* channels
  Handlers,       \* bound: handlers at work at once
  MaxEnrolments,  \* bound: device credentials ever issued
  MaxStops        \* bound: how often the worker is stopped

ASSUME ProtectSyncAssumption ==
  Handlers # {} /\ MaxEnrolments \in Nat \ {0} /\ MaxStops \in Nat

VARIABLES
  watchlist,   \* the list in synced storage
  dropped,     \* the channels a write of the list ever dropped
  stored,      \* the Protect state in local storage
  server,      \* what the backend protects for the credential, if any
  credential,  \* the principal of the device credential; 0: none
  issued,      \* how many principals were enrolled
  suppress,    \* suppressWatchlistStorageSync
  changes,     \* changes of the list the worker is still to be told of
  work,        \* what each handler is doing
  up,          \* the backend is well: it carries out, or refuses
  stops        \* how often the worker was stopped

vars == <<watchlist, dropped, stored, server, credential, issued, suppress,
          changes, work, up, stops>>
device == <<credential, issued>>
list == <<watchlist, dropped>>
browser == <<suppress, changes, up, stops>>

(* What decides of a channel: a removal still owed, a refusal that is not  *)
(* retried unasked.  Labels of the settings page are left out.             *)
NoState == [tombstones |-> {}, refused |-> {}, principal |-> 0]

Idle == [stage |-> "idle", owns |-> FALSE, before |-> {}, channels |-> {},
         add |-> {}, del |-> {}, left |-> {}, force |-> FALSE,
         copy |-> NoState]

Change == [old : SUBSET Logins, new : SUBSET Logins]
Operations == {"add", "remove"} \X Logins

At(h, stage) == work[h].stage = stage
Become(h, w) == work' = [work EXCEPT ![h] = w]
Finish(h) ==
  /\ Become(h, Idle)
  /\ suppress' = (suppress /\ ~ work[h].owns)

(* planWatchlistStorageDelta: to be brought to the backend. *)
Delta(w, old, new) ==
  [w EXCEPT !.before = {}, !.channels = new, !.add = new \ old,
            !.del = old \ new, !.stage = "delta"]

(* resetProtectPrincipalIfChanged: what another principal was refused is   *)
(* due again.                                                              *)
MutantKeepsPrincipal(s, channels) ==
  IF s.principal = credential THEN s ELSE [s EXCEPT !.refused = @ \ channels]
Adopt(s, channels) ==
  IF s.principal = credential THEN s
  ELSE [s EXCEPT !.principal = credential, !.refused = @ \ channels]

(* markProtectPlanPending *)
Pending(s, add, del) ==
  [s EXCEPT !.tombstones = (@ \ add) \cup del, !.refused = @ \ (add \cup del)]

(* A handler knows its plan: all of it is to be answered.  Of a channel in *)
(* both parts, the removal's outcome is applied last.                      *)
Send(w, copy, add, del) ==
  [Idle EXCEPT !.owns = w.owns, !.copy = Pending(copy, add, del),
               !.del = add \cap del, !.stage = "answers",
               !.left = ({"add"} \X add) \cup ({"remove"} \X del)]
Ends(copy) == [Idle EXCEPT !.copy = copy, !.stage = "answers"]

(* markProtectReadFailure, of an authorization that is missing, and of a   *)
(* backend that does not answer.                                           *)
Unauthorized(s, channels) == [s EXCEPT !.refused = @ \cup channels \cup s.tombstones]
Unreachable(s, channels) == [s EXCEPT !.refused = @ \ (channels \cup s.tombstones)]

-----------------------------------------------------------------------------
(* The list is edited here, or in another browser of the user.  The worker *)
(* is told of a change before the list is written again (a bound).         *)

StartEdit(h) ==
  /\ At(h, "idle") /\ suppress' = TRUE
  /\ \E c \in Logins, part \in {"add", "del"} :
       Become(h, [Idle EXCEPT !.owns = TRUE, !.stage = "edit",
                              !.before = watchlist, ![part] = {c}])
  /\ UNCHANGED <<list, stored, server, device, changes, up, stops>>

(* addToWatchlist, removeFromWatchlist read the list once more.            *)
ReadAgain(h) ==
  /\ At(h, "edit")
  /\ Become(h, [work[h] EXCEPT !.stage = "write", !.channels = watchlist])
  /\ UNCHANGED <<list, stored, server, device, browser>>

Rewrite(new) ==
  /\ changes = {}
  /\ watchlist' = new /\ dropped' = dropped \cup (watchlist \ new)
  /\ changes' = IF new = watchlist THEN {} ELSE {[old |-> watchlist, new |-> new]}

(* They write it changed; what it was at the first reading makes the delta. *)
WriteList(h) ==
  /\ At(h, "write")
  /\ LET w == work[h]
         new == (w.channels \cup w.add) \ w.del
     IN  /\ IF w.add \subseteq w.channels /\ w.del = {} THEN UNCHANGED <<list, changes>>
            ELSE Rewrite(new)
         /\ IF new = w.before THEN Finish(h)
            ELSE Become(h, Delta(w, w.before, new)) /\ UNCHANGED suppress
  /\ UNCHANGED <<stored, server, device, up, stops>>

EditElsewhere(c) ==
  /\ Rewrite(IF c \in watchlist THEN watchlist \ {c} ELSE watchlist \cup {c})
  /\ UNCHANGED <<stored, server, device, suppress, work, up, stops>>

(* storage.onChanged: an edit of this browser owns its change; while one   *)
(* is at work, every change is taken for its own.                          *)
ToldOfChange ==
  \E change \in changes :
    /\ changes' = changes \ {change}
    /\ IF suppress THEN UNCHANGED work
       ELSE \E h \in Handlers :
              At(h, "idle") /\ Become(h, Delta(Idle, change.old, change.new))
    /\ UNCHANGED <<list, stored, server, device, suppress, up, stops>>

-----------------------------------------------------------------------------
(* The list is brought to the backend: at every start, and when asked.     *)

StartSync(h) ==
  /\ At(h, "idle")
  /\ Become(h, [Idle EXCEPT !.stage = "sync", !.channels = watchlist])
  /\ UNCHANGED <<list, stored, server, device, browser>>

(* Enrolment gives a new principal, and brings it the whole list.          *)
Enroll(h) ==
  /\ At(h, "idle") /\ issued < MaxEnrolments
  /\ issued' = issued + 1 /\ credential' = issued + 1 /\ server' = {}
  /\ Become(h, [Idle EXCEPT !.stage = "sync", !.channels = watchlist,
                            !.force = TRUE])
  /\ UNCHANGED <<list, stored, browser>>

(* The credential is revoked, or found to be no good.                      *)
Revoke(h) ==
  /\ At(h, "idle") /\ credential # 0
  /\ credential' = 0 /\ server' = {} /\ UNCHANGED issued
  /\ Become(h, [Idle EXCEPT !.stage = "revoke", !.channels = watchlist])
  /\ UNCHANGED <<list, stored, browser>>

ReadState(h) ==
  LET w == work[h]
      s == Adopt(stored, w.channels)
  IN
  /\ \/ At(h, "delta") /\ Become(h, Send(w, s, w.add, w.del))
     \/ /\ At(h, "sync") /\ credential # 0
        /\ Become(h, [w EXCEPT !.stage = "list", !.copy = s])
     \/ /\ At(h, "sync") /\ credential = 0
        /\ Become(h, Ends(Unauthorized(s, w.channels)))
     \/ At(h, "revoke") /\ Become(h, Ends(Unauthorized(stored, w.channels)))
  /\ UNCHANGED <<list, stored, server, device, browser>>

(* The backend's list arrives: local protections it lacks are due, and the *)
(* removals still owed.                                                    *)
Planned(w) ==
  LET s == [w.copy EXCEPT !.refused = @ \ (w.channels \cap server)]
      due == (w.channels \ server) \ (IF w.force THEN {} ELSE s.refused)
  IN  Send(w, s, due, w.copy.tombstones)

ListArrives(h) ==
  LET w == work[h] IN
  /\ At(h, "list")
  /\ \/ up /\ credential # 0 /\ Become(h, Planned(w))
     \/ ~ up /\ Become(h, Ends(Unreachable(w.copy, w.channels)))
     \/ credential = 0 /\ Become(h, Ends(Unauthorized(w.copy, w.channels)))
  /\ UNCHANGED <<list, stored, server, device, browser>>

-----------------------------------------------------------------------------
(* executeProtectWrite and applyProtectOutcomes.  Writes of one plan are   *)
(* answered in any order.  An error that refuses nothing (a timeout, 429,  *)
(* 5xx, any other status) comes from a backend that is not well.           *)

MutantConfirmForgets(w, c) == [w.copy EXCEPT !.refused = @ \ {c}]
Confirm(w, c) == [w.copy EXCEPT !.tombstones = @ \ {c}, !.refused = @ \ {c}]
Refuse(w, c) == [w.copy EXCEPT !.refused = @ \cup {c}]

Answered(h, operation, copy) ==
  Become(h, [work[h] EXCEPT !.left = @ \ {operation}, !.copy = copy])

(* A request that fails may have been carried out or not. *)
AddAnswered(h, c) ==
  LET w == work[h]
      kept == IF c \in w.del THEN w.copy ELSE Refuse(w, c)
  IN
  /\ <<"add", c>> \in w.left
  /\ \/ /\ up /\ credential # 0 /\ server' = server \cup {c}
        /\ Answered(h, <<"add", c>>, IF c \in w.del
                                     THEN [w.copy EXCEPT !.tombstones = @ \ {c}]
                                     ELSE Confirm(w, c))
     \/ /\ up /\ (credential = 0 \/ c \notin server) /\ UNCHANGED server
        /\ Answered(h, <<"add", c>>, kept)
     \/ /\ ~ up /\ Answered(h, <<"add", c>>, w.copy)
        /\ \/ UNCHANGED server
           \/ credential # 0 /\ server' = server \cup {c}
  /\ UNCHANGED <<list, stored, device, browser>>

RemoveAnswered(h, c) ==
  LET w == work[h] IN
  /\ <<"remove", c>> \in w.left
  /\ \/ /\ up /\ credential # 0 /\ server' = server \ {c}
        /\ Answered(h, <<"remove", c>>, Confirm(w, c))
     \/ /\ up /\ credential = 0 /\ UNCHANGED server
        /\ Answered(h, <<"remove", c>>, Refuse(w, c))
     \/ /\ ~ up /\ Answered(h, <<"remove", c>>, w.copy)
        /\ \/ UNCHANGED server
           \/ credential # 0 /\ server' = server \ {c}
  /\ UNCHANGED <<list, stored, device, browser>>

(* All answers are in: the whole state is written back. *)
StoreState(h) ==
  /\ At(h, "answers") /\ work[h].left = {}
  /\ stored' = work[h].copy /\ Finish(h)
  /\ UNCHANGED <<list, server, device, changes, up, stops>>

-----------------------------------------------------------------------------
Stop ==
  /\ stops < MaxStops /\ stops' = stops + 1
  /\ work' = [h \in Handlers |-> Idle] /\ suppress' = FALSE
  /\ UNCHANGED <<list, stored, server, device, changes, up>>

Reachable ==
  /\ up' = ~ up
  /\ UNCHANGED <<list, stored, server, device, suppress, changes, work, stops>>

(* A browser whose user may have used Protect elsewhere before.            *)
Init ==
  /\ watchlist \in SUBSET Logins /\ dropped = {} /\ stored = NoState
  /\ credential \in {0, 1} /\ issued = credential
  /\ server \in SUBSET Logins /\ (credential = 0 => server = {})
  /\ suppress = FALSE /\ changes = {} /\ up = TRUE /\ stops = 0
  /\ work = [h \in Handlers |-> Idle]

Answers(h) == \E c \in Logins : AddAnswered(h, c) \/ RemoveAnswered(h, c)
GoesOn(h) ==
  \/ ReadAgain(h) \/ WriteList(h) \/ ReadState(h)
  \/ ListArrives(h) \/ Answers(h) \/ StoreState(h)

Next ==
  \/ \E h \in Handlers :
       StartEdit(h) \/ StartSync(h) \/ Enroll(h) \/ Revoke(h) \/ GoesOn(h)
  \/ \E c \in Logins : EditElsewhere(c)
  \/ ToldOfChange \/ Stop \/ Reachable

(* What a handler awaits comes, or fails; the browser tells of changes.    *)
Fairness == WF_vars(ToldOfChange) /\ \A h \in Handlers : WF_vars(GoesOn(h))

Spec == Init /\ [][Next]_vars /\ Fairness

-----------------------------------------------------------------------------
States == [tombstones : SUBSET Logins, refused : SUBSET Logins,
           principal : 0..MaxEnrolments]

Work == [stage : {"idle", "edit", "write", "delta", "sync", "revoke", "list",
                  "answers"},
         owns : BOOLEAN, before : SUBSET Logins,
         channels : SUBSET Logins, add : SUBSET Logins, del : SUBSET Logins,
         left : SUBSET Operations, force : BOOLEAN, copy : States]

(* Each variable has its type, and the backend's list is read for the      *)
(* principal the handler's copy of the state names.                        *)
TypeOK ==
  /\ watchlist \in SUBSET Logins /\ dropped \in SUBSET Logins
  /\ stored \in States /\ server \in SUBSET Logins
  /\ credential \in 0..issued /\ issued \in 0..MaxEnrolments
  /\ suppress \in BOOLEAN /\ changes \in SUBSET Change
  /\ work \in [Handlers -> Work] /\ up \in BOOLEAN /\ stops \in 0..MaxStops
  /\ \A h \in Handlers : At(h, "list") => work[h].copy.principal # 0

(* Absence from the list never implies a deletion: what a handler removes  *)
(* from the backend, or a tombstone remembers, left the list by a write    *)
(* of it, whichever handlers overwrote one another.                        *)
Removes(w) == {c \in Logins : <<"remove", c>> \in w.left}
Owed(w) ==
  w.copy.tombstones \cup Removes(w) \cup (IF w.stage = "delta" THEN w.del ELSE {})
RemovesOnlyDropped ==
  \A h \in Handlers : stored.tombstones \cup Owed(work[h]) \subseteq dropped

(* The worker is deaf to other browsers' edits only while one of its own   *)
(* is at work: the flag comes down whichever of them ends first.           *)
DeafOnlyWhileEditing == suppress => \E h \in Handlers : work[h].owns

(* A sync pushes what the list holds and untracks none of it.              *)
SyncNeverUntracks == [][
  \A h \in Handlers : At(h, "list") => Removes(work'[h]) \cap work[h].channels = {}
  ]_vars

Syncing == \E h \in Handlers : At(h, "list")

(* Protections arrive: when the list is no longer edited, the credential   *)
(* stays, the backend answers and the browser is started again and again,  *)
(* the state kept is that of the present principal, and the backend ends   *)
(* up with every listed channel the state does not keep as refused.        *)
Converges ==
  /\ <>[][watchlist' = watchlist]_vars /\ <>[](credential # 0 /\ up) /\ []<>Syncing
  => <>[](/\ stored.principal = credential
          /\ watchlist \subseteq server \cup stored.refused)
=============================================================================
