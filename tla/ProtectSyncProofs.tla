------------------------- MODULE ProtectSyncProofs -------------------------
(***************************************************************************)
(* Proofs about ProtectSync, for any channels, handlers and bounds.        *)
(* IndInv says why a removal is always the user's: whatever a handler will *)
(* still remove was dropped from the list, and the copy of the list an     *)
(* edit works on holds nothing that was neither kept nor dropped since.    *)
(***************************************************************************)
EXTENDS ProtectSync, TLAPS

Rest ==
  /\ watchlist \in SUBSET Logins /\ dropped \in SUBSET Logins
  /\ server \in SUBSET Logins
  /\ issued \in 0..MaxEnrolments /\ credential \in 0..issued
  /\ up \in BOOLEAN /\ stops \in 0..MaxStops

Quiet(w) == w.stage \in {"idle", "sync", "revoke", "list"} => ~ w.owns

(* The work w of a handler fits a list and what was dropped of it.         *)
Fits(w, kept, gone) ==
  /\ w \in Work /\ Quiet(w) /\ Owed(w) \subseteq gone
  /\ w.stage = "edit" => w.before \subseteq kept \cup gone
  /\ w.stage = "write" => /\ w.channels \subseteq kept \cup gone
                          /\ w.before \ w.channels \subseteq gone
  /\ w.stage = "list" => w.copy.principal # 0

WorkFits ==
  work \in [Handlers -> Work] /\ \A h \in Handlers : Fits(work[h], watchlist, dropped)

StoredFits == stored \in States /\ stored.tombstones \subseteq dropped

ChangesFit ==
  changes \in SUBSET Change /\ \A change \in changes : change.old \ change.new \subseteq dropped

FlagFits == suppress \in BOOLEAN /\ (suppress => \E h \in Handlers : work[h].owns)

IndInv == Rest /\ WorkFits /\ StoredFits /\ ChangesFit /\ FlagFits

-----------------------------------------------------------------------------
(* What the steps of a handler's work are. *)
LEMMA Bounds == MaxEnrolments \in Nat /\ MaxStops \in Nat /\ 0 \in 0..MaxEnrolments
BY ProtectSyncAssumption

LEMMA NoStateType == NoState \in States /\ NoState.tombstones = {}
BY Bounds DEF NoState, States

LEMMA IdleFits == ASSUME NEW kept, NEW gone PROVE Fits(Idle, kept, gone) /\ ~ Idle.owns
BY NoStateType DEF Idle, Fits, Work, Quiet, Owed, Removes, NoState

LEMMA AdoptType ==
  ASSUME Rest, NEW s \in States, NEW channels \in SUBSET Logins
  PROVE  /\ Adopt(s, channels) \in States /\ Adopt(s, channels).tombstones = s.tombstones
         /\ Adopt(s, channels).principal = credential
<1>1. credential \in 0..MaxEnrolments
  BY Bounds DEF Rest
<1> QED BY <1>1 DEF Adopt, States

LEMMA SendFits ==
  ASSUME NEW w \in Work, NEW copy \in States, NEW kept, NEW gone,
         NEW add \in SUBSET Logins, NEW del \in SUBSET Logins,
         copy.tombstones \subseteq gone, del \subseteq gone
  PROVE  Fits(Send(w, copy, add, del), kept, gone)
         /\ Send(w, copy, add, del).owns = w.owns
<1> DEFINE s == Send(w, copy, add, del)
           owing == ({"add"} \X add) \cup ({"remove"} \X del)
<1>1. Pending(copy, add, del) \in States
        /\ Pending(copy, add, del).tombstones \subseteq gone
  BY DEF Pending, States
<1>2. owing \in SUBSET Operations /\ {c \in Logins : <<"remove", c>> \in owing} \subseteq del
  BY DEF Operations
<1>3. s = [Idle EXCEPT !.owns = w.owns, !.copy = Pending(copy, add, del),
                       !.del = add \cap del, !.stage = "answers", !.left = owing]
  BY DEF Send
<1> HIDE DEF owing, s
<1>4. /\ s.stage = "answers" /\ s.owns = w.owns /\ s.copy = Pending(copy, add, del)
      /\ s.left = owing
  BY <1>3 DEF Idle
<1>5. s \in Work
  BY <1>1, <1>2, <1>3, NoStateType DEF Idle, Work
<1>6. Fits(s, kept, gone)
  BY <1>1, <1>2, <1>4, <1>5 DEF Fits, Quiet, Owed, Removes
<1> QED BY <1>4, <1>6 DEF s

LEMMA EndsFits ==
  ASSUME NEW copy \in States, NEW kept, NEW gone, copy.tombstones \subseteq gone
  PROVE  Fits(Ends(copy), kept, gone) /\ ~ Ends(copy).owns
BY NoStateType DEF Ends, Idle, Fits, Work, Quiet, Owed, Removes

(* A failed read changes no tombstone. *)
LEMMA FailureType ==
  ASSUME NEW s \in States, NEW channels \in SUBSET Logins
  PROVE  /\ Unauthorized(s, channels) \in States
         /\ Unauthorized(s, channels).tombstones = s.tombstones
         /\ Unreachable(s, channels) \in States
         /\ Unreachable(s, channels).tombstones = s.tombstones
BY DEF Unauthorized, Unreachable, States

(* What fits still does when the list is written again. *)
LEMMA FitsLater ==
  ASSUME NEW w, NEW kept, NEW gone, NEW kept2, NEW gone2, Fits(w, kept, gone),
         gone \subseteq gone2, kept \cup gone \subseteq kept2 \cup gone2
  PROVE  Fits(w, kept2, gone2)
BY DEF Fits

-----------------------------------------------------------------------------
(* A handler goes on with work that fits; the rest of WorkFits and FlagFits *)
(* follows.                                                                *)
LEMMA BecomeFits ==
  ASSUME WorkFits, NEW h \in Handlers, NEW w, Fits(w, watchlist', dropped'), Become(h, w),
         dropped \subseteq dropped', watchlist \cup dropped \subseteq watchlist' \cup dropped'
  PROVE  WorkFits' /\ work'[h] = w /\ \A g \in Handlers : g # h => work'[g] = work[g]
<1>1. work'[h] = w /\ \A g \in Handlers : g # h => work'[g] = work[g]
  BY DEF Become, WorkFits
<1>2. work' \in [Handlers -> Work]
  BY DEF Become, WorkFits, Fits
<1>3. \A g \in Handlers : Fits(work'[g], watchlist', dropped')
  BY <1>1, FitsLater DEF WorkFits
<1> QED BY <1>1, <1>2, <1>3 DEF WorkFits

LEMMA FlagStays ==
  ASSUME FlagFits, NEW h \in Handlers, work'[h].owns = work[h].owns, UNCHANGED suppress,
         \A g \in Handlers : g # h => work'[g] = work[g]
  PROVE  FlagFits'
BY DEF FlagFits

LEMMA FlagFalls ==
  ASSUME FlagFits, WorkFits, NEW h \in Handlers, Finish(h),
         \A g \in Handlers : g # h => work'[g] = work[g]
  PROVE  FlagFits'
<1>1. work[h].owns \in BOOLEAN
  BY DEF WorkFits, Work
<1> QED BY <1>1 DEF FlagFits, Finish

(* A handler goes on and nothing but the backend and its work change. *)
LEMMA GoesOnKeeps ==
  ASSUME IndInv, NEW h \in Handlers, NEW w, Fits(w, watchlist, dropped),
         w.owns = work[h].owns, Become(h, w),
         UNCHANGED <<list, stored, suppress, changes>>, Rest'
  PROVE  IndInv'
<1>1. UNCHANGED <<watchlist, dropped>>
  BY DEF list
<1>2. WorkFits' /\ work'[h] = w /\ \A g \in Handlers : g # h => work'[g] = work[g]
  BY <1>1, BecomeFits DEF IndInv
<1>3. FlagFits'
  BY <1>2, FlagStays DEF IndInv
<1> QED BY <1>1, <1>2, <1>3 DEF IndInv, StoredFits, ChangesFit
-----------------------------------------------------------------------------
(* One lemma for each action. *)
LEMMA StartEditKeeps ==
  ASSUME IndInv, NEW h \in Handlers, StartEdit(h) PROVE IndInv'
<1> DEFINE Edit(c, part) == [Idle EXCEPT !.owns = TRUE, !.stage = "edit",
                                         !.before = watchlist, ![part] = {c}]
<1>1. PICK c \in Logins, part \in {"add", "del"} : Become(h, Edit(c, part))
  BY DEF StartEdit
<1>2. /\ Edit(c, part).stage = "edit" /\ Edit(c, part).owns = TRUE
      /\ Edit(c, part).before = watchlist /\ Edit(c, part).copy = NoState
      /\ Edit(c, part).left = {} /\ Edit(c, part) \in Work
  BY NoStateType DEF Idle, Work, IndInv, Rest
<1>3. UNCHANGED <<watchlist, dropped, stored, server, credential, issued, changes, up, stops>>
  BY DEF StartEdit, list, device
<1> HIDE DEF Edit
<1>4. Fits(Edit(c, part), watchlist, dropped)
  BY <1>2, NoStateType DEF Fits, Quiet, Owed, Removes
<1>5. WorkFits' /\ work'[h] = Edit(c, part)
  BY <1>1, <1>3, <1>4, BecomeFits DEF IndInv
<1>6. FlagFits'
  BY <1>2, <1>5 DEF FlagFits, StartEdit
<1> QED BY <1>3, <1>5, <1>6 DEF IndInv, Rest, StoredFits, ChangesFit

LEMMA ReadAgainKeeps ==
  ASSUME IndInv, NEW h \in Handlers, ReadAgain(h) PROVE IndInv'
<1> DEFINE w == work[h]
           v == [w EXCEPT !.stage = "write", !.channels = watchlist]
<1>1. w \in Work /\ Fits(w, watchlist, dropped) /\ w.stage = "edit"
  BY DEF IndInv, WorkFits, Fits, ReadAgain, At
<1>2. /\ v \in Work /\ v.stage = "write" /\ v.owns = w.owns /\ v.before = w.before
      /\ v.channels = watchlist /\ v.copy = w.copy /\ v.left = w.left
  <2> HIDE DEF w
  <2> QED BY <1>1 DEF Work, IndInv, Rest
<1>3. Rest' /\ UNCHANGED <<list, stored, suppress, changes>> /\ Become(h, v)
  BY DEF IndInv, Rest, ReadAgain, browser, device, list
<1> HIDE DEF v
<1>4. Fits(v, watchlist, dropped)
  <2> HIDE DEF w
  <2> QED BY <1>1, <1>2 DEF Fits, Quiet, Owed, Removes
<1> QED BY <1>2, <1>3, <1>4, GoesOnKeeps

LEMMA RewriteFits ==
  ASSUME IndInv, NEW new \in SUBSET Logins, Rewrite(new)
  PROVE  /\ watchlist' \in SUBSET Logins /\ dropped' \in SUBSET Logins
         /\ dropped \subseteq dropped' /\ watchlist \cup dropped \subseteq watchlist' \cup dropped'
         /\ watchlist' = new /\ ChangesFit'
<1>1. watchlist' = new /\ dropped' = dropped \cup (watchlist \ new)
  BY DEF Rewrite
<1>2. watchlist \in SUBSET Logins /\ dropped \in SUBSET Logins
  BY DEF IndInv, Rest
<1>3. changes' \subseteq {[old |-> watchlist, new |-> new]}
  BY DEF Rewrite
<1>4. [old |-> watchlist, new |-> new] \in Change
  BY <1>2 DEF Change
<1>5. ChangesFit'
  BY <1>1, <1>3, <1>4 DEF ChangesFit
<1> QED BY <1>1, <1>2, <1>5

LEMMA WriteListKeeps ==
  ASSUME IndInv, NEW h \in Handlers, WriteList(h) PROVE IndInv'
<1> DEFINE w == work[h]
           new == (w.channels \cup w.add) \ w.del
           d == Delta(w, w.before, new)
<1>0. /\ w \in Work /\ w.stage = "write" /\ new \in SUBSET Logins
      /\ w.channels \in SUBSET Logins /\ w.channels \subseteq watchlist \cup dropped
      /\ w.before \in SUBSET Logins /\ w.before \ w.channels \subseteq dropped
      /\ w.copy.tombstones \cup Removes(w) \subseteq dropped
  BY DEF WriteList, At, IndInv, WorkFits, Fits, Owed, Work
<1>1. UNCHANGED <<stored, server, credential, issued, up, stops>>
  BY DEF WriteList, device
<1>2. /\ watchlist' \in SUBSET Logins /\ dropped' \in SUBSET Logins
      /\ dropped \subseteq dropped' /\ watchlist \cup dropped \subseteq watchlist' \cup dropped'
      /\ ChangesFit'
      /\ w.before \ new \subseteq dropped'
  <2>1. CASE w.add \subseteq w.channels /\ w.del = {}
    <3>1. UNCHANGED <<watchlist, dropped, changes>> /\ new = w.channels
      BY <2>1 DEF WriteList, list
    <3> QED BY <1>0, <3>1 DEF IndInv, Rest, ChangesFit
  <2>2. CASE ~ (w.add \subseteq w.channels /\ w.del = {})
    <3>1. Rewrite(new)
      BY <2>2 DEF WriteList
    <3>2. w.before \ new \subseteq dropped'
      BY <3>1, <1>0 DEF Rewrite
    <3> QED BY <1>0, <3>1, <3>2, RewriteFits
  <2> QED BY <2>1, <2>2
<1>3. CASE new = w.before
  <2>1. Finish(h)
    BY <1>3 DEF WriteList
  <2>2. WorkFits' /\ \A g \in Handlers : g # h => work'[g] = work[g]
    BY <2>1, <1>2, IdleFits, BecomeFits DEF Finish, IndInv
  <2>3. FlagFits'
    BY <2>1, <2>2, FlagFalls DEF IndInv
  <2> QED BY <1>1, <1>2, <2>2, <2>3 DEF IndInv, Rest, StoredFits
<1>4. CASE new # w.before
  <2>1. Become(h, d) /\ UNCHANGED suppress
    BY <1>4 DEF WriteList
  <2>2. /\ d.stage = "delta" /\ d.owns = w.owns /\ d.del = w.before \ new
        /\ d.copy = w.copy /\ d.left = w.left /\ d \in Work
    <3> HIDE DEF new
    <3> QED BY <1>0 DEF Delta, Work
  <2>3. Fits(d, watchlist', dropped')
    <3> HIDE DEF d, new
    <3>1. Owed(d) \subseteq dropped'
      BY <1>0, <1>2, <2>2 DEF Owed, Removes
    <3> QED BY <2>2, <3>1 DEF Fits, Quiet
  <2> HIDE DEF d, new
  <2>4. WorkFits' /\ work'[h] = d /\ \A g \in Handlers : g # h => work'[g] = work[g]
    BY <2>1, <1>2, <2>3, BecomeFits DEF IndInv
  <2>5. FlagFits'
    BY <2>1, <2>2, <2>4, FlagStays DEF IndInv
  <2> QED BY <1>1, <1>2, <2>4, <2>5 DEF IndInv, Rest, StoredFits
<1> QED BY <1>3, <1>4

LEMMA EditElsewhereKeeps ==
  ASSUME IndInv, NEW c \in Logins, EditElsewhere(c) PROVE IndInv'
<1>1. PICK new \in SUBSET Logins : Rewrite(new)
  BY DEF EditElsewhere, IndInv, Rest
<1>2. UNCHANGED <<stored, server, credential, issued, suppress, work, up, stops>>
  BY DEF EditElsewhere, device
<1>3. /\ watchlist' \in SUBSET Logins /\ dropped' \in SUBSET Logins
      /\ dropped \subseteq dropped' /\ watchlist \cup dropped \subseteq watchlist' \cup dropped'
      /\ ChangesFit'
  BY <1>1, RewriteFits
<1>4. WorkFits'
  BY <1>2, <1>3, FitsLater DEF IndInv, WorkFits
<1> QED BY <1>2, <1>3, <1>4 DEF IndInv, Rest, StoredFits, FlagFits

LEMMA ToldOfChangeKeeps == ASSUME IndInv, ToldOfChange PROVE IndInv'
<1>1. PICK change \in changes :
        /\ changes' = changes \ {change}
        /\ \/ UNCHANGED work
           \/ \E h \in Handlers :
                At(h, "idle") /\ Become(h, Delta(Idle, change.old, change.new))
  BY DEF ToldOfChange
<1>2. UNCHANGED <<watchlist, dropped, stored, server, credential, issued, suppress, up, stops>>
  BY DEF ToldOfChange, list, device
<1>3. ChangesFit' /\ StoredFits' /\ Rest'
  BY <1>1, <1>2 DEF IndInv, ChangesFit, StoredFits, Rest
<1>4. CASE UNCHANGED work
  BY <1>2, <1>3, <1>4 DEF IndInv, WorkFits, FlagFits
<1>5. ASSUME NEW h \in Handlers, At(h, "idle"),
             Become(h, Delta(Idle, change.old, change.new))
      PROVE  IndInv'
  <2> DEFINE d == Delta(Idle, change.old, change.new)
  <2>1. change.old \in SUBSET Logins /\ change.new \in SUBSET Logins
          /\ change.old \ change.new \subseteq dropped
    BY DEF IndInv, ChangesFit, Change
  <2>2. /\ d.stage = "delta" /\ ~ d.owns /\ d.copy = NoState /\ d.left = {}
        /\ d.del = change.old \ change.new /\ d \in Work
    BY <2>1, NoStateType DEF Delta, Idle, Work
  <2> HIDE DEF d
  <2>3. Fits(d, watchlist, dropped)
    BY <2>1, <2>2, NoStateType DEF Fits, Quiet, Owed, Removes
  <2>4. ~ work[h].owns /\ work[h].owns \in BOOLEAN /\ d.owns \in BOOLEAN
    BY <1>5, <2>2 DEF At, IndInv, WorkFits, Fits, Quiet, Work
  <2>5. WorkFits' /\ work'[h] = d /\ \A g \in Handlers : g # h => work'[g] = work[g]
    BY <1>2, <1>5, <2>3, BecomeFits DEF d, IndInv
  <2>6. FlagFits'
    BY <1>2, <2>2, <2>4, <2>5, FlagStays DEF IndInv
  <2> QED BY <1>3, <2>5, <2>6 DEF IndInv
<1> QED BY <1>1, <1>4, <1>5

-----------------------------------------------------------------------------
(* Beginnings of work that is not an edit, and the steps of an exchange.   *)
LEMMA BeginningFits ==
  ASSUME IndInv, NEW w,
         \/ w = [Idle EXCEPT !.stage = "sync", !.channels = watchlist]
         \/ w = [Idle EXCEPT !.stage = "sync", !.channels = watchlist, !.force = TRUE]
         \/ w = [Idle EXCEPT !.stage = "revoke", !.channels = watchlist]
  PROVE  Fits(w, watchlist, dropped) /\ w.owns = FALSE
BY NoStateType DEF Fits, Quiet, Owed, Removes, Idle, Work, IndInv, Rest

LEMMA IdleOwnsNothing ==
  ASSUME WorkFits, NEW h \in Handlers, work[h].stage \in {"idle", "sync", "revoke", "list"}
  PROVE  work[h].owns = FALSE
BY DEF WorkFits, Fits, Quiet, Work

LEMMA BeginningsKeep ==
  ASSUME IndInv, NEW h \in Handlers, StartSync(h) \/ Enroll(h) \/ Revoke(h)
  PROVE  IndInv'
<1>1. work[h].owns = FALSE
  BY IdleOwnsNothing DEF IndInv, StartSync, Enroll, Revoke, At
<1>2. UNCHANGED <<list, stored, suppress, changes>>
  BY DEF StartSync, Enroll, Revoke, browser
<1>3. Rest'
  BY Bounds DEF IndInv, Rest, StartSync, Enroll, Revoke, browser, device, list
<1>4. PICK w :
        /\ Become(h, w)
        /\ \/ w = [Idle EXCEPT !.stage = "sync", !.channels = watchlist]
           \/ w = [Idle EXCEPT !.stage = "sync", !.channels = watchlist, !.force = TRUE]
           \/ w = [Idle EXCEPT !.stage = "revoke", !.channels = watchlist]
  BY DEF StartSync, Enroll, Revoke
<1> QED BY <1>1, <1>2, <1>3, <1>4, BeginningFits, GoesOnKeeps

LEMMA ReadStateKeeps ==
  ASSUME IndInv, NEW h \in Handlers, ReadState(h) PROVE IndInv'
<1> DEFINE w == work[h]
           s == Adopt(stored, w.channels)
<1>1. /\ w \in Work /\ w.channels \in SUBSET Logins /\ w.add \in SUBSET Logins
      /\ w.del \in SUBSET Logins /\ w.owns \in BOOLEAN
      /\ Fits(w, watchlist, dropped)
  BY DEF IndInv, WorkFits, Fits, Work
<1>2. stored \in States /\ stored.tombstones \subseteq dropped
  BY DEF IndInv, StoredFits
<1>3. s \in States /\ s.tombstones \subseteq dropped
  BY <1>1, <1>2, AdoptType DEF IndInv
<1>4. Rest' /\ UNCHANGED <<list, stored, suppress, changes>>
  BY DEF IndInv, Rest, ReadState, browser, device, list
<1> HIDE DEF s, w
<1>5. CASE At(h, "delta") /\ Become(h, Send(w, s, w.add, w.del))
  <2>1. w.del \subseteq dropped
    BY <1>1, <1>5 DEF At, w, Fits, Owed
  <2>2. Fits(Send(w, s, w.add, w.del), watchlist, dropped)
          /\ Send(w, s, w.add, w.del).owns = w.owns
    BY <1>1, <1>3, <2>1, SendFits
  <2> QED BY <1>4, <1>5, <2>2, GoesOnKeeps DEF w
<1>6. CASE At(h, "sync") /\ credential # 0 /\ Become(h, [w EXCEPT !.stage = "list", !.copy = s])
  <2> DEFINE v == [w EXCEPT !.stage = "list", !.copy = s]
  <2>1. v \in Work /\ v.stage = "list" /\ v.copy = s /\ v.left = w.left /\ v.owns = w.owns
    BY <1>1, <1>3 DEF Work
  <2>2. w.owns = FALSE /\ s.principal # 0
    <3>1. credential # 0 /\ s.principal = credential
      BY <1>1, <1>2, <1>6, AdoptType DEF IndInv, s
    <3> QED BY <1>6, <3>1, IdleOwnsNothing DEF At, w, IndInv, Rest
  <2>3. Fits(v, watchlist, dropped)
    <3> HIDE DEF v
    <3> QED BY <1>1, <1>3, <2>1, <2>2 DEF Fits, Quiet, Owed, Removes
  <2> QED BY <1>4, <1>6, <2>1, <2>3, GoesOnKeeps DEF w
<1>7. ASSUME NEW copy \in States, copy.tombstones \subseteq dropped,
             At(h, "sync") \/ At(h, "revoke"), Become(h, Ends(copy))
      PROVE  IndInv'
  <2>1. work[h].owns = FALSE
    BY <1>7, IdleOwnsNothing DEF At, IndInv
  <2>2. Ends(copy).owns = FALSE
    BY DEF Ends, Idle
  <2> QED BY <1>4, <1>7, <2>1, <2>2, EndsFits, GoesOnKeeps
<1>8. CASE At(h, "sync") /\ Become(h, Ends(Unauthorized(s, w.channels)))
  BY <1>1, <1>3, <1>7, <1>8, FailureType
<1>9. CASE At(h, "revoke") /\ Become(h, Ends(Unauthorized(stored, w.channels)))
  BY <1>1, <1>2, <1>7, <1>9, FailureType
<1> QED BY <1>5, <1>6, <1>8, <1>9 DEF ReadState, s, w

LEMMA ListArrivesKeeps ==
  ASSUME IndInv, NEW h \in Handlers, ListArrives(h) PROVE IndInv'
<1> DEFINE w == work[h]
           s == [w.copy EXCEPT !.refused = @ \ (w.channels \cap server)]
           due == (w.channels \ server) \ (IF w.force THEN {} ELSE s.refused)
<1>1. /\ w \in Work /\ w.channels \in SUBSET Logins /\ w.copy \in States
      /\ w.copy.tombstones \subseteq dropped /\ w.owns = FALSE
  BY IdleOwnsNothing DEF IndInv, WorkFits, Fits, Work, Owed, ListArrives, At
<1>2. Rest' /\ UNCHANGED <<list, stored, suppress, changes>>
  BY DEF IndInv, Rest, ListArrives, browser, device, list
<1>3. CASE Become(h, Planned(w))
  <2>1. s \in States /\ s.tombstones = w.copy.tombstones
    BY <1>1 DEF States
  <2>2. due \in SUBSET Logins /\ w.copy.tombstones \in SUBSET Logins
    BY <1>1 DEF States
  <2>3. Planned(w) = Send(w, s, due, w.copy.tombstones)
    BY DEF Planned
  <2> HIDE DEF s, due, w
  <2>4. Fits(Planned(w), watchlist, dropped) /\ Planned(w).owns = w.owns
    <3>1. s.tombstones \subseteq dropped /\ w.copy.tombstones \subseteq dropped
      BY <1>1, <2>1
    <3>2. Fits(Send(w, s, due, w.copy.tombstones), watchlist, dropped)
            /\ Send(w, s, due, w.copy.tombstones).owns = w.owns
      BY <1>1, <2>1, <2>2, <3>1, SendFits, ZenonT(60)
    <3> QED BY <2>3, <3>2
  <2> QED BY <1>2, <1>3, <2>4, GoesOnKeeps DEF w
<1>4. ASSUME NEW copy \in States, copy.tombstones \subseteq dropped, Become(h, Ends(copy))
      PROVE  IndInv'
  <2>1. Ends(copy).owns = FALSE
    BY DEF Ends, Idle
  <2> QED BY <1>1, <1>2, <1>4, <2>1, EndsFits, GoesOnKeeps
<1>5. CASE Become(h, Ends(Unreachable(w.copy, w.channels)))
  <2> HIDE DEF w
  <2> QED BY <1>1, <1>4, <1>5, FailureType
<1>6. CASE Become(h, Ends(Unauthorized(w.copy, w.channels)))
  <2> HIDE DEF w
  <2> QED BY <1>1, <1>4, <1>6, FailureType
<1> QED BY <1>3, <1>5, <1>6 DEF ListArrives
(* An answer takes an operation out of the plan and adds no tombstone.     *)
LEMMA AnsweredKeeps ==
  ASSUME IndInv, NEW h \in Handlers, NEW operation, NEW copy \in States,
         copy.tombstones \subseteq work[h].copy.tombstones, operation \in work[h].left,
         copy.principal = work[h].copy.principal,
         Answered(h, operation, copy), server' \in SUBSET Logins,
         UNCHANGED <<list, stored, device, browser>>
  PROVE  IndInv'
<1> DEFINE w == work[h]
           v == [w EXCEPT !.left = @ \ {operation}, !.copy = copy]
<1>1. w \in Work /\ Fits(w, watchlist, dropped)
  BY DEF IndInv, WorkFits, Fits
<1>2. /\ v \in Work /\ v.stage = w.stage /\ v.owns = w.owns /\ v.del = w.del
      /\ v.left = w.left \ {operation} /\ v.copy = copy /\ v.channels = w.channels
      /\ v.before = w.before
  <2> HIDE DEF w
  <2> QED BY <1>1 DEF Work
<1>3. Rest' /\ UNCHANGED <<list, stored, suppress, changes>>
  BY DEF IndInv, Rest, browser, device, list
<1>4. Become(h, v)
  BY DEF Answered
<1>5. copy.tombstones \subseteq w.copy.tombstones /\ copy.principal = w.copy.principal
  OBVIOUS
<1> HIDE DEF v
<1>6. Fits(v, watchlist, dropped)
  <2> HIDE DEF w
  <2>1. Owed(v) \subseteq Owed(w)
    BY <1>2, <1>5 DEF Owed, Removes
  <2>2. Quiet(v) /\ (v.stage = "list" => v.copy.principal # 0)
    BY <1>1, <1>2, <1>5 DEF Fits, Quiet
  <2>3. /\ v.stage = "edit" => v.before \subseteq watchlist \cup dropped
        /\ v.stage = "write" => /\ v.channels \subseteq watchlist \cup dropped
                                /\ v.before \ v.channels \subseteq dropped
    BY <1>1, <1>2 DEF Fits
  <2>4. v \in Work /\ Owed(v) \subseteq dropped
    BY <1>1, <1>2, <2>1 DEF Fits
  <2> QED BY <2>2, <2>3, <2>4 DEF Fits
<1> QED BY <1>2, <1>3, <1>4, <1>6, GoesOnKeeps

LEMMA OutcomeType ==
  ASSUME NEW w \in Work, NEW c \in Logins
  PROVE  /\ w.copy \in States /\ Confirm(w, c) \in States /\ Refuse(w, c) \in States
         /\ [w.copy EXCEPT !.tombstones = @ \ {c}] \in States
         /\ Confirm(w, c).tombstones \subseteq w.copy.tombstones
         /\ Refuse(w, c).tombstones = w.copy.tombstones
         /\ [w.copy EXCEPT !.tombstones = @ \ {c}].tombstones \subseteq w.copy.tombstones
         /\ Confirm(w, c).principal = w.copy.principal
         /\ Refuse(w, c).principal = w.copy.principal
         /\ [w.copy EXCEPT !.tombstones = @ \ {c}].principal = w.copy.principal
<1>1. w.copy \in States
  BY DEF Work
<1> QED BY <1>1 DEF Confirm, Refuse, States

LEMMA AddAnsweredKeeps ==
  ASSUME IndInv, NEW h \in Handlers, NEW c \in Logins, AddAnswered(h, c) PROVE IndInv'
<1> DEFINE w == work[h]
<1>1. w \in Work /\ <<"add", c>> \in w.left
  BY DEF IndInv, WorkFits, AddAnswered
<1>2. server' \in SUBSET Logins /\ UNCHANGED <<list, stored, device, browser>>
  BY DEF AddAnswered, IndInv, Rest
<1>3. PICK copy \in {w.copy, Confirm(w, c), Refuse(w, c),
                     [w.copy EXCEPT !.tombstones = @ \ {c}]} :
        Answered(h, <<"add", c>>, copy)
  BY DEF AddAnswered
<1>4. /\ copy \in States /\ copy.tombstones \subseteq w.copy.tombstones
      /\ copy.principal = w.copy.principal
  <2> HIDE DEF w
  <2> QED BY <1>1, <1>3, OutcomeType
<1> QED BY <1>1, <1>2, <1>3, <1>4, AnsweredKeeps

LEMMA RemoveAnsweredKeeps ==
  ASSUME IndInv, NEW h \in Handlers, NEW c \in Logins, RemoveAnswered(h, c) PROVE IndInv'
<1> DEFINE w == work[h]
<1>1. w \in Work /\ <<"remove", c>> \in w.left
  BY DEF IndInv, WorkFits, RemoveAnswered
<1>2. server' \in SUBSET Logins /\ UNCHANGED <<list, stored, device, browser>>
  BY DEF RemoveAnswered, IndInv, Rest
<1>3. PICK copy \in {w.copy, Confirm(w, c), Refuse(w, c)} :
        Answered(h, <<"remove", c>>, copy)
  BY DEF RemoveAnswered
<1>4. /\ copy \in States /\ copy.tombstones \subseteq w.copy.tombstones
      /\ copy.principal = w.copy.principal
  <2> HIDE DEF w
  <2> QED BY <1>1, <1>3, OutcomeType
<1> QED BY <1>1, <1>2, <1>3, <1>4, AnsweredKeeps

LEMMA StoreStateKeeps ==
  ASSUME IndInv, NEW h \in Handlers, StoreState(h) PROVE IndInv'
<1>1. work[h].copy \in States /\ work[h].copy.tombstones \subseteq dropped
  BY DEF IndInv, WorkFits, Fits, Work, Owed
<1>2. Finish(h) /\ stored' = work[h].copy
        /\ UNCHANGED <<watchlist, dropped, server, credential, issued, changes, up, stops>>
  BY DEF StoreState, list, device
<1>3. WorkFits' /\ \A g \in Handlers : g # h => work'[g] = work[g]
  BY <1>2, IdleFits, BecomeFits DEF Finish, IndInv
<1>4. FlagFits'
  BY <1>2, <1>3, FlagFalls DEF IndInv
<1> QED BY <1>1, <1>2, <1>3, <1>4 DEF IndInv, Rest, StoredFits, ChangesFit

LEMMA StopKeeps == ASSUME IndInv, Stop PROVE IndInv'
<1>1. stops' \in 0..MaxStops
  BY Bounds DEF Stop, IndInv, Rest
<1>2. UNCHANGED <<watchlist, dropped, stored, server, credential, issued, changes, up>>
  BY DEF Stop, list, device
<1>3. WorkFits'
  BY IdleFits DEF Stop, WorkFits, Fits
<1> QED BY <1>1, <1>2, <1>3 DEF Stop, IndInv, Rest, StoredFits, ChangesFit, FlagFits

LEMMA ReachableKeeps == ASSUME IndInv, Reachable PROVE IndInv'
BY DEF Reachable, IndInv, Rest, WorkFits, StoredFits, ChangesFit, FlagFits, list, device

LEMMA StutterKeeps == ASSUME IndInv, UNCHANGED vars PROVE IndInv'
BY DEF vars, IndInv, Rest, WorkFits, StoredFits, ChangesFit, FlagFits

-----------------------------------------------------------------------------
LEMMA InitFits == Init => IndInv
<1> SUFFICES ASSUME Init PROVE IndInv
  OBVIOUS
<1>1. Rest
  BY ProtectSyncAssumption DEF Init, Rest
<1>2. WorkFits
  BY IdleFits DEF Init, WorkFits, Fits
<1>3. StoredFits /\ ChangesFit /\ FlagFits
  BY NoStateType DEF Init, StoredFits, ChangesFit, FlagFits
<1> QED BY <1>1, <1>2, <1>3 DEF IndInv

LEMMA NextKeeps == IndInv /\ [Next]_vars => IndInv'
<1> SUFFICES ASSUME IndInv, [Next]_vars PROVE IndInv'
  OBVIOUS
<1>1. ASSUME NEW h \in Handlers, GoesOn(h) PROVE IndInv'
  BY <1>1, ReadAgainKeeps, WriteListKeeps, ReadStateKeeps, ListArrivesKeeps, AddAnsweredKeeps,
     RemoveAnsweredKeeps, StoreStateKeeps DEF GoesOn, Answers
<1>2. ASSUME NEW h \in Handlers, StartEdit(h) \/ StartSync(h) \/ Enroll(h) \/ Revoke(h)
      PROVE  IndInv'
  BY <1>2, StartEditKeeps, BeginningsKeep
<1>3. ASSUME NEW c \in Logins, EditElsewhere(c) PROVE IndInv'
  BY <1>3, EditElsewhereKeeps
<1>4. CASE ToldOfChange \/ Stop \/ Reachable \/ UNCHANGED vars
  BY <1>4, ToldOfChangeKeeps, StopKeeps, ReachableKeeps, StutterKeeps
<1> QED
  BY <1>1, <1>2, <1>3, <1>4 DEF Next

LEMMA Inductive == Spec => []IndInv
BY InitFits, NextKeeps, PTL DEF Spec

LEMMA IndInvImplies == IndInv => TypeOK /\ RemovesOnlyDropped /\ DeafOnlyWhileEditing
BY DEF IndInv, Rest, WorkFits, Fits, StoredFits, ChangesFit, FlagFits, TypeOK,
       RemovesOnlyDropped, DeafOnlyWhileEditing, At

(* Every variable keeps its type. *)
THEOREM TypeCorrect == Spec => []TypeOK
BY Inductive, IndInvImplies, PTL

(* Whatever handlers overwrite of one another, no removal is sent or kept  *)
(* for a channel that never left the list: absence implies no deletion.    *)
THEOREM RemovalsAreTheUsers == Spec => []RemovesOnlyDropped
BY Inductive, IndInvImplies, PTL

(* The listener is mute only while an edit of this browser is at work.     *)
THEOREM FlagFollowsEdits == Spec => []DeafOnlyWhileEditing
BY Inductive, IndInvImplies, PTL
=============================================================================
