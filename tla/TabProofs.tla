----------------------------- MODULE TabProofs -----------------------------
(***************************************************************************)
(* Proofs about one Twitch tab: its session (ChannelTab), for any channels,*)
(* recordings and bound on what is awaited, and its live poll (LivePoll),  *)
(* for any channels and bound on the failures counted.                     *)
(*                                                                         *)
(* IndInv, of the session, says how the live poll keeps to the route: a    *)
(* route sync leaves the session on the page it found, an open channel that*)
(* lacks the poll has an answer coming that may still act, and nothing but *)
(* the open channel is ever given to the poll.                             *)
(*                                                                         *)
(* PollInv, of the poll, strengthens the three safety invariants that TLC  *)
(* checks: the request in flight, as long as it is current, is for the open*)
(* channel, and a countdown is published exactly in the two phases that    *)
(* have a timer.                                                           *)
(***************************************************************************)
EXTENDS ChannelTab, LivePoll, TLAPS

Synced == ~ pending => session = url
LoadsFit == \A l \in loads : l.stage \in {"settings", "resync"} => l.page \in Channels
PollComes == session \in Channels /\ ~ pending => poll = session \/ Loading(session)
PollStops == session \notin Channels => poll = Nowhere

IndInv == TypeOK /\ Synced /\ LoadsFit /\ PollComes /\ PollStops

Loads == [page : Pages, stage : Stages, current : BOOLEAN]

-----------------------------------------------------------------------------
(* Awaited answers, old and new. *)
LEMMA LoadType ==
  ASSUME NEW page \in Pages, NEW stage \in Stages
  PROVE  /\ Load(page, stage) \in Loads /\ Load(page, stage).page = page
         /\ Load(page, stage).stage = stage /\ Load(page, stage).current = TRUE
BY DEF Load, Loads

LEMMA OutdatedType ==
  ASSUME TypeOK, LoadsFit
  PROVE  /\ Outdated \in SUBSET Loads
         /\ \A l \in Outdated :
              ~ l.current /\ (l.stage \in {"settings", "resync"} => l.page \in Channels)
BY DEF Outdated, TypeOK, LoadsFit, Loads

LEMMA Places ==
  /\ Channels \subseteq Pages /\ Vods \subseteq Pages /\ Nowhere \notin Pages
  /\ \A v \in Vods : v \notin Channels
  /\ {"settings", "answer", "resync"} = Stages
BY ChannelTabAssumption DEF Pages, Stages

(* An answer that is dropped could not act any more, or a route sync is due. *)
LEMMA DropKeeps ==
  ASSUME IndInv, NEW l \in loads, ~ (Current(l) /\ url = l.page), Drops(l),
         UNCHANGED <<url, pending, session, refreshes>>
  PROVE  IndInv'
<1>1. UNCHANGED <<broadcast, panel, content, poll, vodTimer, vodBusy, vodPolls>>
  BY DEF Drops, overlay, growing
<1>2. loads' = loads \ {l}
  BY DEF Drops
<1>3. TypeOK' /\ Synced' /\ LoadsFit' /\ PollStops'
  BY <1>1, <1>2 DEF IndInv, TypeOK, Synced, LoadsFit, PollStops
<1>4. PollComes'
  <2> SUFFICES ASSUME session \in Channels, ~ pending, poll # session
               PROVE  Loading(session)'
    BY <1>1 DEF PollComes
  <2>1. PICK m \in loads : m.current /\ m.page = session
    BY DEF IndInv, PollComes, Loading
  <2>2. m # l
    BY <2>1 DEF IndInv, Synced, Current
  <2> QED BY <1>2, <2>1, <2>2 DEF Loading
<1> QED BY <1>3, <1>4 DEF IndInv

-----------------------------------------------------------------------------
(* One lemma for each action. *)
LEMMA NavigateKeeps ==
  ASSUME IndInv, NEW page \in Pages \cup {Nowhere}, Navigate(page) PROVE IndInv'
BY DEF Navigate, IndInv, TypeOK, Synced, LoadsFit, PollComes, PollStops, Loading, overlay,
       growing

LEMMA LeaveKeeps ==
  ASSUME IndInv, pending, pending' = FALSE, UNCHANGED url, url = Nowhere, Leave
  PROVE  IndInv'
<1>1. loads' = Outdated /\ session' = Nowhere /\ poll' = Nowhere
  BY DEF Leave
<1>2. TypeOK'
  BY <1>1, OutdatedType DEF Leave, IndInv, TypeOK, Loads
<1>3. Synced' /\ LoadsFit' /\ PollStops'
  BY <1>1, OutdatedType DEF IndInv, Synced, LoadsFit, PollStops
<1>4. PollComes'
  BY <1>1, Places DEF PollComes
<1> QED BY <1>2, <1>3, <1>4 DEF IndInv

LEMMA StayOnChannelKeeps ==
  ASSUME IndInv, pending, pending' = FALSE, UNCHANGED url, url \in Channels,
         StayOnChannel(url)
  PROVE  IndInv'
<1> DEFINE l == Load(url, "resync")
<1>1. /\ l \in Loads /\ l.page = url /\ l.stage = "resync" /\ l.current = TRUE
  BY Places, LoadType
<1>2. loads' = loads \cup {l} /\ session = url /\ refreshes' \in {refreshes, refreshes \cup {url}}
        /\ UNCHANGED <<session, broadcast, panel, content, poll, vodTimer, vodBusy, vodPolls>>
  BY DEF StayOnChannel, overlay, growing
<1> HIDE DEF l
<1>3. TypeOK'
  BY <1>1, <1>2 DEF IndInv, TypeOK, Loads
<1>4. Synced' /\ LoadsFit' /\ PollStops'
  BY <1>1, <1>2 DEF IndInv, Synced, LoadsFit, PollStops
<1>5. PollComes'
  BY <1>1, <1>2 DEF PollComes, Loading
<1> QED BY <1>3, <1>4, <1>5 DEF IndInv

LEMMA OpenChannelKeeps ==
  ASSUME IndInv, pending, pending' = FALSE, UNCHANGED url, url \in Channels,
         OpenChannel(url)
  PROVE  IndInv'
<1> DEFINE l == Load(url, "settings")
<1>1. /\ l \in Loads /\ l.page = url /\ l.stage = "settings" /\ l.current = TRUE
  BY Places, LoadType
<1>2. /\ loads' = Outdated \cup {l} /\ session' = url /\ broadcast' = "unknown"
      /\ UNCHANGED <<panel, content, refreshes, poll, vodTimer, vodBusy, vodPolls>>
  BY DEF OpenChannel, overlay, growing
<1> HIDE DEF l
<1>3. TypeOK'
  BY <1>1, <1>2, OutdatedType, Places DEF IndInv, TypeOK, Loads
<1>4. Synced' /\ LoadsFit' /\ PollStops'
  BY <1>1, <1>2, OutdatedType DEF IndInv, Synced, LoadsFit, PollStops
<1>5. PollComes'
  BY <1>1, <1>2 DEF PollComes, Loading
<1> QED BY <1>3, <1>4, <1>5 DEF IndInv

LEMMA StayOnVodKeeps ==
  ASSUME IndInv, pending, pending' = FALSE, UNCHANGED url, url \in Vods, StayOnVod(url)
  PROVE  IndInv'
BY Places DEF StayOnVod, IndInv, TypeOK, Synced, LoadsFit, PollComes, PollStops, overlay,
       growing

LEMMA OpenVodKeeps ==
  ASSUME IndInv, pending, pending' = FALSE, UNCHANGED url, url \in Vods, OpenVod(url)
  PROVE  IndInv'
<1> DEFINE l == Load(url, "answer")
<1>1. /\ l \in Loads /\ l.page = url /\ l.stage = "answer" /\ l.current = TRUE
  BY Places, LoadType
<1>2. /\ loads' = Outdated \cup {l} /\ session' = url /\ poll' = Nowhere
      /\ broadcast' = "unknown" /\ panel' = url /\ content' = Nowhere
      /\ vodTimer' = Nowhere /\ UNCHANGED <<refreshes, vodBusy, vodPolls>>
  BY DEF OpenVod
<1> HIDE DEF l
<1>3. TypeOK'
  BY <1>1, <1>2, OutdatedType, Places DEF IndInv, TypeOK, Loads
<1>4. Synced' /\ LoadsFit' /\ PollStops'
  BY <1>1, <1>2, OutdatedType DEF IndInv, Synced, LoadsFit, PollStops
<1>5. PollComes'
  BY <1>2, Places DEF PollComes
<1> QED BY <1>3, <1>4, <1>5 DEF IndInv

LEMMA RouteSyncKeeps == ASSUME IndInv, RouteSync PROVE IndInv'
BY LeaveKeeps, StayOnChannelKeeps, OpenChannelKeeps, StayOnVodKeeps, OpenVodKeeps
   DEF RouteSync

-----------------------------------------------------------------------------
(* An activation that is current gives its channel to the poll.            *)
LEMMA SettingsReadKeeps ==
  ASSUME IndInv, NEW l \in loads, SettingsRead(l) PROVE IndInv'
<1>1. l.stage = "settings" /\ UNCHANGED <<url, pending, session, refreshes>>
  BY DEF SettingsRead, Resumes
<1>2. l \in Loads /\ l.page \in Channels
  BY <1>1 DEF IndInv, TypeOK, LoadsFit, Loads
<1>3. CASE Current(l) /\ url = l.page
  <2> DEFINE m == [l EXCEPT !.stage = "answer"]
  <2>1. m \in Loads /\ m.stage = "answer"
    BY <1>2, Places DEF Loads
  <2>2. /\ panel' = l.page /\ content' = Nowhere /\ poll' = l.page
        /\ loads' = (loads \ {l}) \cup {m}
        /\ UNCHANGED <<broadcast, vodTimer, vodBusy, vodPolls>>
    BY <1>3 DEF SettingsRead, growing
  <2>3. session = l.page
    BY <1>3 DEF Current
  <2> HIDE DEF m
  <2>4. TypeOK'
    BY <1>1, <1>2, <2>1, <2>2 DEF IndInv, TypeOK, Loads
  <2> QED
    BY <1>1, <1>2, <2>1, <2>2, <2>3, <2>4
       DEF IndInv, Synced, LoadsFit, PollComes, PollStops
<1>4. CASE ~ (Current(l) /\ url = l.page)
  BY <1>1, <1>4, DropKeeps DEF SettingsRead
<1> QED BY <1>3, <1>4

LEMMA ChannelAnswersKeeps ==
  ASSUME IndInv, NEW l \in loads, ChannelAnswers(l) PROVE IndInv'
<1>1. l.page \in Channels /\ UNCHANGED <<url, pending, session, refreshes>>
  BY DEF ChannelAnswers, Resumes
<1>2. CASE Current(l) /\ url = l.page
  <2>1. /\ panel' = l.page /\ content' \in {Nowhere, l.page} /\ poll' = l.page
        /\ loads' = loads \ {l} /\ UNCHANGED <<broadcast, vodTimer, vodBusy, vodPolls>>
    BY <1>2 DEF ChannelAnswers, growing
  <2>2. session = l.page
    BY <1>2 DEF Current
  <2>3. TypeOK'
    BY <1>1, <2>1, Places DEF IndInv, TypeOK
  <2> QED
    BY <1>1, <2>1, <2>2, <2>3 DEF IndInv, Synced, LoadsFit, PollComes, PollStops
<1>3. CASE ~ (Current(l) /\ url = l.page)
  BY <1>1, <1>3, DropKeeps DEF ChannelAnswers
<1> QED BY <1>2, <1>3

LEMMA ResyncKeeps ==
  ASSUME IndInv, NEW l \in loads, Resync(l) PROVE IndInv'
<1>1. /\ l.stage = "resync" /\ loads' = loads \ {l}
      /\ UNCHANGED <<url, pending, session, refreshes, broadcast, panel, content,
                     vodTimer, vodBusy, vodPolls>>
  BY DEF Resync, Resumes, overlay, growing
<1>2. l.page \in Channels
  BY <1>1 DEF IndInv, LoadsFit
<1>3. CASE Current(l)
  <2>1. poll' = l.page /\ session = l.page
    BY <1>3 DEF Resync, Current
  <2>2. TypeOK'
    BY <1>1, <1>2, <2>1 DEF IndInv, TypeOK
  <2> QED
    BY <1>1, <1>2, <2>1, <2>2 DEF IndInv, Synced, LoadsFit, PollComes, PollStops
<1>4. CASE ~ Current(l)
  <2>1. poll' = poll
    BY <1>4 DEF Resync
  <2> QED BY <1>1, <1>4, <2>1, DropKeeps DEF Drops, overlay, growing
<1> QED BY <1>3, <1>4

(* What a recording's answer changes. *)
LEMMA ApplyVodEffect ==
  ASSUME TypeOK, NEW v \in Vods, NEW answer, ApplyVod(v, answer)
  PROVE  /\ content' \in Pages \cup {Nowhere} /\ vodTimer' \in Vods \cup {Nowhere}
         /\ broadcast' \in {"unknown", "recorded", "growing"}
         /\ content' # content => content' = session
BY Places DEF ApplyVod, Replace, TypeOK

LEMMA VodAnsweredKeeps ==
  ASSUME IndInv, NEW l \in loads, VodAnswered(l) PROVE IndInv'
<1>1. l.page \in Vods /\ UNCHANGED <<url, pending, session, refreshes>>
  BY DEF VodAnswered, Resumes
<1>2. CASE Current(l)
  <2>1. loads' = loads \ {l} /\ UNCHANGED <<panel, poll, vodBusy, vodPolls>>
          /\ \E answer \in VodAnswers : ApplyVod(l.page, answer)
    BY <1>2 DEF VodAnswered
  <2>2. TypeOK'
    <3>1. /\ content' \in Pages \cup {Nowhere} /\ vodTimer' \in Vods \cup {Nowhere}
          /\ broadcast' \in {"unknown", "recorded", "growing"}
      BY <1>1, <2>1, ApplyVodEffect DEF IndInv
    <3> QED BY <1>1, <2>1, <3>1 DEF IndInv, TypeOK
  <2>3. session \notin Channels
    BY <1>1, <1>2, Places DEF Current
  <2> QED
    BY <1>1, <2>1, <2>2, <2>3 DEF IndInv, Synced, LoadsFit, PollComes, PollStops
<1>3. CASE ~ Current(l)
  BY <1>1, <1>3, DropKeeps DEF VodAnswered
<1> QED BY <1>2, <1>3

(* The route and the poll are left alone; answers are at most added.       *)
LEMMA AsideKeeps ==
  ASSUME IndInv, TypeOK', UNCHANGED <<url, pending, session, poll>>,
         loads \subseteq loads', LoadsFit'
  PROVE  IndInv'
BY DEF IndInv, Synced, PollComes, PollStops, Loading

LEMMA VodPollKeeps ==
  ASSUME IndInv, NEW v \in Vods, VodTimerFires \/ VodPollAnswers(v) \/ VodPushed(v)
  PROVE  IndInv'
<1>1. UNCHANGED <<url, pending, session, panel, loads, refreshes, poll>>
  BY DEF VodTimerFires, VodPollAnswers, VodPushed, PollEnds, overlay
<1>2. CASE VodTimerFires
  <2>1. vodPolls' \in [Vods -> 0..MaxWaiting] /\ vodBusy' \in BOOLEAN
    <3>1. /\ vodTimer \in Vods /\ vodPolls \in [Vods -> 0..MaxWaiting]
          /\ vodBusy \in BOOLEAN /\ MaxWaiting \in Nat
      BY <1>2, ChannelTabAssumption DEF VodTimerFires, IndInv, TypeOK
    <3>2. CASE vodPolls[vodTimer] < MaxWaiting /\ vodBusy' = TRUE
                 /\ vodPolls' = [vodPolls EXCEPT ![vodTimer] = @ + 1]
      <4>1. vodPolls[vodTimer] + 1 \in 0..MaxWaiting
        BY <3>1, <3>2
      <4> QED BY <3>1, <3>2, <4>1
    <3>3. CASE UNCHANGED <<vodBusy, vodPolls>>
      BY <3>1, <3>3
    <3>4. PollRoom(vodTimer) => vodPolls[vodTimer] < MaxWaiting
      BY <3>1 DEF PollRoom
    <3> QED BY <1>2, <3>2, <3>3, <3>4 DEF VodTimerFires
  <2>2. TypeOK'
    BY <1>1, <1>2, <2>1 DEF VodTimerFires, IndInv, TypeOK, overlay
  <2> QED BY <1>1, <2>2, AsideKeeps DEF IndInv, LoadsFit
<1>3. CASE VodPollAnswers(v)
  <2>1. vodPolls' \in [Vods -> 0..MaxWaiting] /\ vodBusy' = FALSE
    BY <1>3, ChannelTabAssumption DEF VodPollAnswers, PollEnds, IndInv, TypeOK
  <2>2. /\ content' \in Pages \cup {Nowhere} /\ vodTimer' \in Vods \cup {Nowhere}
        /\ broadcast' \in {"unknown", "recorded", "growing"}
    BY <1>3, ApplyVodEffect DEF VodPollAnswers, IndInv, TypeOK
  <2>3. TypeOK'
    BY <1>1, <2>1, <2>2 DEF IndInv, TypeOK
  <2> QED BY <1>1, <2>3, AsideKeeps DEF IndInv, LoadsFit
<1>4. CASE VodPushed(v)
  <2>1. TypeOK'
    BY <1>1, <1>4, ApplyVodEffect DEF VodPushed, IndInv, TypeOK
  <2> QED BY <1>1, <2>1, AsideKeeps DEF IndInv, LoadsFit
<1> QED BY <1>2, <1>3, <1>4
LEMMA LiveChangesKeeps == ASSUME IndInv, LiveChanges PROVE IndInv'
<1> DEFINE l == Load(session, "resync")
<1>1. session \in Channels /\ l \in Loads /\ l.page = session
  BY Places, LoadType DEF LiveChanges
<1>2. /\ refreshes' = refreshes \cup {session} /\ loads' = loads \cup {l}
      /\ UNCHANGED <<url, pending, session, broadcast, panel, content, poll,
                     vodTimer, vodBusy, vodPolls>>
  BY DEF LiveChanges, overlay, growing
<1> HIDE DEF l
<1>3. TypeOK' /\ LoadsFit'
  BY <1>1, <1>2 DEF IndInv, TypeOK, LoadsFit, Loads
<1> QED BY <1>2, <1>3, AsideKeeps

LEMMA RefreshAnswersKeeps ==
  ASSUME IndInv, NEW c \in Channels, RefreshAnswers(c) PROVE IndInv'
<1>1. /\ refreshes' = refreshes \ {c}
      /\ UNCHANGED <<url, pending, session, broadcast, panel, loads, poll,
                     vodTimer, vodBusy, vodPolls>>
  BY DEF RefreshAnswers, growing
<1>2. content' \in Pages \cup {Nowhere}
  BY Places DEF RefreshAnswers, Replace, IndInv, TypeOK
<1>3. TypeOK' /\ LoadsFit'
  BY <1>1, <1>2 DEF IndInv, TypeOK, LoadsFit
<1> QED BY <1>1, <1>3, AsideKeeps

LEMMA PushedKeeps == ASSUME IndInv, Pushed PROVE IndInv'
<1> DEFINE l == Load(session, "resync")
<1>1. session \in Channels /\ l \in Loads /\ l.page = session
  BY Places, LoadType DEF Pushed
<1>2. UNCHANGED <<url, pending, session, broadcast, panel, poll, vodTimer, vodBusy, vodPolls>>
  BY DEF Pushed, growing
<1>3. loads' \in {loads, loads \cup {l}} /\ refreshes' \in {refreshes, refreshes \cup {session}}
  BY DEF Pushed
<1>4. content' \in Pages \cup {Nowhere}
  BY <1>1, Places DEF Pushed, Push, IndInv, TypeOK
<1> HIDE DEF l
<1>5. TypeOK' /\ LoadsFit'
  BY <1>1, <1>2, <1>3, <1>4 DEF IndInv, TypeOK, LoadsFit, Loads
<1> QED BY <1>2, <1>3, <1>5, AsideKeeps

LEMMA NextKeeps == IndInv /\ [Next]_vars => IndInv'
<1> SUFFICES ASSUME IndInv, [Next]_vars PROVE IndInv'
  OBVIOUS
<1>1. CASE \E page \in Pages \cup {Nowhere} : Navigate(page)
  BY <1>1, NavigateKeeps
<1>2. CASE \E l \in loads : LoadStep(l)
  BY <1>2, SettingsReadKeeps, ChannelAnswersKeeps, ResyncKeeps, VodAnsweredKeeps
     DEF LoadStep
<1>3. CASE \E v \in Vods : VodPollAnswers(v) \/ VodPushed(v)
  BY <1>3, VodPollKeeps
<1>4. CASE VodTimerFires
  <2>1. CASE Vods # {}
    BY <1>4, <2>1, VodPollKeeps
  <2>2. CASE Vods = {}
    BY <1>4, <2>2 DEF VodTimerFires, IndInv, TypeOK
  <2> QED BY <2>1, <2>2
<1>5. CASE \E c \in Channels : RefreshAnswers(c)
  BY <1>5, RefreshAnswersKeeps
<1>6. CASE UNCHANGED vars
  BY <1>6 DEF vars, IndInv, TypeOK, Synced, LoadsFit, PollComes, PollStops, Loading
<1> QED
  BY <1>1, <1>2, <1>3, <1>4, <1>5, <1>6, RouteSyncKeeps, LiveChangesKeeps, PushedKeeps
     DEF Next

LEMMA InitFits == Init => IndInv
<1> SUFFICES ASSUME Init PROVE IndInv
  OBVIOUS
<1>1. vodPolls \in [Vods -> 0..MaxWaiting]
  BY ChannelTabAssumption DEF Init
<1>2. TypeOK
  BY <1>1 DEF Init, TypeOK
<1> QED
  BY <1>2, Places DEF Init, IndInv, Synced, LoadsFit, PollComes, PollStops

LEMMA Inductive == Spec => []IndInv
BY InitFits, NextKeeps, PTL DEF Spec

(* Every variable keeps its type. *)
THEOREM TypeCorrect == Spec => []TypeOK
<1>1. IndInv => TypeOK
  BY DEF IndInv
<1> QED BY <1>1, Inductive, PTL

(* With nothing due, the live poll is for the page of the URL.             *)
THEOREM PollFollows == Spec => []PollFollowsRoute
<1>1. IndInv => PollFollowsRoute
  BY Places DEF IndInv, TypeOK, Synced, PollComes, PollStops, PollFollowsRoute, Quiet
<1> QED BY <1>1, Inductive, PTL

-----------------------------------------------------------------------------
(* What is shown changes for the open page alone, action by action.        *)
LEMMA ShownByLoads ==
  ASSUME TypeOK, NEW l \in loads, LoadStep(l)
  PROVE  /\ panel' # panel => panel' = session'
         /\ content' # content => content' \in {Nowhere, session'}
<1>1. session' = session
  BY DEF LoadStep, SettingsRead, ChannelAnswers, Resync, VodAnswered, Resumes
<1>2. CASE SettingsRead(l) \/ ChannelAnswers(l)
  BY <1>1, <1>2 DEF SettingsRead, ChannelAnswers, Current, Drops, overlay
<1>3. CASE Resync(l)
  BY <1>3 DEF Resync, overlay
<1>4. CASE VodAnswered(l)
  BY <1>1, <1>4, ApplyVodEffect DEF VodAnswered, Drops, overlay
<1> QED BY <1>2, <1>3, <1>4 DEF LoadStep

LEMMA ShownByVods ==
  ASSUME TypeOK, NEW v \in Vods, VodPollAnswers(v) \/ VodPushed(v)
  PROVE  panel' = panel /\ session' = session /\ (content' # content => content' = session)
<1>1. panel' = panel /\ session' = session
  BY DEF VodPollAnswers, VodPushed, PollEnds
<1>2. content' # content => content' = session
  BY ApplyVodEffect DEF VodPollAnswers, VodPushed
<1> QED BY <1>1, <1>2

LEMMA ShownByRoute ==
  ASSUME RouteSync
  PROVE  /\ panel' # panel => panel' = session'
         /\ content' # content => content' \in {Nowhere, session'}
BY DEF RouteSync, Leave, StayOnChannel, OpenChannel, StayOnVod, OpenVod, overlay

(* No late chart or activation of one page reaches the panel of another.   *)
THEOREM ShowsOnlySession == Spec => ShowsSession
<1> DEFINE Shown == /\ panel' # panel => panel' = session'
                    /\ content' # content => content' \in {Nowhere, session'}
<1>1. TypeOK /\ [Next]_vars => [Shown]_vars
  <2> SUFFICES ASSUME TypeOK, Next PROVE Shown
    OBVIOUS
  <2>1. CASE \E page \in Pages \cup {Nowhere} : Navigate(page)
    BY <2>1 DEF Navigate, overlay
  <2>2. CASE VodTimerFires \/ LiveChanges
    BY <2>2 DEF VodTimerFires, LiveChanges, overlay
  <2>3. CASE Pushed
    BY <2>3 DEF Pushed, Push
  <2>4. CASE \E c \in Channels : RefreshAnswers(c)
    BY <2>4 DEF RefreshAnswers, Replace
  <2>5. CASE \E v \in Vods : VodPollAnswers(v) \/ VodPushed(v)
    BY <2>5, ShownByVods
  <2>6. CASE \E l \in loads : LoadStep(l)
    BY <2>6, ShownByLoads
  <2> QED
    BY <2>1, <2>2, <2>3, <2>4, <2>5, <2>6, ShownByRoute DEF Next
<1> QED BY <1>1, TypeCorrect, PTL DEF Spec, ShowsSession

-----------------------------------------------------------------------------
(* A busy flag means a request: it falls with the first that ends.         *)
BusyAsks == vodBusy => \E v \in Vods : vodPolls[v] > 0

(* What a step may do to the poll of a growing recording.                  *)
PollGoesOn == Unpolled' => Unpolled \/ BusyForAnother

LEMMA PollSteps == IndInv /\ BusyAsks /\ [Next]_vars => BusyAsks' /\ PollGoesOn
<1> SUFFICES ASSUME IndInv, BusyAsks, [Next]_vars PROVE BusyAsks' /\ PollGoesOn
  OBVIOUS
<1>0. /\ vodPolls \in [Vods -> Nat] /\ vodTimer \in Vods \cup {Nowhere}
      /\ Nowhere \notin Vods
  BY ChannelTabAssumption, Places DEF IndInv, TypeOK
<1>1. CASE UNCHANGED growing /\ UNCHANGED session /\ UNCHANGED broadcast
  BY <1>1 DEF BusyAsks, PollGoesOn, Unpolled, growing
<1>2. CASE RouteSync
  <2>1. UNCHANGED vodPolls /\ vodBusy' \in {vodBusy, FALSE}
    BY <1>2 DEF RouteSync, Leave, StayOnChannel, OpenChannel, StayOnVod, OpenVod, growing
  <2>2. \/ UNCHANGED <<session, broadcast, growing>>
        \/ session' \notin Vods \/ broadcast' = "unknown"
    BY <1>2, Places DEF RouteSync, Leave, StayOnChannel, OpenChannel, StayOnVod, OpenVod
  <2>3. BusyAsks'
    BY <2>1 DEF BusyAsks
  <2>4. PollGoesOn
    BY <2>2 DEF PollGoesOn, Unpolled, growing
  <2> QED BY <2>3, <2>4
<1>3. ASSUME NEW v \in Vods, NEW answer, ApplyVod(v, answer), UNCHANGED session,
             \/ UNCHANGED <<vodBusy, vodPolls>>
             \/ /\ ~ vodBusy' /\ \A w \in Vods \ {v} : vodPolls'[w] = vodPolls[w]
                /\ session = v /\ broadcast = "growing" => answer # "failed"
      PROVE  BusyAsks' /\ PollGoesOn
  BY <1>0, <1>3 DEF ApplyVod, BusyAsks, PollGoesOn, Unpolled
<1>4. CASE \E v \in Vods : VodPushed(v)
  BY <1>3, <1>4 DEF VodPushed
<1>5. ASSUME NEW v \in Vods, VodPollAnswers(v) PROVE BusyAsks' /\ PollGoesOn
  <2>1. /\ ~ vodBusy' /\ UNCHANGED session
        /\ \A w \in Vods \ {v} : vodPolls'[w] = vodPolls[w]
    BY <1>0, <1>5 DEF VodPollAnswers, PollEnds
  <2>2. CASE session = v /\ broadcast = "growing" /\ vodTimer' = v /\ UNCHANGED broadcast
    BY <2>1, <2>2 DEF BusyAsks, PollGoesOn, Unpolled
  <2>3. ASSUME NEW answer \in VodAnswers,
               ~ (session = v /\ broadcast = "growing" /\ answer = "failed"),
               ApplyVod(v, IF broadcast = "unknown" THEN "failed" ELSE answer)
        PROVE  BusyAsks' /\ PollGoesOn
    <3> DEFINE given == IF broadcast = "unknown" THEN "failed" ELSE answer
    <3>1. session = v /\ broadcast = "growing" => given # "failed"
      BY <2>3
    <3>2. ApplyVod(v, given)
      BY <2>3
    <3> HIDE DEF given
    <3> QED BY <1>3, <2>1, <3>1, <3>2
  <2> QED BY <1>5, <2>2, <2>3 DEF VodPollAnswers
<1>6. CASE VodTimerFires
  <2>1. UNCHANGED <<session, broadcast>> /\ vodTimer \in Vods
    BY <1>0, <1>6 DEF VodTimerFires
  <2>2. CASE ~ vodBusy /\ session = vodTimer /\ broadcast = "growing"
    BY <1>0, <1>6, <2>1, <2>2 DEF VodTimerFires, BusyAsks, PollGoesOn, Unpolled
  <2>3. CASE ~ (~ vodBusy /\ session = vodTimer /\ broadcast = "growing")
    <3>1. UNCHANGED <<vodBusy, vodPolls>>
      BY <1>6, <2>3 DEF VodTimerFires
    <3>2. vodBusy => \E v \in Vods : vodPolls[v] > 0
      BY DEF BusyAsks
    <3> QED BY <1>0, <1>6, <2>1, <2>3, <3>1, <3>2
            DEF BusyAsks, PollGoesOn, Unpolled, BusyForAnother
  <2> QED BY <2>2, <2>3
<1>7. CASE \E l \in loads : LoadStep(l)
  <2>1. PICK l \in loads : LoadStep(l)
    BY <1>7
  <2>2. UNCHANGED session
    BY <2>1 DEF LoadStep, SettingsRead, ChannelAnswers, Resync, VodAnswered, Resumes
  <2>3. CASE VodAnswered(l) /\ Current(l)
    BY <1>3, <2>2, <2>3 DEF VodAnswered
  <2>4. CASE ~ (VodAnswered(l) /\ Current(l))
    BY <1>1, <2>1, <2>2, <2>4
       DEF LoadStep, SettingsRead, ChannelAnswers, Resync, VodAnswered, Drops
  <2> QED BY <2>3, <2>4
<1>8. CASE \E page \in Pages \cup {Nowhere} : Navigate(page)
  BY <1>1, <1>8 DEF Navigate
<1>9. CASE LiveChanges \/ Pushed \/ (\E c \in Channels : RefreshAnswers(c)) \/ UNCHANGED vars
  BY <1>1, <1>9 DEF LiveChanges, Pushed, RefreshAnswers, vars, growing
<1> QED BY <1>2, <1>4, <1>5, <1>6, <1>7, <1>8, <1>9 DEF Next

(* A growing recording stays polled, for any number of recordings: only the*)
(* request of another in flight, when its timer fires, ends it.            *)
THEOREM VodStaysPolled == Spec => GrowingVodPolled
<1>1. Init => BusyAsks
  BY DEF Init, BusyAsks
<1>2. IndInv /\ BusyAsks /\ [Next]_vars => [Unpolled' => Unpolled \/ BusyForAnother]_vars
  BY PollSteps DEF PollGoesOn
<1> QED BY <1>1, <1>2, InitFits, NextKeeps, PollSteps, PTL DEF Spec, GrowingVodPolled

-----------------------------------------------------------------------------
(* The live poll. *)

(* A request of the current generation was sent for the open channel.      *)
CurrentRequest == tickInFlight /\ tickCurrent => tickLogin = activeLogin

(* A microtask is queued only by an answer, before any other request.      *)
MicroBetweenRequests == micro => ~tickInFlight

(* What outdates a request also stops the timer, and none is set until the *)
(* answer is back.                                                         *)
OutdatedHasNoTimer == tickInFlight /\ ~tickCurrent => timer = "none"

(* No countdown is published while an answer is awaited.                   *)
QuietWhileAwaiting == tickInFlight => ~countdown

(* scheduleNext and publishInactive write phase and countdown together.    *)
CountdownPhase == countdown <=> phase \in {"scheduled", "retrying"}

PollInv ==
  /\ PollTypeOK
  /\ CurrentRequest
  /\ MicroBetweenRequests
  /\ OutdatedHasNoTimer
  /\ QuietWhileAwaiting
  /\ CountdownPhase
  /\ ResultsOfOpenChannel
  /\ TimerHasReason
  /\ SnapshotIsHonest

Parts == CurrentRequest /\ MicroBetweenRequests /\ OutdatedHasNoTimer /\ QuietWhileAwaiting /\ CountdownPhase
           /\ ResultsOfOpenChannel /\ TimerHasReason /\ SnapshotIsHonest

-----------------------------------------------------------------------------
(* What the fragments scheduleNext, tick and the finally block assign. *)
LEMMA ScheduleEffect ==
  ScheduleNext => \/ /\ CanRun' /\ timer' = Cadence'
                     /\ phase' \in {"retrying", "scheduled"} /\ countdown' = TRUE
                  \/ /\ ~CanRun' /\ timer' = "none"
                     /\ phase' \in {"idle", "paused"} /\ countdown' = FALSE
BY DEF ScheduleNext, PublishInactive

LEMMA ScheduleTypes == ScheduleNext => ViewTypes'
BY ScheduleEffect DEF Cadence, ViewTypes, Phases

LEMMA InactiveTypes == PublishInactive => phase' \in Phases /\ countdown' \in BOOLEAN
BY DEF PublishInactive, Phases

LEMMA TickTypes ==
  ASSUME RequestTypes, ViewTypes, activeLogin' \in Logins \cup {NoLogin}, Tick
  PROVE  RequestTypes' /\ phase' \in Phases /\ countdown' \in BOOLEAN
<1>1. RequestTypes'
  <2>1. CASE UNCHANGED <<tickInFlight, tickLogin, tickCurrent, toggledOn>>
    BY <2>1 DEF RequestTypes
  <2>2. CASE CanRun' /\ tickInFlight' = TRUE /\ tickLogin' = activeLogin' /\ tickCurrent' = TRUE
               /\ toggledOn' = FALSE
    <3>1. tickLogin' # NoLogin
      BY <2>2 DEF CanRun
    <3> QED BY <2>2, <3>1 DEF RequestTypes
  <2> QED BY <2>1, <2>2 DEF Tick
<1>2. phase' \in Phases /\ countdown' \in BOOLEAN
  BY DEF ViewTypes, Tick, Phases, PublishInactive
<1> QED BY <1>1, <1>2

(* Every step keeps the types of the counters and of the environment. *)
LEMMA ResultTypesPreserved == PollTypeOK /\ [PollNext]_pollVars => ResultTypes'
<1> SUFFICES ASSUME PollTypeOK, [PollNext]_pollVars PROVE ResultTypes'
  OBVIOUS
<1> USE DEF PollTypeOK, ResultTypes
<1>1. failures' \in Counts
  BY FailureCapAssumption
     DEF Counts, PollNext, TimerFires, RunMicrotask, Answer, FailuresAfter, Sync, Stop, ConfigRead, Configure,
         IntervalChanged, SetEnabled, ShowTab, HideTab, PageChanges, pollVars, controller
<1>2. resultsOf' \in Logins \cup {NoLogin}
  BY DEF RequestTypes, PollNext, TimerFires, RunMicrotask, Answer, FailuresAfter, Sync, Stop, ConfigRead,
         Configure, IntervalChanged, SetEnabled, ShowTab, HideTab, PageChanges, pollVars, controller
<1>3. failures' > 0 => resultsOf' # NoLogin
  BY NoLoginAssumption
     DEF Counts, RequestTypes, PollNext, TimerFires, RunMicrotask, Answer, FailuresAfter, Sync, Stop, ConfigRead,
         Configure, IntervalChanged, SetEnabled, ShowTab, HideTab, PageChanges, pollVars, controller
<1> QED BY <1>1, <1>2, <1>3

LEMMA EnvTypesPreserved == PollTypeOK /\ [PollNext]_pollVars => EnvTypes'
<1> SUFFICES ASSUME PollTypeOK, [PollNext]_pollVars PROVE EnvTypes'
  OBVIOUS
<1> USE DEF PollTypeOK, EnvTypes
<1>1. CASE \/ TimerFires \/ RunMicrotask \/ Stop \/ UNCHANGED pollVars
           \/ \E ok \in BOOLEAN : Answer(ok)
           \/ \E login \in Logins, tracking, hostedNow, nextUncharted \in BOOLEAN :
                 Sync(login, tracking, hostedNow, nextUncharted)
  BY <1>1 DEF TimerFires, RunMicrotask, Stop, pollVars, Answer, Sync, prefs, view
<1>2. CASE ConfigRead \/ IntervalChanged \/ \E enabled \in BOOLEAN : SetEnabled(enabled)
  BY <1>2 DEF ConfigRead, Configure, IntervalChanged, SetEnabled, view
<1>3. CASE ShowTab \/ HideTab \/ PageChanges
  BY <1>3 DEF ShowTab, HideTab, PageChanges, prefs
<1> QED BY <1>1, <1>2, <1>3 DEF PollNext

(* Every step keeps the types. *)
LEMMA TypePreserved == PollTypeOK /\ [PollNext]_pollVars => PollTypeOK'
<1> SUFFICES ASSUME PollTypeOK, [PollNext]_pollVars PROVE RequestTypes' /\ SettingTypes' /\ ViewTypes'
  BY ResultTypesPreserved, EnvTypesPreserved DEF PollTypeOK
<1> USE DEF PollTypeOK
<1>1. CASE TimerFires
  <2>1. SettingTypes'
    BY <1>1 DEF TimerFires, SettingTypes
  <2> QED BY <1>1, <2>1, TickTypes DEF TimerFires, SettingTypes, ViewTypes
<1>2. CASE RunMicrotask
  <2>1. SettingTypes'
    BY <1>2 DEF RunMicrotask, SettingTypes
  <2> QED BY <1>2, <2>1, TickTypes DEF RunMicrotask, SettingTypes, ViewTypes
<1>3. ASSUME NEW ok \in BOOLEAN, Answer(ok)
      PROVE  RequestTypes' /\ SettingTypes' /\ ViewTypes'
  <2>1. ViewTypes'
    BY <1>3, ScheduleTypes, InactiveTypes DEF Answer, AfterAnswer, AfterOutdatedAnswer, ViewTypes
  <2>2. SettingTypes'
    BY <1>3 DEF Answer, AfterAnswer, AfterOutdatedAnswer, SettingTypes
  <2>3. RequestTypes'
    BY <1>3 DEF Answer, RequestTypes
  <2> QED BY <2>1, <2>2, <2>3
<1>4. ASSUME NEW login \in Logins, NEW tracking \in BOOLEAN,
             NEW hostedNow \in BOOLEAN, NEW nextUncharted \in BOOLEAN,
             Sync(login, tracking, hostedNow, nextUncharted)
      PROVE  RequestTypes' /\ SettingTypes' /\ ViewTypes'
  <2>1. ViewTypes'
    BY <1>4, ScheduleTypes, InactiveTypes DEF Sync, StillCurrent, KeepsTimer, ViewTypes
  <2>2. SettingTypes'
    BY <1>4 DEF Sync, StillCurrent, KeepsTimer, SettingTypes
  <2>3. RequestTypes'
    BY <1>4 DEF Sync, StillCurrent, KeepsTimer, NoTick, RequestTypes
  <2> QED BY <2>1, <2>2, <2>3
<1>5. CASE Stop
  <2>1. ViewTypes'
    BY <1>5, InactiveTypes DEF Stop, ViewTypes
  <2>2. SettingTypes'
    BY <1>5 DEF Stop, SettingTypes
  <2>3. RequestTypes'
    BY <1>5 DEF Stop, NoTick, RequestTypes
  <2> QED BY <2>1, <2>2, <2>3
<1>6. CASE ConfigRead
  <2>1. ViewTypes'
    BY <1>6, ScheduleTypes, InactiveTypes DEF ConfigRead, Configure, ViewTypes
  <2>2. SettingTypes'
    BY <1>6 DEF ConfigRead, Configure, SettingTypes, EnvTypes
  <2>3. RequestTypes'
    BY <1>6 DEF ConfigRead, Configure, NoTick, RequestTypes
  <2> QED BY <2>1, <2>2, <2>3
<1>7. CASE IntervalChanged
  BY <1>7 DEF IntervalChanged, controller, RequestTypes, SettingTypes, ViewTypes
<1>8. ASSUME NEW enabled \in BOOLEAN, SetEnabled(enabled)
      PROVE  RequestTypes' /\ SettingTypes' /\ ViewTypes'
  <2>1. activeLogin' \in Logins \cup {NoLogin}
    BY <1>8 DEF SetEnabled, SettingTypes
  <2>2. ViewTypes'
    BY <1>8, <2>1, ScheduleTypes, InactiveTypes, TickTypes DEF SetEnabled, ViewTypes
  <2>3. CASE Tick
    BY <1>8, <2>1, <2>2, <2>3, TickTypes DEF SetEnabled, SettingTypes
  <2>4. SettingTypes'
    BY <1>8 DEF SetEnabled, SettingTypes
  <2>5. CASE ~Tick
    <3>1. UNCHANGED <<tickInFlight, tickLogin>> /\ tickCurrent' \in {tickCurrent, FALSE}
            /\ toggledOn' \in {toggledOn, TRUE}
      BY <1>8, <2>5 DEF SetEnabled, NoTick
    <3>2. RequestTypes'
      BY <3>1 DEF RequestTypes
    <3> QED BY <3>2, <2>2, <2>4
  <2> QED BY <2>3, <2>5
<1>9. CASE ShowTab
  <2>1. SettingTypes'
    BY <1>9 DEF ShowTab, SettingTypes
  <2>2. RequestTypes' /\ phase' \in Phases /\ countdown' \in BOOLEAN
    BY <1>9, <2>1, TickTypes DEF ShowTab, SettingTypes, RequestTypes, ViewTypes
  <2> QED BY <1>9, <2>1, <2>2 DEF ShowTab, ViewTypes
<1>10. CASE HideTab
  BY <1>10 DEF HideTab, controller, RequestTypes, SettingTypes, ViewTypes
<1>11. CASE PageChanges
  BY <1>11 DEF PageChanges, controller, RequestTypes, SettingTypes, ViewTypes
<1>12. CASE UNCHANGED pollVars
  BY <1>12 DEF pollVars, controller, RequestTypes, SettingTypes, ViewTypes
<1> QED
  BY <1>1, <1>2, <1>3, <1>4, <1>5, <1>6, <1>7, <1>8, <1>9, <1>10, <1>11, <1>12 DEF PollNext

(* Every step keeps the other parts of the inductive invariant. *)
LEMMA PartsPreserved == PollInv /\ [PollNext]_pollVars => Parts'
<1> SUFFICES ASSUME PollInv, [PollNext]_pollVars PROVE Parts'
  OBVIOUS
<1> USE DEF PollInv, Parts
<1>0. PollTypeOK'
  BY TypePreserved
<1>1. CASE TimerFires
  <2>1. CurrentRequest' /\ MicroBetweenRequests' /\ OutdatedHasNoTimer' /\ ResultsOfOpenChannel'
    BY <1>1 DEF TimerFires, Tick, CurrentRequest, MicroBetweenRequests, OutdatedHasNoTimer, ResultsOfOpenChannel
  <2>2. CountdownPhase' /\ QuietWhileAwaiting' /\ TimerHasReason'
    BY <1>1 DEF TimerFires, Tick, PublishInactive, CountdownPhase, QuietWhileAwaiting, TimerHasReason
  <2>3. SnapshotIsHonest'
    BY <1>1 DEF TimerFires, Tick, PublishInactive, SnapshotIsHonest, CountdownPhase,
                QuietWhileAwaiting
  <2> QED BY <2>1, <2>2, <2>3
<1>2. CASE RunMicrotask
  BY <1>2 DEF RunMicrotask, Tick, CanRun, Cadence, PublishInactive, CurrentRequest,
              MicroBetweenRequests, OutdatedHasNoTimer, QuietWhileAwaiting, CountdownPhase, ResultsOfOpenChannel, TimerHasReason,
              SnapshotIsHonest
<1>3. ASSUME NEW ok \in BOOLEAN, Answer(ok) PROVE Parts'
  <2>1. CurrentRequest' /\ MicroBetweenRequests' /\ OutdatedHasNoTimer' /\ ResultsOfOpenChannel'
    BY <1>3 DEF Answer, CurrentRequest, MicroBetweenRequests, OutdatedHasNoTimer, ResultsOfOpenChannel
  <2>2. CountdownPhase' /\ QuietWhileAwaiting'
    BY <1>3, ScheduleEffect DEF Answer, AfterAnswer, AfterOutdatedAnswer, PublishInactive, QuietWhileAwaiting, CountdownPhase
  <2>3. SnapshotIsHonest'
    <3>1. ~countdown /\ phase \notin {"scheduled", "retrying"}
      BY <1>3 DEF Answer, QuietWhileAwaiting, CountdownPhase
    <3>2. timer = "none" \/ tickCurrent
      BY <1>3 DEF Answer, OutdatedHasNoTimer
    <3> QED
      BY <1>3, <3>1, <3>2, ScheduleEffect DEF Answer, AfterAnswer, AfterOutdatedAnswer, Cadence, PublishInactive, SnapshotIsHonest
  <2>4. TimerHasReason'
    BY <1>3, ScheduleEffect DEF Answer, AfterAnswer, AfterOutdatedAnswer, CanRun, Cadence, TimerHasReason
  <2> QED BY <2>1, <2>2, <2>3, <2>4
<1>4. ASSUME NEW login \in Logins, NEW tracking \in BOOLEAN,
             NEW hostedNow \in BOOLEAN, NEW nextUncharted \in BOOLEAN,
             Sync(login, tracking, hostedNow, nextUncharted)
      PROVE  Parts'
  <2>1. CurrentRequest' /\ MicroBetweenRequests' /\ OutdatedHasNoTimer' /\ ResultsOfOpenChannel'
    BY <1>4 DEF Sync, StillCurrent, KeepsTimer, NoTick, CurrentRequest, MicroBetweenRequests, OutdatedHasNoTimer, ResultsOfOpenChannel
  <2>2. CountdownPhase' /\ QuietWhileAwaiting' /\ SnapshotIsHonest'
    BY <1>4, ScheduleEffect DEF Sync, StillCurrent, KeepsTimer, NoTick, Cadence, PublishInactive, QuietWhileAwaiting, CountdownPhase, SnapshotIsHonest
  <2>3. TimerHasReason'
    BY <1>4, ScheduleEffect, NoLoginAssumption DEF Sync, StillCurrent, KeepsTimer, CanRun, Cadence, TimerHasReason
  <2> QED BY <2>1, <2>2, <2>3
<1> USE NoLoginAssumption
    DEF PollTypeOK, CurrentRequest, MicroBetweenRequests, OutdatedHasNoTimer, QuietWhileAwaiting, CountdownPhase,
        ResultsOfOpenChannel, TimerHasReason, SnapshotIsHonest
<1>5. CASE Stop
  BY <1>5 DEF Stop, NoTick, PublishInactive
<1>6. CASE ConfigRead
  BY <1>6 DEF ConfigRead, Configure, NoTick, ScheduleNext, CanRun, Cadence, PublishInactive
<1>7. CASE IntervalChanged
  BY <1>7 DEF IntervalChanged, controller, Cadence
<1>8. ASSUME NEW enabled \in BOOLEAN, SetEnabled(enabled) PROVE Parts'
  BY <1>8 DEF SetEnabled, Tick, NoTick, ScheduleNext, CanRun, Cadence, PublishInactive, view
<1>9. CASE ShowTab
  BY <1>9 DEF ShowTab, Tick, CanRun, Cadence, PublishInactive, prefs
<1>10. CASE HideTab
  BY <1>10 DEF HideTab, controller, Cadence
<1>11. CASE PageChanges
  BY <1>11 DEF PageChanges, controller, Cadence
<1>12. CASE UNCHANGED pollVars
  BY <1>12 DEF pollVars, controller, Cadence
<1> QED
  BY <1>1, <1>2, <1>3, <1>4, <1>5, <1>6, <1>7, <1>8, <1>9, <1>10, <1>11, <1>12 DEF PollNext

(* The strengthened invariant holds in every state of every behaviour. *)
LEMMA PollInductive == PollSpec => []PollInv
<1>1. PollInit => PollInv
  <2> SUFFICES ASSUME PollInit PROVE PollInv
    OBVIOUS
  <2>1. PollTypeOK
    <3>1. ResultTypes
      BY FailureCapAssumption DEF PollInit, ResultTypes, Counts
    <3>2. RequestTypes /\ SettingTypes /\ ViewTypes /\ EnvTypes
      BY DEF PollInit, RequestTypes, SettingTypes, ViewTypes, EnvTypes, Phases
    <3> QED BY <3>1, <3>2 DEF PollTypeOK
  <2>2. Parts
    BY DEF PollInit, Parts, CurrentRequest, MicroBetweenRequests, OutdatedHasNoTimer, QuietWhileAwaiting, CountdownPhase,
           ResultsOfOpenChannel, TimerHasReason, SnapshotIsHonest
  <2> QED BY <2>1, <2>2 DEF PollInv, Parts
<1>2. PollInv /\ [PollNext]_pollVars => PollInv'
  BY TypePreserved, PartsPreserved DEF PollInv, Parts
<1> QED BY <1>1, <1>2, PTL DEF PollSpec

-----------------------------------------------------------------------------
(* Type correctness of the controller. *)
THEOREM PollTypeCorrect == PollSpec => []PollTypeOK
<1>1. PollInv => PollTypeOK BY DEF PollInv
<1> QED BY PollInductive, <1>1, PTL

(* No late answer is ever counted for another channel. *)
THEOREM ResultsCorrect == PollSpec => []ResultsOfOpenChannel
<1>1. PollInv => ResultsOfOpenChannel BY DEF PollInv
<1> QED BY PollInductive, <1>1, PTL

(* No timer outlives the reason it was set for. *)
THEOREM TimerCorrect == PollSpec => []TimerHasReason
<1>1. PollInv => TimerHasReason BY DEF PollInv
<1> QED BY PollInductive, <1>1, PTL

(* The countdown and the refreshing state are never stuck. *)
THEOREM SnapshotCorrect == PollSpec => []SnapshotIsHonest
<1>1. PollInv => SnapshotIsHonest BY DEF PollInv
<1> QED BY PollInductive, <1>1, PTL

(* Both at once: what a run of this component checks. *)
THEOREM TimerAndSnapshotCorrect == PollSpec => []TimerAndSnapshotAgree
<1>1. TimerHasReason /\ SnapshotIsHonest => TimerAndSnapshotAgree BY DEF TimerAndSnapshotAgree
<1> QED BY TimerCorrect, SnapshotCorrect, <1>1, PTL

(* No step of the controller drops a poll that may still run. *)
THEOREM PollKept == PollSpec => NeverDropsThePoll
<1>1. PollInv /\ [PollNext]_pollVars => [Alive /\ CanRun' => Alive']_pollVars
  <2> SUFFICES ASSUME PollInv, [PollNext]_pollVars, Alive, CanRun' PROVE Alive'
    OBVIOUS
  <2> USE DEF Alive, PollInv, PollTypeOK, MicroBetweenRequests
  <2>1. CASE TimerFires
    BY <2>1 DEF TimerFires, Tick
  <2>2. CASE RunMicrotask
    BY <2>2 DEF RunMicrotask, Tick
  <2>3. ASSUME NEW ok \in BOOLEAN, Answer(ok) PROVE Alive'
    <3>1. CanRun
      BY <2>3 DEF Answer, CanRun, view
    <3> QED BY <2>3, <3>1 DEF Answer, AfterAnswer, AfterOutdatedAnswer, ScheduleNext, Cadence
  <2>4. ASSUME NEW login \in Logins, NEW tracking \in BOOLEAN,
               NEW hostedNow \in BOOLEAN, NEW nextUncharted \in BOOLEAN,
               Sync(login, tracking, hostedNow, nextUncharted)
        PROVE  Alive'
    BY <2>4 DEF Sync, StillCurrent, KeepsTimer, NoTick, ScheduleNext, Cadence
  <2>5. CASE Stop
    BY <2>5 DEF Stop, CanRun
  <2>6. CASE ConfigRead
    BY <2>6 DEF ConfigRead, Configure, NoTick, ScheduleNext, CanRun, Cadence
  <2>7. CASE IntervalChanged
    BY <2>7 DEF IntervalChanged, controller
  <2>8. ASSUME NEW enabled \in BOOLEAN, SetEnabled(enabled) PROVE Alive'
    BY <2>8 DEF SetEnabled, Tick, NoTick, ScheduleNext, CanRun, Cadence
  <2>9. CASE ShowTab
    BY <2>9 DEF ShowTab, Tick
  <2>10. CASE HideTab
    BY <2>10 DEF HideTab, controller
  <2>11. CASE PageChanges
    BY <2>11 DEF PageChanges, controller
  <2>12. CASE UNCHANGED pollVars
    BY <2>12 DEF pollVars, controller
  <2> QED
    BY <2>1, <2>2, <2>3, <2>4, <2>5, <2>6, <2>7, <2>8, <2>9, <2>10, <2>11, <2>12 DEF PollNext
<1> QED BY PollInductive, <1>1, PTL DEF PollSpec, NeverDropsThePoll
=============================================================================
