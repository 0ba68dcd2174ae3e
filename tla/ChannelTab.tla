----------------------------- MODULE ChannelTab -----------------------------
(***************************************************************************)
(* One Twitch tab: the content script follows the URL, opens a session for *)
(* the page it finds, mounts the panel, loads its chart and points the     *)
(* live poll at it.  Navigation, storage reads, answers of the worker and  *)
(* timers interleave freely; every activation carries a generation, and    *)
(* beginning or cancelling one outdates those before it.                   *)
(*                                                                         *)
(* The live poll itself is LivePoll: here it is the channel its sync was   *)
(* last given.                                                             *)
(***************************************************************************)
EXTENDS Naturals, FiniteSets

CONSTANTS
  Channels,   \* channel pages
  Vods,       \* recordings, each of one broadcast
  Nowhere,    \* any other page; no session; no panel
  MaxWaiting  \* bound: answers the tab awaits at once

ASSUME ChannelTabAssumption ==
  /\ Channels \cap Vods = {} /\ Nowhere \notin Channels \cup Vods
  /\ MaxWaiting \in Nat

VARIABLES
  url,        \* the page the URL names
  pending,    \* a route sync waits out its debounce
  session,    \* activeSession
  broadcast,  \* ... .streamId and .liveDvr of a recording
  panel,      \* the page the panel is mounted for
  content,    \* the page whose chart the panel shows
  loads,      \* activations and poll syncs awaiting an answer
  refreshes,  \* channels with a refreshChannelPulse in flight
  poll,       \* the channel the live poll is for
  vodTimer,   \* the recording vodLivePollTimer will poll
  vodBusy,    \* vodLivePollInFlight
  vodPolls    \* how many polls of each recording are in flight

vars == <<url, pending, session, broadcast, panel, content, loads, refreshes,
          poll, vodTimer, vodBusy, vodPolls>>
overlay == <<panel, content>>
growing == <<vodTimer, vodBusy, vodPolls>>

Pages == Channels \cup Vods
Load(page, stage) == [page |-> page, stage |-> stage, current |-> TRUE]

Outdated == {[l EXCEPT !.current = FALSE] : l \in loads}
Current(l) == l.current /\ session = l.page
Loading(page) == \E l \in loads : l.current /\ l.page = page
Room == Cardinality(loads) + Cardinality(refreshes) < MaxWaiting

(* updateOverlayPayload, by a push: a chart of another broadcast is        *)
(* ignored; and by a refresh, which may change the broadcast.              *)
Push(page) ==
  content' = IF panel # Nowhere /\ content = Nowhere THEN page ELSE content
Replace(page) == content' = IF panel # Nowhere THEN page ELSE content

-----------------------------------------------------------------------------
(* Navigation, and the page found when the debounce ends. *)

(* Twitch also rewrites the URL without leaving the page. *)
Navigate(page) ==
  /\ url' = page /\ pending' = TRUE
  /\ UNCHANGED <<session, broadcast, overlay, loads, refreshes, poll, growing>>

Leave ==
  /\ session' = Nowhere /\ broadcast' = "unknown"
  /\ panel' = Nowhere /\ content' = Nowhere
  /\ loads' = Outdated /\ poll' = Nowhere
  /\ vodTimer' = Nowhere /\ vodBusy' = FALSE /\ UNCHANGED <<refreshes, vodPolls>>

(* The channel is open already: its first load goes on. *)
MutantStaysSilent(c) ==
  /\ session = c /\ Room
  /\ UNCHANGED <<session, broadcast, overlay, loads, refreshes, poll, growing>>
StayOnChannel(c) ==
  /\ session = c /\ Room
  /\ loads' = loads \cup {Load(c, "resync")}
  /\ \/ UNCHANGED refreshes
     \/ refreshes' = refreshes \cup {c}
  /\ UNCHANGED <<session, broadcast, overlay, poll, growing>>

OpenChannel(c) ==
  /\ session # c /\ Room /\ session' = c /\ broadcast' = "unknown"
  /\ loads' = Outdated \cup {Load(c, "settings")}
  /\ UNCHANGED <<overlay, refreshes, poll, growing>>

MutantPollsRecording(v) ==
  /\ session = v /\ poll' = v
  /\ UNCHANGED <<session, broadcast, overlay, loads, refreshes, growing>>
StayOnVod(v) ==
  /\ session = v /\ poll' = Nowhere
  /\ UNCHANGED <<session, broadcast, overlay, loads, refreshes, growing>>

OpenVod(v) ==
  /\ session # v /\ Room /\ session' = v /\ broadcast' = "unknown"
  /\ panel' = v /\ content' = Nowhere
  /\ loads' = Outdated \cup {Load(v, "answer")}
  /\ poll' = Nowhere /\ vodTimer' = Nowhere
  /\ UNCHANGED <<refreshes, vodBusy, vodPolls>>

RouteSync ==
  /\ pending /\ pending' = FALSE /\ UNCHANGED url
  /\ \/ url = Nowhere /\ Leave
     \/ url \in Channels /\ (StayOnChannel(url) \/ OpenChannel(url))
     \/ url \in Vods /\ (StayOnVod(url) \/ OpenVod(url))

-----------------------------------------------------------------------------
(* Activations go on when what they awaited arrives. *)

Resumes(l, stage) ==
  /\ l \in loads /\ l.stage = stage
  /\ UNCHANGED <<url, pending, session, refreshes>>

Drops(l) ==
  loads' = loads \ {l} /\ UNCHANGED <<broadcast, overlay, poll, growing>>

(* The settings are read: the empty panel goes up. *)
MutantMountsStale(l) ==
  /\ Resumes(l, "settings")
  /\ IF url = l.page
     THEN /\ panel' = l.page /\ content' = Nowhere /\ poll' = l.page
          /\ loads' = (loads \ {l}) \cup {[l EXCEPT !.stage = "answer"]}
          /\ UNCHANGED <<broadcast, growing>>
     ELSE Drops(l)
SettingsRead(l) ==
  /\ Resumes(l, "settings")
  /\ IF Current(l) /\ url = l.page
     THEN /\ panel' = l.page /\ content' = Nowhere /\ poll' = l.page
          /\ loads' = (loads \ {l}) \cup {[l EXCEPT !.stage = "answer"]}
          /\ UNCHANGED <<broadcast, growing>>
     ELSE Drops(l)

(* The chart, or the failure to get one, reaches the channel's panel. *)
ChannelAnswers(l) ==
  /\ Resumes(l, "answer") /\ l.page \in Channels
  /\ IF Current(l) /\ url = l.page
     THEN /\ panel' = l.page /\ content' \in {Nowhere, l.page} /\ poll' = l.page
          /\ loads' = loads \ {l} /\ UNCHANGED <<broadcast, growing>>
     ELSE Drops(l)

(* A poll sync awaits the backend's address alone. *)
MutantResyncsStale(l) ==
  /\ Resumes(l, "resync") /\ loads' = loads \ {l}
  /\ poll' = l.page
  /\ UNCHANGED <<broadcast, overlay, growing>>
Resync(l) ==
  /\ Resumes(l, "resync") /\ loads' = loads \ {l}
  /\ poll' = IF Current(l) THEN l.page ELSE poll
  /\ UNCHANGED <<broadcast, overlay, growing>>

(* applyVodPulseMessage: a growing recording is polled, a finished one,    *)
(* whose broadcast may be unnamed, is not, and a failure changes nothing.  *)
ApplyVod(v, answer) ==
  IF session # v \/ answer = "failed"
  THEN UNCHANGED <<broadcast, content, vodTimer>>
  ELSE /\ Replace(v)
       /\ \/ answer = "growing" /\ broadcast' = "growing" /\ vodTimer' = v
          \/ /\ answer = "recorded" /\ broadcast' \in {"unknown", "recorded"}
             /\ vodTimer' = Nowhere

VodAnswers == {"growing", "recorded", "failed"}

VodAnswered(l) ==
  /\ Resumes(l, "answer") /\ l.page \in Vods
  /\ IF Current(l)
     THEN /\ loads' = loads \ {l}
          /\ \E answer \in VodAnswers : ApplyVod(l.page, answer)
          /\ UNCHANGED <<panel, poll, vodBusy, vodPolls>>
     ELSE Drops(l)

-----------------------------------------------------------------------------
(* pollGrowingVod: the timer, the request, and its finally block. *)

(* Bound: the requests in flight for any two recordings. *)
PollRoom(v) ==
  \A w \in Vods : vodPolls[w] + (IF w = v THEN 0 ELSE vodPolls[v]) < MaxWaiting

VodTimerFires ==
  /\ vodTimer # Nowhere /\ vodTimer' = Nowhere
  /\ IF ~ vodBusy /\ session = vodTimer /\ broadcast = "growing"
     THEN /\ PollRoom(vodTimer) /\ vodBusy' = TRUE
          /\ vodPolls' = [vodPolls EXCEPT ![vodTimer] = @ + 1]
     ELSE UNCHANGED <<vodBusy, vodPolls>>
  /\ UNCHANGED <<url, pending, session, broadcast, overlay, loads, refreshes, poll>>

PollEnds(v) ==
  /\ vodPolls[v] > 0 /\ vodPolls' = [vodPolls EXCEPT ![v] = @ - 1]
  /\ vodBusy' = FALSE
  /\ UNCHANGED <<url, pending, session, panel, loads, refreshes, poll>>

(* An answer counts while the session names the broadcast it was asked of; *)
(* the finally block sets the timer if the recording still grows.          *)
MutantFinallyForgets(v) ==
  /\ PollEnds(v)
  /\ \E answer \in VodAnswers :
       IF session = v /\ broadcast = "growing" /\ answer = "failed"
       THEN UNCHANGED <<broadcast, content, vodTimer>>
       ELSE ApplyVod(v, IF broadcast = "unknown" THEN "failed" ELSE answer)
VodPollAnswers(v) ==
  /\ PollEnds(v)
  /\ \E answer \in VodAnswers :
       IF session = v /\ broadcast = "growing" /\ answer = "failed"
       THEN vodTimer' = v /\ UNCHANGED <<broadcast, content>>
       ELSE ApplyVod(v, IF broadcast = "unknown" THEN "failed" ELSE answer)

(* The worker sends a recording's state unasked; another's is ignored. *)
VodPushed(v) ==
  /\ session = v /\ \E answer \in VodAnswers \ {"failed"} : ApplyVod(v, answer)
  /\ UNCHANGED <<url, pending, session, panel, loads, refreshes, poll, vodBusy, vodPolls>>

-----------------------------------------------------------------------------
(* What keeps an open channel up to date. *)

(* The 5 s tick finds that the page went live, or ended. *)
LiveChanges ==
  /\ session \in Channels /\ url = session /\ Room
  /\ refreshes' = refreshes \cup {session}
  /\ loads' = loads \cup {Load(session, "resync")}
  /\ UNCHANGED <<url, pending, session, broadcast, overlay, poll, growing>>

RefreshAnswers(c) ==
  /\ c \in refreshes /\ refreshes' = refreshes \ {c}
  /\ \/ UNCHANGED content
     \/ session = c /\ Replace(c)
  /\ UNCHANGED <<url, pending, session, broadcast, panel, loads, poll, growing>>

(* The worker sends the channel's chart unasked, or has it asked for. *)
Pushed ==
  /\ session \in Channels /\ Room
  /\ \/ Push(session) /\ UNCHANGED refreshes
        /\ loads' = IF url = session THEN loads \cup {Load(session, "resync")} ELSE loads
     \/ refreshes' = refreshes \cup {session} /\ UNCHANGED <<content, loads>>
  /\ UNCHANGED <<url, pending, session, broadcast, panel, poll, growing>>

-----------------------------------------------------------------------------
(* The script checks the page as soon as it runs. *)
Init ==
  /\ url \in Pages \cup {Nowhere} /\ pending = TRUE
  /\ session = Nowhere /\ broadcast = "unknown" /\ panel = Nowhere /\ content = Nowhere
  /\ loads = {} /\ refreshes = {} /\ poll = Nowhere
  /\ vodTimer = Nowhere /\ vodBusy = FALSE /\ vodPolls = [v \in Vods |-> 0]

LoadStep(l) ==
  SettingsRead(l) \/ ChannelAnswers(l) \/ Resync(l) \/ VodAnswered(l)

Next ==
  \/ \E page \in Pages \cup {Nowhere} : Navigate(page)
  \/ RouteSync
  \/ \E l \in loads : LoadStep(l)
  \/ VodTimerFires \/ \E v \in Vods : VodPollAnswers(v) \/ VodPushed(v)
  \/ LiveChanges \/ Pushed \/ \E c \in Channels : RefreshAnswers(c)

Stages == {"settings", "answer", "resync"}

(* Timers fire and what is awaited comes, or fails; nothing else must.     *)
Fairness ==
  /\ WF_vars(RouteSync) /\ WF_vars(VodTimerFires)
  /\ \A page \in Pages : WF_vars(\E l \in loads : l.page = page /\ LoadStep(l))
  /\ \A v \in Vods : WF_vars(VodPollAnswers(v))
  /\ \A c \in Channels : WF_vars(RefreshAnswers(c))

Spec == Init /\ [][Next]_vars /\ Fairness

-----------------------------------------------------------------------------
(* Each variable has its type. *)
TypeOK ==
  /\ url \in Pages \cup {Nowhere} /\ pending \in BOOLEAN
  /\ session \in Pages \cup {Nowhere} /\ broadcast \in {"unknown", "recorded", "growing"}
  /\ panel \in Pages \cup {Nowhere} /\ content \in Pages \cup {Nowhere}
  /\ loads \in SUBSET [page : Pages, stage : Stages, current : BOOLEAN]
  /\ refreshes \in SUBSET Channels
  /\ poll \in Channels \cup {Nowhere} /\ vodTimer \in Vods \cup {Nowhere}
  /\ vodBusy \in BOOLEAN /\ vodPolls \in [Vods -> 0..MaxWaiting]

(* Nothing is due: no route sync, and no activation that may still act.    *)
Quiet == ~ pending /\ ~ \E page \in Pages : Loading(page)

(* What the tab shows changes for the open page alone: a slow activation   *)
(* or a late chart of one channel never reaches the panel of the next.     *)
ShowsSession == [][
  /\ panel' # panel => panel' = session'
  /\ content' # content => content' \in {Nowhere, session'}
  ]_vars

(* When nothing is due, the live poll is for the channel of the URL, or    *)
(* stopped: whatever was abandoned, resumed late or answered meanwhile.    *)
PollFollowsRoute ==
  Quiet => poll = IF url \in Channels THEN url ELSE Nowhere

(* The open recording grows, with neither its timer nor a request that will*)
(* set it in flight.                                                       *)
Unpolled ==
  /\ session \in Vods /\ broadcast = "growing"
  /\ vodTimer # session /\ vodPolls[session] = 0

(* The one busy flag is another recording's: the timer is gone, and nothing*)
(* sets it again.  The code is known to lose the poll this way.            *)
BusyForAnother ==
  VodTimerFires /\ vodBusy /\ \E v \in Vods \ {session} : vodPolls[v] > 0

(* No other step ends the polling of a growing recording, however answers, *)
(* pushes, timers and navigation between recordings are mixed.             *)
GrowingVodPolled == [][Unpolled' => Unpolled \/ BusyForAnother]_vars

(* When nothing is due, the panel is the one of the page.                  *)
PanelFollowsRoute == Quiet => panel = session

(* The tab settles once navigation ends: a recording has its panel, and    *)
(* the load of it has ended; a channel has the live poll.  And a recording *)
(* that grows is asked about again and again, unless its timer was lost to *)
(* the request of another.                                                 *)
Settles ==
  /\ <>[][url' = url]_url =>
       <>[](/\ url \in Vods => panel = url /\ ~ Loading(url)
            /\ url \in Channels => poll = url)
  /\ <>[](broadcast = "growing" /\ ~ Unpolled) =>
       []<>(session \in Vods /\ vodPolls[session] > 0)
=============================================================================
