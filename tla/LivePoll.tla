------------------------------ MODULE LivePoll ------------------------------
(***************************************************************************)
(* The live poll of one Twitch tab: createLivePollController in            *)
(* src/content/livePoll.ts, with the three callers in src/content/entry.ts *)
(* that feed it preferences.  It asks the service worker for the chart of  *)
(* the open channel on a timer, for as long as the tab is visible and the  *)
(* page shows that channel live.                                           *)
(*                                                                         *)
(* JavaScript is single threaded: each handler is one step, and a step     *)
(* ends where the code awaits (the GET_PULSE answer), sets a timer or      *)
(* queues a microtask.  Between a microtask's queueing and its run only    *)
(* continuations of promises can run, never an event or a timer.           *)
(*                                                                         *)
(* Abstractions.  lifecycleGeneration only ever meets the copy the one     *)
(* request in flight took of it, so the pair is the boolean tickCurrent.   *)
(* Clock readings and delays are dropped: a timer may fire at any time.    *)
(* consecutiveFailures saturates at FailureCap, beyond which every delay   *)
(* is BACKOFF_MAX_MS.                                                      *)
(*                                                                         *)
(* A tab has this module and ChannelTab side by side, so what both would   *)
(* name alike says poll here.                                              *)
(***************************************************************************)
EXTENDS Naturals

CONSTANTS
  Logins,      \* the channels the tab can show
  NoLogin,     \* no channel: null in the code
  FailureCap   \* bound: consecutive failures counted

ASSUME NoLoginAssumption == NoLogin \notin Logins
ASSUME FailureCapAssumption == FailureCap \in Nat \ {0}

VARIABLES
  timer,         \* the pending setTimeout: its cadence, or "none"
  tickInFlight,  \* a GET_PULSE request is awaited
  tickLogin,     \* the channel it was sent for
  tickCurrent,   \* its requestGeneration = lifecycleGeneration
  followUp,      \* immediateFollowUp
  micro,         \* a queued microtask will call tick()
  autoUpdate,
  activeLogin,
  collecting,
  hosted,
  uncharted,
  phase,         \* snapshot.phase
  countdown,     \* snapshot.nextScheduledAt # null
  failures,      \* snapshot.consecutiveFailures
  resultsOf,     \* whose checks the snapshot's counters report
  stored,        \* the auto-update preference in chrome.storage.sync
  pendingConfig, \* the current livePollConfigGeneration's read under way
  hidden,        \* document.visibilityState = "hidden"
  pageLogin,     \* the channel in the address bar, NoLogin on any other page
  pageLive,      \* detectTwitchChannelLive
  toggledOn      \* history: the viewer turned auto-update on during this tick

controller == <<timer, tickInFlight, tickLogin, tickCurrent, followUp, micro,
                autoUpdate, activeLogin, collecting, hosted, uncharted,
                phase, countdown, failures, resultsOf, toggledOn>>
prefs == <<stored, pendingConfig>>
view  == <<hidden, pageLogin, pageLive>>
pollVars == <<controller, prefs, view>>

Counts == 0 .. FailureCap
Phases == {"paused", "idle", "scheduled", "refreshing", "retrying"}

RequestTypes ==
  /\ tickInFlight \in BOOLEAN
  /\ tickLogin \in Logins \cup {NoLogin}
  /\ tickInFlight => tickLogin # NoLogin
  /\ tickCurrent \in BOOLEAN
  /\ toggledOn \in BOOLEAN

SettingTypes ==
  /\ followUp \in BOOLEAN
  /\ micro \in BOOLEAN
  /\ autoUpdate \in BOOLEAN
  /\ activeLogin \in Logins \cup {NoLogin}
  /\ collecting \in BOOLEAN
  /\ hosted \in BOOLEAN
  /\ uncharted \in BOOLEAN

ViewTypes ==
  /\ timer \in {"none", "chart", "recheck"}
  /\ phase \in Phases
  /\ countdown \in BOOLEAN

ResultTypes ==
  /\ failures \in Counts
  /\ resultsOf \in Logins \cup {NoLogin}
  /\ failures > 0 => resultsOf # NoLogin

EnvTypes ==
  /\ stored \in BOOLEAN
  /\ pendingConfig \in {"none", "hydrate", "interval"}
  /\ hidden \in BOOLEAN
  /\ pageLogin \in Logins \cup {NoLogin}
  /\ pageLive \in BOOLEAN

(* Each variable has its type; a request names a channel, and failures are *)
(* counted for one: the count of a controller without results is zero.     *)
PollTypeOK == RequestTypes /\ SettingTypes /\ ViewTypes /\ ResultTypes /\ EnvTypes

-----------------------------------------------------------------------------
(* shouldRunLivePoll and canRun: read afresh at every decision. *)
CanRun ==
  /\ ~hidden
  /\ autoUpdate
  /\ activeLogin # NoLogin
  /\ pageLogin = activeLogin
  /\ pageLive
  /\ hosted \/ collecting

(* The delay scheduleNext picks: the chart cadence, or UNCHARTED_RECHECK_MS. *)
Cadence == IF uncharted THEN "recheck" ELSE "chart"

(* The fragments below read the values the handler has assigned so far, so *)
(* they are written over the primed preferences, login and counters.       *)

PublishInactive ==
  /\ phase' = IF autoUpdate' THEN "idle" ELSE "paused"
  /\ countdown' = FALSE

ScheduleNext ==
  \/ /\ CanRun'
     /\ timer' = Cadence'
     /\ phase' = IF failures' > 0 THEN "retrying" ELSE "scheduled"
     /\ countdown' = TRUE
  \/ /\ ~CanRun'
     /\ timer' = "none"
     /\ PublishInactive

(* The synchronous part of tick(), up to the await of the answer. *)
Tick ==
  \/ /\ tickInFlight
     /\ UNCHANGED <<tickInFlight, tickLogin, tickCurrent, phase, countdown, toggledOn>>
  \/ /\ ~tickInFlight
     /\ ~CanRun'
     /\ PublishInactive
     /\ UNCHANGED <<tickInFlight, tickLogin, tickCurrent, toggledOn>>
  \/ /\ ~tickInFlight
     /\ CanRun'
     /\ tickInFlight' = TRUE
     /\ tickLogin' = activeLogin'
     /\ tickCurrent' = TRUE
     /\ phase' = "refreshing"
     /\ countdown' = FALSE
     /\ toggledOn' = FALSE

NoTick == UNCHANGED <<tickInFlight, tickLogin, toggledOn>>

TimerFires ==
  /\ ~micro
  /\ timer # "none"
  /\ timer' = "none"
  /\ UNCHANGED <<followUp, micro, autoUpdate, activeLogin, collecting, hosted,
                 uncharted, failures, resultsOf, prefs, view>>
  /\ Tick

RunMicrotask ==
  /\ micro
  /\ micro' = FALSE
  /\ UNCHANGED <<timer, followUp, autoUpdate, activeLogin, collecting, hosted,
                 uncharted, failures, resultsOf, prefs, view>>
  /\ Tick

(* The count after an answer: computeLivePollDelayMs stops growing the     *)
(* delay at a cap, and an outdated answer counts for nothing.              *)
MutantLateFailureCounts(ok) ==
  IF ok THEN (IF tickCurrent THEN 0 ELSE failures)
  ELSE IF failures < FailureCap THEN failures + 1 ELSE failures

FailuresAfter(ok) ==
  IF ~tickCurrent THEN failures
  ELSE IF ok THEN 0
  ELSE IF failures < FailureCap THEN failures + 1 ELSE failures

(* The finally block of tick() after an answer of an older generation. *)
MutantOutdatedAnswerEnds == UNCHANGED <<timer, phase, countdown>>

AfterOutdatedAnswer ==
  IF CanRun /\ timer # "none"
    THEN UNCHANGED <<timer, phase, countdown>>
    ELSE IF CanRun THEN ScheduleNext
                   ELSE PublishInactive /\ UNCHANGED timer

(* What the finally block of tick() does next. *)
AfterAnswer ==
  \/ /\ followUp /\ CanRun
     /\ followUp' = FALSE
     /\ micro' = TRUE
     /\ UNCHANGED <<timer, phase, countdown>>
  \/ /\ ~(followUp /\ CanRun)
     /\ tickCurrent
     /\ followUp' = FALSE
     /\ micro' = micro
     /\ ScheduleNext
  \/ /\ ~(followUp /\ CanRun)
     /\ ~tickCurrent
     /\ UNCHANGED <<followUp, micro>>
     /\ AfterOutdatedAnswer

(* The answer of the worker, or its error, comes back to tick(). *)
Answer(ok) ==
  /\ ~micro
  /\ tickInFlight
  /\ tickInFlight' = FALSE
  /\ failures' = FailuresAfter(ok)
  /\ resultsOf' = IF tickCurrent THEN tickLogin ELSE resultsOf
  /\ UNCHANGED <<tickLogin, tickCurrent, toggledOn, autoUpdate, activeLogin,
                 collecting, hosted, uncharted, prefs, view>>
  /\ AfterAnswer

-----------------------------------------------------------------------------
(* A channel change opens a new generation. *)
MutantSameGeneration(login) == tickCurrent
StillCurrent(login) == tickCurrent /\ activeLogin = login

(* A pending timer survives sync() on the same channel at the same cadence. *)
MutantKeepsOldCadence(login, nextUncharted) == timer # "none" /\ activeLogin = login
KeepsTimer(login, nextUncharted) ==
  timer # "none" /\ activeLogin = login /\ nextUncharted = uncharted

(* sync(): called with the session's login after an activation, a live     *)
(* broadcast or a live-state flip; never performs a request itself.        *)
Sync(login, tracking, hostedNow, nextUncharted) ==
  LET reset == activeLogin \notin {login, NoLogin}
      kept  == KeepsTimer(login, nextUncharted)
  IN
  /\ tracking => ~nextUncharted
  /\ activeLogin' = login
  /\ collecting' = tracking
  /\ hosted' = hostedNow
  /\ uncharted' = nextUncharted
  /\ tickCurrent' = StillCurrent(login)
  /\ failures' = IF reset THEN 0 ELSE failures
  /\ resultsOf' = IF reset THEN NoLogin ELSE resultsOf
  /\ UNCHANGED <<followUp, micro, autoUpdate, prefs, view>>
  /\ NoTick
  /\ IF ~CanRun' THEN timer' = "none" /\ PublishInactive
     ELSE IF ~tickInFlight /\ ~kept THEN ScheduleNext
     ELSE /\ timer' = IF kept THEN timer ELSE "none"
          /\ UNCHANGED <<phase, countdown>>

(* stop(): a VOD page, a deactivation, or a lost extension context. *)
Stop ==
  /\ activeLogin' = NoLogin
  /\ collecting' = FALSE
  /\ uncharted' = FALSE
  /\ followUp' = FALSE
  /\ tickCurrent' = FALSE
  /\ timer' = "none"
  /\ failures' = 0
  /\ resultsOf' = NoLogin
  /\ UNCHANGED <<micro, autoUpdate, hosted, prefs, view>>
  /\ NoTick
  /\ PublishInactive

(* configure(): preferences without a viewer's toggle. *)
Configure(enabled) ==
  /\ autoUpdate' = enabled
  /\ followUp' = (followUp /\ enabled)
  /\ UNCHANGED <<tickCurrent, micro, activeLogin, collecting, hosted, uncharted,
                 failures, resultsOf, view>>
  /\ NoTick
  /\ IF ~enabled THEN timer' = "none" /\ PublishInactive
     ELSE IF tickInFlight THEN UNCHANGED <<timer, phase, countdown>>
     ELSE ScheduleNext

(* hydrateLivePollPreferences at start-up, and the re-read of the poll     *)
(* interval: the read's continuation, dropped by a newer change.           *)
ConfigRead ==
  /\ pendingConfig # "none"
  /\ pendingConfig' = "none"
  /\ stored' = stored
  /\ Configure(IF pendingConfig = "hydrate" THEN stored ELSE autoUpdate)

(* chrome.storage.onChanged with a new poll interval. *)
IntervalChanged ==
  /\ ~micro
  /\ pendingConfig' = "interval"
  /\ UNCHANGED <<stored, controller, view>>

(* chrome.storage.onChanged with the auto-update preference. *)
SetEnabled(enabled) ==
  /\ ~micro
  /\ stored' = enabled
  /\ pendingConfig' = "none"
  /\ autoUpdate' = enabled
  /\ UNCHANGED <<micro, activeLogin, collecting, hosted, uncharted,
                 failures, resultsOf, view>>
  /\ \/ /\ ~enabled
        /\ tickCurrent' = FALSE
        /\ followUp' = FALSE
        /\ timer' = "none"
        /\ PublishInactive
        /\ NoTick
     \/ /\ enabled /\ autoUpdate
        /\ UNCHANGED <<tickCurrent, followUp>>
        /\ NoTick
        /\ IF ~tickInFlight /\ timer = "none"
             THEN ScheduleNext
             ELSE UNCHANGED <<timer, phase, countdown>>
     \/ /\ enabled /\ ~autoUpdate /\ ~CanRun'
        /\ PublishInactive
        /\ UNCHANGED <<tickCurrent, followUp, timer>>
        /\ NoTick
     \/ /\ enabled /\ ~autoUpdate /\ CanRun'
        /\ timer' = "none"
        /\ IF tickInFlight
             THEN /\ followUp' = TRUE
                  /\ toggledOn' = TRUE
                  /\ UNCHANGED <<tickInFlight, tickLogin, tickCurrent, phase, countdown>>
             ELSE /\ followUp' = followUp
                  /\ Tick

-----------------------------------------------------------------------------
(* The page and the browser. *)

(* visibilitychange: the poll a hidden tab skipped runs when it shows again. *)
ShowTab ==
  /\ ~micro
  /\ hidden
  /\ hidden' = FALSE
  /\ UNCHANGED <<timer, followUp, micro, autoUpdate, activeLogin, collecting,
                 hosted, uncharted, failures, resultsOf, prefs, pageLogin, pageLive>>
  /\ IF timer # "none" \/ tickInFlight \/ ~CanRun'
       THEN UNCHANGED <<tickInFlight, tickLogin, tickCurrent, phase, countdown, toggledOn>>
       ELSE Tick

HideTab ==
  /\ ~micro
  /\ ~hidden
  /\ hidden' = TRUE
  /\ UNCHANGED <<controller, prefs, pageLogin, pageLive>>

(* The viewer navigates inside Twitch, or the channel goes live or offline. *)
PageChanges ==
  /\ ~micro
  /\ pageLogin' \in Logins \cup {NoLogin}
  /\ pageLive' \in BOOLEAN
  /\ pageLive' => pageLogin' # NoLogin
  /\ <<pageLogin, pageLive>>' # <<pageLogin, pageLive>>
  /\ UNCHANGED <<controller, prefs, hidden>>

-----------------------------------------------------------------------------
PollInit ==
  /\ timer = "none"
  /\ tickInFlight = FALSE
  /\ tickLogin = NoLogin
  /\ tickCurrent = FALSE
  /\ followUp = FALSE
  /\ micro = FALSE
  /\ autoUpdate = FALSE
  /\ activeLogin = NoLogin
  /\ collecting = FALSE
  /\ hosted = TRUE
  /\ uncharted = FALSE
  /\ phase = "paused"
  /\ countdown = FALSE
  /\ failures = 0
  /\ resultsOf = NoLogin
  /\ stored \in BOOLEAN
  /\ pendingConfig = "hydrate"
  /\ hidden \in BOOLEAN
  /\ pageLogin \in Logins \cup {NoLogin}
  /\ pageLive \in BOOLEAN
  /\ pageLive => pageLogin # NoLogin
  /\ toggledOn = FALSE

PollNext ==
  \/ TimerFires
  \/ RunMicrotask
  \/ \E ok \in BOOLEAN : Answer(ok)
  \/ \E login \in Logins, tracking, hostedNow, nextUncharted \in BOOLEAN :
        Sync(login, tracking, hostedNow, nextUncharted)
  \/ Stop
  \/ ConfigRead
  \/ IntervalChanged
  \/ \E enabled \in BOOLEAN : SetEnabled(enabled)
  \/ ShowTab
  \/ HideTab
  \/ PageChanges

PollSpec == PollInit /\ [][PollNext]_pollVars

-----------------------------------------------------------------------------
(* Properties *)

(* An answer is only ever counted for the channel it was asked about: no   *)
(* order of navigation, stop and late answer makes the snapshot report one *)
(* channel's failures or success on another (livePoll.ts, tick and sync).  *)
ResultsOfOpenChannel ==
  resultsOf \in {NoLogin, activeLogin}

(* A pending timer always has a reason: the poll is on, a channel is open, *)
(* and the timer runs at the cadence that channel's charting calls for.    *)
(* No stop, disable or roster change leaves an old timer behind.           *)
TimerHasReason ==
  timer # "none" => autoUpdate /\ activeLogin # NoLogin /\ timer = Cadence

(* What the panel shows is real: a countdown has a timer behind it and the *)
(* refreshing state has a request in flight (or one about to start).       *)
SnapshotIsHonest ==
  /\ countdown => timer # "none"
  /\ phase \in {"scheduled", "retrying"} => timer # "none"
  /\ phase = "refreshing" => tickInFlight \/ micro

(* Neither the viewer nor the backend is misled: no timer outlives what it *)
(* was set for, and what the panel shows has a timer or a request behind.  *)
TimerAndSnapshotAgree == TimerHasReason /\ SnapshotIsHonest

Alive == timer # "none" \/ tickInFlight \/ micro

(* Once polling, the controller never drops the poll while it may run: a   *)
(* step that ends with neither a timer nor a request ends where canRun is  *)
(* false.                                                                  *)
NeverDropsThePoll == [][Alive /\ CanRun' => Alive']_pollVars

(* The viewer's toggle is what asks for a request on the spot: an answer   *)
(* is followed at once by another request only if auto-update was turned   *)
(* on while it was awaited (livePoll.ts:80 "The only operation allowed to  *)
(* give false -> true immediate-fetch semantics").                         *)
FollowUpOnlyForToggle == [][micro' /\ ~micro => toggledOn]_pollVars

(* Once no preference read is under way, the poll follows the stored       *)
(* preference (livePoll.ts:115 "Start disabled until entry.ts hydrates the *)
(* stored preference").                                                    *)
PollFollowsPreference == pendingConfig = "none" => autoUpdate = stored
=============================================================================
