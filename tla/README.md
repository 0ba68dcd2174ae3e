# Streamclone Pulse: TLA+ models, model checking and proofs

Streamclone Pulse is a browser extension (Manifest V3) that lays a live chart of chat
activity over Twitch pages, with a web portal beside it. This directory holds TLA+ models
of the parts of it that are hard to test, the TLC configurations that check them on small
instances, and TLAPS proofs of the properties that matter most.

Paths are relative to the repository root (`src/content/...` is the extension's content
script; `PROJECT.json` prefixes them with the checkout's directory). To check a module:
`tlc -config MCLivePoll.cfg MCLivePoll.tla`; to check its proofs: `tlapm TabProofs.tla`.

1. [Inventory](#1-inventory)  2. [Plan](#2-plan)  3. [Modules](#3-modules)
4. [Runs](#4-runs)  5. [Proofs](#5-proofs)  6. [Where code and comments differ](#6-where-code-and-comments-differ)
7. [What is not modelled](#7-what-is-not-modelled)

## 1. Inventory

### Processes and how they interact

* A **content script** runs in every Twitch tab. It follows the address bar of a single
  page application, mounts the panel, and polls the worker. It is single threaded: an event
  handler runs until its first await, and its state may have changed after it.
* One **service worker** answers content scripts, popup and options page by message. It
  caches charts in session storage, talks to the backend, and owns the viewer's accounts.
  The browser may stop it between any two events: module variables are lost, storage stays.
* **Storage**: `chrome.storage.local`, `.sync` and `.session`, and IndexedDB. All are shared
  by every context. A read and a write of `chrome.storage` are separate awaits, so handlers
  interleave at each; an IndexedDB transaction is one step.
* The **backend** (charts, device, protections, history, account, payments) is not in the
  repository. It is modelled from what the code sends and the answers it distinguishes.

### Components

Each entry: what it keeps; what it does and with whom; what is hard; what makes it correct.
"[M]" is modelled, "[p]" planned, "[-]" not to be modelled (section 7).

| Component | State | Operations and partners | Hard | Correct when |
|---|---|---|---|---|
| [M] **LivePoll** `content/livePoll.ts`, preferences in `content/entry.ts` | timer, request in flight, owed follow-up, lifecycle generation, snapshot | tick, sync, stop, configure, setEnabled, visibility; sends GET_PULSE | hand-over between a timer, a late answer, a toggle, a navigation and a hidden tab | never dropped while it may run; never reports another channel; countdown and spinner are real |
| [M] **PulseGet** `background/service-worker.ts` (handleGetPulse, refreshPulse, prefetch), `pulseGetCoordinator.ts`, `pulsePrefetch.ts`, `pulseRevalidateGate.ts` | two single-flight maps, the prefetch, per-key gap and cooldown, callers waiting | answers GET_PULSE from the cache or the backend; broadcasts updates | awaits between every read and write; shared fetches; generic and per-stream keys; worker restart | answers are of the stream asked for; every caller is answered; no request storm |
| [M, partly] **SessionPulseCache** `shared/storage.ts` | entries in session storage, the keepLocalCache setting | get with purge, set, clear, switch off | a write that overlaps a clear | a cache that is off stays empty |
| [M] **HistorySync** `background/historySync.ts`, handlers of `background/myMoments.ts` | the account's record (history, queue, cursor, epoch, revision), the run, the command under way | capture, switch, clear, refresh, push and merge with the account | replies that cross captures, clears, switches, restarts, and other browsers' acts | no jump lost or missed; what was cleared stays cleared |
| [M, partly] **SupporterAccount** `background/supporterAccount.ts` | the private credential record, the installation key, a queue, a generation | status, link, renew, enrol, cancel, sign out, adopt, requests under the token | outdated calls behind requests, lost answers, rotating tokens that must not be replayed, worker death | no live credential left behind, none replayed, none dropped; the queue drains |
| [M, partly; p] **TwitchSignIn** `background/twitchSignIn.ts` | active flag; the markers of the silent attempt | window, exchange, adopt, step-up, sign out everywhere | a worker stopped inside the one silent attempt; markers read before an await | silent sign-in at most once and never after a sign-out |
| [M] **AnalyticsConsent** `shared/analyticsConsent.ts`, `background/emitProductAnalyticsEvent.ts`, Firefox's permission | in-memory denial, generation, queue of changes, session tickets, stored record, events under way | issue ticket, grant, withdraw, emit; settings page, the browser's permission | a withdrawal during a grant's awaits; restart between memory and storage; failing storage | nothing is sent after a withdrawal; nothing asked for before it grants after it; a ticket is spent once |
| [-] **Diagnostics** the reports beside it | as AnalyticsConsent, without tickets | switched off in the code | | |
| [M] **ChannelTab** `content/entry.ts`, `activationGate.ts`, `routeSyncScheduler.ts` | activation generation, active session, route debounce, growing-VOD poll | activate, deactivate, follow the route, refreshes, broadcasts; calls LivePoll's sync and stop | navigation inside debounce, awaits that outlive the page | the panel and the polls belong to the page shown, and come up |
| [M] **ProtectSync** watchlist handlers of the worker, `alwaysTrackedSync.ts`, `shared/watchlist.ts` | watchlist, tombstones, stored Protect state, one suppress flag | add, remove, sync, revoke device, storage listener | unserialized read-await-write handlers; partial failures | nothing is removed that the user did not drop; the backend gets to the list |
| [M, partly] **SupporterPayFirst** `background/supporterPayFirst.ts` | one stored journey, its queue, late polls | checkout barrier, poll, restore, reconcile identity | a worker stopped around a charge; two queues that call each other | a payment that may go through is remembered; no second one is begun |
| [M, partly] **MyMoments** `background/myMoments.ts`, `myMomentsStore.ts` | a record of saves, notes, history and replay links per scope; one queue | list, save, note, import, record, forget; the panel and replay look-ups beside the queue | the scope changes during a request; imports with lost answers; a copy written back after it was forgotten | one account's data never reaches another's, and no save is lost on its way |
| [p] **ChatBadges** `background/chatBadge*.ts`, `content/chatBadges.ts` | signed list, sequence floor, own entry, registered scripts | refresh, opt in and out, lookups | a list older than the viewer's own switch; replayed lists | the floor only rises; a withdrawn badge does not come back |
| [p] **MomentPictures** `background/momentPictures.ts` and its stores | one-time picture requests per tab | ask, grab, answer | two requests of one tab | a request is answered once |
| [M, in ProtectSync] **DeviceAuth** `background/deviceAuth.ts`, `api.ts` | one stored credential | read, mint, revoke | revoke against mint | what one principal was refused or confirmed keeps nothing from the next |
| [-] **SmallCaches** watchCoordinator, tracking, hubSnapshot, extensionHealthCache | single-flight maps with a lifetime | | overlap of two loads | as PulseGet's maps |
| [-] **MessageRouter** `service-worker.ts`, `shared/messages.ts`, `parseBackgroundRequest.ts` | none | parse, dispatch | | a table |
| [-] **PageScripts**, **TwitchDom**, **PanelUi** | Twitch's page, the panel's DOM | injection, placement, rendering | a page the repository does not define | by browser tests |
| [-] **PayloadAlgorithms** | none | merge and normalise charts, floating-point scores | | by unit tests |
| [p, last] **WebPortal** `streampulse-web/src` | a React site; hub reader with retry, poll and saved copy | | forced read against the one in flight | the newest answer wins |
| [-] **SharedPackages**, **BuildAndRelease** | none at run time | | | |

`PROJECT.json` lists the hazards found in these at their lines, with the properties that cover
them. Its list is cut to the foremost; the code is also exposed to these:

* *Covered by a model whose property no longer has a place among the runs, or broken by the
  code (section 6):* a follow-up owed to an outdated request (`content/livePoll.ts:236`); a
  refresh answered by the entry cached before the backfill (`service-worker.ts:355`); adopt's
  await between its check and its write (`supporterAccount.ts:297`); the account forgotten
  only after the answer of revoke-all (`:258`); the pair written before its key is marked
  (`:201`); the two steps of clearing an account and this device (`myMoments.ts:599`); the one
  flag that mutes the watchlist's listener (`service-worker.ts:169`, proved:
  `FlagFollowsEdits`).
* *In modelled components, covered by the properties listed for their neighbours:* the
  same-channel fast path keeping a generation (`content/entry.ts:332`); a generation read
  before getBackendUrl (`:583`); a restarted stream's broadcasts and refreshes (`:559`); the
  writes of a plan failing one by one (`service-worker.ts:162`); the tickets across
  withdrawals and restarts (`shared/analyticsConsent.ts:176`); the shared nextPoll of
  polling, late polling and Retry-After (`supporterPayFirst.ts:349`); the payment queue that
  waits for the account queue and is called by what holds it (`:66`); a scope checked before
  the request and used after it (`myMoments.ts:564`); the account's copy written back behind
  a sign-out (`:435`); two edits that read and write the list whole (`shared/watchlist.ts:21`).
* *Not covered:* the max-wait timer that alone bounds a debounce being reset
  (`routeSyncScheduler.ts:89`); the silent attempt spent before its first request
  (`twitchSignIn.ts:487`) and markers written from a copy read before an await (`:479`);
  a downloaded list older than the viewer's own switch (`chatBadgeList.ts:289`), the sequence
  floor (`:374`), a change during a pass (`chatBadgeRuntime.ts:35`); two picture requests of
  one tab (`momentPictures.ts:69`); overlapping health checks (`extensionHealthCache.ts:45`);
  a backend changed under a shared load (`hubSnapshot.ts:50`); a forced read against the one
  in flight (`hooks/usePublicHubData.ts:329`).

## 2. Plan

Order: what the viewer's data and account depend on first, then the page, then the rest.

Done, in this order:

1. **LivePoll**, **HistorySync**, **PulseGet**, **SupporterAccount**, with runs and proofs.
2. **AnalyticsConsent**, and **Consent**, the abstract specification of what it promises; the
   refinement is checked and proved.
3. **ChannelTab**, over LivePoll's `Sync` and `Stop` as the calls it makes.
4. **ProtectSync** with DeviceAuth's credential.
5. **SupporterPayFirst** over an account that is signed in, changing or signed out, with the
   promise of SupporterAccount's queue that it relies on stated as a guard.
6. **MyMoments**: the scopes of saves, notes and history, beside HistorySync's view of one
   account.

Left, in this order:

1. An abstract **Account** that SupporterAccount is shown to implement and SupporterPayFirst
   and MyMoments are composed with; the markers of **TwitchSignIn**.
2. **ChatBadges**: the list, its floor and the viewer's own entry. **MomentPictures**. The
   portal's hub reader.

The number of runs is kept at a dozen, so that the whole project checks in some minutes: a
new component's passing run takes the place of the weakest run there is. The runs that
showed a disagreement gave way first; the definitions are still in the modules, and section 6
says how to see each.

Bounds follow one rule: the fewest actors that can race (two requests, two devices, two
channels or moments), counters that saturate rather than stop the system, and per-run sets
of calls and events (`Calls`, `Events`, `Asks`, `Mixes`) that select which actors a run mixes.
Proofs are by inductive invariants whose parts are named, with one lemma per action; every
part that strengthens an invariant was checked by TLC before it was proved. Every safety
invariant and action property of a run is proved.

## 3. Modules

| Module | Stands for |
|---|---|
| `LivePoll`, `MCLivePoll`, `TabProofs` | the live poll of one tab |
| `HistorySync`, `MCHistorySync`, `HistorySyncProofs` | one browser's synced history against the account |
| `PulseGet`, `MCPulseGet`, `PulseGetProofs` | GET_PULSE for one channel, cache included |
| `SupporterAccount`, `MCSupporterAccount`, `SupporterAccountProofs` | the account credential of one browser, sign-in included |
| `Consent` | what the viewer is promised of usage events |
| `AnalyticsConsent`, `MCAnalyticsConsent`, `AnalyticsConsentProofs` | the worker's consent to them, and the events sent under it |
| `ChannelTab`, `MCChannelTab`, `TabProofs` | the content script of one tab |
| `ProtectSync`, `MCProtectSync`, `ProtectSyncProofs` | the watchlist and what the backend protects |
| `SupporterPayFirst`, `MCSupporterPayFirst`, `SupporterPayFirstProofs` | the payment journey |
| `MyMoments`, `MCMyMoments`, `MyMomentsProofs` | saves, notes and history of each account on one browser |

### LivePoll

One tab. The controller's closure variables are variables of the module under their own
names (`timer`, `tickInFlight`, `followUp` for immediateFollowUp, `activeLogin`,
`collecting`, `hosted`, `uncharted`) with the parts of the snapshot a viewer sees (`phase`,
`countdown`, `failures`, `resultsOf`). `tickCurrent` stands for the comparison of
lifecycleGeneration with the copy the request took.

| Action | Code |
|---|---|
| `TimerFires`, `RunMicrotask` | the timer's callback, the queueMicrotask: `tick()` up to its await |
| `Answer(ok)` | the rest of `tick()`: counters, then its finally block |
| `Sync`, `Stop`, `Configure` | `sync()`, `stop()`, `configure()` |
| `ConfigRead`, `IntervalChanged`, `SetEnabled` | `hydrateLivePollPreferences`, the storage listener of `entry.ts`, `setEnabled()` |
| `ShowTab`, `HideTab`, `PageChanges` | visibilitychange; the page under the tab |

Clocks are dropped: a timer may fire at any time. `Sync` may be called with any login at any
time, more than `entry.ts` does; the properties hold all the same. A microtask runs before
any event (`~micro` guards events), as in JavaScript.

### HistorySync

`device` is the IndexedDB record of the account's scope; `worker` is what the service worker
holds in memory (the sync run, the open command of the page, a settings read); `server` is
the account. `epoch` and `revision` only ever meet the copies taken of them, so each pair is
a boolean: `watchSame`, `sameEpoch`, `sameRevision`; a settings read whose revision is over
ends there, for all it could still do is start a sync.

| Action | Code |
|---|---|
| `CaptureStatus`, `CaptureRecord`, `CaptureAbandoned` | history-capture-status, recordWatched, a page that leaves |
| `SetCapture`, `SwitchAsk`, `ServerSwitch`, `SwitchApply` | setHistoryCapture, setHistorySync: settings read, change, the record |
| `ClearHere`, `ClearAsk`, `ServerClear`, `ClearApply`, `CommandFails` | clear-history: on this device, or on the account first |
| `RefreshSync`, `RefreshAsk`, `RefreshApply` | refreshHistorySync |
| `NotEnabled`, `Send`, `ServerSync`, `ApplyReply`, `ApplyOff`, `RunStops` | runSync: read, push, applySyncReply |
| `Restart` | the worker stopped by the browser |
| `ElsewhereJump`, `ElsewhereClear`, `ElsewhereSwitch` | other browsers and the website, by their effect on the account |

A moment is its sync key and its history the time of its last jump. Retention, expiry and
the cap of 1000 entries are left out. `clearedHere` and `wiped` are history variables.

### PulseGet

One channel, any number of broadcasts. `cache` is session storage under the two windows
(recent, full) and the generic or a stream's key; `jobs` are `syncInFlight`,
`revalidateInFlight` and the prefetch, each with the await it stands at (`stage`);
`requests` are calls of handleGetPulse with theirs; `pace` is what is left of a key's gap
and cooldown; `sent` holds the messages of the last step.

| Action | Code |
|---|---|
| `AskPulse`, `Read`, `Purge`, `Join`, `Reply` | handleGetPulse: wait for a prefetch, getCached, the plan, the coverage read, the answer and its soft revalidation |
| `Look`, `JobPurge`, `NetAnswers`, `Write`, `SyncReply` | the task: cache again, fetch, the setting, the write, what callers get |
| `Fallback`, `GiveUp` | a failed full request answered from its stream's recent window |
| `StartWarm` | the prefetch on navigation |
| `TurnOn`, `ClearCache`, `ListKeys`, `RemoveKeys`, `Evict` | setKeepLocalCache, clearSessionPulseCache, the quota recovery |
| `Tick`, `Restart` | time in units of the revalidation gap; the worker stopped |

A payload is the stream it is of. `allowWatch` is left out: no caller in the extension sets
it. The coverage tier is left out of answers; its read is the `cover` wait.

### SupporterAccount

`server` holds the devices the account server made for this browser: how each came about,
how often its tokens were rotated, and whether it is live. `stored` and `key` are the private
record and the installation key; `call` and `waiting` are the coordinator's queue, each call
with the boolean `stale` for its generation; `window` and `leaving` are TwitchSignIn's window
and sign out everywhere, between their own awaits and the calls they make. `doubtful`
records the devices about which a lost answer or a stopped worker left the browser ignorant.

| Action | Code |
|---|---|
| `StartOutdated` … `StartEmpty` | `perform()` up to its first request, by what the record holds |
| `StartForget`, `StartAdopt` | `forgetSignedOutEverywhere`, `adopt` |
| `Continue` | what the caller of `perform('status')` does with its result: `withCredential`, `ensureInstallation` |
| `Discard` | discardCredential where ensureInstallation calls it itself |
| `Refresh…`, `Revoke…`, `Resend…`, `DisposeEnds`, `SettleEnds`, `Link…`, `Poll…`, `Enroll…`, `RequestEnds` | the continuation of each request, by its answer |
| `CallOp`, `CallForget` | the operations joining the queue; a sign-out or a cancel outdates those before it |
| `OpenWindow`, `WindowEnds`, `RevokedElsewhere`, `Die` | the sign-in window, other devices, the worker's death |

The server's rules are those the code relies on: a refresh token is rotated by use, a replay
of a rotated one revokes the device, except that a durable pair gets its successor again.
What a status read returns goes back into the code that asked for it, its generation over or
not: a purchase or a restore outdated meanwhile, whose read revoked what was stored, goes on to
mark a key and enrol, as `ensureInstallation` does, for it compares no generation before
that. The steps by which the code is known to lose a credential are defined as `EnrolsOver`,
`AdoptsOver`, `ForgetsLink` and `RevokesNothing` (section 6); `LeftOnlyAsKnown` and
`DurableKept` hold every other step, and name these as exceptions.

Clocks are a choice of the step that reads them. An enrolment or approval whose answer is
lost leaves no trace: this browser never learns of the device.

### Consent and AnalyticsConsent

`Consent` is the promise in three variables: consent is granted, denied, or *doubted* (denied
in this worker, not yet in storage); a grant was asked for since the last withdrawal; the
events being sent. A withdrawal ends consent, the events and the grants asked for at once;
only a restart while doubted, or a grant asked for since, brings it back.

`AnalyticsConsent` is the code: `memory` is memoryDenial, `granted` the stored record,
`tickets` the session's; `change` and `waiting` are the promise chain, each task with the
boolean `stale` for its generation; `events` are emissions at the await they stand at;
`platform` and `removed` are Firefox's permission and its notice. `dead` are the tickets
that may never grant again, for the property alone.

| Action | Code |
|---|---|
| `Prepare`, `AskGrant`, `AskWithdrawal`, `ToldOfRemoval` | the messages and the permission's listener: in-memory denial first, then the chain |
| `StartIssue`, `FinishIssue` | issueAnalyticsConsentGrantTicket |
| `StartWithdrawal`, `ClearTickets`, `EraseRecord` | the withdrawal, storage failing at either step |
| `StartGrant`, `SpendTicket`, `AskPlatform`, `RefuseGrant`, `StoreGrant`, `LandsUnheard` | the grant, with the generation compared after every await; a write whose answer is lost |
| `EmitStep` | emitProductAnalyticsEvent: consent read, Firefox and the backend asked, the record read again, the request |
| `Stop` | the worker stopped: memory and events are lost |

A settings page is an environment that may send any ticket it was given, in any order and
more than once.

### ChannelTab

`url` is the address bar, `pending` the debounce; `loads` are the awaits of activations and
of poll syncs, each with `current` for its generation; `panel` and `content` are the page
the panel and the chart are of; `poll` is the login LivePoll was last given; `vodTimer`,
`vodBusy` and `vodPolls` are the growing recording's poll: the timer, the one flag all
recordings share, and the requests in flight for each.

| Action | Code |
|---|---|
| `Navigate`, `RouteSync` | scheduleRouteSync; syncFromLocation with deactivate, and the two branches of activateChannel and activateVod (the page open already, or a new one) |
| `SettingsRead`, `ChannelAnswers`, `VodAnswered`, `Resync` | the continuations of activateChannel and activateVod, in `LoadStep` |
| `VodTimerFires`, `VodPollAnswers`, `VodPushed` | pollGrowingVod and its finally block, onVodPulseUpdate |
| `LiveChanges`, `RefreshAnswers`, `Pushed` | the roster interval, refreshChannelPulse, onPulseUpdate |

A poll of a recording may begin while those in flight are fewer than the bound. A push about a
recording that is not open is left out: the code drops it.

Left out: an extension context that was invalidated, a second install that yields, the
automatic tracking of a local stack, and a rejection of getBackendUrl.

### ProtectSync

`watchlist` is the list in synced storage, `stored` the Protect state (tombstones, refusals,
the principal), `server` what the backend protects for the present credential. Each handler
has its `work`: the copy of the state it read, what it is to send, and the await it stands
at. `dropped` is a history variable: channels that ever left the list.

| Action | Code |
|---|---|
| `StartEdit`, `ReadAgain`, `WriteList` | ADD_WATCHLIST and REMOVE_WATCHLIST: the worker's read of the list, the read addToWatchlist or removeFromWatchlist makes of its own, the write |
| `ToldOfChange`, `EditElsewhere` | the storage listener; another browser's edit |
| `StartSync`, `ListArrives`, `ReadState`, `Planned` | syncWatchlistToBackend, syncWatchlistChange: read, list, plan |
| `AddAnswered`, `RemoveAnswered`, `StoreState` | executeProtectWrite per channel, the state written back whole |
| `Enroll`, `Revoke`, `Stop`, `Reachable` | a new principal, REVOKE_DEVICE, the worker, the backend |

A write to the backend is sent and answered in one step. `up` means that the backend carries out
what it is sent or refuses it, and a refusal is the cap or a rejected credential; every other
outcome (no answer, a timeout, 429, a 5xx, the plain failure of `alwaysTrackedSync.ts:20`) is
that of a backend that is not well, which may have carried the write out or not, and it keeps
the channel due (`shouldRetryProtectAdd`, `service-worker.ts:269`); the worker hears of a change
before the list changes again (a bound); each enrolment starts with an empty list. Labels and
counters of the settings page are left out.

### SupporterPayFirst

`stored` is the journey: the payment of one account (`billing`) and the marks of unresolved
ones. `op` is the operation at the head of the coordinator's queue with the copy it will
write back, `rec` a reconcileIdentity under way, called from the account queue. `server` has
each account's last attempt to pay (open, paid, active, gone), `member` its membership.

| Action | Code |
|---|---|
| `Begin`, `Reconciles`, `ReadsValue` | perform(): status, purchase, check, resume, up to the first request |
| `Decides` | what a purchase or a check does, by what the journey holds |
| `Enrolls`, `WritesBarrier`, `Posts`, `Answered`, `OpensPage` | ensureInstallation; the barrier written before the POST; checkout, its answer or its loss; the tab |
| `ReadsExisting`, `PollsAgain`, `PollFails`, `PollAnswered`, `ReadsMembership`, `Resolves` | recovery and polling, to a terminal answer |
| `SignOut`, `SignIn`, `Restore`, `ReconcileWrites` | identity changes; the journey rewritten beside the queue |
| `Backend`, `Tick`, `Stop` | the user pays, the server settles or expires; a lifetime of a payment page passes; the worker is stopped |

An identity change holds the account queue until reconcileIdentity is done, so an operation's
requests wait for it; one it overtook is outdated by the queue's generation. A sign-in takes
longer than the storage steps an operation makes between two requests (`BetweenRequests`). A
request and its answer are one step, and so are the two writes behind an answer. Time counts
lifetimes of a payment page (24 h), passing only between operations; poll spacing and
Retry-After are a choice of the step. Left out: restore by email, the portal, devices,
connect, and reviews: the code also resolves a payment whose attempt (`supporterPayFirst.ts:356`)
or whose membership (`:364`) is under review, and buys nothing under one (`:227`, `:250`), which
leaves it to the backend not to let such a payment go through.

### MyMoments

`kept` has this browser's IndexedDB record of each scope: the `|local` one and one per
account; `aside` are the replay links found for hosted saves. `hosted` are the accounts'
bookmarks on the server. `queue` and `op` are the promise chain of handleMyMoments, with
what the request at work carries between its awaits; `late` are the replay look-ups that
outlast it; `capture` is the jump a Twitch tab is timing. A note is its moment and the scope
it was written in, so that the device's and the account's note on one moment are two; `aside`
also stands for the notes of bookmarks that are gone. `wanted`, `noted`, `forgotten` and a
jump's `void` and `twin` are history variables; `mix` bounds what one behaviour asks for.

| Action | Code |
|---|---|
| `Ask`, `Serve`, `Forget` | the queue; the scope a request names compared with the current one; forgetAccountScope in its turn |
| `AskRecord`, `TabLeaves`, `Status`, `Record` | MOMENT_CAPTURE: the epoch given to a jump, recordWatched |
| `Clear`, `ClearDevice`, `Switch`, `LearnSync`, `ImportHistory` | clear-history (an account's, then the browser's own), preferences, refreshHistorySync, importDeviceHistory |
| `Save`, `SavePosted`, `Unsave`, `UnsaveDeleted`, `UnsaveApplied`, `UnsaveDevice`, `Edit` | the commands of a page, between their awaits |
| `ImportListed`, `ImportPosted`, `ImportNoted`, `ImportDropped`, `ImportBackup` | importDeviceSaves one save at a time, its note joined only where the account has none; importBackup |
| `Load`, `LinkReplays` | load; linkReplays whenever the archive answers |
| `PanelSaves`, `PanelRemoves` | handleDeviceBookmarks, removePanelBookmark, outside the queue |
| `SignIn`, `SignOut`, `Rejected`, `Stop`, `SavedElsewhere`, `RemovedElsewhere` | accounts, a rejected credential (which keeps the copy), the worker, other devices |

A request to the account holds the account queue: it and its answer are one step, no sign-in
completes between two requests of one operation, and no sign-out between an answer and the
writes right behind it. A read of who is signed in and the transaction behind it are one step,
for a sign-out needs a request of its own. Two epochs moved by two requests differ, for the
queue and what they await lie between them; those of the two scopes one clear moves
(`ClearDevice`, right behind `Clear`) may be the same millisecond or not, and a jump timed while
two scopes share an epoch is a `twin`. Left out: a held account (one whose token cannot be
renewed), the removal and undo of single visits, undone notes, the first-sign-in question, the
flush before an account switch, replay deltas, pictures, retention. The account's side of
history is HistorySync's.

## 4. Runs

| Run | Configuration | Scope | Properties |
|---|---|---|---|
| `live_poll` | `MCLivePoll.cfg`: 2 channels, symmetric | all orders of timers, answers, toggles, navigation | `ResultsOfOpenChannel`, `TimerAndSnapshotAgree`, `NeverDropsThePoll` |
| `history_sync` | `MCHistorySync.cfg`: 2 moments, times and serials up to 3 | every act of the account's other clients, loss, restart | `NothingLeftUnsent`, `NothingMissed`, `ClearedStaysCleared`, `ClearVoidsCaptures`, `JumpsLeaveByClearing` |
| `pulse_get` | `MCPulseGet.cfg`: 2 requests of one channel, with and without a stream id | 520 000 states | `RightStream`, `RevalidationsSpaced` |
| `pulse_get_settings` | `PulseGetSettings.cfg`: get and retry, navigation, setting, clear, eviction | the setting switched at every await | `OffStaysEmpty` |
| `pulse_get_answers` | `PulseGetAnswers.cfg`: full-window requests, refreshes, prefetch | 34 000 states, fair | `EveryRequestEnds` |
| `account_sign_in` | `MCSupporterAccount.cfg`: 2 devices, 1 rotation, 2 calls waiting; link, restore, sign-in, sign-out here and everywhere; lost answers, a busy server, remote revocation, death | 1.87 million states | `NeverReplayed`, `DurableKept`, `LeftOnlyAsKnown` |
| `account_everywhere` | `AccountEverywhere.cfg`: enrolments, restores, requests, sign-ins, cancels, sign-out here and everywhere, over 2 devices; busy server, garbled bodies | 380 000 states, fair | `OutdatedStoresNothing`, `QueueDrains` |
| `analytics_consent` | `MCAnalyticsConsent.cfg`: 1 event, 3 tickets issued, 2 kept, 2 changes waiting | withdrawals at every await, failing storage, restarts | `SentUnderConsent`, `DeadTicketsGrantNothing`, `ConsentKept` (the refinement of `Consent`) |
| `channel_tab` | `MCChannelTab.cfg`: 2 channels, 2 recordings, 2 answers awaited | any navigation, 560 000 states, fair | `PollFollowsRoute`, `GrowingVodPolled`, `ShowsSession`, `Settles` |
| `protect_sync` | `MCProtectSync.cfg`: 1 channel, 2 handlers, 1 enrolment, 1 stop | 1.2 million states, fair | `Converges` |
| `pay_first` | `MCSupporterPayFirst.cfg`: 2 accounts, 2 attempts, 1 lifetime, symmetric | lost answers, identity changes and a stopped worker at every await | `PaymentsRemembered`, `OnePayment` |
| `my_moments` | `MCMyMoments.cfg`: 2 accounts and 2 moments in seven mixes, 1 request waiting, 2 epochs | 1.2 million states | `SavesKept`, `NotesKept`, `RecordedWhereTimed`, `ForgottenStaysForgotten` |

Every module's `TypeOK` (LivePoll's is `PollTypeOK`) is checked in one run. Each property has a
mutant: a change of one definition, such as a plausible bug would make, that TLC must find.

**Why the bounds are enough.** *LivePoll*: the only numbers are consecutive failures, which
saturate at the cap; there is one request and one timer, and a third channel could only
repeat the part of the second. *HistorySync*: three times allow a jump, a clear after it and
a jump after that; three serials a copy, its replacement and a change to it; a batch of one
makes a queue of two take two rounds. The clocks stop at their bound, and the steps that need
none go on. *PulseGet*: two requests suffice to share a fetch or to meet at a key; the gap,
the cooldown and the lifetime of one tick each make every combination of fresh, stale,
expired, paced and cooling reachable; the proofs remove these bounds. *SupporterAccount*: the
queue runs one call at a time, so a race is between the call in flight, the two behind it
and what happens around them; two devices are the one held and the one that arrives. One
rotation makes every token fresh, current or replayed. The proofs remove these bounds and
the choice of calls and events, for every safety property.
*AnalyticsConsent*: three tickets make one that is spent, one that is pushed out of the list
and one issued since; of the changes, one is at work, and two behind it can be a grant and
the withdrawal that outdates it. *ChannelTab*: two channels to go between, two answers late at
once, and two recordings, so that the flag one leaves set meets the timer of the other; the
proofs remove these bounds.
*ProtectSync*: handlers overwrite one another by pairs, and what is decided is decided for
each channel alone; the proofs of this module are for any number of both. A second enrolment
is out of reach of the liveness run; the first comes after a time without a credential, which
is a change of principal too. *SupporterPayFirst*: an account to
pay with and one to pay with by mistake; three attempts and two lifetimes were also run once,
without an error; the proofs remove the bounds. *MyMoments*: the request at work, one
behind it and a forgetting; two accounts where one must not get what the other has, two
moments where an import stops half-way, and each mix holds the requests that write what one
property reads; the proofs remove the bounds and the mixes.
The mix of `account_sign_in` meets each of the four known losses and the exceptions of
`DurableKept` but the garbled renewal, for which that property rests on its proof (the garbled
bodies are in the mix of `account_everywhere`, for the properties checked there). No run leaves
an actor out to make a property hold.

**Fairness.** Only steps of the program that something guarantees are fair; nothing the
viewer, the page or the browser does is. `PulseGet!FairSpec`: continuations run, and a fetch
ends because it is aborted after `EXTENSION_API_TIMEOUT_MS`. `SupporterAccount!FairSpec`:
`accountRequest` aborts after its 12 s deadline, so the request in flight is answered one way
or another. `ChannelTab!Fairness`: timers fire, and what is awaited is answered, for each page,
recording and channel on its own. `ProtectSync!Fairness`: a handler goes on and the listener is told; that syncs
recur, that edits cease and that the backend is up are premises of `Converges`, not
fairness. The start of a queued call is not even assumed: `QueueDrains` says that the queue
comes free, not that a given call is served.

Deadlock is checked in every run: a modelled system can always be called again, or its page
or server can move.

## 5. Proofs

For every value of the constants allowed by the named assumptions; no theorem assumes anything
else. Where the code is known to break what a property would say, the property names the
step that does (section 6) and the theorem says that no other step can.

**LivePoll** (`TabProofs`). `PollInv` is `PollTypeOK`, the safety invariants and five
facts they need of each other: a request of the current generation is for the open channel
(`CurrentRequest`; without it `ResultsOfOpenChannel` is not inductive, for a late answer
must be outdated or of the open channel); a microtask is queued only between requests; what
outdates a request also stopped the timer; no countdown is published while an answer is
awaited; a countdown is published in exactly two phases. Each action preserves each part.
`PollTypeCorrect`, `ResultsCorrect`, `TimerAndSnapshotCorrect` and the action property
`PollKept` follow.

**HistorySync** (`HistorySyncProofs`). `TypeCorrect` is inductive by itself. `ClearInv` adds
the order of the clears (`ClockOrder`: this browser's clear, its watermark and the reply
under way are never later than the account's clear, and nothing is later than the clock) and
`ReplyAfterClear`: a reply whose epoch still holds reports a clear no older than this
browser's own. So a reply that counts raises the watermark past everything cleared here:
`ClearsAreFinal`. The same invariant gives `ClearsVoidCaptures`. That nothing is lost either
way needs `CopyInv`: nobody has seen a jump that is yet to come (`TimesPassed`); a cursor is
never ahead of the copy it was taken from, and one of a copy switched off is behind the base
of the next (`CopyOrder`); what a reply of the present copy acknowledges or brings is in the
account or was cleared, and what it does not bring the browser had (`ReplyTells`). The last
is what makes `NoJumpLost` and `NoRowMissed` inductive: the queue is cut and the cursor moved
by a reply alone. An account clear comes to this browser in two halves, and between them
nothing is missed at all (`NothingMissedSinceClear`), so that whatever the second half wipes
is excepted as `NothingMissed` says. `JumpsOnlyCleared` follows from the whole.

**PulseGet** (`PulseGetProofs`). `Inv` adds to the types that an entry in the hand of a
request or a task fits the key it was read for: the check is made before an await and the
answer given after it, with the cache free to change between. Hence `TypeCorrect` and
`StreamsNeverMix`. `NobodyLeftWaiting` then is inductive: a task ends only with the release
of those who joined it. `RevalidationsApart` needs `Paced`: unless a soft task runs, the time
since the last start together with the gap, or with the cooldown, reaches the minimum gap;
each fetch that ends renews one of the two. `OffLeavesNothing` needs no more than `Inv`: a
task goes on to its write only if it found the setting on when the payload came, so with none
at its write every other step only takes entries away.

**SupporterAccount** (`SupporterAccountProofs`). `Inv` is the types by parts, each taking the
server as a parameter so that one lemma (`StaysGood`: the server only ever makes devices)
carries everything a step leaves alone; it adds that every request that needs a token has
one, and that an adoption brings one. Hence `TypeCorrect`. `Fit` adds what a refresh may
present: a connection's pair is in step with the server, a marker keeps durable pairs only,
the Twitch window brings durable pairs, and while a refresh is in flight the record is a
marker, so that no other call can find anything to renew. The last is what makes it inductive:
the server moves on at an answer that may be lost, and whatever is then stored must not be the
pair that was sent. Answers present nothing themselves (`AnswerFit`), so the two starts that
do remain: `TokenNeverReplayed`. `Agree` says what the record is while each request is in
flight, and with it `OutdatedConnectsNothing` holds for any calls and events.

What keeps a credential is `Hold`: the record and the call agree (`Agree`); a sign-in window,
a sign out everywhere and what they call exclude one another (`OneFlow`); a connection, and a
pair to adopt, have been rotated exactly as often as their device unless it is signed out
(`Steady`); an account about to be forgotten has no device left but a new link (`Gone`); and an
enrolment finds nothing stored unless it is a purchase or a restore that was outdated before
it looked (`EnrolsFit`). `DurableStays` and `NothingLeftBehind` follow for any mix of calls and
events, by cases on the step: each start and each answer that parts with a pair either hands
it to a call, marks it doubtful, knows it dead, or is one of the named losses. `Steady` is what
leaves so few of them: of the adoptions only the one over a marker can replace a live pair, of
the forgettings only the one that meets a link.

**AnalyticsConsent** (`AnalyticsConsentProofs`). Whatever is outdated implies a denial in
memory, and a withdrawal in the chain outdates all that waits before it (`WaitingFits`: the
chain is ordered by it, so the first change that is not outdated was asked for since); an
event that is not outdated still has the consent it read (`EventsFit`); a ticket out of the
list is not spent by two (`TicketsFit`). Hence `TypeCorrect`, `SendsOnlyUnderConsent` and
`TicketsGrantOnce`. `Implements` shows the refinement: *consent* is the stored grant unless
memory denies it, *asked* is a grant not outdated in the chain or at work, and *out* the
events being sent; every action of the code is one of Consent's or a stutter, with one lemma
for each action.

**ChannelTab** (`TabProofs`, as `IndInv`). A route sync leaves the session on the page it found
(`Synced`), an open channel without the poll has an answer coming that may still act
(`PollComes`), and nothing but an open channel is given to the poll (`PollStops`): hence
`PollFollows`. `ShowsOnlySession` is by each step's own check. The busy flag is set only while some
recording's request is in flight (`BusyAsks`); so when a timer finds it set and the open
recording has none, the request is another's: `VodStaysPolled`, for any number of recordings.

**ProtectSync** (`ProtectSyncProofs`). The danger is a copy of the list or of the tombstones
that is written back late. `Fits` bounds what a handler may still do by what the user did:
all it will remove, or leave as a tombstone, was dropped from the list, and the copy it works
on holds only channels that are listed or were dropped since. `RemovalsAreTheUsers`,
`FlagFollowsEdits` and `TypeCorrect` follow.

**SupporterPayFirst** (`SupporterPayFirstProofs`). The journey is written whole from copies
read earlier, by an operation and by an identity change at once, so the invariant is about
every copy that is stored or may still be written (`Hand`): each knows every payment that may
go through, no two name different accounts, and two of one account agree on the page
(`HandFits`). `Lineage` says how the copies of an operation and of an identity change descend
from one another; `OpFits` what each stage relies on: the barrier before the POST, the account
the answer is for. Hence `PaymentsKept` and `OnlyOnePayment`.

**MyMoments** (`MyMomentsProofs`). The invariant has four layers. `Base`: a request waits at
its first step, past it serves an account, and an import writes only for who is signed in;
hence `TypeCorrect`. `Timings`: no epoch is ahead of the clock (`EpochsPast`); between the two halves of a
clear no jump has the epoch the first half gave (`DeviceLast`); and the epoch of a jump,
captured or waiting, is still that of a scope only where it was timed and while nothing voided
it, unless two scopes shared it when it was timed (`JumpsTimed`): `JumpsRecordedWhereTimed`.
`Gone`: neither who is signed in nor whoever the request at work serves was forgotten, and
whatever is written is written for one of them: `ForgottenIsForgotten`. `Carried` follows a
save and its note through an import: what the import takes the account to have is there or no
longer wanted, as long as the account is signed in (`ImportedIsThere`); it saw every note of
the device (`NotesSeen`), and where it is about to drop one the account has one on the moment
(`NoteMoved`); a removal the account confirmed took the note's mark along
(`RemovedIsUnnoted`): `NoSaveLost` for the saves, and `NoOtherNoteLost` for every note but one
passed over for the account's own (`PassedOver`).

**Only model-checked:** liveness (`EveryRequestEnds`, `QueueDrains`, `Settles`, `Converges`),
which the proof system does not reach. Every invariant and action property of the runs is
proved. **Only proved,** without a run of their own: `WaitersHaveWork`
(`NobodyLeftWaiting`), `RemovesOnlyDropped` (`RemovalsAreTheUsers`) and `DeafOnlyWhileEditing` (`FlagFollowsEdits`).

## 6. Where code and comments differ

Each is a definition of the named module. TLC finds it violated when it is checked in a
configuration of that module; none is among the runs, whose number is bounded (section 2).

* `LivePoll!PollFollowsPreference` (1 channel): a poll interval changed while the preference
  is first read leaves the poll off (`livePoll.ts:115`, `entry.ts:172`).
* `HistorySync!LevelMeansSame` (1 moment): a clear can wipe another browser's newer jump,
  which never returns (`myMoments.ts:599`, `historySync.ts:8`).
* `PulseGet!OffMeansEmpty` (the configuration of `pulse_get_settings`): a fetch that read the
  setting before it was turned off caches after the clear (`storage.ts:857`).
* `SupporterAccount!SignOutForgets`: a sign-out behind a renewal in flight finds no account
  and forgets none of its data here (`supporterAccount.ts:683`).
* `SupporterAccount!RevokesNothing`, excepted by `LeftOnlyAsKnown`: a durable renewal with a lost
  answer, then one not attempted, is kept as a plain connection, whose sign-out presents an access
  token the server has replaced and takes the 401 for a confirmation
  (`supporterAccount.ts:746`, comment at `:565`).
* `SupporterAccount!ForgetsLink`, likewise: a device link of the same account, approved between
  the answer of revoke-all and the forgetting it queues, is dropped by the forgetting without
  being revoked (`supporterAccount.ts:258`, comment at `:247`).
* `SupporterAccount!EnrolsOver`, likewise: an outdated purchase or restore enrols all the same,
  over the pair or the tombstone that is still stored (`supporterAccount.ts:179` against `:552`).
* `MyMoments!NotesMove` (the configuration of `my_moments`): a note on a saved moment is dropped
  when the save joins an account that has a note on that moment (`myMoments.ts:366`, `:369`),
  where the comment at `:331` says "Its note never leaves the device: it moves to the account's
  local notes". `NotesKept` excepts that step, as `PassedOver`.
* `ProtectSync!SyncNeverUntracks`: a removal that failed, an add of the same channel at work
  and a sync beside it: the sync replays the tombstone and asks the backend to delete a
  channel it read on the list (`service-worker.ts:622`; `alwaysTrackedSync.ts:44` says "push
  local protections only; never untrack").
* `ChannelTab!PanelFollowsRoute` (the configuration of `channel_tab`): from channel A to
  channel B, on to another page before B's settings are read, and back to B within the
  debounce. B's activation finds the path no longer its own and stops (`entry.ts:380`) with
  the session on B; the route sync then takes B for open (`:332`) and mounts nothing, where
  `docs/pulse-extension/requirements.md:231` says "navigation SHALL update the existing
  overlay in place".
* `ChannelTab!BusyForAnother`, excepted by `GrowingVodPolled`: one recording's request, still in
  flight, takes the next one's timer and sets it no other (`entry.ts:115`, `:126`, `:139`).

Lesser ones, likewise:

* `FollowUpOnlyForToggle`: the follow-up owed to a toggle is left set when the session stops
  being able to run, and a later answer spends it (`livePoll.ts:241`; `:80` and `:258` tie it
  to the toggle).
* `RepliesVoidOnlyForOtherClears`: a reply carrying this browser's own clear voids a capture
  begun after it (`historySync.ts:127`; the comment at `:126` speaks of other clears).
* `RefreshFetches`: a refresh after a finished backfill can be answered from the cache with no
  fetch at all (`service-worker.ts:354`, comment at `:353`).
* `EverywhereForgets`: a call queued behind the revocation of all devices meets a 401 first
  and clears the credential, so that nothing is forgotten (`supporterAccount.ts:258`,
  `twitchSignIn.ts:270`; comment at `:247`).
* `AdoptsOver`, excepted by `LeftOnlyAsKnown` and `DurableKept`: a pair kept through a refresh
  does not count as a connection, and adopt replaces it (`supporterAccount.ts:290`, comment at
  `:281`; `AdoptKeepsConnection` is violated by it).
* Two scopes cleared by one handler in one millisecond share an epoch, and a jump timed under it
  may join the other's history (`myMoments.ts:600`, `:605`; comment at `:478`);
  `RecordedWhereTimed` excepts the jumps timed so.
* An adopt outdated while it settles an older tombstone stores its pair
  (`supporterAccount.ts:297`, comment at `:281`); `OutdatedStoresNothing` excepts that stage.

Read in the code, not checked by a model:

* Two edits of the watchlist at once keep one of them (`shared/watchlist.ts:21`). The model has
  it so; what `Converges` compares with is the list that was kept.
* The membership read after a poll is that of whoever is signed in, without the comparison of
  localAccountId made ten lines on (`supporterPayFirst.ts:364`, `:374`). The model has it so;
  the account queue's generation is what keeps it safe.
* A recovery POST after the deadline whose answer is lost makes an attempt whose marker
  expires before it does (`supporterPayFirst.ts`, the barrier's deadline).
* A worker stopped between a sign-out and the queued deletion leaves the account's copy here
  (`myMoments.ts:428`); the model has it so, and `ForgottenStaysForgotten` speaks of accounts
  whose deletion was made.
* A picture asked for by a save just made is stored up to 20 s later without looking again who
  is signed in, so it can land in a scope whose pictures a sign-out dropped
  (`momentPictures.ts:117`, `tests/momentPictureStore.test.ts:62`).

## 7. What is not modelled

* **Of the modelled components.** LivePoll: delays. HistorySync: retention, expiry, the entry
  cap, batches by size. PulseGet: the coverage tier, the watch request, other channels except
  as evictions. SupporterAccount: the entitlement projection and its cache, the finish
  intent, cosmetics, `adoptRestoredCredentials`, and the clocks `retryAt` and
  `renewalPauseUntil`, which are a choice. TwitchSignIn: the silent attempt, step-up and the
  badge and link requests. AnalyticsConsent: the content of events, builds with the switch
  off. ChannelTab, ProtectSync, SupporterPayFirst and MyMoments: as their sections above say.
* **Planned** (section 2): TwitchSignIn's markers, ChatBadges, MomentPictures, the portal's
  hub reader.
* **Not planned.** PageScripts and TwitchDom are I/O against a page the repository does not
  define. PanelUi and SharedPackages render state. PayloadAlgorithms are pure functions of
  floating-point scores. MessageRouter is a table; SmallCaches have the shape of PulseGet's
  maps; Diagnostics is switched off in the code and has the shape of AnalyticsConsent without
  tickets; BuildAndRelease has no run-time behaviour. The signature check of ChatBadges and the
  decoding of pictures are external.
