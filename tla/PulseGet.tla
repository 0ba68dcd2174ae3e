------------------------------ MODULE PulseGet ------------------------------
(***************************************************************************)
(* How the service worker answers GET_PULSE for one channel: the session   *)
(* cache, the two single-flight maps of pulseGetCoordinator, the prefetch  *)
(* on navigation, and the setting that turns the cache off.                *)
(*                                                                         *)
(* A payload is the stream it belongs to; Nothing is a null payload.  Time *)
(* passes in ticks of PULSE_REVALIDATE_MIN_GAP_MS (5 s).                   *)
(***************************************************************************)
EXTENDS Naturals, FiniteSets

CONSTANTS
  Streams,    \* broadcasts of the channel
  NoStream,   \* a request or a payload without a stream id
  Nothing,    \* null
  Requests,   \* requests in hand at one time (a bound)
  Asks,       \* the requests tabs and handlers make
  Events,     \* what may happen around the worker (a bound)
  MinGap,     \* PULSE_REVALIDATE_MIN_GAP_MS, in ticks
  Cooldown,   \* PULSE_REVALIDATE_FAILURE_COOLDOWN_MS, in ticks
  Ttl         \* PULSE_CACHE_TTL_MS, in ticks

Windows == {"recent", "full"}
Ids == Streams \cup {NoStream}
Keys == Windows \X Ids
Payloads == Ids \cup {Nothing}
Entries == [stream : Ids, age : 0 .. Ttl + 1]

ASSUME PulseGetAssumption ==
  /\ NoStream \notin Streams /\ Nothing \notin Ids /\ Nothing \notin Entries
  /\ MinGap \in Nat \ {0} /\ Cooldown \in Nat /\ Ttl \in Nat
  /\ MinGap <= Cooldown /\ MinGap <= Ttl
  /\ Events \subseteq {"navigate", "on", "off", "clear", "evict", "restart"}
  /\ Asks \subseteq
       [kind : {"get", "retry", "refresh"}, window : Windows, stream : Ids]

VARIABLES
  cache,     \* session storage: the entry under each key, or Nothing
  keep,      \* the stored keepLocalCache setting
  sweep,     \* the settings page clearing the cache
  requests,  \* calls of handleGetPulse, by request
  jobs,      \* syncInFlight, revalidateInFlight and the prefetch in flight
  pace,      \* what is left of each key's gap and cooldown
  sent       \* the messages the last step sent

vars == <<cache, keep, sweep, requests, jobs, pace, sent>>

WarmKey == <<"recent", NoStream>>
Warm == <<"warm", WarmKey>>
Sync(k) == <<"sync", k>>
Soft(k) == <<"soft", k>>
Jobs == ({"sync", "soft"} \X Keys) \cup {Warm}

JobType ==
  [stage : {"none", "look", "purge", "cover", "net", "write", "fallback",
            "giveUp"},
   forced : BOOLEAN, entry : Entries \cup {Nothing}]
RequestType ==
  [stage : {"idle", "wait", "read", "purge", "cover", "joined"},
   ask : Asks \cup {Nothing}, entry : Entries \cup {Nothing}]
PaceType == [gap : 0 .. MinGap, cool : 0 .. Cooldown, begun : 0 .. MinGap]

NoJob == [stage |-> "none", forced |-> FALSE, entry |-> Nothing]
NoRequest == [stage |-> "idle", ask |-> Nothing, entry |-> Nothing]
NoPace == [gap |-> 0, cool |-> 0, begun |-> MinGap]
NoSweep == [stage |-> "none", keys |-> {}]
KeyOf(r) == <<requests[r].ask.window, requests[r].ask.stream>>
InHand(r) == requests[r].stage # "idle"

-----------------------------------------------------------------------------
(* The session cache. *)

Stored(k) ==
  IF k[2] # NoStream /\ cache[k] # Nothing
  THEN cache[k] ELSE cache[<<k[1], NoStream>>]

Expired(e) == e # Nothing /\ e.age > Ttl

MutantServesAnyStream(k) ==
  LET e == Stored(k) IN IF e = Nothing \/ Expired(e) THEN Nothing ELSE e

Fits(k, stream) == k[2] = NoStream \/ stream = k[2]

Cached(k) ==
  LET e == Stored(k)
  IN  IF e = Nothing \/ Expired(e) \/ ~ Fits(k, e.stream) THEN Nothing ELSE e

Without(keys) == [k \in Keys |-> IF k \in keys THEN Nothing ELSE cache[k]]

(* Writing first drops what expired; an entry goes under the generic key   *)
(* and, when its stream is known, under the stream's own.                  *)
MutantOverwritesWindow(k, e) ==
  [x \in Keys |->
     IF x[1] = k[1] THEN [stream |-> e.stream, age |-> 0]
     ELSE IF Expired(cache[x]) THEN Nothing ELSE cache[x]]

Written(k, e) ==
  [x \in Keys |->
     IF x \in {<<k[1], e.stream>>, <<k[1], NoStream>>}
     THEN [stream |-> e.stream, age |-> 0]
     ELSE IF Expired(cache[x]) THEN Nothing ELSE cache[x]]

-----------------------------------------------------------------------------
(* What ends and what starts. *)

Stale(e) == e.age >= MinGap

Start(stage, forced) == [stage |-> stage, forced |-> forced, entry |-> Nothing]

MayRevalidate(k, forced) == forced \/ (pace[k].gap = 0 /\ pace[k].cool = 0)

(* scheduleSoftRevalidate, after an answer from entry e. *)
Revalidates(k, e, forced) ==
  /\ Stale(e) /\ MayRevalidate(k, forced)
  /\ jobs[Soft(k)].stage = "none"

WithRevalidation(js, k, e, forced) ==
  IF Revalidates(k, e, forced)
  THEN [js EXCEPT ![Soft(k)] = Start("net", forced)] ELSE js

PaceAfterStart(k, e, forced) ==
  IF Revalidates(k, e, forced)
  THEN [pace EXCEPT ![k].begun = 0] ELSE pace

MutantNoGapAfterSuccess(k, ok) ==
  [pace EXCEPT ![k] = IF ok THEN [@ EXCEPT !.cool = 0]
                      ELSE [@ EXCEPT !.cool = Cooldown]]

PaceAfterFetch(k, ok) ==
  [pace EXCEPT ![k] = IF ok THEN [@ EXCEPT !.gap = MinGap, !.cool = 0]
                      ELSE [@ EXCEPT !.cool = Cooldown]]

(* What a step sends: answers to those who asked, PULSE_UPDATEs to tabs. *)
Answer(r, payload, via) ==
  [to |-> "asker", ask |-> requests[r].ask, payload |-> payload, via |-> via]

Update(k, payload) ==
  [to |-> "tabs", payload |-> payload,
   stream |-> IF k[2] # NoStream \/ payload = Nothing THEN k[2] ELSE payload]

(* Everyone who joined the task of key k gets its result. *)
Joined(k) == {r \in Requests : requests[r].stage = "joined" /\ KeyOf(r) = k}

Released(rs) == [r \in Requests |-> IF r \in rs THEN NoRequest ELSE requests[r]]

AnswersTo(rs, payload, via) == {Answer(r, payload, via) : r \in rs}

MutantWaitersForgotten == requests

ReleaseWaiters ==
  [r \in Requests |->
     IF requests[r].stage = "wait"
     THEN [requests[r] EXCEPT !.stage = "read"] ELSE requests[r]]

(* The end of fetchPulse for job j: what its caller does with the payload. *)
Succeed(j, payload) ==
  /\ jobs' = [jobs EXCEPT ![j] = NoJob]
  /\ CASE j = Warm ->
            requests' = ReleaseWaiters /\ sent' = {} /\ UNCHANGED pace
       [] j[1] = "soft" ->
            /\ pace' = PaceAfterFetch(j[2], TRUE)
            /\ sent' = {Update(j[2], payload)} /\ UNCHANGED requests
       [] j[1] = "sync" ->
            /\ pace' = PaceAfterFetch(j[2], TRUE)
            /\ requests' = Released(Joined(j[2]))
            /\ sent' = {Update(j[2], payload)}
                         \cup AnswersTo(Joined(j[2]), payload, "network")

SettleFailed(k, payload, via) ==
  /\ jobs' = [jobs EXCEPT ![Sync(k)] = NoJob]
  /\ pace' = PaceAfterFetch(k, FALSE)
  /\ requests' = Released(Joined(k))
  /\ sent' = {Update(k, payload)} \cup AnswersTo(Joined(k), payload, via)

Fail(j) ==
  CASE j = Warm ->
         /\ jobs' = [jobs EXCEPT ![j] = NoJob]
         /\ requests' = ReleaseWaiters /\ sent' = {} /\ UNCHANGED pace
    [] j[1] = "soft" ->
         /\ jobs' = [jobs EXCEPT ![j] = NoJob]
         /\ pace' = PaceAfterFetch(j[2], FALSE)
         /\ sent' = {Update(j[2], Nothing)} /\ UNCHANGED requests
    [] j[1] = "sync" /\ j[2][1] = "full" /\ j[2][2] # NoStream ->
         /\ jobs' = [jobs EXCEPT ![j].stage = "fallback"]
         /\ sent' = {} /\ UNCHANGED <<requests, pace>>
    [] OTHER -> SettleFailed(j[2], Nothing, "none")

-----------------------------------------------------------------------------
(* One request. *)

AskPulse(r, a) ==
  /\ ~ InHand(r)
  /\ requests' = [requests EXCEPT ![r] =
       [NoRequest EXCEPT !.ask = a,
          !.stage = IF a.kind # "refresh" /\ jobs[Warm].stage # "none"
                    THEN "wait" ELSE "read"]]
  /\ sent' = {} /\ UNCHANGED <<cache, keep, sweep, jobs, pace>>

Join(r) ==
  LET a == requests[r].ask
      j == Sync(KeyOf(r))
  IN  /\ requests' = [requests EXCEPT ![r].stage = "joined"]
      /\ jobs' = IF jobs[j].stage # "none" THEN jobs
                 ELSE [jobs EXCEPT ![j] =
                        Start(IF a.kind = "retry" THEN "net" ELSE "look",
                              a.kind = "refresh")]

(* getCached, and the plan made of it. *)
Read(r) ==
  LET e == Cached(KeyOf(r))
  IN  /\ requests[r].stage = "read"
      /\ CASE Expired(Stored(KeyOf(r))) ->
                /\ requests' = [requests EXCEPT ![r].stage = "purge"]
                /\ UNCHANGED jobs
           [] e # Nothing /\ requests[r].ask.kind # "retry" ->
                /\ requests' =
                     [requests EXCEPT ![r].stage = "cover", ![r].entry = e]
                /\ UNCHANGED jobs
           [] OTHER -> Join(r)
      /\ sent' = {} /\ UNCHANGED <<cache, keep, sweep, pace>>

(* getSessionPulse removes an expired entry before it returns null. *)
Purge(r) ==
  /\ requests[r].stage = "purge"
  /\ cache' = Without({KeyOf(r)})
  /\ Join(r)
  /\ sent' = {} /\ UNCHANGED <<keep, sweep, pace>>

(* The coverage read has ended: answer from the cache, revalidate if stale. *)
Reply(r) ==
  LET e == requests[r].entry
      k == KeyOf(r)
      forced == requests[r].ask.kind = "refresh"
  IN  /\ requests[r].stage = "cover"
      /\ requests' = Released({r})
      /\ sent' = {Answer(r, e.stream, "cache")}
      /\ jobs' = WithRevalidation(jobs, k, e, forced)
      /\ pace' = PaceAfterStart(k, e, forced)
      /\ UNCHANGED <<cache, keep, sweep>>

-----------------------------------------------------------------------------
(* The tasks: the coalesced sync fetch, the soft one and the prefetch. *)

StartWarm ==
  /\ "navigate" \in Events
  /\ jobs[Warm].stage = "none"
  /\ jobs' = [jobs EXCEPT ![Warm] = Start("look", FALSE)]
  /\ sent' = {} /\ UNCHANGED <<cache, keep, sweep, requests, pace>>

(* The cache is read again inside the task; the prefetch reads the setting *)
(* first and ends when there is nothing to warm.                           *)
Look(j) ==
  LET e == Cached(j[2])
      next(s, entry) == /\ jobs' = [jobs EXCEPT ![j].stage = s,
                                                ![j].entry = entry]
                        /\ UNCHANGED requests
  IN  /\ jobs[j].stage = "look"
      /\ CASE j = Warm /\ ~ keep ->
                jobs' = [jobs EXCEPT ![j] = NoJob] /\ requests' = ReleaseWaiters
           [] (j # Warm \/ keep) /\ Expired(Stored(j[2])) ->
                next("purge", Nothing)
           [] j = Warm /\ keep /\ e # Nothing ->
                jobs' = [jobs EXCEPT ![j] = NoJob] /\ requests' = ReleaseWaiters
           [] j # Warm /\ e # Nothing -> next("cover", e)
           [] OTHER -> next("net", Nothing)
      /\ sent' = {} /\ UNCHANGED <<cache, keep, sweep, pace>>

JobPurge(j) ==
  /\ jobs[j].stage = "purge"
  /\ cache' = Without({j[2]})
  /\ jobs' = [jobs EXCEPT ![j].stage = "net"]
  /\ sent' = {} /\ UNCHANGED <<keep, sweep, requests, pace>>

SyncReply(k) ==
  LET job == jobs[Sync(k)]
      settled == [jobs EXCEPT ![Sync(k)] = NoJob]
  IN  /\ job.stage = "cover"
      /\ jobs' = WithRevalidation(settled, k, job.entry, job.forced)
      /\ pace' = PaceAfterStart(k, job.entry, job.forced)
      /\ requests' = Released(Joined(k))
      /\ sent' = AnswersTo(Joined(k), job.entry.stream, "cache")
      /\ UNCHANGED <<cache, keep, sweep>>

MutantWritesWhateverTheSetting == TRUE

MayCache == keep

(* The server answers (or the request fails or times out); a payload of    *)
(* another stream than the one asked for is an error.  The setting is read *)
(* before the payload is written.                                          *)
NetAnswers(j, payload) ==
  /\ jobs[j].stage = "net"
  /\ IF payload = Nothing \/ ~ Fits(j[2], payload)
     THEN Fail(j)
     ELSE IF MayCache
     THEN /\ jobs' = [jobs EXCEPT ![j].stage = "write",
                                  ![j].entry = [stream |-> payload, age |-> 0]]
          /\ sent' = {} /\ UNCHANGED <<requests, pace>>
     ELSE Succeed(j, payload)
  /\ UNCHANGED <<cache, keep, sweep>>

Write(j) ==
  /\ jobs[j].stage = "write"
  /\ cache' = Written(j[2], jobs[j].entry)
  /\ Succeed(j, jobs[j].entry.stream)
  /\ UNCHANGED <<keep, sweep>>

(* A full request that failed falls back on its stream's recent window. *)
Fallback(k) ==
  LET recent == <<"recent", k[2]>>
      e == Cached(recent)
  IN  /\ jobs[Sync(k)].stage = "fallback"
      /\ IF Expired(Stored(recent))
         THEN /\ jobs' = [jobs EXCEPT ![Sync(k)].stage = "giveUp"]
              /\ sent' = {} /\ UNCHANGED <<requests, pace>>
         ELSE IF e = Nothing THEN SettleFailed(k, Nothing, "none")
         ELSE SettleFailed(k, e.stream, "fallback")
      /\ UNCHANGED <<cache, keep, sweep>>

GiveUp(k) ==
  /\ jobs[Sync(k)].stage = "giveUp"
  /\ cache' = Without({<<"recent", k[2]>>})
  /\ SettleFailed(k, Nothing, "none")
  /\ UNCHANGED <<keep, sweep>>

-----------------------------------------------------------------------------
(* The settings page, other channels, time, and the worker's death. *)

TurnOn ==
  /\ "on" \in Events /\ ~ keep
  /\ keep' = TRUE
  /\ sent' = {} /\ UNCHANGED <<cache, sweep, requests, jobs, pace>>

(* setKeepLocalCache(false) stores the setting and clears the cache; the   *)
(* clear button clears it and leaves the setting.                          *)
ClearCache(off) ==
  /\ (IF off THEN "off" ELSE "clear") \in Events /\ sweep.stage = "none"
  /\ keep' = (keep /\ ~ off)
  /\ sweep' = [stage |-> "list", keys |-> {}]
  /\ sent' = {} /\ UNCHANGED <<cache, requests, jobs, pace>>

ListKeys ==
  /\ sweep.stage = "list"
  /\ sweep' = [stage |-> "remove", keys |-> {k \in Keys : cache[k] # Nothing}]
  /\ sent' = {} /\ UNCHANGED <<cache, keep, requests, jobs, pace>>

RemoveKeys ==
  /\ sweep.stage = "remove"
  /\ cache' = Without(sweep.keys)
  /\ sweep' = NoSweep
  /\ sent' = {} /\ UNCHANGED <<keep, requests, jobs, pace>>

(* Other channels' entries crowd this channel's out of the session cache. *)
Evict(k) ==
  /\ "evict" \in Events /\ cache[k] # Nothing
  /\ cache' = Without({k})
  /\ sent' = {} /\ UNCHANGED <<keep, sweep, requests, jobs, pace>>

Down(n) == IF n = 0 THEN 0 ELSE n - 1
UpTo(n, top) == IF n < top THEN n + 1 ELSE top

Tick ==
  /\ cache' = [k \in Keys |-> IF cache[k] = Nothing THEN Nothing
                 ELSE [cache[k] EXCEPT !.age = UpTo(@, Ttl + 1)]]
  /\ pace' = [k \in Keys |-> [gap |-> Down(pace[k].gap),
                              cool |-> Down(pace[k].cool),
                              begun |-> UpTo(pace[k].begun, MinGap)]]
  /\ sent' = {} /\ UNCHANGED <<keep, sweep, requests, jobs>>

(* The worker is stopped: its maps go, the session cache stays. *)
Restart ==
  /\ "restart" \in Events
  /\ requests' = [r \in Requests |-> NoRequest]
  /\ jobs' = [j \in Jobs |-> NoJob]
  /\ pace' = [k \in Keys |-> NoPace]
  /\ sent' = {} /\ UNCHANGED <<cache, keep, sweep>>

-----------------------------------------------------------------------------
Init ==
  /\ cache = [k \in Keys |-> Nothing]
  /\ keep = TRUE
  /\ sweep = NoSweep
  /\ requests = [r \in Requests |-> NoRequest]
  /\ jobs = [j \in Jobs |-> NoJob]
  /\ pace = [k \in Keys |-> NoPace]
  /\ sent = {}

RequestStep(r) == Read(r) \/ Purge(r) \/ Reply(r)

SyncStep(k) == SyncReply(k) \/ Fallback(k) \/ GiveUp(k)

JobStep(j) ==
  \/ Look(j) \/ JobPurge(j) \/ Write(j)
  \/ \E payload \in Payloads : NetAnswers(j, payload)

Next ==
  \/ \E r \in Requests, a \in Asks : AskPulse(r, a)
  \/ \E r \in Requests : RequestStep(r)
  \/ \E j \in Jobs : JobStep(j)
  \/ \E k \in Keys : SyncStep(k)
  \/ \E off \in BOOLEAN : ClearCache(off)
  \/ \E k \in Keys : Evict(k)
  \/ StartWarm \/ TurnOn \/ ListKeys \/ RemoveKeys \/ Tick \/ Restart

Spec == Init /\ [][Next]_vars

(* The worker runs its continuations, and every fetch ends: it answers or  *)
(* is cut off after EXTENSION_API_TIMEOUT_MS.                              *)
FairSpec ==
  /\ Spec
  /\ \A r \in Requests : WF_vars(RequestStep(r))
  /\ \A j \in Jobs : WF_vars(JobStep(j))
  /\ \A k \in Keys : WF_vars(SyncStep(k))

-----------------------------------------------------------------------------
Messages ==
  [to : {"asker"}, ask : Asks, payload : Payloads,
   via : {"none", "cache", "network", "fallback"}]
  \cup [to : {"tabs"}, payload : Payloads, stream : Ids]

(* Types; an entry under a stream's own key is of that stream. *)
TypeOK ==
  /\ cache \in [Keys -> Entries \cup {Nothing}]
  /\ \A k \in Keys :
       k[2] = NoStream \/ cache[k] = Nothing \/ cache[k].stream = k[2]
  /\ keep \in BOOLEAN
  /\ sweep \in [stage : {"none", "list", "remove"}, keys : SUBSET Keys]
  /\ requests \in [Requests -> RequestType]
  /\ jobs \in [Jobs -> JobType]
  /\ pace \in [Keys -> PaceType]
  /\ sent \subseteq Messages

(* A request that names a stream is never answered with another stream's   *)
(* payload, nor is a broadcast: not from the generic cache entry, not by    *)
(* joining another request, not by the fallback.                            *)
RightStream ==
  \A m \in sent :
    LET asked == IF m.to = "asker" THEN m.ask.stream ELSE m.stream
    IN  \/ m.payload \in {Nothing, asked}
        \/ m.to = "asker" /\ asked = NoStream

(* Whoever waits on the prefetch or on a sync task has one running to wait *)
(* for: a map entry is never dropped with callers left behind.             *)
WaitersHaveWork ==
  \A r \in Requests :
    /\ requests[r].stage = "wait" => jobs[Warm].stage # "none"
    /\ requests[r].stage = "joined" => jobs[Sync(KeyOf(r))].stage # "none"

(* Polls that keep finding a stale entry do not become a storm: within one *)
(* worker's life, unforced revalidations of a key start MinGap apart,      *)
(* however the fetches between them ended.                                 *)
RevalidationsSpaced ==
  [][\A k \in Keys :
       /\ jobs[Soft(k)].stage = "none"
       /\ jobs'[Soft(k)].stage # "none" /\ ~ jobs'[Soft(k)].forced
       => pace[k].begun = MinGap]_vars

(* Once the cache is off, empty and without a write under way, it stays    *)
(* empty until the setting is turned on.                                   *)
Drained ==
  /\ ~ keep
  /\ \A k \in Keys : cache[k] = Nothing
  /\ \A j \in Jobs : jobs[j].stage # "write"

OffStaysEmpty == [][Drained => Drained' \/ keep']_vars

(* Every request is answered, unless the worker dies first. *)
EveryRequestEnds ==
  \A r \in Requests : InHand(r) ~> ~ InHand(r)

-----------------------------------------------------------------------------
(* What comments and tests say, and the code does not do. *)

(* "Respects the ... setting before writing session cache": once the cache *)
(* is off and cleared, with no write under way, nothing is in it.          *)
OffMeansEmpty ==
  /\ ~ keep /\ sweep.stage = "none"
  /\ \A j \in Jobs : jobs[j].stage # "write"
  => \A k \in Keys : cache[k] = Nothing

(* A refresh after a finished backfill goes "via handleGetPulse cold path": *)
(* its answer comes with a fetch, at least a background one.                *)
RefreshFetches ==
  [][\A r \in Requests :
       requests[r].stage = "cover" /\ requests[r].ask.kind = "refresh"
       /\ sent' # {}
       => requests'[r].stage = "cover" \/ jobs'[Soft(KeyOf(r))].stage # "none"]_vars
=============================================================================
