--------------------------- MODULE PulseGetProofs ---------------------------
(***************************************************************************)
(* Theorems about PulseGet, for any set of streams, requests and asks and  *)
(* any gap, cooldown and lifetime.                                         *)
(***************************************************************************)
EXTENDS PulseGet, TLAPS

(* What a call or a task holds between two steps fits the key it is for. *)
CacheOK ==
  /\ cache \in [Keys -> Entries \cup {Nothing}]
  /\ \A k \in Keys :
       k[2] = NoStream \/ cache[k] = Nothing \/ cache[k].stream = k[2]

RequestsOK ==
  /\ requests \in [Requests -> RequestType]
  /\ \A r \in Requests :
       InHand(r) =>
         /\ requests[r].ask \in Asks
         /\ requests[r].stage = "cover" =>
              requests[r].entry \in Entries
              /\ Fits(KeyOf(r), requests[r].entry.stream)

JobsOK ==
  /\ jobs \in [Jobs -> JobType]
  /\ \A j \in Jobs :
       jobs[j].stage \in {"cover", "write"} =>
         jobs[j].entry \in Entries /\ Fits(j[2], jobs[j].entry.stream)

PaceOK == pace \in [Keys -> PaceType]
SentOK == sent \subseteq Messages /\ RightStream
RestOK ==
  /\ keep \in BOOLEAN
  /\ sweep \in [stage : {"none", "list", "remove"}, keys : SUBSET Keys]

Inv == CacheOK /\ RequestsOK /\ JobsOK /\ PaceOK /\ SentOK /\ RestOK

-----------------------------------------------------------------------------
(* The names of tasks. *)

LEMMA JobNames ==
  /\ \A k \in Keys : Sync(k) \in Jobs /\ Soft(k) \in Jobs
                     /\ Sync(k)[2] = k /\ Soft(k)[2] = k
                     /\ Sync(k)[1] = "sync" /\ Sync(k) # Warm
  /\ Warm \in Jobs /\ Warm[2] \in Keys /\ Warm[1] = "warm"
  /\ \A j \in Jobs : j[2] \in Keys /\ j[1] \in {"sync", "soft", "warm"}
                     /\ (j[1] = "sync" => j = Sync(j[2]))
                     /\ (j[1] = "warm" => j = Warm)
BY DEF Jobs, Sync, Soft, Warm, WarmKey, Keys, Windows, Ids

LEMMA KeyParts == \A k \in Keys : k[1] \in Windows /\ k[2] \in Ids
                                  /\ <<k[1], NoStream>> \in Keys
                                  /\ <<"recent", k[2]>> \in Keys
BY DEF Keys, Ids, Windows

LEMMA KeyOfAsk ==
  ASSUME NEW r \in Requests, requests[r].ask \in Asks
  PROVE  KeyOf(r) \in Keys /\ KeyOf(r)[2] = requests[r].ask.stream
BY PulseGetAssumption DEF KeyOf, Keys

-----------------------------------------------------------------------------
(* The cache: what is read fits what was asked, and what is written or      *)
(* dropped leaves every entry under a key of its own stream.               *)

LEMMA CachedFits ==
  ASSUME CacheOK, NEW k \in Keys
  PROVE  Cached(k) # Nothing => Cached(k) \in Entries /\ Fits(k, Cached(k).stream)
<1>1. Stored(k) \in Entries \cup {Nothing}
  BY KeyParts DEF Stored, CacheOK
<1> QED  BY <1>1 DEF Cached

LEMMA WithoutOK ==
  ASSUME CacheOK, NEW S, cache' = Without(S)
  PROVE  CacheOK'
BY DEF CacheOK, Without

LEMMA WrittenOK ==
  ASSUME CacheOK, NEW k \in Keys, NEW e \in Entries, Fits(k, e.stream),
         cache' = Written(k, e)
  PROVE  CacheOK'
<1> DEFINE new == [stream |-> e.stream, age |-> 0]
<1>1. new \in Entries
  BY PulseGetAssumption DEF Entries
<1>2. ASSUME NEW x \in Keys
      PROVE  /\ cache'[x] \in Entries \cup {Nothing}
             /\ x[2] = NoStream \/ cache'[x] = Nothing \/ cache'[x].stream = x[2]
  <2>1. CASE x \in {<<k[1], e.stream>>, <<k[1], NoStream>>}
    <3>1. cache'[x] = new
      BY <2>1 DEF Written
    <3> QED  BY <1>1, <2>1, <3>1
  <2>2. CASE x \notin {<<k[1], e.stream>>, <<k[1], NoStream>>}
    <3>1. cache'[x] = IF Expired(cache[x]) THEN Nothing ELSE cache[x]
      BY <2>2 DEF Written
    <3> QED  BY <3>1 DEF CacheOK
  <2> QED  BY <2>1, <2>2
<1>3. cache' = [x \in Keys |-> cache'[x]]
  BY DEF Written
<1> QED  BY <1>2, <1>3 DEF CacheOK

-----------------------------------------------------------------------------
(* Requests and tasks. *)

LEMMA IdleType == NoRequest \in RequestType /\ NoRequest.stage = "idle"
BY DEF NoRequest, RequestType

LEMMA ReleasedOK ==
  ASSUME RequestsOK, NEW S, requests' = Released(S)
  PROVE  RequestsOK'
BY IdleType DEF RequestsOK, Released, InHand, KeyOf

LEMMA WaitersReleasedOK ==
  ASSUME RequestsOK, requests' = ReleaseWaiters
  PROVE  RequestsOK'
BY DEF RequestsOK, ReleaseWaiters, InHand, KeyOf, RequestType

LEMMA StageSetOK ==
  ASSUME RequestsOK, NEW r \in Requests, InHand(r),
         NEW s \in {"read", "purge", "joined"},
         requests' = [requests EXCEPT ![r].stage = s]
  PROVE  RequestsOK'
BY DEF RequestsOK, InHand, KeyOf, RequestType

LEMMA JobPut ==
  ASSUME JobsOK, NEW j \in Jobs, NEW job \in JobType,
         job.stage \notin {"cover", "write"}, jobs' = [jobs EXCEPT ![j] = job]
  PROVE  JobsOK'
BY DEF JobsOK

LEMMA JobStaged ==
  ASSUME JobsOK, NEW j \in Jobs, NEW s \in {"purge", "net", "fallback", "giveUp"},
         jobs' = [jobs EXCEPT ![j].stage = s]
  PROVE  JobsOK'
BY DEF JobsOK, JobType

LEMMA JobTypes ==
  /\ NoJob \in JobType /\ NoJob.stage = "none"
  /\ \A s \in {"look", "net"}, f \in BOOLEAN :
       Start(s, f) \in JobType /\ Start(s, f).stage = s
BY DEF NoJob, JobType, Start

LEMMA FetchPaceOK ==
  ASSUME PaceOK, NEW k \in Keys, NEW ok \in BOOLEAN, pace' = PaceAfterFetch(k, ok)
  PROVE  PaceOK'
<1>1. MinGap \in 0 .. MinGap /\ Cooldown \in 0 .. Cooldown /\ 0 \in 0 .. Cooldown
  BY PulseGetAssumption
<1>2. ok = TRUE \/ ok = FALSE
  OBVIOUS
<1> QED  BY <1>1, <1>2 DEF PaceOK, PaceAfterFetch, PaceType

(* Answering from an entry, and the soft task it may start. *)
LEMMA RevalidationOK ==
  ASSUME JobsOK, PaceOK, NEW k \in Keys, NEW e, NEW forced \in BOOLEAN,
         pace' = PaceAfterStart(k, e, forced),
         \/ jobs' = WithRevalidation(jobs, k, e, forced)
         \/ jobs' = WithRevalidation([jobs EXCEPT ![Sync(k)] = NoJob], k, e, forced)
  PROVE  JobsOK' /\ PaceOK'
<1>1. Start("net", forced) \in JobType /\ Start("net", forced).stage = "net"
  BY JobTypes
<1>2. JobsOK'
  <2> DEFINE ended == [jobs EXCEPT ![Sync(k)] = NoJob]
  <2>1. jobs' \in {jobs, ended, [jobs EXCEPT ![Soft(k)] = Start("net", forced)],
                   [ended EXCEPT ![Soft(k)] = Start("net", forced)]}
    BY DEF WithRevalidation
  <2> QED  BY <1>1, <2>1, JobNames, JobTypes DEF JobsOK
<1>3. 0 \in 0 .. MinGap
  BY PulseGetAssumption
<1>4. pace' = pace \/ pace' = [pace EXCEPT ![k].begun = 0]
  BY DEF PaceAfterStart
<1>5. PaceOK'
  BY <1>3, <1>4 DEF PaceOK, PaceType
<1> QED  BY <1>2, <1>5

-----------------------------------------------------------------------------
(* Messages. *)

LEMMA UpdateFits ==
  ASSUME NEW k \in Keys, NEW p \in Payloads, p = Nothing \/ Fits(k, p)
  PROVE  /\ Update(k, p) \in Messages /\ Update(k, p).to = "tabs"
         /\ Update(k, p).payload \in {Nothing, Update(k, p).stream}
BY KeyParts, PulseGetAssumption DEF Update, Messages, Payloads, Fits

LEMMA AnswerFits ==
  ASSUME NEW r \in Requests, requests[r].ask \in Asks, NEW p \in Payloads,
         p = Nothing \/ Fits(KeyOf(r), p),
         NEW via \in {"none", "cache", "network", "fallback"}
  PROVE  /\ Answer(r, p, via) \in Messages /\ Answer(r, p, via).to = "asker"
         /\ \/ Answer(r, p, via).payload \in {Nothing, Answer(r, p, via).ask.stream}
            \/ Answer(r, p, via).ask.stream = NoStream
BY KeyOfAsk DEF Answer, Messages, Fits

LEMMA JoinedAsk ==
  ASSUME RequestsOK, NEW k, NEW r \in Joined(k)
  PROVE  r \in Requests /\ requests[r].ask \in Asks /\ KeyOf(r) = k
BY DEF Joined, RequestsOK, InHand

(* A broadcast and the answers to everyone who joined. *)
LEMMA SettledSent ==
  ASSUME RequestsOK, NEW k \in Keys, NEW p \in Payloads, p = Nothing \/ Fits(k, p),
         NEW via \in {"none", "cache", "network", "fallback"},
         \/ sent' = {Update(k, p)} \cup AnswersTo(Joined(k), p, via)
         \/ sent' = AnswersTo(Joined(k), p, via)
         \/ sent' = {Update(k, p)}
  PROVE  SentOK'
<1>1. ASSUME NEW m \in sent'
      PROVE  /\ m \in Messages
             /\ \/ m.to = "tabs" /\ m.payload \in {Nothing, m.stream}
                \/ m.to = "asker" /\ (m.payload \in {Nothing, m.ask.stream}
                                      \/ m.ask.stream = NoStream)
  <2>1. CASE m = Update(k, p)
    BY <2>1, UpdateFits
  <2>2. CASE m \in AnswersTo(Joined(k), p, via)
    <3>1. PICK r \in Joined(k) : m = Answer(r, p, via)
      BY <2>2 DEF AnswersTo
    <3> QED  BY <3>1, JoinedAsk, AnswerFits
  <2> QED  BY <1>1, <2>1, <2>2
<1> QED  BY <1>1 DEF SentOK, RightStream, Messages

LEMMA NothingSent ==
  ASSUME sent' = {}
  PROVE  SentOK'
BY DEF SentOK, RightStream

-----------------------------------------------------------------------------
(* The end of a fetch keeps the invariant's parts it touches. *)

LEMMA SucceedOK ==
  ASSUME RequestsOK, JobsOK, PaceOK, NEW j \in Jobs, NEW p \in Ids,
         Fits(j[2], p), Succeed(j, p)
  PROVE  RequestsOK' /\ JobsOK' /\ PaceOK' /\ SentOK'
<1>1. JobsOK'
  BY JobPut, JobTypes DEF Succeed
<1>2. j[2] \in Keys /\ p \in Payloads
  BY JobNames DEF Payloads
<1>3. CASE j = Warm
  <2>1. requests' = ReleaseWaiters /\ sent' = {} /\ pace' = pace
    BY <1>3, JobNames DEF Succeed
  <2>2. RequestsOK' /\ SentOK'
    BY <2>1, WaitersReleasedOK, NothingSent
  <2> QED  BY <1>1, <2>1, <2>2 DEF PaceOK
<1>4. CASE j # Warm /\ j[1] = "soft"
  <2>1. pace' = PaceAfterFetch(j[2], TRUE) /\ sent' = {Update(j[2], p)}
        /\ requests' = requests
    BY <1>4 DEF Succeed, Warm
  <2> QED  BY <1>1, <1>2, <2>1, FetchPaceOK, SettledSent
           DEF RequestsOK, InHand, KeyOf
<1>5. CASE j # Warm /\ j[1] = "sync"
  <2>1. /\ pace' = PaceAfterFetch(j[2], TRUE)
        /\ requests' = Released(Joined(j[2]))
        /\ sent' = {Update(j[2], p)} \cup AnswersTo(Joined(j[2]), p, "network")
    BY <1>5 DEF Succeed
  <2> QED  BY <1>1, <1>2, <2>1, FetchPaceOK, SettledSent, ReleasedOK
<1> QED  BY <1>3, <1>4, <1>5, JobNames

LEMMA SettleFailedOK ==
  ASSUME RequestsOK, JobsOK, PaceOK, NEW k \in Keys, NEW p \in Payloads,
         p = Nothing \/ Fits(k, p), NEW via \in {"none", "fallback"},
         SettleFailed(k, p, via)
  PROVE  RequestsOK' /\ JobsOK' /\ PaceOK' /\ SentOK'
<1>1. JobsOK'
  BY JobPut, JobTypes, JobNames DEF SettleFailed
<1>2. RequestsOK'
  BY ReleasedOK DEF SettleFailed
<1>3. PaceOK'
  BY FetchPaceOK DEF SettleFailed
<1>4. SentOK'
  BY SettledSent DEF SettleFailed
<1> QED  BY <1>1, <1>2, <1>3, <1>4

LEMMA FailOK ==
  ASSUME RequestsOK, JobsOK, PaceOK, NEW j \in Jobs, Fail(j)
  PROVE  RequestsOK' /\ JobsOK' /\ PaceOK' /\ SentOK'
<1>1. j[2] \in Keys /\ Nothing \in Payloads
  BY JobNames DEF Payloads
<1>2. CASE j = Warm
  <2>1. /\ jobs' = [jobs EXCEPT ![j] = NoJob] /\ requests' = ReleaseWaiters
        /\ sent' = {} /\ pace' = pace
    BY <1>2, JobNames DEF Fail
  <2>2. JobsOK'
    BY <2>1, JobPut, JobTypes
  <2>3. RequestsOK' /\ SentOK'
    BY <2>1, WaitersReleasedOK, NothingSent
  <2> QED  BY <2>1, <2>2, <2>3 DEF PaceOK
<1>3. CASE j # Warm /\ j[1] = "soft"
  <2>1. /\ jobs' = [jobs EXCEPT ![j] = NoJob] /\ requests' = requests
        /\ sent' = {Update(j[2], Nothing)} /\ pace' = PaceAfterFetch(j[2], FALSE)
    BY <1>3 DEF Fail
  <2> QED  BY <1>1, <2>1, JobPut, JobTypes, FetchPaceOK, SettledSent
           DEF RequestsOK, InHand, KeyOf
<1>4. CASE j # Warm /\ j[1] = "sync" /\ j[2][1] = "full" /\ j[2][2] # NoStream
  <2>1. /\ jobs' = [jobs EXCEPT ![j].stage = "fallback"] /\ requests' = requests
        /\ sent' = {} /\ pace' = pace
    BY <1>4 DEF Fail
  <2> QED  BY <2>1, JobStaged, NothingSent DEF PaceOK, RequestsOK, InHand, KeyOf
<1>5. CASE j # Warm /\ j[1] = "sync" /\ ~ (j[2][1] = "full" /\ j[2][2] # NoStream)
  <2>1. SettleFailed(j[2], Nothing, "none")
    BY <1>5 DEF Fail
  <2> QED  BY <1>1, <2>1, SettleFailedOK
<1> QED  BY <1>2, <1>3, <1>4, <1>5, JobNames

-----------------------------------------------------------------------------
(* What each step keeps. *)

LEMMA Untouched ==
  /\ CacheOK /\ UNCHANGED cache => CacheOK'
  /\ RequestsOK /\ UNCHANGED requests => RequestsOK'
  /\ JobsOK /\ UNCHANGED jobs => JobsOK'
  /\ PaceOK /\ UNCHANGED pace => PaceOK'
  /\ RestOK /\ UNCHANGED <<keep, sweep>> => RestOK'
  /\ sent' = {} => SentOK'
BY NothingSent DEF CacheOK, RequestsOK, InHand, KeyOf, JobsOK, PaceOK, RestOK

LEMMA JoinOK ==
  ASSUME RequestsOK, JobsOK, NEW r \in Requests, InHand(r), Join(r)
  PROVE  RequestsOK' /\ JobsOK'
<1>1. KeyOf(r) \in Keys
  BY KeyOfAsk DEF RequestsOK
<1>2. RequestsOK'
  BY StageSetOK DEF Join
<1>3. JobsOK'
  <2> DEFINE begun(s, f) == [jobs EXCEPT ![Sync(KeyOf(r))] = Start(s, f)]
  <2>1. \/ jobs' = jobs
        \/ \E s \in {"look", "net"}, f \in BOOLEAN : jobs' = begun(s, f)
    <3>1. CASE jobs[Sync(KeyOf(r))].stage # "none"
      BY <3>1 DEF Join
    <3>2. CASE jobs[Sync(KeyOf(r))].stage = "none"
      <4>1. jobs' = begun(IF requests[r].ask.kind = "retry" THEN "net" ELSE "look",
                          requests[r].ask.kind = "refresh")
        BY <3>2 DEF Join
      <4> QED  BY <4>1, Zenon
    <3> QED  BY <3>1, <3>2
  <2>2. CASE jobs' = jobs
    BY <2>2, Untouched
  <2>3. ASSUME NEW s \in {"look", "net"}, NEW f \in BOOLEAN, jobs' = begun(s, f)
        PROVE  JobsOK'
    <3>1. Start(s, f) \in JobType /\ Start(s, f).stage \notin {"cover", "write"}
      BY JobTypes
    <3>2. Sync(KeyOf(r)) \in Jobs
      BY <1>1, JobNames
    <3> QED  BY <2>3, <3>1, <3>2, JobPut
  <2> QED  BY <2>1, <2>2, <2>3
<1> QED  BY <1>2, <1>3

LEMMA AskKeeps ==
  ASSUME Inv, NEW r \in Requests, NEW a \in Asks, AskPulse(r, a)
  PROVE  Inv'
<1>1. RequestsOK'
  BY DEF Inv, RequestsOK, AskPulse, RequestType, NoRequest, InHand, KeyOf
<1> QED  BY <1>1, Untouched DEF Inv, AskPulse

LEMMA ReadKeeps ==
  ASSUME Inv, NEW r \in Requests, Read(r)
  PROVE  Inv'
<1> DEFINE e == Cached(KeyOf(r))
<1>1. InHand(r) /\ KeyOf(r) \in Keys /\ requests[r].ask \in Asks
  BY KeyOfAsk DEF Read, InHand, Inv, RequestsOK
<1>2. RequestsOK' /\ JobsOK'
  <2>1. CASE Expired(Stored(KeyOf(r)))
    <3>1. requests' = [requests EXCEPT ![r].stage = "purge"] /\ jobs' = jobs
      BY <2>1 DEF Read, Cached
    <3> QED  BY <1>1, <3>1, StageSetOK, Untouched DEF Inv
  <2>2. CASE ~ Expired(Stored(KeyOf(r))) /\ e # Nothing
              /\ requests[r].ask.kind # "retry"
    <3>1. requests' = [requests EXCEPT ![r].stage = "cover", ![r].entry = e]
          /\ jobs' = jobs
      BY <2>2 DEF Read
    <3>2. e \in Entries /\ Fits(KeyOf(r), e.stream)
      BY <1>1, <2>2, CachedFits DEF Inv
    <3> HIDE DEF e
    <3>3. RequestsOK'
      BY <1>1, <3>1, <3>2 DEF Inv, RequestsOK, InHand, KeyOf, RequestType
    <3> QED  BY <3>1, <3>3, Untouched DEF Inv
  <2>3. CASE ~ Expired(Stored(KeyOf(r)))
              /\ ~ (e # Nothing /\ requests[r].ask.kind # "retry")
    <3>1. Join(r)
      BY <2>3 DEF Read
    <3> QED  BY <1>1, <3>1, JoinOK DEF Inv
  <2> QED  BY <2>1, <2>2, <2>3
<1> QED  BY <1>2, Untouched DEF Inv, Read

LEMMA PurgeKeeps ==
  ASSUME Inv, NEW r \in Requests, Purge(r)
  PROVE  Inv'
<1>1. RequestsOK' /\ JobsOK'
  BY JoinOK DEF Inv, Purge, InHand
<1>2. CacheOK'
  BY WithoutOK DEF Inv, Purge
<1> QED  BY <1>1, <1>2, Untouched DEF Inv, Purge

LEMMA ReplyKeeps ==
  ASSUME Inv, NEW r \in Requests, Reply(r)
  PROVE  Inv'
<1> DEFINE e == requests[r].entry
           forced == requests[r].ask.kind = "refresh"
<1>1. /\ requests[r].ask \in Asks /\ KeyOf(r) \in Keys
      /\ e \in Entries /\ Fits(KeyOf(r), e.stream)
  BY KeyOfAsk DEF Reply, InHand, Inv, RequestsOK
<1>2. e.stream \in Payloads
  BY <1>1 DEF Entries, Payloads
<1>3. JobsOK' /\ PaceOK'
  <2>1. jobs' = WithRevalidation(jobs, KeyOf(r), e, forced)
        /\ pace' = PaceAfterStart(KeyOf(r), e, forced)
    BY DEF Reply
  <2>2. forced \in BOOLEAN
    OBVIOUS
  <2> HIDE DEF e, forced
  <2> QED  BY <1>1, <2>1, <2>2, RevalidationOK DEF Inv
<1>4. RequestsOK'
  BY ReleasedOK DEF Inv, Reply
<1>5. SentOK'
  <2>1. sent' = {Answer(r, e.stream, "cache")}
    BY DEF Reply
  <2> HIDE DEF e
  <2> QED  BY <1>1, <1>2, <2>1, AnswerFits DEF SentOK, RightStream
<1> QED  BY <1>3, <1>4, <1>5, Untouched DEF Inv, Reply

LEMMA LookKeeps ==
  ASSUME Inv, NEW j \in Jobs, Look(j)
  PROVE  Inv'
<1> DEFINE e == Cached(j[2])
<1>1. RequestsOK' /\ JobsOK'
  <2>1. \/ jobs' = [jobs EXCEPT ![j] = NoJob] /\ requests' = ReleaseWaiters
        \/ /\ \E s \in {"purge", "net"} :
                jobs' = [jobs EXCEPT ![j].stage = s, ![j].entry = Nothing]
           /\ requests' = requests
        \/ /\ e # Nothing
           /\ jobs' = [jobs EXCEPT ![j].stage = "cover", ![j].entry = e]
           /\ requests' = requests
    BY DEF Look
  <2>2. CASE jobs' = [jobs EXCEPT ![j] = NoJob] /\ requests' = ReleaseWaiters
    BY <2>2, JobPut, JobTypes, WaitersReleasedOK DEF Inv
  <2>3. ASSUME NEW s \in {"purge", "net"}, requests' = requests,
               jobs' = [jobs EXCEPT ![j].stage = s, ![j].entry = Nothing]
        PROVE  RequestsOK' /\ JobsOK'
    <3>1. JobsOK'
      BY <2>3, ZenonT(60) DEF Inv, JobsOK, JobType
    <3> QED  BY <2>3, <3>1, Untouched DEF Inv
  <2>4. CASE /\ e # Nothing
             /\ jobs' = [jobs EXCEPT ![j].stage = "cover", ![j].entry = e]
             /\ requests' = requests
    <3>1. e \in Entries /\ Fits(j[2], e.stream)
      BY <2>4, CachedFits, JobNames DEF Inv
    <3> HIDE DEF e
    <3>2. JobsOK'
      BY <2>4, <3>1, ZenonT(60) DEF Inv, JobsOK, JobType
    <3> QED  BY <2>4, <3>2, Untouched DEF Inv
  <2> QED  BY <2>1, <2>2, <2>3, <2>4
<1> QED  BY <1>1, Untouched DEF Inv, Look

LEMMA JobPurgeKeeps ==
  ASSUME Inv, NEW j \in Jobs, JobPurge(j)
  PROVE  Inv'
<1>1. CacheOK'
  BY WithoutOK DEF Inv, JobPurge
<1>2. JobsOK'
  BY JobStaged DEF Inv, JobPurge
<1> QED  BY <1>1, <1>2, Untouched DEF Inv, JobPurge

LEMMA SyncReplyKeeps ==
  ASSUME Inv, NEW k \in Keys, SyncReply(k)
  PROVE  Inv'
<1> DEFINE job == jobs[Sync(k)]
<1>1. job \in JobType /\ job.entry \in Entries /\ Fits(k, job.entry.stream)
  BY JobNames DEF Inv, JobsOK, SyncReply
<1>2. job.entry.stream \in Payloads /\ job.forced \in BOOLEAN
  BY <1>1 DEF Entries, Payloads, JobType
<1>3. JobsOK' /\ PaceOK'
  <2>1. /\ jobs' = WithRevalidation([jobs EXCEPT ![Sync(k)] = NoJob], k,
                                    job.entry, job.forced)
        /\ pace' = PaceAfterStart(k, job.entry, job.forced)
    BY DEF SyncReply
  <2> HIDE DEF job
  <2> QED  BY <1>2, <2>1, RevalidationOK DEF Inv
<1>4. SentOK'
  <2>1. sent' = AnswersTo(Joined(k), job.entry.stream, "cache")
    BY DEF SyncReply
  <2> HIDE DEF job
  <2> QED  BY <1>1, <1>2, <2>1, SettledSent DEF Inv
<1>5. RequestsOK'
  BY ReleasedOK DEF Inv, SyncReply
<1> QED  BY <1>3, <1>4, <1>5, Untouched DEF Inv, SyncReply

LEMMA NetAnswersKeeps ==
  ASSUME Inv, NEW j \in Jobs, NEW p \in Payloads, NetAnswers(j, p)
  PROVE  Inv'
<1>1. RequestsOK' /\ JobsOK' /\ PaceOK' /\ SentOK'
  <2>1. CASE p = Nothing \/ ~ Fits(j[2], p)
    BY <2>1, FailOK DEF Inv, NetAnswers
  <2>2. CASE ~ (p = Nothing \/ ~ Fits(j[2], p)) /\ MayCache
    <3> DEFINE entry == [stream |-> p, age |-> 0]
    <3>1. entry \in Entries /\ Fits(j[2], entry.stream)
      BY <2>2, PulseGetAssumption DEF Entries, Payloads
    <3>2. /\ jobs' = [jobs EXCEPT ![j].stage = "write", ![j].entry = entry]
          /\ sent' = {} /\ requests' = requests /\ pace' = pace
      BY <2>2 DEF NetAnswers
    <3> HIDE DEF entry
    <3>3. JobsOK'
      BY <3>1, <3>2, ZenonT(60) DEF Inv, JobsOK, JobType
    <3> QED  BY <3>2, <3>3, Untouched DEF Inv
  <2>3. CASE ~ (p = Nothing \/ ~ Fits(j[2], p)) /\ ~ MayCache
    <3>1. Succeed(j, p) /\ p \in Ids
      BY <2>3 DEF NetAnswers, Payloads
    <3> QED  BY <2>3, <3>1, SucceedOK DEF Inv
  <2> QED  BY <2>1, <2>2, <2>3
<1> QED  BY <1>1, Untouched DEF Inv, NetAnswers

LEMMA WriteKeeps ==
  ASSUME Inv, NEW j \in Jobs, Write(j)
  PROVE  Inv'
<1>1. /\ jobs[j].entry \in Entries /\ Fits(j[2], jobs[j].entry.stream)
      /\ j[2] \in Keys
  BY JobNames DEF Inv, JobsOK, Write
<1>2. jobs[j].entry.stream \in Ids
  BY <1>1 DEF Entries
<1>3. RequestsOK' /\ JobsOK' /\ PaceOK' /\ SentOK'
  BY <1>1, <1>2, SucceedOK DEF Inv, Write
<1>4. CacheOK'
  BY <1>1, WrittenOK DEF Inv, Write
<1> QED  BY <1>3, <1>4, Untouched DEF Inv, Write

LEMMA FallbackKeeps ==
  ASSUME Inv, NEW k \in Keys, Fallback(k)
  PROVE  Inv'
<1> DEFINE recent == <<"recent", k[2]>>
           e == Cached(recent)
<1>1. RequestsOK' /\ JobsOK' /\ PaceOK' /\ SentOK'
  <2>1. CASE Expired(Stored(recent))
    <3>1. /\ jobs' = [jobs EXCEPT ![Sync(k)].stage = "giveUp"]
          /\ sent' = {} /\ requests' = requests /\ pace' = pace
      BY <2>1 DEF Fallback
    <3>2. JobsOK'
      BY <3>1, JobStaged, JobNames DEF Inv
    <3> QED  BY <3>1, <3>2, Untouched DEF Inv
  <2>2. CASE ~ Expired(Stored(recent)) /\ e = Nothing
    <3>1. SettleFailed(k, Nothing, "none")
      BY <2>2 DEF Fallback
    <3> QED  BY <3>1, SettleFailedOK DEF Inv, Payloads
  <2>3. CASE ~ Expired(Stored(recent)) /\ e # Nothing
    <3>1. SettleFailed(k, e.stream, "fallback")
      BY <2>3 DEF Fallback
    <3>2. recent \in Keys /\ recent[2] = k[2]
      BY KeyParts
    <3> HIDE DEF recent
    <3>3. e \in Entries /\ Fits(recent, e.stream)
      BY <2>3, <3>2, CachedFits DEF Inv
    <3>4. e.stream \in Payloads /\ Fits(k, e.stream)
      BY <3>2, <3>3 DEF Entries, Payloads, Fits
    <3> HIDE DEF e
    <3> QED  BY <3>1, <3>4, SettleFailedOK DEF Inv
  <2> QED  BY <2>1, <2>2, <2>3
<1> QED  BY <1>1, Untouched DEF Inv, Fallback

LEMMA GiveUpKeeps ==
  ASSUME Inv, NEW k \in Keys, GiveUp(k)
  PROVE  Inv'
<1>1. RequestsOK' /\ JobsOK' /\ PaceOK' /\ SentOK'
  BY SettleFailedOK DEF Inv, GiveUp, Payloads
<1>2. CacheOK'
  BY WithoutOK DEF Inv, GiveUp
<1> QED  BY <1>1, <1>2, Untouched DEF Inv, GiveUp

(* Steps that only touch the cache, the setting or its clearing. *)
LEMMA SettingsKeep ==
  ASSUME Inv,
         \/ TurnOn \/ ListKeys \/ RemoveKeys
         \/ \E off \in BOOLEAN : ClearCache(off)
         \/ \E k \in Keys : Evict(k)
  PROVE  Inv'
<1>1. sent' = {} /\ requests' = requests /\ jobs' = jobs /\ pace' = pace
  BY DEF TurnOn, ListKeys, RemoveKeys, ClearCache, Evict
<1>2. CacheOK'
  BY WithoutOK, Untouched DEF Inv, TurnOn, ListKeys, RemoveKeys, ClearCache, Evict
<1>3. RestOK'
  <2>1. CASE TurnOn
    BY <2>1 DEF Inv, RestOK, TurnOn
  <2>2. CASE \E k \in Keys : Evict(k)
    BY <2>2, Untouched DEF Inv, Evict
  <2>3. CASE ListKeys
    <3>1. sweep' = [stage |-> "remove", keys |-> {k \in Keys : cache[k] # Nothing}]
          /\ keep' = keep
      BY <2>3 DEF ListKeys
    <3>2. {k \in Keys : cache[k] # Nothing} \in SUBSET Keys
      OBVIOUS
    <3> QED  BY <3>1, <3>2 DEF Inv, RestOK
  <2>4. CASE RemoveKeys
    BY <2>4 DEF Inv, RestOK, RemoveKeys, NoSweep
  <2>5. ASSUME NEW off \in BOOLEAN, ClearCache(off)
        PROVE  RestOK'
    <3>1. sweep' = [stage |-> "list", keys |-> {}]
      BY <2>5 DEF ClearCache
    <3>2. keep' \in BOOLEAN
      BY <2>5 DEF ClearCache
    <3> QED  BY <3>1, <3>2 DEF RestOK
  <2> QED  BY <2>1, <2>2, <2>3, <2>4, <2>5
<1> QED  BY <1>1, <1>2, <1>3, Untouched DEF Inv

LEMMA TickKeeps ==
  ASSUME Inv, Tick
  PROVE  Inv'
<1>1. \A top \in Nat : \A n \in 0 .. top : UpTo(n, top) \in 0 .. top
  BY DEF UpTo
<1>2. \A top \in Nat : \A n \in 0 .. top : Down(n) \in 0 .. top
  BY DEF Down
<1>3. MinGap \in Nat /\ Cooldown \in Nat /\ Ttl + 1 \in Nat
  BY PulseGetAssumption
<1>4. CacheOK'
  <2>1. ASSUME NEW k \in Keys, cache[k] # Nothing
        PROVE  /\ cache'[k] \in Entries
               /\ cache'[k].stream = cache[k].stream
    <3>1. cache[k] \in Entries
      BY <2>1 DEF Inv, CacheOK
    <3>2. cache'[k] = [cache[k] EXCEPT !.age = UpTo(cache[k].age, Ttl + 1)]
      BY <2>1 DEF Tick
    <3>3. UpTo(cache[k].age, Ttl + 1) \in 0 .. Ttl + 1
      <4>1. cache[k].age \in 0 .. Ttl + 1
        BY <3>1 DEF Entries
      <4> QED  BY <1>1, <1>3, <4>1
    <3> QED  BY <3>1, <3>2, <3>3 DEF Entries
  <2>2. \A k \in Keys : cache[k] = Nothing => cache'[k] = Nothing
    BY DEF Tick
  <2>3. cache' = [k \in Keys |-> cache'[k]]
    BY DEF Tick
  <2> QED  BY <2>1, <2>2, <2>3 DEF Inv, CacheOK
<1>5. PaceOK'
  <2>1. ASSUME NEW k \in Keys
        PROVE  pace'[k] \in PaceType
    <3>1. pace[k] \in PaceType
      BY DEF Inv, PaceOK
    <3>2. pace'[k] = [gap |-> Down(pace[k].gap), cool |-> Down(pace[k].cool),
                      begun |-> UpTo(pace[k].begun, MinGap)]
      BY DEF Tick
    <3>3. /\ Down(pace[k].gap) \in 0 .. MinGap
          /\ Down(pace[k].cool) \in 0 .. Cooldown
          /\ UpTo(pace[k].begun, MinGap) \in 0 .. MinGap
      <4>1. /\ pace[k].gap \in 0 .. MinGap /\ pace[k].cool \in 0 .. Cooldown
            /\ pace[k].begun \in 0 .. MinGap
        BY <3>1 DEF PaceType
      <4> QED  BY <1>1, <1>2, <1>3, <4>1
    <3> QED  BY <3>2, <3>3 DEF PaceType
  <2>2. pace' = [k \in Keys |-> pace'[k]]
    BY DEF Tick
  <2> QED  BY <2>1, <2>2 DEF PaceOK
<1> QED  BY <1>4, <1>5, Untouched DEF Inv, Tick

LEMMA RestartKeeps ==
  ASSUME Inv, Restart
  PROVE  Inv'
<1>1. RequestsOK'
  BY IdleType DEF Restart, RequestsOK, InHand
<1>2. JobsOK'
  BY JobTypes DEF Restart, JobsOK
<1>3. PaceOK'
  BY PulseGetAssumption DEF Restart, PaceOK, PaceType, NoPace
<1> QED  BY <1>1, <1>2, <1>3, Untouched DEF Inv, Restart

LEMMA WarmKeeps ==
  ASSUME Inv, StartWarm
  PROVE  Inv'
<1>1. JobsOK'
  BY JobPut, JobTypes, JobNames DEF Inv, StartWarm
<1> QED  BY <1>1, Untouched DEF Inv, StartWarm

-----------------------------------------------------------------------------
LEMMA InitInv == Init => Inv
<1> SUFFICES ASSUME Init PROVE Inv
  OBVIOUS
<1>1. CacheOK /\ SentOK /\ RestOK
  BY DEF Init, CacheOK, SentOK, RightStream, RestOK, NoSweep
<1>2. RequestsOK
  BY IdleType DEF Init, RequestsOK, InHand
<1>3. JobsOK
  BY JobTypes DEF Init, JobsOK
<1>4. PaceOK
  BY PulseGetAssumption DEF Init, PaceOK, PaceType, NoPace
<1> QED  BY <1>1, <1>2, <1>3, <1>4 DEF Inv

LEMMA NextInv == Inv /\ [Next]_vars => Inv'
<1> SUFFICES ASSUME Inv, [Next]_vars PROVE Inv'
  OBVIOUS
<1>1. CASE \E r \in Requests, a \in Asks : AskPulse(r, a)
  BY <1>1, AskKeeps
<1>2. CASE \E r \in Requests : RequestStep(r)
  BY <1>2, ReadKeeps, PurgeKeeps, ReplyKeeps DEF RequestStep
<1>3. CASE \E j \in Jobs : JobStep(j)
  BY <1>3, LookKeeps, JobPurgeKeeps, WriteKeeps, NetAnswersKeeps DEF JobStep
<1>4. CASE \E k \in Keys : SyncStep(k)
  BY <1>4, SyncReplyKeeps, FallbackKeeps, GiveUpKeeps DEF SyncStep
<1>5. CASE \/ TurnOn \/ ListKeys \/ RemoveKeys
           \/ \E off \in BOOLEAN : ClearCache(off)
           \/ \E k \in Keys : Evict(k)
  BY <1>5, SettingsKeep
<1>6. CASE StartWarm \/ Tick \/ Restart
  BY <1>6, WarmKeeps, TickKeeps, RestartKeeps
<1>7. CASE UNCHANGED vars
  BY <1>7 DEF vars, Inv, CacheOK, RequestsOK, InHand, KeyOf, JobsOK, PaceOK,
     SentOK, RightStream, RestOK
<1> QED  BY <1>1, <1>2, <1>3, <1>4, <1>5, <1>6, <1>7 DEF Next

LEMMA InvImplies == Inv => TypeOK /\ RightStream
BY DEF Inv, TypeOK, CacheOK, RequestsOK, JobsOK, PaceOK, SentOK, RestOK

(* The types hold, and every entry kept under a stream's own key is of     *)
(* that stream.                                                            *)
THEOREM TypeCorrect == Spec => []TypeOK
BY InitInv, NextInv, InvImplies, PTL DEF Spec

(* No answer and no broadcast carries another stream's payload than the    *)
(* one asked for: through the generic entry, a shared task or the fallback. *)
THEOREM StreamsNeverMix == Spec => []RightStream
BY InitInv, NextInv, InvImplies, PTL DEF Spec

-----------------------------------------------------------------------------
(* No caller is left behind. *)

(* Tasks that go on keep their callers; a request may leave them. *)
LEMMA WorkGoesOn ==
  ASSUME WaitersHaveWork, RequestsOK,
         \A j \in Jobs : jobs[j].stage # "none" => jobs'[j].stage # "none",
         \A r \in Requests :
           \/ requests'[r].stage \notin {"wait", "joined"}
           \/ requests'[r] = requests[r]
  PROVE  WaitersHaveWork'
<1> SUFFICES ASSUME NEW r \in Requests, requests'[r] = requests[r]
             PROVE  /\ requests'[r].stage = "wait" => jobs'[Warm].stage # "none"
                    /\ requests'[r].stage = "joined" =>
                         jobs'[Sync(KeyOf(r))].stage # "none"
  BY DEF WaitersHaveWork, KeyOf
<1>1. CASE requests[r].stage = "wait"
  BY <1>1, JobNames DEF WaitersHaveWork
<1>2. CASE requests[r].stage = "joined"
  <2>1. KeyOf(r) \in Keys
    BY <1>2, KeyOfAsk DEF RequestsOK, InHand
  <2> QED  BY <1>2, <2>1, JobNames DEF WaitersHaveWork
<1> QED  BY <1>1, <1>2

LEMMA SettledWork ==
  ASSUME WaitersHaveWork, RequestsOK, NEW k \in Keys,
         requests' = Released(Joined(k)),
         \A j \in Jobs : j # Sync(k) /\ jobs[j].stage # "none"
                         => jobs'[j].stage # "none"
  PROVE  WaitersHaveWork'
<1> SUFFICES ASSUME NEW r \in Requests, requests'[r].stage # "idle"
             PROVE  /\ requests'[r].stage = "wait" => jobs'[Warm].stage # "none"
                    /\ requests'[r].stage = "joined" =>
                         jobs'[Sync(KeyOf(r)')].stage # "none"
  BY DEF WaitersHaveWork, KeyOf
<1>1. requests'[r] = requests[r] /\ r \notin Joined(k)
  BY IdleType DEF Released
<1>2. CASE requests[r].stage = "wait"
  BY <1>1, <1>2, JobNames DEF WaitersHaveWork
<1>3. CASE requests[r].stage = "joined"
  <2>1. KeyOf(r) \in Keys /\ KeyOf(r) # k /\ KeyOf(r)' = KeyOf(r)
    BY <1>1, <1>3, KeyOfAsk DEF RequestsOK, InHand, Joined, KeyOf
  <2>2. Sync(KeyOf(r)) \in Jobs /\ Sync(KeyOf(r)) # Sync(k)
    BY <2>1, JobNames
  <2> QED  BY <1>1, <1>3, <2>1, <2>2 DEF WaitersHaveWork
<1> QED  BY <1>1, <1>2, <1>3

LEMMA WarmedWork ==
  ASSUME WaitersHaveWork, RequestsOK, JobsOK, requests' = ReleaseWaiters,
         jobs' = [jobs EXCEPT ![Warm] = NoJob]
  PROVE  WaitersHaveWork'
<1> SUFFICES ASSUME NEW r \in Requests
             PROVE  /\ requests'[r].stage # "wait"
                    /\ requests'[r].stage = "joined" =>
                         jobs'[Sync(KeyOf(r)')].stage # "none"
  BY DEF WaitersHaveWork, KeyOf
<1>1. requests'[r].stage # "wait"
  BY DEF ReleaseWaiters, RequestsOK, RequestType
<1>2. CASE requests'[r].stage = "joined"
  <2>1. requests'[r] = requests[r] /\ KeyOf(r)' = KeyOf(r)
    BY <1>2 DEF ReleaseWaiters, RequestsOK, RequestType, KeyOf
  <2>2. KeyOf(r) \in Keys
    BY <1>2, <2>1, KeyOfAsk DEF RequestsOK, InHand
  <2>3. Sync(KeyOf(r)) \in Jobs /\ Sync(KeyOf(r)) # Warm
    BY <2>2, JobNames
  <2> QED  BY <1>2, <2>1, <2>3 DEF WaitersHaveWork, JobsOK
<1> QED  BY <1>1, <1>2

LEMMA SoftEndedWork ==
  ASSUME WaitersHaveWork, RequestsOK, JobsOK, NEW j \in Jobs, j[1] = "soft",
         requests' = requests, jobs' = [jobs EXCEPT ![j] = NoJob]
  PROVE  WaitersHaveWork'
<1>1. j # Warm /\ \A k \in Keys : j # Sync(k)
  BY JobNames
<1>2. ASSUME NEW r \in Requests, requests[r].stage = "joined"
      PROVE  KeyOf(r) \in Keys
  BY <1>2, KeyOfAsk DEF RequestsOK, InHand
<1>3. \A r : KeyOf(r)' = KeyOf(r)
  BY DEF KeyOf
<1> QED  BY <1>1, <1>2, <1>3, JobNames DEF WaitersHaveWork, JobsOK

LEMMA SyncEndedWork ==
  ASSUME WaitersHaveWork, RequestsOK, JobsOK, NEW k \in Keys,
         requests' = Released(Joined(k)),
         jobs' = [jobs EXCEPT ![Sync(k)] = NoJob]
  PROVE  WaitersHaveWork'
<1>1. \A i \in Jobs : i # Sync(k) => jobs'[i] = jobs[i]
  BY DEF JobsOK
<1> QED  BY <1>1, SettledWork

LEMMA SucceedWork ==
  ASSUME WaitersHaveWork, RequestsOK, JobsOK, NEW j \in Jobs, NEW p, Succeed(j, p)
  PROVE  WaitersHaveWork'
<1>1. CASE j = Warm
  BY <1>1, WarmedWork, JobNames DEF Succeed
<1>2. CASE j[1] = "soft"
  BY <1>2, SoftEndedWork, JobNames DEF Succeed
<1>3. CASE j[1] = "sync"
  <2>1. /\ requests' = Released(Joined(j[2])) /\ jobs' = [jobs EXCEPT ![j] = NoJob]
        /\ j = Sync(j[2]) /\ j[2] \in Keys
    BY <1>3, JobNames DEF Succeed
  <2> QED  BY <2>1, SyncEndedWork
<1> QED  BY <1>1, <1>2, <1>3, JobNames

LEMMA SettleFailedWork ==
  ASSUME WaitersHaveWork, RequestsOK, JobsOK, NEW k \in Keys, NEW p, NEW via,
         SettleFailed(k, p, via)
  PROVE  WaitersHaveWork'
BY SyncEndedWork DEF SettleFailed

LEMMA StagedWork ==
  ASSUME WaitersHaveWork, RequestsOK, JobsOK, requests' = requests, NEW j \in Jobs,
         NEW s \in {"look", "purge", "net", "cover", "write", "fallback", "giveUp"},
         NEW e, \/ jobs' = [jobs EXCEPT ![j].stage = s]
                \/ jobs' = [jobs EXCEPT ![j].stage = s, ![j].entry = e]
                \/ jobs' = [jobs EXCEPT ![j] = Start(s, e)]
  PROVE  WaitersHaveWork'
<1>1. \A i \in Jobs : jobs[i].stage # "none" => jobs'[i].stage # "none"
  BY DEF JobsOK, JobType, Start
<1> QED  BY <1>1, WorkGoesOn

LEMMA FailWork ==
  ASSUME WaitersHaveWork, RequestsOK, JobsOK, NEW j \in Jobs, Fail(j)
  PROVE  WaitersHaveWork'
<1>1. CASE j = Warm
  BY <1>1, WarmedWork, JobNames DEF Fail
<1>2. CASE j[1] = "soft"
  BY <1>2, SoftEndedWork, JobNames DEF Fail
<1>3. CASE j[1] = "sync" /\ j[2][1] = "full" /\ j[2][2] # NoStream
  <2>1. jobs' = [jobs EXCEPT ![j].stage = "fallback"] /\ requests' = requests
    BY <1>3, JobNames DEF Fail
  <2> QED  BY <2>1, StagedWork
<1>4. CASE j[1] = "sync" /\ ~ (j[2][1] = "full" /\ j[2][2] # NoStream)
  <2>1. SettleFailed(j[2], Nothing, "none") /\ j[2] \in Keys
    BY <1>4, JobNames DEF Fail
  <2> QED  BY <2>1, SettleFailedWork
<1> QED  BY <1>1, <1>2, <1>3, <1>4, JobNames

LEMMA JoinWork ==
  ASSUME WaitersHaveWork, RequestsOK, JobsOK, NEW r \in Requests, InHand(r), Join(r)
  PROVE  WaitersHaveWork'
<1> DEFINE j == Sync(KeyOf(r))
<1>1. j \in Jobs
  BY KeyOfAsk, JobNames DEF RequestsOK
<1>2. requests' = [requests EXCEPT ![r].stage = "joined"]
  BY DEF Join
<1>3. /\ jobs'[j].stage # "none"
      /\ \A i \in Jobs : jobs[i].stage # "none" => jobs'[i].stage # "none"
  BY <1>1, JobTypes DEF Join, JobsOK, Start
<1> HIDE DEF j
<1>4. ASSUME NEW q \in Requests, q # r
      PROVE  /\ requests'[q].stage = "wait" => jobs'[Warm].stage # "none"
             /\ requests'[q].stage = "joined" =>
                  jobs'[Sync(KeyOf(q)')].stage # "none"
  <2>1. requests'[q] = requests[q] /\ KeyOf(q)' = KeyOf(q)
    BY <1>2, <1>4 DEF KeyOf, RequestsOK
  <2>2. requests[q].stage = "joined" => KeyOf(q) \in Keys
    BY KeyOfAsk DEF RequestsOK, InHand
  <2> QED  BY <1>3, <2>1, <2>2, JobNames DEF WaitersHaveWork
<1>5. requests'[r].stage = "joined" /\ KeyOf(r)' = KeyOf(r)
  BY <1>2 DEF RequestsOK, RequestType, KeyOf
<1> QED  BY <1>3, <1>4, <1>5 DEF WaitersHaveWork, j, KeyOf

LEMMA AskWork ==
  ASSUME Inv, WaitersHaveWork, NEW r \in Requests, NEW a \in Asks, AskPulse(r, a)
  PROVE  WaitersHaveWork'
<1>1. \A q \in Requests \ {r} : requests'[q] = requests[q]
  BY DEF AskPulse, Inv, RequestsOK
<1>2. /\ requests'[r].stage \in {"wait", "read"}
      /\ requests'[r].stage = "wait" => jobs'[Warm].stage # "none"
  BY DEF AskPulse, Inv, RequestsOK, NoRequest
<1>3. jobs' = jobs /\ \A q \in Requests \ {r} : KeyOf(q)' = KeyOf(q)
  BY <1>1 DEF AskPulse, KeyOf
<1> QED  BY <1>1, <1>2, <1>3 DEF WaitersHaveWork

LEMMA RequestStepWork ==
  ASSUME Inv, WaitersHaveWork, NEW r \in Requests, RequestStep(r)
  PROVE  WaitersHaveWork'
<1>1. CASE Read(r)
  <2>1. InHand(r)
    BY <1>1 DEF Read, InHand
  <2>2. \/ Join(r)
        \/ /\ jobs' = jobs /\ requests'[r].stage \in {"purge", "cover"}
           /\ \A q \in Requests \ {r} : requests'[q] = requests[q]
    BY <1>1 DEF Read, Inv, RequestsOK, RequestType
  <2> QED  BY <2>1, <2>2, JoinWork, WorkGoesOn DEF Inv
<1>2. CASE Purge(r)
  BY <1>2, JoinWork DEF Purge, InHand, Inv
<1>3. CASE Reply(r)
  <2>1. \A q \in Requests : requests'[q] \in {NoRequest, requests[q]}
    BY <1>3 DEF Reply, Released
  <2>2. \A j \in Jobs : jobs[j].stage # "none" => jobs'[j].stage # "none"
    BY <1>3, JobTypes DEF Reply, WithRevalidation, Inv, JobsOK, Start
  <2> QED  BY <2>1, <2>2, WorkGoesOn, IdleType DEF Inv
<1> QED  BY <1>1, <1>2, <1>3 DEF RequestStep

LEMMA JobStepWork ==
  ASSUME Inv, WaitersHaveWork, NEW j \in Jobs, JobStep(j)
  PROVE  WaitersHaveWork'
<1>1. CASE Look(j)
  <2>1. \/ j = Warm /\ jobs' = [jobs EXCEPT ![j] = NoJob] /\ requests' = ReleaseWaiters
        \/ /\ requests' = requests
           /\ \E s \in {"purge", "net", "cover"}, e \in {Nothing, Cached(j[2])} :
                jobs' = [jobs EXCEPT ![j].stage = s, ![j].entry = e]
    BY <1>1 DEF Look
  <2> QED  BY <2>1, WarmedWork, StagedWork DEF Inv
<1>2. CASE JobPurge(j)
  BY <1>2, StagedWork DEF JobPurge, Inv
<1>3. CASE Write(j)
  BY <1>3, SucceedWork DEF Write, Inv
<1>4. ASSUME NEW p \in Payloads, NetAnswers(j, p)
      PROVE  WaitersHaveWork'
  <2>1. \/ Fail(j) \/ Succeed(j, p)
        \/ /\ requests' = requests
           /\ jobs' = [jobs EXCEPT ![j].stage = "write",
                                   ![j].entry = [stream |-> p, age |-> 0]]
    BY <1>4 DEF NetAnswers
  <2> QED  BY <2>1, FailWork, SucceedWork, StagedWork DEF Inv
<1> QED  BY <1>1, <1>2, <1>3, <1>4 DEF JobStep

LEMMA SyncStepWork ==
  ASSUME Inv, WaitersHaveWork, NEW k \in Keys, SyncStep(k)
  PROVE  WaitersHaveWork'
<1>1. CASE SyncReply(k)
  <2>1. requests' = Released(Joined(k))
    BY <1>1 DEF SyncReply
  <2>2. \A j \in Jobs : j # Sync(k) /\ jobs[j].stage # "none"
                       => jobs'[j].stage # "none"
    BY <1>1, JobTypes, JobNames DEF SyncReply, WithRevalidation, Inv, JobsOK, Start
  <2> QED  BY <2>1, <2>2, SettledWork DEF Inv
<1>2. CASE Fallback(k)
  <2>1. \/ jobs' = [jobs EXCEPT ![Sync(k)].stage = "giveUp"] /\ requests' = requests
        \/ SettleFailed(k, Nothing, "none")
        \/ SettleFailed(k, Cached(<<"recent", k[2]>>).stream, "fallback")
    BY <1>2 DEF Fallback
  <2> QED  BY <2>1, SettleFailedWork, StagedWork, JobNames DEF Inv
<1>3. CASE GiveUp(k)
  BY <1>3, SettleFailedWork DEF GiveUp, Inv
<1> QED  BY <1>1, <1>2, <1>3 DEF SyncStep

LEMMA NextWork == Inv /\ WaitersHaveWork /\ [Next]_vars => WaitersHaveWork'
<1> SUFFICES ASSUME Inv, WaitersHaveWork, [Next]_vars PROVE WaitersHaveWork'
  OBVIOUS
<1>1. CASE \E r \in Requests, a \in Asks : AskPulse(r, a)
  BY <1>1, AskWork
<1>2. CASE \E r \in Requests : RequestStep(r)
  BY <1>2, RequestStepWork
<1>3. CASE \E j \in Jobs : JobStep(j)
  BY <1>3, JobStepWork
<1>4. CASE \E k \in Keys : SyncStep(k)
  BY <1>4, SyncStepWork
<1>5. CASE /\ requests' = requests
           /\ \/ jobs' = jobs
              \/ jobs' = [jobs EXCEPT ![Warm] = Start("look", FALSE)]
  <2>1. CASE jobs' = jobs
    BY <1>5, <2>1, WorkGoesOn DEF Inv
  <2>2. CASE jobs' = [jobs EXCEPT ![Warm] = Start("look", FALSE)]
    <3>1. Warm \in Jobs /\ RequestsOK /\ JobsOK /\ requests' = requests
      BY <1>5, JobNames DEF Inv
    <3> QED  BY <2>2, <3>1, StagedWork
  <2> QED  BY <1>5, <2>1, <2>2
<1>6. CASE Restart
  BY <1>6, IdleType DEF Restart, WaitersHaveWork
<1>7. CASE UNCHANGED vars
  BY <1>7, <1>5 DEF vars
<1> QED  BY <1>1, <1>2, <1>3, <1>4, <1>5, <1>6, <1>7
         DEF Next, TurnOn, ListKeys, RemoveKeys, ClearCache, Evict, Tick, StartWarm

(* Every caller that waits on the prefetch or on a shared fetch has one     *)
(* running to wait for.                                                    *)
THEOREM NobodyLeftWaiting == Spec => []WaitersHaveWork
<1>1. Init => WaitersHaveWork
  BY IdleType DEF Init, WaitersHaveWork
<1> QED  BY <1>1, InitInv, NextInv, NextWork, PTL DEF Spec

-----------------------------------------------------------------------------
(* Revalidations stay spaced: what a fetch leaves on the clock of its key  *)
(* outlasts the gap since the last revalidation began.                     *)
Paced ==
  \A k \in Keys :
    \/ jobs[Soft(k)].stage # "none"
    \/ pace[k].begun + pace[k].gap >= MinGap
    \/ pace[k].begun + pace[k].cool >= MinGap

LEMMA Clocks ==
  ASSUME PaceOK, NEW k \in Keys
  PROVE  /\ pace[k].gap \in 0 .. MinGap /\ pace[k].cool \in 0 .. Cooldown
         /\ pace[k].begun \in 0 .. MinGap
         /\ MinGap \in Nat /\ Cooldown \in Nat /\ MinGap <= Cooldown
BY PulseGetAssumption DEF PaceOK, PaceType

LEMMA PacedStep ==
  ASSUME Paced, PaceOK,
         \A k \in Keys :
           \/ jobs'[Soft(k)].stage # "none"
           \/ /\ pace'[k] = pace[k]
              /\ jobs[Soft(k)].stage # "none" => jobs'[Soft(k)].stage # "none"
           \/ pace' = PaceAfterFetch(k, TRUE)
           \/ pace' = PaceAfterFetch(k, FALSE)
  PROVE  Paced'
<1> SUFFICES ASSUME NEW k \in Keys, jobs'[Soft(k)].stage = "none"
             PROVE  \/ pace'[k].begun + pace'[k].gap >= MinGap
                    \/ pace'[k].begun + pace'[k].cool >= MinGap
  BY DEF Paced
<1>1. CASE pace'[k] = pace[k] /\ jobs[Soft(k)].stage = "none"
  BY <1>1 DEF Paced
<1>2. CASE pace' = PaceAfterFetch(k, TRUE)
  <2>1. pace'[k] = [pace[k] EXCEPT !.gap = MinGap, !.cool = 0]
    BY <1>2 DEF PaceAfterFetch, PaceOK
  <2>2. pace'[k].gap = MinGap /\ pace'[k].begun = pace[k].begun
    BY <2>1 DEF PaceOK, PaceType
  <2> QED  BY <2>2, Clocks
<1>3. CASE pace' = PaceAfterFetch(k, FALSE)
  <2>1. pace'[k] = [pace[k] EXCEPT !.cool = Cooldown]
    BY <1>3 DEF PaceAfterFetch, PaceOK
  <2>2. pace'[k].cool = Cooldown /\ pace'[k].begun = pace[k].begun
    BY <2>1 DEF PaceOK, PaceType
  <2> QED  BY <2>2, Clocks
<1> QED  BY <1>1, <1>2, <1>3

(* A soft task starts only where Revalidates says so. *)
Starts(k) ==
  /\ jobs[Soft(k)].stage = "none" /\ jobs'[Soft(k)].stage # "none"
  /\ ~ jobs'[Soft(k)].forced

Spaced == \A k \in Keys : Starts(k) => pace[k].begun = MinGap

LEMMA SoftNames ==
  /\ \A k, l \in Keys : Soft(k) = Soft(l) => k = l
  /\ \A k, l \in Keys : Soft(k) # Sync(l)
  /\ \A k \in Keys : Soft(k) # Warm /\ Soft(k) \in Jobs
  /\ \A j \in Jobs, k \in Keys : j = Soft(k) => j[2] = k
BY DEF Jobs, Sync, Soft, Warm, WarmKey

LEMMA QuietPaced ==
  ASSUME Paced, PaceOK, pace' = pace,
         \A k \in Keys : jobs[Soft(k)].stage # "none" <=> jobs'[Soft(k)].stage # "none"
  PROVE  Paced' /\ Spaced
BY PacedStep DEF Spaced, Starts

LEMMA FetchEndedPaced ==
  ASSUME Paced, PaceOK, JobsOK, NEW j \in Jobs, NEW ok \in BOOLEAN,
         pace' = PaceAfterFetch(j[2], ok), jobs' = [jobs EXCEPT ![j] = NoJob]
  PROVE  Paced' /\ Spaced
<1>1. ASSUME NEW k \in Keys
      PROVE  /\ jobs'[Soft(k)].stage # "none" => jobs[Soft(k)].stage # "none"
             /\ \/ pace'[k] = pace[k] /\ jobs'[Soft(k)] = jobs[Soft(k)]
                \/ pace' = PaceAfterFetch(k, TRUE)
                \/ pace' = PaceAfterFetch(k, FALSE)
  <2>1. jobs'[Soft(k)] = IF Soft(k) = j THEN NoJob ELSE jobs[Soft(k)]
    BY SoftNames DEF JobsOK
  <2>2. CASE j[2] = k
    BY <2>1, <2>2, JobTypes
  <2>3. CASE j[2] # k
    BY <2>1, <2>3, SoftNames, JobNames DEF PaceAfterFetch, PaceOK
  <2> QED  BY <2>2, <2>3
<1> QED  BY <1>1, PacedStep DEF Spaced, Starts

LEMMA RevalidationPaced ==
  ASSUME Paced, PaceOK, JobsOK, NEW k \in Keys, NEW e, NEW forced \in BOOLEAN,
         pace' = PaceAfterStart(k, e, forced),
         \/ jobs' = WithRevalidation(jobs, k, e, forced)
         \/ jobs' = WithRevalidation([jobs EXCEPT ![Sync(k)] = NoJob], k, e, forced)
  PROVE  Paced' /\ Spaced
<1>1. CASE ~ Revalidates(k, e, forced)
  <2>1. pace' = pace /\ \A l \in Keys : jobs'[Soft(l)] = jobs[Soft(l)]
    BY <1>1, SoftNames DEF PaceAfterStart, WithRevalidation, JobsOK
  <2> QED  BY <2>1, QuietPaced
<1>2. CASE Revalidates(k, e, forced)
  <2>1. /\ jobs'[Soft(k)] = Start("net", forced)
        /\ \A l \in Keys : l # k => jobs'[Soft(l)] = jobs[Soft(l)]
    BY <1>2, SoftNames DEF WithRevalidation, JobsOK
  <2>2. \A l \in Keys : l # k => pace'[l] = pace[l]
    BY <1>2 DEF PaceAfterStart, PaceOK
  <2>3. Paced'
    <3>1. ASSUME NEW l \in Keys
          PROVE  \/ jobs'[Soft(l)].stage # "none"
                 \/ pace'[l] = pace[l] /\ jobs'[Soft(l)] = jobs[Soft(l)]
      BY <2>1, <2>2 DEF Start
    <3> QED  BY <3>1, PacedStep
  <2>4. ~ forced => pace[k].begun = MinGap
    BY <1>2, Clocks DEF Revalidates, MayRevalidate, Paced
  <2> QED  BY <2>1, <2>3, <2>4 DEF Spaced, Starts, Start
<1> QED  BY <1>1, <1>2

LEMMA FailPaced ==
  ASSUME Paced, PaceOK, JobsOK, NEW j \in Jobs, Fail(j), jobs[j].stage # "none"
  PROVE  Paced' /\ Spaced
<1>1. CASE j = Warm
  BY <1>1, QuietPaced, SoftNames, JobNames DEF Fail, JobsOK
<1>2. CASE j[1] = "soft"
  BY <1>2, FetchEndedPaced, JobNames DEF Fail
<1>3. CASE j[1] = "sync" /\ j[2][1] = "full" /\ j[2][2] # NoStream
  BY <1>3, QuietPaced, SoftNames, JobNames DEF Fail, JobsOK
<1>4. CASE j[1] = "sync" /\ ~ (j[2][1] = "full" /\ j[2][2] # NoStream)
  <2>1. SettleFailed(j[2], Nothing, "none") /\ Sync(j[2]) = j
    BY <1>4, JobNames DEF Fail
  <2> QED  BY <2>1, FetchEndedPaced DEF SettleFailed
<1> QED  BY <1>1, <1>2, <1>3, <1>4, JobNames

LEMMA SucceedPaced ==
  ASSUME Paced, PaceOK, JobsOK, NEW j \in Jobs, NEW p, Succeed(j, p)
  PROVE  Paced' /\ Spaced
<1>1. CASE j = Warm
  BY <1>1, QuietPaced, SoftNames, JobNames DEF Succeed, JobsOK
<1>2. CASE j # Warm
  BY <1>2, FetchEndedPaced, JobNames DEF Succeed
<1> QED  BY <1>1, <1>2

LEMMA SettleFailedPaced ==
  ASSUME Paced, PaceOK, JobsOK, NEW k \in Keys, NEW p, NEW via,
         SettleFailed(k, p, via)
  PROVE  Paced' /\ Spaced
<1>1. Sync(k) \in Jobs /\ Sync(k)[2] = k
  BY JobNames
<1> QED  BY <1>1, FetchEndedPaced DEF SettleFailed

(* A task's stage changes, or one that is not soft comes or goes. *)
LEMMA StagedPaced ==
  ASSUME Paced, PaceOK, JobsOK, pace' = pace, NEW j \in Jobs, NEW job,
         jobs' = [jobs EXCEPT ![j] = job],
         j[1] = "soft" => (jobs[j].stage # "none" /\ job.stage # "none")
  PROVE  Paced' /\ Spaced
<1>1. \A k \in Keys : Soft(k)[1] = "soft" /\ Soft(k) \in Jobs
  BY SoftNames DEF Soft
<1>2. \A k \in Keys : jobs'[Soft(k)] = IF Soft(k) = j THEN job ELSE jobs[Soft(k)]
  BY <1>1 DEF JobsOK
<1> QED  BY <1>1, <1>2, QuietPaced

LEMMA JobStepPaced ==
  ASSUME Inv, Paced, NEW j \in Jobs, JobStep(j)
  PROVE  Paced' /\ Spaced
<1> USE DEF Inv
<1>1. CASE Look(j)
  <2>1. /\ jobs[j].stage = "look" /\ pace' = pace
        /\ \/ j = Warm /\ jobs' = [jobs EXCEPT ![j] = NoJob]
           \/ \E s \in {"purge", "net", "cover"}, e \in {Nothing, Cached(j[2])} :
                jobs' = [jobs EXCEPT ![j].stage = s, ![j].entry = e]
    BY <1>1 DEF Look
  <2>2. CASE j = Warm /\ jobs' = [jobs EXCEPT ![j] = NoJob]
    BY <2>1, <2>2, StagedPaced, JobNames
  <2>3. ASSUME NEW s \in {"purge", "net", "cover"}, NEW e,
               jobs' = [jobs EXCEPT ![j].stage = s, ![j].entry = e]
        PROVE  Paced' /\ Spaced
    BY <2>1, <2>3, QuietPaced, SoftNames DEF JobsOK, JobType
  <2> QED  BY <2>1, <2>2, <2>3
<1>2. CASE JobPurge(j)
  BY <1>2, QuietPaced, SoftNames DEF JobPurge, JobsOK, JobType
<1>3. CASE Write(j)
  BY <1>3, SucceedPaced DEF Write
<1>4. ASSUME NEW p \in Payloads, NetAnswers(j, p)
      PROVE  Paced' /\ Spaced
  <2>1. \/ Fail(j) \/ Succeed(j, p)
        \/ /\ pace' = pace
           /\ jobs' = [jobs EXCEPT ![j].stage = "write",
                                   ![j].entry = [stream |-> p, age |-> 0]]
    BY <1>4 DEF NetAnswers
  <2>2. jobs[j].stage = "net"
    BY <1>4 DEF NetAnswers
  <2>3. CASE /\ pace' = pace
             /\ jobs' = [jobs EXCEPT ![j].stage = "write",
                                     ![j].entry = [stream |-> p, age |-> 0]]
    BY <2>2, <2>3, QuietPaced, SoftNames DEF JobsOK, JobType
  <2> QED  BY <2>1, <2>2, <2>3, FailPaced, SucceedPaced
<1> QED  BY <1>1, <1>2, <1>3, <1>4 DEF JobStep

LEMMA JoinPaced ==
  ASSUME Paced, RequestsOK, PaceOK, JobsOK, NEW r \in Requests, InHand(r), Join(r),
         pace' = pace
  PROVE  Paced' /\ Spaced
<1>1. KeyOf(r) \in Keys
  BY KeyOfAsk DEF RequestsOK
<1>2. \A k \in Keys : jobs'[Soft(k)] = jobs[Soft(k)]
  BY <1>1, SoftNames DEF Join, JobsOK
<1> QED  BY <1>2, QuietPaced

LEMMA TickPaced ==
  ASSUME Inv, Paced, Tick
  PROVE  Paced' /\ Spaced
<1> SUFFICES ASSUME NEW k \in Keys, jobs[Soft(k)].stage = "none"
             PROVE  \/ pace'[k].begun + pace'[k].gap >= MinGap
                    \/ pace'[k].begun + pace'[k].cool >= MinGap
  BY DEF Paced, Spaced, Starts, Tick
<1>1. /\ pace'[k].gap = Down(pace[k].gap) /\ pace'[k].cool = Down(pace[k].cool)
      /\ pace'[k].begun = UpTo(pace[k].begun, MinGap)
  BY DEF Tick
<1>2. \/ pace[k].begun + pace[k].gap >= MinGap
      \/ pace[k].begun + pace[k].cool >= MinGap
  BY DEF Paced
<1> QED  BY <1>1, <1>2, Clocks DEF Inv, Down, UpTo

LEMMA NextPaced == Inv /\ Paced /\ [Next]_vars => Paced' /\ Spaced
<1> SUFFICES ASSUME Inv, Paced, [Next]_vars PROVE Paced' /\ Spaced
  OBVIOUS
<1>1. CASE jobs' = jobs /\ pace' = pace
  BY <1>1, QuietPaced DEF Inv
<1>2. ASSUME NEW r \in Requests, RequestStep(r)
      PROVE  Paced' /\ Spaced
  <2>1. CASE Read(r)
    <3>1. Join(r) \/ jobs' = jobs
      BY <2>1 DEF Read
    <3> QED  BY <1>1, <2>1, <3>1, JoinPaced DEF Read, InHand, Inv
  <2>2. CASE Purge(r)
    BY <2>2, JoinPaced DEF Purge, InHand, Inv
  <2>3. CASE Reply(r)
    <3>1. KeyOf(r) \in Keys
      BY <2>3, KeyOfAsk DEF Reply, Inv, RequestsOK, InHand
    <3> DEFINE forced == requests[r].ask.kind = "refresh"
    <3>2. /\ jobs' = WithRevalidation(jobs, KeyOf(r), requests[r].entry, forced)
          /\ pace' = PaceAfterStart(KeyOf(r), requests[r].entry, forced)
          /\ forced \in BOOLEAN
      BY <2>3 DEF Reply
    <3> HIDE DEF forced
    <3> QED  BY <3>1, <3>2, RevalidationPaced DEF Inv
  <2> QED  BY <1>2, <2>1, <2>2, <2>3 DEF RequestStep
<1>3. CASE \E j \in Jobs : JobStep(j)
  BY <1>3, JobStepPaced
<1>4. ASSUME NEW k \in Keys, SyncStep(k)
      PROVE  Paced' /\ Spaced
  <2>1. CASE SyncReply(k)
    <3>1. jobs[Sync(k)].forced \in BOOLEAN
      BY JobNames DEF Inv, JobsOK, JobType
    <3> QED  BY <2>1, <3>1, RevalidationPaced DEF SyncReply, Inv
  <2>2. CASE Fallback(k)
    <3>1. \/ pace' = pace /\ jobs' = [jobs EXCEPT ![Sync(k)].stage = "giveUp"]
          \/ SettleFailed(k, Nothing, "none")
          \/ SettleFailed(k, Cached(<<"recent", k[2]>>).stream, "fallback")
      BY <2>2 DEF Fallback
    <3>2. CASE pace' = pace /\ jobs' = [jobs EXCEPT ![Sync(k)].stage = "giveUp"]
      BY <3>2, QuietPaced, SoftNames, JobNames DEF Inv, JobsOK
    <3> QED  BY <3>1, <3>2, SettleFailedPaced DEF Inv
  <2>3. CASE GiveUp(k)
    BY <2>3, SettleFailedPaced DEF GiveUp, Inv
  <2> QED  BY <1>4, <2>1, <2>2, <2>3 DEF SyncStep
<1>5. CASE StartWarm
  BY <1>5, StagedPaced, JobNames DEF StartWarm, Inv
<1>6. CASE Tick
  BY <1>6, TickPaced
<1>7. CASE Restart
  BY <1>7, PulseGetAssumption, SoftNames, JobTypes
     DEF Restart, Paced, Spaced, Starts, NoPace
<1> QED  BY <1>1, <1>2, <1>3, <1>4, <1>5, <1>6, <1>7
         DEF Next, vars, AskPulse, TurnOn, ListKeys, RemoveKeys, ClearCache, Evict

(* Whatever succeeds or fails in between, and whoever asks, unforced       *)
(* revalidations of a key start at least MinGap apart.                     *)
THEOREM RevalidationsApart == Spec => RevalidationsSpaced
<1>1. Init => Paced
  BY PulseGetAssumption DEF Init, Paced, NoPace
<1>2. Inv /\ Paced /\ [Next]_vars =>
      [\A k \in Keys :
         /\ jobs[Soft(k)].stage = "none"
         /\ jobs'[Soft(k)].stage # "none" /\ ~ jobs'[Soft(k)].forced
         => pace[k].begun = MinGap]_vars
  BY NextPaced DEF Spaced, Starts
<1> QED  BY <1>1, <1>2, InitInv, NextInv, NextPaced, PTL
         DEF Spec, RevalidationsSpaced

-----------------------------------------------------------------------------
(* Off stays empty: a task takes a payload to the cache only if it found   *)
(* the setting on when the payload came, and every other step of the cache *)
(* only takes entries away.                                                *)

CacheEmpty == \A k \in Keys : cache[k] = Nothing
NoWrites == \A j \in Jobs : jobs[j].stage # "write"

LEMMA StillEmpty ==
  ASSUME CacheEmpty, cache' = cache \/ \E S : cache' = Without(S)
  PROVE  CacheEmpty'
BY DEF CacheEmpty, Without

LEMMA PutNoWrite ==
  ASSUME JobsOK, NoWrites, NEW j \in Jobs, NEW job, job.stage # "write",
         jobs' = jobs \/ jobs' = [jobs EXCEPT ![j] = job]
  PROVE  NoWrites'
BY DEF JobsOK, NoWrites

LEMMA StagedNoWrite ==
  ASSUME JobsOK, NoWrites, NEW j \in Jobs, NEW s, s # "write",
         \/ jobs' = [jobs EXCEPT ![j].stage = s]
         \/ \E e : jobs' = [jobs EXCEPT ![j].stage = s, ![j].entry = e]
  PROVE  NoWrites'
BY DEF JobsOK, JobType, NoWrites

LEMMA RevalidationNoWrite ==
  ASSUME JobsOK, NoWrites, NEW k \in Keys, NEW e, NEW forced,
         \/ jobs' = WithRevalidation(jobs, k, e, forced)
         \/ jobs' = WithRevalidation([jobs EXCEPT ![Sync(k)] = NoJob], k, e, forced)
  PROVE  NoWrites'
<1> DEFINE ended == [jobs EXCEPT ![Sync(k)] = NoJob]
           begun(js) == [js EXCEPT ![Soft(k)] = Start("net", forced)]
<1>1. jobs' \in {jobs, ended, begun(jobs), begun(ended)}
  BY DEF WithRevalidation
<1>2. Start("net", forced).stage # "write" /\ NoJob.stage # "write"
  BY DEF Start, NoJob
<1> QED  BY <1>1, <1>2, JobNames DEF JobsOK, NoWrites

LEMMA FailNoWrite ==
  ASSUME JobsOK, NoWrites, NEW j \in Jobs, Fail(j)
  PROVE  NoWrites'
<1>1. \/ jobs' = [jobs EXCEPT ![j] = NoJob]
      \/ jobs' = [jobs EXCEPT ![j].stage = "fallback"]
  BY JobNames DEF Fail, SettleFailed
<1> QED  BY <1>1, JobTypes, PutNoWrite, StagedNoWrite

LEMMA JoinNoWrite ==
  ASSUME JobsOK, NoWrites, NEW r \in Requests, KeyOf(r) \in Keys, Join(r)
  PROVE  NoWrites'
<1>1. \/ jobs' = jobs
      \/ \E s \in {"net", "look"} : \E f :
           jobs' = [jobs EXCEPT ![Sync(KeyOf(r))] = Start(s, f)]
  BY Zenon DEF Join
<1>2. \A s \in {"net", "look"} : \A f : Start(s, f).stage # "write"
  BY DEF Start
<1> QED  BY <1>1, <1>2, JobNames, PutNoWrite

LEMMA JobStepDrained ==
  ASSUME Inv, Drained, NEW j \in Jobs, JobStep(j)
  PROVE  CacheEmpty' /\ NoWrites' /\ ~ keep'
<1> USE DEF Inv
<1>1. CacheEmpty /\ NoWrites /\ ~ keep /\ keep' = keep
  BY DEF Drained, CacheEmpty, NoWrites, JobStep, Look, JobPurge, Write, NetAnswers
<1>2. CASE Look(j)
  <2>1. \/ jobs' = [jobs EXCEPT ![j] = NoJob]
        \/ \E s \in {"purge", "net", "cover"} : \E e :
             jobs' = [jobs EXCEPT ![j].stage = s, ![j].entry = e]
    BY <1>2 DEF Look
  <2>2. NoJob.stage # "write"
    BY JobTypes
  <2>3. NoWrites'
    BY <1>1, <2>1, <2>2, PutNoWrite, StagedNoWrite
  <2> QED  BY <1>1, <1>2, <2>3, StillEmpty DEF Look
<1>3. CASE JobPurge(j)
  <2>1. jobs' = [jobs EXCEPT ![j].stage = "net"] /\ cache' = Without({j[2]})
    BY <1>3 DEF JobPurge
  <2>2. NoWrites'
    BY <1>1, <2>1, StagedNoWrite
  <2> QED  BY <1>1, <2>1, <2>2, StillEmpty
<1>4. ASSUME NEW p \in Payloads, NetAnswers(j, p)
      PROVE  CacheEmpty' /\ NoWrites'
  <2>1. Fail(j) \/ Succeed(j, p)
    BY <1>1, <1>4 DEF NetAnswers, MayCache
  <2>2. CASE Succeed(j, p)
    <3>1. jobs' = [jobs EXCEPT ![j] = NoJob] /\ NoJob.stage # "write"
      BY <2>2, JobTypes DEF Succeed
    <3>2. NoWrites' /\ cache' = cache
      BY <1>1, <1>4, <3>1, PutNoWrite DEF NetAnswers
    <3> QED  BY <1>1, <3>2, StillEmpty
  <2> QED  BY <1>1, <1>4, <2>1, <2>2, FailNoWrite, StillEmpty DEF NetAnswers
<1>5. ~ Write(j)
  BY <1>1 DEF Write, NoWrites
<1> QED  BY <1>1, <1>2, <1>3, <1>4, <1>5 DEF JobStep

LEMMA SyncStepDrained ==
  ASSUME Inv, Drained, NEW k \in Keys, SyncStep(k)
  PROVE  CacheEmpty' /\ NoWrites' /\ ~ keep'
<1> USE DEF Inv
<1>1. CacheEmpty /\ NoWrites /\ ~ keep /\ keep' = keep
  BY DEF Drained, CacheEmpty, NoWrites, SyncStep, SyncReply, Fallback, GiveUp
<1>2. Sync(k) \in Jobs /\ NoJob.stage # "write"
  BY JobNames, JobTypes
<1>3. CASE SyncReply(k)
  BY <1>1, <1>3, RevalidationNoWrite, StillEmpty DEF SyncReply
<1>4. CASE Fallback(k)
  <2>1. \/ jobs' = [jobs EXCEPT ![Sync(k)].stage = "giveUp"]
        \/ jobs' = [jobs EXCEPT ![Sync(k)] = NoJob]
    BY <1>4 DEF Fallback, SettleFailed
  <2>2. NoWrites'
    BY <1>1, <1>2, <2>1, PutNoWrite, StagedNoWrite
  <2>3. cache' = cache
    BY <1>4 DEF Fallback
  <2> QED  BY <1>1, <2>2, <2>3, StillEmpty
<1>5. CASE GiveUp(k)
  <2>1. jobs' = [jobs EXCEPT ![Sync(k)] = NoJob]
        /\ cache' = Without({<<"recent", k[2]>>})
    BY <1>5 DEF GiveUp, SettleFailed
  <2> QED  BY <1>1, <1>2, <2>1, PutNoWrite, StillEmpty
<1> QED  BY <1>1, <1>3, <1>4, <1>5 DEF SyncStep

LEMMA RequestStepDrained ==
  ASSUME Inv, Drained, NEW r \in Requests, RequestStep(r)
  PROVE  CacheEmpty' /\ NoWrites' /\ ~ keep'
<1> USE DEF Inv
<1>1. CacheEmpty /\ NoWrites /\ ~ keep /\ keep' = keep
  BY DEF Drained, CacheEmpty, NoWrites, RequestStep, Read, Purge, Reply
<1>2. KeyOf(r) \in Keys
  BY KeyOfAsk DEF RequestStep, Read, Purge, Reply, RequestsOK, InHand
<1>3. CASE Read(r)
  <2>1. Join(r) \/ jobs' = jobs
    BY <1>3 DEF Read
  <2> QED  BY <1>1, <1>2, <1>3, <2>1, JoinNoWrite, StillEmpty DEF Read, NoWrites
<1>4. CASE Purge(r)
  BY <1>1, <1>2, <1>4, JoinNoWrite, StillEmpty DEF Purge
<1>5. CASE Reply(r)
  <2> DEFINE forced == requests[r].ask.kind = "refresh"
  <2>1. /\ jobs' = WithRevalidation(jobs, KeyOf(r), requests[r].entry, forced)
        /\ cache' = cache
    BY <1>5 DEF Reply
  <2> HIDE DEF forced
  <2> QED  BY <1>1, <1>2, <2>1, RevalidationNoWrite, StillEmpty
<1> QED  BY <1>1, <1>3, <1>4, <1>5 DEF RequestStep

LEMMA NextDrained ==
  ASSUME Inv, Drained, [Next]_vars
  PROVE  Drained' \/ keep'
<1> SUFFICES ASSUME ~ keep' PROVE CacheEmpty' /\ NoWrites'
  BY DEF Drained, CacheEmpty, NoWrites
<1>1. CacheEmpty /\ NoWrites
  BY DEF Drained, CacheEmpty, NoWrites
<1>2. CASE jobs' = jobs /\ (cache' = cache \/ \E S : cache' = Without(S))
  BY <1>1, <1>2, StillEmpty DEF NoWrites
<1>3. CASE \E r \in Requests : RequestStep(r)
  BY <1>3, RequestStepDrained
<1>4. CASE \E j \in Jobs : JobStep(j)
  BY <1>4, JobStepDrained
<1>5. CASE \E k \in Keys : SyncStep(k)
  BY <1>5, SyncStepDrained
<1>6. CASE StartWarm
  BY <1>1, <1>6, JobNames, JobTypes, PutNoWrite, StillEmpty DEF StartWarm, Inv
<1>7. CASE Tick
  BY <1>1, <1>7 DEF Tick, CacheEmpty, NoWrites
<1>8. CASE Restart
  BY <1>1, <1>8, JobTypes DEF Restart, CacheEmpty, NoWrites
<1>9. CASE TurnOn
  BY <1>9 DEF TurnOn
<1>10. CASE ListKeys \/ RemoveKeys
  BY <1>2, <1>10 DEF ListKeys, RemoveKeys
<1>11. ASSUME NEW r \in Requests, NEW a \in Asks, AskPulse(r, a)
       PROVE  CacheEmpty' /\ NoWrites'
  BY <1>2, <1>11 DEF AskPulse
<1>12. ASSUME NEW off \in BOOLEAN, ClearCache(off)
       PROVE  CacheEmpty' /\ NoWrites'
  BY <1>2, <1>12 DEF ClearCache
<1>13. ASSUME NEW k \in Keys, Evict(k)
       PROVE  CacheEmpty' /\ NoWrites'
  BY <1>2, <1>13 DEF Evict
<1> QED  BY <1>2, <1>3, <1>4, <1>5, <1>6, <1>7, <1>8, <1>9, <1>10, <1>11, <1>12,
            <1>13 DEF Next, vars

(* With the cache off, empty and no write under way, nothing brings an      *)
(* entry back until the setting is turned on: no answer in flight, no       *)
(* prefetch, no request that read the cache before it was cleared.          *)
THEOREM OffLeavesNothing == Spec => OffStaysEmpty
<1>1. Inv /\ [Next]_vars => [Drained => Drained' \/ keep']_vars
  BY NextDrained
<1> QED  BY <1>1, InitInv, NextInv, PTL DEF Spec, OffStaysEmpty
=============================================================================
