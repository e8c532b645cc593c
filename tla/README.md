# Verification of the voting service

TLA+ models of the voting service in this repository, TLC configurations that
check them on small instances, and TLAPS proofs of the properties that matter
most, for every value of the constants.

Contents: [the system](#1-the-system) · [plan](#2-plan) ·
[modules](#3-the-modules-and-the-code) · [runs](#4-the-runs) ·
[bounds](#5-bounds) · [fairness](#6-fairness) · [proofs](#7-proofs) ·
[findings](#8-what-the-code-does-not-keep) · [not modelled](#9-what-is-not-modelled)

## 1. The system

Users create polls with at least three options and an expiry, vote once in each
poll, may undo the vote, and follow the counts live. The owner of a poll may
close or delete it.

    browser (app.js) --HTTP/JSON--> httpserver (Gin, several pods) --gRPC-->
      grpcserver (several pods): Server -> Service -> Store --> Redis
                                                          \--> memory (one pod)
    httpserver --SSE--> browser      (each pod has a hub of its own)

| component (source) | state | operations | interacts with |
|---|---|---|---|
| Redis store (`internal/store/redis`) | `poll:{id}` and its `:options`, `:votes`, `:voters`; `user:{u}:votes`; `idem:{u}:{k}` with a TTL; `polls:index`, `polls:public`, `user:{u}:created_polls` | CreatePoll (MULTI/EXEC), Vote and UndoVote (a Lua script, then a read), ClosePoll and DeletePoll (a read, an owner check, a key check, up to four writes, a mark), GetPoll (three reads) | called by the service from any number of goroutines on any number of pods; Redis serialises single commands only |
| List queries (same files) | none | SearchPolls, the statistics lists, GetMyVotes, ListMyCreatedPollStats with a cursor | one command per listed poll, none of them atomic |
| Memory store (`internal/store/memory`) | maps of polls, votes and created polls under an RWMutex | the same interface, each method one critical section; no owner check, no idempotency | chosen when `REDIS_ADDR` is not set |
| Service (`internal/service`) | none | validation, then one store call | called by the gRPC server |
| gRPC server (`internal/grpc/server`) | none | maps errors to status codes | called by the HTTP server |
| HTTP handlers, router (`internal/http`) | none | one gRPC call per request; after a change, notifications to the hub | hub, gRPC client |
| SSE hub (`sse_hub.go`, `sse.go`) | set of connections with a buffer of 16 messages each | add, remove, notify | handlers notify, stream loops drain; local to a pod |
| Rate limiter (`middleware/ratelimit.go`) | global bucket, bucket per user with last use | allow, cleanup | in front of the handlers |
| Web client (`web/static/app.js`) | the page's data and flags `loadInFlight`, `loadQueued` | load, refresh on an event | HTTP and SSE |
| Retrying client (`test/e2e`) | attempts left | vote with one key, up to eight times, while pods restart | HTTP |
| Start and shutdown (`cmd/`) | listeners | graceful stop within five seconds | everything |

Hard behaviours, by component, and what makes each correct:

- **Redis store.** Only a script or a MULTI block is atomic. ClosePoll and
  DeletePoll act several commands after they checked; a read takes three
  commands; a command may fail, or be executed although its answer is lost and be
  sent again by the client library; the caller retries the request with its key.
  Correct means: counts equal ballots at every moment; a closed poll is final;
  only the owner ends a poll; a deleted poll stays without effect; a read is never
  torn; a request with a key takes effect once; lists and polls agree.
- **Memory store.** Atomic methods: it should implement the same promise.
- **List queries.** Stale index entries, filters after paging, ties in the cursor:
  every visible poll should appear on exactly one page.
- **SSE hub and client.** Bounded buffers that drop, channels closed while
  notified, coalesced loads: the page should end up with the current counts.
- **Rate limiter.** A removed bucket comes back full and only requests remove
  buckets: no user may gain by it, and the map may not grow without bound.
- **Retrying client, start and shutdown.** A vote is repeated while servers stop and
  start, and the commands of attempts that were given up may be executed late:
  no answer may claim an effect the vote has not had, or deny one it has.

The full list of hazards with their lines is in `PROJECT.json`.

## 2. Plan

Done, in this order, because every promise of the system rests on the store that
all pods share:

1. `VotingSpec`: the abstract service.
2. `RedisKeyspace`: the keys and every command that writes them.
3. `RedisStore`: the requests in flight, command by command, with failures,
   retries and time; composed from `RedisKeyspace`, and shown to implement
   `VotingSpec`. `MCRedisStore` and six configurations.
4. `RedisStoreProofs`: the inductive invariants and the properties that follow.
5. `MemoryStore`: the in-memory store, a second implementation of `VotingSpec`
   (`OwnerOnly` off), and `StoreParity`: both stores given the same requests.
6. `SSEHub`: connections, bounded channels, notifications of one process; composed
   with the poll page in `LivePollPage` (coalesced loads) and with the results page
   in `LiveResultsPage` (a payload copied before the awaits).
7. `Pages` and `PollLists`: sorting, cutting and cursors, shared by both stores;
   `PollListing`: the Redis store's lists as sequences of commands over
   `RedisKeyspace`; the memory store's lists in `MemoryStore`, compared with them
   in `StoreParity`.
8. `UserBuckets`, the promise of the per-user limit, and `RateLimit`, which
   implements it with buckets that come and go.
9. `VotePath`: `RateLimit` composed with the retrying client, the handlers, the
   mapping of errors, the gRPC server, the store's script and the start and stop
   of both servers. `VotePathProofs`, of the limiter and the path.
10. Every safety property of every run as a theorem: the refinements of both stores,
    what the Redis store's answers mean, the parity of the stores, the lists and
    the pages (`StoresProofs`, `PollListingProofs`, `SSEHubProofs`,
    `LivePollPageProofs`, `LiveResultsPageProofs`).

To do, in this order:

11. The lists in `StoreParity` when the stores' clocks are finer than a second, which
    needs the window of finding 1 in the invariant.
12. What `PagesApart` and `WalkFindsAll` leave: a walk over equal scores, stated as which
    polls are missed.
13. The expiry as a change nobody announces in `LivePollPage`.

## 3. The modules and the code

**`VotingSpec`** is the `Store` interface (`service.go:14-23`) as its callers
understand it. Every operation that changes something is one step on `status`,
`owner`, `ballots` and the published `result`, which is defined as the count of the
ballots. `OwnerOnly` says whether others than the owner are refused a close or a
delete: the Redis store refuses them, the memory store does not.

**`RedisKeyspace`** has one variable per key or group of keys; its header gives the
correspondence. Every operator that primes variables is one Redis command, one
MULTI/EXEC block (`CreateTx`) or one Lua script (`VoteScript`, `UndoScript`). The
scripts are written as their result (`Gate`, `VoteResult`, `UndoResult`, in the
order of the Lua tests) and their writes (`ApplyVote`, `ApplyUndo`). `SetClosed`
creates the hash when it is absent, as HSET does. A field missing from a hash is
its zero value; `present` distinguishes an absent hash.

**`RedisStore`** has one process per request in flight, on whatever pod. `pc` is its
next command; `req` the validated request; `answering` tells the getPoll that makes
the answer from the one that makes the owner check; `view` is what the read has
seen; `reply` its end. The correspondence of actions to code:

| action | code |
|---|---|
| `Begin` | a request reaches the store through Server and Service |
| `Create` | `CreatePoll`: validation and its MULTI/EXEC |
| `VoteStep`, `UndoStep` | the script of `Vote`, `UndoVote` and the switch on its result |
| `ReadMeta`, `ReadOptions`, `ReadVotes` | the three HGETALL of `getPoll` |
| `AfterCheck` (in `ReadVotes`) | owner check; ClosePoll of a poll that already reads as closed |
| `CheckKey` | `idemOK` |
| `CloseSet`, `DeleteKeys` | HSET of ClosePoll, DEL of DeletePoll |
| `DropIndex`, `DropPublic`, `DropCreated` | the SREM, SREM, ZREM after the DEL |
| `MarkStep` | `setIdem`, whose error the code ignores |
| `Finish` | the caller has its answer |
| `Abort` | a command fails or the pod stops: the request ends with an error |
| `Tick` | the clock |

With `Faulty`, each command may also take effect without the request advancing:
its answer was lost and go-redis sends it again. The ghost variables record which
ids were drawn (`usedIds`), to which logical request a key was given (`keyUse`) and
when an effect last happened under a key (`lastEffect`); no guard of the code's
steps reads the last one, `usedIds` stands for uuids being fresh, and `keyUse`
restricts clients only when `KeysUnique` holds.

Abstractions, each deliberate:

- One clock for Redis and the servers. `TicksPerSecond` ticks make a second, so that
  the difference between the scripts (whole seconds) and getPoll (nanoseconds) is
  there.
- CreatePoll is one step. Nothing is read before its MULTI block and nothing
  written after it, so its answer does not matter to the store.
- Options are a set: the order in which a poll shows them is not modelled. Question,
  names and `updated_by` are data no property is about.
- The `votes` hash is its fields and its numbers. A read keeps the fields only: no
  property relates the numbers of a read to anything but their options.
- The per-poll counts and the voter set are one variable each, total functions over
  options and polls; absence is 0 and `{}`.

**`MCRedisStore`** declares the model values, the poll options, the expiries and the
symmetry sets; the other `MC` modules do the same for their components.

The invariants that the proofs of section 7 rest on stand at the end of the module
they are about, so that the runs check them as well: `IndInv` and `AnswerInv` of
`RedisStore`, `MapsInv` of `MemoryStore`, `ParityInv`, `ListingInv`, `LimitInv`, `HubInv`,
`PageInv`, `ResultsInv` and `NewsInv`. The theorems about a module are in the proof
module of section 7.

**`Pages`** has the sorts and cuts that the lists of both stores share: the rows with
the highest scores, an arbitrary choice among equal ones (Go's sort is not stable
and its maps have no order). **`PollLists`** adds what a list of the Redis store reads
(`Source`), shows (`Shows`) and cuts (`Cut`, and `RangePages` for a page of
ListMyCreatedPollStats with its cursor).

**`MemoryStore`** has one step per method, since each holds the mutex throughout:
`CreatePoll`, `ClosePoll`, `DeletePoll`, `Vote`, `UndoVote`, with their answers in
`VoteAnswer`, `UndoAnswer` and `PresentAnswer` in the order of the code's tests. A
missing entry of `Votes` is 0. Its lists read under the same lock: `Listed` selects,
`Lists` cuts by the time of creation, `MinePages` pages by the score and filters
before it cuts, where the Redis store filters after. Each is the set of answers that
the order of maps and of equal rows allows.

**`StoreParity`** extends `RedisStore` and instantiates `MemoryStore` beside it.
`BeginBoth` starts a request on Redis and runs the method on memory; no second
request begins and the clock stands still until Redis has answered. A poll that a
stranger has closed or deleted, which only the memory store lets happen, is
`diverged`, no longer compared and only read from then on. `SameLists` compares the
lists between requests: the same polls are selected, but that the memory store goes
on showing an expired poll as open (`SameSelection`); a list is cut to an answer that
Redis may give as well (`SameCut`); pages have the same rows and cursors when closed
polls are wanted, and a page of the Redis store that filtered some away is short,
never wrong (`SamePages`).

**`PollListing`** extends `PollLists`. Other requests are its commands, in the
orders that `RedisStore` allows (`Create`, `CastMine` and `UndoMine` of the user whose
votes are listed, `Close`, `Delete`, `DropFromLists`; a `Close` may come after the
delete). A query reads its index
(`ReadIndex`, or `ReadRange` for a page of ListMyCreatedPollStats), looks up one id
per step (`ReadRow`, with the filters in `Kept`), and returns (`ReturnPage`, which
cuts lists that have no pages); the client follows the cursor (`AskNextPage`) or stops,
as does a query one of whose commands fails (`Stop`). A score is an
integer, `second * Fractions + fraction`: the code's float64 has room for a
second of this century and six decimals, and printing it with six decimals and
parsing it again gives the same number. `matching` and `everLive` are ghosts: the
polls that have matched all along, and those that were live at some moment.

**`SSEHub`** is the hub with the connections of one topic.

| action | code |
|---|---|
| `Add`, `WriteInitial` | `add`/`addPoll`, then the first event |
| `Forward` | one turn of the stream loop |
| `Leave` | `ctx.Done()`, the deferred `remove`/`removePoll`, `close(ch)` |
| `Enqueue` | the operation has succeeded; its notifications follow |
| `NotifyStart`, `NotifySend`, `NotifyEnd` | RLock, the sends to each connection, RUnlock |
| `Take`, `Lose` | the browser handles an event; the connection breaks |

`WriteLock` says that no notification holds the read lock; `Add` and `Leave` need it.
Several notifications run at once. A write of an event to a broken connection
is lost with it.

**`LivePollPage`** puts the poll page on top: `Load` with `loadInFlight` and
`loadQueued`, `ReadPoll` (the server's answer, possibly old when it arrives),
`Loaded` and `LoadFailed` (which end in the `finally` block, `Settled`),
`HandleEvent`, `Connect`, `Refused` (an EventSource gives up after an answer other
than 200, such as the 429 of the rate limiter in front of every route, while the page
goes on saying "reconnecting"), `LoseConnection`, and the handlers of other users,
`Change` and `Delete`. The poll is a version number. With `Faulty`, loads fail and changes
go unannounced: served by another pod, or done although the answer was an error
(for a delete, also when the read before it failed). The ghost `missed` records that
one of these happened since the page last was current.

**`LiveResultsPage`** is the same for the results page. A payload is the set of its
sections that are current; a change takes sections out of every payload. `Start`
copies what is shown, `Fetch` brings a section's current data into the copy, `Show`
assigns it, `Fail` gives it up. `ChangePoll`, `CreateOwn` and `CreatePublic` are the
handlers, each with the messages it sends. `Server` is a step of the hub together with
what it costs the page: `LosesNews` holds when the page's full channel drops a message
that names a section no queued message names. The ghost `disturbed` records that
refreshes have overlapped or failed, a change went unannounced, or news was dropped in this way,
since everything was last fetched alone. `Refused` is as on the poll page.

**`UserBuckets`** is what the limit per user promises: a bucket for every user, never
forgotten while the process runs. **`RateLimit`** is the middleware. `TokenBucket(u)`
is a request with the header `u` or without: the global bucket, then, under the mutex,
the user's bucket, `lastSeen`, the cleanup and the token. rate.Limiter computes a
bucket's tokens from the time when asked; here `Tick` adds them. `FreshLimiter` is
the next process.

**`VotePath`** follows one logical vote through attempts:

| action | code |
|---|---|
| `Attempt`, `Receive`, `GiveUp`, `TimeOut` | `voteWithRetry` (`http_consistency_test.go:435-450`) |
| `Serve` | the middlewares in the router's order, the handler's checks, the call of the gRPC server and `Service.Vote`'s check of the option |
| `Script`, `Read`, `StoreFails` | the script of `Vote` and the getPoll for its answer, either of which may fail; `toStatus` and `httpStatusFromGRPC` of the result |
| `LateScript` | Redis executes a command whose request was given up or cut |
| `HttpStop`, `HttpExit` | `main` of the httpserver: Shutdown, for at most five seconds |
| `GrpcStop`, `GrpcDrain`, `GrpcExit` | `main` of the grpcserver: the metrics server first, then GracefulStop, then Stop |
| `OtherRequest` | requests of others, which meet the same limiter |
| `VoteElsewhere`, `UndoElsewhere`, `PollCloses`, `PollDeleted`, `PollRevived` | what else may happen to the ballot and the poll, which a late ClosePoll may bring back (finding 2) |

Votes differ in where the user's id comes from (a header, the query or nowhere) and in
their body (an option of the poll, an unknown one, a blank one, none): the six `Shapes`.
The store is what `RedisStore` shows of it: its script is one step, so the ghost
`effects` counts how often this vote has taken effect, and `marked` is its key. The
ghost `told` keeps the statuses attempts have been answered with that say for good whether the
vote counts, so that `AnswerTellsEffect` holds them to it for ever. A
server that drains accepts nothing, as do the moments until the next process
listens; `HttpExit` and `GrpcExit` are the start of that process. One process of each
server stands for all the pods: another pod would answer where this one refuses, and
has a limiter of its own.

## 4. The runs

| run | instance | what it shows |
|---|---|---|
| `store_faults` | every operation, no keys, failures and resends | counts equal ballots; deleted polls are inert; live polls are listed; reads are not torn; closing is final; only owners end polls; the inductive invariant holds; every command is a step of `VotingSpec` or a stutter |
| `store_retries` | vote, close and delete, with and without a key, failures and resends, any request repeated with its key | a keyed vote answered as done has been counted under its key; a vote that took effect and is repeated with its key is refused by neither the script nor the read of the answer, whatever was closed in between, and finds 404 only when the poll is deleted; a successful ClosePoll shows a closed poll on every path; a DeletePoll that answers true left nothing in any list; the invariant behind these answers holds |
| `store_clock` | vote, undo, close; keys reused at will; the clock runs past expiry and TTL | two effects under one key are more than a TTL apart; ballots stop within a second of the expiry; a vote or undo that took effect and is repeated with its key is not refused after an undo, a close or the expiry |
| `store_live` | vote, close, delete; no failures, fair | a deleted poll leaves all lists |
| `expired_vote` | get and vote, clock | violation, see 8 |
| `deleted_revived` | get, close, delete | violation, see 8 |
| `stores` | both stores, two polls, one request at a time, clock past the expiry | the same answers, the same state and the same lists, cuts and pages until a stranger ends a poll; every method of the memory store is a step of `VotingSpec` without its owner rule; its ballots change only while the poll is open; the invariant that says how far one store is ahead of the other holds |
| `listing` | all lists, pages of one and two, public polls created, voted on and undone, closed, deleted half-way, brought back, expiring | a walk over the pages misses no poll that matched all along and repeats none; a list that was not cut misses none; the user's own list shows no hash that was brought back; the invariant of a query under way holds |
| `poll_page` | two handlers, two connections, a channel of one message, failing loads, unannounced changes | no send on a closed channel; the page never goes back; if it is not current, something is under way that will make it load, and it ends up current (unless a load failed or a change was not announced since, or its event stream was refused); the invariant of the page with its hub holds |
| `results_page` | one handler, two refreshes, a channel of one message, failing fetches, unannounced changes, lost connections | a section that is not current is about to be fetched, unless the page was disturbed since everything was fetched alone, or the event stream was refused; the invariant behind this holds |
| `vote_path` | one vote of any of the six shapes, two attempts, both servers stopping, late commands, two users' buckets, the poll and the ballot changed by others | once an attempt has been answered with 200, or a success reported, the vote stays counted exactly once; once one has been answered with 400, 401 or 403, it never counts; 409 is true when given; removing idle buckets changes no user's limit and leaves none that is idle for twice the TTL |
| `results_lost_update` | two refreshes, nothing fails, fair | violation, see 8 |

`store_faults` checks the refinement with `ImplementsVoting == Voting!Spec`, where
`Voting` instantiates `VotingSpec` with the status derived from the metadata and
the ballots derived from voter sets and histories. A poll that ClosePoll brought
back after a delete (finding 2) maps to "deleted": its ballots and counts stay
empty, which `DeletedPollInert` states and the proofs establish.

## 5. Bounds

- **Polls: one** (two in `stores` and `listing`). No command touches the keys of two
  polls, and the scripts'
  keys are per poll; two polls of one user only share the hash of the history,
  field by field, and the keys. Proofs cover any number.
- **Users: two** (one in `store_clock`). Owner and stranger, or two voters.
- **Options: three**, the least the service accepts, where reads may be torn
  (`store_faults`); one in `store_retries`, `stores` and `listing`, where only the
  existence of a ballot matters.
- **Requests in flight: two.** Each hazard is a pair of requests; a third request
  is covered because requests finish and new ones begin.
- **Keys: none or one.** Each run that needs keys has requests with it and without
  it, and any number of repetitions of a request.
- **Time.** A second is two ticks. The TTL is one second instead of 300 and the lead
  of an expiry one second (`MinLeadTicks`) instead of 30. `MaxTime = 7` lies past the
  latest expiry second plus the one after it, and past two TTLs. `MaxTime = 1`
  stops the clock in the runs that do not need it; these have `FarExpiry`.
- **Symmetry** on users, options, keys and processes, none of which is named by a
  definition. The liveness run uses none.

For the other components:

- **`stores`**: two polls, which is a page boundary with pages of one, two users, whole
  seconds (the half second in which the stores differ is finding 1), requests
  without keys. Polls are created in the first second (`MinLeadTicks = 2`), in either order and with two
  fractions, so that their times of creation tie and their scores do not; `MaxTime = 4`
  lies past the expiry at 3. Other seconds of creation are left to the theorems: both stores
  order by the same score and time, and with equal times a cut has the most answers.
- **`listing`**: two polls, which is a page boundary with pages of one, and lists
  that are cut (one) and not cut (two). Options make no difference to lists, so
  there is one. Two fractions of a second give both orders of two polls. All polls are
  public (`Visibility`): a private one is in fewer lists, and the theorems cover both.
- **Channels**: capacity 1 instead of 16, so that messages are dropped: on the results
  page the second of CreatePoll's two, and any that follows a narrow one. One event on
  the wire; two connection slots on the poll page, so that a connection is replaced
  while its stream handler is still there. On the poll page `MaxLosses` 1: a connection is
  lost at any moment; `MaxChanges` 2: a change before, during and after a load. On the
  results page `MaxEvents` 2: two changes, or one and a lost connection, at any moments.
- **`vote_path`**: two attempts, so that one may be late while the other is answered;
  each further one repeats this, and the theorem covers any number. One stop, of
  either server, at any moment. The TTL of a bucket is one unit of time instead of
  600, a burst two tokens instead of 40: `LimitAssumption` keeps what matters, that an
  idle bucket is full again before it is removed. `MaxClock = 3` is past two TTLs. The mark of a
  key does not end: the client gives up within 8 attempts of 5 s and the pauses
  between them, a mark lasts 300 s.
- **Refreshes**: two, the smallest number that overlaps. On the poll page the second
  load slot is never used, which is what `loadInFlight` is for.

Deadlock checking is on in all runs: a process that is idle can always begin a
request, and a page can always load, so a deadlock would be a request that no step
can continue.

## 6. Fairness

`FairSpec` asks for weak fairness of `Step(self)` for each request: the goroutine is
scheduled and Redis answers. A step of a begun request stays enabled until it is
taken, because no other request moves its `pc`, so weak fairness is enough.
Nothing makes clients send requests, and nothing is assumed of the clock or of
failures: the liveness run switches failures off, since a pod that is stopped
after the DEL leaves the lists uncleaned for good.

`VotePath` assumes none: its properties are about what has been said, not about
what will be.

`FairSpec` of the two pages: weak fairness of the stream handlers and of the
notifications (goroutines that are never blocked for good: a read lock is released
after a bounded number of sends that do not wait), of the answers of loads, of
`HandleEvent` (the browser's event loop) and of `Connect` or `Refused` (EventSource
connects again by itself, until it is refused). None for what users do, nor for the
loads they ask for, changes, losses
and failures.

## 7. Proofs

Every safety property and every refinement that a passing run checks is proved by
TLAPS for all values of the constants; only liveness is left to TLC. Eight modules
hold the proofs; the tables name the theorems that state a property.

All proofs use the named assumptions of the modules they are about, which TLC
evaluates in the runs (users finite, so that ballots can be counted; sentinels distinct
from real values; positive time units; option lists not empty; an expiry at least a
second ahead). What a theorem assumes beyond these is in its statement and named below.

### The Redis store (`RedisKeyspaceProofs`, `RedisStoreProofs`)

For any users, polls, options, keys and requests, with or without failures:

| theorem | statement |
|---|---|
| `TypeCorrect`, `Inductive` | `Spec => []TypeOK`, `Spec => []IndInv` |
| `TallyCorrect` | `Spec => []TallyMatchesBallots` |
| `DeletedInert` | `Spec => []DeletedPollInert` |
| `LiveListed` | `Spec => []LivePollListed` |
| `ReadsWhole` | `Spec => []ReadNotTorn` |
| `KeyedEffects` | `Spec => KeyedEffectsSpaced` |
| `OwnerEnds` | `Spec => OwnerEndsPoll` |
| `ClosedStays` | `Spec => ClosedIsFinal` |
| `VotesStop` | `Spec => VotesStopWithinASecond` |
| `RetriesAccepted` | `Spec => RetryNotRefused` |
| `AnswersInductive` | `KeysUnique`: `Spec => []AnswerInv` |
| `CloseAnswers` | `KeysUnique`: `Spec => []CloseAnswerClosed` |
| `DeleteAnswers` | `KeysUnique`: `Spec => []DeleteAnswerTruthful` |
| `VoteAnswers` | `KeysUnique`: `Spec => []VoteAnswerCounted` |

`KeysUnique` says that a client uses a key for one request and its repetitions. The code
keeps a key per user only, so the answers of a client that uses one key for two
requests are not true in general, and these theorems would be false without it.

The inductive invariant `IndInv` adds to the properties what makes them inductive:

- `PollKeys`: what the four keys of a poll hold before creation, while live and
  after deletion. A live poll's options are the fields of its counts; an absent
  or revived one has no ballots, options or counts. Needed because the writes of a
  late ClosePoll fall on keys that a DeletePoll has removed.
- `RequestKnows`: what a request has read is still true of a live poll, or the
  poll is gone. An owner never changes and options never change while a poll is
  live, and ids do not return, so a check made several commands ago still
  justifies the write. `OwnerEndsPoll` and `ReadNotTorn` follow from it.
- `KeyCoversEffect`: a key is marked until at least a TTL after the last effect
  under it. `KeyedEffectsSpaced` follows: a script that takes effect has found no
  mark; and `RetryNotRefused`: a script that refuses has found none either, since
  the key is looked up first, and a request past its script is in the read of its answer
  (`StagesAlways`), which refuses only a poll that is not there.

The argument: each command is shown to preserve `PollKeys`, the tally
and the lists (`VoteKeys`, `UndoKeys`, `CloseKeys`, `DeleteKeysKeys`,
`DropKeys`, `CreateKeys`), with the counting step (adding or removing one voter
changes one cardinality by one) in `VoteCounts` and `UndoCounts`. `KnowsStable`
shows that a command of one request keeps what another knows; `StepKnows` adds what
the request itself has learnt. `NextInd` puts them together by the disjuncts of
`Next`. `VotesStop` needs besides that the stored expiry of a live poll was given
(`ExpiryAlways`: one of value 0 would mean none).

`AnswerInv` is the invariant of what may be said to a client. `MarksTellTruth`: a key
that was ever marked stands for a request that has been brought about, because a later
attempt that finds the mark answers from it without doing anything. `RequestWorks`: how
far a request has come before each of its last commands, since each of the SREMs,
the mark and the reads may be the last that happens before the answer. That both
survive the steps of others is `AchievedStays`: a poll that has ended does not
live again as an open one, and a deleted one does not return to a list, because ids
are fresh.

### The stores (`StoresProofs`)

| theorem | statement |
|---|---|
| `StoreImplementsVoting` | `Spec => ImplementsVoting` |
| `ParityRunsRedis` | `ParitySpec => Spec` |
| `MemoryImplementsVoting` | `ParitySpec => MemImplementsVoting` |
| `MemoryBallotsStop` | `ParitySpec => MemBallotsOnlyWhileOpen` |
| `ParityInductive` | `~Faulty`, `TicksPerSecond = 1`: `ParitySpec => []ParityInv` |
| `StoresAnswerAlike` | the same: `ParitySpec => []SameAnswers` |
| `StoresHoldTheSame` | the same: `ParitySpec => []SameState` |
| `StoresListAlike` | the same, and `Polls` finite: `ParitySpec => []SameLists` |

The refinement `StoreImplementsVoting` goes step by step: initial states map to initial
states (`InitMapped`); the scripts that answer "ok" map to `Cast` and `Retract`, the
MULTI block to `Create`, the HSET and the DEL to `Close` and `Delete`, and to a stutter
on a poll that is closed or deleted already (`VoteMapped` to `DeleteMapped`); every
other command leaves the mapped variables alone (`Unseen`). That the published
result is the count of the ballots is `TallyMatchesBallots` seen through the
mapping (`TallyOf`); that `Close` and `Delete` are steps of the owner is `RequestKnows`. It
holds with failures, repeated commands and keys used at will. The memory store's
refinement has the same shape over `MapsInv`, which says that its maps agree on each poll.

`ParityInv` says what lies between the two stores at each command of the one request under
way: `AheadBy` is what the memory store has done and Redis has still to do, `HeadsFor`
that the Redis store is on its way to the answer memory has given, `PollAlone` what the
keys of a poll hold when requests do not overlap (no hash comes back; a deleted
poll is in a list only while its DeletePoll drops it), `StrangerKnows` what a request
does on a poll whose end by a stranger only the memory store allowed. `~Faulty`: a
request that fails half-way leaves the stores apart, of course. `TicksPerSecond = 1`:
with a finer clock they differ in the second of finding 1. `StoresListAlike` follows by
the lemmas on pages (`TopRowsAre`, `TopRowsReach`, `SmallerIs`): the highest rows of
a filtered list contain what the filter leaves of the highest rows of the whole.

### The lists (`PollListingProofs`)

| theorem | statement |
|---|---|
| `ListingInductive` | `Spec => []ListingInv` |
| `PagesApart` | `Spec => []NoPollTwice` |
| `WalkFindsAll` | `ScoresDiffer`: `Spec => []WalkComplete` |
| `ListFindsAll` | `Spec => []ListComplete` |
| `MineShowsLive` | `Spec => []MineWereLive` |

`ScoresDiffer` says that no two polls of a user have equal scores; with equal ones at a
page end the code does skip a poll, since its cursor is exclusive. `PagesApart` does not
need it: the pages of a walk lie in disjoint ranges of scores (`PagesInOrder`), whatever
is created or deleted between them, because a score never changes. `NothingSkipped` is what
makes completeness inductive: what matched all along and has not been found yet lies below the
page's end, or is among the rows still to be looked up. `OnlyDrawn` (lists name only
polls that were created) makes a poll created during a walk new to everything the query holds.

### The pages (`SSEHubProofs`, `LivePollPageProofs`, `LiveResultsPageProofs`)

For any connections, handlers, loads, refreshes, losses and failures:

| theorem | statement |
|---|---|
| `PageInductive` | `Spec => []PageInv` |
| `PageSendsSafe` | `Spec => []NoSendOnClosed` (poll page) |
| `PageNews` | `Spec => []StalePageHasNews` |
| `PageForward` | `Spec => PageNeverGoesBack` |
| `ResultsInductive` | `Spec => []ResultsInv` |
| `ResultsSendsSafe` | `Spec => []NoSendOnClosed` (results page) |
| `NewsInductive` | `Spec => []NewsInv` |
| `ResultsNews` | `Spec => []StaleSectionHasNews` |

`HubInv` is the hub's part: it holds exactly the connections whose loop runs, a
notification goes through connections of the hub and under the lock, and only the loop of a
lost connection leaves. So no send meets a closed channel. `SSEHubProofs` shows that
each step of the hub keeps it, and both pages build on that.

`PageInv` adds that the page's connection is one the hub knows, that only one load
is under way (`loadInFlight`; without it `PageForward` fails), that what is shown
is not ahead of the answers that may replace it, and that a page that is not current
has news. That holds for channels of any size: a message is dropped only on a channel that
is not empty, and on this page every message asks for the same.

On the results page a dropped message may name a section that those queued do not. The core of
`ResultsNews` is `ComingMoves`: a step of the server moves the news of every section one
place on (from a notification to the channel, to the wire), or drops a message whose
sections all have another message in the full channel, or loses news. Only the last makes
the page `disturbed`, which a refresh of every section ends if nothing disturbs it from its
start to its end, such as the one that the first event of a new connection causes. So the theorem
says for any channel and any number of changes what a page shows after its last disturbance.
`ResultsInv` is checked by the run as a part of `NewsInv`.

### The limiter and the path of a vote (`VotePathProofs`)

For any users, rates, bursts and TTL, any number of attempts, stops and late commands:

| theorem | statement |
|---|---|
| `LimitInvariant` | `LimitSpec => []LimitInv` |
| `CleanupUnnoticed` | `LimitSpec => CleanupInvisible` |
| `BucketsDoNotPileUp` | `LimitSpec => IdleBucketsRemoved` |
| `PathUsesLimiter` | `Spec => LimitSpec` |
| `AnswersTellEffect` | `Spec => AnswerTellsEffect` |
| `PathCleanupUnnoticed` | `Spec => CleanupInvisible` |
| `PathTyped` | `Spec => []PathTypeOK` |

Assumptions: `LimitAssumption` (a bucket refills within the TTL and the unit of time
after it: 40 tokens at 20 per second against ten minutes in the code) and
`ShapeAssumption`. `LimitInv` adds to the types `BucketsRefill`: a bucket holds what it has
gained since it was last used, or is full. So one that is idle for longer than
the TTL is full, and removing it, or giving it back, maps to a stutter of `UserBuckets`,
whose `level` is `Tokens`. For `BucketsDoNotPileUp`, `FreshWhenCleaned`
says that every bucket was in use at most a TTL before the last cleanup. `PathUsesLimiter` carries
both over to the path. `PathInv` is what `AnswerTellsEffect` needs:
the vote has taken effect exactly as often as its key is marked, which is once or
not at all; a request that was refused before the store never has a command there,
not even a late one; an answer of success, and the read that leads to it, follow the mark; one of
403 finds a poll that never opens again, though it may be deleted and brought back; one of 400 or 401 is to
a vote whose shape every attempt is refused for. `PathTyped` needs a count, `PathTypes`: the
attempts whose commands may still arrive, with the one under way, are no more than
the attempts made.

### What is only model-checked

- `DeletedEventuallyUnlisted` and `PageCatchesUp`: liveness under fairness is
  beyond the prover. `PageNews` is the safety half of `PageCatchesUp`.
- The three properties of section 8 that the code does not keep are refuted by runs.

Models whose counters have a bound (`MaxTime`, `MaxChanges`, `MaxLosses`, `MaxEvents`, `MaxAttempts`, `MaxStops`,
`MaxClock`) are proved about for every value of it.

## 8. What the code does not keep

1. **A vote after the expiry** (`scripts.go:64`, run `expired_vote`). The scripts
   compare whole seconds with `>`; getPoll compares nanoseconds. For up to a second a
   poll reads as closed and still takes votes, against `memory_test.go:76`.
   `VotesStopWithinASecond` bounds the window.
2. **A deleted poll comes back** (`store.go:91`, run `deleted_revived`). ClosePoll's
   HSET after another request's DEL (two requests of the owner) creates `poll:{id}`
   again with `is_closed` and `updated_by` only. GetPoll then finds a poll without
   id, owner or options, that nobody can delete, against `memory_test.go:120`.
   `DeletedPollInert` shows that it never holds ballots, counts or options again.
3. **The results page loses an update** (`app.js:777`, run `results_lost_update`).
   A refresh copies the payload, awaits its fetches and assigns the copy; nothing
   keeps two refreshes apart, such as the load at the page's opening and the one
   that the stream's first event causes. The one that read earlier and ends later
   puts old data back, and no event follows, although the design document
   (`在线投票系统设计方案.md:602`) says that within one pod the live refresh works.
   The poll page has `loadInFlight` against this, and `poll_page` shows it suffices.

What a client should know besides:

- `CreatePoll` draws a new id each time and looks at no idempotency key
  (`service.go:71`): a repeated creation makes a second poll. The key's promise
  (`在线投票系统设计方案.md:580`) is kept by votes, undos, closes and deletes.
- An answer 409 is true when given. If the ballot it met is then undone in another
  window, a late command of an earlier attempt may still count.
- A vote whose attempts all lost their answers is counted and reported as failed. The
  end-to-end test asserts that the votes equal the successes its clients report
  (`http_consistency_test.go:403`), which this breaks: eight attempts in a row have to
  lose their answers, so the test passes as long as a restart is shorter than that.
- A vote that took effect is answered 404 when its poll is deleted before the answer is
  read (`store.go:160`), and so is its repetition with the key; a repeated delete is
  answered 404 although the first one took effect (`store.go:100`).
- Requests without X-User-Id (a cookie or the query brings the user) meet the
  global bucket only, each pod has buckets of its own, and a user over the
  own limit still uses up tokens of all.
- The memory store lists an expired poll as open; the Redis store does not.

## 9. What is not modelled

Not yet: what CreatePoll asks of questions and options (but for the number of options
and the expiry), static files and the fallback route, rendering and forms of
the pages. Of SearchPolls the filters by time, which no handler sets, and by
creator, a field that never changes; the Redis store keeps its times in seconds, the
memory store in nanoseconds, which only these filters could show. `RequireAdmin`, which
no route uses; keep-alive pings of the event streams. The expiry
is not a change of the poll on the poll page: no event announces it, and the page
shows it at its next load. How long a stop of a server lasts: the five seconds after
which it cuts what is left are a stop that may end at any moment, with or without requests left. The memory store's polls end with its process: `MemoryStore`
is one run of it. Not at all: metrics (no
behaviour depends on them; the limiter comes first, so they miss what it refuses),
generated gRPC code, deployment manifests, page
layout, and what Redis itself does on a crash (persistence is a matter of its
configuration). A crash of a pod is the `Abort` of its requests: pods keep no state.
