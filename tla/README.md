# TongjiStudentAgent in TLA+

A verification project for the Go service `github.com/Charlie-BU/TongjiStudent`:
an HTTP server that answers students' questions with a language-model agent,
keeps conversations in PostgreSQL (signed-in users) or Redis (anonymous
visitors), and streams what the agent does as server-sent events.

Paths below are relative to `src/`.

## 1. The system

| Component | State it keeps | Operations | Interacts with |
|---|---|---|---|
| Turn lock, `internal/agentic/session/store/redis/store.go` | a Redis key per session: token, time to live; one renewal goroutine per holder | `AcquireTurn`, renewal every 10 s, release | called by every turn and every deletion, of any instance of the server |
| Chat service, `internal/application/chat` | none of its own; the local variables of requests | `StreamSession`, `DeleteSession`, create, list, rename, message pages | turn lock, stores, runtime, emitter, token cache |
| Agent runtime, `internal/agentic/runtime` | per run: `pendingTools`, `response` | the loop over the agent's messages | the agent framework (external), `record` and `emit` callbacks of the chat service |
| Emitter, `internal/agentic/event` | per run: sequence, terminal latch | `Emit`, `EmitFromContext` | called by the loop and by tool goroutines |
| Message stores, `.../store/redis`, `.../store/postgres` | sessions, their messages, their task plan | append, list, page, task plan get/save/clear, delete or expiry | shared by all instances |
| Task plan tool, `internal/agentic/systemtools/manage_task_plan`, `internal/agentic/session/taskplan` | none; reads and writes the stored plan | create, modify, update_status, append, clear | stores, emitter; several calls of one reply run at once |
| Service token cache, `internal/integration/tongjiapi/service_token.go` | token, expiry, generation, refresh channel, under a mutex | `AccessToken` | the open platform; called by every turn of a signed-in user and by MCP calls |
| History assembly, `internal/agentic/session/context`, `internal/application/chat/model_tier.go` | none; what it makes of the messages depends on the response chains that Ark keeps | `ListMessages`, `sanitizeHistoryForModel`, `completeToolHistory`, `AssembleForTurn` | between the stores and the model |
| OpenRouter model, `internal/integration/openroutermodel` | per stream: two goroutines, a pipe of one place, the body of the answer | `Stream`, the events of the provider, `Recv`, `Close` | the runtime's `readMessage` |
| Web fetch, `internal/integration/webfetch` | per page: a browser, its proxy with tunnels | `Extract`, `Render`, `Preflight`, content merging, link validation | the url_fetch tool; the start of the service |
| Start and shutdown, `internal/application/chat/initialization.go`, `init.go`, `main.go` | the opened connections (MCP, PostgreSQL, Redis), whether there is a browser | `initialize`, `closeResources`, the shutdown hook | everything |
| OAuth client, MCP tools, skills, search, knowledge, sandbox, configuration | little or none | one request, one answer | tools of the agent |

What makes it hard:

* *Instances share Redis.* The turn lock is a key with a time to live, kept
  alive by a goroutine that gives up silently. Replies get lost, renewals fail
  or come late, processes die.
* *State is read, then used much later.* The history is read before the profile
  is fetched and the model called; the task plan before it is rewritten; the
  cached token before it is checked over the network.
* *Tool calls run in parallel* and emit events from their own goroutines, which
  may outlive the run.
* *Anything may fail half way*: a message stored but reported as not stored, a
  plan saved but not announced, a client that leaves, a start that stops between
  two connections.
* *What a model knows lives elsewhere.* Ark keeps response chains that expire and
  replace part of the history; the turns of one session may use other models.
* *Goroutines outlive their reason*: a stream whose consumer has gone, the
  tunnels of a browser that was closed.

`PROJECT.json` lists each hazard at its line with the properties that watch it.

### What makes each component correct

| Component | Properties |
|---|---|
| Turn lock | a punctual holder owns the key; nobody steals it; an abandoned key expires; a waiting deletion is served; it implements `TurnLocker` |
| Chat turn | the history used is current; runs do not interleave; deletion waits; a completed run is stored whole; every request ends |
| Emitter and runtime | one terminal event, the last; each announced tool call ends once |
| Task plan | the stored plan is valid, announced, never lost to a concurrent writer; revisions identify plans |
| Token cache | one refresh at a time; only verified, current tokens are returned; no wrongful eviction; no waiter is forgotten |
| Message stores | sequences without gaps, none given twice; a stored message stays; the pages of a snapshot join, and the last is the last |
| History | a call shows its model everything it should; no model goes on from another's response; only broken tool chains are dropped |
| Model stream | a truncated stream is never taken for a whole answer, nothing is said twice; no goroutine or body is left behind |
| Web fetch | the merged text has all that was read; what was read over HTTP survives the browser; no proxy or tunnel is left behind |
| Start and shutdown | whatever was opened is closed, once, wherever the start fails |

## 2. Modules

| Module | What it is |
|---|---|
| `TurnLocker` | what a turn lock promises the chat service about one session; with `MayLose`, a turn may lose its exclusivity while it executes |
| `TurnLock` | the Redis lock in detail; `KeepsContract` is its refinement of `TurnLocker` |
| `TurnLockProofs` | theorems about `TurnLock` |
| `Conversation` | what the messages of a session are to those that replay them: who may speak when, and each result for a call of the last reply |
| `ChatTurn` | turns and deletions of one session over an instance of `TurnLocker`: stores, agent loop, emitter; `KeepsConversation` relates them to `Conversation` |
| `ChatTurnProofs` | theorems about `ChatTurn` |
| `PlanRegister` | what the plan tool promises of the plan of one session: calls take effect one at a time and whole, and an answer says what has happened |
| `TaskPlan`, `TaskPlanProofs` | the plan tool over the two stores; `KeepsRegister` is its refinement of `PlanRegister`; and theorems |
| `SharedToken` | what the token cache promises the calls that share its token |
| `TokenCache`, `TokenCacheProofs` | the service token cache; `SharesToken` is its refinement of `SharedToken`; and theorems |
| `MessageLog` | what a store promises of the messages of one session, whichever store it is |
| `SessionLog`, `SessionLogProofs` | the messages of a session in either store, read page by page; `KeepsLog` is its refinement of `MessageLog`; and theorems |
| `History`, `HistoryProofs` | what a model is shown of a session, over turns that use different models; `KeepsConversation` is its refinement of `Conversation`; and theorems |
| `Lifecycle` | the start and the end of the service |
| `ResponseStream` | one streamed call of an OpenRouter model |
| `PageText` | the text and the links of a web page: pure operators with their reference definitions |
| `PageFetch` | one call of url_fetch, with the browser and its proxy |
| `Service` | composes `Lifecycle`, `ResponseStream` and `PageFetch`: the service from its start to its end, and the requests in between |
| `ServiceProofs` | theorems about the start, the end and the answers of the service |
| `PageFetchProofs` | theorems about `PageText` and `PageFetch`, and the types of the whole service |
| `MC*` | instances for TLC; each `.cfg` names its bounds |

`ChatTurn` composes with the lock through the contract: its variables
`executing` and `lost` are those of `TurnLocker`, and its lock steps are
`Lock!Begin`, `Lock!End` and, where `LostAt` lets a request lose its lock,
`Lock!Lose`. `TurnLock` is shown, by TLC and by proof, to implement that
contract. `disturbed` remembers the requests that executed together with another:
what the lock is there for is stated of the others.

`ChatTurn`, which says who writes the messages of a session and when, and
`History`, which says what models are shown of them, have no step in common: the
one knows locks, failures and clients, the other models, chains and times. They
meet in `Conversation`, of which both are implementations. Its variables are the
log and whether the session exists; a user may `Ask` at any time, also behind a
turn that ended half way; a model may `Reply` when the last message is not its own
and no call of the last reply waits for a result; a `Result` answers a call that
`Waits`. So the interrupted turn of `ChatTurn` is the broken chain that
`CompleteToolHistory` takes out in `History`, and what `ChatTurn` stores are logs
that `History` reads.

`Service` extends its three components, whose variables it owns, and adds how
they meet: `verifyChromium` is a `Preflight` of the page fetcher whose outcome is
`VerifyChromium`'s argument, a fetch uses the browser only when the start has
found one, requests begin while the service serves, and those in progress go on
during the shutdown. Its steps are shown, by proof, to be steps of the
components' specifications.

### How the modules correspond to the code

`TurnLock`. `owner` and `left` are the key and its time to live; `pc` is a call
of `AcquireTurn` until its release; `renewer`, `alarm` and `due` are the
goroutine, its ticker and the ticker's one-place channel. A call is identified
with its token. `Acquire`, `Busy`, `AcquireFails` and `AcquireReplyLost` are the
outcomes of `SET NX`; `RenewCall` is the `select` that takes a tick, and
`RenewReply`, `RenewRefused`, `RenewError` the outcomes of the script (a reply
may be lost after the script took effect); `Finish`, `RenewerStops`, `Release`,
`ReleaseFails` are the release closure, which closes `done`, waits for the
goroutine and only then runs its script. A `Crash` may leave a renewal on the
wire. `Waiter` are the calls of `DeleteSession`, which retry.

`TokenCache`. One action per stretch of `AccessToken` between points where
other goroutines run. A channel is named by the generation at which it was
made, so `closed = 0 .. generation - 1`. The platform's answers are arbitrary.
A context may end at any time, and an answer can be a cancellation only then.
`SharedToken` has no snapshots, generations or channels: a call knows that the held
token was accepted or refused, and what it knows is gone with the token, even when
the next one is the same. In the cache that is a call whose check is over and whose
snapshot is still `Current`. `ReturnCached` is `Use`, `BeginRefresh` is `Withdraw`,
`Publish` is `Replace`, and a `Check` of an outdated snapshot is nothing at all.

`TaskPlan`. `Start`, `LookUp`, `Load`, `Save`/`Clear` and the reply are the
steps of one tool call, with everything else free to happen in between. Save and clear are one
step each: a Redis script, or a PostgreSQL transaction that holds the
session's row. `incarnation` counts creations and is history only. A task is its
identifier and status; anything else that makes it invalid is `BadStatus`.
Statuses of the tool (`invalid_arguments`, `plan_conflict`, ...) are kept.
`announced` is what clients have been shown. The tool ignores the result of
`EmitFromContext`, and `Emit` drops what comes behind the terminal event of the run,
which a tool's goroutine may outlive; so each call belongs to a run (`RunOf`), and a
run may `FallSilent` at any time, because it has ended or its client has gone.

`PlanRegister` has no revisions to check, no store and no steps between a read and
a write. To it a `Load` is `See`; a `Save` or `Clear` that the store accepts is
`TakeEffect`, on the plan that is stored and not on the one that was read, whether
its answer arrives or not; each refusal is `Refuse`, with a reason that is true when
it is given; and the steps that only carry an answer are nothing at all. What the
code does not keep is named: a call may act on an `Outdated` plan, one that was
cleared and created again with the revision the call has read.

`ChatTurn`. One action per step of `StreamSession` that another request or the
client can see: acquire, read, start, append the user's message, one per
message of the agent (a model reply, a tool result), and the ends. Recording a
message and emitting its events are one action: the events are the request's
own, so that nobody can come between the two, and a failed record is an
action of its own (`RecordFails`), which may or may not have reached the store.
`LoseTurn` is a key that expires while its request executes; the request is not
told and goes on.
`PlanUpdated` is the tool goroutine, which emits by itself, also after the run.
A message keeps its run, role and calls; `agent.status` and `assistant.*`
events are left out.

`SessionLog`. One session, in PostgreSQL (`durable`) or in Redis. A PostgreSQL
append is a transaction of three visible steps: `LockRow` (`SELECT ... FOR
UPDATE`), `Allocate` (`MAX(sequence) + 1`) and `Commit`, and may fail at each; a
Redis append is its script, `Push`, with `LTRIM` as `Trimmed`. Either may be
stored and its reply lost (`Answered`). `Gone` is a deletion, which waits for the
row, or the expiry of the keys. `Find`, `TakeSnapshot` and `ReadPage` are the
queries of `ListMessagePage`; Redis takes its snapshot from the page itself. The
client follows `README.md:428-431`: it carries the snapshot on, adds what it got
to its offset and stops when there is no more. `received` and `promised` are
history. Appends are not tied to a turn here, as a turn can lose its lock.
To `MessageLog` a `Push` and a `Commit` are `Append`, `LockRow` and `Allocate`
nothing at all, every failure `Fail`, `Gone` the `End`, and what a client reads
changes nothing.

`History`. `log` are the messages of the session, `chains` what Ark keeps under
the id of a response (its index). `StartTurn` reads the history
(`ListMessages(Limit)`), sanitizes it for the turn's model and stores the user's
message; `Assemble` is `AssembleForTurn` with `restoreArkResponseCache` in
`ItemOf`, or `Reject` its refusal; `CallModel`, `ModelReplies` and `ToolResult` are
the agent's loop as far as it stores messages. The Ark SDK is external: `IsCut`
says that it goes on from the last message whose response is alive.
`CompleteToolHistory` repeats `CompleteStep`, one message of the code's loop;
`IsKept` is its reference definition, which looks at the whole history at once.
`EndTurn` may happen at any point: a failure, a client that goes, a crash.

`ResponseStream`. `reader` is the goroutine of `readEvents`, `bridge` that of
`closeAwareStream`, `pipe` with `ended` and `dropped` is Eino's `schema.Pipe`.
One action per event of the provider, each followed by `Send`, which may wait.
`progress` is what of an item's reasoning has been shown and in which
representation. A response is valid when the checks of its status, items and
calls pass. The consumer is `readMessage` or any other that calls `Recv`; it may
close at any time.

`Lifecycle`. `stage` is the next thing the start does, in the order of `main`,
`initializeClient` and `initialize`; every stage may fail. `held` are the variables
that `closeResources` looks at. `ProbeFails` is a connection that is made, does not
answer and is closed by its own constructor. `CorsFails` is `main`'s panic behind
`initialize`, which closes nothing.

`PageFetch`. `at` is where `Extract` or `Render` is; `proxy` and `tunnel` are the
server in front of the browser and its hijacked connections, which run by
themselves. `CloseBrowser` are the deferred functions of `Render`. The caller's
context and the browser's time may end at any point. Documents are sequences of
found texts; a text is a sequence of lines, and of a line two things are kept: its
number of characters (`Chars`), by which candidates are sorted, short overlaps told
apart and results truncated, and what `html.UnescapeString` makes of it
(`Unescaped`), which may be blank. That is not idempotent, and the code normalizes a
text each time it merges it: `MergeText` begins with `NormalizeText`, and in `Both`
the text of the HTTP answer goes through it again. `Finish` also does what the tool
does with the result: it refuses an empty text and truncates a long one (`excerpt`).
`PageText` has `SuffixPrefixOverlap` with its prefix table, next to
`LongestOverlap`, which simply looks for the longest; `ValidateLinks` next to
`IsHonest`.

## 3. Runs

| Run | Instance | Shows |
|---|---|---|
| `turnlock` | one turn and one deletion, TTL 6, renewal 2 ticks, errors and late renewals | the lock's safety, its refinement of `TurnLocker`, expiry of abandoned keys, service of waiters |
| `turnlock_lost` | two turns, renewals may fail | **violation** of mutual exclusion, see findings |
| `tokencache` | three calls, one token to issue besides none | all safety properties, the cache's refinement of `SharedToken`, and that every call returns |
| `taskplan` | three calls in two runs over three task names, limit 2, one earlier plan or none | validity, announcement, the tool's refinement of `PlanRegister` |
| `taskplan_detached` | as above | **violation**: a revision that is used again |
| `taskplan_clear` | as above | **violation**: a conflicting clear is an error |
| `chatturn` | two turns and one deletion, one turn with two tools (one not registered), two replies, one plan event, a lock lost at the end of a turn | history, contiguity, events, completeness, deletion, progress |
| `sessionlog` | five appends, a window of three, pages of two, one client | numbering, the stores' refinement of `MessageLog`, pages that join and are complete |
| `sessionlog_trim` | four appends, a window of two, pages of one | **violation**: the window moves past a snapshot that is being read |
| `history` | two Ark models and one of OpenRouter, two tool calls at a time, a limit of three, six messages, chains that live one tick | what models see, whose responses they go on from, what of a history is dropped |
| `history_blank` | as above | **violation**: a stored message that blocks its session |
| `service` | two pieces of text, two deltas, texts of up to two lines, of four kinds, one tunnel | connections closed once, whole answers, complete pages, nothing left behind |

Why these bounds are enough to be interesting. `TTL = 3 * Renewal` is the code's
ratio (30 s and 10 s): a renewal may be missed and the next one still comes in
time. Two callers are what theft and handover need; the proofs cover any number.
Three token calls allow one that refreshes, one that waits and one whose check
is outdated. Three plan calls allow a clear and a create between another call's
read and its write; two of them are of one run and one is of another, which may
have lost the lock, and either run may stop announcing. (The two are symmetric, which
the run uses: it has no liveness property.) Two turns allow one to run while the other is refused or
comes after; two tool calls and two replies allow a partial set of results, an
order among them, a chain after a chain, and the limit of iterations. The turn
with tools may lose its lock when it has its answer, so that a turn or a deletion
executes beside it; locks that are lost earlier have too many interleavings for
the run, and are left to the proofs, which let any request lose its lock
anywhere. Five
appends fill the window, fill two pages and still leave some to come between
them; a client reads by itself, so one is enough, and asks for pages of one size.
The appends are symmetric; that run has no liveness property. Six messages under
a limit of three are enough for a history that begins in the middle of a chain,
for a chain left half way with a turn after it, and for a turn of each model
between two of another; the two Ark models are symmetric, and so are the calls.
Two different pieces and two deltas let a completed response continue, repeat or
contradict what was streamed, in either representation of its reasoning. A
page with one found text and a browser's page with another have every overlap of two
texts of two lines, among them a line long enough to be an overlap of its own, one
that unescaping makes blank and one that it makes into that; more texts only repeat
the merge, and the merge, the overlap
and the links are compared with their reference definitions on larger inputs by
the assumptions of `MCService` (overlaps of texts of four lines; three candidates of short and long lines, and two
with escaped entities; four links).
One tunnel suffices as tunnels share nothing but the proxy. One request at a time
suffices as requests share nothing but the browser's existence.

`CHECK_DEADLOCK FALSE` in the plan, turn, log, history and service instances: they
stop when all requests are done, the bounds are reached or the process is over.

### Fairness

Safety runs use `Spec`. Liveness is checked under `FairSpec`:

* `TurnLock`: time passes; a goroutine that can run does (weak); a closed `done`
  is eventually taken although ticks keep coming, because `select` chooses at
  random (strong); a deletion that polls every 10 ms eventually meets a free
  key, and its reply is not lost every time (strong). Nothing is assumed of turns
  that have not begun.
* `TokenCache`: weak fairness for each started call; the HTTP client has a
  timeout, so network calls answer.
* `ChatTurn`: weak fairness for the steps of a turn that holds the lock or has
  been refused, and for a deletion's attempts. A model or tool that never
  answers is ended by its timeout, which is a failure and a step. Weak fairness
  is enough for the deletion as the instance's turns are finite in number.
* `Service`: weak fairness for the goroutines of a stream (`Send`, `CloseReader`,
  `CloseUpstream`, `CloseSource`), for a read of a body that has been closed
  (`ReadClosed`), and for a consumer that reads and, once it has seen the end or
  an error, closes. Nothing is assumed of the provider, which may stall: only
  closing ends such a stream. A fetch proceeds, as each of its steps has a timeout,
  and the tunnels of a closed proxy drain, because `copyTunnel` closes both sides
  when their context is over.

`SessionLog`, `TaskPlan` and `History` are checked for safety only.

## 4. Findings

1. `turnlock_lost`: the renewal goroutine ends on its first error
   (`store/redis/store.go:147`) and the turn is not told. The key expires, and a
   second turn runs beside the first, against `session.go:167`. The proof
   `Exclusion` shows the other side: without failing or late renewals turns do
   exclude each other.
2. `taskplan_detached`: a plan's revision starts again at 1 after a clear, so an
   old writer can overwrite a plan it never read, against `taskplan/model.go:47`.
   `PlanRegister`'s `Outdated` states exactly how much of the promise is kept, and
   `NoLostUpdate` says the same of the tool's own steps.
3. `taskplan_clear`: a clear that meets a conflict is a tool error, not
   `plan_conflict` as `docs/CHANGELOG.md:1161` says.
4. `sessionlog_trim`: appends to an anonymous session trim away messages that a
   client has yet to read, and its pages end without them, against
   `README.md:431`. The window itself is intended; `PagesFollow` and
   `PagesComplete` state what is kept of the promise: no repetition, no gap
   between pages, and all that is still there.

5. `history_blank`: a reply whose reasoning is white space and that has nothing
   else is valid when it is stored (`session.go:178`) and not when it is replayed
   (`assembler.go:71`), so that every later turn of the session is refused while the
   message is within the limit.

Also noted while modelling, without a run of its own:

* When a message cannot be recorded the run ends without ending the tool calls its
  client has seen start (`runtime.go:97`), which `ToolCallsEnd` therefore excepts.
* Texts are unescaped once more with each merge (`content.go:47`): an entity that a
  page shows as text is another character in the result, or none, and how often this
  happens depends on whether the browser was used. `ResultIsComplete` says what is
  kept: all the texts of one result are unescaped equally often.
* A plan that is stored by a tool that outlives its run is never announced
  (`event.go:63`); the page shows it when it reads the session again.
* `README.md:692` of the repository speaks of at most 12 iterations;
  `initialization.go:160` sets 20.
* The shutdown hook closes the stores while turns may still be running; their locks
  are not released and linger for their time to live, which is what
  `AbandonedLockExpires` is for.
* A CORS configuration that is refused (`main.go:37`) abandons three open
  connections to the exit of the process; `ConnectionsAreClosedOnce` excepts it.
* A model of Ark is replayed broken tool chains, which `completeToolHistory` removes
  only for stateless models (`assembler.go:55`).

## 5. Proofs

All are checked by TLAPS for every value of the constants that meets the named
assumptions (`CallersDiffer`, `Calls`, `Bounds` in `ChatTurn`; `Sizes` in
`SessionLog`; `DistinctCallers`, `Durations`, `Environment` in `TurnLock`;
`DistinctNull` in `TokenCache`; `Arguments`, `EarlierPlans`, `NoPlanIsNone`,
`StatusesDiffer`, `LimitIsNatural`, `CallsHaveRuns` in `TaskPlan`; `ModelsDiffer`, `NoCallDiffers`, `Sizes` in
`History`; `StreamSizes`, `LinesDiffer`, `LinkSizes`, `FetchSizes` in `Service`).

`TurnLockProofs`: `TypeCorrect`, `RenewalKeepsLock`, `LockNeverStolen`,
`Exclusion`, `LockKeepsContract`. `OnScheduleOwns` alone is not inductive: a
goroutine that is being answered, one that was stopped, and a crashed holder's
goroutine must be related to `pc`, which `IInv` adds. The refinement follows action by action;
only a `Tick` that lets the key expire, and a lost release, map to `Lose`, and
for those the proof needs that renewals may fail or be late. `Exclusion`
strengthens the invariant with `Protected`, every running turn owns the key,
which `OnScheduleOwns` and `Punctual` maintain across a tick.

`TokenCacheProofs`: `TypeCorrect`, `OneRefreshAtATime`, `OnlyVerifiedReturned`,
`WaitersAreWoken`, `StaleNeverReturned`, `EvictionIsJustified`, `CacheSharesToken`.
The core of the inductive invariant ties each call's snapshot to the cache: a
snapshot of the current generation, with no refresh running, holds the very token
that is cached. The refinement needs one fact more, `Found`: a call that found no
usable token, and whose snapshot is current, would find none now. So whoever empties
the cache has a reason that still holds.

`TaskPlanProofs`: `TypeCorrect`, `StoredPlansAreValid`, `RevisionsNamePlans`,
`StoredPlansAreAnnounced`, `UpdatesAreNotLost`, `PlanKeepsRegister`. The key of the invariant is that
what a call has read, and what it has saved, is at most the current revision
within the same incarnation, and equal to the stored plan when the revisions
are equal. `StoredPlansAreAnnounced` follows the plan from its commit: it is the result
of a call, and the announcement reaches the client unless the call was told that its
write failed or its run is silent. `PlanKeepsRegister` goes action by action, from that invariant and
`Progress`, which says what a call on its way to a store still intends: the tasks it
will write are what its arguments make of the plan it has read (`WantedMakes`, with
`UpdatedSetsStatuses` for the loop of `updateStatus`). When the store accepts, the plan
that was read is the plan that is stored, or is `Outdated`; when `ValidateTaskPlanTasks`
refuses, the arguments are to blame, because the stored plan is valid
(`InvalidIsFaulty`).

`ChatTurnProofs`: `TypeCorrect`, `HistoryStaysFresh`, `RunsStayTogether`,
`StreamsAreShaped`, `DeletionsWait`, `CallsEnd`, `CompletedIsStored`,
`KeptLocksExclude`, `TurnsConverse`, `KeptLocksConverse`. `LostAt` is arbitrary, so that any request may lose its lock
anywhere. `Placed` says who has the turn, or had it and lost it: the requests that
are neither waiting nor over, any two of them disturbed. A turn that is not
disturbed is so the only one that executes, and the log belongs to it: `LogPlaced`
adds that a turn that has not stored its user's message has nothing in the log,
so `HistoryIsFresh` is where contiguity comes from. `EventsPlaced` ties the list
of events to where the run is: empty, open or closed. `CallsEnd` needs no
counting: `CallInv` says which calls are open in the events (`OpenCalls`) and
that they are those the run still holds, and that an event only closes a call
that is open. `CompletedIsStored` does the same with the turn's part of the log
(`WholeInv`): while the run goes on, the calls of its last reply without a result
are those it still has to answer, and when it completes there are none. A disturbed
turn may store anything anywhere from then on, which cannot harm the runs that were
complete before it or begin after it; the events and the calls in them need no
lock at all. `KeptLocksExclude` says when nobody is disturbed: when no lock is lost.
`TurnsConverse` follows from `WholeInv` too: where a turn is about to call its model
nothing waits (`NothingWaits`), and at its tools what it has yet to store does
(`AskedWaits`). It says so of all that undisturbed turns store, next to disturbed
ones; where no lock is lost, that is `Conversation` as it stands (`KeptLocksConverse`).

`SessionLogProofs`: `TypeCorrect`, `NoSequenceIsSkipped`, `StoredMessagesStay`,
`StoresKeepLog`, `PagesJoin`, `LastPageEndsSnapshot`. The log is kept as a set of messages whose
sequences are an interval (`Consecutive`); the lemmas say how large such a set is,
what a cut of it is and what rank a message has in it, which turns `LTRIM`,
`OFFSET` and `LIMIT` into arithmetic on the ends of the interval. `LogInv` adds
that one transaction holds the row and knows the next sequence. `PageInv` relates
a client to the log: what it has lies directly under its snapshot, the log has
reached the snapshot, and it grows only at its end (`GrowsAtEnd`). `StoresKeepLog`
reads the same interval as a function from sequences to messages: adding the next
message to the set and cutting it to the window is the `Append` of `MessageLog`, and
`MAX(sequence) + 1` is its count because only the holder of the row adds to it.

`HistoryProofs`: `TypeCorrect`, `ChainsAreOwn`, `EverythingIsShown`,
`HistoriesAreComplete`, and so every invariant of the `history` run; and
`HistoryConverses`, for which `TalkInv` says that the results missing at the end of
the log are those in `asked`. Two arguments meet in the invariant.

* What `completeToolHistory` keeps. Its loop is a recursive function over the
  number of messages taken (`Completing`); `CompletingStates` shows that this
  function exists, and `CompleteKeeps` goes through it by induction. The library's
  induction theorems take an operator and cannot be used, so `UpTo` states
  induction up to `n` with a set of numbers, from the well-foundedness of `<`.
  `LoopInv` describes the loop: what is pending are the calls of the last message
  that is not a result, less the answers behind it; what has been taken are the
  messages of whole chains and of the chain that is still open; and that chain
  begins behind `start`. It needs a log in which a call is answered once
  (`IsLog`), which is what the turns store and what every window of the log that
  `ListMessages` cuts inherits (`WindowIsLog`).
* What a call shows. `EverythingIsSeen` is about one moment, and the reason is
  in the past: the chain of a reply holds its turn and the `Limit` messages
  before it (`LogCovered`). A later turn reads no further back, so the chain of a
  message of its history holds everything before that message (`Covered`). While
  the turn goes on, the same is true of the messages of its call, where a chain
  that lacks the turn's reminder although the reminder comes first has expired
  (`InputCovered`); this is what `hasActiveArkResponseCache` decides in
  `Assemble`, and time only makes it truer. That a new reply's chain holds what
  comes before it needs the converse too, that the messages of the call are no
  more than what is to be seen (`ShowsOnly`).

`ServiceProofs`, about the connections: `ServiceStarts`, `StartTypeCorrect`,
`Closing`, about the whole specification of `Service`: `Step`s of the start are
the only ones that touch its variables but for the look for a browser.
`HeldInOrder` says that the resources that are open are those of the steps
already taken, the one opened last on top, and `Balanced` that what is closed was
open once; with them, a start that fails at any point has closed what it had
opened, once each.

`ServiceProofs`, about answers: `ServiceAnswers`, `AnswerTypeCorrect`, `Answering`.
`ServiceAnswers` projects a behaviour of `Service`, its fairness included, on the
answer alone. `Places` relates the reader goroutine to its consumer and the
body, `Sending` says what is in the reader's hands, and `Shown` and `Sent` that
the pieces shown, those in the channel and those still to come make up the text
of the final event; `AnswerIsWhole` is what remains of them at the end.

`PageFetchProofs`: `OverlapIsTheLongest`, `CandidatesMerge`, `LinksAreValidated`,
`Fetching`, `RenderClosesBehind`, `TypeCorrect`.

* The algorithms of `content.go`, for texts of any length. `Fits` is an overlap
  by its lines, and `Longest` the longest up to a bound. An overlap that is longer
  by a line is an overlap and that line (`FitsOneMore`), and an overlap of an overlap
  is an overlap (`FitsTwice`); so falling back along a correct table finds the
  longest overlap that the next line continues (`FallBackFinds`, by the least
  length at which it would not), and one line further the result is again the
  longest (`MatchedLongest`). That serves twice: for the table, whose own lines are
  overlapped with themselves (`TableGrows`), and for the search. A join that
  leaves out an overlap, or none, keeps both texts together (`JoinKeeps`), and
  `Complete` is kept by every further text. Each text is normalized before it is
  joined, and a text that is complete stays so when it is normalized once more
  (`NormalizeAgain`), because a part of a text becomes a part of what the text becomes
  (`NormalizeBlock`): blank lines go from both. `TruncateKeeps` says that a truncated
  text is a beginning of the whole, and not an empty one. `RankIs` shows by counting that sorting
  candidates loses none: distinct candidates have distinct ranks, and a set of
  numbers that is mapped into itself one to one is mapped onto itself. `Recursion`
  and `UpTo` take the place of the library's induction theorems.
* The links, for any number of candidates. `Honest` is `IsHonest` of the candidates
  looked at so far: the links are good ones in the order of the candidates, each
  once, and none of them is missing unless the result says that it is truncated.
  One more candidate is added, left out or ends the loop, and each keeps it.
* The call. `FetchInv` says where a text is complete (while the browser runs, and
  before it is returned), that nothing was read before there is an answer, which is
  what a look for a browser at the start leaves as well, and that an error loses a
  text only with its caller, or when unescaping it once more leaves nothing of it. The fetch meets the rest of the service in `browser`,
  whose type is all that is needed of it.
* The browser's proxy. `ProxyIsBrowsers` says that it listens only between the launch
  and the deferred functions of `Render`; so `NothingOpensLate`, the safety half of
  `NothingIsLeft`: once `Render` has returned no connection is taken any more.

Every safety property that a run checks, refinements included, is so a theorem.
The two `KeepsConversation` and `NothingOpensLate` are theorems that no run of section 3
lists; TLC finds them to hold under the constants of `MCChatTurn.cfg`, `MCHistory.cfg`
and `MCService.cfg`.
Only model-checked is liveness (`RequestsEnd`, `NothingIsLeft` and the others of
section 3): fairness and `ENABLED` are outside TLAPS's reach here.

## 6. Not modelled

* The Open platform's OAuth client, the search and knowledge services, MCP tools
  and the sandbox: single requests with a timeout and no state in this process
  but the token cache, which is modelled. Their failures are failures of a tool
  call in `ChatTurn`.
* Skills: files that are read, and per run a set of those loaded, under a mutex
  that is held during the load.
* How a page is parsed: which elements are dropped, what text and which links
  they leave, character sets. `PageText` begins with the texts and addresses that
  were found. Which addresses are public (`internal/integration/webfetch`'s
  checks of hosts) is a predicate of the instance.
* HTTP binding and status codes, JSON and the wording of events, prompts and
  messages, logging and configuration: no state, or none the properties tell
  apart.
* The agent framework and the SDKs are external; they appear where the code
  calls them, and the map marks those definitions.
* PostgreSQL's and Redis's own guarantees (a transaction's row lock, the
  atomicity of a script or of `MULTI`) are assumed and not derived.

`PROJECT.json` gives the status of each component and the reason.

## 7. Plan

All modules of the plan are written, checked and proved about: `TurnLock`,
`TokenCache`, `TaskPlan`, `ChatTurn`, `SessionLog`, `History`, and `Lifecycle`,
`ResponseStream` and `PageFetch` under `Service`, over the abstract `TurnLocker`,
`SharedToken`, `PlanRegister`, `MessageLog` and `Conversation`. What would add most next
is the page fetcher as a component of its own: a specification of `PageFetch` that
`Service` is shown to project on, as it is for the start and the answer, so that its
proofs need not repeat the rest of the service.
