# Verification of makai: the SDK and its host

makai is a Zig runtime for model providers and agents.  Programs drive it as a
child process, `makai --stdio`, through SDKs that exchange one JSON envelope per
line with it.  This directory holds TLA+ modules of that path, from a caller's
`agent.run()`, `provider.stream()`, `auth.login()` or blocking call in the
Python SDK down to the worker threads of the host, with the TLC configurations
that check small instances and the TLAPS proofs that hold for every instance.

    caller ──► SyncMakaiClient (sync.py), the binary it runs (binary.py)
                    │ submits coroutines to one event loop
                    ▼
    AgentApi, ProviderApi (execution.py), AuthApi (auth.py), ModelsApi (models.py)
                    │   ▲ _normalize.py, _wire.py: frames to events and responses
                    ▼   │
               StdioTransport (transport.py)
                    │ stdin      ▲ stdout
                    ▼            │
               StdioProtocolLoop (makai.zig)
                    │ dispatches every line, pumps every server
        ┌───────────┼───────────────────┬─────────────────────┐
        ▼           ▼                   ▼                     ▼
    agent server  StdioToolBridge   provider server       auth server
        │           ▲                   │                     │
        ▼           │                   ▼                     ▼
    run worker ─────┘               provider threads      flow workers
    (agent_loop.zig)                (event streams)       (prompts, storage)

## 1. Inventory

Component | State it keeps | Operations | What makes it correct
--- | --- | --- | ---
Session server (`zig/src/protocol/agent/server.zig`, `runtime.zig`) | sessions, expected sequences, pending messages, generation counter, outbox | start, message, stop, status, models; publish event, result, error; evict idle | an id that is gone is in no map; one settlement per accepted message; nothing published into a registration that is not the run's
Stdio loop (`zig/src/tools/makai.zig`) | stdin lines, pipes, active runs | dispatch a line, start pending runs, pump runs, publish tool requests, sweep, drain, exit | every accepted message settles; no event of a successful run is lost; the process ends after end of input, and only when idle
Tool bridge (same file) | requests, in-flight calls, results, disconnect latch | enqueue, mark in flight, enqueue result, pop, discard session | a result reaches the call it answers, or nobody; a queued result wins over the latch
Run worker (`zig/src/agent/agent_loop.zig`) | its event stream, its current tool call, the message being assembled | stream a turn, call a tool and poll for its result, go on or end | ends whatever the client does; what it emits is what was streamed, in order
Event stream (`zig/src/event_stream.zig`) | ring, published flags, result, completed | push, poll, complete, wait | bounded, ordered, nothing after completion; a push on a full ring waits
Provider server (`zig/src/protocol/provider/server.zig`, `runtime.zig`) | active streams with their rings, expected sequences, the pump's place | stream, complete, abort, models; forward events, send terminals, clean up | one terminal frame per stream; an abort reaches what it names
Auth server (`zig/src/protocol/auth/server.zig`) | flows, their locks, sequences, outbox; credentials | start, prompt response, cancel, list; the worker's prompts, save, announcement | one result per flow, last; a reported success is of saved credentials
Transport (`python/src/makai/transport.py`) | process, closed, handshake, teardown task, routes, two locks | connect, close, send, open and close a route, read, abandon, reap | no orphaned child; requests fail when the child goes
Agent calls (`python/src/makai/execution.py`, `_wire.py`) | locals of `_session`, tool buffers, retry state | start, message, tool results, stop with a sequence probe, retry after login | own output only; no session left behind; nobody else's session stopped; no tool run twice; the response is the last message
Provider calls (`execution.py`) | stream id, sequence, whether anything was yielded | complete, stream, abort, retry after login | abort what was abandoned; show a terminal once; never retry what was shown
Auth flows (`auth.py`) | flow id, sequence, the prompt asked | login, prompts, refusal, cancel, list | a left flow is cancelled, and ends
Synchronous client (`sync.py`) | loop thread, closed flag, iterators | connect, run, iterate, tear down, close | no caller blocked for ever; no orphaned child or loop
Binary lookup (`binary.py`) | the cached file and a temporary one | find, download, verify, replace | what is returned was verified, or is what was put there
Normalisation and models (`_normalize.py`, `_model_ref.py`, `models.py`) | tool-call buffers, the fold of a stream | parse events, fold streams, add usage, detect auth failures, resolve | no event lost, doubled or taken from another turn
Providers, OAP gateway, TUI, local tools, artifact store, OAuth storage, other SDKs | see `PROJECT.json` | | outside the core

**Interactions.**  The loop thread of the host owns its three servers; it
serves a `complete_request` without returning to its other work.  Workers share
with it their event stream, the tool bridge and the auth server's table, each
under a mutex or an atomic flag.  Replies to requests go straight to the client
pipe, frames of runs and flows through an outbox, flushed once per turn of the
loop.  In the SDK everything runs on one asyncio loop: callers, the reader task
and the teardown task interleave at awaits, and a cancellation can arrive at
each of them.  A synchronous client adds threads that wait for coroutines of
that loop, and processes of one machine share the cache of the binary.

**Hard behaviours.**  Session ids are reused, and frames of a run carry no
registration; a stop and a new start can overtake a run that is still
producing.  Tool call ids repeat, and so do content indices.  The stdin thread,
the loop and the workers race at the end of input; a provider thread races the
pump's cleanup; a flow's worker races the handler of `auth_cancel` for the
result.  On the other side: cancellation anywhere, a timeout that sends
nothing, a child that is being spawned, reaped or dying, an iterator abandoned
while another thread closes the client, and the host's sequence counters, which
the SDK must guess when it stops a session or aborts a stream.  `PROJECT.json`
lists each as a hazard at the line where it bites, with the properties that
cover it.

## 2. Modules

Module | Models | State and actions
--- | --- | ---
`AgentHost` | session server, loop, bridge and workers together | one variable per field of the server and the bridge; `run` holds the active run of each generation with its worker; `at` is the phase of the loop's turn (poll, eof, start, runs, drain, settle, tools, flush, drainout).  One action per handler and per phase; one per step of a worker between two accesses to shared state, the wait on a full event stream among them
`SessionServer` | what the host promises a client | a table of registrations and one ordered stream of frames
`AgentHostServer` | the refinement of the second by the first | `registry` is the status, the generation and the expected sequence of an id, read together, `wire` the pipe followed by the outbox
`AgentHostProofs` | the theorems about `AgentHost` and `AgentHostServer`: registrations and outputs, tool waits, the refinement | see section 5
`Transport` | `StdioTransport` | one variable per field; `pc` and `hand` are where each task is between two awaits and the child it handles; `stage` is how far `_reap_child` has come
`TransportProofs` | the theorems about `Transport` | see section 5
`AgentCall` | `AgentApi.run`, `stream` and `_session`, over `SessionServer` | `call` holds the locals of `_session` and of the retry loop, `queue` the route's frames, `inbox` the requests on their way
`AgentCallProofs` | the theorems about `AgentCall` | see section 5
`AuthServer` | the auth server and the workers of its flows | `flow` is a flow's record, `expects` its sequence, `worker` where its thread is; one action per handler, and one per step of a worker between two locks.  The cleanup every entry begins with is part of each handler
`AuthLogin` | `AuthApi.login` and `list_providers`, over `AuthServer` | `login` holds the locals of one login; each action ends at an await; `lost` marks a login cancelled inside its first send
`ProviderServer` | the provider server and the part of the loop that serves it | `stream` is the table of streams with their rings, `pump` where the loop is: dispatching, on one of its passes (events, terminals, events again, cleanup), or inside a completion
`ProviderCall` | `complete`, `stream` and `_relogin`: `ProviderServer` and `AuthLogin` composed over one host | `call` holds the locals of a call and its attempt; the loop dispatches lines of both protocols only while it serves no completion
`ProviderCallProofs`, `ProviderLoginProofs` | the theorems about `ProviderCall`: credentials, results and aborts; the numbering of a login and what a caller is shown | see section 5
`BinaryCache` | `resolve_makai_binary` | two files and the locals of each resolver; a step is what the file system does atomically, and a process may die between any two
`SyncClient` | `SyncMakaiClient`, its loop thread and `connect_sync`, over `BinaryCache` | `thread` is where each caller is, `task` the coroutine it waits for, `loop` the life of the loop's thread
`SyncClientProofs` | the theorems about `SyncClient` and `BinaryCache` | see section 5
`Normalize` | `_normalize.py`, `_wire.py` | operators: frames to events, fold of a stream, results to responses, usage, auth failures
`ModelCatalog` | `models.resolve` against `models_request`, and `model_ref` | operators and two actions
`AgentRun` | one run end to end: the agent loop, the frames the host makes of its events, what `run` and `stream` make of the frames, with `Normalize` and `ModelCatalog` | `loop` assembles messages from provider events, `finals` holds those of finished turns and what was streamed of each, `wire` carries frames, `seen` and `buffers` are the caller's locals.  Two runtimes: the Zig host, and the server of the SDK's own tests, which uses the other names and shapes the SDK accepts
`AgentRunLemmas`, `AgentRunProofs` | the theorems about `AgentRun` and `ModelCatalog`: what the operators of `AgentRun` and `Normalize` compute, for every input; what follows for a run and its caller | see section 5
`MC...` | instances | constants, symmetry sets, catalogues

**How they compose.**  `AgentCall` composes the Python client with the abstract
server and not with `AgentHost`: the refinement, checked in `host_liveness` and
proved in `AgentHostProofs` for every instance, is what makes this a
statement about the two programs.  `ProviderCall` composes
client and servers directly: a completion blocks the loop that serves logins,
and this is where the two protocols meet.  Routes and their exclusion are in
both `Transport` (the life of a route against the child) and `AgentCall`
(frames of one session id against the call that reads them).  `AgentRun` has
the data `AgentCall` leaves out: it begins where the handshake ends, on a
channel that loses nothing.

Abstractions, stated at the head of each module: payloads are dropped, frames
are records of type, owner and what the receiver tells apart; in `AgentRun`,
where payloads are the question, text is a sequence of fragments, so that a
lost, doubled or moved one shows.  The host answers a known set of codes.  Time
is nondeterminism: any timeout may fire, any session that is not processing may
be idle.  Where `agent_started` is accepted and `agent_message` written,
`AgentCall.Started` is one step although the code awaits between the two
(execution.py:626): nothing is read or decided there, and a call that leaves at
that await leaves as one does just before or just after the step.  Allocation
failures are left out except where they have a handler
that changes state (a run that cannot start).  A provider's login asks any
number of prompts and succeeds or not; a provider refuses, fails or answers.
`gen` in a frame, `streamed` in a message, `said`, `shown`, `overlap` and
`closers` are history; no guard reads them.

## 3. Runs

Run | Instance | Question
--- | --- | ---
`host_safety` | 2 session ids, 2 registrations, 1 tool call id, 4 requests, 1 unit of work per run | settlement, output, bridge and tool waits when an id is registered again while an old run lives, with evictions and with payloads that name the other session; the proofs' invariant
`host_liveness` | 1 session id, all request types, 3 requests | settlement and exit under fairness; refinement of `SessionServer`
`host_truncated` | 1 session id, 5 requests, 1 unit of work | finding: success without the last event
`transport_safety` | 3 tasks, 2 children, 2 requests, 2 lines, 2 cancellations | ownership of children, closing, route errors
`transport_liveness` | 2 tasks, 2 children, 1 request | requests, children and calls end
`call_reuse` | 2 calls on 1 supplied id, 2 registrations | who reads and who stops
`call_retry` | 1 call, ids supplied or minted, one retry | what is left, and tools across the retry
`call_minted` | 1 call, 2 minted ids | finding: the retry's session is left
`provider_retry` | 1 call with its 2 streams, 1 delta, its login with 2 prompts | aborts reach the stream, logins end their flow and leave credentials, the caller is shown one terminal; under fairness, logins return and flows end
`provider_terminal` | the same | finding: a stream let go without its terminal
`client` | 2 threads, another process, 2 versions of the binary | children and loops left, quiet teardown, calls return; the cached binary is whole and of the version asked for
`agent_run` | 2 turns, 2 tool calls, 3 fragments, both runtimes; all catalogue lists of up to 3 of 8 entries, repeated ones included, 18 requests to resolve | what `stream` shows against what the providers streamed, what `run` returns against the last message; what `resolve` returns against the catalogue

**Why the bounds are enough.**  Two registrations of one id (`MaxGen = 2`) are
the smallest instance in which a run is older than the registration of its id;
a third repeats the situation.  The hazards of the bridge need one tool call id
used twice, which two registrations give.  Two session ids are what it takes to
answer one session's tool in the name of the other; they are symmetric.
Sequence numbers go to 3, one past message and stop.  `EventCap = 1` makes a
worker find its ring full after every event and block on it, `StdinCap = 1` lets the stdin thread
be one line ahead of the loop, which is all the races at end of input need; the
proofs depend on no bound.

In the transport two children are needed to connect again and three tasks for
one connect against two closes; two cancellations cancel one close twice or two
closes once.  In the agent call, two frames of run output before a settlement
are an event and a tool call, and two frames on the wire let late output of one
run meet the start of the next.

A provider call meets other calls only in the loop they share and in the limit
on streams; what others do to it is a refusal or a delay, which one call meets
as well, and `ProviderCallProofs` covers any number of them.  One delta lies
between the pump's two passes or before them; two prompts are a prompt
answered and one left open.  The client needs two threads for a close against a
call, and one process besides to verify, unlink or replace the cached file between
the look of a thread and its read; two versions, as a cache name does not tell them
apart.  Two resolvers that hold the temporary file at a time are in the run, and
`CacheIsVerified` sets them apart (`overlap`).  In `agent_run` two turns
are needed to take something from the wrong one, two calls to mix their
fragments, and three fragments to leave one call, go on with the other and come
back.  Frames in flight are bounded by one when the loop goes on: the caller's
state depends on their order alone.

Frames, lines, cancellations, registrations, work, deltas, prompts and fragments
are the only counters; each has its bound as a constant (`Max...`), and each
bound is a guard of the environment, never of the code: but `nextGen < MaxGen`,
which keeps the number of starts finite and is never reached by a start the
client may still send.  `MaxStreams` and `MaxIterations` are the code's own limits.

Deadlock is not checked: every instance stops, the host when it has exited, the
others when the callers have nothing left to do.

**Mutants.**  Every property of a passing run has one: an operator next to the
definition it replaces, marked as a seeded fault, that changes it as a plausible
bug would (a guard dropped, a check by id instead of by generation, a key left
behind, a lock forgotten, a sequence one too low).  TLC finds the property
violated with it.

## 4. Fairness

`AgentHost`: weak fairness of the loop as a whole (one thread, always
scheduled), of each worker (a thread each; a provider call returns), and of
`ClientAnswer`: a client that keeps its end open answers the tools it is asked
to run.  `HostExitsAfterEof` does not rest on the last one, as nothing can be
answered after the end of input; `AcceptedMessageSettles` does, because a
connected client that never answers a tool keeps the run waiting.

`Transport`: ready tasks run; a spawn returns; the timers of `_reap_child` and
of the handshake fire; a killed child dies; `asyncio.Lock` is first in, first
out, so acquiring one is strongly fair.  Nothing is assumed of callers, of a
child that is not killed, of a full pipe, or of requests giving up.

`ProviderCall`: the loop reads every line it has been sent and serves every flow
in turn; both are strongly fair, because a completion takes the loop away from
them again and again, and each time gives it back: it ends by its provider or by
`stream_timeout_ms`, so the pump is weakly fair.  Provider threads and flow
workers are threads; a provider's login and stream end.  In the SDK a caller's
callbacks return, and every wait for a frame has a timeout: a login or a call
proceeds or leaves.  Nothing is assumed of callers: no call has to begin.

`SyncClient`: threads run; the loop runs what was submitted to it, and stops
when it is told to; a download and a request have timeouts.  A join that takes
longer than its five seconds may happen at any time and is not required to.

`AgentCall` and `AgentRun` have no liveness property: each wait of the former has
a timeout, the latter is about data.

## 5. What is proved

Every safety invariant and every action property that a passing run checks is a
theorem, for all values of the constants.  A theorem has the inductive invariant of its module behind it:
the initial states satisfy it, one lemma per action shows that the action keeps
it, and the property follows from it in any one state or any one step.

### The host

`AgentHostProofs` assumes `HostAssumption` (the bounds are natural numbers, the
capacities positive, `None` is none of the ids):

Theorem | Statement
--- | ---
`HostInvariant` | `Spec => []InductiveInv`
`HostTypeCorrect` | `Spec => []TypeOK`
`MessagesSettleOnce` | `Spec => []OneUnsettledMessage`
`OutputInvariant` | `Spec => []OutputInv`
`OutputIsCurrent` | `Spec => []OutputOfCurrentRegistration`
`BridgeIsCurrent` | `Spec => []BridgeOfCurrentRegistration`
`AnswerInvariant` | `Spec => []AnswerInv`
`ResultsAreForTheirCall` | `Spec => []ResultIsForThisCall`
`QueuedResultsWin` | `Spec => QueuedResultWinsWait`
`HostImplementsServer` | `Spec => ImplementsServer`

`OneUnsettledMessage` (a session is processing exactly while
one of its messages is pending or bound to its run) is not inductive: a step
that settles a run looks its session up by id and generation, so one must know
that no other session shares the generation (`GenerationsUnique`), that an
active run belongs to the id its generation was registered under and is not
newer than the counter (`RunsBound`), and that the loop settles only a run that
is still there, once (`VisitsActive`: the runs left to visit and the one being
visited are active, and the latter is not among the former).  The conjunction is
`InductiveInv`.
`OutputOfCurrentRegistration` needs beside it that the outbox is empty whenever
the loop is at a place where a registration can end (`OutputInv`); the bridge
theorem that results are kept only next to the in-flight call they answer and
that `Discard` runs in the same step as the removal of its session.

A worker finds its result under session, generation and call id, and a call id
may be used again by the same run.  That the result is nevertheless of the call
it waits for is `AnswerInv`: while stdin is open, a request and a key in flight
are of the call their run waits for, and never both (`RequestsAwaited`,
`KeysAwaited`).  After the end of input this is false: a run gives up by the
latch and may ask again under an id whose old key is still in flight.  What holds
then is that no result is queued for such a key (`AnswersAwaited`) and that none
can come, as the latch is set behind the last line (`NothingAfterEnd`).

The refinement reads status, generation and expected sequence of each id together
as the abstract table, and the pipe followed by the outbox to its one stream of frames.  A reply
goes to the pipe directly, so it is appended to the abstract stream only because
the outbox is empty when a line is dispatched (`OutputInv`); what the pump
queues extends the stream because the pipe precedes it; a flush leaves it as it
was.  A tool request is published for the registration that holds its id by
`AnswerInv`.  Fairness is no part of it: the theorem is about `Spec`.

### Agent calls

`AgentCallProofs` assumes `CallAssumption`: supplied ids are session ids, the
bounds are natural numbers, and `None` is no message id.

Theorem | Statement
--- | ---
`CallInvariant` | `Spec => []CallInv`
`CallTypeCorrect` | `Spec => []TypeOK`
`OutputsAreOwn` | `Spec => []OutputIsOwn`
`StopsEndOwnSession` | `Spec => StopsOnlyOwnSession`
`CallsLeaveNoSession` | `Spec => []LeavesNoSession`
`ToolsNotReplayed` | `Spec => []NoToolReplay`

A frame says of which session it is and a reply to which request, neither says
of which registration; `CallInv` states what a call may nevertheless conclude.
Its parts, in the order the argument uses them:

* *Who has what.*  Routes exclude each other (`RouteInv`), a registration has one
  session and one maker (`TableInv`), and whatever carries an attempt's id was
  written by it, for its session (`AttemptInv`).  An attempt writes one start, and
  while that is unread no registration is of it (`StartInv`).  An id not yet drawn
  occurs nowhere (`UnusedInv`).
* *Ownership.*  Once the start of an attempt whose route is open was accepted, or
  from the beginning if its id is exclusive, the host's entry for the session and
  all unread requests for it are of that attempt; before, so are the requests
  behind its start (`OwnerInv`).  This is what `StopInv` rests on: a stop meets no
  registration but its author's.
* *Order of frames.*  A positive reply names the registration its request made
  (`FrameInOrder`), and in the route followed by the wire all output behind it is
  of that registration (`OutputInv`), so that what is read after it is.
  The session of an exclusive id is silent before (`SilenceInv`).
* *Leaving.*  A call guesses the sequence number the host expects of its stop.
  While its stop is unread nothing of the attempt is behind it and nothing answers
  it; an answer that refuses it says that the other number is the one expected
  (`ProbeInv`, with `TriedInv` for the answers to the first try).  Hence after two
  tries the session is gone, unless its stop was cut short (`LeaveInv`).
* *Retry.*  A call that may log in and be tried again is not barred, and a call in
  whose first attempt a tool ran is (`ToolInv`).

### Provider calls and logins

`ProviderCallProofs` and `ProviderLoginProofs` hold for any set of calls and
whatever the bounds.  They assume that a call has two streams
(`StreamAssumption`), the second module also that the bounds on prompts and
deltas are natural numbers (`PromptsAssumption`, `DeltasAssumption`).

Theorem | Statement
--- | ---
`ProviderInvariant` | `Spec => [](AuthInv /\ CallInv)`
`RetriesHaveCredentials` | `Spec => []RetryHasCredentials`
`SuccessesAreKept` | `Spec => []SuccessIsKept`
`ResultsAreLast` | `Spec => []ResultIsLast`
`AbortedStreamsEnd` | `Spec => []AbortedStreamEnds`
`LoginInvariant` | `Spec => [](AuthInv /\ CallInv /\ LoginInv)`
`ProviderTypeCorrect` | `Spec => []TypeOK`
`OneTerminal` | `Spec => []OneTerminalShown`
`EndedLoginsEndFlows` | `Spec => []EndedLoginEndsFlow`

Both invariants of the first module carry the shape of the state (`AuthShape`,
`CallShape`), and beside it what makes the properties inductive.  `Kept` follows
a success from the worker that saved the credentials through the outbox and the
route to the login that reports it: at none of the four places is there one
whose credentials are not saved.  `RetryHasCredentials` then needs one step
more, that of `_relogin`.  `Once` has two halves.  A flow is started by one
request (`StartedOnce`: `auth_login_start` is the first line of its flow, and is
gone once the worker exists), so that there is one worker; and whoever sets
`terminal` first is the only one to announce (`AnnouncedOnce`: while `terminal`
is unset no result was said, and the worker that set it has not spoken yet), so
that neither the worker nor the handler of `auth_cancel` says anything after the
other's result.  `AbortIsLast` says that a call that wrote an abort writes
nothing more: while the stream has unread requests the last of them is the
abort, and when it has none the stream is not active.  It is preserved by the
step that reads the abort because the sequence the server expects is the one the
abort names exactly when the stream is active (`Expected`).

`EndedLoginsEndFlows` is about the other counter.  A login numbers its requests,
the server refuses one that is out of turn, and a refused `auth_cancel` would
leave a worker waiting for good.  `Agreed` says that up to the first
`auth_cancel` what is written is numbered as the server will count, as long as
the flow can still be asked for something.  This needs that a prompt is answered
at most once and that answers are not refused (`Prompted`: prompts arrive in
their order, each once; `Counted`: the client is never further than one request
past the prompts it was shown).  A login cancelled inside its first send wrote no
`auth_cancel`; `lost` marks it, and `EndedLoginEndsFlow` excepts it.
`OneTerminal` follows what a caller was shown over both attempts: nothing of the
first if there is a second, and no terminal while the call still reads.

### Transport

`TransportProofs` assumes `TransportAssumption`: the bounds are natural numbers
and `None` is no task, request or child.

Theorem | Statement
--- | ---
`TransportInvariant` | `Spec => []TransportInv`
`TransportTypeCorrect` | `Spec => []TypeOK`
`ChildrenAreOwned` | `Spec => []ChildOwned`
`ClosesLeaveNoChild` | `Spec => []CloseLeavesNoChild`
`ErrorsAreLast` | `Spec => ErrorIsLast`

`TransportInv` says what the lock protects: nothing is installed while a task
spawns (`NothingInstalled`); a closed transport has no child, and whoever is in
the second half of `close()` or returned from it has left none to adopt
(`ClosedForGood`); a teardown is in `_teardown_task` until a `close()` adopts it
(`TeardownHeld`); what a task, the transport, the reader or a teardown has to do
with was spawned (`Spawned`); a discarded child was never read from
(`DiscardedUnread`); routes fail after the reader ended (`FailedUnread`).
A cancellation keeps all of them, at whichever await it arrives.

### The synchronous client and its binary

`SyncClientProofs` assumes `ThreadAssumption` (threads resolve for themselves)
and `VersionAssumption` (no version is called "absent" or "torn").

Theorem | Statement
--- | ---
`SyncInvariant` | `Spec => []SyncInv`
`SyncTypeCorrect` | `Spec => []TypeOK`
`CacheVerified` | `Spec => []CacheIsVerified`
`NoOrphanLeft` | `Spec => []NoOrphan`
`TeardownIsQuiet` | `Spec => []QuietTeardown`

`WritesAlone`: unless two resolvers have held the temporary file at a time, one at
most has it, under its own name; it is torn until it is written and whole when it
is moved.  Any number of others may look, verify, unlink, download and replace
meanwhile, for other versions under the same name, and any of them may die.  Two
that do hold it at a time can return a torn binary or another's (the fixed name of
the temporary file, binary.py:133): of these `CacheVerified` says nothing, nor of
what a path holds once it was returned.
`TeardownIsQuiet` says that an iterator's teardown meets a loop that is gone only
when a thread other than its own has entered `close()`; that such a thread may
close the loop between the test of `is_closed()` and the call is left possible.
`BeforeOpen`: until a client is handed out one thread at most is busy, with
`connect_sync`, and it has a child or a loop to end.  `AfterOpen`: a thread that
alone passed the test of `_closed` finds the loop running until it stops it, and
stops it once the child is dead (`ClosesAlone`).

### Runs and the catalogue

`AgentRunProofs`, with `AgentRunLemmas`, assumes `RunAssumption` (`CallIds` is a
sequence of strings, at least as long as `MaxCalls`, and the other bounds are
natural numbers) and `CatalogsAssumption` (a catalogue is a list, its entries are
named as `formatModelRef` lets a model be named, and a `model_ref` that an entry
brings with it is opaque or names that entry).

Theorem | Statement
--- | ---
`RunInvariant` | `Spec => []IInv`
`RunTypeCorrect` | `Spec => []TypeOK`
`StreamShowsRunHolds` | `Spec => []StreamShowsRun`
`StreamUsageIsSumHolds` | `Spec => []StreamUsageIsSum`
`ResponseIsFinalMessageHolds` | `Spec => []ResponseIsFinalMessage`
`ResolvedIsOnlyHolds` | `Spec => []ResolvedIsOnly`

What a caller is told depends on frames it has yet to read, and the loop may be
turns ahead of it.  An invariant that relates the caller to the loop has to say
what the frames between them will do.  `ReadingOK` does so by looking ahead: there
is a sequence `ahead` whose element `k` is the caller after `k` of the frames on
the wire; each of them is as a caller may be at any moment (`Good`: it has shown a
prefix of what the providers streamed, and once it has a result, the run is over and the
result is the run's), and the last one is level with the loop (`CaughtUp`).  A
caller that reads a frame drops the first element, and nothing else has to be
shown.  A step of the loop adds frames behind the others, and only the caller
that is level with it has to be followed through them.  The parts:

* *The loop.*  `LoopOK`: the parts of a message that are still open stand behind
  those that are closed, and are tool calls; the messages of finished turns are
  whole.  `ToolOK`: one call at a time is out at the caller, while the loop waits.
* *Level with the loop.*  `Buffered`: for each open call `_session` holds the id,
  the name and the fragments the provider has sent of it, and of no other.
  `Summing`: the usage a stream has added up is that of the finished turns, or
  none, if the run failed before its first message.  `Telling`: the events a
  response will be built from hold the last message, from its `message_start`,
  and no `message_end` but its own (`UnderWay`, `Ended`); the older ones are before.
* *The result.*  `Outcome`: what is promised of a caller that has one, by
  whichever of the ways there are: read from the `agent_result`, built from the
  events when it has no message, or raised from an `agent_error`.

**How a turn may fail.**  A provider that reports an error itself ends its
message with a `message_end` and keeps content and usage (`ProviderFails`,
agent_loop.zig:899-911).  One whose stream is completed with an error, or cannot be
read, gets a message the loop makes: one empty text, no usage and no
`message_end` (`ProviderBreaks`, agent_loop.zig:929-961, 1071-1102).  One whose body
ends early leaves a message of its closed blocks that counts as a normal stop
(`ProviderCutOff`).  So a message can hold less than its stream has shown.
`StreamShowsRun` is about what the providers streamed (`streamed`, kept beside each
message) and `ResponseIsFinalMessage` about the message: for a turn that broke
off the two differ, `agent.stream` has shown deltas that the result of the run does
not contain.  No document promises otherwise and no property asks it.

What a run has streamed, the usage of its turns and the content built from its events
are folds.  The modules have them from the community modules or as recursive
functions, and `AgentRunLemmas` shows what each gives for every input: by induction
on the length, for which `Induction` states, from the well-foundedness of `<`, that
a set with 0 and every successor of a member holds all naturals.  `IInv` asks
for some function `ahead`, among all there are, so TLC cannot evaluate it: the run
checks what it implies.

`CatalogInv` adds that the reply `resolve` reads is the one to its request, made
from this catalogue.  The rest is in the lemmas: a ref made of the names of an
entry is split into them again, whatever escapes the model id needs
(`SplitOfFormat`, over `EncodeModelId` and `Unquote`), so that showing the ref of
an entry keeps its names (`WithRefKeeps`), and the server's filter and the SDK's
count leave the one entry that was asked for (`WantedIs`).

### Model-checked only

Liveness: TLAPS does not prove liveness under fairness, nor anything about
ENABLED.  `host_liveness`, `transport_liveness`, `provider_retry` and `client` check
it on their instances, `host_liveness` with the refinement.  And the three
findings of the next section, which are behaviours and not theorems.

## 6. Where code and documents disagree

* `host_truncated`: the pump polls a run's stream until it is empty and then
  asks `isDone()` (makai.zig:796), the completed flag alone.  Events pushed
  in between are dropped and the run settles with a result; the protocol
  document says a truncated stream never does.
* `call_minted`: the retry's minted id is taken for a caller's
  (execution.py:570, 1116); left before its start is confirmed, its session
  stays on the host until it is idle, against the comment at execution.py:567.
* `provider_terminal`: the cleanup of the provider server (server.zig:415)
  removes every stream that is done when it runs.  One that completes after the
  pump's last look at it leaves without its terminal, and its caller waits
  until it times out; the protocol document asks for exactly one terminal.

Two more were met while modelling and have no run of their own.  The exit test
(makai.zig:2254) does not look at unread lines: the drain after the loop can
start a run, and the process exits with it, where the protocol document
(v1-sdk-agent-provider-spec.md:1319-1320) keeps it alive until no run remains.
And `close()` during another `close()` returns while the child is alive
(transport.py:351), against the comment at transport.py:360.

**Hazards without a property.**  Some things can go wrong that no property speaks
of; the modules have the behaviour, and `PROJECT.json` says for each why.  One of
them is promised to go right: a login cancelled inside its first send never
writes its `auth_cancel`, its worker waits at its first prompt and keeps the host
from exiting, although the docstring at auth.py:122-123 says that the SDK still
sends one before it raises again.  It is a disagreement of code and document like
those above, without a run of its own; the properties of logins set it apart
(`lost`).  The others nothing promises.  A cancel accepted after the worker's last look at it,
answered with a cancelled result while the credentials are saved.  Resolvers
that hold the temporary file at a time.  A provider call that times
out and lets its stream go on.  A child that closes its output and lives on.
Outside the modules are the running out of memory while a run starts, the
reservation of a slot in the lock-free ring, and an `agent_error` of an earlier
run taken for the refusal of a new start on the same id.

## 7. Not modelled, and the plan

Next, in this order:

1. `EventStream`: the lock-free ring with several producers, refining the
   bounded queue `AgentHost` and `ProviderServer` use.
2. The login of `AgentCall`, whose outcome is chosen there, replaced by
   `AuthLogin`, as `ProviderCall` has it.

Left out, within the parts that are modelled: steering, follow-ups and
compaction in the agent loop; partial states, resume and key refresh in the
provider server, which the Python SDK does not use; `models.list`, length limits
and the serialisers of requests; `KeyboardInterrupt` in the synchronous client.
Left out as a whole: the Zig peers of the three servers and the tool protocol,
which the stdio host does not run; the OAP gateway; HTTP providers and their
formats; credential storage and token refresh; socket transports and their
backoff; local tools, the artifact store and the TUI, which are effects on files,
processes and the screen; the TypeScript, Go and Rust SDKs, which are further
clients of the same protocols; build, release and conformance scripts.
`PROJECT.json` gives the reason for each.
