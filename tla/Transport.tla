------------------------------ MODULE Transport ------------------------------
(***************************************************************************)
(* StdioTransport of the Python SDK (python/src/makai/transport.py): tasks *)
(* of one event loop share the child process of `makai --stdio`.  Tasks    *)
(* connect and close; requests hold a route each, write a frame and wait;  *)
(* the reader task routes what the child prints.  A step here is what runs *)
(* between two awaits.                                                     *)
(*                                                                         *)
(* Abstractions.  A frame is the request it is routed to; every line the   *)
(* handshake refuses is "bad".  Stream and session routes behave alike: a  *)
(* request stands for the route of either kind it holds.  The dropped      *)
(* frame counter and the logging are left out.                             *)
(***************************************************************************)
EXTENDS Naturals, Sequences, FiniteSets

CONSTANTS
  Tasks,      \* tasks that call connect() and close()
  Requests,   \* requests, each with a route key of its own
  Children,   \* bound: processes that can be spawned
  None,
  MaxLines,   \* bound: lines the installed child prints
  MaxCancels  \* bound: cancellations of tasks

ASSUME TransportAssumption ==
  /\ MaxLines \in Nat /\ MaxCancels \in Nat
  /\ None \notin Tasks \union Requests \union Children

VARIABLES
  process,    \* _process
  closed,     \* _closed
  teardown,   \* _teardown_task, as the child it reaps
  handshake,  \* _handshake: "none", "pending", "ok", or "failed" (also when cancelled)
  reader,     \* the reader task and, with it, _reader_task
  source,     \* the child whose stdout the reader consumes
  pc, hand,   \* where each task is, and the child it has in hand
  lock,       \* the holder of _connect_lock
  child,      \* "unborn", "alive" or "dead"
  stage,      \* how far _reap_child has gone with a child
  tearing,    \* children whose teardown task is still running
  stdout,     \* lines the source printed and the reader has not read
  request,    \* where each request is
  queued,     \* frames in its FrameRoute
  failed,     \* FrameRoute._closed: the terminal error is queued behind the frames
  writer,     \* the holder of _write_lock
  printed, cancels,
  returned    \* history: some close() has returned normally

fieldVars   == <<process, closed, teardown>>
readerVars  == <<reader, source, stdout>>
taskVars    == <<pc, hand, lock>>
childVars   == <<child, stage, tearing>>
requestVars == <<request, queued, writer>>
boundVars   == <<printed, cancels>>
vars == <<fieldVars, handshake, readerVars, taskVars, childVars, requestVars, failed,
          boundVars, returned>>

Lines == {"ready", "bad", "oversized"} \union Requests

Open(r) == request[r] # "idle"

Init ==
  /\ process = None /\ closed = FALSE /\ teardown = None
  /\ handshake = "none" /\ reader = "none" /\ source = None /\ stdout = <<>>
  /\ pc = [t \in Tasks |-> "idle"] /\ hand = [t \in Tasks |-> None] /\ lock = None
  /\ child = [p \in Children |-> "unborn"]
  /\ stage = [p \in Children |-> "none"] /\ tearing = {}
  /\ request = [r \in Requests |-> "idle"] /\ writer = None
  /\ queued = [r \in Requests |-> 0] /\ failed = [r \in Requests |-> FALSE]
  /\ printed = 0 /\ cancels = 0 /\ returned = FALSE

-----------------------------------------------------------------------------
(***************************************************************************)
(* Pieces of the handlers.                                                 *)
(***************************************************************************)

\* The call ends; leaving its async with block releases the lock.
Return(t) ==
  /\ pc' = [pc EXCEPT ![t] = "idle"]
  /\ hand' = [hand EXCEPT ![t] = None]
  /\ lock' = IF lock = t THEN None ELSE lock

Goto(t, place, p) ==
  /\ pc' = [pc EXCEPT ![t] = place]
  /\ hand' = [hand EXCEPT ![t] = p]
  /\ UNCHANGED lock

CloseReturns(t) == Return(t) /\ returned' = TRUE

Reaping(p) == stage' = [stage EXCEPT ![p] = "grace"]

EscalatedNoKill(s) == "term"  \* seeded fault: the child is never killed

Escalated(s) == IF s = "grace" THEN "term" ELSE "kill"

\* _fail_all, with h the handshake future at the call.
FailHandshakeOnly(h) ==  \* seeded fault: open routes are forgotten
  /\ handshake' = IF h = "pending" THEN "failed" ELSE h
  /\ UNCHANGED failed

FailAll(h) ==
  /\ handshake' = IF h = "pending" THEN "failed" ELSE h
  /\ failed' = [r \in Requests |-> failed[r] \/ Open(r)]

\* The end of close(): the reader is cancelled and awaited, then routes fail.
JoinReaderDetached(t, h) ==  \* seeded fault: the reader is not cancelled
  FailAll(h) /\ CloseReturns(t) /\ UNCHANGED reader

JoinReader(t, h) ==
  \/ /\ reader = "reading" /\ reader' = "cancelled"
     /\ Goto(t, "joining", None)
     /\ handshake' = h
     /\ UNCHANGED <<failed, returned>>
  \/ reader # "reading" /\ FailAll(h) /\ CloseReturns(t) /\ UNCHANGED reader

\* close() up to its first await.
EnterCloseUnadopted(t, h) ==  \* seeded fault: a teardown under way is not adopted
  \/ /\ closed /\ process = None
     /\ CloseReturns(t) /\ handshake' = h
     /\ UNCHANGED <<fieldVars, reader, failed, stage>>
  \/ /\ process # None
     /\ closed' = TRUE /\ process' = None /\ Reaping(process)
     /\ Goto(t, "reaping", process) /\ handshake' = h
     /\ UNCHANGED <<teardown, reader, failed, returned>>
  \/ /\ ~closed /\ process = None
     /\ closed' = TRUE
     /\ JoinReader(t, h)
     /\ UNCHANGED <<process, teardown, stage>>

EnterClose(t, h) ==
  \/ /\ closed /\ process = None /\ teardown = None
     /\ CloseReturns(t) /\ handshake' = h
     /\ UNCHANGED <<fieldVars, reader, failed, stage>>
  \/ /\ process # None
     /\ closed' = TRUE /\ process' = None /\ Reaping(process)
     /\ Goto(t, "reaping", process) /\ handshake' = h
     /\ UNCHANGED <<teardown, reader, failed, returned>>
  \/ /\ process = None /\ teardown \in tearing
     /\ closed' = TRUE /\ teardown' = None
     /\ Goto(t, "adopting", teardown) /\ handshake' = h
     /\ UNCHANGED <<process, reader, failed, stage, returned>>
  \/ /\ process = None /\ teardown \notin tearing /\ (~closed \/ teardown # None)
     /\ closed' = TRUE /\ teardown' = None
     /\ JoinReader(t, h)
     /\ UNCHANGED <<process, stage>>

-----------------------------------------------------------------------------
(***************************************************************************)
(* connect().                                                              *)
(***************************************************************************)
BeginConnect(t) ==
  /\ pc[t] = "idle"
  /\ Goto(t, "locking", None)
  /\ UNCHANGED <<fieldVars, handshake, readerVars, childVars, requestVars, failed, boundVars, returned>>

\* Seeded fault: concurrent calls are not serialized.
AcquireUnlocked(t) ==
  /\ pc[t] = "locking"
  /\ \/ process # None /\ Return(t)
     \/ process = None /\ Goto(t, "spawning", None)
  /\ UNCHANGED <<fieldVars, handshake, readerVars, childVars, requestVars, failed, boundVars, returned>>

Acquire(t) ==
  /\ pc[t] = "locking" /\ lock = None
  /\ \/ process # None /\ Return(t)                 \* already connected
     \/ /\ process = None
        /\ lock' = t
        /\ pc' = [pc EXCEPT ![t] = "spawning"] /\ UNCHANGED hand
  /\ UNCHANGED <<fieldVars, handshake, readerVars, childVars, requestVars, failed, boundVars, returned>>

SpawnFails(t) ==
  /\ pc[t] = "spawning"
  /\ Return(t)
  /\ UNCHANGED <<fieldVars, handshake, readerVars, childVars, requestVars, failed, boundVars, returned>>

Install(t, p) ==
  /\ process' = p /\ handshake' = "pending"
  /\ reader' = "reading" /\ source' = p /\ stdout' = <<>>
  /\ Goto(t, "handshaking", p)

\* A child spawned for a transport that was closed meanwhile is discarded.
Spawn(t, p) ==
  /\ pc[t] = "spawning" /\ child[p] = "unborn"
  /\ child' = [child EXCEPT ![p] = "alive"]
  /\ \/ /\ closed /\ Reaping(p) /\ Goto(t, "discarding", p)
        /\ UNCHANGED <<process, handshake, readerVars>>
     \/ ~closed /\ Install(t, p) /\ UNCHANGED stage
  /\ UNCHANGED <<closed, teardown, tearing, requestVars, failed, boundVars, returned>>

Discarded(t) ==
  /\ pc[t] = "discarding" /\ child[hand[t]] = "dead"
  /\ Return(t)
  /\ UNCHANGED <<fieldVars, handshake, readerVars, childVars, requestVars, failed, boundVars, returned>>

Connected(t) ==
  /\ pc[t] = "handshaking" /\ handshake = "ok"
  /\ Return(t)
  /\ UNCHANGED <<fieldVars, handshake, readerVars, childVars, requestVars, failed, boundVars, returned>>

\* The handshake failed, or wait_for timed out and cancelled it: connect()
\* closes the transport and raises.
HandshakeFails(t) ==
  /\ pc[t] = "handshaking" /\ handshake = "failed"
  /\ EnterClose(t, handshake)
  /\ UNCHANGED <<source, stdout, child, tearing, requestVars, boundVars>>

\* The timeout or a cancellation can also win over a result already set.
GivenUp == IF handshake = "pending" THEN "failed" ELSE handshake

HandshakeTimesOut(t) ==
  /\ pc[t] = "handshaking" /\ handshake # "failed"
  /\ EnterClose(t, GivenUp)
  /\ UNCHANGED <<source, stdout, child, tearing, requestVars, boundVars>>

-----------------------------------------------------------------------------
(***************************************************************************)
(* close(), _reap_child and cancellation.                                  *)
(***************************************************************************)
BeginClose(t) ==
  /\ pc[t] = "idle"
  /\ EnterClose(t, handshake)
  /\ UNCHANGED <<source, stdout, child, tearing, requestVars, boundVars>>

\* The child close() waited for is gone.
Reaped(t) ==
  /\ \/ pc[t] = "reaping" /\ child[hand[t]] = "dead"
     \/ pc[t] = "adopting" /\ hand[t] \notin tearing
  /\ JoinReader(t, handshake)
  /\ UNCHANGED <<fieldVars, source, stdout, childVars, requestVars, boundVars>>

Joined(t) ==
  /\ pc[t] = "joining" /\ reader = "none"
  /\ FailAll(handshake) /\ CloseReturns(t)
  /\ UNCHANGED <<fieldVars, readerVars, childVars, requestVars, boundVars>>

\* One of the two wait_for of _reap_child times out.
Escalate(p) ==
  /\ stage[p] \in {"grace", "term"} /\ child[p] = "alive"
  /\ stage' = [stage EXCEPT ![p] = Escalated(stage[p])]
  /\ UNCHANGED <<fieldVars, handshake, readerVars, taskVars, child, tearing, requestVars, failed, boundVars, returned>>

\* A task is cancelled.  _reap_child takes it for a timeout until it has
\* killed the child; an adopting close() passes it on to the teardown task.
Cancel(t) ==
  /\ cancels < MaxCancels /\ cancels' = cancels + 1
  /\ \/ /\ pc[t] \in {"locking", "spawning"}
        /\ Return(t)
        /\ UNCHANGED <<fieldVars, handshake, reader, stage, tearing, failed, returned>>
     \/ /\ pc[t] = "handshaking"
        /\ EnterClose(t, GivenUp)
        /\ UNCHANGED tearing
     \/ /\ pc[t] \in {"reaping", "discarding", "adopting"} /\ stage[hand[t]] # "kill"
        /\ stage' = [stage EXCEPT ![hand[t]] = Escalated(@)]
        /\ UNCHANGED <<fieldVars, handshake, reader, taskVars, tearing, failed, returned>>
     \/ /\ pc[t] \in {"reaping", "discarding"} /\ stage[hand[t]] = "kill"
        /\ Return(t)
        /\ UNCHANGED <<fieldVars, handshake, reader, stage, tearing, failed, returned>>
     \/ /\ pc[t] = "adopting" /\ stage[hand[t]] = "kill"
        /\ tearing' = tearing \ {hand[t]}
        /\ UNCHANGED <<fieldVars, handshake, reader, taskVars, stage, failed, returned>>
  /\ UNCHANGED <<source, stdout, child, requestVars, printed>>

\* The teardown task ends.
TornDown(p) ==
  /\ p \in tearing /\ child[p] = "dead"
  /\ tearing' = tearing \ {p}
  /\ UNCHANGED <<fieldVars, handshake, readerVars, taskVars, child, stage, requestVars, failed, boundVars, returned>>

-----------------------------------------------------------------------------
(***************************************************************************)
(* The child.                                                              *)
(***************************************************************************)
Die(p) ==
  /\ child[p] = "alive"
  /\ child' = [child EXCEPT ![p] = "dead"]
  /\ UNCHANGED <<fieldVars, handshake, readerVars, taskVars, stage, tearing, requestVars, failed, boundVars, returned>>

PrintLine(line) ==
  /\ source # None /\ child[source] = "alive" /\ printed < MaxLines
  /\ stdout' = Append(stdout, line) /\ printed' = printed + 1
  /\ UNCHANGED <<fieldVars, handshake, reader, source, taskVars, childVars, requestVars, failed, cancels, returned>>

-----------------------------------------------------------------------------
(***************************************************************************)
(* The reader task.                                                        *)
(***************************************************************************)

\* Seeded fault: the child is not reaped.
AbandonUnreaped ==
  /\ closed' = TRUE /\ process' = None
  /\ reader' = "none" /\ FailAll(handshake)
  /\ UNCHANGED <<teardown, tearing, stage>>

\* _abandon: the child is left to a detached teardown task.
Abandon ==
  /\ closed' = TRUE /\ process' = None
  /\ reader' = "none" /\ FailAll(handshake)
  /\ IF process = None THEN UNCHANGED <<teardown, tearing, stage>>
     ELSE /\ teardown' = process /\ tearing' = tearing \union {process}
          /\ Reaping(process)

\* A line settles the handshake while it is pending, and is routed after.
ReadLine ==
  /\ reader = "reading" /\ stdout # <<>> /\ stdout' = Tail(stdout)
  /\ LET line == Head(stdout) IN
       \/ /\ line = "oversized" /\ Abandon
          /\ UNCHANGED queued
       \/ /\ line # "oversized" /\ handshake = "pending"
          /\ handshake' = IF line = "ready" THEN "ok" ELSE "failed"
          /\ UNCHANGED <<fieldVars, reader, stage, tearing, queued, failed>>
       \/ /\ line # "oversized" /\ handshake # "pending"
          /\ queued' = IF line \in Requests /\ Open(line)
                       THEN [queued EXCEPT ![line] = @ + 1] ELSE queued
          /\ UNCHANGED <<fieldVars, reader, handshake, stage, tearing, failed>>
  /\ UNCHANGED <<source, taskVars, child, request, writer, boundVars, returned>>

\* readline() returns nothing and process.wait() returns.
ReadEof ==
  /\ reader = "reading" /\ stdout = <<>> /\ child[source] = "dead"
  /\ Abandon
  /\ UNCHANGED <<source, stdout, taskVars, child, requestVars, boundVars, returned>>

ReaderCancelled ==
  /\ reader = "cancelled" /\ reader' = "none"
  /\ UNCHANGED <<fieldVars, handshake, source, stdout, taskVars, childVars, requestVars, failed, boundVars, returned>>

Read == ReadLine \/ ReadEof \/ ReaderCancelled

-----------------------------------------------------------------------------
(***************************************************************************)
(* Requests: a route is opened, a frame sent inside it, frames awaited.    *)
(***************************************************************************)

\* Opens the route and starts send(); a closed transport refuses at once.
OpenRoute(r) ==
  /\ request[r] = "idle" /\ process # None /\ ~closed
  /\ request' = [request EXCEPT ![r] = "queued"]
  /\ queued' = [queued EXCEPT ![r] = 0]
  /\ failed' = [failed EXCEPT ![r] = FALSE]
  /\ UNCHANGED <<fieldVars, handshake, readerVars, taskVars, childVars, writer, boundVars, returned>>

\* The route is closed and what it held is dropped.
CloseRouteKeepsLock(r) ==  \* seeded fault: the write lock is not released
  /\ request' = [request EXCEPT ![r] = "idle"]
  /\ queued' = [queued EXCEPT ![r] = 0]
  /\ failed' = [failed EXCEPT ![r] = FALSE]
  /\ UNCHANGED writer

CloseRoute(r) ==
  /\ request' = [request EXCEPT ![r] = "idle"]
  /\ queued' = [queued EXCEPT ![r] = 0]
  /\ failed' = [failed EXCEPT ![r] = FALSE]
  /\ writer' = IF writer = r THEN None ELSE writer

LockWrite(r) ==
  /\ request[r] = "queued" /\ writer = None
  /\ writer' = r /\ request' = [request EXCEPT ![r] = "writing"]
  /\ UNCHANGED <<fieldVars, handshake, readerVars, taskVars, childVars, queued, failed, boundVars, returned>>

Written(r) ==
  /\ request[r] = "writing"
  /\ writer' = None /\ request' = [request EXCEPT ![r] = "waiting"]
  /\ UNCHANGED <<fieldVars, handshake, readerVars, taskVars, childVars, queued, failed, boundVars, returned>>

\* The pipe is closed, or broke with the child.
WriteFails(r) ==
  /\ request[r] = "writing" /\ (child[source] = "dead" \/ stage[source] # "none")
  /\ CloseRoute(r)
  /\ UNCHANGED <<fieldVars, handshake, readerVars, taskVars, childVars, boundVars, returned>>

\* next_frame returns a frame; the request goes on or ends.
Receive(r) ==
  /\ request[r] = "waiting" /\ queued[r] > 0
  /\ \/ /\ queued' = [queued EXCEPT ![r] = @ - 1]
        /\ UNCHANGED <<request, writer, failed>>
     \/ CloseRoute(r)
  /\ UNCHANGED <<fieldVars, handshake, readerVars, taskVars, childVars, boundVars, returned>>

\* next_frame reaches the terminal error and raises it.
Fail(r) ==
  /\ request[r] = "waiting" /\ queued[r] = 0 /\ failed[r]
  /\ CloseRoute(r)
  /\ UNCHANGED <<fieldVars, handshake, readerVars, taskVars, childVars, boundVars, returned>>

\* The request is cancelled, or next_frame times out.
GiveUp(r) ==
  /\ Open(r)
  /\ CloseRoute(r)
  /\ UNCHANGED <<fieldVars, handshake, readerVars, taskVars, childVars, boundVars, returned>>

-----------------------------------------------------------------------------
Call(t) ==
  \/ BeginConnect(t) \/ Acquire(t) \/ SpawnFails(t) \/ \E p \in Children : Spawn(t, p)
  \/ Discarded(t) \/ Connected(t) \/ HandshakeFails(t) \/ HandshakeTimesOut(t)
  \/ BeginClose(t) \/ Reaped(t) \/ Joined(t) \/ Cancel(t)

Request(r) ==
  \/ OpenRoute(r) \/ LockWrite(r) \/ Written(r) \/ WriteFails(r)
  \/ Receive(r) \/ Fail(r) \/ GiveUp(r)

Next ==
  \/ \E t \in Tasks : Call(t)
  \/ \E p \in Children : Escalate(p) \/ TornDown(p) \/ Die(p)
  \/ \E line \in Lines : PrintLine(line)
  \/ Read
  \/ \E r \in Requests : Request(r)

Spec == Init /\ [][Next]_vars

\* A ready task runs, timers fire, a killed child dies, and asyncio.Lock is a
\* queue.  Nothing makes a caller call, a child print or die unkilled, a full
\* pipe drain, or a request give up.
Fairness ==
  /\ \A t \in Tasks :
       /\ SF_vars(Acquire(t))
       /\ WF_vars(SpawnFails(t) \/ \E p \in Children : Spawn(t, p))
       /\ WF_vars(Discarded(t) \/ Connected(t) \/ HandshakeFails(t) \/ HandshakeTimesOut(t))
       /\ WF_vars(Reaped(t)) /\ WF_vars(Joined(t))
  /\ \A p \in Children :
       WF_vars(Escalate(p)) /\ WF_vars(TornDown(p)) /\ WF_vars(stage[p] = "kill" /\ Die(p))
  /\ WF_vars(Read)
  /\ \A r \in Requests :
       /\ SF_vars(LockWrite(r))
       /\ WF_vars(Receive(r) \/ Fail(r)) /\ WF_vars(WriteFails(r) /\ child[source] = "dead")

FairSpec == Spec /\ Fairness

-----------------------------------------------------------------------------
(***************************************************************************)
(* Properties.                                                             *)
(***************************************************************************)

TaskTypes ==
  /\ pc \in [Tasks -> {"idle", "locking", "spawning", "discarding", "handshaking",
                       "reaping", "adopting", "joining"}]
  /\ hand \in [Tasks -> Children \union {None}] /\ lock \in Tasks \union {None}
  /\ \A t \in Tasks : pc[t] \in {"spawning", "discarding", "handshaking"} => lock = t

ChildTypes ==
  /\ process \in Children \union {None} /\ teardown \in Children \union {None}
  /\ closed \in BOOLEAN /\ returned \in BOOLEAN
  /\ child \in [Children -> {"unborn", "alive", "dead"}]
  /\ stage \in [Children -> {"none", "grace", "term", "kill"}]
  /\ tearing \subseteq Children

ReaderTypes ==
  /\ handshake \in {"none", "pending", "ok", "failed"}
  /\ reader \in {"none", "reading", "cancelled"} /\ source \in Children \union {None}
  /\ reader = "none" \/ source # None
  /\ stdout \in Seq(Lines) /\ printed \in 0..MaxLines /\ cancels \in 0..MaxCancels

RequestTypes ==
  /\ request \in [Requests -> {"idle", "queued", "writing", "waiting"}]
  /\ queued \in [Requests -> 0..MaxLines] /\ failed \in [Requests -> BOOLEAN]
  /\ writer \in Requests \union {None}
  /\ \A r \in Requests : (writer = r <=> request[r] = "writing") /\ (failed[r] => Open(r))

\* Types, and the agreement of locks, reader and teardown with the tasks.
TypeOK == TaskTypes /\ ChildTypes /\ ReaderTypes /\ RequestTypes

\* No child is orphaned: whatever connect(), close(), cancellation and the
\* reader do to one another, a live child is installed, or being reaped by a
\* call or by the teardown task, or already killed.
ChildOwned ==
  \A p \in Children : child[p] = "alive" =>
    \/ p = process \/ p \in tearing \/ stage[p] = "kill"
    \/ \E t \in Tasks : pc[t] \in {"reaping", "discarding"} /\ hand[t] = p

\* When every close() has returned the installed child is gone, or a call
\* cancelled again and again left it killed: close() adopts the teardown the
\* reader detached.
CloseLeavesNoChild ==
  returned /\ (\A t \in Tasks : pc[t] \notin {"reaping", "adopting", "joining"})
    => source = None \/ child[source] # "alive" \/ stage[source] = "kill"

\* The terminal error is the last thing a route receives: no frame is pushed
\* behind it, where the re-armed error would hide it.
ErrorIsLast ==
  [][\A r \in Requests : failed[r] /\ failed'[r] => queued'[r] <= queued[r]]_vars

\* A request in flight when the transport closes or loses its child ends
\* without waiting for its own timeout.
RequestsEndAfterClose == closed ~> \A r \in Requests : ~Open(r)

\* Every child of a closed transport dies, cancelled calls or not.
ChildrenEnd == closed ~> \A p \in Children : child[p] # "alive"

\* Every connect() and close() returns, whatever the child does.
CallsReturn == \A t \in Tasks : pc[t] # "idle" ~> pc[t] = "idle"

=============================================================================
