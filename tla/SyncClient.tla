------------------------------ MODULE SyncClient ------------------------------
(***************************************************************************)
(* The blocking client (python/src/makai/sync.py): threads share an event  *)
(* loop that runs on a thread of its own; each call submits a coroutine of *)
(* the asynchronous client (client.py) to it and waits for the result.     *)
(* connect_sync finds the binary with a resolver of BinaryCache.           *)
(*                                                                         *)
(* Abstractions.  A coroutine's outcome is a value, an item, the end or an *)
(* error.  A thread holds at most one iterator and uses a client once it   *)
(* is connected.  KeyboardInterrupt is left out.                           *)
(***************************************************************************)
EXTENDS BinaryCache

CONSTANT Threads

ASSUME ThreadAssumption == Threads \subseteq Resolvers  \* a thread's connect resolves for it

VARIABLES
  loop,     \* _LoopThread: "none", "running", "stopping" (stop is queued), "ended", "closed"
  client,   \* SyncMakaiClient: "none", "open", "closed" (its _closed flag)
  child,    \* the runtime: "none", "alive", "ending" (transport.close has begun), "dead"
  thread,   \* by thread: where its call is, the iterator it holds, what it got last
  task,     \* by thread: the coroutine run() waits for
  closers,  \* history: the threads that passed the test of _closed
  stuck     \* history: a join of the loop's thread timed out

vars == <<cacheVars, loop, client, child, thread, task, closers, stuck>>

Results == {"value", "item", "end", "raised"}

TypeOK ==
  /\ loop \in {"none", "running", "stopping", "ended", "closed"}
  /\ client \in {"none", "open", "closed"}
  /\ child \in {"none", "alive", "ending", "dead"}
  /\ thread \in [Threads ->
       [pc : {"idle", "submitting", "waiting", "finally", "closing",
              "ending", "signalling", "joining"},
        op : {"none", "connect", "request", "start", "step", "aclose", "close"},
        iter : {"none", "suspended"}, got : {"none", "value", "raised", "gone"}]]
  /\ task \in [Threads -> Results \cup
       {"none", "queued", "resolving", "greeting", "waiting", "reaping", "lost"}]
  /\ \A t \in Threads :
       /\ task[t] # "none" <=> thread[t].pc = "waiting"
       /\ thread[t].pc = "finally" \/ thread[t].op = "step" => thread[t].iter = "suspended"

Init ==
  /\ CacheInit
  /\ loop = "none" /\ client = "none" /\ child = "none"
  /\ thread = [t \in Threads |-> [pc |-> "idle", op |-> "none", iter |-> "none", got |-> "none"]]
  /\ task = [t \in Threads |-> "none"]
  /\ closers = {} /\ stuck = FALSE

-----------------------------------------------------------------------------
(* Calls. *)

In(t, pc) == thread[t].pc = pc

Enters(t, pc, op) == thread' = [thread EXCEPT ![t].pc = pc, ![t].op = op, ![t].got = "none"]

ConnectSync(t) ==
  /\ In(t, "idle") /\ loop = "none"
  /\ loop' = "running"
  /\ Enters(t, "submitting", "connect")
  /\ UNCHANGED <<cacheVars, client, child, task, closers, stuck>>

\* Bound: once connected the path plays no part, and a client is followed on only when
\* no binary was looked for (connect_sync was given a command).
Followed == client # "none" /\ \A r \in Resolvers : At(r, "idle")

\* list_providers, login, list, resolve, complete, run: each one coroutine.
Request(t) ==
  /\ In(t, "idle") /\ Followed
  /\ Enters(t, "submitting", "request")
  /\ UNCHANGED <<cacheVars, loop, client, child, task, closers, stuck>>

\* The first next() of what stream returns; nothing of _iterate runs before it.
IterBegins(t) ==
  /\ In(t, "idle") /\ Followed /\ thread[t].iter = "none"
  /\ Enters(t, "submitting", "start")
  /\ UNCHANGED <<cacheVars, loop, client, child, task, closers, stuck>>

IterNext(t) ==
  /\ In(t, "idle") /\ thread[t].iter = "suspended"
  /\ Enters(t, "submitting", "step")
  /\ UNCHANGED <<cacheVars, loop, client, child, task, closers, stuck>>

\* Breaking out of the for, or close() of the generator.
IterAbandoned(t) ==
  /\ In(t, "idle") /\ thread[t].iter = "suspended"
  /\ Enters(t, "finally", "none")
  /\ UNCHANGED <<cacheVars, loop, client, child, task, closers, stuck>>

Close(t) ==
  /\ In(t, "idle") /\ Followed
  /\ IF client = "closed" THEN UNCHANGED <<thread, closers>>
     ELSE /\ Enters(t, "closing", "close")
          /\ closers' = closers \cup {t}
  /\ UNCHANGED <<cacheVars, loop, client, child, task, stuck>>

CloseMarks(t) ==
  /\ In(t, "closing")
  /\ client' = "closed"
  /\ thread' = [thread EXCEPT ![t].pc = "submitting"]
  /\ UNCHANGED <<cacheVars, loop, child, task, closers, stuck>>

FinallyBlind(t) ==  \* seeded fault: the teardown is run without a look at the loop
  /\ In(t, "finally")
  /\ thread' = [thread EXCEPT ![t].iter = "none", ![t].pc = "submitting", ![t].op = "aclose"]
  /\ UNCHANGED <<cacheVars, loop, client, child, task, closers, stuck>>

Finally(t) ==
  /\ In(t, "finally")
  /\ thread' = [thread EXCEPT ![t].iter = "none",
                              ![t].pc = IF loop = "closed" THEN "idle" ELSE "submitting",
                              ![t].op = IF loop = "closed" THEN "none" ELSE "aclose"]
  /\ UNCHANGED <<cacheVars, loop, client, child, task, closers, stuck>>

AfterTried(t, got) ==  \* seeded fault: start is run inside the try
  LET s == thread[t]
      idle == [s EXCEPT !.pc = "idle", !.op = "none",
                        !.got = IF got \in {"raised", "gone"} THEN got ELSE "value"]
  IN CASE s.op = "close" \/ (s.op = "connect" /\ got # "value") -> [s EXCEPT !.pc = "ending"]
       [] s.op = "start" /\ got = "value" ->
            [s EXCEPT !.pc = "submitting", !.op = "step", !.iter = "suspended"]
       [] s.op \in {"start", "step"} /\ got # "item" -> [s EXCEPT !.pc = "finally", !.op = "none"]
       [] OTHER -> idle

\* Where the thread is once run() has returned `got` or raised ("gone": the loop is closed).
After(t, got) ==
  LET s == thread[t]
      idle == [s EXCEPT !.pc = "idle", !.op = "none",
                        !.got = IF got \in {"raised", "gone"} THEN got ELSE "value"]
  IN CASE s.op = "close" \/ (s.op = "connect" /\ got # "value") -> [s EXCEPT !.pc = "ending"]
       [] s.op = "start" /\ got = "value" ->
            [s EXCEPT !.pc = "submitting", !.op = "step", !.iter = "suspended"]
       [] s.op = "step" /\ got # "item" -> [s EXCEPT !.pc = "finally", !.op = "none"]
       [] OTHER -> idle

\* run_coroutine_threadsafe: what is queued behind the stop never runs.
Submit(t) ==
  /\ In(t, "submitting")
  /\ IF loop = "closed"
     THEN thread' = [thread EXCEPT ![t] = After(t, "gone")] /\ UNCHANGED task
     ELSE /\ thread' = [thread EXCEPT ![t].pc = "waiting"]
          /\ task' = [task EXCEPT ![t] = IF loop = "running" THEN "queued" ELSE "lost"]
  /\ UNCHANGED <<cacheVars, loop, client, child, closers, stuck>>

Woken(t) ==
  /\ In(t, "waiting") /\ task[t] \in Results
  /\ thread' = [thread EXCEPT ![t] = After(t, task[t])]
  /\ task' = [task EXCEPT ![t] = "none"]
  /\ client' = IF thread[t].op = "connect" /\ task[t] = "value" THEN "open" ELSE client
  /\ UNCHANGED <<cacheVars, loop, child, closers, stuck>>

-----------------------------------------------------------------------------
(* _LoopThread.close. *)

Leaves(t, got) == thread' = [thread EXCEPT ![t].pc = "idle", ![t].op = "none", ![t].got = got]

LoopTested(t) ==
  /\ In(t, "ending")
  /\ IF loop = "closed" THEN Leaves(t, "value")
     ELSE thread' = [thread EXCEPT ![t].pc = "signalling"]
  /\ UNCHANGED <<cacheVars, loop, client, child, task, closers, stuck>>

LoopStops(t) ==
  /\ In(t, "signalling")
  /\ IF loop = "closed" THEN Leaves(t, "raised") /\ UNCHANGED loop
     ELSE /\ thread' = [thread EXCEPT ![t].pc = "joining"]
          /\ loop' = IF loop = "running" THEN "stopping" ELSE loop
  /\ UNCHANGED <<cacheVars, client, child, task, closers, stuck>>

LoopJoinedOnly(t) ==  \* seeded fault: the loop is stopped and never closed
  /\ In(t, "joining") /\ loop \in {"ended", "closed"}
  /\ Leaves(t, "value")
  /\ UNCHANGED <<cacheVars, loop, client, child, task, closers, stuck>>

LoopJoined(t) ==
  /\ In(t, "joining") /\ loop \in {"ended", "closed"}
  /\ loop' = "closed"
  /\ Leaves(t, "value")
  /\ UNCHANGED <<cacheVars, client, child, task, closers, stuck>>

\* Five seconds pass: a loop that still runs cannot be closed.
JoinTimesOut(t) ==
  /\ In(t, "joining") /\ loop = "stopping"
  /\ stuck' = TRUE
  /\ Leaves(t, "raised")
  /\ UNCHANGED <<cacheVars, loop, client, child, task, closers>>

LoopEnds ==
  /\ loop = "stopping"
  /\ loop' = "ended"
  /\ UNCHANGED <<cacheVars, client, child, thread, task, closers, stuck>>

-----------------------------------------------------------------------------
(* The coroutines, on the loop. *)

Steps(t, op, from) ==
  /\ loop \in {"running", "stopping"}
  /\ thread[t].op = op /\ task[t] = from

Becomes(t, to) == task' = [task EXCEPT ![t] = to]

\* With a command, or the binary found in another thread, the runtime is spawned.
OpenBegins(t) ==
  /\ Steps(t, "connect", "queued")
  /\ \/ /\ \E got \in {"greeting", "raised"} :
             Becomes(t, got) /\ child' = IF got = "greeting" THEN "alive" ELSE child
        /\ UNCHANGED cacheVars
     \/ ResolverBegins(t) /\ Becomes(t, "resolving") /\ UNCHANGED child
  /\ UNCHANGED <<loop, client, thread, closers, stuck>>

OpenSpawns(t) ==
  /\ Steps(t, "connect", "resolving")
  /\ \/ At(t, "returned") /\ Becomes(t, "greeting") /\ child' = "alive"
     \/ resolver[t].pc \in {"returned", "raised"} /\ Becomes(t, "raised") /\ UNCHANGED child
  /\ UNCHANGED <<cacheVars, loop, client, thread, closers, stuck>>

OpenEndsLeaving(t) ==  \* seeded fault: a failed handshake leaves the child
  /\ Steps(t, "connect", "greeting")
  /\ Becomes(t, "value") \/ Becomes(t, "raised")
  /\ UNCHANGED <<cacheVars, loop, client, child, thread, closers, stuck>>

\* A handshake that fails ends the child before connect raises.
OpenEnds(t) ==
  /\ Steps(t, "connect", "greeting")
  /\ \/ Becomes(t, "value") /\ UNCHANGED child
     \/ Becomes(t, "raised") /\ child' = "dead"
  /\ UNCHANGED <<cacheVars, loop, client, thread, closers, stuck>>

RequestRuns(t) ==
  /\ \/ Steps(t, "request", "queued") \/ Steps(t, "step", "queued") \/ Steps(t, "aclose", "queued")
  /\ Becomes(t, IF child = "alive" THEN "waiting" ELSE "raised")
  /\ UNCHANGED <<cacheVars, loop, client, child, thread, closers, stuck>>

RequestEnds(t) ==
  /\ \/ /\ Steps(t, "request", "waiting") \/ Steps(t, "aclose", "waiting")
        /\ Becomes(t, "value") \/ Becomes(t, "raised")
     \/ /\ Steps(t, "step", "waiting")
        /\ \E got \in {"item", "end", "raised"} : Becomes(t, got)
  /\ UNCHANGED <<cacheVars, loop, client, child, thread, closers, stuck>>

StartRuns(t) ==
  /\ Steps(t, "start", "queued")
  /\ Becomes(t, "value")
  /\ UNCHANGED <<cacheVars, loop, client, child, thread, closers, stuck>>

\* A transport that is closed already, or being closed, is left alone.
CloseRuns(t) ==
  /\ Steps(t, "close", "queued")
  /\ IF child = "alive" THEN child' = "ending" /\ Becomes(t, "reaping")
     ELSE Becomes(t, "value") /\ UNCHANGED child
  /\ UNCHANGED <<cacheVars, loop, client, thread, closers, stuck>>

CloseReaps(t) ==
  /\ Steps(t, "close", "reaping")
  /\ child' = "dead"
  /\ Becomes(t, "value")
  /\ UNCHANGED <<cacheVars, loop, client, thread, closers, stuck>>

ChildExits ==
  /\ child \in {"alive", "ending"}
  /\ child' = "dead"
  /\ UNCHANGED <<cacheVars, loop, client, thread, task, closers, stuck>>

-----------------------------------------------------------------------------
Calls(t) ==
  ConnectSync(t) \/ Request(t) \/ IterBegins(t) \/ IterNext(t) \/ IterAbandoned(t) \/ Close(t)

ThreadStep(t) ==
  \/ CloseMarks(t) \/ Finally(t) \/ Submit(t) \/ Woken(t)
  \/ LoopTested(t) \/ LoopStops(t) \/ LoopJoined(t)

LoopStep(t) ==
  \/ OpenBegins(t) \/ OpenSpawns(t) \/ OpenEnds(t) \/ RequestRuns(t) \/ RequestEnds(t)
  \/ StartRuns(t) \/ CloseRuns(t) \/ CloseReaps(t)

Resolves(r) == ResolverStep(r) /\ UNCHANGED <<loop, client, child, thread, task, closers, stuck>>

\* Another process that looks for the same binary, and may die.  Bound: none begins
\* after the client is connected.
Elsewhere(r) ==
  /\ client = "none"
  /\ ResolverBegins(r) \/ Die(r)
  /\ UNCHANGED <<loop, client, child, thread, task, closers, stuck>>

Next ==
  \/ \E t \in Threads : Calls(t) \/ ThreadStep(t) \/ JoinTimesOut(t) \/ LoopStep(t)
  \/ LoopEnds \/ ChildExits
  \/ \E r \in Resolvers : Resolves(r)
  \/ \E r \in Resolvers \ Threads : Elsewhere(r)

\* Threads and the loop are scheduled; a request has a timeout, a download too.
Fairness ==
  /\ WF_vars(LoopEnds)
  /\ \A t \in Threads :
       WF_vars(ThreadStep(t)) /\ WF_vars(LoopStep(t)) /\ WF_vars(Resolves(t))

Spec == Init /\ [][Next]_vars /\ Fairness

-----------------------------------------------------------------------------
\* A connect_sync that raises leaves no child and no open loop; nor does a close()
\* that no other thread entered, whatever the other threads' calls are doing (a loop
\* that could not be joined stays).
NoOrphan ==
  /\ (client = "none" /\ loop # "none" /\ \A t \in Threads : In(t, "idle")) =>
       child \in {"none", "dead"} /\ (loop = "closed" \/ stuck)
  /\ \A t \in Threads : closers = {t} /\ In(t, "idle") =>
       child = "dead" /\ (loop = "closed" \/ stuck)

\* The teardown of an iterator reaches a loop that is gone only when a thread other than
\* its own has entered close(): one that is abandoned once its own thread has closed the
\* client, or that its failed step ends, is let go of without a call.
QuietTeardown ==
  \A t \in Threads : In(t, "submitting") /\ thread[t].op = "aclose" /\ loop = "closed" =>
    closers \ {t} # {}

\* Every call returns or raises, unless another thread closes the client under it or
\* the loop's thread is stuck.
CallsReturn ==
  \A t \in Threads : ~In(t, "idle") ~> In(t, "idle") \/ closers \ {t} # {} \/ stuck

=============================================================================
