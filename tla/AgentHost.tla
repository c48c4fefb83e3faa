------------------------------ MODULE AgentHost ------------------------------
(***************************************************************************)
(* The agent half of the `makai --stdio` host (zig/src/tools/makai.zig and *)
(* zig/src/protocol/agent/server.zig).  One loop thread reads request      *)
(* lines, answers them, starts and pumps agent runs, publishes the tool    *)
(* calls the runs ask for, evicts idle sessions and drains its replies;    *)
(* every run has a worker thread of its own.  The threads meet in the run  *)
(* streams and in the tool bridge.                                         *)
(*                                                                         *)
(* Abstractions.  Payloads, models and prompts are dropped.  An allocation *)
(* failure is not modelled.  The outgoing sequence number is a counter no  *)
(* guard of the host reads; it is left out.  Idle time is nondeterminism:  *)
(* any session that is not processing may be found idle.  A client names   *)
(* the session it starts (all SDKs do): no id is generated by the host.    *)
(***************************************************************************)
EXTENDS Naturals, Sequences, FiniteSets

CONSTANTS
  Sessions,    \* session ids a client may name
  ToolCalls,   \* tool_call_id values a model may produce; it may reuse them
  MsgIds,      \* message ids of client requests
  None,        \* the absent id, call or reply
  SentTypes,   \* bound: the types of request the client sends
  MaxSeq,      \* bound: largest sequence number a client sends
  MaxGen,      \* bound: registrations the server makes
  MaxWork,     \* bound: events and tool calls of one run
  EventCap,    \* capacity of a run's event stream
  StdinCap,    \* bound: request lines read ahead by the stdin thread
  MaxFrames    \* bound: requests the client sends, answers to tools excepted

ASSUME HostAssumption ==
  /\ MaxSeq \in Nat /\ MaxGen \in Nat /\ MaxWork \in Nat
  /\ EventCap \in Nat \ {0} /\ StdinCap \in Nat \ {0} /\ MaxFrames \in Nat
  /\ None \notin Sessions \union ToolCalls \union MsgIds

VARIABLES
  status,        \* SessionState.status, "absent" when the id is not registered
  generation,    \* SessionState.generation, 0 when the id is not registered
  expected,      \* expected_sequences, 0 when the id has no entry
  pending,       \* pending_messages, counted per session
  nextGen,       \* next_session_generation
  outbox,        \* AgentProtocolServer.outbox
  pipe,          \* agent_pipe, server to client: lines not yet drained
  run,           \* active_agent_runs, by the generation each is bound to
  requests,      \* StdioToolBridge.requests
  inFlight,      \* StdioToolBridge.in_flight
  results,       \* StdioToolBridge.results
  disconnected,  \* StdioToolBridge.disconnected
  nextMid,       \* message ids handed out to tool_execute frames
  at,            \* where the loop thread is
  todo,          \* runs pumpAgentRuns has still to visit
  visit,         \* the run it is visiting
  didWork,       \* did_work of runStdioMode
  leaving,       \* the main loop has broken out, the final drain is under way
  stdin,         \* lines received and not yet polled
  eof,           \* the client has closed its end of stdin
  sent           \* requests the client has sent

sessionVars == <<status, generation, expected, pending, nextGen>>
outVars     == <<outbox, pipe>>
bridgeVars  == <<requests, inFlight, results, disconnected, nextMid>>
loopVars    == <<at, todo, visit, didWork, leaving>>
clientVars  == <<stdin, eof, sent>>
vars == <<sessionVars, outVars, run, bridgeVars, loopVars, clientVars>>

Gens     == 1..MaxGen
Statuses == {"absent", "ready", "processing", "error"}
Places   == {"poll", "eof", "start", "runs", "drain", "settle", "tools",
             "flush", "drainout", "exited"}

(***************************************************************************)
(* Frames.  A request names a session in its envelope and, where the code  *)
(* compares them, in its payload.                                          *)
(***************************************************************************)
Queries  == {"agent_status", "models_request", "tool_list", "ping", "goodbye"}
Commands == {"agent_start", "agent_message", "agent_stop"}
Requests == [type : Commands \union Queries,
             session : Sessions, payload : Sessions, seq : 1..MaxSeq, id : MsgIds]

ToolResult(s, c, m) == [type |-> "tool_result", session |-> s, call |-> c, re |-> m]

FrameTypes == {"agent_started", "agent_stopped", "agent_error", "nack", "session_info",
               "tool_list_response", "pong", "agent_event", "agent_result", "agent_end",
               "tool_execute"}
Codes == {"none", "invalid_request", "agent_busy", "agent_not_found", "not_implemented",
          "internal_error", "tool_execution_error"}

\* A host frame.  The wire does not carry `gen`, the registration it is about.
Frame(type, s, g, re, code, c, m) ==
  [type |-> type, session |-> s, gen |-> g, re |-> re, code |-> code, call |-> c, mid |-> m]

(***************************************************************************)
(* The worker of a run is in its loop, blocked on a full event stream with *)
(* an event to push, in one of the two halves of a tool wait, between its  *)
(* last event and its completion, or done.                                 *)
(***************************************************************************)
WorkerPlaces == {"none", "loop", "blocked", "tool", "missed", "ending", "done"}

FreshRun(ph, s, work) ==
  [ph |-> ph, session |-> s, call |-> None, mid |-> 0, events |-> <<>>, outcome |-> "none",
   cancelled |-> FALSE, disconnectFailed |-> FALSE, terminal |-> FALSE, work |-> work]

NoRun     == FreshRun("none", None, 0)
NewRun(s) == FreshRun("loop", s, MaxWork)

Active(g) == run[g].ph # "none"

Registered(s) == status[s] # "absent"

\* Seeded fault: any registration under the id will do.
CurrentById(g) == Registered(run[g].session)

\* registration_current: the run's registration still holds its id.
Current(g) == generation[run[g].session] = g

Init ==
  /\ status = [s \in Sessions |-> "absent"]
  /\ generation = [s \in Sessions |-> 0]
  /\ expected = [s \in Sessions |-> 0]
  /\ pending = [s \in Sessions |-> 0]
  /\ nextGen = 0
  /\ outbox = <<>> /\ pipe = <<>>
  /\ run = [g \in Gens |-> NoRun]
  /\ requests = {} /\ inFlight = {} /\ results = {}
  /\ disconnected = FALSE /\ nextMid = 0
  /\ at = "poll" /\ todo = {} /\ visit = 0
  /\ didWork = FALSE /\ leaving = FALSE
  /\ stdin = <<>> /\ eof = FALSE /\ sent = 0

-----------------------------------------------------------------------------
(***************************************************************************)
(* dispatchInboundLine: one request line, answered through the pipe.       *)
(***************************************************************************)
Take(f) ==
  /\ at = "poll" /\ stdin # <<>> /\ f = Head(stdin)
  /\ stdin' = Tail(stdin)
  /\ didWork' = TRUE
  /\ UNCHANGED <<at, todo, visit, leaving, eof, sent, outbox, disconnected, nextMid>>

Reply(f, type, code) ==
  pipe' = Append(pipe, Frame(type, f.session, generation[f.session], f.id, code, None, 0))

Reject(f, code) ==
  /\ Reply(f, "agent_error", code)
  /\ UNCHANGED <<sessionVars, run, requests, inFlight, results>>

HandleStart(f) ==
  /\ f.type = "agent_start"
  /\ Take(f)
  /\ \/ (f.payload # f.session \/ f.seq # 1) /\ Reject(f, "invalid_request")
     \/ /\ f.payload = f.session /\ f.seq = 1 /\ Registered(f.session)
        /\ Reject(f, "agent_busy")
     \/ /\ f.payload = f.session /\ f.seq = 1 /\ ~Registered(f.session)
        /\ nextGen < MaxGen
        /\ nextGen' = nextGen + 1
        /\ status' = [status EXCEPT ![f.session] = "ready"]
        /\ generation' = [generation EXCEPT ![f.session] = nextGen + 1]
        /\ expected' = [expected EXCEPT ![f.session] = 2]
        /\ pipe' = Append(pipe, Frame("agent_started", f.session, nextGen + 1, f.id, "none",
                                    None, 0))
        /\ UNCHANGED <<pending, run, requests, inFlight, results>>

\* Seeded fault: a message is accepted whatever the session is doing.
RefusalNeverBusy(f) ==
  CASE f.payload # f.session       -> "invalid_request"
    [] ~Registered(f.session)      -> "agent_not_found"
    [] f.seq # expected[f.session] -> "invalid_request"
    [] OTHER -> "none"

\* What handleMessage and handleStop refuse before they look at the session.
Refusal(f) ==
  CASE f.payload # f.session       -> "invalid_request"
    [] ~Registered(f.session)      -> "agent_not_found"
    [] f.seq # expected[f.session] -> "invalid_request"
    [] f.type = "agent_message" /\ status[f.session] = "processing" -> "agent_busy"
    [] OTHER -> "none"

\* An accepted message has no reply.
HandleMessage(f) ==
  /\ f.type = "agent_message"
  /\ Take(f)
  /\ \/ Refusal(f) # "none" /\ Reject(f, Refusal(f))
     \/ /\ Refusal(f) = "none"
        /\ expected' = [expected EXCEPT ![f.session] = @ + 1]
        /\ pending' = [pending EXCEPT ![f.session] = @ + 1]
        /\ status' = [status EXCEPT ![f.session] = "processing"]
        /\ UNCHANGED <<generation, nextGen, pipe, run, requests, inFlight, results>>

\* Seeded fault: the pending messages of the session are not removed.
RemoveKeepsPending(S) ==
  /\ status' = [s \in Sessions |-> IF s \in S THEN "absent" ELSE status[s]]
  /\ generation' = [s \in Sessions |-> IF s \in S THEN 0 ELSE generation[s]]
  /\ expected' = [s \in Sessions |-> IF s \in S THEN 0 ELSE expected[s]]
  /\ UNCHANGED <<pending, nextGen>>

\* removeSession for every id of S.
Remove(S) ==
  /\ status' = [s \in Sessions |-> IF s \in S THEN "absent" ELSE status[s]]
  /\ generation' = [s \in Sessions |-> IF s \in S THEN 0 ELSE generation[s]]
  /\ expected' = [s \in Sessions |-> IF s \in S THEN 0 ELSE expected[s]]
  /\ pending' = [s \in Sessions |-> IF s \in S THEN 0 ELSE pending[s]]
  /\ UNCHANGED nextGen

CancelRuns(s) ==
  run' = [g \in Gens |-> IF run[g].session = s THEN [run[g] EXCEPT !.cancelled = TRUE]
                         ELSE run[g]]

\* discardSession for every id of S.
Discard(S) ==
  /\ requests' = {q \in requests : q.session \notin S}
  /\ inFlight' = {k \in inFlight : k.session \notin S}
  /\ results' = {r \in results : r.session \notin S}

HandleStop(f) ==
  /\ f.type = "agent_stop"
  /\ Take(f)
  /\ \/ Refusal(f) # "none" /\ Reject(f, Refusal(f))
     \/ /\ Refusal(f) = "none"
        /\ Reply(f, "agent_stopped", "none")
        /\ Remove({f.session})
        /\ CancelRuns(f.session)
        /\ Discard({f.session})

\* Requests that change nothing another handler reads: models_request finds no
\* delegate in the stdio host and is refused, goodbye has no reply.
HandleQuery(f) ==
  /\ f.type \in Queries
  /\ Take(f)
  /\ \/ f.type = "models_request" /\ Reply(f, "nack", "not_implemented")
     \/ f.type = "tool_list" /\ Reply(f, "tool_list_response", "none")
     \/ f.type = "ping" /\ Reply(f, "pong", "none")
     \/ f.type = "goodbye" /\ UNCHANGED pipe
     \/ /\ f.type = "agent_status" /\ f.payload # f.session
        /\ Reply(f, "agent_error", "invalid_request")
     \/ /\ f.type = "agent_status" /\ f.payload = f.session /\ ~Registered(f.session)
        /\ Reply(f, "agent_error", "agent_not_found")
     \/ /\ f.type = "agent_status" /\ f.payload = f.session /\ Registered(f.session)
        /\ Reply(f, "session_info", "none")
  /\ UNCHANGED <<sessionVars, run, requests, inFlight, results>>

(***************************************************************************)
(* enqueueResult: a tool_result settles a wait only when it answers the    *)
(* outstanding tool_execute of its session and call, and only once.        *)
(***************************************************************************)
SameCall(x, y) == x.session = y.session /\ x.call = y.call

Correlates(f) ==
  /\ \E k \in inFlight : SameCall(k, f) /\ k.mid = f.re
  /\ \A r \in results : ~SameCall(r, f)

HandleToolResult(f) ==
  /\ f.type = "tool_result"
  /\ Take(f)
  /\ results' = IF Correlates(f)
                THEN results \union {[session |-> f.session, call |-> f.call, re |-> f.re]}
                ELSE results
  /\ UNCHANGED <<sessionVars, pipe, run, requests, inFlight>>

Dispatch ==
  /\ stdin # <<>>
  /\ LET f == Head(stdin)
     IN HandleStart(f) \/ HandleMessage(f) \/ HandleStop(f) \/ HandleQuery(f)
          \/ HandleToolResult(f)

-----------------------------------------------------------------------------
(***************************************************************************)
(* runStdioMode: the lines are polled until there are none; the end of     *)
(* stdin is latched only when the reader is done and its ring is empty.    *)
(***************************************************************************)
PollEmpty ==
  /\ at = "poll" /\ stdin = <<>>
  /\ at' = IF leaving THEN "start" ELSE "eof"
  /\ UNCHANGED <<sessionVars, outVars, run, bridgeVars, todo, visit, didWork, leaving, clientVars>>

\* Seeded fault: the end of stdin is never latched for the workers.
CheckEofUnlatched ==
  /\ at = "eof"
  /\ at' = "start"
  /\ UNCHANGED <<sessionVars, outVars, run, bridgeVars, todo, visit, didWork, leaving, clientVars>>

CheckEof ==
  /\ at = "eof"
  /\ disconnected' = (disconnected \/ (eof /\ stdin = <<>>))
  /\ at' = "start"
  /\ UNCHANGED <<sessionVars, outVars, run, requests, inFlight, results, nextMid,
                 todo, visit, didWork, leaving, clientVars>>

(***************************************************************************)
(* startPendingAgentRuns.  A run that cannot be started settles at once    *)
(* with the failure pair; so does one whose registration has a run.        *)
(***************************************************************************)
RunFrame(type, s, g, code) == Frame(type, s, g, None, code, None, 0)

FailurePair(s, g, code) ==
  outbox \o <<RunFrame("agent_event", s, g, code), RunFrame("agent_error", s, g, code)>>

StartRun(s) ==
  /\ at = "start" /\ pending[s] > 0
  /\ pending' = [pending EXCEPT ![s] = @ - 1]
  /\ \/ /\ ~Active(generation[s])
        /\ run' = [run EXCEPT ![generation[s]] = NewRun(s)]
        /\ didWork' = TRUE
        /\ UNCHANGED <<status, outbox>>
     \/ /\ status' = [status EXCEPT ![s] = "error"]
        /\ outbox' = FailurePair(s, generation[s], "internal_error")
        /\ UNCHANGED <<run, didWork>>
  /\ UNCHANGED <<generation, expected, nextGen, pipe, bridgeVars, at, todo, visit, leaving,
                 clientVars>>

StartDone ==
  /\ at = "start" /\ \A s \in Sessions : pending[s] = 0
  /\ at' = "runs"
  /\ todo' = {g \in Gens : Active(g)}
  /\ UNCHANGED <<sessionVars, outVars, run, bridgeVars, visit, didWork, leaving, clientVars>>

(***************************************************************************)
(* pumpAgentRuns: each run is visited once.  Its stream is polled until it *)
(* is empty, then asked whether it is done; the worker runs meanwhile.     *)
(***************************************************************************)
VisitRun(g) ==
  /\ at = "runs" /\ g \in todo
  /\ todo' = todo \ {g} /\ visit' = g /\ at' = "drain"
  /\ run' = IF Current(g) THEN run ELSE [run EXCEPT ![g].cancelled = TRUE]
  /\ UNCHANGED <<sessionVars, outVars, bridgeVars, didWork, leaving, clientVars>>

\* The terminal agent_end is kept back until the settlement is published;
\* what a stale run still emits is dropped.
ForwardEvent ==
  /\ at = "drain" /\ run[visit].events # <<>>
  /\ LET e == Head(run[visit].events)
         s == run[visit].session
     IN /\ run' = [run EXCEPT ![visit].events = Tail(@),
                              ![visit].terminal = @ \/ (Current(visit) /\ e = "end")]
        /\ outbox' = IF Current(visit) /\ e = "event"
                     THEN Append(outbox, RunFrame("agent_event", s, visit, "none"))
                     ELSE outbox
        /\ didWork' = (didWork \/ (Current(visit) /\ e = "event"))
  /\ UNCHANGED <<sessionVars, pipe, bridgeVars, at, todo, visit, leaving, clientVars>>

\* Seeded fault: the stream of a stale run is not drained.
DrainCurrentOnly ==
  /\ at = "drain" /\ (run[visit].events = <<>> \/ ~Current(visit))
  /\ at' = "settle"
  /\ UNCHANGED <<sessionVars, outVars, run, bridgeVars, todo, visit, didWork, leaving, clientVars>>

DrainDone ==
  /\ at = "drain" /\ run[visit].events = <<>>
  /\ at' = "settle"
  /\ UNCHANGED <<sessionVars, outVars, run, bridgeVars, todo, visit, didWork, leaving, clientVars>>

\* The frames that settle run g, whose stream is done.
Settlement(g) ==
  LET r == run[g]
      result == RunFrame("agent_result", r.session, g, "none")
      end == RunFrame("agent_end", r.session, g, "none")
  IN IF r.disconnectFailed THEN FailurePair(r.session, g, "tool_execution_error")
     ELSE IF r.outcome = "error" THEN FailurePair(r.session, g, "internal_error")
     ELSE outbox \o (IF r.terminal THEN <<result, end>> ELSE <<result>>)

\* Seeded fault: a run that failed leaves its session processing.
StatusAfterResultOnly(g) ==
  IF run[g].outcome = "error" THEN status[run[g].session] ELSE "ready"

\* The status publishAgentResult or publishAgentError leaves behind.
StatusAfter(g) ==
  IF run[g].disconnectFailed \/ run[g].outcome = "error" THEN "error" ELSE "ready"

SettleRun ==
  /\ at = "settle"
  /\ at' = "runs"
  /\ LET r == run[visit]
     IN \/ r.outcome = "none" /\ UNCHANGED <<status, outbox, run, didWork>>
        \/ /\ r.outcome # "none"
           /\ run' = [run EXCEPT ![visit] = NoRun]
           /\ \/ ~Current(visit) /\ UNCHANGED <<status, outbox, didWork>>
              \/ /\ Current(visit)
                 /\ outbox' = Settlement(visit)
                 /\ status' = [status EXCEPT ![r.session] = StatusAfter(visit)]
                 /\ didWork' = TRUE
  /\ UNCHANGED <<generation, expected, pending, nextGen, pipe, bridgeVars, todo, visit,
                 leaving, clientVars>>

RunsDone ==
  /\ at = "runs" /\ todo = {}
  /\ at' = "tools"
  /\ UNCHANGED <<sessionVars, outVars, run, bridgeVars, todo, visit, didWork, leaving, clientVars>>

(***************************************************************************)
(* publishPendingToolRequests.  A request of a stale registration, or one  *)
(* nobody can answer any more, is dropped; markInFlight supersedes what is *)
(* left of an earlier call with the same id.  The queue is modelled as a   *)
(* set: a worker has one request in it, but for dropped ones.              *)
(***************************************************************************)
PublishTool(q) ==
  /\ at = "tools" /\ q \in requests
  /\ requests' = requests \ {q}
  /\ \/ /\ generation[q.session] # q.gen \/ disconnected
        /\ UNCHANGED <<run, inFlight, results, nextMid, outbox, didWork>>
     \/ /\ generation[q.session] = q.gen /\ ~disconnected
        /\ nextMid' = nextMid + 1
        /\ inFlight' = {k \in inFlight : ~SameCall(k, q)} \union
             {[session |-> q.session, gen |-> q.gen, call |-> q.call, mid |-> nextMid + 1]}
        /\ results' = {r \in results : ~SameCall(r, q)}
        /\ outbox' = Append(outbox, Frame("tool_execute", q.session, q.gen, None, "none",
                                          q.call, nextMid + 1))
        /\ run' = [run EXCEPT ![q.gen].mid = nextMid + 1]
        /\ didWork' = TRUE
  /\ UNCHANGED <<sessionVars, pipe, disconnected, at, todo, visit, leaving, clientVars>>

ToolsDone ==
  /\ at = "tools" /\ requests = {}
  /\ at' = "flush"
  /\ UNCHANGED <<sessionVars, outVars, run, bridgeVars, todo, visit, didWork, leaving, clientVars>>

\* Seeded fault: eviction leaves the tool bridge alone.
SweepKeepsBridge(E) ==
  /\ at = "flush"
  /\ \A s \in E : status[s] \in {"ready", "error"}
  /\ at' = "drainout"
  /\ pipe' = pipe \o outbox
  /\ outbox' = <<>>
  /\ didWork' = (didWork \/ outbox # <<>>)
  /\ Remove(E)
  /\ UNCHANGED <<run, bridgeVars, todo, visit, leaving, clientVars>>

\* pumpServerOutbox, then sweepIdleAgentSessions, which evicts E.
FlushAndSweep(E) ==
  /\ at = "flush"
  /\ \A s \in E : status[s] \in {"ready", "error"}
  /\ at' = "drainout"
  /\ pipe' = pipe \o outbox
  /\ outbox' = <<>>
  /\ didWork' = (didWork \/ outbox # <<>>)
  /\ Remove(E)
  /\ Discard(E)
  /\ UNCHANGED <<run, disconnected, nextMid, todo, visit, leaving, clientVars>>

\* drainOutbound and the exit test: the loop is left when the reader is done,
\* nothing was done in this turn and no run is active.
DrainOutbound ==
  /\ at = "drainout"
  /\ pipe' = <<>>
  /\ didWork' = FALSE
  /\ leaving' = (leaving \/ (eof /\ ~didWork /\ pipe = <<>> /\ \A g \in Gens : ~Active(g)))
  /\ at' = IF leaving THEN "exited" ELSE "poll"
  /\ UNCHANGED <<sessionVars, outbox, run, bridgeVars, todo, visit, clientVars>>

Loop ==
  \/ Dispatch
  \/ PollEmpty \/ CheckEof
  \/ (\E s \in Sessions : StartRun(s)) \/ StartDone
  \/ (\E g \in Gens : VisitRun(g)) \/ ForwardEvent \/ DrainDone \/ SettleRun \/ RunsDone
  \/ (\E q \in requests : PublishTool(q)) \/ ToolsDone
  \/ (\E E \in SUBSET Sessions : FlushAndSweep(E))
  \/ DrainOutbound

-----------------------------------------------------------------------------
(***************************************************************************)
(* The worker thread of the run bound to generation g: runLoop, and        *)
(* executeStdioToolViaAgentProtocol while it waits for a tool.             *)
(***************************************************************************)
WorkerFrame(g) ==
  /\ at # "exited"
  /\ UNCHANGED <<sessionVars, outVars, disconnected, nextMid, loopVars, clientVars>>

\* pushAgentEvent on a full stream: the push is tried again until the loop has
\* made room.  A blocked worker does nothing else, end with an error included.
PushBlocks(g) ==
  /\ run[g].ph = "loop" /\ Len(run[g].events) = EventCap
  /\ run' = [run EXCEPT ![g].ph = "blocked"]
  /\ WorkerFrame(g)
  /\ UNCHANGED <<requests, inFlight, results>>

CanPush(g) == run[g].ph \in {"loop", "blocked"} /\ Len(run[g].events) < EventCap

EmitEvent(g) ==
  /\ CanPush(g) /\ run[g].work > 0
  /\ run' = [run EXCEPT ![g].ph = "loop", ![g].events = Append(@, "event"), ![g].work = @ - 1]
  /\ WorkerFrame(g)
  /\ UNCHANGED <<requests, inFlight, results>>

CallTool(g, c) ==
  /\ run[g].ph = "loop" /\ run[g].work > 0
  /\ run' = [run EXCEPT ![g].ph = "tool", ![g].call = c, ![g].mid = 0, ![g].work = @ - 1]
  /\ requests' = requests \union {[session |-> run[g].session, gen |-> g, call |-> c]}
  /\ WorkerFrame(g)
  /\ UNCHANGED <<inFlight, results>>

\* popResult: the in-flight key of this generation, and the result that
\* answers the request it records.
Takeable(g, k, r) ==
  /\ k \in inFlight /\ r \in results
  /\ k.gen = g /\ k.session = run[g].session /\ k.call = run[g].call
  /\ SameCall(r, k) /\ r.re = k.mid

CanTake(g) == \E k \in inFlight, r \in results : Takeable(g, k, r)

\* Seeded fault: popResult leaves the in-flight key behind.
TakeResultKeepsKey(g) ==
  /\ \/ run[g].ph = "tool" /\ ~run[g].cancelled
     \/ run[g].ph = "missed" /\ disconnected
  /\ \E k \in inFlight, r \in results :
       /\ Takeable(g, k, r)
       /\ results' = results \ {r}
  /\ run' = [run EXCEPT ![g].ph = "loop"]
  /\ WorkerFrame(g)
  /\ UNCHANGED <<requests, inFlight>>

TakeResult(g) ==
  /\ \/ run[g].ph = "tool" /\ ~run[g].cancelled
     \/ run[g].ph = "missed" /\ disconnected
  /\ \E k \in inFlight, r \in results :
       /\ Takeable(g, k, r)
       /\ inFlight' = inFlight \ {k}
       /\ results' = results \ {r}
  /\ run' = [run EXCEPT ![g].ph = "loop"]
  /\ WorkerFrame(g)
  /\ UNCHANGED requests

ToolCancelled(g) ==
  /\ run[g].ph = "tool" /\ run[g].cancelled
  /\ run' = [run EXCEPT ![g].ph = "loop"]
  /\ WorkerFrame(g)
  /\ UNCHANGED <<requests, inFlight, results>>

\* No result yet: the disconnect latch is read only after the first pop.
MissResult(g) ==
  /\ run[g].ph = "tool" /\ ~run[g].cancelled /\ ~CanTake(g)
  /\ run' = [run EXCEPT ![g].ph = "missed"]
  /\ WorkerFrame(g)
  /\ UNCHANGED <<requests, inFlight, results>>

\* Seeded fault: the queue is not looked at again once stdin is gone.
CheckLatchOnly(g) ==
  /\ run[g].ph = "missed"
  /\ \/ ~disconnected /\ run' = [run EXCEPT ![g].ph = "tool"]
     \/ /\ disconnected
        /\ run' = [run EXCEPT ![g].ph = "loop", ![g].cancelled = TRUE,
                              ![g].disconnectFailed = TRUE]
  /\ WorkerFrame(g)
  /\ UNCHANGED <<requests, inFlight, results>>

\* Connected: sleep and look again.  Disconnected, and the second pop finds
\* nothing either: the run is cancelled and marked for the failure pair.
CheckLatch(g) ==
  /\ run[g].ph = "missed"
  /\ \/ ~disconnected /\ run' = [run EXCEPT ![g].ph = "tool"]
     \/ /\ disconnected /\ ~CanTake(g)
        /\ run' = [run EXCEPT ![g].ph = "loop", ![g].cancelled = TRUE,
                              ![g].disconnectFailed = TRUE]
  /\ WorkerFrame(g)
  /\ UNCHANGED <<requests, inFlight, results>>

EmitEnd(g) ==
  /\ CanPush(g)
  /\ run' = [run EXCEPT ![g].ph = "ending", ![g].events = Append(@, "end")]
  /\ WorkerFrame(g)
  /\ UNCHANGED <<requests, inFlight, results>>

Complete(g) ==
  /\ \/ run[g].ph = "ending" /\ run' = [run EXCEPT ![g].ph = "done", ![g].outcome = "result"]
     \/ run[g].ph = "loop" /\ run' = [run EXCEPT ![g].ph = "done", ![g].outcome = "error"]
  /\ WorkerFrame(g)
  /\ UNCHANGED <<requests, inFlight, results>>

Worker(g) ==
  \/ PushBlocks(g) \/ EmitEvent(g) \/ (\E c \in ToolCalls : CallTool(g, c))
  \/ TakeResult(g) \/ ToolCancelled(g) \/ MissResult(g) \/ CheckLatch(g)
  \/ EmitEnd(g) \/ Complete(g)

-----------------------------------------------------------------------------
(***************************************************************************)
(* The client: any request, in any order, until it closes stdin.  Its      *)
(* answers to a tool_execute may be late, repeated or misdirected.         *)
(***************************************************************************)
Write(f) ==
  /\ ~eof /\ Len(stdin) < StdinCap
  /\ stdin' = Append(stdin, f)
  /\ UNCHANGED <<sessionVars, outVars, run, bridgeVars, loopVars, eof>>

ClientSend ==
  /\ sent < MaxFrames
  /\ sent' = sent + 1
  /\ \/ \E f \in Requests :
          /\ f.type \in SentTypes
          /\ f.type = "agent_start" => nextGen + Len(stdin) < MaxGen
          /\ f.type \in Queries => f.seq = 1      \* no query reads it
          /\ Write(f)
     \/ \E s \in Sessions, c \in ToolCalls, m \in 1..nextMid : Write(ToolResult(s, c, m))

ClientAnswer ==
  /\ \E k \in inFlight :
       /\ \A r \in results : ~SameCall(r, k)
       /\ stdin = <<>>
       /\ Write(ToolResult(k.session, k.call, k.mid))
  /\ UNCHANGED sent

CloseStdin ==
  /\ ~eof /\ eof' = TRUE
  /\ UNCHANGED <<sessionVars, outVars, run, bridgeVars, loopVars, stdin, sent>>

Next ==
  \/ Loop \/ (\E g \in Gens : Worker(g))
  \/ ClientSend \/ ClientAnswer \/ CloseStdin

Spec == Init /\ [][Next]_vars

\* The loop thread and the workers are scheduled; a provider call returns; a
\* client that keeps its end open answers the tools it is asked to run.
Fairness ==
  /\ WF_vars(Loop)
  /\ \A g \in Gens : WF_vars(Worker(g))
  /\ WF_vars(ClientAnswer)

FairSpec == Spec /\ Fairness

-----------------------------------------------------------------------------
(***************************************************************************)
(* Type invariant: every variable of the host has the shape of the field   *)
(* it models, and an id that is not registered has no generation, expected *)
(* sequence or pending message (removeSession, for the maps modelled here; *)
(* it clears outgoing_sequences too, which is left out).                   *)
(***************************************************************************)
Runs == [ph : WorkerPlaces, session : Sessions \union {None}, call : ToolCalls \union {None},
         mid : Nat, events : Seq({"event", "end"}), outcome : {"none", "result", "error"},
         cancelled : BOOLEAN, disconnectFailed : BOOLEAN, terminal : BOOLEAN, work : Nat]

ToolResults == [type : {"tool_result"}, session : Sessions, call : ToolCalls, re : Nat]

HostFrames == [type : FrameTypes, session : Sessions, gen : 0..MaxGen,
               re : MsgIds \union {None}, code : Codes, call : ToolCalls \union {None}, mid : Nat]

ServerOK ==
  /\ status \in [Sessions -> Statuses]
  /\ generation \in [Sessions -> 0..MaxGen]
  /\ expected \in [Sessions -> Nat]
  /\ pending \in [Sessions -> Nat]
  /\ nextGen \in 0..MaxGen
  /\ \A s \in Sessions : IF Registered(s) THEN generation[s] # 0 /\ expected[s] # 0
                          ELSE generation[s] = 0 /\ expected[s] = 0 /\ pending[s] = 0

FramesOK == outbox \in Seq(HostFrames) /\ pipe \in Seq(HostFrames)

RunsOK == run \in [Gens -> Runs]

BridgeOK ==
  /\ requests \subseteq [session : Sessions, gen : Gens, call : ToolCalls]
  /\ inFlight \subseteq [session : Sessions, gen : Gens, call : ToolCalls, mid : Nat]
  /\ results \subseteq [session : Sessions, call : ToolCalls, re : Nat]
  /\ disconnected \in BOOLEAN /\ nextMid \in Nat

LoopOK ==
  /\ at \in Places /\ todo \subseteq Gens /\ visit \in 0..MaxGen
  /\ didWork \in BOOLEAN /\ leaving \in BOOLEAN

ClientOK == stdin \in Seq(Requests \union ToolResults) /\ eof \in BOOLEAN /\ sent \in Nat

TypeOK == ServerOK /\ FramesOK /\ RunsOK /\ BridgeOK /\ LoopOK /\ ClientOK

(***************************************************************************)
(* A session is processing exactly while one accepted message of its       *)
(* registration is unsettled: queued, or bound to the registration's run.  *)
(* Otherwise a second run is admitted next to the first, or the session    *)
(* answers agent_busy for ever (handleMessage, pumpAgentRuns, handleStop,  *)
(* evictIdleSessions).                                                     *)
(***************************************************************************)
Unsettled(s) ==
  pending[s] + (IF generation[s] \in Gens /\ Active(generation[s]) THEN 1 ELSE 0)

OneUnsettledMessage ==
  \A s \in Sessions : Unsettled(s) = (IF status[s] = "processing" THEN 1 ELSE 0)

(***************************************************************************)
(* What is queued for the client was published for the registration that   *)
(* holds the session id now: a stale run publishes nothing into a session  *)
(* re-registered under its id (pumpAgentRuns, publishPendingToolRequests). *)
(***************************************************************************)
OutputOfCurrentRegistration ==
  \A i \in 1..Len(outbox) : generation[outbox[i].session] = outbox[i].gen

(***************************************************************************)
(* Nothing in the tool bridge outlives the registration it belongs to: an  *)
(* in-flight key is of the registration holding the id, and every queued   *)
(* result answers an in-flight call (markInFlight, enqueueResult,          *)
(* discardSession on stop and on eviction).                                *)
(***************************************************************************)
BridgeOfCurrentRegistration ==
  /\ \A k \in inFlight : generation[k.session] = k.gen
  /\ \A r \in results : \E k \in inFlight : SameCall(k, r) /\ k.mid = r.re

(***************************************************************************)
(* A worker that waits for a tool can only be given the answer to the      *)
(* tool_execute published for this very call, never one to an earlier call *)
(* that reused the tool_call_id, in this run or under an earlier           *)
(* registration (popResult, enqueueResult).                                *)
(***************************************************************************)
ResultIsForThisCall ==
  \A g \in Gens : run[g].ph \in {"tool", "missed"} =>
    \A k \in inFlight, r \in results : Takeable(g, k, r) => r.re = run[g].mid

(***************************************************************************)
(* What makes OneUnsettledMessage inductive.  Generations are handed out   *)
(* once: two ids never share one, and none is ahead of the counter.  A run *)
(* belongs to the id whose registration it is bound to.  The loop visits   *)
(* only runs that are active, each once.                                   *)
(***************************************************************************)
GenerationsUnique ==
  /\ \A s \in Sessions : generation[s] <= nextGen
  /\ \A s, t \in Sessions : generation[s] = generation[t] /\ s # t => generation[s] = 0

RunsBound ==
  \A g \in Gens : Active(g) =>
    /\ run[g].session \in Sessions
    /\ g <= nextGen
    /\ \A s \in Sessions : generation[s] = g => run[g].session = s

VisitsActive ==
  /\ at = "runs" => todo \subseteq {g \in Gens : Active(g)}
  /\ at \in {"drain", "settle"} =>
       todo \union {visit} \subseteq {g \in Gens : Active(g)} /\ visit \notin todo

InductiveInv ==
  TypeOK /\ GenerationsUnique /\ RunsBound /\ VisitsActive /\ OneUnsettledMessage

(***************************************************************************)
(* A tool_result the host accepted before stdin ended wins its wait: no    *)
(* worker gives up on the disconnect latch while its answer is queued      *)
(* (the second popResult of executeStdioToolViaAgentProtocol).             *)
(***************************************************************************)
QueuedResultWinsWait ==
  [][\A g \in Gens : ~run[g].disconnectFailed /\ run'[g].disconnectFailed => ~CanTake(g)]_vars

(***************************************************************************)
(* Once stdin is closed the host exits: no tool wait, run or queued        *)
(* message keeps the loop alive (runStdioMode, markStdinDisconnected).     *)
(***************************************************************************)
HostExitsAfterEof == eof ~> (at = "exited")

(***************************************************************************)
(* An accepted message is settled or its registration ends: the session    *)
(* does not stay busy (pumpAgentRuns, handleStop), or the host has exited. *)
(***************************************************************************)
Busy(s, g) == status[s] = "processing" /\ generation[s] = g

AcceptedMessageSettles ==
  \A s \in Sessions, g \in Gens : Busy(s, g) ~> (~Busy(s, g) \/ at = "exited")

(***************************************************************************)
(* docs/v1-sdk-agent-provider-spec.md:1561-1564: a run whose events were   *)
(* not all published never settles with a result.  pumpAgentRuns polls the *)
(* stream until it is empty and only then asks isDone, which does not look *)
(* at what is pending: the events a worker adds in between are dropped.    *)
(***************************************************************************)
NoTruncatedSuccess ==
  [][\A g \in Gens : at = "settle" /\ visit = g /\ Current(g) /\ ~Active(g)' /\
                     run[g].outcome = "result" => run[g].events = <<>>]_vars

=============================================================================
