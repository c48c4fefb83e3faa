--------------------------- MODULE AgentHostProofs ---------------------------
(***************************************************************************)
(* Proofs about AgentHost for every value of its constants: the inductive  *)
(* invariant of the loop and its workers; the tool waits; and that         *)
(* AgentHost implements SessionServer.                                     *)
(***************************************************************************)
EXTENDS AgentHostServer, SequenceTheorems, TLAPS

(***************************************************************************)
(* What appending to, and taking from, a queue preserves.                  *)
(***************************************************************************)
LEMMA SeqAppend == ASSUME NEW S, NEW q \in Seq(S), NEW e \in S
                   PROVE  Append(q, e) \in Seq(S)
  OBVIOUS

\* Two sequences joined.
LEMMA SeqConcat == ASSUME NEW S, NEW q \in Seq(S), NEW r \in Seq(S)
                   PROVE  q \o r \in Seq(S)
  OBVIOUS

\* The head and the tail of a sequence that is not empty.
LEMMA SeqTake == ASSUME NEW S, NEW q \in Seq(S), q # <<>>
                 PROVE  Head(q) \in S /\ Tail(q) \in Seq(S)
  OBVIOUS

\* The frames the loop builds are host frames.
LEMMA FrameType ==
  ASSUME NEW type \in FrameTypes, NEW s \in Sessions, NEW g \in 0..MaxGen,
         NEW re \in MsgIds \union {None}, NEW code \in Codes,
         NEW c \in ToolCalls \union {None}, NEW m \in Nat
  PROVE  Frame(type, s, g, re, code, c, m) \in HostFrames
  BY DEF Frame, HostFrames

\* The failure pair leaves host frames in the outbox.
LEMMA FailurePairType ==
  ASSUME outbox \in Seq(HostFrames), NEW s \in Sessions, NEW g \in 0..MaxGen, NEW code \in Codes
  PROVE  FailurePair(s, g, code) \in Seq(HostFrames)
<1>1. /\ RunFrame("agent_event", s, g, code) \in HostFrames
      /\ RunFrame("agent_error", s, g, code) \in HostFrames
  BY DEF RunFrame, Frame, HostFrames, FrameTypes
<1> DEFINE a == RunFrame("agent_event", s, g, code)
           b == RunFrame("agent_error", s, g, code)
<1>2. <<a, b>> \in Seq(HostFrames)
  BY <1>1
<1> QED
  BY <1>2, SeqConcat DEF FailurePair

-----------------------------------------------------------------------------
\* The invariant holds when the host starts.
THEOREM InitInductive == Init => InductiveInv
<1> SUFFICES ASSUME Init PROVE InductiveInv
  OBVIOUS
<1> USE HostAssumption DEF HostAssumption, Init
<1>1. TypeOK
  <2>1. ServerOK
    BY DEF ServerOK, Statuses, Registered
  <2>2. FramesOK /\ ClientOK
    <3>1. eof \in BOOLEAN /\ sent \in Nat
      OBVIOUS
    <3> QED
      BY <3>1 DEF FramesOK, ClientOK
  <2>3. RunsOK
    BY DEF RunsOK, Runs, NoRun, FreshRun, WorkerPlaces
  <2>4. BridgeOK /\ LoopOK
    <3>1. disconnected \in BOOLEAN /\ didWork \in BOOLEAN /\ leaving \in BOOLEAN
      OBVIOUS
    <3> QED
      BY <3>1 DEF BridgeOK, LoopOK, Places
  <2> QED
    BY <2>1, <2>2, <2>3, <2>4 DEF TypeOK
<1>2. GenerationsUnique
  BY DEF GenerationsUnique
<1>3. RunsBound /\ VisitsActive
  BY DEF RunsBound, VisitsActive, Active, NoRun, FreshRun
<1>4. OneUnsettledMessage
  BY DEF OneUnsettledMessage, Unsettled, Gens
<1> QED
  BY <1>1, <1>2, <1>3, <1>4 DEF InductiveInv
-----------------------------------------------------------------------------
(***************************************************************************)
(* A step that keeps the registrations, and which runs are active for whom,*)
(* keeps what relates the two.                                             *)
(***************************************************************************)
LEMMA KeepRegistrations ==
  ASSUME InductiveInv, UNCHANGED sessionVars,
         \A g \in Gens : /\ Active(g)' <=> Active(g)
                        /\ run'[g].session = run[g].session
  PROVE  GenerationsUnique' /\ RunsBound' /\ OneUnsettledMessage'
<1> USE DEF InductiveInv, sessionVars
<1>1. GenerationsUnique'
  BY DEF GenerationsUnique
<1>2. RunsBound'
  BY DEF RunsBound
<1>3. OneUnsettledMessage'
  <2> SUFFICES ASSUME NEW s \in Sessions
               PROVE  Unsettled(s)' = (IF status[s] = "processing" THEN 1 ELSE 0)
    BY DEF OneUnsettledMessage
  <2>1. Unsettled(s)' = Unsettled(s)
    BY DEF Unsettled
  <2> QED
    BY <2>1 DEF OneUnsettledMessage
<1> QED
  BY <1>1, <1>2, <1>3

\* The line the loop takes is a request or a tool result.
LEMMA TakenLine ==
  ASSUME InductiveInv, NEW f, Take(f)
  PROVE  /\ f \in Requests \union ToolResults
         /\ ClientOK' /\ LoopOK' /\ at' = "poll" /\ outbox' = outbox
         /\ disconnected' = disconnected /\ nextMid' = nextMid
  BY SeqTake DEF InductiveInv, TypeOK, ClientOK, LoopOK, Take

\* A reply is a host frame.
LEMMA ReplyType ==
  ASSUME InductiveInv, NEW f \in Requests, NEW type \in FrameTypes, NEW code \in Codes,
         Reply(f, type, code), outbox' = outbox
  PROVE  FramesOK'
<1>1. generation[f.session] \in 0..MaxGen /\ f.session \in Sessions /\ f.id \in MsgIds
  BY DEF InductiveInv, TypeOK, ServerOK, Requests
<1>2. Frame(type, f.session, generation[f.session], f.id, code, None, 0) \in HostFrames
  BY <1>1, FrameType
<1> QED
  BY <1>2, SeqAppend DEF InductiveInv, TypeOK, FramesOK, Reply

\* A refused request changes nothing but what is queued for the client.
LEMMA RejectStep ==
  ASSUME InductiveInv, NEW f \in Requests, NEW code \in Codes, Take(f), Reject(f, code)
  PROVE  InductiveInv'
<1>1. FramesOK'
  BY ReplyType, TakenLine DEF Reject, FrameTypes
<1>2. GenerationsUnique' /\ RunsBound' /\ OneUnsettledMessage'
  BY KeepRegistrations DEF Reject, Active
<1>3. ServerOK' /\ RunsOK' /\ BridgeOK'
  BY TakenLine DEF Reject, sessionVars, InductiveInv, TypeOK, ServerOK, RunsOK, BridgeOK, Registered
<1> QED
  BY <1>1, <1>2, <1>3, TakenLine DEF InductiveInv, TypeOK, VisitsActive

\* agent_start registers a fresh generation.
LEMMA HandleStartStep ==
  ASSUME InductiveInv, NEW f \in Requests, HandleStart(f)
  PROVE  InductiveInv'
<1>1. CASE \E code \in {"invalid_request", "agent_busy"} : Reject(f, code)
  BY <1>1, RejectStep DEF HandleStart, Codes
<1>2. CASE ~\E code \in {"invalid_request", "agent_busy"} : Reject(f, code)
  <2> DEFINE s == f.session
             fresh == nextGen + 1
  <2>1. /\ Take(f) /\ s \in Sessions /\ f.id \in MsgIds /\ ~Registered(s) /\ nextGen < MaxGen
        /\ nextGen' = fresh
        /\ status' = [status EXCEPT ![s] = "ready"]
        /\ generation' = [generation EXCEPT ![s] = fresh]
        /\ expected' = [expected EXCEPT ![s] = 2]
        /\ pipe' = Append(pipe, Frame("agent_started", s, fresh, f.id, "none", None, 0))
        /\ UNCHANGED <<pending, run, requests, inFlight, results>>
    BY <1>2 DEF HandleStart, Requests
  <2>2. fresh \in Gens /\ nextGen \in Nat
    BY <2>1, HostAssumption DEF HostAssumption, InductiveInv, TypeOK, ServerOK, Gens
  <2>3. ~Active(fresh)
    BY <2>2 DEF InductiveInv, RunsBound
  <2>4. ServerOK'
    BY <2>1, <2>2 DEF InductiveInv, TypeOK, ServerOK, Registered, Statuses, Gens
  <2>5. FramesOK'
    <3>1. Frame("agent_started", s, fresh, f.id, "none", None, 0) \in HostFrames
      BY <2>1, <2>2 DEF Frame, HostFrames, FrameTypes, Codes, Gens
    <3> QED
      BY <2>1, <3>1, SeqAppend, TakenLine DEF InductiveInv, TypeOK, FramesOK
  <2>6. TypeOK'
    BY <2>1, <2>4, <2>5, TakenLine DEF InductiveInv, TypeOK, RunsOK, BridgeOK
  <2>7. GenerationsUnique'
    BY <2>1, <2>2 DEF InductiveInv, TypeOK, ServerOK, GenerationsUnique
  <2>8. RunsBound'
    <3> SUFFICES ASSUME NEW g \in Gens, Active(g)
                 PROVE  /\ run[g].session \in Sessions /\ g <= fresh
                        /\ \A t \in Sessions : generation'[t] = g => run[g].session = t
      BY <2>1 DEF RunsBound, Active
    <3>1. g <= nextGen /\ g # fresh /\ g \in Nat
      BY <2>2, <2>3 DEF InductiveInv, RunsBound, Gens
    <3>2. \A t \in Sessions : generation'[t] = g => generation[t] = g
      BY <2>1, <3>1 DEF InductiveInv, TypeOK, ServerOK
    <3> QED
      BY <2>2, <3>1, <3>2 DEF InductiveInv, RunsBound
  <2>9. VisitsActive'
    BY <2>1, TakenLine DEF VisitsActive
  <2>10. OneUnsettledMessage'
    <3> SUFFICES ASSUME NEW t \in Sessions
                 PROVE  Unsettled(t)' = (IF status'[t] = "processing" THEN 1 ELSE 0)
      BY DEF OneUnsettledMessage
    <3>1. CASE t = s
      BY <2>1, <2>2, <2>3, <3>1
      DEF InductiveInv, TypeOK, ServerOK, Unsettled, Active
    <3>2. CASE t # s
      BY <2>1, <3>2 DEF InductiveInv, TypeOK, ServerOK, OneUnsettledMessage, Unsettled, Active
    <3> QED
      BY <3>1, <3>2
  <2> QED
    BY <2>6, <2>7, <2>8, <2>9, <2>10 DEF InductiveInv
<1> QED
  BY <1>1, <1>2

\* A refusal is one of the error codes.
LEMMA RefusalCode == ASSUME NEW f PROVE Refusal(f) \in Codes
  BY DEF Refusal, Codes

\* agent_message queues a message on an idle registration only.
LEMMA HandleMessageStep ==
  ASSUME InductiveInv, NEW f \in Requests, HandleMessage(f)
  PROVE  InductiveInv'
<1>1. CASE Refusal(f) # "none"
  BY <1>1, RejectStep, RefusalCode DEF HandleMessage
<1>2. CASE Refusal(f) = "none"
  <2> DEFINE s == f.session
  <2>1. /\ Take(f) /\ s \in Sessions /\ f.type = "agent_message"
        /\ expected' = [expected EXCEPT ![s] = @ + 1]
        /\ pending' = [pending EXCEPT ![s] = @ + 1]
        /\ status' = [status EXCEPT ![s] = "processing"]
        /\ UNCHANGED <<generation, nextGen, pipe, run, requests, inFlight, results>>
    BY <1>2 DEF HandleMessage, Requests
  <2>2. Registered(s) /\ status[s] # "processing"
    BY <1>2, <2>1 DEF Refusal
  <2>3. ServerOK'
    BY <2>1, <2>2 DEF InductiveInv, TypeOK, ServerOK, Registered, Statuses
  <2>4. TypeOK'
    BY <2>1, <2>3, TakenLine DEF InductiveInv, TypeOK, FramesOK, RunsOK, BridgeOK
  <2>5. GenerationsUnique' /\ RunsBound' /\ VisitsActive'
    BY <2>1, TakenLine DEF InductiveInv, GenerationsUnique, RunsBound, VisitsActive, Active
  <2>6. OneUnsettledMessage'
    <3> SUFFICES ASSUME NEW t \in Sessions
                 PROVE  Unsettled(t)' = (IF status'[t] = "processing" THEN 1 ELSE 0)
      BY DEF OneUnsettledMessage
    <3>1. Unsettled(t) = (IF status[t] = "processing" THEN 1 ELSE 0)
      BY DEF InductiveInv, OneUnsettledMessage
    <3>2. Unsettled(t)' = IF t = s THEN Unsettled(t) + 1 ELSE Unsettled(t)
      BY <2>1 DEF InductiveInv, TypeOK, ServerOK, Unsettled, Active
    <3> QED
      BY <2>1, <2>2, <3>1, <3>2 DEF InductiveInv, TypeOK, ServerOK
  <2> QED
    BY <2>4, <2>5, <2>6 DEF InductiveInv
<1> QED
  BY <1>1, <1>2

\* Removing registrations, by agent_stop or by eviction.
LEMMA RemoveKeeps ==
  ASSUME InductiveInv, NEW S \in SUBSET Sessions, Remove(S),
         \A g \in Gens : /\ Active(g)' <=> Active(g)
                        /\ run'[g].session = run[g].session
  PROVE  ServerOK' /\ GenerationsUnique' /\ RunsBound' /\ OneUnsettledMessage'
<1>1. ServerOK'
  <2>1. /\ status' \in [Sessions -> Statuses] /\ generation' \in [Sessions -> 0..MaxGen]
        /\ expected' \in [Sessions -> Nat] /\ pending' \in [Sessions -> Nat]
        /\ nextGen' \in 0..MaxGen
    BY HostAssumption
    DEF HostAssumption, InductiveInv, TypeOK, ServerOK, Remove, Statuses
  <2>2. ASSUME NEW t \in Sessions
        PROVE  IF Registered(t)' THEN generation'[t] # 0 /\ expected'[t] # 0
               ELSE generation'[t] = 0 /\ expected'[t] = 0 /\ pending'[t] = 0
    BY DEF InductiveInv, TypeOK, ServerOK, Remove, Registered
  <2> QED
    BY <2>1, <2>2 DEF ServerOK
<1>2. GenerationsUnique'
  BY DEF InductiveInv, TypeOK, ServerOK, GenerationsUnique, Remove
<1>3. RunsBound'
  BY DEF InductiveInv, TypeOK, ServerOK, RunsBound, Remove, Gens
<1>4. OneUnsettledMessage'
  <2> SUFFICES ASSUME NEW t \in Sessions
               PROVE  Unsettled(t)' = (IF status'[t] = "processing" THEN 1 ELSE 0)
    BY DEF OneUnsettledMessage
  <2>1. CASE t \in S
    BY <2>1 DEF Remove, Unsettled, Gens
  <2>2. CASE t \notin S
    <3>1. Unsettled(t)' = Unsettled(t)
      BY <2>2 DEF Remove, Unsettled, InductiveInv, TypeOK, ServerOK
    <3> QED
      BY <2>2, <3>1 DEF Remove, InductiveInv, OneUnsettledMessage
  <2> QED
    BY <2>1, <2>2
<1> QED
  BY <1>1, <1>2, <1>3, <1>4
\* A cancelled run keeps its place and its session.
LEMMA CancelRunsKeeps ==
  ASSUME InductiveInv, NEW s \in Sessions, CancelRuns(s)
  PROVE  /\ RunsOK'
         /\ \A g \in Gens : /\ Active(g)' <=> Active(g)
                            /\ run'[g].session = run[g].session
<1> USE DEF InductiveInv, TypeOK, RunsOK, CancelRuns
<1>1. ASSUME NEW g \in Gens
      PROVE  /\ run'[g] \in Runs
             /\ run'[g].ph = run[g].ph /\ run'[g].session = run[g].session
  BY DEF Runs
<1> QED
  BY <1>1 DEF Active

\* Discarding sessions leaves the bridge with less.
LEMMA DiscardKeeps ==
  ASSUME BridgeOK, NEW S, Discard(S), UNCHANGED <<disconnected, nextMid>>
  PROVE  BridgeOK'
  BY DEF BridgeOK, Discard

\* agent_stop removes its registration and cancels its run.
LEMMA HandleStopStep ==
  ASSUME InductiveInv, NEW f \in Requests, HandleStop(f)
  PROVE  InductiveInv'
<1>1. CASE Refusal(f) # "none"
  BY <1>1, RejectStep, RefusalCode DEF HandleStop
<1>2. CASE Refusal(f) = "none"
  <2>1. /\ Take(f) /\ f.session \in Sessions
        /\ Reply(f, "agent_stopped", "none") /\ Remove({f.session})
        /\ CancelRuns(f.session) /\ Discard({f.session})
    BY <1>2 DEF HandleStop, Requests
  <2>2. RunsOK' /\ \A g \in Gens : /\ Active(g)' <=> Active(g)
                                   /\ run'[g].session = run[g].session
    BY <2>1, CancelRunsKeeps
  <2>3. ServerOK' /\ GenerationsUnique' /\ RunsBound' /\ OneUnsettledMessage'
    BY <2>1, <2>2, RemoveKeeps
  <2>4. FramesOK'
    BY <2>1, TakenLine, ReplyType DEF FrameTypes, Codes
  <2>5. BridgeOK'
    BY <2>1, TakenLine, DiscardKeeps DEF InductiveInv, TypeOK
  <2> QED
    BY <2>1, <2>2, <2>3, <2>4, <2>5, TakenLine DEF InductiveInv, TypeOK, VisitsActive
<1> QED
  BY <1>1, <1>2

\* A query is answered and changes no session.
LEMMA HandleQueryStep ==
  ASSUME InductiveInv, NEW f \in Requests, HandleQuery(f)
  PROVE  InductiveInv'
<1>1. Take(f) /\ UNCHANGED <<sessionVars, run, requests, inFlight, results>>
  BY DEF HandleQuery
<1>2. FramesOK'
  <2>1. CASE \E type \in FrameTypes, code \in Codes : Reply(f, type, code)
    BY <1>1, <2>1, TakenLine, ReplyType
  <2>2. CASE UNCHANGED pipe
    BY <1>1, <2>2, TakenLine DEF InductiveInv, TypeOK, FramesOK
  <2> QED
    BY <2>1, <2>2 DEF HandleQuery, FrameTypes, Codes
<1>3. GenerationsUnique' /\ RunsBound' /\ OneUnsettledMessage'
  BY <1>1, KeepRegistrations DEF Active
<1>4. ServerOK' /\ RunsOK' /\ BridgeOK'
  BY <1>1, TakenLine
  DEF sessionVars, InductiveInv, TypeOK, ServerOK, RunsOK, BridgeOK, Registered
<1> QED
  BY <1>1, <1>2, <1>3, <1>4, TakenLine DEF InductiveInv, TypeOK, VisitsActive

\* A tool result reaches the bridge or is dropped.
LEMMA HandleToolResultStep ==
  ASSUME InductiveInv, NEW f \in ToolResults, HandleToolResult(f)
  PROVE  InductiveInv'
<1>1. Take(f) /\ UNCHANGED <<sessionVars, pipe, run, requests, inFlight>>
  BY DEF HandleToolResult
<1>2. [session |-> f.session, call |-> f.call, re |-> f.re]
        \in [session : Sessions, call : ToolCalls, re : Nat]
  BY DEF ToolResults
<1>3. BridgeOK'
  BY <1>1, <1>2, TakenLine DEF HandleToolResult, InductiveInv, TypeOK, BridgeOK
<1>4. GenerationsUnique' /\ RunsBound' /\ OneUnsettledMessage'
  BY <1>1, KeepRegistrations DEF Active
<1>5. ServerOK' /\ RunsOK' /\ FramesOK'
  BY <1>1, TakenLine
  DEF sessionVars, InductiveInv, TypeOK, ServerOK, RunsOK, FramesOK, Registered
<1> QED
  BY <1>1, <1>3, <1>4, <1>5, TakenLine DEF InductiveInv, TypeOK, VisitsActive

\* One line dispatched, whatever its type.
LEMMA DispatchStep == ASSUME InductiveInv, Dispatch PROVE InductiveInv'
<1> DEFINE f == Head(stdin)
<1>1. f \in Requests \union ToolResults
  BY SeqTake DEF Dispatch, InductiveInv, TypeOK, ClientOK
<1>2. CASE f \in Requests
  <2>1. ~HandleToolResult(f)
    BY <1>2 DEF Requests, Commands, Queries, HandleToolResult
  <2> QED
    BY <1>2, <2>1, HandleStartStep, HandleMessageStep, HandleStopStep, HandleQueryStep
    DEF Dispatch
<1>3. CASE f \in ToolResults
  <2>1. HandleToolResult(f)
    BY <1>3 DEF Dispatch, ToolResults, HandleStart, HandleMessage, HandleStop, HandleQuery,
                Queries
  <2> QED
    BY <1>3, <2>1, HandleToolResultStep
<1> QED
  BY <1>1, <1>2, <1>3
-----------------------------------------------------------------------------
\* A step of the loop that only moves the loop on.
LEMMA MovingOn ==
  ASSUME InductiveInv, LoopOK', VisitsActive', disconnected' \in BOOLEAN, FramesOK',
         UNCHANGED <<sessionVars, run, requests, inFlight, results, nextMid, clientVars>>
  PROVE  InductiveInv'
<1>1. GenerationsUnique' /\ RunsBound' /\ OneUnsettledMessage'
  BY KeepRegistrations DEF Active
<1>2. ServerOK' /\ RunsOK' /\ BridgeOK' /\ ClientOK'
  BY DEF InductiveInv, TypeOK, ServerOK, RunsOK, BridgeOK, ClientOK, Registered,
         sessionVars, clientVars
<1> QED
  BY <1>1, <1>2 DEF InductiveInv, TypeOK

\* The steps between the phases of the loop.
LEMMA LoopMovesOn ==
  ASSUME InductiveInv,
         PollEmpty \/ CheckEof \/ StartDone \/ DrainDone \/ RunsDone \/ ToolsDone \/ DrainOutbound
  PROVE  InductiveInv'
<1> USE DEF InductiveInv, TypeOK, LoopOK, Places, FramesOK, BridgeOK, VisitsActive, Active,
            sessionVars, outVars, bridgeVars, clientVars, loopVars
<1>1. CASE PollEmpty
  BY <1>1, MovingOn DEF PollEmpty
<1>2. CASE CheckEof
  BY <1>2, MovingOn DEF CheckEof
<1>3. CASE StartDone
  BY <1>3, MovingOn DEF StartDone
<1>4. CASE DrainDone
  BY <1>4, MovingOn DEF DrainDone
<1>5. CASE RunsDone
  BY <1>5, MovingOn DEF RunsDone
<1>6. CASE ToolsDone
  BY <1>6, MovingOn DEF ToolsDone
<1>7. CASE DrainOutbound
  <2>1. LoopOK'
    <3>1. didWork' \in BOOLEAN /\ leaving' \in BOOLEAN
      <4>1. leaving \in BOOLEAN
        OBVIOUS
      <4> QED
        BY <1>7, <4>1 DEF DrainOutbound
    <3> QED
      BY <1>7, <3>1 DEF DrainOutbound
  <2> QED
    BY <1>7, <2>1, MovingOn DEF DrainOutbound
<1> QED
  BY <1>1, <1>2, <1>3, <1>4, <1>5, <1>6, <1>7

\* The run of a queued message is new, or the message settles at once.
LEMMA StartRunStep ==
  ASSUME InductiveInv, NEW s \in Sessions, StartRun(s)
  PROVE  InductiveInv'
<1> DEFINE g == generation[s]
<1>1. /\ at = "start" /\ pending[s] > 0 /\ pending' = [pending EXCEPT ![s] = @ - 1]
      /\ UNCHANGED <<generation, expected, nextGen, pipe, bridgeVars, at, todo, visit, leaving,
                     clientVars>>
  BY DEF StartRun
<1>2. /\ Registered(s) /\ g \in Gens /\ pending[s] = 1 /\ ~Active(g)
      /\ status[s] = "processing" /\ pending'[s] = 0 /\ g <= nextGen
  <2>1. Registered(s) /\ g \in Gens /\ g <= nextGen
    BY <1>1, HostAssumption
    DEF HostAssumption, InductiveInv, TypeOK, ServerOK, GenerationsUnique, Gens
  <2>2. Unsettled(s) = IF status[s] = "processing" THEN 1 ELSE 0
    BY DEF InductiveInv, OneUnsettledMessage
  <2>3. pending[s] \in Nat /\ pending \in [Sessions -> Nat]
    BY DEF InductiveInv, TypeOK, ServerOK
  <2> QED
    BY <1>1, <2>1, <2>2, <2>3 DEF Unsettled
<1>3. \A t \in Sessions : generation[t] = g => t = s
  BY <1>2 DEF InductiveInv, GenerationsUnique, Gens
<1>4. GenerationsUnique' /\ BridgeOK' /\ ClientOK'
  BY <1>1 DEF InductiveInv, TypeOK, GenerationsUnique, BridgeOK, ClientOK, bridgeVars, clientVars
<1>5. VisitsActive'
  BY <1>1 DEF VisitsActive
<1>6. CASE /\ run' = [run EXCEPT ![g] = NewRun(s)] /\ didWork' = TRUE
           /\ UNCHANGED <<status, outbox>>
  <2>1. NewRun(s) \in Runs /\ NewRun(s).ph = "loop" /\ NewRun(s).session = s
    BY HostAssumption DEF HostAssumption, NewRun, FreshRun, Runs, WorkerPlaces
  <2>2. RunsOK' /\ run'[g] = NewRun(s) /\ \A h \in Gens : h # g => run'[h] = run[h]
    BY <1>2, <1>6, <2>1 DEF InductiveInv, TypeOK, RunsOK
  <2>3. ServerOK' /\ FramesOK' /\ LoopOK'
    BY <1>1, <1>2, <1>6
    DEF InductiveInv, TypeOK, ServerOK, FramesOK, LoopOK, Registered
  <2>4. RunsBound'
    BY <1>1, <1>2, <1>3, <2>1, <2>2 DEF InductiveInv, RunsBound, Active
  <2>5. OneUnsettledMessage'
    <3> SUFFICES ASSUME NEW t \in Sessions
                 PROVE  Unsettled(t)' = (IF status'[t] = "processing" THEN 1 ELSE 0)
      BY DEF OneUnsettledMessage
    <3>1. CASE t = s
      BY <1>1, <1>2, <1>6, <2>1, <2>2, <3>1 DEF Unsettled, Active
    <3>2. CASE t # s
      <4>1. pending'[t] = pending[t]
        BY <1>1, <3>2 DEF InductiveInv, TypeOK, ServerOK
      <4> QED
        BY <1>1, <1>3, <1>6, <2>2, <3>2, <4>1
        DEF InductiveInv, OneUnsettledMessage, Unsettled, Active
    <3> QED
      BY <3>1, <3>2
  <2> QED
    BY <1>4, <1>5, <2>2, <2>3, <2>4, <2>5 DEF InductiveInv, TypeOK
<1>7. CASE /\ status' = [status EXCEPT ![s] = "error"]
           /\ outbox' = FailurePair(s, g, "internal_error")
           /\ UNCHANGED <<run, didWork>>
  <2>1. ServerOK' /\ RunsOK' /\ LoopOK'
    BY <1>1, <1>2, <1>7
    DEF InductiveInv, TypeOK, ServerOK, RunsOK, LoopOK, Registered, Statuses
  <2>2. FramesOK'
    <3>1. g \in 0..MaxGen /\ "internal_error" \in Codes
      BY DEF InductiveInv, TypeOK, ServerOK, Codes
    <3> QED
      BY <1>1, <1>7, <3>1, FailurePairType DEF InductiveInv, TypeOK, FramesOK
  <2>3. RunsBound'
    BY <1>1, <1>7 DEF InductiveInv, RunsBound, Active
  <2>4. OneUnsettledMessage'
    <3> SUFFICES ASSUME NEW t \in Sessions
                 PROVE  Unsettled(t)' = (IF status'[t] = "processing" THEN 1 ELSE 0)
      BY DEF OneUnsettledMessage
    <3>1. CASE t = s
      BY <1>1, <1>2, <1>7, <3>1 DEF Unsettled, Active, InductiveInv, TypeOK, ServerOK
    <3>2. CASE t # s
      <4>1. pending'[t] = pending[t] /\ status'[t] = status[t]
        BY <1>1, <1>7, <3>2 DEF InductiveInv, TypeOK, ServerOK
      <4> QED
        BY <1>1, <1>7, <3>2, <4>1
        DEF InductiveInv, OneUnsettledMessage, Unsettled, Active
    <3> QED
      BY <3>1, <3>2
  <2> QED
    BY <1>4, <1>5, <2>1, <2>2, <2>3, <2>4 DEF InductiveInv, TypeOK
<1> QED
  BY <1>6, <1>7 DEF StartRun
\* A step that changes only run g, which stays active for the same session.
LEMMA SameRunStep ==
  ASSUME InductiveInv, NEW g \in Gens, NEW r \in Runs, run' = [run EXCEPT ![g] = r],
         r.ph # "none", Active(g), r.session = run[g].session,
         UNCHANGED <<sessionVars, todo, visit, clientVars>>,
         FramesOK', BridgeOK', LoopOK', VisitsActive'
  PROVE  InductiveInv'
<1>1. RunsOK' /\ \A h \in Gens : run'[h] = IF h = g THEN r ELSE run[h]
  BY DEF InductiveInv, TypeOK, RunsOK
<1>2. GenerationsUnique' /\ RunsBound' /\ OneUnsettledMessage'
  BY <1>1, KeepRegistrations DEF Active
<1>3. ServerOK' /\ ClientOK'
  BY DEF InductiveInv, TypeOK, ServerOK, ClientOK, Registered, sessionVars, clientVars
<1> QED
  BY <1>1, <1>2, <1>3 DEF InductiveInv, TypeOK

\* pumpAgentRuns turns to the next run.
LEMMA VisitRunStep ==
  ASSUME InductiveInv, NEW g \in Gens, VisitRun(g)
  PROVE  InductiveInv'
<1>1. Active(g) /\ run[g] \in Runs
  BY DEF VisitRun, InductiveInv, VisitsActive, TypeOK, RunsOK
<1>2. LoopOK' /\ FramesOK' /\ BridgeOK'
  BY HostAssumption
  DEF VisitRun, InductiveInv, TypeOK, LoopOK, FramesOK, BridgeOK, Places, Gens, outVars,
      bridgeVars, HostAssumption
<1>3. CASE Current(g)
  <2>1. VisitsActive'
    BY <1>1, <1>3 DEF VisitRun, InductiveInv, VisitsActive, Active
  <2> QED
    BY <1>2, <1>3, <2>1, MovingOn
    DEF VisitRun, bridgeVars, outVars, InductiveInv, TypeOK, BridgeOK
<1>4. CASE ~Current(g)
  <2> DEFINE r == [run[g] EXCEPT !.cancelled = TRUE]
  <2>1. run' = [run EXCEPT ![g] = r]
    BY <1>4 DEF VisitRun
  <2>2. r \in Runs /\ r.ph # "none" /\ r.session = run[g].session
    BY <1>1 DEF Runs, Active
  <2> HIDE DEF r
  <2>3. VisitsActive'
    BY <1>1, <2>1, <2>2 DEF VisitRun, InductiveInv, VisitsActive, Active, TypeOK, RunsOK
  <2>4. GenerationsUnique' /\ RunsBound' /\ OneUnsettledMessage' /\ RunsOK'
    BY <1>1, <2>1, <2>2, KeepRegistrations
    DEF VisitRun, Active, InductiveInv, TypeOK, RunsOK
  <2>5. ServerOK' /\ ClientOK'
    BY DEF VisitRun, InductiveInv, TypeOK, ServerOK, ClientOK, Registered, sessionVars,
           clientVars
  <2> QED
    BY <1>2, <2>3, <2>4, <2>5 DEF InductiveInv, TypeOK
<1> QED
  BY <1>3, <1>4

\* An event of the visited run is forwarded, kept back or dropped.
LEMMA ForwardEventStep == ASSUME InductiveInv, ForwardEvent PROVE InductiveInv'
<1> DEFINE e == Head(run[visit].events)
           s == run[visit].session
           r == [run[visit] EXCEPT !.events = Tail(@), !.terminal = @ \/ (Current(visit) /\ e = "end")]
<1>1. visit \in Gens /\ Active(visit) /\ run[visit] \in Runs /\ s \in Sessions
  BY DEF ForwardEvent, InductiveInv, VisitsActive, RunsBound, TypeOK, RunsOK
<1>2. run' = [run EXCEPT ![visit] = r]
  BY DEF ForwardEvent
<1>3. r \in Runs /\ r.ph # "none" /\ r.session = s
  <2>1. Tail(run[visit].events) \in Seq({"event", "end"})
    BY <1>1, SeqTake DEF ForwardEvent, Runs
  <2> QED
    BY <1>1, <2>1 DEF Runs, Active
<1>4. FramesOK'
  <2>1. RunFrame("agent_event", s, visit, "none") \in HostFrames
    BY <1>1, HostAssumption
    DEF RunFrame, Frame, HostFrames, FrameTypes, Codes, Gens, HostAssumption
  <2> QED
    BY <2>1, SeqAppend DEF ForwardEvent, InductiveInv, TypeOK, FramesOK
<1> HIDE DEF r
<1>5. BridgeOK' /\ LoopOK' /\ UNCHANGED <<sessionVars, todo, visit, clientVars>>
  BY DEF ForwardEvent, InductiveInv, TypeOK, BridgeOK, LoopOK, bridgeVars
<1>6. VisitsActive'
  BY <1>1, <1>2, <1>3 DEF ForwardEvent, InductiveInv, VisitsActive, Active, TypeOK, RunsOK
<1> QED
  BY <1>1, <1>2, <1>3, <1>4, <1>5, <1>6, SameRunStep
\* The frames that settle a run are host frames.
LEMMA SettlementType ==
  ASSUME InductiveInv, NEW g \in Gens, Active(g)
  PROVE  Settlement(g) \in Seq(HostFrames)
<1> DEFINE s == run[g].session
           result == RunFrame("agent_result", s, g, "none")
           end == RunFrame("agent_end", s, g, "none")
<1>1. s \in Sessions /\ g \in 0..MaxGen /\ outbox \in Seq(HostFrames)
  BY HostAssumption DEF InductiveInv, RunsBound, TypeOK, FramesOK, Gens, HostAssumption
<1>2. result \in HostFrames /\ end \in HostFrames
  BY <1>1 DEF RunFrame, Frame, HostFrames, FrameTypes, Codes
<1>3. "tool_execution_error" \in Codes /\ "internal_error" \in Codes
  BY DEF Codes
<1> HIDE DEF result, end
<1>4. outbox \o <<result, end>> \in Seq(HostFrames) /\ outbox \o <<result>> \in Seq(HostFrames)
  BY <1>1, <1>2, SeqConcat
<1>5. /\ FailurePair(s, g, "tool_execution_error") \in Seq(HostFrames)
      /\ FailurePair(s, g, "internal_error") \in Seq(HostFrames)
  BY <1>1, <1>3, FailurePairType
<1> QED
  BY <1>4, <1>5 DEF Settlement, result, end

\* A run that is done leaves the table and settles its message.
LEMMA SettleRunStep == ASSUME InductiveInv, SettleRun PROVE InductiveInv'
<1> PICK s \in Sessions : s = run[visit].session
  BY DEF SettleRun, InductiveInv, VisitsActive, RunsBound
<1>1. /\ at' = "runs"
      /\ UNCHANGED <<generation, expected, pending, nextGen, pipe, bridgeVars, todo, visit,
                     leaving, clientVars>>
  BY DEF SettleRun
<1>2. /\ visit \in Gens /\ Active(visit) /\ s \in Sessions /\ visit \notin todo
      /\ \A g \in todo : g \in Gens /\ Active(g)
  BY DEF SettleRun, InductiveInv, VisitsActive, RunsBound
<1>3. BridgeOK' /\ ClientOK' /\ GenerationsUnique'
  BY <1>1
  DEF InductiveInv, TypeOK, BridgeOK, ClientOK, GenerationsUnique, bridgeVars, clientVars
<1>4. CASE UNCHANGED <<status, outbox, run, didWork>>
  <2>1. FramesOK' /\ LoopOK' /\ VisitsActive'
    BY <1>1, <1>2, <1>4
    DEF InductiveInv, TypeOK, FramesOK, LoopOK, Places, VisitsActive, Active
  <2> QED
    BY <1>1, <1>4, <2>1, MovingOn DEF sessionVars, bridgeVars, clientVars, InductiveInv, TypeOK, BridgeOK
<1>5. CASE run' = [run EXCEPT ![visit] = NoRun]
  <2>1. /\ \A g \in Gens : run'[g] = IF g = visit THEN NoRun ELSE run[g]
        /\ RunsOK' /\ NoRun.ph = "none"
    BY <1>2, <1>5 DEF InductiveInv, TypeOK, RunsOK, Runs, NoRun, FreshRun, WorkerPlaces
  <2>2. \A g \in Gens : Active(g)' <=> Active(g) /\ g # visit
    BY <2>1 DEF Active
  <2>3. RunsBound' /\ VisitsActive'
    BY <1>1, <1>2, <2>1, <2>2 DEF InductiveInv, RunsBound, VisitsActive
  <2>4. \A t \in Sessions : t # s => Unsettled(t)' = Unsettled(t)
    <3>1. \A t \in Sessions : generation[t] = visit => t = s
      BY <1>2 DEF InductiveInv, RunsBound
    <3> QED
      BY <1>1, <2>2, <3>1 DEF Unsettled
  <2>5. CASE ~Current(visit) /\ UNCHANGED <<status, outbox, didWork>>
    <3>1. Unsettled(s)' = Unsettled(s)
      BY <1>1, <2>2, <2>5 DEF Unsettled, Current
    <3>2. OneUnsettledMessage'
      BY <2>4, <2>5, <3>1 DEF InductiveInv, OneUnsettledMessage
    <3>3. ServerOK' /\ FramesOK' /\ LoopOK'
      BY <1>1, <2>5 DEF InductiveInv, TypeOK, ServerOK, FramesOK, LoopOK, Places, Registered
    <3> QED
      BY <1>3, <2>1, <2>3, <3>2, <3>3 DEF InductiveInv, TypeOK
  <2>6. CASE /\ Current(visit)
             /\ outbox' = Settlement(visit)
             /\ status' = [status EXCEPT ![s] = StatusAfter(visit)]
             /\ didWork' = TRUE
    <3>1. StatusAfter(visit) \in {"ready", "error"}
      BY DEF StatusAfter
    <3>2. FramesOK' /\ LoopOK'
      BY <1>1, <1>2, <2>6, SettlementType DEF InductiveInv, TypeOK, FramesOK, LoopOK, Places
    <3>3. generation[s] = visit /\ Registered(s)
      BY <1>2, <2>6, HostAssumption
      DEF Current, InductiveInv, TypeOK, ServerOK, Gens, HostAssumption
    <3>4. ServerOK'
      BY <1>1, <1>2, <2>6, <3>1, <3>3
      DEF InductiveInv, TypeOK, ServerOK, Registered, Statuses
    <3>5. pending[s] = 0
      <4>1. Unsettled(s) = pending[s] + 1 /\ pending[s] \in Nat
        BY <1>2, <3>3 DEF Unsettled, InductiveInv, TypeOK, ServerOK
      <4>2. Unsettled(s) \in {0, 1}
        BY <1>2 DEF InductiveInv, OneUnsettledMessage
      <4> QED
        BY <4>1, <4>2
    <3>6. Unsettled(s)' = 0
      BY <1>1, <2>2, <3>3, <3>5 DEF Unsettled
    <3>7. OneUnsettledMessage'
      BY <1>2, <2>4, <2>6, <3>1, <3>6
      DEF InductiveInv, TypeOK, ServerOK, OneUnsettledMessage
    <3> QED
      BY <1>3, <2>1, <2>3, <3>2, <3>4, <3>7 DEF InductiveInv, TypeOK
  <2> QED
    BY <1>2, <1>5, <2>1, <2>2, <2>5, <2>6, <1>4 DEF SettleRun
<1> QED
  BY <1>4, <1>5 DEF SettleRun

\* A tool request is published or dropped.
LEMMA PublishToolStep ==
  ASSUME InductiveInv, NEW q \in requests, PublishTool(q)
  PROVE  InductiveInv'
<1>1. /\ at = "tools" /\ requests' = requests \ {q}
      /\ UNCHANGED <<sessionVars, pipe, disconnected, at, todo, visit, leaving, clientVars>>
  BY DEF PublishTool
<1>2. q \in [session : Sessions, gen : Gens, call : ToolCalls] /\ nextMid + 1 \in Nat
  BY DEF InductiveInv, TypeOK, BridgeOK
<1>3. VisitsActive'
  BY <1>1 DEF VisitsActive
<1>4. ServerOK' /\ ClientOK'
  BY <1>1 DEF InductiveInv, TypeOK, ServerOK, ClientOK, Registered, sessionVars, clientVars
<1>5. CASE UNCHANGED <<run, inFlight, results, nextMid, outbox, didWork>>
  <2>1. GenerationsUnique' /\ RunsBound' /\ OneUnsettledMessage'
    BY <1>1, <1>5, KeepRegistrations DEF Active
  <2>2. FramesOK' /\ RunsOK' /\ BridgeOK' /\ LoopOK'
    BY <1>1, <1>5 DEF InductiveInv, TypeOK, FramesOK, RunsOK, BridgeOK, LoopOK
  <2> QED
    BY <1>3, <1>4, <2>1, <2>2 DEF InductiveInv, TypeOK
<1>6. CASE /\ nextMid' = nextMid + 1
           /\ inFlight' = {k \in inFlight : ~SameCall(k, q)} \union
                {[session |-> q.session, gen |-> q.gen, call |-> q.call, mid |-> nextMid + 1]}
           /\ results' = {r \in results : ~SameCall(r, q)}
           /\ outbox' = Append(outbox, Frame("tool_execute", q.session, q.gen, None, "none",
                                             q.call, nextMid + 1))
           /\ run' = [run EXCEPT ![q.gen].mid = nextMid + 1]
           /\ didWork' = TRUE
  <2>1. BridgeOK'
    BY <1>1, <1>2, <1>6 DEF InductiveInv, TypeOK, BridgeOK
  <2>2. FramesOK'
    <3>1. Frame("tool_execute", q.session, q.gen, None, "none", q.call, nextMid + 1) \in HostFrames
      BY <1>2, HostAssumption
      DEF Frame, HostFrames, FrameTypes, Codes, Gens, HostAssumption
    <3> QED
      BY <1>1, <1>6, <3>1, SeqAppend DEF InductiveInv, TypeOK, FramesOK
  <2>3. LoopOK'
    BY <1>1, <1>6 DEF InductiveInv, TypeOK, LoopOK
  <2>4. /\ RunsOK'
        /\ \A g \in Gens : run'[g].ph = run[g].ph /\ run'[g].session = run[g].session
    <3>1. ASSUME NEW g \in Gens
          PROVE  /\ run'[g] \in Runs
                 /\ run'[g].ph = run[g].ph /\ run'[g].session = run[g].session
      <4> DEFINE m == nextMid + 1
      <4>1. m \in Nat /\ run[g] \in Runs
        BY <1>2 DEF InductiveInv, TypeOK, RunsOK
      <4>2. run'[g] = IF g = q.gen THEN [run[g] EXCEPT !.mid = m] ELSE run[g]
        BY <1>2, <1>6 DEF InductiveInv, TypeOK, RunsOK
      <4> HIDE DEF m
      <4> QED
        BY <4>1, <4>2 DEF Runs
    <3> QED
      BY <1>6, <3>1 DEF InductiveInv, TypeOK, RunsOK
  <2>5. GenerationsUnique' /\ RunsBound' /\ OneUnsettledMessage'
    BY <1>1, <2>4, KeepRegistrations DEF Active
  <2> QED
    BY <1>3, <1>4, <2>1, <2>2, <2>3, <2>4, <2>5 DEF InductiveInv, TypeOK
<1> QED
  BY <1>5, <1>6 DEF PublishTool

\* Idle sessions are evicted.
LEMMA FlushAndSweepStep ==
  ASSUME InductiveInv, NEW E \in SUBSET Sessions, FlushAndSweep(E)
  PROVE  InductiveInv'
<1>1. /\ at' = "drainout" /\ pipe' = pipe \o outbox /\ outbox' = <<>>
      /\ didWork' = (didWork \/ outbox # <<>>) /\ Remove(E) /\ Discard(E)
      /\ UNCHANGED <<run, disconnected, nextMid, todo, visit, leaving, clientVars>>
  BY DEF FlushAndSweep
<1>2. ServerOK' /\ GenerationsUnique' /\ RunsBound' /\ OneUnsettledMessage'
  BY <1>1, RemoveKeeps DEF Active
<1>3. FramesOK'
  BY <1>1, SeqConcat DEF InductiveInv, TypeOK, FramesOK
<1>4. BridgeOK' /\ RunsOK' /\ ClientOK' /\ LoopOK'
  BY <1>1, DiscardKeeps
  DEF InductiveInv, TypeOK, BridgeOK, RunsOK, ClientOK, LoopOK, Places, clientVars
<1>5. VisitsActive'
  BY <1>1 DEF VisitsActive
<1> QED
  BY <1>2, <1>3, <1>4, <1>5 DEF InductiveInv, TypeOK
-----------------------------------------------------------------------------
\* A step of the worker of run g, which leaves the run active.
LEMMA WorkerKeeps ==
  ASSUME InductiveInv, NEW g \in Gens, NEW r \in Runs, run' = [run EXCEPT ![g] = r],
         r.ph # "none", Active(g), r.session = run[g].session, WorkerFrame(g), BridgeOK'
  PROVE  InductiveInv'
<1>1. FramesOK' /\ LoopOK'
  BY DEF WorkerFrame, outVars, loopVars, InductiveInv, TypeOK, FramesOK, LoopOK
<1>2. VisitsActive'
  BY DEF WorkerFrame, loopVars, InductiveInv, TypeOK, RunsOK, VisitsActive, Active
<1> QED
  BY <1>1, <1>2, SameRunStep DEF WorkerFrame, loopVars

\* Any step of a worker thread.
LEMMA WorkerStep ==
  ASSUME InductiveInv, NEW g \in Gens, Worker(g)
  PROVE  InductiveInv'
<1>1. run[g] \in Runs
  BY DEF InductiveInv, TypeOK, RunsOK
<1>2. ASSUME Active(g) PROVE run[g].session \in Sessions
  BY <1>2 DEF InductiveInv, RunsBound
<1>3. ASSUME UNCHANGED <<requests, inFlight, results, disconnected, nextMid>> PROVE BridgeOK'
  BY <1>3 DEF InductiveInv, TypeOK, BridgeOK
<1>4. ASSUME NEW e \in {"event", "end"}
      PROVE  Append(run[g].events, e) \in Seq({"event", "end"})
  BY <1>1, SeqAppend DEF Runs
<1>5. CASE EmitEvent(g)
  <2> DEFINE r == [run[g] EXCEPT !.ph = "loop", !.events = Append(@, "event"), !.work = @ - 1]
  <2>1. run' = [run EXCEPT ![g] = r] /\ WorkerFrame(g) /\ Active(g)
    BY <1>5 DEF EmitEvent, CanPush, Active
  <2>2. r \in Runs /\ r.ph # "none" /\ r.session = run[g].session
    <3>1. run[g].work - 1 \in Nat
      BY <1>1, <1>5 DEF EmitEvent, Runs
    <3> QED
      BY <1>1, <1>4, <3>1 DEF Runs, WorkerPlaces
  <2> HIDE DEF r
  <2> QED
    BY <1>3, <1>5, <2>1, <2>2, WorkerKeeps DEF EmitEvent, WorkerFrame
<1>6. CASE \E c \in ToolCalls : CallTool(g, c)
  <2>1. PICK c \in ToolCalls : CallTool(g, c)
    BY <1>6
  <2> DEFINE r == [run[g] EXCEPT !.ph = "tool", !.call = c, !.mid = 0, !.work = @ - 1]
  <2>2. run' = [run EXCEPT ![g] = r] /\ WorkerFrame(g) /\ Active(g)
    BY <2>1 DEF CallTool, Active
  <2>3. r \in Runs /\ r.ph # "none" /\ r.session = run[g].session
    <3>1. run[g].work - 1 \in Nat
      BY <1>1, <2>1 DEF CallTool, Runs
    <3> QED
      BY <1>1, <3>1 DEF Runs, WorkerPlaces
  <2>4. BridgeOK'
    BY <1>2, <2>1, <2>2 DEF CallTool, WorkerFrame, InductiveInv, TypeOK, BridgeOK
  <2> HIDE DEF r
  <2> QED
    BY <2>2, <2>3, <2>4, WorkerKeeps
<1>7. CASE TakeResult(g)
  <2> DEFINE r == [run[g] EXCEPT !.ph = "loop"]
  <2>1. run' = [run EXCEPT ![g] = r] /\ WorkerFrame(g) /\ Active(g)
    BY <1>7 DEF TakeResult, Active
  <2>2. r \in Runs /\ r.ph # "none" /\ r.session = run[g].session
    BY <1>1 DEF Runs, WorkerPlaces
  <2>3. BridgeOK'
    BY <1>7, <2>1 DEF TakeResult, WorkerFrame, InductiveInv, TypeOK, BridgeOK
  <2> HIDE DEF r
  <2> QED
    BY <2>1, <2>2, <2>3, WorkerKeeps
<1>8. CASE ToolCancelled(g)
  <2> DEFINE r == [run[g] EXCEPT !.ph = "loop"]
  <2>1. run' = [run EXCEPT ![g] = r] /\ WorkerFrame(g) /\ Active(g)
    BY <1>8 DEF ToolCancelled, Active
  <2>2. r \in Runs /\ r.ph # "none" /\ r.session = run[g].session
    BY <1>1 DEF Runs, WorkerPlaces
  <2> HIDE DEF r
  <2> QED
    BY <1>3, <1>8, <2>1, <2>2, WorkerKeeps DEF ToolCancelled, WorkerFrame
<1>9. CASE MissResult(g)
  <2> DEFINE r == [run[g] EXCEPT !.ph = "missed"]
  <2>1. run' = [run EXCEPT ![g] = r] /\ WorkerFrame(g) /\ Active(g)
    BY <1>9 DEF MissResult, Active
  <2>2. r \in Runs /\ r.ph # "none" /\ r.session = run[g].session
    BY <1>1 DEF Runs, WorkerPlaces
  <2> HIDE DEF r
  <2> QED
    BY <1>3, <1>9, <2>1, <2>2, WorkerKeeps DEF MissResult, WorkerFrame
<1>10. CASE CheckLatch(g)
  <2>1. PICK r \in {[run[g] EXCEPT !.ph = "tool"],
                    [run[g] EXCEPT !.ph = "loop", !.cancelled = TRUE, !.disconnectFailed = TRUE]} :
             run' = [run EXCEPT ![g] = r]
    BY <1>10 DEF CheckLatch
  <2>2. r \in Runs /\ r.ph # "none" /\ r.session = run[g].session
    BY <1>1, <2>1 DEF Runs, WorkerPlaces
  <2>3. WorkerFrame(g) /\ Active(g)
    BY <1>10 DEF CheckLatch, Active
  <2> QED
    BY <1>3, <1>10, <2>1, <2>2, <2>3, WorkerKeeps DEF CheckLatch, WorkerFrame
<1>11. CASE EmitEnd(g)
  <2> DEFINE r == [run[g] EXCEPT !.ph = "ending", !.events = Append(@, "end")]
  <2>1. run' = [run EXCEPT ![g] = r] /\ WorkerFrame(g) /\ Active(g)
    BY <1>11 DEF EmitEnd, CanPush, Active
  <2>2. r \in Runs /\ r.ph # "none" /\ r.session = run[g].session
    BY <1>1, <1>4 DEF Runs, WorkerPlaces
  <2> HIDE DEF r
  <2> QED
    BY <1>3, <1>11, <2>1, <2>2, WorkerKeeps DEF EmitEnd, WorkerFrame
<1>12. CASE Complete(g)
  <2>1. PICK r \in {[run[g] EXCEPT !.ph = "done", !.outcome = "result"],
                    [run[g] EXCEPT !.ph = "done", !.outcome = "error"]} :
             run' = [run EXCEPT ![g] = r]
    BY <1>12 DEF Complete
  <2>2. r \in Runs /\ r.ph # "none" /\ r.session = run[g].session
    BY <1>1, <2>1 DEF Runs, WorkerPlaces
  <2>3. WorkerFrame(g) /\ Active(g)
    BY <1>12 DEF Complete, Active
  <2> QED
    BY <1>3, <1>12, <2>1, <2>2, <2>3, WorkerKeeps DEF Complete, WorkerFrame
<1>13. CASE PushBlocks(g)
  <2> DEFINE r == [run[g] EXCEPT !.ph = "blocked"]
  <2>1. run' = [run EXCEPT ![g] = r] /\ WorkerFrame(g) /\ Active(g)
    BY <1>13 DEF PushBlocks, Active
  <2>2. r \in Runs /\ r.ph # "none" /\ r.session = run[g].session
    BY <1>1 DEF Runs, WorkerPlaces
  <2> HIDE DEF r
  <2> QED
    BY <1>3, <1>13, <2>1, <2>2, WorkerKeeps DEF PushBlocks, WorkerFrame
<1> QED
  BY <1>5, <1>6, <1>7, <1>8, <1>9, <1>10, <1>11, <1>12, <1>13 DEF Worker

\* A step of the client touches its own end of stdin only.
LEMMA ClientStep ==
  ASSUME InductiveInv, ClientOK', UNCHANGED <<sessionVars, outVars, run, bridgeVars, loopVars>>
  PROVE  InductiveInv'
<1>1. GenerationsUnique' /\ RunsBound' /\ OneUnsettledMessage'
  BY KeepRegistrations DEF Active
<1> QED
  BY <1>1
  DEF InductiveInv, TypeOK, ServerOK, FramesOK, RunsOK, BridgeOK, LoopOK, VisitsActive, Active,
      Registered, sessionVars, outVars, bridgeVars, loopVars

\* What the client writes is a request or a tool result.
LEMMA ClientLine ==
  ASSUME InductiveInv, ClientSend \/ ClientAnswer \/ CloseStdin
  PROVE  ClientOK' /\ UNCHANGED <<sessionVars, outVars, run, bridgeVars, loopVars>>
<1> USE DEF InductiveInv, TypeOK, ClientOK
<1>1. ASSUME NEW f \in Requests \union ToolResults, Write(f), sent' \in Nat
      PROVE  ClientOK' /\ UNCHANGED <<sessionVars, outVars, run, bridgeVars, loopVars>>
  BY <1>1, SeqAppend DEF Write
<1>2. ASSUME NEW s \in Sessions, NEW c \in ToolCalls, NEW m \in Nat
      PROVE  ToolResult(s, c, m) \in ToolResults
  BY DEF ToolResult, ToolResults
<1>3. CASE ClientSend
  <2>1. sent' \in Nat /\ \E f \in Requests \union ToolResults : Write(f)
    BY <1>2, <1>3 DEF ClientSend, BridgeOK
  <2> QED
    BY <1>1, <2>1
<1>4. CASE ClientAnswer
  <2>1. sent' \in Nat /\ \E f \in Requests \union ToolResults : Write(f)
    BY <1>2, <1>4 DEF ClientAnswer, BridgeOK
  <2> QED
    BY <1>1, <2>1
<1>5. CASE CloseStdin
  BY <1>5 DEF CloseStdin
<1> QED
  BY <1>3, <1>4, <1>5

-----------------------------------------------------------------------------
(***************************************************************************)
(* Every step of the host, of a worker or of the client keeps the          *)
(* inductive invariant.                                                    *)
(***************************************************************************)
THEOREM NextInductive == InductiveInv /\ [Next]_vars => InductiveInv'
<1> SUFFICES ASSUME InductiveInv, [Next]_vars PROVE InductiveInv'
  OBVIOUS
<1>1. CASE Loop
  BY <1>1, DispatchStep, LoopMovesOn, StartRunStep, VisitRunStep, ForwardEventStep,
     SettleRunStep, PublishToolStep, FlushAndSweepStep DEF Loop
<1>2. CASE \E g \in Gens : Worker(g)
  BY <1>2, WorkerStep
<1>3. CASE ClientSend \/ ClientAnswer \/ CloseStdin
  BY <1>3, ClientStep, ClientLine
<1>4. CASE UNCHANGED vars
  <2>1. ClientOK'
    BY <1>4 DEF vars, clientVars, InductiveInv, TypeOK, ClientOK
  <2> QED
    BY <1>4, <2>1, ClientStep DEF vars
<1> QED
  BY <1>1, <1>2, <1>3, <1>4 DEF Next

(***************************************************************************)
(* In every reachable state the invariant holds, and with it the types and *)
(* the agreement of the server's maps.                                     *)
(***************************************************************************)
THEOREM HostInvariant == Spec => []InductiveInv
  BY InitInductive, NextInductive, PTL DEF Spec

\* TypeOK, the types of the host's state.
THEOREM HostTypeCorrect == Spec => []TypeOK
<1>1. InductiveInv => TypeOK
  BY DEF InductiveInv
<1> QED
  BY <1>1, HostInvariant, PTL

(***************************************************************************)
(* A session is processing exactly while one accepted message of it is     *)
(* unsettled, whatever the number of sessions, registrations and runs.     *)
(***************************************************************************)
THEOREM MessagesSettleOnce == Spec => []OneUnsettledMessage
<1>1. InductiveInv => OneUnsettledMessage
  BY DEF InductiveInv
<1> QED
  BY <1>1, HostInvariant, PTL
-----------------------------------------------------------------------------
(***************************************************************************)
(* OutputOfCurrentRegistration.  The loop empties the outbox before it     *)
(* reads the next request, so no request finds a frame of the registration *)
(* it removes still queued.                                                *)
(***************************************************************************)
OutputInv ==
  /\ OutputOfCurrentRegistration
  /\ at \in {"poll", "eof", "drainout", "exited"} => outbox = <<>>

\* A frame for a current registration appended to current output.
LEMMA AppendCurrent ==
  ASSUME InductiveInv, OutputOfCurrentRegistration, NEW e, generation[e.session] = e.gen,
         outbox' = Append(outbox, e), generation' = generation
  PROVE  OutputOfCurrentRegistration'
<1> SUFFICES ASSUME NEW i \in 1..Len(outbox')
             PROVE  generation[outbox'[i].session] = outbox'[i].gen
  BY DEF OutputOfCurrentRegistration
<1>1. outbox \in Seq(HostFrames)
  BY DEF InductiveInv, TypeOK, FramesOK
<1>2. CASE i \in 1..Len(outbox)
  <2>1. outbox'[i] = outbox[i]
    BY <1>1, <1>2
  <2> QED
    BY <1>2, <2>1 DEF OutputOfCurrentRegistration
<1>3. CASE i = Len(outbox) + 1
  BY <1>1, <1>3
<1> QED
  BY <1>1, <1>2, <1>3

\* Current output followed by current output.
LEMMA ConcatCurrent ==
  ASSUME InductiveInv, OutputOfCurrentRegistration, NEW q \in Seq(HostFrames),
         \A i \in 1..Len(q) : generation[q[i].session] = q[i].gen,
         outbox' = outbox \o q, generation' = generation
  PROVE  OutputOfCurrentRegistration'
<1> SUFFICES ASSUME NEW i \in 1..Len(outbox')
             PROVE  generation[outbox'[i].session] = outbox'[i].gen
  BY DEF OutputOfCurrentRegistration
<1>1. outbox \in Seq(HostFrames)
  BY DEF InductiveInv, TypeOK, FramesOK
<1>2. CASE i \in 1..Len(outbox)
  <2>1. outbox'[i] = outbox[i]
    BY <1>1, <1>2
  <2> QED
    BY <1>2, <2>1 DEF OutputOfCurrentRegistration
<1>3. CASE i \notin 1..Len(outbox)
  <2>1. i - Len(outbox) \in 1..Len(q) /\ outbox'[i] = q[i - Len(outbox)]
    BY <1>1, <1>3
  <2> QED
    BY <2>1
<1> QED
  BY <1>2, <1>3

\* The frames published for the registration that holds s are current.
LEMMA PairCurrent ==
  ASSUME InductiveInv, OutputOfCurrentRegistration, NEW s \in Sessions, NEW code \in Codes,
         outbox' = FailurePair(s, generation[s], code), generation' = generation
  PROVE  OutputOfCurrentRegistration'
<1> DEFINE g == generation[s]
           a == RunFrame("agent_event", s, g, code)
           b == RunFrame("agent_error", s, g, code)
<1>1. g \in 0..MaxGen
  BY DEF InductiveInv, TypeOK, ServerOK
<1>2. /\ a \in HostFrames /\ a.session = s /\ a.gen = g
      /\ b \in HostFrames /\ b.session = s /\ b.gen = g
  BY <1>1 DEF RunFrame, Frame, HostFrames, FrameTypes
<1> HIDE DEF a, b
<1>3. outbox' = outbox \o <<a, b>>
  BY DEF FailurePair, a, b
<1>4. \A i \in 1..Len(<<a, b>>) : generation[<<a, b>>[i].session] = <<a, b>>[i].gen
  BY <1>2
<1>5. <<a, b>> \in Seq(HostFrames)
  BY <1>2
<1> DEFINE q == <<a, b>>
<1> HIDE DEF q
<1> QED
  BY <1>3, <1>4, <1>5, ConcatCurrent DEF q

\* The settlement of a current run is current output.
LEMMA SettlementCurrent ==
  ASSUME InductiveInv, OutputOfCurrentRegistration, NEW g \in Gens, Active(g), Current(g),
         outbox' = Settlement(g), generation' = generation
  PROVE  OutputOfCurrentRegistration'
<1> DEFINE s == run[g].session
           result == RunFrame("agent_result", s, g, "none")
           end == RunFrame("agent_end", s, g, "none")
<1>1. s \in Sessions /\ g \in 0..MaxGen /\ generation[s] = g
  BY HostAssumption DEF InductiveInv, RunsBound, Gens, HostAssumption, Current
<1>2. /\ result \in HostFrames /\ result.session = s /\ result.gen = g
      /\ end \in HostFrames /\ end.session = s /\ end.gen = g
  BY <1>1 DEF RunFrame, Frame, HostFrames, FrameTypes, Codes
<1>3. "tool_execution_error" \in Codes /\ "internal_error" \in Codes
  BY DEF Codes
<1> HIDE DEF result, end
<1>4. CASE \E code \in Codes : outbox' = FailurePair(s, g, code)
  BY <1>1, <1>4, PairCurrent
<1>5. CASE outbox' = outbox \o <<result, end>>
  <2> DEFINE q == <<result, end>>
  <2>1. q \in Seq(HostFrames) /\ \A i \in 1..Len(q) : generation[q[i].session] = q[i].gen
    BY <1>1, <1>2
  <2>2. outbox' = outbox \o q
    BY <1>5
  <2> HIDE DEF q
  <2> QED
    BY <2>1, <2>2, ConcatCurrent
<1>6. CASE outbox' = outbox \o <<result>>
  <2> DEFINE q == <<result>>
  <2>1. q \in Seq(HostFrames) /\ \A i \in 1..Len(q) : generation[q[i].session] = q[i].gen
    BY <1>1, <1>2
  <2>2. outbox' = outbox \o q
    BY <1>6
  <2> HIDE DEF q
  <2> QED
    BY <2>1, <2>2, ConcatCurrent
<1> QED
  BY <1>3, <1>4, <1>5, <1>6 DEF Settlement, result, end

\* No step leaves output of a lost registration in the outbox.
LEMMA OutputStep == ASSUME InductiveInv, OutputInv, [Next]_vars PROVE OutputInv'
<1> USE DEF OutputInv
<1>1. CASE UNCHANGED <<generation, outbox>> /\
           (at' = at \/ at' \notin {"poll", "eof", "drainout", "exited"}
              \/ at \in {"poll", "eof", "drainout", "exited"})
  BY <1>1 DEF OutputOfCurrentRegistration
<1>2. CASE Dispatch
  <2>1. at' = "poll" /\ outbox' = <<>>
    BY <1>2 DEF Dispatch, HandleStart, HandleMessage, HandleStop, HandleQuery, HandleToolResult,
                Take
  <2> QED
    BY <2>1 DEF OutputOfCurrentRegistration
<1>3. CASE \E s \in Sessions : StartRun(s)
  <2>1. PICK s \in Sessions : StartRun(s)
    BY <1>3
  <2>2. at' = "start" /\ generation' = generation
    BY <2>1 DEF StartRun
  <2>3. CASE UNCHANGED outbox
    BY <2>2, <2>3 DEF OutputOfCurrentRegistration
  <2>4. CASE outbox' = FailurePair(s, generation[s], "internal_error")
    BY <2>2, <2>4, PairCurrent DEF Codes
  <2> QED
    BY <2>1, <2>3, <2>4 DEF StartRun
<1>4. CASE ForwardEvent
  <2> DEFINE e == RunFrame("agent_event", run[visit].session, visit, "none")
  <2>1. at' = "drain" /\ generation' = generation
    BY <1>4 DEF ForwardEvent, sessionVars
  <2>2. CASE UNCHANGED outbox
    BY <2>1, <2>2 DEF OutputOfCurrentRegistration
  <2>3. CASE Current(visit) /\ outbox' = Append(outbox, e)
    <3>1. generation[e.session] = e.gen
      BY <2>3 DEF Current, RunFrame, Frame
    <3> QED
      BY <2>1, <2>3, <3>1, AppendCurrent
  <2> QED
    BY <1>4, <2>2, <2>3 DEF ForwardEvent
<1>5. CASE SettleRun
  <2>1. at' = "runs" /\ generation' = generation /\ visit \in Gens /\ Active(visit)
    BY <1>5 DEF SettleRun, InductiveInv, VisitsActive
  <2>2. CASE UNCHANGED outbox
    BY <2>1, <2>2 DEF OutputOfCurrentRegistration
  <2>3. CASE Current(visit) /\ outbox' = Settlement(visit)
    BY <2>1, <2>3, SettlementCurrent
  <2> QED
    BY <1>5, <2>2, <2>3 DEF SettleRun
<1>6. CASE \E q \in requests : PublishTool(q)
  <2>1. PICK q \in requests : PublishTool(q)
    BY <1>6
  <2> DEFINE e == Frame("tool_execute", q.session, q.gen, None, "none", q.call, nextMid + 1)
  <2>2. at' = "tools" /\ generation' = generation
    BY <2>1 DEF PublishTool, sessionVars
  <2>3. CASE UNCHANGED outbox
    BY <2>2, <2>3 DEF OutputOfCurrentRegistration
  <2>4. CASE generation[q.session] = q.gen /\ outbox' = Append(outbox, e)
    <3>1. generation[e.session] = e.gen
      BY <2>4 DEF Frame
    <3> QED
      BY <2>2, <2>4, <3>1, AppendCurrent
  <2> QED
    BY <2>1, <2>3, <2>4 DEF PublishTool
<1>7. CASE \E E \in SUBSET Sessions : FlushAndSweep(E)
  BY <1>7 DEF FlushAndSweep, OutputOfCurrentRegistration
<1>8. CASE \/ PollEmpty \/ CheckEof \/ StartDone \/ (\E g \in Gens : VisitRun(g)) \/ DrainDone
           \/ RunsDone \/ ToolsDone \/ DrainOutbound
  BY <1>1, <1>8
  DEF PollEmpty, CheckEof, StartDone, VisitRun, DrainDone, RunsDone, ToolsDone, DrainOutbound,
      sessionVars, outVars
<1>9. CASE \E g \in Gens : Worker(g)
  BY <1>1, <1>9
  DEF Worker, PushBlocks, EmitEvent, CallTool, TakeResult, ToolCancelled, MissResult, CheckLatch, EmitEnd,
      Complete, WorkerFrame, sessionVars, outVars, loopVars
<1>10. CASE ClientSend \/ ClientAnswer \/ CloseStdin \/ UNCHANGED vars
  BY <1>1, <1>10, ClientLine DEF vars, sessionVars, outVars, loopVars
<1> QED
  BY <1>2, <1>3, <1>4, <1>5, <1>6, <1>7, <1>8, <1>9, <1>10 DEF Next, Loop

\* What is queued is current, and nothing is when the loop reads requests.
THEOREM OutputInvariant == Spec => []OutputInv
<1>1. Init => OutputInv
  BY DEF Init, OutputInv, OutputOfCurrentRegistration
<1>2. InductiveInv /\ OutputInv /\ [Next]_vars => OutputInv'
  BY OutputStep
<1> QED
  BY <1>1, <1>2, HostInvariant, PTL DEF Spec

(***************************************************************************)
(* No frame queued for the client was published for a registration that is *)
(* gone, however often ids are stopped, evicted and registered again.      *)
(***************************************************************************)
THEOREM OutputIsCurrent == Spec => []OutputOfCurrentRegistration
<1>1. OutputInv => OutputOfCurrentRegistration
  BY DEF OutputInv
<1> QED
  BY <1>1, OutputInvariant, PTL
-----------------------------------------------------------------------------
(***************************************************************************)
(* BridgeOfCurrentRegistration: what the bridge holds is discarded with    *)
(* the registration it belongs to, and a result with the key it answers.   *)
(***************************************************************************)
LEMMA BridgeUnchanged ==
  ASSUME BridgeOfCurrentRegistration, UNCHANGED <<generation, inFlight, results>>
  PROVE  BridgeOfCurrentRegistration'
  BY DEF BridgeOfCurrentRegistration

\* Removing sessions together with their part of the bridge.
LEMMA BridgeDiscard ==
  ASSUME InductiveInv, BridgeOfCurrentRegistration, NEW S \in SUBSET Sessions,
         Remove(S), Discard(S)
  PROVE  BridgeOfCurrentRegistration'
<1>1. ASSUME NEW k \in inFlight'
      PROVE  generation'[k.session] = k.gen
  <2>1. k \in inFlight /\ k.session \in Sessions \ S
    BY DEF Discard, InductiveInv, TypeOK, BridgeOK
  <2> QED
    BY <2>1 DEF Remove, BridgeOfCurrentRegistration
<1>2. ASSUME NEW r \in results'
      PROVE  \E k \in inFlight' : SameCall(k, r) /\ k.mid = r.re
  <2>1. r \in results /\ r.session \notin S
    BY DEF Discard
  <2>2. PICK k \in inFlight : SameCall(k, r) /\ k.mid = r.re
    BY <2>1 DEF BridgeOfCurrentRegistration
  <2> QED
    BY <2>1, <2>2 DEF Discard, SameCall
<1> QED
  BY <1>1, <1>2 DEF BridgeOfCurrentRegistration

\* A new registration finds nothing of its id in the bridge.
LEMMA BridgeStart ==
  ASSUME InductiveInv, BridgeOfCurrentRegistration, NEW f \in Requests, HandleStart(f)
  PROVE  BridgeOfCurrentRegistration'
<1>1. CASE UNCHANGED generation
  BY <1>1, BridgeUnchanged DEF HandleStart, Reject
<1>2. CASE ~Registered(f.session) /\ generation' = [generation EXCEPT ![f.session] = nextGen + 1]
  <2>1. UNCHANGED <<inFlight, results>>
    BY DEF HandleStart, Reject
  <2>2. ASSUME NEW k \in inFlight PROVE generation'[k.session] = k.gen
    <3>1. k.session \in Sessions /\ k.gen # 0 /\ generation[k.session] = k.gen
      BY DEF InductiveInv, TypeOK, BridgeOK, Gens, BridgeOfCurrentRegistration
    <3>2. generation[f.session] = 0 /\ f.session \in Sessions
      BY <1>2 DEF InductiveInv, TypeOK, ServerOK, Requests
    <3> QED
      BY <1>2, <3>1, <3>2 DEF InductiveInv, TypeOK, ServerOK
  <2> QED
    BY <2>1, <2>2 DEF BridgeOfCurrentRegistration
<1> QED
  BY <1>1, <1>2 DEF HandleStart, Reject, sessionVars

\* A result is kept only for a key in flight.
LEMMA BridgeToolResult ==
  ASSUME InductiveInv, BridgeOfCurrentRegistration, NEW f \in ToolResults, HandleToolResult(f)
  PROVE  BridgeOfCurrentRegistration'
<1>1. UNCHANGED <<generation, inFlight>>
  BY DEF HandleToolResult, sessionVars
<1>2. CASE ~Correlates(f)
  BY <1>1, <1>2, BridgeUnchanged DEF HandleToolResult
<1>3. CASE Correlates(f)
  <2> DEFINE new == [session |-> f.session, call |-> f.call, re |-> f.re]
  <2>1. results' = results \union {new}
    BY <1>3 DEF HandleToolResult
  <2>2. \E k \in inFlight : SameCall(k, new) /\ k.mid = new.re
    BY <1>3 DEF Correlates, SameCall
  <2> QED
    BY <1>1, <2>1, <2>2 DEF BridgeOfCurrentRegistration
<1> QED
  BY <1>2, <1>3

\* A published request is keyed by its own registration.
LEMMA BridgePublish ==
  ASSUME InductiveInv, BridgeOfCurrentRegistration, NEW q \in requests, PublishTool(q)
  PROVE  BridgeOfCurrentRegistration'
<1>1. UNCHANGED generation
  BY DEF PublishTool, sessionVars
<1>2. CASE UNCHANGED <<inFlight, results>>
  BY <1>1, <1>2, BridgeUnchanged
<1>3. CASE /\ generation[q.session] = q.gen
           /\ inFlight' = {k \in inFlight : ~SameCall(k, q)} \union
                {[session |-> q.session, gen |-> q.gen, call |-> q.call, mid |-> nextMid + 1]}
           /\ results' = {r \in results : ~SameCall(r, q)}
  <2>1. ASSUME NEW r \in results'
        PROVE  \E k \in inFlight' : SameCall(k, r) /\ k.mid = r.re
    <3>1. PICK k \in inFlight : SameCall(k, r) /\ k.mid = r.re
      BY <1>3 DEF BridgeOfCurrentRegistration
    <3>2. ~SameCall(k, q)
      BY <1>3, <3>1 DEF SameCall
    <3> QED
      BY <1>3, <3>1, <3>2
  <2>2. ASSUME NEW k \in inFlight' PROVE generation'[k.session] = k.gen
    BY <1>1, <1>3 DEF BridgeOfCurrentRegistration
  <2> QED
    BY <2>1, <2>2 DEF BridgeOfCurrentRegistration
<1> QED
  BY <1>2, <1>3 DEF PublishTool

\* popResult takes key and result together.
LEMMA BridgeTake ==
  ASSUME InductiveInv, BridgeOfCurrentRegistration, NEW g \in Gens, TakeResult(g)
  PROVE  BridgeOfCurrentRegistration'
<1>1. UNCHANGED generation
  BY DEF TakeResult, WorkerFrame, sessionVars
<1>2. PICK k \in inFlight, r \in results :
         Takeable(g, k, r) /\ inFlight' = inFlight \ {k} /\ results' = results \ {r}
  BY DEF TakeResult
<1>3. ASSUME NEW x \in results'
      PROVE  \E j \in inFlight' : SameCall(j, x) /\ j.mid = x.re
  <2>1. PICK j \in inFlight : SameCall(j, x) /\ j.mid = x.re
    BY <1>2 DEF BridgeOfCurrentRegistration
  <2>2. j # k
    <3>1. SUFFICES ASSUME j = k PROVE FALSE
      OBVIOUS
    <3>2. x.session = r.session /\ x.call = r.call /\ x.re = r.re
      BY <1>2, <2>1, <3>1 DEF Takeable, SameCall
    <3>3. /\ x \in [session : Sessions, call : ToolCalls, re : Nat]
          /\ r \in [session : Sessions, call : ToolCalls, re : Nat]
      BY <1>2 DEF InductiveInv, TypeOK, BridgeOK
    <3> QED
      BY <1>2, <3>2, <3>3
  <2> QED
    BY <1>2, <2>1, <2>2
<1>4. ASSUME NEW j \in inFlight' PROVE generation'[j.session] = j.gen
  BY <1>1, <1>2 DEF BridgeOfCurrentRegistration
<1> QED
  BY <1>3, <1>4 DEF BridgeOfCurrentRegistration

\* No step leaves the bridge with a key of a lost registration.
LEMMA BridgeStep ==
  ASSUME InductiveInv, BridgeOfCurrentRegistration, [Next]_vars
  PROVE  BridgeOfCurrentRegistration'
<1>1. CASE UNCHANGED <<generation, inFlight, results>>
  BY <1>1, BridgeUnchanged
<1>2. CASE Dispatch
  <2> DEFINE f == Head(stdin)
  <2>1. f \in Requests \union ToolResults
    BY <1>2, SeqTake DEF Dispatch, InductiveInv, TypeOK, ClientOK
  <2>2. CASE f \in Requests
    <3>1. CASE HandleStart(f)
      BY <2>2, <3>1, BridgeStart
    <3>2. CASE HandleMessage(f)
      BY <1>1, <3>2 DEF HandleMessage, Reject, sessionVars
    <3>3. CASE HandleStop(f)
      <4>1. CASE Remove({f.session}) /\ Discard({f.session})
        BY <2>2, <4>1, BridgeDiscard DEF Requests
      <4> QED
        BY <1>1, <3>3, <4>1 DEF HandleStop, Reject, sessionVars
    <3>4. CASE HandleQuery(f)
      BY <1>1, <3>4 DEF HandleQuery, sessionVars
    <3> QED
      BY <1>2, <2>2, <3>1, <3>2, <3>3, <3>4
      DEF Dispatch, HandleToolResult, Requests, Commands, Queries
  <2>3. CASE f \in ToolResults
    <3>1. HandleToolResult(f)
      BY <1>2, <2>3
      DEF Dispatch, ToolResults, HandleStart, HandleMessage, HandleStop, HandleQuery, Queries
    <3> QED
      BY <2>3, <3>1, BridgeToolResult
  <2> QED
    BY <2>1, <2>2, <2>3
<1>3. CASE \E q \in requests : PublishTool(q)
  BY <1>3, BridgePublish
<1>4. CASE \E E \in SUBSET Sessions : FlushAndSweep(E)
  BY <1>4, BridgeDiscard DEF FlushAndSweep
<1>5. CASE \/ PollEmpty \/ CheckEof \/ (\E s \in Sessions : StartRun(s)) \/ StartDone
           \/ (\E g \in Gens : VisitRun(g)) \/ ForwardEvent \/ DrainDone \/ SettleRun
           \/ RunsDone \/ ToolsDone \/ DrainOutbound
  BY <1>1, <1>5
  DEF PollEmpty, CheckEof, StartRun, StartDone, VisitRun, ForwardEvent, DrainDone, SettleRun,
      RunsDone, ToolsDone, DrainOutbound, sessionVars, bridgeVars
<1>6. CASE \E g \in Gens : Worker(g)
  <2>1. PICK g \in Gens : Worker(g)
    BY <1>6
  <2>2. CASE TakeResult(g)
    BY <2>2, BridgeTake
  <2> QED
    BY <1>1, <2>1, <2>2
    DEF Worker, PushBlocks, EmitEvent, CallTool, ToolCancelled, MissResult, CheckLatch, EmitEnd, Complete,
        WorkerFrame, sessionVars
<1>7. CASE ClientSend \/ ClientAnswer \/ CloseStdin \/ UNCHANGED vars
  BY <1>1, <1>7, ClientLine DEF vars, sessionVars, bridgeVars
<1> QED
  BY <1>2, <1>3, <1>4, <1>5, <1>6, <1>7 DEF Next, Loop

(***************************************************************************)
(* No in-flight call and no queued tool result outlives the registration   *)
(* it belongs to, and every queued result answers an in-flight call.       *)
(***************************************************************************)
THEOREM BridgeIsCurrent == Spec => []BridgeOfCurrentRegistration
<1>1. Init => BridgeOfCurrentRegistration
  BY DEF Init, BridgeOfCurrentRegistration
<1>2. InductiveInv /\ BridgeOfCurrentRegistration /\ [Next]_vars => BridgeOfCurrentRegistration'
  BY BridgeStep
<1> QED
  BY <1>1, <1>2, HostInvariant, PTL DEF Spec

(***************************************************************************)
(* Tool waits: the result a worker is given is of the call it waits for,   *)
(* and a queued result wins over the latch.                                *)
(***************************************************************************)

(***************************************************************************)
(* While stdin is open, a request of a current registration and a key in   *)
(* flight are of the call their run waits for, and not both: the run's     *)
(* `mid` tells which.  Once it is closed a run may give up and call again  *)
(* under an id whose key is still in flight; then no result is queued for  *)
(* that key, and none can come.                                            *)
(***************************************************************************)
Waiting == {"tool", "missed"}

WaitsFor(g, x) == run[g].ph \in Waiting /\ run[g].session = x.session /\ run[g].call = x.call

\* A run has an outcome when it is done; a current one is cancelled only by
\* the latch, and what it asks for afterwards is never published.
RunInOrder(g) ==
  /\ run[g].outcome # "none" => run[g].ph = "done"
  /\ Active(g) /\ Current(g) /\ run[g].cancelled =>
       disconnected /\ (run[g].ph \in Waiting => run[g].mid = 0)

RunsInOrder == \A g \in Gens : RunInOrder(g)

RequestsAwaited ==
  \A q \in requests :
    /\ q.gen <= nextGen
    /\ ~disconnected /\ generation[q.session] = q.gen => WaitsFor(q.gen, q) /\ run[q.gen].mid = 0

KeysAwaited ==
  \A k \in inFlight :
    /\ k.mid # 0
    /\ ~disconnected => WaitsFor(k.gen, k) /\ run[k.gen].mid = k.mid

AnswersAwaited ==
  \A k \in inFlight, r \in results :
    SameCall(r, k) /\ r.re = k.mid => WaitsFor(k.gen, k) /\ run[k.gen].mid = k.mid

NothingAfterEnd == disconnected => eof /\ stdin = <<>>

AnswerInv ==
  NothingAfterEnd /\ RunsInOrder /\ RequestsAwaited /\ KeysAwaited /\ AnswersAwaited

\* What the bridge and the table of runs hold.
LEMMA BridgeTypes ==
  ASSUME InductiveInv
  PROVE  /\ \A q \in requests : q.session \in Sessions /\ q.gen \in Gens /\ q.call \in ToolCalls
         /\ \A k \in inFlight : /\ k.session \in Sessions /\ k.gen \in Gens
                                /\ k.call \in ToolCalls /\ k.mid \in Nat
         /\ disconnected \in BOOLEAN /\ nextMid \in Nat /\ nextGen \in Nat
         /\ \A g \in Gens : g \in Nat /\ g # 0
  BY HostAssumption DEF HostAssumption, InductiveInv, TypeOK, BridgeOK, ServerOK, Gens

\* Runs stay in order when none is changed, or what is changed is in order,
\* and no registration returns.
LEMMA OrderKept ==
  ASSUME RunsInOrder, disconnected => disconnected',
         \A g \in Gens : run'[g] = run[g] \/ RunInOrder(g)',
         \A g \in Gens : Active(g) /\ run'[g] = run[g] /\ Current(g)' => Current(g)
  PROVE  RunsInOrder'
  BY DEF RunsInOrder, RunInOrder, Active

\* A step that gives the bridge nothing and takes no run out of its wait.
LEMMA AnswerKept ==
  ASSUME InductiveInv, AnswerInv, NothingAfterEnd', RunsInOrder',
         requests' \subseteq requests, inFlight' \subseteq inFlight, results' \subseteq results,
         disconnected => disconnected', nextGen' \in Nat, nextGen <= nextGen',
         \A q \in requests' : generation'[q.session] = q.gen => generation[q.session] = q.gen,
         \A g \in Gens : run[g].ph \in Waiting =>
           /\ run'[g].ph \in Waiting /\ run'[g].session = run[g].session
           /\ run'[g].call = run[g].call /\ run'[g].mid = run[g].mid
  PROVE  AnswerInv'
<1> USE DEF AnswerInv
<1>1. RequestsAwaited'
  BY BridgeTypes DEF RequestsAwaited, WaitsFor
<1>2. KeysAwaited'
  BY BridgeTypes DEF KeysAwaited, WaitsFor
<1>3. AnswersAwaited'
  BY BridgeTypes DEF AnswersAwaited, WaitsFor
<1> QED
  BY <1>1, <1>2, <1>3

\* A step that touches neither the bridge nor the registrations nor the runs.
LEMMA AnswerUnchanged ==
  ASSUME InductiveInv, AnswerInv, UNCHANGED <<generation, nextGen, run, requests, inFlight, results>>,
         disconnected => disconnected', NothingAfterEnd'
  PROVE  AnswerInv'
<1>1. RunsInOrder'
  BY OrderKept DEF AnswerInv, Current, Active
<1> QED
  BY <1>1, AnswerKept, BridgeTypes

\* Some sessions are removed, together with what the bridge holds of them, and
\* nothing but the cancelled mark of their runs is set.
LEMMA AnswerRemoved ==
  ASSUME InductiveInv, AnswerInv, NEW S \in SUBSET Sessions, Remove(S), Discard(S),
         UNCHANGED disconnected, NothingAfterEnd',
         \A g \in Gens : run'[g] = run[g] \/
           (run[g].session \in S /\ run'[g] = [run[g] EXCEPT !.cancelled = TRUE])
  PROVE  AnswerInv'
<1>1. \A s \in Sessions : generation'[s] = IF s \in S THEN 0 ELSE generation[s]
  BY DEF Remove
<1>2. RunsInOrder'
  <2> SUFFICES ASSUME NEW g \in Gens PROVE RunInOrder(g)'
    BY DEF RunsInOrder
  <2>1. run[g] \in Runs /\ RunInOrder(g) /\ g # 0
    BY BridgeTypes DEF InductiveInv, TypeOK, RunsOK, AnswerInv, RunsInOrder
  <2>2. run'[g].outcome = run[g].outcome /\ run'[g].ph = run[g].ph
        /\ run'[g].session = run[g].session /\ run'[g].mid = run[g].mid
        /\ (run[g].session \notin S => run'[g] = run[g])
    BY <2>1 DEF Runs
  <2>3. Active(g) => run[g].session \in Sessions
    BY DEF InductiveInv, RunsBound
  <2> QED
    BY <1>1, <2>1, <2>2, <2>3 DEF RunInOrder, Active, Current
<1>3. \A g \in Gens : /\ run'[g].ph = run[g].ph /\ run'[g].session = run[g].session
                      /\ run'[g].call = run[g].call /\ run'[g].mid = run[g].mid
  <2> TAKE g \in Gens
  <2>1. run[g] \in Runs
    BY DEF InductiveInv, TypeOK, RunsOK
  <2> QED
    BY <2>1 DEF Runs
<1>4. /\ requests' \subseteq requests /\ inFlight' \subseteq inFlight
      /\ results' \subseteq results /\ nextGen' = nextGen
  BY DEF Discard, Remove
<1>5. \A q \in requests' : generation'[q.session] = q.gen => generation[q.session] = q.gen
  BY <1>1, <1>4, BridgeTypes
<1> QED
  BY <1>2, <1>3, <1>4, <1>5, AnswerKept, BridgeTypes

-----------------------------------------------------------------------------
\* agent_start registers a generation nothing in the bridge has.
LEMMA AnswerStart ==
  ASSUME InductiveInv, AnswerInv, NEW f \in Requests, HandleStart(f), NothingAfterEnd'
  PROVE  AnswerInv'
<1>1. UNCHANGED <<run, requests, inFlight, results, disconnected>>
  BY DEF HandleStart, Reject, Take
<1>2. CASE UNCHANGED sessionVars
  BY <1>1, <1>2, AnswerUnchanged DEF sessionVars
<1>3. CASE ~UNCHANGED sessionVars
  <2> DEFINE fresh == nextGen + 1
  <2>1. /\ nextGen' = fresh /\ f.session \in Sessions /\ nextGen \in Nat
        /\ generation' = [generation EXCEPT ![f.session] = fresh]
    BY <1>3, BridgeTypes DEF HandleStart, Reject, Requests
  <2>2. \A s \in Sessions : generation'[s] = IF s = f.session THEN fresh ELSE generation[s]
    BY <2>1 DEF InductiveInv, TypeOK, ServerOK
  <2>3. \A g \in Gens : Active(g) => g # fresh /\ run[g].session \in Sessions
    BY <2>1, BridgeTypes DEF InductiveInv, RunsBound
  <2>4. RunsInOrder'
    BY <1>1, <2>2, <2>3, OrderKept DEF AnswerInv, Current
  <2>5. \A q \in requests' : generation'[q.session] = q.gen => generation[q.session] = q.gen
    BY <1>1, <2>1, <2>2, BridgeTypes DEF AnswerInv, RequestsAwaited
  <2> HIDE DEF fresh
  <2> QED
    BY <1>1, <2>1, <2>4, <2>5, AnswerKept DEF fresh
<1> QED
  BY <1>2, <1>3

\* A result is accepted while stdin is open, when the key it answers is of a
\* call that is waited for.
LEMMA AnswerToolResult ==
  ASSUME InductiveInv, AnswerInv, NEW f \in ToolResults, HandleToolResult(f), stdin # <<>>,
         NothingAfterEnd'
  PROVE  AnswerInv'
<1>1. UNCHANGED <<generation, nextGen, run, requests, inFlight, disconnected>>
  BY DEF HandleToolResult, sessionVars, Take
<1>2. ~disconnected
  BY DEF AnswerInv, NothingAfterEnd
<1>3. RunsInOrder'
  BY <1>1, OrderKept DEF AnswerInv, Current, Active
<1>4. RequestsAwaited' /\ KeysAwaited'
  BY <1>1 DEF AnswerInv, RequestsAwaited, KeysAwaited, WaitsFor
<1>5. AnswersAwaited'
  BY <1>1, <1>2, <1>4 DEF AnswersAwaited, KeysAwaited
<1> QED
  BY <1>3, <1>4, <1>5 DEF AnswerInv

\* A line the loop reads.
LEMMA AnswerDispatch == ASSUME InductiveInv, AnswerInv, Dispatch PROVE AnswerInv'
<1> DEFINE f == Head(stdin)
<1>1. stdin # <<>> /\ f \in Requests \union ToolResults /\ ~disconnected
  BY SeqTake DEF Dispatch, InductiveInv, TypeOK, ClientOK, AnswerInv, NothingAfterEnd
<1>2. disconnected' = disconnected /\ NothingAfterEnd'
  BY <1>1
  DEF NothingAfterEnd, Dispatch, HandleStart, HandleMessage, HandleStop, HandleQuery,
      HandleToolResult, Take
<1>3. CASE f \in Requests
  <2>1. CASE HandleStart(f)
    BY <1>2, <1>3, <2>1, AnswerStart
  <2>2. CASE HandleMessage(f)
    BY <1>2, <2>2, AnswerUnchanged DEF HandleMessage, Reject, sessionVars
  <2>3. CASE HandleStop(f)
    <3>1. CASE Refusal(f) # "none"
      BY <1>2, <2>3, <3>1, AnswerUnchanged DEF HandleStop, Reject, sessionVars
    <3>2. CASE Refusal(f) = "none"
      <4>1. /\ Remove({f.session}) /\ Discard({f.session}) /\ CancelRuns(f.session)
            /\ {f.session} \in SUBSET Sessions
        BY <1>3, <2>3, <3>2 DEF HandleStop, Requests
      <4>2. \A g \in Gens : run'[g] = run[g] \/
              (run[g].session \in {f.session} /\ run'[g] = [run[g] EXCEPT !.cancelled = TRUE])
        BY <4>1 DEF CancelRuns
      <4> QED
        BY <1>2, <4>1, <4>2, AnswerRemoved
    <3> QED
      BY <3>1, <3>2
  <2>4. CASE HandleQuery(f)
    BY <1>2, <2>4, AnswerUnchanged DEF HandleQuery, sessionVars
  <2> QED
    BY <1>3, <2>1, <2>2, <2>3, <2>4
    DEF Dispatch, HandleToolResult, Requests, Commands, Queries
<1>4. CASE f \in ToolResults
  <2>1. HandleToolResult(f)
    BY <1>4
    DEF Dispatch, ToolResults, HandleStart, HandleMessage, HandleStop, HandleQuery, Queries
  <2> QED
    BY <1>1, <1>2, <1>4, <2>1, AnswerToolResult
<1> QED
  BY <1>1, <1>3, <1>4

\* A published request leaves its run the only call of its generation.
LEMMA AnswerPublish ==
  ASSUME InductiveInv, AnswerInv, BridgeOfCurrentRegistration, NEW q \in requests, PublishTool(q)
  PROVE  AnswerInv'
<1>1. /\ requests' = requests \ {q} /\ NothingAfterEnd'
      /\ UNCHANGED <<generation, nextGen, disconnected, stdin, eof>>
  BY DEF PublishTool, sessionVars, clientVars, AnswerInv, NothingAfterEnd
<1>2. CASE UNCHANGED <<run, inFlight, results>>
  <2>1. RunsInOrder'
    BY <1>1, <1>2, OrderKept DEF AnswerInv, Current, Active
  <2> QED
    BY <1>1, <1>2, <2>1, AnswerKept, BridgeTypes
<1>3. CASE ~UNCHANGED <<run, inFlight, results>>
  <2> DEFINE m == nextMid + 1
             g == q.gen
             new == [session |-> q.session, gen |-> g, call |-> q.call, mid |-> m]
  <2>1. /\ generation[q.session] = g /\ ~disconnected
        /\ inFlight' = {k \in inFlight : ~SameCall(k, q)} \union {new}
        /\ results' = {r \in results : ~SameCall(r, q)}
        /\ run' = [run EXCEPT ![g].mid = m]
    BY <1>3 DEF PublishTool
  <2>2. WaitsFor(g, q) /\ run[g].mid = 0 /\ g \in Gens /\ m \in Nat /\ m # 0
    BY <2>1, BridgeTypes DEF AnswerInv, RequestsAwaited
  <2>3. run \in [Gens -> Runs]
    BY DEF InductiveInv, TypeOK, RunsOK
  <2>4. \A h \in Gens : h # g => run'[h] = run[h]
    BY <2>1, <2>3
  <2>5. run'[g] = [run[g] EXCEPT !.mid = m] /\ run[g] \in Runs
    BY <2>1, <2>2, <2>3
  <2>6. /\ run'[g].ph = run[g].ph /\ run'[g].session = run[g].session
        /\ run'[g].call = run[g].call /\ run'[g].mid = m
        /\ run'[g].outcome = run[g].outcome /\ run'[g].cancelled = run[g].cancelled
    BY <2>5 DEF Runs
  <2>7. RunsInOrder'
    <3>1. RunInOrder(g) /\ Active(g) /\ Current(g)
      BY <2>1, <2>2 DEF AnswerInv, RunsInOrder, WaitsFor, Waiting, Active, Current
    <3>2. RunInOrder(g)'
      BY <1>1, <2>1, <2>6, <3>1 DEF RunInOrder
    <3> QED
      BY <1>1, <2>4, <3>2, OrderKept DEF AnswerInv, Current
  <2>8. ASSUME NEW p \in requests' PROVE p.gen # g \/ generation'[p.session] # p.gen
    <3>1. SUFFICES ASSUME p.gen = g, generation[p.session] = g PROVE FALSE
      BY <1>1
    <3>2. p \in requests /\ p # q /\ WaitsFor(g, p)
      BY <1>1, <2>1, <3>1 DEF AnswerInv, RequestsAwaited
    <3>3. p.session = q.session /\ p.call = q.call
      BY <2>2, <3>2 DEF WaitsFor
    <3>4. /\ p \in [session : Sessions, gen : Gens, call : ToolCalls]
          /\ q \in [session : Sessions, gen : Gens, call : ToolCalls]
      BY <3>2 DEF InductiveInv, TypeOK, BridgeOK
    <3> QED
      BY <3>1, <3>2, <3>3, <3>4
  <2>9. RequestsAwaited'
    BY <1>1, <2>1, <2>4, <2>8, BridgeTypes DEF AnswerInv, RequestsAwaited, WaitsFor
  <2>10. \A k \in inFlight : k.gen # g
    BY <2>1, <2>2 DEF AnswerInv, KeysAwaited
  <2>11. /\ new.session = q.session /\ new.gen = g /\ new.call = q.call /\ new.mid = m
    OBVIOUS
  <2>12. /\ run'[g].ph \in Waiting /\ run'[g].session = new.session
         /\ run'[g].call = new.call /\ run'[g].mid = new.mid
    BY <2>2, <2>6, <2>11 DEF WaitsFor
  <2> HIDE DEF new, m
  <2>13. KeysAwaited'
    <3> SUFFICES ASSUME NEW k \in inFlight'
                 PROVE  k.mid # 0 /\ WaitsFor(k.gen, k)' /\ run'[k.gen].mid = k.mid
      BY DEF KeysAwaited
    <3>1. CASE k = new
      BY <2>2, <2>11, <2>12, <3>1 DEF WaitsFor
    <3>2. CASE k \in inFlight
      BY <2>1, <2>4, <2>10, <3>2, BridgeTypes DEF AnswerInv, KeysAwaited, WaitsFor
    <3> QED
      BY <2>1, <3>1, <3>2
  <2>14. AnswersAwaited'
    BY <2>1, <1>1, <2>13 DEF AnswersAwaited, KeysAwaited
  <2> QED
    BY <1>1, <2>7, <2>9, <2>13, <2>14 DEF AnswerInv
<1> QED
  BY <1>2, <1>3

-----------------------------------------------------------------------------
\* A step of the worker of run g leaves the rest alone.
LEMMA WorkerFrameKeeps ==
  ASSUME InductiveInv, AnswerInv, NEW g \in Gens, WorkerFrame(g),
         NEW r, run' = [run EXCEPT ![g] = r], RunInOrder(g)'
  PROVE  /\ UNCHANGED <<generation, nextGen, disconnected>> /\ NothingAfterEnd'
         /\ run'[g] = r /\ (\A h \in Gens : h # g => run'[h] = run[h])
         /\ RunsInOrder'
<1>1. UNCHANGED <<generation, nextGen, disconnected, stdin, eof>>
  BY DEF WorkerFrame, sessionVars, clientVars
<1>2. run'[g] = r /\ \A h \in Gens : h # g => run'[h] = run[h]
  BY DEF InductiveInv, TypeOK, RunsOK
<1>3. RunsInOrder'
  BY <1>1, <1>2, OrderKept DEF AnswerInv, Current, Active
<1> QED
  BY <1>1, <1>2, <1>3 DEF AnswerInv, NothingAfterEnd

\* A run that is not waiting, or goes on waiting, takes nothing.
LEMMA AnswerElsewhere ==
  ASSUME InductiveInv, AnswerInv, NEW g \in Gens, WorkerFrame(g),
         UNCHANGED <<requests, inFlight, results>>,
         NEW r, run' = [run EXCEPT ![g] = r], RunInOrder(g)',
         run[g].ph \in Waiting => /\ r.ph \in Waiting /\ r.session = run[g].session
                                  /\ r.call = run[g].call /\ r.mid = run[g].mid
  PROVE  AnswerInv'
<1>1. /\ UNCHANGED <<generation, nextGen, disconnected>> /\ NothingAfterEnd'
      /\ run'[g] = r /\ (\A h \in Gens : h # g => run'[h] = run[h])
      /\ RunsInOrder'
  BY WorkerFrameKeeps
<1> QED
  BY <1>1, AnswerKept, BridgeTypes

\* A run that leaves its wait when neither a request that can be published nor
\* an answered key is of it.
LEMMA AnswerLeft ==
  ASSUME InductiveInv, AnswerInv, NEW g \in Gens, WorkerFrame(g), UNCHANGED requests,
         inFlight' \subseteq inFlight, results' \subseteq results,
         NEW r, run' = [run EXCEPT ![g] = r], RunInOrder(g)',
         ~disconnected => /\ \A q \in requests : generation[q.session] = q.gen => q.gen # g
                          /\ \A k \in inFlight' : k.gen # g,
         \A k \in inFlight', x \in results' : SameCall(x, k) /\ x.re = k.mid => k.gen # g
  PROVE  AnswerInv'
<1>1. /\ UNCHANGED <<generation, nextGen, disconnected>> /\ NothingAfterEnd'
      /\ run'[g] = r /\ (\A h \in Gens : h # g => run'[h] = run[h])
      /\ RunsInOrder'
  BY WorkerFrameKeeps
<1>2. RequestsAwaited'
  BY <1>1, BridgeTypes DEF AnswerInv, RequestsAwaited, WaitsFor
<1>3. KeysAwaited'
  BY <1>1, BridgeTypes DEF AnswerInv, KeysAwaited, WaitsFor
<1>4. AnswersAwaited'
  BY <1>1, BridgeTypes DEF AnswerInv, AnswersAwaited, WaitsFor
<1> QED
  BY <1>1, <1>2, <1>3, <1>4 DEF AnswerInv

\* A tool is called by a run no key or request that matters is of.
LEMMA AnswerCall ==
  ASSUME InductiveInv, AnswerInv, NEW g \in Gens, NEW c \in ToolCalls, CallTool(g, c)
  PROVE  AnswerInv'
<1> DEFINE r == [run[g] EXCEPT !.ph = "tool", !.call = c, !.mid = 0, !.work = @ - 1]
           new == [session |-> run[g].session, gen |-> g, call |-> c]
<1>1. /\ run' = [run EXCEPT ![g] = r] /\ WorkerFrame(g) /\ run[g].ph = "loop"
      /\ requests' = requests \union {new} /\ UNCHANGED <<inFlight, results>>
  BY DEF CallTool
<1>2. run \in [Gens -> Runs] /\ run[g] \in Runs
  BY DEF InductiveInv, TypeOK, RunsOK
<1>3. /\ r.ph = "tool" /\ r.call = c /\ r.mid = 0 /\ r.session = run[g].session
      /\ r.outcome = run[g].outcome /\ r.cancelled = run[g].cancelled
  BY <1>2 DEF Runs
<1>4. run'[g] = r
  BY <1>1, <1>2
<1>5. RunInOrder(g)'
  BY <1>1, <1>3, <1>4
  DEF AnswerInv, RunsInOrder, RunInOrder, Active, Current, WorkerFrame, sessionVars
<1> HIDE DEF r
<1>6. /\ UNCHANGED <<generation, nextGen, disconnected>> /\ NothingAfterEnd'
      /\ (\A h \in Gens : h # g => run'[h] = run[h]) /\ RunsInOrder'
  BY <1>1, <1>5, WorkerFrameKeeps
<1>7. RequestsAwaited'
  <2> SUFFICES ASSUME NEW q \in requests'
               PROVE  /\ q.gen <= nextGen
                      /\ ~disconnected /\ generation[q.session] = q.gen =>
                           WaitsFor(q.gen, q)' /\ run'[q.gen].mid = 0
    BY <1>6 DEF RequestsAwaited
  <2>1. CASE q = new
    <3>1. g <= nextGen
      BY <1>1 DEF InductiveInv, RunsBound, Active
    <3> QED
      BY <1>3, <1>4, <2>1, <3>1 DEF WaitsFor, Waiting
  <2>2. CASE q \in requests
    BY <1>1, <1>6, <2>2, BridgeTypes DEF AnswerInv, RequestsAwaited, WaitsFor, Waiting
  <2> QED
    BY <1>1, <2>1, <2>2
<1>8. KeysAwaited'
  BY <1>1, <1>6, BridgeTypes DEF AnswerInv, KeysAwaited, WaitsFor, Waiting
<1>9. AnswersAwaited'
  BY <1>1, <1>6, BridgeTypes DEF AnswerInv, AnswersAwaited, WaitsFor, Waiting
<1> QED
  BY <1>6, <1>7, <1>8, <1>9 DEF AnswerInv

\* A result is taken with the one key of its run.
LEMMA AnswerTaken ==
  ASSUME InductiveInv, AnswerInv, BridgeOfCurrentRegistration, NEW g \in Gens, TakeResult(g)
  PROVE  AnswerInv'
<1> DEFINE r == [run[g] EXCEPT !.ph = "loop"]
<1>1. run' = [run EXCEPT ![g] = r] /\ WorkerFrame(g) /\ UNCHANGED requests
  BY DEF TakeResult
<1>2. PICK k \in inFlight, x \in results :
         Takeable(g, k, x) /\ inFlight' = inFlight \ {k} /\ results' = results \ {x}
  BY DEF TakeResult
<1>3. k.mid # 0 /\ WaitsFor(g, k) /\ run[g].mid = k.mid /\ k.gen = g
  BY <1>2 DEF AnswerInv, KeysAwaited, AnswersAwaited, Takeable
<1>4. run \in [Gens -> Runs] /\ run[g] \in Runs
  BY DEF InductiveInv, TypeOK, RunsOK
<1>5. RunInOrder(g)'
  <2>1. r.ph = "loop" /\ r.outcome = run[g].outcome /\ r.cancelled = run[g].cancelled
        /\ r.session = run[g].session /\ run'[g] = r
    BY <1>1, <1>4 DEF Runs
  <2>2. RunInOrder(g) /\ run[g].ph \in {"tool", "missed"}
    BY <1>3 DEF AnswerInv, RunsInOrder, WaitsFor, Waiting
  <2> QED
    BY <1>1, <2>1, <2>2 DEF RunInOrder, Waiting, Active, Current, WorkerFrame, sessionVars
<1>6. ASSUME NEW j \in inFlight', WaitsFor(g, j), run[g].mid = j.mid PROVE j.gen # g
  <2>1. j \in inFlight /\ j # k
    BY <1>2
  <2>2. j.session = k.session /\ j.call = k.call /\ j.mid = k.mid
    BY <1>3, <1>6 DEF WaitsFor
  <2>3. /\ j \in [session : Sessions, gen : Gens, call : ToolCalls, mid : Nat]
        /\ k \in [session : Sessions, gen : Gens, call : ToolCalls, mid : Nat]
    BY <2>1 DEF InductiveInv, TypeOK, BridgeOK
  <2> QED
    BY <1>3, <2>1, <2>2, <2>3
<1>7. ~disconnected => \A q \in requests : generation[q.session] = q.gen => q.gen # g
  BY <1>3 DEF AnswerInv, RequestsAwaited
<1>8. ~disconnected => \A j \in inFlight' : j.gen # g
  BY <1>2, <1>6 DEF AnswerInv, KeysAwaited
<1>9. \A j \in inFlight', y \in results' : SameCall(y, j) /\ y.re = j.mid => j.gen # g
  BY <1>2, <1>6 DEF AnswerInv, AnswersAwaited
<1> HIDE DEF r
<1> QED
  BY <1>1, <1>2, <1>5, <1>7, <1>8, <1>9, AnswerLeft

\* A cancelled run leaves its wait: it has lost its registration, or stdin is
\* closed and its call was never published.
LEMMA AnswerCancelled ==
  ASSUME InductiveInv, AnswerInv, BridgeOfCurrentRegistration, NEW g \in Gens, ToolCancelled(g)
  PROVE  AnswerInv'
<1> DEFINE r == [run[g] EXCEPT !.ph = "loop"]
<1>1. /\ run' = [run EXCEPT ![g] = r] /\ WorkerFrame(g)
      /\ UNCHANGED <<requests, inFlight, results>>
      /\ run[g].ph = "tool" /\ run[g].cancelled
  BY DEF ToolCancelled
<1>2. run \in [Gens -> Runs] /\ run[g] \in Runs
  BY DEF InductiveInv, TypeOK, RunsOK
<1>3. RunInOrder(g) /\ Active(g)
  BY <1>1 DEF AnswerInv, RunsInOrder, Active
<1>4. RunInOrder(g)'
  <2>1. r.ph = "loop" /\ r.outcome = run[g].outcome /\ r.cancelled = run[g].cancelled
        /\ r.session = run[g].session /\ run'[g] = r
    BY <1>1, <1>2 DEF Runs
  <2> QED
    BY <1>1, <1>3, <2>1 DEF RunInOrder, Waiting, Active, Current, WorkerFrame, sessionVars
<1>5. Current(g) => disconnected /\ run[g].mid = 0
  BY <1>1, <1>3 DEF RunInOrder, Waiting
<1>6. ~disconnected => \A q \in requests : generation[q.session] = q.gen => q.gen # g
  BY <1>5 DEF AnswerInv, RequestsAwaited, WaitsFor, Current
<1>7. ~disconnected => \A k \in inFlight' : k.gen # g
  BY <1>1, <1>5 DEF AnswerInv, KeysAwaited, WaitsFor, Current, BridgeOfCurrentRegistration
<1>8. \A k \in inFlight', x \in results' : SameCall(x, k) /\ x.re = k.mid => k.gen # g
  BY <1>1, <1>5
  DEF AnswerInv, KeysAwaited, AnswersAwaited, WaitsFor, Current, BridgeOfCurrentRegistration
<1> HIDE DEF r
<1> QED
  BY <1>1, <1>4, <1>6, <1>7, <1>8, AnswerLeft

\* A run gives up on the latch when it finds no answer to its call.
LEMMA AnswerLatch ==
  ASSUME InductiveInv, AnswerInv, NEW g \in Gens, CheckLatch(g)
  PROVE  AnswerInv'
<1>1. /\ WorkerFrame(g) /\ run[g].ph = "missed" /\ UNCHANGED <<requests, inFlight, results>>
      /\ run \in [Gens -> Runs] /\ run[g] \in Runs
  BY DEF CheckLatch, InductiveInv, TypeOK, RunsOK
<1>2. RunInOrder(g)
  BY DEF AnswerInv, RunsInOrder
<1>3. CASE run' = [run EXCEPT ![g].ph = "tool"]
  <2> DEFINE r == [run[g] EXCEPT !.ph = "tool"]
  <2>1. /\ r.ph = "tool" /\ r.outcome = run[g].outcome /\ r.cancelled = run[g].cancelled
        /\ r.session = run[g].session /\ r.call = run[g].call /\ r.mid = run[g].mid
        /\ run'[g] = r /\ run' = [run EXCEPT ![g] = r]
    BY <1>1, <1>3 DEF Runs
  <2>2. RunInOrder(g)'
    BY <1>1, <1>2, <2>1 DEF RunInOrder, Waiting, Active, Current, WorkerFrame, sessionVars
  <2> HIDE DEF r
  <2> QED
    BY <1>1, <2>1, <2>2, AnswerElsewhere DEF Waiting
<1>4. CASE /\ disconnected /\ ~CanTake(g)
           /\ run' = [run EXCEPT ![g].ph = "loop", ![g].cancelled = TRUE,
                                 ![g].disconnectFailed = TRUE]
  <2> DEFINE r == [run[g] EXCEPT !.ph = "loop", !.cancelled = TRUE, !.disconnectFailed = TRUE]
  <2>1. /\ r.ph = "loop" /\ r.outcome = run[g].outcome /\ r.cancelled
        /\ r.session = run[g].session /\ run'[g] = r /\ run' = [run EXCEPT ![g] = r]
    BY <1>1, <1>4 DEF Runs
  <2>2. RunInOrder(g)'
    BY <1>1, <1>2, <1>4, <2>1 DEF RunInOrder, Waiting, Active, Current, WorkerFrame, sessionVars
  <2>3. \A k \in inFlight', x \in results' : SameCall(x, k) /\ x.re = k.mid => k.gen # g
    BY <1>1, <1>4 DEF CanTake, Takeable, AnswerInv, AnswersAwaited, WaitsFor
  <2> HIDE DEF r
  <2> QED
    BY <1>1, <1>4, <2>1, <2>2, <2>3, AnswerLeft
<1> QED
  BY <1>3, <1>4 DEF CheckLatch

\* Any step of a worker thread.
LEMMA AnswerWorker ==
  ASSUME InductiveInv, AnswerInv, BridgeOfCurrentRegistration, NEW g \in Gens, Worker(g)
  PROVE  AnswerInv'
<1>1. run \in [Gens -> Runs] /\ run[g] \in Runs /\ RunInOrder(g)
  BY DEF InductiveInv, TypeOK, RunsOK, AnswerInv, RunsInOrder
<1>2. ASSUME NEW r, r.outcome # "none" => r.ph = "done", r.session = run[g].session,
             r.cancelled = run[g].cancelled, r.ph \in Waiting => r.mid = run[g].mid,
             r.ph \in Waiting => run[g].ph \in Waiting, Active(g),
             run[g].ph \in Waiting => r.ph \in Waiting /\ r.call = run[g].call,
             run' = [run EXCEPT ![g] = r], WorkerFrame(g),
             UNCHANGED <<requests, inFlight, results>>
      PROVE  AnswerInv'
  <2>1. run'[g] = r
    BY <1>1, <1>2
  <2>2. RunInOrder(g)'
    BY <1>1, <1>2, <2>1 DEF RunInOrder, Active, Current, WorkerFrame, sessionVars
  <2> QED
    BY <1>2, <2>2, AnswerElsewhere
<1>3. CASE EmitEvent(g)
  <2> DEFINE r == [run[g] EXCEPT !.ph = "loop", !.events = Append(@, "event"), !.work = @ - 1]
  <2>1. /\ run' = [run EXCEPT ![g] = r] /\ WorkerFrame(g) /\ run[g].ph \in {"loop", "blocked"}
        /\ UNCHANGED <<requests, inFlight, results>>
    BY <1>3 DEF EmitEvent, CanPush
  <2>2. /\ r.ph = "loop" /\ r.outcome = run[g].outcome /\ r.session = run[g].session
        /\ r.cancelled = run[g].cancelled
    BY <1>1 DEF Runs
  <2> HIDE DEF r
  <2> QED
    BY <1>1, <1>2, <2>1, <2>2 DEF Waiting, Active, RunInOrder
<1>4. CASE MissResult(g)
  <2> DEFINE r == [run[g] EXCEPT !.ph = "missed"]
  <2>1. /\ run' = [run EXCEPT ![g] = r] /\ WorkerFrame(g) /\ run[g].ph = "tool"
        /\ UNCHANGED <<requests, inFlight, results>>
    BY <1>4 DEF MissResult
  <2>2. /\ r.ph = "missed" /\ r.outcome = run[g].outcome /\ r.session = run[g].session
        /\ r.cancelled = run[g].cancelled /\ r.call = run[g].call /\ r.mid = run[g].mid
    BY <1>1 DEF Runs
  <2> HIDE DEF r
  <2> QED
    BY <1>1, <1>2, <2>1, <2>2 DEF Waiting, Active, RunInOrder
<1>5. CASE EmitEnd(g)
  <2> DEFINE r == [run[g] EXCEPT !.ph = "ending", !.events = Append(@, "end")]
  <2>1. /\ run' = [run EXCEPT ![g] = r] /\ WorkerFrame(g) /\ run[g].ph \in {"loop", "blocked"}
        /\ UNCHANGED <<requests, inFlight, results>>
    BY <1>5 DEF EmitEnd, CanPush
  <2>2. /\ r.ph = "ending" /\ r.outcome = run[g].outcome /\ r.session = run[g].session
        /\ r.cancelled = run[g].cancelled
    BY <1>1 DEF Runs
  <2> HIDE DEF r
  <2> QED
    BY <1>1, <1>2, <2>1, <2>2 DEF Waiting, Active, RunInOrder
<1>6. CASE Complete(g)
  <2>1. PICK o \in {"result", "error"} :
          run' = [run EXCEPT ![g] = [run[g] EXCEPT !.ph = "done", !.outcome = o]]
    BY <1>6 DEF Complete
  <2> DEFINE r == [run[g] EXCEPT !.ph = "done", !.outcome = o]
  <2>2. /\ run' = [run EXCEPT ![g] = r] /\ WorkerFrame(g) /\ run[g].ph \in {"loop", "ending"}
        /\ UNCHANGED <<requests, inFlight, results>>
    BY <1>6, <2>1 DEF Complete
  <2>3. r.ph = "done" /\ r.session = run[g].session /\ r.cancelled = run[g].cancelled
    BY <1>1 DEF Runs
  <2> HIDE DEF r
  <2> QED
    BY <1>1, <1>2, <2>2, <2>3 DEF Waiting, Active, RunInOrder
<1>7. CASE PushBlocks(g)
  <2> DEFINE r == [run[g] EXCEPT !.ph = "blocked"]
  <2>1. /\ run' = [run EXCEPT ![g] = r] /\ WorkerFrame(g) /\ run[g].ph = "loop"
        /\ UNCHANGED <<requests, inFlight, results>>
    BY <1>7 DEF PushBlocks
  <2>2. /\ r.ph = "blocked" /\ r.outcome = run[g].outcome /\ r.session = run[g].session
        /\ r.cancelled = run[g].cancelled
    BY <1>1 DEF Runs
  <2> HIDE DEF r
  <2> QED
    BY <1>1, <1>2, <2>1, <2>2 DEF Waiting, Active, RunInOrder
<1> QED
  BY <1>3, <1>4, <1>5, <1>6, <1>7, AnswerCall, AnswerTaken, AnswerCancelled, AnswerLatch DEF Worker

-----------------------------------------------------------------------------
\* A step of the loop that changes one run, which does not wait, or nothing of
\* its wait.
LEMMA AnswerVisited ==
  ASSUME InductiveInv, AnswerInv,
         UNCHANGED <<generation, nextGen, requests, inFlight, results, disconnected, stdin, eof>>,
         NEW g \in Gens, NEW r, run' = [run EXCEPT ![g] = r], RunInOrder(g)',
         run[g].ph \in Waiting => /\ r.ph \in Waiting /\ r.session = run[g].session
                                  /\ r.call = run[g].call /\ r.mid = run[g].mid
  PROVE  AnswerInv'
<1>1. run'[g] = r /\ \A h \in Gens : h # g => run'[h] = run[h]
  BY DEF InductiveInv, TypeOK, RunsOK
<1>2. RunsInOrder' /\ NothingAfterEnd'
  BY <1>1, OrderKept DEF AnswerInv, NothingAfterEnd, Current, Active
<1> QED
  BY <1>1, <1>2, AnswerKept, BridgeTypes

\* The steps of startPendingAgentRuns and pumpAgentRuns.
LEMMA AnswerRuns ==
  ASSUME InductiveInv, AnswerInv,
         \/ \E s \in Sessions : StartRun(s)
         \/ \E g \in Gens : VisitRun(g)
         \/ ForwardEvent
         \/ SettleRun
  PROVE  AnswerInv'
<1>1. run \in [Gens -> Runs] /\ \A g \in Gens : run[g] \in Runs /\ RunInOrder(g)
  BY DEF InductiveInv, TypeOK, RunsOK, AnswerInv, RunsInOrder
<1>2. /\ UNCHANGED <<generation, nextGen, requests, inFlight, results, disconnected, stdin, eof>>
      /\ NothingAfterEnd'
  BY DEF StartRun, VisitRun, ForwardEvent, SettleRun, sessionVars, bridgeVars, clientVars,
         AnswerInv, NothingAfterEnd
<1>3. CASE UNCHANGED run
  BY <1>2, <1>3, AnswerUnchanged
<1>4. ASSUME NEW g \in Gens, NEW r, run' = [run EXCEPT ![g] = r], r.ph \notin Waiting,
             run[g].ph \notin Waiting, r.outcome # "none" => r.ph = "done",
             r.ph # "none" /\ generation[r.session] = g /\ r.cancelled => disconnected
      PROVE  AnswerInv'
  <2>1. run'[g] = r
    BY <1>1, <1>4
  <2>2. RunInOrder(g)'
    BY <1>2, <1>4, <2>1 DEF RunInOrder, Active, Current
  <2> QED
    BY <1>2, <1>4, <2>2, AnswerVisited
<1>5. CASE \E s \in Sessions : StartRun(s)
  <2>1. PICK s \in Sessions : StartRun(s)
    BY <1>5
  <2>2. CASE ~Active(generation[s]) /\ run' = [run EXCEPT ![generation[s]] = NewRun(s)]
    <3>1. generation[s] \in Gens
      BY <2>1 DEF StartRun, InductiveInv, TypeOK, ServerOK, Gens
    <3>2. /\ NewRun(s).ph = "loop" /\ NewRun(s).outcome = "none" /\ NewRun(s).cancelled = FALSE
      BY DEF NewRun, FreshRun
    <3>3. run[generation[s]].ph = "none"
      BY <2>2 DEF Active
    <3> QED
      BY <1>4, <2>2, <3>1, <3>2, <3>3 DEF Waiting
  <2> QED
    BY <1>3, <2>1, <2>2 DEF StartRun
<1>6. CASE \E g \in Gens : VisitRun(g)
  <2>1. PICK g \in Gens : VisitRun(g)
    BY <1>6
  <2>2. CASE ~Current(g) /\ run' = [run EXCEPT ![g].cancelled = TRUE]
    <3> DEFINE r == [run[g] EXCEPT !.cancelled = TRUE]
    <3>1. /\ r.ph = run[g].ph /\ r.session = run[g].session /\ r.call = run[g].call
          /\ r.mid = run[g].mid /\ r.outcome = run[g].outcome
          /\ run' = [run EXCEPT ![g] = r] /\ run'[g] = r
      BY <1>1, <2>2 DEF Runs
    <3>2. RunInOrder(g)'
      BY <1>1, <1>2, <2>2, <3>1 DEF RunInOrder, Active, Current
    <3> HIDE DEF r
    <3> QED
      BY <1>2, <3>1, <3>2, AnswerVisited
  <2> QED
    BY <1>3, <2>1, <2>2 DEF VisitRun
<1>7. CASE ForwardEvent
  <2> DEFINE t == run[visit].terminal \/ (Current(visit) /\ Head(run[visit].events) = "end")
             r == [run[visit] EXCEPT !.events = Tail(@), !.terminal = t]
  <2>1. visit \in Gens /\ run' = [run EXCEPT ![visit] = r]
    BY <1>7 DEF ForwardEvent, InductiveInv, VisitsActive
  <2>2. /\ r.ph = run[visit].ph /\ r.session = run[visit].session /\ r.call = run[visit].call
        /\ r.mid = run[visit].mid /\ r.outcome = run[visit].outcome
        /\ r.cancelled = run[visit].cancelled /\ run'[visit] = r
    BY <1>1, <2>1 DEF Runs
  <2> HIDE DEF r
  <2>3. UNCHANGED visit
    BY <1>7 DEF ForwardEvent
  <2>4. RunInOrder(visit)'
    BY <1>1, <1>2, <2>1, <2>2, <2>3 DEF RunInOrder, Active, Current
  <2> QED
    BY <1>2, <2>1, <2>2, <2>3, <2>4, AnswerVisited
<1>8. CASE SettleRun
  <2>1. visit \in Gens /\ UNCHANGED visit
    BY <1>8 DEF SettleRun, InductiveInv, VisitsActive
  <2>2. CASE run[visit].outcome # "none" /\ run' = [run EXCEPT ![visit] = NoRun]
    <3>1. run[visit].ph = "done" /\ NoRun.ph = "none" /\ NoRun.outcome = "none"
      BY <1>1, <2>1, <2>2 DEF RunInOrder, NoRun, FreshRun
    <3> QED
      BY <1>4, <2>1, <2>2, <3>1 DEF Waiting
  <2> QED
    BY <1>3, <1>8, <2>2 DEF SettleRun
<1> QED
  BY <1>5, <1>6, <1>7, <1>8

\* Every step keeps the invariant of the tool waits.
LEMMA AnswerStep ==
  ASSUME InductiveInv, BridgeOfCurrentRegistration, AnswerInv, [Next]_vars
  PROVE  AnswerInv'
<1>1. CASE \E q \in requests : PublishTool(q)
  BY <1>1, AnswerPublish
<1>2. CASE \E E \in SUBSET Sessions : FlushAndSweep(E)
  <2>1. PICK E \in SUBSET Sessions : FlushAndSweep(E)
    BY <1>2
  <2>2. /\ Remove(E) /\ Discard(E) /\ UNCHANGED <<run, disconnected>> /\ NothingAfterEnd'
    BY <2>1 DEF FlushAndSweep, clientVars, AnswerInv, NothingAfterEnd
  <2> QED
    BY <2>2, AnswerRemoved
<1>3. CASE CheckEof
  <2>1. /\ UNCHANGED <<generation, nextGen, run, requests, inFlight, results>>
        /\ (disconnected => disconnected') /\ NothingAfterEnd'
    BY <1>3 DEF CheckEof, sessionVars, clientVars, AnswerInv, NothingAfterEnd
  <2> QED
    BY <2>1, AnswerUnchanged
<1>4. CASE PollEmpty \/ StartDone \/ DrainDone \/ RunsDone \/ ToolsDone \/ DrainOutbound
  <2>1. /\ UNCHANGED <<generation, nextGen, run, requests, inFlight, results, disconnected>>
        /\ NothingAfterEnd'
    BY <1>4 DEF PollEmpty, StartDone, DrainDone, RunsDone, ToolsDone, DrainOutbound,
                sessionVars, bridgeVars, clientVars, AnswerInv, NothingAfterEnd
  <2> QED
    BY <2>1, AnswerUnchanged
<1>5. CASE ClientSend \/ ClientAnswer \/ CloseStdin \/ UNCHANGED vars
  <2>1. UNCHANGED <<generation, nextGen, run, requests, inFlight, results, disconnected>>
    BY <1>5, ClientLine DEF vars, sessionVars, bridgeVars
  <2>2. NothingAfterEnd'
    BY <1>5, <2>1
    DEF AnswerInv, NothingAfterEnd, ClientSend, ClientAnswer, CloseStdin, Write, vars, clientVars
  <2> QED
    BY <2>1, <2>2, AnswerUnchanged
<1>6. CASE Dispatch
  BY <1>6, AnswerDispatch
<1>7. CASE \E g \in Gens : Worker(g)
  BY <1>7, AnswerWorker
<1> QED
  BY <1>1, <1>2, <1>3, <1>4, <1>5, <1>6, <1>7, AnswerRuns DEF Next, Loop

\* The invariant of the tool waits holds in every reachable state.
THEOREM AnswerInvariant == Spec => []AnswerInv
<1>1. Init => AnswerInv
  BY DEF Init, AnswerInv, NothingAfterEnd, RunsInOrder, RunInOrder, RequestsAwaited, KeysAwaited,
         AnswersAwaited, Active, NoRun, FreshRun
<1>2. InductiveInv /\ BridgeOfCurrentRegistration /\ AnswerInv /\ [Next]_vars => AnswerInv'
  BY AnswerStep
<1> QED
  BY <1>1, <1>2, HostInvariant, BridgeIsCurrent, PTL DEF Spec

(***************************************************************************)
(* A worker that waits for a tool can be given the answer to the           *)
(* tool_execute of this very call and no other, however tool call ids,     *)
(* session ids and late, repeated or misdirected results follow each other.*)
(***************************************************************************)
THEOREM ResultsAreForTheirCall == Spec => []ResultIsForThisCall
<1>1. AnswerInv => ResultIsForThisCall
  BY DEF AnswerInv, AnswersAwaited, ResultIsForThisCall, Takeable
<1> QED
  BY <1>1, AnswerInvariant, PTL

-----------------------------------------------------------------------------
\* Only CheckLatch marks a run for the failure pair.
LEMMA OnlyTheLatchFails ==
  ASSUME InductiveInv, [Next]_vars, NEW g \in Gens,
         ~run[g].disconnectFailed, run'[g].disconnectFailed
  PROVE  CheckLatch(g)
<1>1. run \in [Gens -> Runs] /\ \A h \in Gens : run[h] \in Runs
  BY DEF InductiveInv, TypeOK, RunsOK
<1>2. ASSUME run'[g].disconnectFailed = run[g].disconnectFailed PROVE FALSE
  BY <1>2
<1>3. CASE UNCHANGED run
  BY <1>2, <1>3
<1>4. CASE \E s \in Sessions : CancelRuns(s)
  <2>1. PICK s \in Sessions : CancelRuns(s)
    BY <1>4
  <2> QED
    BY <1>1, <1>2, <2>1 DEF CancelRuns, Runs
<1>5. ASSUME NEW h \in Gens, NEW r \in {NoRun} \union {NewRun(s) : s \in Sessions},
             run' = [run EXCEPT ![h] = r]
      PROVE  FALSE
  BY <1>1, <1>2, <1>5 DEF NoRun, NewRun, FreshRun
<1>6. ASSUME NEW h \in Gens, NEW r, run' = [run EXCEPT ![h] = r],
             r.disconnectFailed = run[h].disconnectFailed
      PROVE  FALSE
  BY <1>1, <1>2, <1>6
<1>7. CASE Dispatch
  BY <1>3, <1>4, <1>7, SeqTake
  DEF Dispatch, HandleStart, HandleMessage, HandleStop, HandleQuery, HandleToolResult, Reject,
      Requests, InductiveInv, TypeOK, ClientOK, ToolResults
<1>8. CASE \E s \in Sessions : StartRun(s)
  <2>1. PICK s \in Sessions : StartRun(s)
    BY <1>8
  <2>2. generation[s] \in Gens
    BY <2>1 DEF StartRun, InductiveInv, TypeOK, ServerOK, Gens
  <2> QED
    BY <1>3, <1>5, <2>1, <2>2 DEF StartRun
<1>9. CASE \E h \in Gens : VisitRun(h)
  <2>1. PICK h \in Gens : VisitRun(h)
    BY <1>9
  <2> DEFINE r == [run[h] EXCEPT !.cancelled = TRUE]
  <2>2. r.disconnectFailed = run[h].disconnectFailed
    BY <1>1 DEF Runs
  <2>3. UNCHANGED run \/ run' = [run EXCEPT ![h] = r]
    BY <2>1 DEF VisitRun
  <2> HIDE DEF r
  <2> QED
    BY <1>3, <1>6, <2>2, <2>3
<1>10. CASE ForwardEvent
  <2> DEFINE t == run[visit].terminal \/ (Current(visit) /\ Head(run[visit].events) = "end")
             r == [run[visit] EXCEPT !.events = Tail(@), !.terminal = t]
  <2>1. visit \in Gens /\ run' = [run EXCEPT ![visit] = r]
    BY <1>10 DEF ForwardEvent, InductiveInv, VisitsActive
  <2>2. r.disconnectFailed = run[visit].disconnectFailed
    BY <1>1, <2>1 DEF Runs
  <2> HIDE DEF r
  <2> QED
    BY <1>6, <2>1, <2>2
<1>11. CASE SettleRun
  <2>1. visit \in Gens
    BY <1>11 DEF SettleRun, InductiveInv, VisitsActive
  <2> QED
    BY <1>3, <1>5, <1>11, <2>1 DEF SettleRun
<1>12. CASE \E q \in requests : PublishTool(q)
  <2>1. PICK q \in requests : PublishTool(q)
    BY <1>12
  <2> DEFINE r == [run[q.gen] EXCEPT !.mid = nextMid + 1]
  <2>2. q.gen \in Gens
    BY BridgeTypes
  <2>3. r.disconnectFailed = run[q.gen].disconnectFailed
    BY <1>1, <2>2 DEF Runs
  <2>4. UNCHANGED run \/ run' = [run EXCEPT ![q.gen] = r]
    BY <2>1 DEF PublishTool
  <2> HIDE DEF r
  <2> QED
    BY <1>3, <1>6, <2>2, <2>3, <2>4
<1>13. CASE \E h \in Gens : Worker(h)
  <2>1. PICK h \in Gens : Worker(h)
    BY <1>13
  <2>2. run[h] \in Runs
    BY <1>1
  <2>3. CASE CheckLatch(h)
    <3>1. h = g
      BY <1>1, <1>2, <2>3 DEF CheckLatch
    <3> QED
      BY <2>3, <3>1
  <2>4. CASE ~CheckLatch(h)
    <3>1. ASSUME NEW p \in WorkerPlaces, run' = [run EXCEPT ![h].ph = p] PROVE FALSE
      <4> DEFINE r == [run[h] EXCEPT !.ph = p]
      <4>1. r.disconnectFailed = run[h].disconnectFailed
        BY <2>2 DEF Runs
      <4> HIDE DEF r
      <4> QED
        BY <1>6, <3>1, <4>1 DEF r
    <3>2. CASE TakeResult(h) \/ ToolCancelled(h) \/ MissResult(h) \/ PushBlocks(h)
      BY <3>1, <3>2 DEF TakeResult, ToolCancelled, MissResult, PushBlocks, WorkerPlaces
    <3>3. CASE EmitEvent(h)
      <4> DEFINE r == [run[h] EXCEPT !.ph = "loop", !.events = Append(@, "event"), !.work = @ - 1]
      <4>1. r.disconnectFailed = run[h].disconnectFailed /\ run' = [run EXCEPT ![h] = r]
        BY <2>2, <3>3 DEF Runs, EmitEvent
      <4> HIDE DEF r
      <4> QED
        BY <1>6, <4>1
    <3>4. CASE \E c \in ToolCalls : CallTool(h, c)
      <4>1. PICK c \in ToolCalls : CallTool(h, c)
        BY <3>4
      <4> DEFINE r == [run[h] EXCEPT !.ph = "tool", !.call = c, !.mid = 0, !.work = @ - 1]
      <4>2. r.disconnectFailed = run[h].disconnectFailed /\ run' = [run EXCEPT ![h] = r]
        BY <2>2, <4>1 DEF Runs, CallTool
      <4> HIDE DEF r
      <4> QED
        BY <1>6, <4>2
    <3>5. CASE EmitEnd(h)
      <4> DEFINE r == [run[h] EXCEPT !.ph = "ending", !.events = Append(@, "end")]
      <4>1. r.disconnectFailed = run[h].disconnectFailed /\ run' = [run EXCEPT ![h] = r]
        BY <2>2, <3>5 DEF Runs, EmitEnd
      <4> HIDE DEF r
      <4> QED
        BY <1>6, <4>1
    <3>6. CASE Complete(h)
      <4>1. PICK o \in {"result", "error"} :
              run' = [run EXCEPT ![h] = [run[h] EXCEPT !.ph = "done", !.outcome = o]]
        BY <3>6 DEF Complete
      <4> DEFINE r == [run[h] EXCEPT !.ph = "done", !.outcome = o]
      <4>2. r.disconnectFailed = run[h].disconnectFailed /\ run' = [run EXCEPT ![h] = r]
        BY <2>2, <4>1 DEF Runs
      <4> HIDE DEF r
      <4> QED
        BY <1>6, <4>2
    <3> QED
      BY <2>1, <2>4, <3>2, <3>3, <3>4, <3>5, <3>6 DEF Worker
  <2> QED
    BY <2>3, <2>4
<1>14. CASE ClientSend \/ ClientAnswer \/ CloseStdin \/ UNCHANGED vars
  BY <1>3, <1>14, ClientLine DEF vars
<1>15. CASE \/ PollEmpty \/ CheckEof \/ StartDone \/ DrainDone \/ RunsDone \/ ToolsDone
            \/ DrainOutbound \/ (\E E \in SUBSET Sessions : FlushAndSweep(E))
  BY <1>3, <1>15
  DEF PollEmpty, CheckEof, StartDone, DrainDone, RunsDone, ToolsDone, DrainOutbound, FlushAndSweep
<1> QED
  BY <1>7, <1>8, <1>9, <1>10, <1>11, <1>12, <1>13, <1>14, <1>15 DEF Next, Loop

(***************************************************************************)
(* No worker gives up on the disconnect latch while the answer to its call *)
(* is queued: a tool_result accepted before stdin ended wins the wait.     *)
(***************************************************************************)
THEOREM QueuedResultsWin == Spec => QueuedResultWinsWait
<1>1. ASSUME InductiveInv, [Next]_vars, NEW g \in Gens,
             ~run[g].disconnectFailed, run'[g].disconnectFailed
      PROVE  ~CanTake(g)
  <2>1. CheckLatch(g)
    BY <1>1, OnlyTheLatchFails
  <2>2. run[g] \in Runs /\ run \in [Gens -> Runs]
    BY <1>1 DEF InductiveInv, TypeOK, RunsOK
  <2>3. CASE run' = [run EXCEPT ![g].ph = "tool"]
    BY <1>1, <2>2, <2>3 DEF Runs
  <2> QED
    BY <2>1, <2>3 DEF CheckLatch
<1>2. InductiveInv /\ [Next]_vars =>
        [\A g \in Gens : ~run[g].disconnectFailed /\ run'[g].disconnectFailed => ~CanTake(g)]_vars
  BY <1>1
<1> QED
  BY <1>2, HostInvariant, PTL DEF Spec, QueuedResultWinsWait

(***************************************************************************)
(* AgentHost implements SessionServer: each step of the loop, of a worker  *)
(* or of the client is a step of the abstract server, or changes neither   *)
(* its table nor its frames.                                               *)
(***************************************************************************)

ShownFrames == [type : FrameTypes, session : Sessions, gen : 0..MaxGen,
                re : MsgIds \union {None}, code : Codes]

Table == [s \in Sessions |-> [status |-> status[s], gen |-> generation[s], next |-> expected[s]]]

Wire == Stream(pipe) \o Stream(outbox)

\* Sequences with the same elements are the same.
LEMMA SameElements ==
  ASSUME NEW S, NEW a \in Seq(S), NEW b \in Seq(S), Len(a) = Len(b),
         \A i \in 1..Len(a) : a[i] = b[i]
  PROVE  a = b
  OBVIOUS

\* The length of two sequences joined.
LEMMA ConcatLen ==
  ASSUME NEW S, NEW a \in Seq(S), NEW b \in Seq(S) PROVE Len(a \o b) = Len(a) + Len(b)
  OBVIOUS

\* Joining is associative.
LEMMA ConcatAssoc ==
  ASSUME NEW S, NEW a \in Seq(S), NEW b \in Seq(S), NEW c \in Seq(S)
  PROVE  a \o (b \o c) = (a \o b) \o c
<1> DEFINE x == a \o (b \o c)
           y == (a \o b) \o c
<1>1. /\ x \in Seq(S) /\ y \in Seq(S) /\ Len(x) = Len(a) + Len(b) + Len(c)
      /\ Len(y) = Len(a) + Len(b) + Len(c)
  OBVIOUS
<1>2. ASSUME NEW i \in 1..Len(x) PROVE x[i] = y[i]
  BY <1>1
<1> HIDE DEF x, y
<1> QED
  BY <1>1, <1>2, SameElements DEF x, y

\* What a client sees of a sequence of frames.
LEMMA StreamType ==
  ASSUME NEW q \in Seq(HostFrames)
  PROVE  /\ Stream(q) \in Seq(ShownFrames) /\ Len(Stream(q)) = Len(q)
         /\ \A i \in 1..Len(q) : Stream(q)[i] = Shown(q[i])
<1>1. \A i \in 1..Len(q) : q[i] \in HostFrames
  OBVIOUS
<1>2. \A f \in HostFrames : Shown(f) \in ShownFrames
  BY DEF Shown, HostFrames, ShownFrames
<1>3. Stream(q) \in [1..Len(q) -> ShownFrames] /\ Len(q) \in Nat
  BY <1>1, <1>2 DEF Stream
<1>4. \A i \in 1..Len(q) : Stream(q)[i] = Shown(q[i])
  BY DEF Stream
<1> QED
  BY <1>3, <1>4

\* One frame more.
LEMMA StreamAppend ==
  ASSUME NEW q \in Seq(HostFrames), NEW f \in HostFrames
  PROVE  Stream(Append(q, f)) = Append(Stream(q), Shown(f))
<1>1. Append(q, f) \in Seq(HostFrames) /\ Len(Append(q, f)) = Len(q) + 1
  OBVIOUS
<1>2. Shown(f) \in ShownFrames
  BY DEF Shown, HostFrames, ShownFrames
<1> DEFINE a == Stream(Append(q, f))
           b == Append(Stream(q), Shown(f))
           s == Stream(q)
<1>3. s \in Seq(ShownFrames) /\ Len(s) = Len(q) /\ \A i \in 1..Len(q) : s[i] = Shown(q[i])
  BY StreamType
<1>4. /\ a \in Seq(ShownFrames) /\ Len(a) = Len(Append(q, f))
      /\ \A i \in 1..Len(Append(q, f)) : a[i] = Shown(Append(q, f)[i])
  BY <1>1, StreamType
<1> HIDE DEF a, s
<1>5. b \in Seq(ShownFrames) /\ Len(b) = Len(q) + 1
  BY <1>2, <1>3 DEF s
<1>6. ASSUME NEW i \in 1..Len(q) + 1 PROVE a[i] = b[i]
  <2>1. a[i] = Shown(Append(q, f)[i])
    BY <1>1, <1>4
  <2>2. CASE i \in 1..Len(q)
    <3>1. Append(q, f)[i] = q[i] /\ b[i] = s[i]
      BY <1>2, <1>3, <2>2 DEF s
    <3> QED
      BY <1>3, <2>1, <2>2, <3>1
  <2>3. CASE i = Len(q) + 1
    <3>1. Append(q, f)[i] = f /\ b[i] = Shown(f)
      BY <1>2, <1>3, <2>3 DEF s
    <3> QED
      BY <2>1, <3>1
  <2>4. i \in 1..Len(q) \/ i = Len(q) + 1
    OBVIOUS
  <2> QED
    BY <2>2, <2>3, <2>4
<1> HIDE DEF b
<1>7. a = b
  BY <1>1, <1>4, <1>5, <1>6, SameElements
<1> QED
  BY <1>7 DEF a, b

\* Two sequences joined.
LEMMA StreamConcat ==
  ASSUME NEW q \in Seq(HostFrames), NEW r \in Seq(HostFrames)
  PROVE  Stream(q \o r) = Stream(q) \o Stream(r)
<1> DEFINE a == Stream(q \o r)
           s == Stream(q)
           t == Stream(r)
           b == s \o t
<1>1. q \o r \in Seq(HostFrames) /\ Len(q \o r) = Len(q) + Len(r)
  OBVIOUS
<1>2. s \in Seq(ShownFrames) /\ Len(s) = Len(q) /\ \A i \in 1..Len(q) : s[i] = Shown(q[i])
  BY StreamType
<1>3. t \in Seq(ShownFrames) /\ Len(t) = Len(r) /\ \A i \in 1..Len(r) : t[i] = Shown(r[i])
  BY StreamType
<1>4. /\ a \in Seq(ShownFrames) /\ Len(a) = Len(q \o r)
      /\ \A i \in 1..Len(q \o r) : a[i] = Shown((q \o r)[i])
  BY <1>1, StreamType
<1> HIDE DEF a, s, t
<1>5. b \in Seq(ShownFrames) /\ Len(b) = Len(q) + Len(r)
  <2>1. Len(s \o t) = Len(s) + Len(t)
    BY <1>2, <1>3, ConcatLen
  <2> QED
    BY <1>2, <1>3, <2>1, SeqConcat
<1>6. ASSUME NEW i \in 1..Len(q) + Len(r) PROVE a[i] = b[i]
  <2>1. a[i] = Shown((q \o r)[i])
    BY <1>1, <1>4
  <2>2. CASE i \in 1..Len(q)
    <3>1. (q \o r)[i] = q[i] /\ b[i] = s[i]
      BY <1>2, <1>3, <2>2
    <3> QED
      BY <1>2, <2>1, <2>2, <3>1
  <2>3. CASE i \notin 1..Len(q)
    <3>1. i - Len(q) \in 1..Len(r)
      BY <2>3
    <3>2. (q \o r)[i] = r[i - Len(q)] /\ b[i] = t[i - Len(q)]
      BY <1>2, <1>3, <2>3, <3>1
    <3> QED
      BY <1>3, <2>1, <3>1, <3>2
  <2> QED
    BY <2>2, <2>3
<1> HIDE DEF b
<1>7. a = b
  BY <1>1, <1>4, <1>5, <1>6, SameElements
<1> QED
  BY <1>7 DEF a, b, s, t

\* Nothing of nothing.
LEMMA StreamEmpty == Stream(<<>>) = <<>>
<1>1. Len(<<>>) = 0 /\ 1..0 = {}
  OBVIOUS
<1> QED
  BY <1>1 DEF Stream

\* The shown form of the frames the host builds.
LEMMA ShownFrame ==
  ASSUME NEW type, NEW s, NEW g, NEW re, NEW code, NEW c, NEW m
  PROVE  Shown(Frame(type, s, g, re, code, c, m)) = Server!SentFrame(type, s, g, re, code)
  BY DEF Shown, Frame, Server!SentFrame

\* A reply goes behind all that was sent, the outbox being empty.
LEMMA WireReply ==
  ASSUME InductiveInv, outbox = <<>>, outbox' = <<>>, NEW e \in HostFrames,
         pipe' = Append(pipe, e)
  PROVE  Wire' = Append(Wire, Shown(e))
<1>1. pipe \in Seq(HostFrames) /\ <<>> \in Seq(HostFrames)
  BY DEF InductiveInv, TypeOK, FramesOK
<1>2. Stream(<<>>) = <<>>
  BY StreamEmpty
<1>3. \A q \in Seq(ShownFrames) : q \o <<>> = q
  OBVIOUS
<1>4. Stream(Append(pipe, e)) = Append(Stream(pipe), Shown(e))
  BY <1>1, StreamAppend
<1>5. Stream(Append(pipe, e)) \in Seq(ShownFrames) /\ Stream(pipe) \in Seq(ShownFrames)
  BY <1>1, StreamType, SeqAppend
<1> QED
  BY <1>2, <1>3, <1>4, <1>5 DEF Wire

\* Frames of a run go behind all that was sent.
LEMMA WireOutput ==
  ASSUME InductiveInv, pipe' = pipe, NEW q \in Seq(HostFrames), outbox' = outbox \o q
  PROVE  Wire' = Wire \o Stream(q)
<1>1. pipe \in Seq(HostFrames) /\ outbox \in Seq(HostFrames)
  BY DEF InductiveInv, TypeOK, FramesOK
<1>2. Stream(outbox \o q) = Stream(outbox) \o Stream(q)
  BY <1>1, StreamConcat
<1>3. /\ Stream(pipe) \in Seq(ShownFrames) /\ Stream(outbox) \in Seq(ShownFrames)
      /\ Stream(q) \in Seq(ShownFrames)
  BY <1>1, StreamType
<1>4. Stream(pipe) \o (Stream(outbox) \o Stream(q)) = (Stream(pipe) \o Stream(outbox)) \o Stream(q)
  BY <1>3, ConcatAssoc
<1> QED
  BY <1>2, <1>4 DEF Wire

\* What the abstract server starts from.
LEMMA InitImplements == Init => Server!ServerInit
<1> SUFFICES ASSUME Init PROVE Server!ServerInit
  OBVIOUS
<1>2. Wire = <<>>
  BY StreamEmpty DEF Init, Wire
<1> QED
  BY <1>2 DEF Init, Wire, Server!ServerInit, Server!Absent

-----------------------------------------------------------------------------
(***************************************************************************)
(* Requests.                                                               *)
(***************************************************************************)
HostInv == InductiveInv /\ OutputInv /\ AnswerInv

\* The table as the abstract server reads it.
LEMMA TableAt ==
  ASSUME NEW s \in Sessions
  PROVE  /\ Table[s] = [status |-> status[s], gen |-> generation[s], next |-> expected[s]]
         /\ Table[s].status = status[s] /\ Table[s].gen = generation[s]
         /\ Table[s].next = expected[s]
  BY DEF Table

\* A table whose maps are not touched.
LEMMA TableSame == ASSUME UNCHANGED <<status, generation, expected>> PROVE Table' = Table
  BY DEF Table

\* A reply of the host is an answer of the abstract server.
LEMMA ReplyImplements ==
  ASSUME HostInv, NEW f \in Requests, NEW type \in FrameTypes, NEW code \in Codes,
         Take(f), Reply(f, type, code)
  PROVE  Wire' = Append(Wire,
                        Server!SentFrame(type, f.session, generation[f.session], f.id, code))
<1> DEFINE e == Frame(type, f.session, generation[f.session], f.id, code, None, 0)
<1>1. e \in HostFrames
  BY FrameType DEF HostInv, InductiveInv, TypeOK, ServerOK, Requests
<1>2. outbox = <<>> /\ outbox' = <<>> /\ pipe' = Append(pipe, e)
  BY DEF HostInv, OutputInv, Take, Reply
<1>3. Shown(e) = Server!SentFrame(type, f.session, generation[f.session], f.id, code)
  BY ShownFrame
<1> HIDE DEF e
<1> QED
  BY <1>1, <1>2, <1>3, WireReply DEF HostInv

\* A request refused.
LEMMA RejectImplements ==
  ASSUME HostInv, NEW f \in Requests, NEW code \in Codes, Take(f), Reject(f, code)
  PROVE  Server!Decline(f, code)
<1>1. Wire' = Append(Wire, Server!SentFrame("agent_error", f.session, generation[f.session],
                                            f.id, code))
  BY ReplyImplements DEF Reject, FrameTypes
<1>2. Table' = Table /\ nextGen' = nextGen
  BY TableSame DEF Reject, sessionVars
<1>3. Table[f.session].gen = generation[f.session]
  BY TableAt DEF Requests
<1> QED
  BY <1>1, <1>2, <1>3 DEF Server!Decline, Server!Answer, Table, Wire

\* A session the host has registered is one the abstract server holds.
LEMMA HeldRegistered ==
  ASSUME NEW s \in Sessions PROVE Server!Held(s) <=> Registered(s)
  BY TableAt DEF Server!Held, Registered, Table

\* The host and the abstract server refuse for the same reason.
LEMMA SameObjection ==
  ASSUME NEW f \in Requests PROVE Server!Objection(f) = Refusal(f)
<1>1. f.session \in Sessions
  BY DEF Requests
<1>2. /\ Server!Held(f.session) <=> Registered(f.session)
      /\ Table[f.session].next = expected[f.session]
      /\ Table[f.session].status = status[f.session]
  BY <1>1, HeldRegistered, TableAt
<1> QED
  BY <1>2 DEF Server!Objection, Refusal, Table

\* agent_start.
LEMMA StartImplements ==
  ASSUME HostInv, NEW f \in Requests, HandleStart(f)
  PROVE  Server!AcceptStart(f)
<1>1. f.session \in Sessions /\ Take(f) /\ f.type = "agent_start"
  BY DEF HandleStart, Requests
<1>2. Server!Held(f.session) <=> Registered(f.session)
  BY <1>1, HeldRegistered
<1>3. CASE (f.payload # f.session \/ f.seq # 1) /\ Reject(f, "invalid_request")
  BY <1>1, <1>3, RejectImplements DEF Server!AcceptStart, Codes
<1>4. CASE f.payload = f.session /\ f.seq = 1 /\ Registered(f.session) /\ Reject(f, "agent_busy")
  BY <1>1, <1>2, <1>4, RejectImplements DEF Server!AcceptStart, Codes
<1>5. CASE /\ f.payload = f.session /\ f.seq = 1 /\ ~Registered(f.session) /\ nextGen < MaxGen
           /\ nextGen' = nextGen + 1
           /\ status' = [status EXCEPT ![f.session] = "ready"]
           /\ generation' = [generation EXCEPT ![f.session] = nextGen + 1]
           /\ expected' = [expected EXCEPT ![f.session] = 2]
           /\ pipe' = Append(pipe, Frame("agent_started", f.session, nextGen + 1, f.id, "none",
                                         None, 0))
  <2> DEFINE e == Frame("agent_started", f.session, nextGen + 1, f.id, "none", None, 0)
             new == [status |-> "ready", gen |-> nextGen + 1, next |-> 2]
  <2>1. nextGen + 1 \in 0..MaxGen
    BY <1>5, HostAssumption DEF HostAssumption, HostInv, InductiveInv, TypeOK, ServerOK
  <2>2. e \in HostFrames
    BY <1>1, <2>1, FrameType DEF Requests, FrameTypes, Codes
  <2>3. Shown(e) = Server!SentFrame("agent_started", f.session, nextGen + 1, f.id, "none")
    BY ShownFrame
  <2>4. outbox = <<>> /\ outbox' = <<>> /\ pipe' = Append(pipe, e)
    BY <1>1, <1>5 DEF HostInv, OutputInv, Take
  <2> HIDE DEF e
  <2>5. Wire' = Append(Wire, Server!SentFrame("agent_started", f.session, nextGen + 1, f.id,
                                              "none"))
    BY <2>2, <2>3, <2>4, WireReply DEF HostInv
  <2>6. Table' = [Table EXCEPT ![f.session] = new]
    BY <1>5 DEF Table, HostInv, InductiveInv, TypeOK, ServerOK
  <2> QED
    BY <1>1, <1>2, <1>5, <2>5, <2>6 DEF Server!AcceptStart, Server!Answer, Table, Wire
<1> QED
  BY <1>3, <1>4, <1>5 DEF HandleStart

\* agent_message.
LEMMA MessageImplements ==
  ASSUME HostInv, NEW f \in Requests, HandleMessage(f)
  PROVE  Server!AcceptMessage(f)
<1>1. f.session \in Sessions /\ Take(f) /\ f.type = "agent_message"
  BY DEF HandleMessage, Requests
<1>2. CASE Refusal(f) # "none"
  BY <1>1, <1>2, RejectImplements, RefusalCode, SameObjection
  DEF HandleMessage, Server!AcceptMessage
<1>3. CASE Refusal(f) = "none"
  <2>1. /\ expected' = [expected EXCEPT ![f.session] = @ + 1]
        /\ status' = [status EXCEPT ![f.session] = "processing"]
        /\ UNCHANGED <<generation, nextGen, pipe, outbox>>
    BY <1>1, <1>3 DEF HandleMessage, Take
  <2>2. Table' = [Table EXCEPT ![f.session].status = "processing", ![f.session].next = @ + 1]
    BY <1>1, <2>1 DEF Table, HostInv, InductiveInv, TypeOK, ServerOK
  <2>3. Wire' = Wire
    BY <2>1 DEF Wire, Stream
  <2> QED
    BY <1>1, <1>3, <2>1, <2>2, <2>3, SameObjection DEF Server!AcceptMessage, Table, Wire
<1> QED
  BY <1>2, <1>3

\* agent_stop.
LEMMA StopImplements ==
  ASSUME HostInv, NEW f \in Requests, HandleStop(f)
  PROVE  Server!AcceptStop(f)
<1>1. f.session \in Sessions /\ Take(f) /\ f.type = "agent_stop"
  BY DEF HandleStop, Requests
<1>2. CASE Refusal(f) # "none"
  BY <1>1, <1>2, RejectImplements, RefusalCode, SameObjection DEF HandleStop, Server!AcceptStop
<1>3. CASE Refusal(f) = "none"
  <2>1. Reply(f, "agent_stopped", "none") /\ Remove({f.session})
    BY <1>3 DEF HandleStop
  <2>2. Wire' = Append(Wire, Server!SentFrame("agent_stopped", f.session, generation[f.session],
                                              f.id, "none"))
    BY <1>1, <2>1, ReplyImplements DEF FrameTypes, Codes
  <2>3. Table' = [Table EXCEPT ![f.session] = Server!Absent] /\ nextGen' = nextGen
    BY <1>1, <2>1 DEF Table, Remove, Server!Absent
  <2>4. Table[f.session].gen = generation[f.session]
    BY <1>1, TableAt
  <2> QED
    BY <1>1, <1>3, <2>2, <2>3, <2>4, SameObjection
    DEF Server!AcceptStop, Server!Answer, Table, Wire
<1> QED
  BY <1>2, <1>3

\* Requests that only read.
LEMMA QueryImplements ==
  ASSUME HostInv, NEW f \in Requests, HandleQuery(f)
  PROVE  Server!AnswerQuery(f)
<1>1. f.session \in Sessions /\ Take(f) /\ f.type \in Queries
      /\ UNCHANGED <<status, generation, expected, nextGen>>
  BY DEF HandleQuery, Requests, sessionVars
<1>2. Table' = Table /\ Table[f.session].gen = generation[f.session]
  BY <1>1, TableSame, TableAt
<1>3. CASE UNCHANGED pipe
  <2>1. Wire' = Wire
    BY <1>1, <1>3 DEF Wire, Stream, Take
  <2> QED
    BY <1>1, <1>2, <2>1 DEF Server!AnswerQuery, Queries, Table, Wire
<1>4. ASSUME NEW type, NEW code, Reply(f, type, code),
             <<type, code>> \in {<<"nack", "not_implemented">>, <<"tool_list_response", "none">>,
                <<"pong", "none">>, <<"session_info", "none">>,
                <<"agent_error", "invalid_request">>, <<"agent_error", "agent_not_found">>}
      PROVE  Server!AnswerQuery(f)
  <2>1. type \in FrameTypes /\ code \in Codes
    BY <1>4 DEF FrameTypes, Codes
  <2>2. Wire' = Append(Wire, Server!SentFrame(type, f.session, generation[f.session], f.id, code))
    BY <1>1, <1>4, <2>1, ReplyImplements
  <2>3. Server!Answer(f, type, Table[f.session].gen, code)
    BY <1>2, <2>2 DEF Server!Answer, Wire
  <2> QED
    BY <1>1, <1>2, <1>4, <2>3 DEF Server!AnswerQuery, Queries, Table
<1> QED
  BY <1>3, <1>4 DEF HandleQuery

-----------------------------------------------------------------------------
(***************************************************************************)
(* Output of runs, evictions and the lines the client reads.               *)
(***************************************************************************)

\* What the abstract server sends for a run of session s.
LEMMA RunSendsFrame ==
  ASSUME NEW s \in Sessions, NEW type, NEW code
  PROVE  Server!RunSends(s, type, code) = Server!SentFrame(type, s, generation[s], None, code)
  BY TableAt DEF Server!RunSends, Table

\* A session whose registration has a run is processing.
LEMMA RunProcesses ==
  ASSUME InductiveInv, NEW s \in Sessions, generation[s] \in Gens, Active(generation[s])
  PROVE  status[s] = "processing"
<1>1. pending[s] \in Nat /\ Unsettled(s) = pending[s] + 1
  BY DEF InductiveInv, TypeOK, ServerOK, Unsettled
<1>2. Unsettled(s) = IF status[s] = "processing" THEN 1 ELSE 0
  BY DEF InductiveInv, OneUnsettledMessage
<1> QED
  BY <1>1, <1>2

\* One or two frames, as the client sees them.
LEMMA StreamFew ==
  ASSUME NEW a \in HostFrames, NEW b \in HostFrames
  PROVE  Stream(<<a>>) = <<Shown(a)>> /\ Stream(<<a, b>>) = <<Shown(a), Shown(b)>>
<1>1. /\ <<>> \in Seq(HostFrames) /\ <<a>> \in Seq(HostFrames)
      /\ Append(<<>>, a) = <<a>> /\ Append(<<a>>, b) = <<a, b>>
  <2>1. <<>> \in Seq(HostFrames) /\ <<a>> \in Seq(HostFrames)
    OBVIOUS
  <2>2. Append(<<>>, a) = <<a>>
    OBVIOUS
  <2>3. Append(<<a>>, b) = <<a, b>>
    <3>1. <<a>> \in Seq(HostFrames) /\ <<a, b>> \in Seq(HostFrames) /\ Len(<<a, b>>) = 2
          /\ <<a, b>>[1] = a /\ <<a, b>>[2] = b
      OBVIOUS
    <3>2. Append(<<a>>, b) \in Seq(HostFrames) /\ Len(Append(<<a>>, b)) = 2
          /\ Append(<<a>>, b)[1] = a /\ Append(<<a>>, b)[2] = b
      BY <3>1
    <3>3. \A i \in 1..2 : i = 1 \/ i = 2
      OBVIOUS
    <3> DEFINE x == Append(<<a>>, b)
               y == <<a, b>>
    <3> HIDE DEF x, y
    <3> QED
      BY <3>1, <3>2, <3>3, SameElements DEF x, y
  <2> QED
    BY <2>1, <2>2, <2>3
<1>2. Stream(<<a>>) = Append(<<>>, Shown(a))
  BY <1>1, StreamAppend, StreamEmpty
<1>3. Stream(<<a, b>>) = Append(Stream(<<a>>), Shown(b))
  BY <1>1, StreamAppend
<1> QED
  BY <1>2, <1>3

\* One frame of a run, queued.
LEMMA WireOne ==
  ASSUME InductiveInv, pipe' = pipe, NEW e \in HostFrames, outbox' = Append(outbox, e)
  PROVE  Wire' = Append(Wire, Shown(e))
<1>1. outbox \in Seq(HostFrames) /\ <<e>> \in Seq(HostFrames)
      /\ pipe \in Seq(HostFrames)
  BY DEF InductiveInv, TypeOK, FramesOK
<1>2. Append(outbox, e) = outbox \o <<e>>
  BY <1>1
<1>3. Wire' = Wire \o <<Shown(e)>>
  BY <1>1, <1>2, WireOutput, StreamFew
<1>4. Wire \in Seq(ShownFrames) /\ Shown(e) \in ShownFrames
  BY <1>1, StreamType, SeqConcat DEF Wire, Shown, HostFrames, ShownFrames
<1>5. \A w \in Seq(ShownFrames), x \in ShownFrames : w \o <<x>> = Append(w, x)
  OBVIOUS
<1> QED
  BY <1>3, <1>4, <1>5

\* A run shows one frame.
LEMMA ShowImplements ==
  ASSUME HostInv, NEW s \in Sessions, generation[s] \in Gens, Active(generation[s]),
         NEW type \in {"agent_event", "tool_execute"}, NEW c \in ToolCalls \union {None},
         NEW m \in Nat,
         outbox' = Append(outbox, Frame(type, s, generation[s], None, "none", c, m)),
         UNCHANGED <<status, generation, expected, nextGen, pipe>>
  PROVE  Server!Show(s)
<1> DEFINE e == Frame(type, s, generation[s], None, "none", c, m)
<1>1. e \in HostFrames
  BY FrameType DEF HostInv, InductiveInv, TypeOK, ServerOK, FrameTypes, Codes
<1>2. Shown(e) = Server!RunSends(s, type, "none")
  BY ShownFrame, RunSendsFrame
<1> HIDE DEF e
<1>3. Wire' = Append(Wire, Shown(e))
  BY <1>1, WireOne DEF HostInv, e
<1>4. Table' = Table /\ Table[s].status = "processing"
  BY TableSame, TableAt, RunProcesses DEF HostInv
<1> QED
  BY <1>2, <1>3, <1>4 DEF Server!Show, Table, Wire

\* A run, or a message no run could be started for, settles with a failure.
LEMMA FailureImplements ==
  ASSUME HostInv, NEW s \in Sessions, status[s] = "processing",
         NEW code \in {"internal_error", "tool_execution_error"},
         outbox' = FailurePair(s, generation[s], code), status' = [status EXCEPT ![s] = "error"],
         UNCHANGED <<generation, expected, nextGen, pipe>>
  PROVE  Server!Settle(s)
<1> DEFINE a == RunFrame("agent_event", s, generation[s], code)
           b == RunFrame("agent_error", s, generation[s], code)
<1>1. a \in HostFrames /\ b \in HostFrames
  BY FrameType DEF HostInv, InductiveInv, TypeOK, ServerOK, FrameTypes, Codes, RunFrame
<1>2. /\ Shown(a) = Server!RunSends(s, "agent_event", code)
      /\ Shown(b) = Server!RunSends(s, "agent_error", code)
  BY ShownFrame, RunSendsFrame DEF RunFrame
<1>3. outbox' = outbox \o <<a, b>>
  BY DEF FailurePair
<1> HIDE DEF a, b
<1>4. <<a, b>> \in Seq(HostFrames)
  BY <1>1
<1>5. Wire' = Wire \o <<Shown(a), Shown(b)>>
  BY <1>1, <1>3, <1>4, WireOutput, StreamFew DEF HostInv
<1>6. Table' = [Table EXCEPT ![s].status = "error"]
  BY DEF Table, HostInv, InductiveInv, TypeOK, ServerOK
<1>7. Table[s].status = "processing"
  BY TableAt
<1> QED
  BY <1>2, <1>5, <1>6, <1>7 DEF Server!Settle, Table, Wire

\* A run settles with a result, and its end when that was seen.
LEMMA ResultImplements ==
  ASSUME HostInv, NEW s \in Sessions, status[s] = "processing",
         outbox' \in {outbox \o <<RunFrame("agent_result", s, generation[s], "none"),
                                  RunFrame("agent_end", s, generation[s], "none")>>,
                      outbox \o <<RunFrame("agent_result", s, generation[s], "none")>>},
         status' = [status EXCEPT ![s] = "ready"],
         UNCHANGED <<generation, expected, nextGen, pipe>>
  PROVE  Server!Settle(s)
<1> DEFINE a == RunFrame("agent_result", s, generation[s], "none")
           b == RunFrame("agent_end", s, generation[s], "none")
<1>1. a \in HostFrames /\ b \in HostFrames
  BY FrameType DEF HostInv, InductiveInv, TypeOK, ServerOK, FrameTypes, Codes, RunFrame
<1>2. /\ Shown(a) = Server!RunSends(s, "agent_result", "none")
      /\ Shown(b) = Server!RunSends(s, "agent_end", "none")
  BY ShownFrame, RunSendsFrame DEF RunFrame
<1>3. outbox' = outbox \o <<a, b>> \/ outbox' = outbox \o <<a>>
  OBVIOUS
<1> HIDE DEF a, b
<1>4. <<a, b>> \in Seq(HostFrames) /\ <<a>> \in Seq(HostFrames)
  BY <1>1
<1>5. Wire' \in {Wire \o <<Shown(a)>>, Wire \o <<Shown(a), Shown(b)>>}
  <2>1. CASE outbox' = outbox \o <<a, b>>
    BY <1>1, <1>4, <2>1, WireOutput, StreamFew DEF HostInv
  <2>2. CASE outbox' = outbox \o <<a>>
    BY <1>1, <1>4, <2>2, WireOutput, StreamFew DEF HostInv
  <2> QED
    BY <1>3, <2>1, <2>2
<1>6. Table' = [Table EXCEPT ![s].status = "ready"]
  BY DEF Table, HostInv, InductiveInv, TypeOK, ServerOK
<1>7. Table[s].status = "processing"
  BY TableAt
<1> QED
  BY <1>2, <1>5, <1>6, <1>7 DEF Server!Settle, Table, Wire

\* Idle sessions are evicted while the outbox moves to the pipe.
LEMMA EvictImplements ==
  ASSUME HostInv, NEW E \in SUBSET Sessions, FlushAndSweep(E)
  PROVE  Server!Evict(E)
<1>1. /\ pipe' = pipe \o outbox /\ outbox' = <<>> /\ Remove(E)
      /\ \A s \in E : status[s] \in {"ready", "error"}
  BY DEF FlushAndSweep
<1>2. pipe \in Seq(HostFrames) /\ outbox \in Seq(HostFrames)
  BY DEF HostInv, InductiveInv, TypeOK, FramesOK
<1>3. Stream(pipe \o outbox) = Stream(pipe) \o Stream(outbox)
  BY <1>2, StreamConcat
<1>4. Wire \in Seq(ShownFrames)
  BY <1>2, StreamType, SeqConcat DEF Wire
<1>5. \A w \in Seq(ShownFrames) : w \o <<>> = w
  OBVIOUS
<1>6. Wire' = Wire
  BY <1>1, <1>3, <1>4, <1>5, StreamEmpty DEF Wire
<1>7. Table' = [s \in Sessions |-> IF s \in E THEN Server!Absent ELSE Table[s]]
      /\ nextGen' = nextGen
  BY <1>1 DEF Table, Remove, Server!Absent
<1>8. \A s \in E : Table[s].status \in {"ready", "error"}
  BY <1>1, TableAt
<1> QED
  BY <1>6, <1>7, <1>8 DEF Server!Evict, Table, Wire

\* The client is given all that is in the pipe.
LEMMA DeliverImplements ==
  ASSUME HostInv, DrainOutbound
  PROVE  Server!ServerNext \/ UNCHANGED Server!serverVars
<1>1. /\ pipe' = <<>> /\ outbox = <<>> /\ outbox' = outbox
      /\ UNCHANGED <<status, generation, expected, nextGen>>
  BY DEF DrainOutbound, sessionVars, HostInv, OutputInv
<1>2. pipe \in Seq(HostFrames)
  BY DEF HostInv, InductiveInv, TypeOK, FramesOK
<1>3. Stream(pipe) \in Seq(ShownFrames)
  BY <1>2, StreamType
<1>4. \A w \in Seq(ShownFrames) : w \o <<>> = w
  OBVIOUS
<1>5. Wire = Stream(pipe) /\ Wire' = <<>> \o <<>>
  BY <1>1, <1>3, <1>4, StreamEmpty DEF Wire
<1>6. Wire' = <<>> /\ Wire \in Seq(ShownFrames)
  BY <1>3, <1>5
<1>7. Table' = Table
  BY <1>1, TableSame
<1>8. CASE Wire = <<>>
  BY <1>1, <1>6, <1>7, <1>8 DEF Server!serverVars, Table, Wire
<1>9. CASE Wire # <<>>
  <2>1. Len(Wire) \in 1..Len(Wire) /\ SubSeq(Wire, Len(Wire) + 1, Len(Wire)) = <<>>
    BY <1>6, <1>9
  <2>2. Server!Deliver(Len(Wire))
    BY <1>1, <1>6, <1>7, <2>1 DEF Server!Deliver, Table, Wire
  <2> QED
    BY <2>1, <2>2 DEF Server!ServerNext, Wire
<1> QED
  BY <1>8, <1>9

-----------------------------------------------------------------------------
\* A step in which the table and the frames stay as they are.
LEMMA Stutters ==
  ASSUME UNCHANGED <<status, generation, expected, nextGen, pipe, outbox>>
  PROVE  UNCHANGED Server!serverVars
<1>1. Table' = Table
  BY TableSame
<1>2. Wire' = Wire
  BY DEF Wire, Stream
<1> QED
  BY <1>1, <1>2 DEF Server!serverVars, Table, Wire

\* A line the loop reads is a request served, or a tool result.
LEMMA DispatchImplements ==
  ASSUME HostInv, Dispatch
  PROVE  Server!ServerNext \/ UNCHANGED Server!serverVars
<1> DEFINE f == Head(stdin)
<1>1. f \in Requests \union ToolResults
  BY SeqTake DEF Dispatch, HostInv, InductiveInv, TypeOK, ClientOK
<1>2. CASE f \in Requests
  <2>1. f.type # "tool_result"
    BY <1>2 DEF Requests, Commands, Queries
  <2>2. PICK e \in Requests : HandleStart(e) \/ HandleMessage(e) \/ HandleStop(e) \/ HandleQuery(e)
    BY <1>2, <2>1 DEF Dispatch, HandleToolResult
  <2>3. Server!Serve(e)
    BY <2>2, StartImplements, MessageImplements, StopImplements, QueryImplements
    DEF Server!Serve
  <2> QED
    BY <2>3 DEF Server!ServerNext
<1>3. CASE f \in ToolResults
  <2>1. HandleToolResult(f)
    BY <1>3
    DEF Dispatch, ToolResults, HandleStart, HandleMessage, HandleStop, HandleQuery, Queries
  <2> QED
    BY <2>1, Stutters DEF HandleToolResult, Take, sessionVars
<1> QED
  BY <1>1, <1>2, <1>3

\* A run that cannot be started settles.
LEMMA StartRunImplements ==
  ASSUME HostInv, NEW s \in Sessions, StartRun(s)
  PROVE  Server!ServerNext \/ UNCHANGED Server!serverVars
<1>1. CASE UNCHANGED <<status, outbox>>
  BY <1>1, Stutters DEF StartRun
<1>2. CASE /\ status' = [status EXCEPT ![s] = "error"]
           /\ outbox' = FailurePair(s, generation[s], "internal_error")
  <2>1. pending[s] \in Nat /\ pending[s] > 0
        /\ Unsettled(s) = IF status[s] = "processing" THEN 1 ELSE 0
    BY DEF StartRun, HostInv, InductiveInv, TypeOK, ServerOK, OneUnsettledMessage
  <2>2. status[s] = "processing"
    BY <2>1 DEF Unsettled
  <2>3. Server!Settle(s)
    BY <1>2, <2>2, FailureImplements DEF StartRun
  <2> QED
    BY <2>3 DEF Server!ServerNext
<1> QED
  BY <1>1, <1>2 DEF StartRun

\* An event of the visited run is shown, or dropped.
LEMMA ForwardImplements ==
  ASSUME HostInv, ForwardEvent
  PROVE  Server!ServerNext \/ UNCHANGED Server!serverVars
<1> DEFINE s == run[visit].session
<1>1. UNCHANGED <<status, generation, expected, nextGen, pipe>>
  BY DEF ForwardEvent, sessionVars
<1>2. visit \in Gens /\ Active(visit) /\ s \in Sessions
  BY DEF ForwardEvent, HostInv, InductiveInv, VisitsActive, RunsBound
<1>3. CASE outbox' = outbox
  BY <1>1, <1>3, Stutters
<1>4. CASE /\ Current(visit)
           /\ outbox' = Append(outbox, RunFrame("agent_event", s, visit, "none"))
  <2>1. generation[s] = visit
    BY <1>4 DEF Current
  <2>2. outbox' = Append(outbox, Frame("agent_event", s, generation[s], None, "none", None, 0))
    BY <1>4, <2>1 DEF RunFrame
  <2>3. Server!Show(s)
    BY <1>1, <1>2, <2>1, <2>2, ShowImplements
  <2> QED
    BY <1>2, <2>3 DEF Server!ServerNext
<1> QED
  BY <1>3, <1>4 DEF ForwardEvent

\* The visited run settles, if its registration is current.
LEMMA SettleImplements ==
  ASSUME HostInv, SettleRun
  PROVE  Server!ServerNext \/ UNCHANGED Server!serverVars
<1> DEFINE s == run[visit].session
<1>1. UNCHANGED <<generation, expected, nextGen, pipe>>
  BY DEF SettleRun
<1>2. visit \in Gens /\ Active(visit) /\ s \in Sessions
  BY DEF SettleRun, HostInv, InductiveInv, VisitsActive, RunsBound
<1>3. CASE UNCHANGED <<status, outbox>>
  BY <1>1, <1>3, Stutters
<1>4. CASE /\ Current(visit) /\ outbox' = Settlement(visit)
           /\ status' = [status EXCEPT ![s] = StatusAfter(visit)]
  <2>1. generation[s] = visit /\ status[s] = "processing"
    BY <1>2, <1>4, RunProcesses DEF Current, HostInv
  <2>2. CASE run[visit].disconnectFailed
    <3>1. /\ outbox' = FailurePair(s, generation[s], "tool_execution_error")
          /\ status' = [status EXCEPT ![s] = "error"]
      BY <1>4, <2>1, <2>2 DEF Settlement, StatusAfter
    <3> QED
      BY <1>1, <1>2, <2>1, <3>1, FailureImplements DEF Server!ServerNext
  <2>3. CASE ~run[visit].disconnectFailed /\ run[visit].outcome = "error"
    <3>1. /\ outbox' = FailurePair(s, generation[s], "internal_error")
          /\ status' = [status EXCEPT ![s] = "error"]
      BY <1>4, <2>1, <2>3 DEF Settlement, StatusAfter
    <3> QED
      BY <1>1, <1>2, <2>1, <3>1, FailureImplements DEF Server!ServerNext
  <2>4. CASE ~run[visit].disconnectFailed /\ run[visit].outcome # "error"
    <3>1. /\ outbox' \in {outbox \o <<RunFrame("agent_result", s, generation[s], "none"),
                                      RunFrame("agent_end", s, generation[s], "none")>>,
                          outbox \o <<RunFrame("agent_result", s, generation[s], "none")>>}
          /\ status' = [status EXCEPT ![s] = "ready"]
      BY <1>4, <2>1, <2>4 DEF Settlement, StatusAfter
    <3> QED
      BY <1>1, <1>2, <2>1, <3>1, ResultImplements DEF Server!ServerNext
  <2> QED
    BY <2>2, <2>3, <2>4
<1> QED
  BY <1>3, <1>4 DEF SettleRun

\* A published tool request is of a run whose session is processing.
LEMMA PublishImplements ==
  ASSUME HostInv, NEW q \in requests, PublishTool(q)
  PROVE  Server!ServerNext \/ UNCHANGED Server!serverVars
<1>1. UNCHANGED <<status, generation, expected, nextGen, pipe>>
  BY DEF PublishTool, sessionVars
<1>2. CASE UNCHANGED outbox
  BY <1>1, <1>2, Stutters
<1>3. CASE /\ generation[q.session] = q.gen /\ ~disconnected
           /\ outbox' = Append(outbox, Frame("tool_execute", q.session, q.gen, None, "none",
                                             q.call, nextMid + 1))
  <2>1. q.session \in Sessions /\ q.gen \in Gens /\ q.call \in ToolCalls /\ nextMid + 1 \in Nat
    BY BridgeTypes DEF HostInv
  <2>2. Active(q.gen)
    BY <1>3 DEF HostInv, AnswerInv, RequestsAwaited, WaitsFor, Waiting, Active
  <2>3. Server!Show(q.session)
    BY <1>1, <1>3, <2>1, <2>2, ShowImplements
  <2> QED
    BY <2>1, <2>3 DEF Server!ServerNext
<1> QED
  BY <1>2, <1>3 DEF PublishTool

\* Every step is one of the abstract server, or none it can tell.
LEMMA StepImplements ==
  ASSUME HostInv, [Next]_vars
  PROVE  Server!ServerNext \/ UNCHANGED Server!serverVars
<1>1. CASE \E E \in SUBSET Sessions : FlushAndSweep(E)
  BY <1>1, EvictImplements DEF Server!ServerNext
<1>2. CASE \/ PollEmpty \/ CheckEof \/ StartDone \/ (\E g \in Gens : VisitRun(g)) \/ DrainDone
           \/ RunsDone \/ ToolsDone
  BY <1>2, Stutters
  DEF PollEmpty, CheckEof, StartDone, VisitRun, DrainDone, RunsDone, ToolsDone, sessionVars,
  outVars
<1>3. CASE \E g \in Gens : Worker(g)
  BY <1>3, Stutters
  DEF Worker, PushBlocks, EmitEvent, CallTool, TakeResult, ToolCancelled, MissResult, CheckLatch, EmitEnd,
      Complete, WorkerFrame, sessionVars, outVars
<1>4. CASE ClientSend \/ ClientAnswer \/ CloseStdin \/ UNCHANGED vars
  BY <1>4, ClientLine, Stutters DEF vars, sessionVars, outVars, HostInv
<1> QED
  BY <1>1, <1>2, <1>3, <1>4, DispatchImplements, StartRunImplements, ForwardImplements,
     SettleImplements, PublishImplements, DeliverImplements DEF Next, Loop

(***************************************************************************)
(* AgentHost implements SessionServer: what AgentCall assumes of its       *)
(* server holds of the loop, its workers and its queues, for any sessions, *)
(* requests and bounds.                                                    *)
(***************************************************************************)
THEOREM HostImplementsServer == Spec => ImplementsServer
<1>1. Init => Server!ServerInit
  BY InitImplements
<1>2. HostInv /\ [Next]_vars => [Server!ServerNext]_(Server!serverVars)
  BY StepImplements
<1>3. InductiveInv /\ OutputInv /\ AnswerInv => HostInv
  BY DEF HostInv
<1> QED
  BY <1>1, <1>2, <1>3, HostInvariant, OutputInvariant, AnswerInvariant, PTL
  DEF Spec, ImplementsServer, Server!ServerSpec

=============================================================================
