------------------------------- MODULE AgentRun -------------------------------
(***************************************************************************)
(* One agent run seen end to end: the runtime's agent loop                 *)
(* (zig/src/agent/agent_loop.zig), the frames its host makes of the loop's *)
(* events (zig/src/tools/makai.zig), and what agent.run and agent.stream   *)
(* of the Python SDK (execution.py) make of the frames with Normalize.     *)
(*                                                                         *)
(* The operation is chosen at the start: a run, a stream of one, or the    *)
(* models.resolve of ModelCatalog that an application calls before.        *)
(* A run's message has been accepted (AgentCall models the handshake and   *)
(* the way out) and its channel loses nothing.  Two runtimes: "runtime" is *)
(* the Zig host; "compact" is the server of the SDK's own tests, which     *)
(* sends provider events as frames of their own, other names of the same   *)
(* keys, a bare toolcall_end, and may settle by agent_end alone.           *)
(*                                                                         *)
(* Abstractions.  Steering, follow-ups and cancellation are left out;      *)
(* while a tool call is open a provider sends nothing but tool calls, and  *)
(* closes them in order.                                                   *)
(***************************************************************************)
EXTENDS Normalize, ModelCatalog

CONSTANTS
  CallIds,        \* the ids a provider gives its tool calls, in the order it makes them
  MaxIterations,  \* max_iterations of the loop
  MaxFragments,   \* bound: deltas of the run
  MaxCalls,       \* bound: tool calls of the run
  MaxFrames       \* bound: frames on the wire when the loop goes on

ASSUME RunAssumption ==
  /\ CallIds \in Seq(STRING) /\ MaxCalls \in 0..Len(CallIds)
  /\ {MaxIterations, MaxFragments, MaxFrames} \subseteq Nat

VARIABLES
  setup,   \* the operation, the runtime and the model's api
  loop,    \* the agent loop: where it is and the message being streamed
  finals,  \* the messages of the finished turns, with a history of what was streamed of each
  wire,    \* frames to the client
  reply,   \* the tool_result on its way back
  buffers, \* _session: the tool calls not yet whole
  seen,    \* _run_once or _stream_once: the locals, and the events taken or shown
  out      \* the caller's result: kind "none" until there is one

runVars == <<setup, loop, finals, wire, reply, buffers, seen, out>>
vars == <<runVars, catalogVars>>

Pending == [kind |-> "none"]

Compact == setup.runtime = "compact"

Init ==
  /\ setup \in [op : {"run", "stream", "resolve"}, runtime : {"runtime", "compact"},
                api : {"anthropic-messages", "openai"}]
  /\ CatalogInit
  /\ IF setup.op = "resolve" THEN Compact /\ setup.api = "openai" ELSE catalog = <<>>
  /\ loop = [pc |-> "prompt", content |-> <<>>, open |-> {}, started |-> FALSE,
             fragments |-> 0, calls |-> 0, next |-> 0, termination |-> ""]
  /\ finals = <<>> /\ wire = <<>> /\ reply = FALSE
  /\ seen = [started |-> FALSE, sum |-> NoUsage, executed |-> FALSE, events |-> <<>>]
  /\ buffers = <<>>
  /\ out = Pending

Turn == Len(finals) + 1

-----------------------------------------------------------------------------
(* The wire: what serializeAgentLoopEvent and its publishers write. *)

Sends(frames) ==
  /\ Len(wire) < MaxFrames
  /\ wire' = wire \o frames

AgentEventFrame(e) == [type |-> "agent_event", payload |-> [event_json |-> e]]

\* A provider event of the message under way.
Update(e) ==
  IF Compact THEN [type |-> e.type, payload |-> e]
  ELSE AgentEventFrame([type |-> "message_update", event |-> e])

Metadata ==
  IF Compact THEN [provider_id |-> "p", model_id |-> "m", api |-> setup.api]
  ELSE [provider |-> "p", model |-> "m", api |-> setup.api]

\* The tokens of a turn; they differ from turn to turn, and cached ones come and go.
Spent(turn) ==
  IF turn = 1 THEN [input |-> 3, output |-> 1] ELSE [input |-> 5, output |-> 2, cache_read |-> 4]

\* The Zig host always writes the cache counts.
Counted(usage) == IF Compact THEN usage ELSE usage ++ [cache_read |-> 0]

UsageFields(usage) ==
  IF Compact /\ "cache_read" \notin DOMAIN usage
    THEN [input_tokens |-> usage.input, output_tokens |-> usage.output]
    ELSE Counted(usage)

ErrorField(message) == IF message = "" THEN <<>> ELSE [error_message |-> message]

MessageEndFrame(usage, stop_reason, error_message) ==
  LET fields == [stop_reason |-> stop_reason, usage |-> UsageFields(usage)]
                  ++ ErrorField(error_message)
  IN  IF Compact THEN [type |-> "message_end", payload |-> fields]
      ELSE AgentEventFrame([type |-> "message_end"] ++ fields)

\* A user's or a tool's message carries neither metadata nor usage.
OtherMessage ==
  <<AgentEventFrame([type |-> "message_start"]), AgentEventFrame([type |-> "message_end"])>>

-----------------------------------------------------------------------------
(* The loop: runLoop, streamAssistantResponse, executeToolCalls. *)

Running == setup.op # "resolve" /\ UNCHANGED <<setup, catalogVars>>

LoopStep == Running /\ UNCHANGED <<reply, buffers, seen, out>>

Go(pc) == loop' = [loop EXCEPT !.pc = pc]

\* The message is complete: it is among the run's messages, and the last of them.
Completes(pc, final) ==
  /\ loop' = [loop EXCEPT !.pc = pc, !.content = <<>>, !.open = {}]
  /\ finals' = Append(finals, final)

Prompted ==
  /\ loop.pc = "prompt" /\ Go("turn")
  /\ Sends((IF Compact THEN <<>> ELSE OtherMessage)
             \o <<AgentEventFrame([type |-> "agent_start"])>>)
  /\ UNCHANGED finals /\ LoopStep

TurnBegins ==
  /\ loop.pc = "turn" /\ Len(finals) < MaxIterations
  /\ loop' = [loop EXCEPT !.pc = "message", !.content = <<>>, !.started = FALSE, !.next = 0]
  /\ Sends(<<AgentEventFrame([type |-> "turn_start"])>>)
  /\ UNCHANGED finals /\ LoopStep

ProviderStarts ==
  /\ loop.pc = "message" /\ ~loop.started
  /\ loop' = [loop EXCEPT !.started = TRUE]
  /\ Sends(<<AgentEventFrame([type |-> "message_start"] ++ Metadata)>>)
  /\ UNCHANGED finals /\ LoopStep

Streaming == loop.pc = "message" /\ loop.started

Fragment == <<<<Turn, loop.fragments>>>>

Counting == loop.fragments < MaxFragments

ExtendsLast(type) == loop.content # <<>> /\ Last(loop.content).type = type

Text ==
  /\ Streaming /\ loop.open = {} /\ Counting
  /\ LET content == IF ExtendsLast("text")
                      THEN [loop.content EXCEPT ![Len(loop.content)].text = @ \o Fragment]
                      ELSE Append(loop.content, TextPart(Fragment))
     IN  /\ loop' = [loop EXCEPT !.fragments = @ + 1, !.content = content]
         /\ Sends(<<Update([type |-> "text_delta", content_index |-> Len(content),
                            delta |-> Fragment])>>)
  /\ UNCHANGED finals /\ LoopStep

Thinking ==
  /\ Streaming /\ loop.open = {} /\ Counting
  /\ LET content == IF ExtendsLast("thinking")
                      THEN [loop.content EXCEPT ![Len(loop.content)].thinking = @ \o Fragment]
                      ELSE Append(loop.content, ThinkingPart(Fragment))
     IN  /\ loop' = [loop EXCEPT !.fragments = @ + 1, !.content = content]
         /\ Sends(<<Update(IF Compact THEN [type |-> "reasoning", delta |-> Fragment]
                           ELSE [type |-> "thinking_delta", content_index |-> Len(content),
                                 delta |-> Fragment])>>)
  /\ UNCHANGED finals /\ LoopStep

ToolStarts ==
  /\ Streaming /\ loop.calls < MaxCalls
  /\ LET id == CallIds[loop.calls + 1]
         index == Len(loop.content) + 1
     IN  /\ loop' = [loop EXCEPT !.calls = @ + 1, !.open = @ \cup {index},
              !.content = Append(@, [type |-> "tool_call", id |-> id, name |-> "lookup",
                                     arguments_json |-> <<>>])]
         /\ Sends(<<Update([type |-> "toolcall_start", content_index |-> index, id |-> id,
                            name |-> "lookup"])>>)
  /\ UNCHANGED finals /\ LoopStep

ToolGrows(index) ==
  /\ Streaming /\ index \in loop.open /\ Counting
  /\ loop' = [loop EXCEPT !.fragments = @ + 1, !.content[index].arguments_json = @ \o Fragment]
  /\ Sends(<<Update([type |-> "toolcall_delta", content_index |-> index, delta |-> Fragment])>>)
  /\ UNCHANGED finals /\ LoopStep

ToolCloses(index) ==
  /\ Streaming /\ index \in loop.open /\ \A other \in loop.open : index <= other
  /\ loop' = [loop EXCEPT !.open = @ \ {index}]
  /\ LET whole == [k \in {"id", "name", "arguments_json"} |-> loop.content[index][k]]
         bare == [type |-> "toolcall_end", content_index |-> index]
     IN  Sends(<<Update(IF Compact THEN bare ELSE bare ++ whole)>>)
  /\ UNCHANGED finals /\ LoopStep

CallsOf(content) == {i \in DOMAIN content : content[i].type = "tool_call"}

\* What a call had not finished is not part of the message.
Closed == SubSeq(loop.content, 1, Len(loop.content) - Cardinality(loop.open))

\* The message the run keeps of a turn, and beside it what the provider had streamed of it.
Final(stop_reason, error_message, usage, content) ==
  [stop_reason |-> stop_reason, error_message |-> error_message, usage |-> usage,
   content |-> content, streamed |-> Closed]

TurnEndFrame(stop_reason, error_message) ==
  AgentEventFrame([type |-> "turn_end", stop_reason |-> stop_reason] ++ ErrorField(error_message))

\* done: stop_reason is tool_use when the message holds calls, which are executed next.
ProviderDone ==
  /\ Streaming /\ loop.open = {}
  /\ LET called == CallsOf(loop.content) # {}
         stop_reason == IF called THEN "tool_use" ELSE "stop"
     IN  /\ Completes(IF called THEN "tools" ELSE "settle",
                      Final(stop_reason, "", Counted(Spent(Turn)), loop.content))
         /\ Sends(<<MessageEndFrame(Spent(Turn), stop_reason, "")>>
                    \o (IF called THEN <<>> ELSE <<TurnEndFrame(stop_reason, "")>>))
  /\ LoopStep

\* The final message is an error the provider sent: it ends the message, begun or not.
ProviderFails(message) ==
  /\ loop.pc = "message" /\ (Compact => loop.started)
  /\ Completes("settle", Final("error", message, Counted(Spent(Turn)), Closed))
  /\ Sends(<<MessageEndFrame(Spent(Turn), "error", message), TurnEndFrame("error", message)>>)
  /\ LoopStep

\* The stream was completed with an error, or could not be read: no message_end is sent, and
\* the loop makes a message of its own, of one empty text, in place of what was streamed.
ProviderBreaks(message) ==
  /\ loop.pc = "message" /\ ~Compact
  /\ Completes("settle", Final("error", message, Counted([input |-> 0, output |-> 0]),
                              <<TextPart(<<>>)>>))
  /\ Sends(<<TurnEndFrame("error", message)>>)
  /\ LoopStep

\* The body ended early: the message has its closed blocks (text or thinking at its end may
\* not have been one) and the stop reason no event has changed, so no call is executed.
ProviderCutOff(kept) ==
  /\ Streaming /\ ~Compact /\ kept # <<>>
  /\ kept = Closed \/ (loop.open = {} /\ Closed # <<>> /\ Last(Closed).type # "tool_call")
  /\ Completes("settle", Final("stop", "", Counted(Spent(Turn)), kept))
  /\ Sends(<<MessageEndFrame(Spent(Turn), "stop", ""), TurnEndFrame("stop", "")>>)
  /\ LoopStep

\* loop.next of its calls come before it.
ThisCall ==
  LET content == Last(finals).content
      calls == CallsOf(content)
  IN  content[CHOOSE i \in calls : Cardinality({j \in calls : j < i}) = loop.next]

\* The next call: a tool the client offered is executed by it, another fails here.
ToolBegins(known) ==
  /\ loop.pc = "tools" /\ loop.next < Cardinality(CallsOf(Last(finals).content))
  /\ LET begun == AgentEventFrame([type |-> "tool_execution_start", tool_call_id |-> ThisCall.id])
         ended == AgentEventFrame([type |-> "tool_execution_end", tool_call_id |-> ThisCall.id])
     IN  IF known
         THEN /\ Go("executing")
              /\ Sends(<<begun, [type |-> "tool_execute", payload |-> [tool_call_id |-> ThisCall.id]]>>)
         ELSE /\ loop' = [loop EXCEPT !.next = @ + 1]
              /\ Sends(<<begun, ended>>)
  /\ UNCHANGED finals /\ LoopStep

ToolEnds ==
  /\ loop.pc = "executing" /\ reply /\ reply' = FALSE
  /\ Sends(<<AgentEventFrame([type |-> "tool_execution_end", tool_call_id |-> ThisCall.id])>>)
  /\ loop' = [loop EXCEPT !.pc = "tools", !.next = @ + 1]
  /\ Running /\ UNCHANGED <<finals, buffers, seen, out>>

\* After turn_end each result is a message of its own; then the next turn, or max_turns.
ToolsDone ==
  /\ loop.pc = "tools" /\ loop.next = Cardinality(CallsOf(Last(finals).content))
  /\ loop' = IF Len(finals) = MaxIterations
               THEN [loop EXCEPT !.pc = "settle", !.termination = "max_turns"]
               ELSE [loop EXCEPT !.pc = "turn"]
  /\ Sends(<<TurnEndFrame("tool_use", "")>>
             \o (IF Compact THEN <<>> ELSE FlattenSeq([i \in 1..loop.next |-> OtherMessage])))
  /\ UNCHANGED finals /\ LoopStep

StopReason == IF loop.termination # "" THEN loop.termination ELSE Last(finals).stop_reason

AgentEndFrame ==
  AgentEventFrame([type |-> "agent_end", stop_reason |-> StopReason,
                   provider_id |-> "p", api |-> setup.api]
                    ++ ErrorField(Last(finals).error_message))

ResultFrame ==
  LET final == Last(finals)
      fields == [stop_reason |-> StopReason] ++ Metadata ++ ErrorField(final.error_message)
  IN  [type |-> "agent_result", payload |-> [result_json |->
         IF Compact THEN [message |-> [role |-> "assistant", content |-> final.content],
                          usage |-> UsageFields(final.usage)] ++ fields
         ELSE [content |-> final.content] ++ UsageFields(final.usage) ++ fields]]

\* agent_result, then the agent_end that was kept back; or agent_end alone.
Settles ==
  /\ loop.pc = "settle" /\ Go("ended")
  /\ \/ Sends(<<ResultFrame, AgentEndFrame>>)
     \/ Compact /\ Sends(<<AgentEndFrame>>)
  /\ UNCHANGED finals /\ LoopStep

\* A run whose loop failed, or one of whose events could not be published, settles with an
\* error event and an agent_error; the event may be the one that is lost.
RunFails ==
  /\ loop.pc \in {"message", "tools", "settle"} /\ Go("ended")
  /\ LET error == IF Compact
                    THEN [message |-> "failed", code |-> "auth_required", provider_id |-> "p"]
                    ELSE [message |-> "failed", code |-> "internal_error"]
         settled == [type |-> "agent_error", payload |-> error]
     IN  \/ Sends(<<AgentEventFrame([type |-> "error"] ++ error), settled>>)
         \/ Sends(<<settled>>)
  /\ UNCHANGED finals /\ LoopStep

LoopNext ==
  \/ Prompted \/ TurnBegins \/ ProviderStarts \/ Text \/ Thinking \/ ToolStarts
  \/ \E index \in loop.open : ToolGrows(index) \/ ToolCloses(index)
  \/ ProviderDone
  \/ \E message \in {"unauthorized", "authentication_error", "overloaded"} :
       ProviderFails(message) \/ ProviderBreaks(message)
  \/ \E kept \in {Closed, Front(Closed)} : ProviderCutOff(kept)
  \/ \E known \in BOOLEAN : ToolBegins(known)
  \/ ToolEnds \/ ToolsDone \/ Settles \/ RunFails

-----------------------------------------------------------------------------
(* The client: _session reads a frame, _run_once or _stream_once what it yields. *)

Fallback == "p"  \* the provider of the call's model_ref

AuthFailed(end) == end.stop_reason = "error" /\ IsAuthFailure(end.error_message, end.api)

\* _response_or_auth_error: a failed login is raised, and raised as retryable (a stream
\* error with the code auth_required) only when no tool was executed.
Checked(response, executed) ==
  IF ~AuthFailed(response) THEN [kind |-> "response", response |-> response]
  ELSE LET provider == Either(response.provider_id, Fallback)
       IN  IF executed /\ provider # "" THEN [kind |-> "needs_login", provider_id |-> provider]
           ELSE Raised("auth_required", provider)

RunEvent(event) ==
  LET executed == seen.executed \/ event.type \in {"tool_execution_start", "tool_execution_end"}
      events == Append(seen.events, event)
  IN  /\ seen' = [seen EXCEPT !.events = events, !.executed = executed]
      /\ out' = CASE event.type = "agent_end" -> Checked(BuildResponse(events), executed)
                  [] event.type = "error" -> Raised(event.code, event.provider_id)
                  [] OTHER -> Pending

\* A stream is given an agent_start of its own unless its first event is one.
Started(event) ==
  IF seen.started \/ event.type = "agent_start" THEN <<>>
  ELSE <<[type |-> "agent_start", session_id |-> "own"]>>

\* What is shown of an end: its usage is the sum of the turns', where there was one.
StreamEnds(end, sum) ==
  LET final == [end EXCEPT !.usage = IF sum # NoUsage THEN sum ELSE @]
  IN  IF AuthFailed(end)
      THEN /\ seen' = [seen EXCEPT !.started = TRUE, !.events = @ \o Started(end)]
           /\ out' = Raised("auth_required", Either(end.provider_id, Fallback))
      ELSE /\ seen' = [seen EXCEPT !.started = TRUE, !.events = @ \o Started(end) \o <<final>>]
           /\ out' = [kind |-> "ended"]

Summed(event) ==
  IF event.type # "message_end" \/ event.usage = NoUsage THEN seen.sum
  ELSE IF seen.sum = NoUsage THEN event.usage ELSE AddUsage(seen.sum, event.usage)

StreamEvent(event) ==
  IF event.type = "agent_end" THEN StreamEnds(event, seen.sum)
  ELSE /\ seen' = [seen EXCEPT !.started = TRUE, !.sum = Summed(event),
             !.events = @ \o Started(event)
                          \o (IF event.type = "error" /\ event.code = "auth_required" THEN <<>>
                              ELSE <<event>>)]
       /\ out' = IF event.type # "error" THEN Pending
                 ELSE IF event.code = "auth_required"
                   THEN Raised(event.code, Either(event.provider_id, Fallback))
                   ELSE [kind |-> "ended"]

\* agent_result: the response of a run, the last event of a stream.
Responds(response) ==
  IF setup.op = "run" THEN out' = Checked(response, seen.executed) /\ UNCHANGED seen
  ELSE StreamEnds([type |-> "agent_end", usage |-> response.usage,
                   stop_reason |-> response.stop_reason, error_message |-> response.error_message,
                   provider_id |-> response.provider_id, api |-> response.api], seen.sum)

Yields(event) == IF setup.op = "run" THEN RunEvent(event) ELSE StreamEvent(event)

Frame == Head(wire)

Reads ==
  /\ Running /\ out.kind = "none" /\ wire # <<>>
  /\ wire' = Tail(wire)
  /\ UNCHANGED <<loop, finals>>

\* The tool runs and its result is sent; that it ran is noted apart from the events.
ReadsToolExecute ==
  /\ Reads /\ Frame.type = "tool_execute"
  /\ reply' = TRUE
  /\ seen' = [seen EXCEPT !.executed = TRUE]
  /\ UNCHANGED <<buffers, out>>

ReadsResult ==
  /\ Reads /\ Frame.type = "agent_result"
  /\ Responds(RunResponseOf(JsonField(Frame, "result_json")))
  /\ UNCHANGED <<reply, buffers>>

ReadsError ==
  /\ Reads /\ Frame.type = "agent_error"
  /\ out' = ErrorFrameError(Frame)
  /\ UNCHANGED <<reply, buffers, seen>>

ReadsEvent ==
  /\ Reads /\ Frame.type \in KnownFrameTypes \ {"agent_result", "agent_error", "result"}
  /\ LET read == AgentFrame(Frame, buffers)
     IN  /\ buffers' = read.buffers
         /\ IF read.events = <<>> THEN UNCHANGED <<seen, out>> ELSE Yields(Head(read.events))
  /\ UNCHANGED reply

ClientNext == ReadsToolExecute \/ ReadsResult \/ ReadsError \/ ReadsEvent

Resolving == setup.op = "resolve" /\ UNCHANGED runVars

Next ==
  \/ LoopNext
  \/ ClientNext
  \/ \E request \in Requests : Resolving /\ Resolve(request)
  \/ Resolving /\ HandleModelsRequest
  \/ Resolving /\ DispatchReads
  \/ Resolving /\ DispatchTimesOut

Spec == Init /\ [][Next]_vars

-----------------------------------------------------------------------------
(* Properties. *)

EventTypes ==
  (AgentEventTypes \ {"tool_execution_update"}) \cup
  {"message_start", "message_end", "text_delta", "thinking_delta", "tool_call", "error"}

\* The variables have the types the code gives them, and what _session buffers is what the
\* provider has open: an index is taken over by the next turn's call only when it is free.
TypeOK ==
  /\ loop.pc \in {"prompt", "turn", "message", "tools", "executing", "settle", "ended"}
  /\ \A i \in DOMAIN seen.events : seen.events[i].type \in EventTypes
  /\ out.kind \in {"none", "response", "ended", "raised", "needs_login"}
  /\ reply => loop.pc = "executing"
  /\ wire = <<>> /\ loop.pc \notin {"settle", "ended"} => DOMAIN buffers = loop.open

\* What a message says: the fragments of its text and thinking in order, and its calls.
Say(type, of) == [i \in DOMAIN of |-> [type |-> type, of |-> of[i]]]

SaysCall(id, call) == <<[type |-> "tool_call", of |-> <<id, call.name, call.arguments_json>>]>>

PartSays(part) ==
  CASE part.type = "text" -> Say("text", part.text)
    [] part.type = "thinking" -> Say("thinking", part.thinking)
    [] OTHER -> SaysCall(First(part, <<"tool_call_id", "id">>, ""), part)

EventSays(e) ==
  CASE e.type = "text_delta" -> Say("text", e.delta)
    [] e.type = "thinking_delta" -> Say("thinking", e.delta)
    [] e.type = "tool_call" -> SaysCall(e.tool_call_id, e)
    [] OTHER -> <<>>

SaidIn(content) == FlattenSeq([i \in DOMAIN content |-> PartSays(content[i])])

SaidBy(events) == FlattenSeq([i \in DOMAIN events |-> EventSays(events[i])])

SaidByEvents == SaidBy(seen.events)

\* What the providers said, turn by turn; a message may hold less of it (ProviderBreaks).
SaidByRun ==
  FlattenSeq([i \in DOMAIN finals |-> SaidIn(finals[i].streamed)]) \o SaidIn(Closed)

\* The counts of some messages, added up.
SumOf(messages, key) ==
  LET sum[n \in 0..Len(messages)] ==
        IF n = 0 THEN 0 ELSE sum[n - 1] + First(messages[n].usage, <<key>>, 0)
  IN  sum[Len(messages)]

TotalOf(messages) ==
  LET counted == UNION {DOMAIN message.usage : message \in ToSet(messages)}
  IN  [key \in counted |-> SumOf(messages, key)]

ShownEnd == out.kind = "ended" /\ Last(seen.events).type = "agent_end"

\* The run a caller of agent.run is told of is the one that happened: whatever shape the
\* frames had and whichever frame settled it, the response holds what the last message of
\* the run said, its tokens, and the run's stop reason, never those of an earlier turn or
\* of another message; a failed login is never a response.
ResponseIsFinalMessage ==
  /\ out.kind = "response" =>
       LET final == Last(finals)
       IN  /\ SaidIn(out.response.content) = SaidIn(final.content)
           /\ out.response.usage = final.usage
           /\ out.response.stop_reason = StopReason
           /\ out.response.error_message = final.error_message
           /\ out.response.api = setup.api /\ out.response.provider_id = "p"
           /\ ~AuthFailed(out.response)
  /\ out.kind = "needs_login" => loop.calls > 0

\* What agent.stream shows is what the providers of the run's turns streamed, also of a turn
\* that broke off and whose message holds none of it (agent_loop.zig:929-961): in order,
\* nothing lost, doubled or moved between calls, each tool call once and whole; first an
\* agent_start, one terminal event and nothing after it, and a failed login is never shown
\* as an end.
StreamShowsRun ==
  /\ IsPrefix(SaidByEvents, SaidByRun)
  /\ \A i \in DOMAIN seen.events :
       seen.events[i].type \in {"agent_end", "error"} => i = Len(seen.events) /\ out.kind # "none"
  /\ setup.op = "stream" /\ seen.events # <<>> => Head(seen.events).type = "agent_start"
  /\ ShownEnd =>
       LET end == Last(seen.events)
       IN  /\ SaidByEvents = SaidByRun
           /\ end.stop_reason = StopReason /\ end.error_message = Last(finals).error_message
           /\ ~AuthFailed(end)

\* "agent_end carries aggregate usage summed over the run's provider turns" (execution.py:
\* 410): the counts of every message of the run are in it once, the message of an error the
\* provider sent and the cache counts that only some turns have included; the message that
\* the loop makes of a broken stream counts nothing.
StreamUsageIsSum == ShownEnd => Last(seen.events).usage = TotalOf(finals)

===============================================================================
