------------------------------- MODULE Normalize -------------------------------
(***************************************************************************)
(* python/src/makai/_normalize.py and the readers of _wire.py: frames to   *)
(* typed events, results and event streams to responses.                   *)
(*                                                                         *)
(* Abstractions.  A JSON object is a record whose domain is its keys; a    *)
(* value always has the type its key promises.  An absent optional string  *)
(* is "".  Text and arguments are sequences of fragments, so that          *)
(* concatenation is \o and a lost, doubled or moved fragment shows.  The   *)
(* two cache counts of a usage are one, cache_read.                        *)
(***************************************************************************)
EXTENDS Naturals, SequencesExt

\* Two objects as one; what both hold is the first one's.
d ++ e == [k \in DOMAIN d \cup DOMAIN e |-> IF k \in DOMAIN d THEN d[k] ELSE e[k]]

\* data.get(k1, data.get(k2, ... default)).
First(d, keys, default) ==
  LET held == {i \in DOMAIN keys : keys[i] \in DOMAIN d}
  IN  IF held = {} THEN default ELSE d[keys[Min(held)]]

Str(d, keys) == First(d, keys, "")

\* A nested object, or the outer one when the key is absent.
Inner(d, key) == IF key \in DOMAIN d THEN d[key] ELSE d

Either(a, b) == IF a # "" THEN a ELSE b

NoUsage == [k \in {} |-> 0]

UsageOf(raw) ==
  IF "input" \in DOMAIN raw /\ "output" \in DOMAIN raw
    THEN [k \in {"input", "output", "cache_read"} \cap DOMAIN raw |-> raw[k]]
  ELSE IF "input_tokens" \in DOMAIN raw /\ "output_tokens" \in DOMAIN raw
    THEN [k \in {"input", "output"} \cup ({"cache_read"} \cap DOMAIN raw) |->
            CASE k = "input" -> raw.input_tokens
              [] k = "output" -> raw.output_tokens
              [] OTHER -> raw[k]]
  ELSE NoUsage

\* Seeded fault: the cache count only when both records have one.
AddUsageInBoth(left, right) ==
  [k \in DOMAIN left \cap DOMAIN right |-> left[k] + right[k]]

AddUsage(left, right) ==
  [k \in DOMAIN left \cup DOMAIN right |-> First(left, <<k>>, 0) + First(right, <<k>>, 0)]

-----------------------------------------------------------------------------
(* One event. *)

EventKind(e) ==
  LET named == Str(e, <<"type">>)
      typed == Str(e, <<"event_type">>)
  IN  IF named = "event" /\ typed # "" THEN typed
      ELSE IF Either(named, typed) # "" THEN Either(named, typed)
      ELSE CHOOSE key \in DOMAIN e : TRUE

MessageStart(data) ==
  [type |-> "message_start",
   provider_id |-> Str(data, <<"provider_id", "provider">>),
   api |-> Str(data, <<"api">>),
   model_id |-> Str(data, <<"model_id", "model">>)]

MessageEnd(data) ==
  LET message == Inner(data, "message")
  IN  [type |-> "message_end",
       usage |-> UsageOf(First(message, <<"usage">>, First(data, <<"usage">>, message))),
       stop_reason |-> First(data, <<"stop_reason", "reason">>, Str(message, <<"stop_reason">>)),
       error_message |-> First(data, <<"error_message">>, Str(message, <<"error_message">>))]

AgentEnd(data) ==
  [type |-> "agent_end",
   usage |-> UsageOf(Inner(data, "usage")),
   stop_reason |-> Str(data, <<"stop_reason", "reason">>),
   error_message |-> Str(data, <<"error_message">>),
   provider_id |-> Str(data, <<"provider_id", "provider">>),
   api |-> Str(data, <<"api">>)]

Delta(type, data) == [type |-> type, delta |-> First(data, <<"delta", "reasoning">>, <<>>)]

ToolCall(data) ==
  [type |-> "tool_call",
   tool_call_id |-> Str(data, <<"tool_call_id", "id">>),
   name |-> Str(data, <<"name">>),
   arguments_json |-> First(data, <<"arguments_json">>, <<>>)]

ParseError(data) ==
  [type |-> "error",
   message |-> Either(Str(data, <<"message", "error_message", "reason">>), "stream error"),
   code |-> Str(data, <<"code", "error_code">>),
   provider_id |-> Str(data, <<"provider_id">>)]

NoTool == [id |-> "", name |-> "", args |-> <<>>]

BufferedToolCall(data, buffered) ==
  ToolCall([tool_call_id |-> First(data, <<"tool_call_id", "id">>, buffered.id),
            name |-> First(data, <<"name">>, buffered.name),
            arguments_json |-> First(data, <<"arguments_json">>, buffered.args)])

-----------------------------------------------------------------------------
(* Frames.  A result is the events of the frame and the buffers after it.  *)

Nothing(buffers) == [events |-> <<>>, buffers |-> buffers]

Only(event, buffers) == [events |-> <<event>>, buffers |-> buffers]

Held(buffers, index) == First(buffers, <<index>>, NoTool)

Buffer(buffers, index, tool) ==
  [i \in DOMAIN buffers \cup {index} |-> IF i = index THEN tool ELSE buffers[i]]

ToolStart(data, buffers) ==
  Nothing(Buffer(buffers, data.content_index,
                 [id |-> Str(data, <<"id">>), name |-> Str(data, <<"name">>), args |-> <<>>]))

\* Seeded fault: deltas of any call are appended to the last one started.
ToolDeltaOfLast(data, buffers) ==
  LET index == CHOOSE i \in DOMAIN buffers : \A j \in DOMAIN buffers : j <= i
      held == Held(buffers, index)
  IN  Nothing(Buffer(buffers, index, [held EXCEPT !.args = @ \o data.delta]))

ToolDelta(data, buffers) ==
  LET held == Held(buffers, data.content_index)
  IN  Nothing(Buffer(buffers, data.content_index, [held EXCEPT !.args = @ \o data.delta]))

\* Seeded fault: the buffer of a finished call stays.
ToolEndKeeping(data, buffers) ==
  Only(BufferedToolCall(data, Held(buffers, data.content_index)), buffers)

ToolEnd(data, buffers) ==
  Only(BufferedToolCall(data, Held(buffers, data.content_index)),
       [i \in DOMAIN buffers \ {data.content_index} |-> buffers[i]])

ProviderPayload(data, buffers) ==
  LET kind == EventKind(data)
  IN  CASE kind = "start" -> Only(MessageStart(Inner(data, "message")), buffers)
        [] kind = "text_delta" -> Only(Delta("text_delta", data), buffers)
        [] kind \in {"thinking_delta", "reasoning_delta", "reasoning"} ->
             Only(Delta("thinking_delta", data), buffers)
        [] kind = "toolcall_start" -> ToolStart(data, buffers)
        [] kind = "toolcall_delta" -> ToolDelta(data, buffers)
        [] kind = "toolcall_end" -> ToolEnd(data, buffers)
        [] kind = "tool_call" -> Only(ToolCall(data), buffers)
        [] kind \in {"done", "message_end"} -> Only(MessageEnd(data), buffers)
        [] kind \in {"stream_error", "error"} -> Only(ParseError(data), buffers)
        [] OTHER -> Nothing(buffers)

ToolEventTypes == {"toolcall_start", "toolcall_delta", "toolcall_end"}

ThinkingTypes == {"thinking_delta", "reasoning_delta", "reasoning"}

ProviderFrame(frame, buffers) ==
  LET payload == Inner(frame, "payload")
  IN  CASE frame.type = "event" -> ProviderPayload(Inner(payload, "event"), buffers)
        [] frame.type \in {"stream_error", "error"} -> Only(ParseError(payload), buffers)
        [] frame.type \in {"start", "message_start"} -> Only(MessageStart(payload), buffers)
        [] frame.type = "text_delta" -> Only(Delta("text_delta", payload), buffers)
        [] frame.type \in ThinkingTypes -> Only(Delta("thinking_delta", payload), buffers)
        [] frame.type = "tool_call" -> Only(ToolCall(payload), buffers)
        [] frame.type \in ToolEventTypes -> ProviderPayload(payload, buffers)
        [] frame.type \in {"message_end", "done", "result"} -> Only(MessageEnd(payload), buffers)
        [] OTHER -> Nothing(buffers)

AgentEventTypes ==
  {"agent_start", "agent_end", "turn_start", "turn_end",
   "tool_execution_start", "tool_execution_end", "tool_execution_update"}

ProviderEventTypes ==
  ToolEventTypes \cup ThinkingTypes \cup {"text_delta", "tool_call"}

AgentEvent(event, buffers) ==
  LET kind == EventKind(event)
      typed == Either(Str(event, <<"type">>), Str(event, <<"event_type">>)) # ""
      data == IF typed THEN event ELSE Inner(event, kind)
  IN  CASE kind = "agent_start" ->
             Only([type |-> kind, session_id |-> Str(data, <<"session_id">>)], buffers)
        [] kind = "turn_start" -> Only([type |-> kind], buffers)
        [] kind = "turn_end" ->
             Only([type |-> kind, stop_reason |-> Str(data, <<"stop_reason">>),
                   error_message |-> Str(data, <<"error_message">>)], buffers)
        [] kind \in {"tool_execution_start", "tool_execution_end"} ->
             Only([type |-> kind, tool_call_id |-> Str(data, <<"tool_call_id">>)], buffers)
        [] kind = "agent_end" -> Only(AgentEnd(data), buffers)
        [] kind = "message_start" -> Only(MessageStart(Inner(data, "message")), buffers)
        [] kind = "message_update" -> ProviderPayload(Inner(data, "event"), buffers)
        [] kind \in ProviderEventTypes -> ProviderPayload(event, buffers)
        [] kind = "message_end" -> Only(MessageEnd(Inner(data, "message")), buffers)
        [] kind = "error" -> Only(ParseError(data), buffers)
        [] OTHER -> Nothing(buffers)

\* payload.event_json and payload.result_json are parsed objects here.
JsonField(frame, key) ==
  LET payload == Inner(frame, "payload")
  IN  First(payload, <<key, "event_json", "result_json">>, payload)

AgentFrame(frame, buffers) ==
  LET inner == Inner(Inner(frame, "payload") ++ frame, "event")
  IN  CASE frame.type = "agent_result" -> Only(AgentEnd(JsonField(frame, "result_json")), buffers)
        [] frame.type = "agent_error" -> Only(ParseError(Inner(frame, "payload")), buffers)
        [] frame.type = "agent_event" -> AgentEvent(JsonField(frame, "event_json"), buffers)
        [] frame.type = "event" /\ EventKind(inner) \in AgentEventTypes ->
             AgentEvent([type |-> EventKind(inner)] ++ inner, buffers)
        [] OTHER -> ProviderFrame(frame, buffers)

KnownFrameTypes ==
  ProviderEventTypes \cup
  {"agent_result", "agent_error", "agent_event", "event", "stream_error", "start",
   "message_start", "message_end", "done", "result", "error"}

-----------------------------------------------------------------------------
(* Responses. *)

TextPart(text) == [type |-> "text", text |-> text]

ThinkingPart(delta) == [type |-> "thinking", thinking |-> delta]

WithText(content) ==
  content.parts \o (IF content.text = <<>> THEN <<>> ELSE <<TextPart(content.text)>>)

\* A string is one text part here.
ContentFromEvents(events) ==
  LET Take(content, e) ==
        CASE e.type = "text_delta" -> [content EXCEPT !.text = @ \o e.delta]
          [] e.type = "thinking_delta" ->
               [parts |-> Append(WithText(content), ThinkingPart(e.delta)), text |-> <<>>]
          [] e.type = "tool_call" -> [parts |-> Append(WithText(content), e), text |-> <<>>]
          [] OTHER -> content
      taken[n \in 0..Len(events)] ==
        IF n = 0 THEN [parts |-> <<>>, text |-> <<>>] ELSE Take(taken[n - 1], events[n])
  IN  WithText(taken[Len(events)])

ParseContent(raw) ==
  [i \in DOMAIN raw |-> IF raw[i].type = "tool_call" THEN ToolCall(raw[i]) ELSE raw[i]]

Starts(events) == {i \in DOMAIN events : events[i].type = "message_start"}

Ends(events) == {i \in DOMAIN events : events[i].type = "message_end"}

\* Seeded fault: the first message instead of the last.
FirstMessageEvents(events) ==
  IF Starts(events) = {} THEN events
  ELSE LET start == Min(Starts(events))
           ends == {i \in Ends(events) : i > start}
       IN  SubSeq(events, start, IF ends = {} THEN Len(events) ELSE Min(ends))

FinalMessageEvents(events) ==
  IF Starts(events) = {} THEN events
  ELSE LET start == Max(Starts(events))
           ends == {i \in Ends(events) : i > start}
       IN  SubSeq(events, start, IF ends = {} THEN Len(events) ELSE Min(ends))

\* Called when the last event is an agent_end, which is the terminal it finds.
BuildResponse(events) ==
  LET terminal == Last(events)
      final == FinalMessageEvents(events)
      start == IF Starts(final) = {} THEN MessageStart(<<>>) ELSE final[Min(Starts(final))]
  IN  [content |-> ContentFromEvents(final),
       usage |-> IF terminal.usage # NoUsage \/ Ends(events) = {} THEN terminal.usage
                 ELSE events[Max(Ends(events))].usage,
       provider_id |-> Either(start.provider_id, terminal.provider_id),
       api |-> Either(start.api, terminal.api),
       model_id |-> start.model_id,
       stop_reason |-> terminal.stop_reason,
       error_message |-> terminal.error_message]

\* The response whose message is in one object and whose other fields may be in another.
ResponseOf(message, data) ==
  [content |-> ParseContent(First(message, <<"content">>, <<>>)),
   usage |-> UsageOf(First(message, <<"usage">>, Inner(data, "usage"))),
   provider_id |-> First(message, <<"provider_id", "provider">>,
                         Str(data, <<"provider_id", "provider">>)),
   api |-> First(message, <<"api">>, Str(data, <<"api">>)),
   model_id |-> First(message, <<"model_id", "model">>, Str(data, <<"model_id", "model">>)),
   stop_reason |-> First(message, <<"stop_reason">>, Str(data, <<"stop_reason", "reason">>)),
   error_message |-> First(message, <<"error_message">>, Str(data, <<"error_message">>))]

CompletionOf(raw) == ResponseOf(Inner(raw, "message"), raw)

RunResponseOf(raw) ==
  IF "message" \in DOMAIN raw THEN CompletionOf(raw)
  ELSE LET messages == First(raw, <<"messages">>, <<>>)
           said == {i \in DOMAIN messages : messages[i].role = "assistant"}
       IN  ResponseOf(IF said = {} THEN raw ELSE messages[Max(said)], Inner(raw, "result"))

Raised(code, provider_id) == [kind |-> "raised", code |-> code, provider_id |-> provider_id]

ErrorFrameError(frame) ==
  LET payload == Inner(frame, "payload")
  IN  Raised(Str(payload, <<"code", "error_code">>), Str(payload, <<"provider_id">>))

\* The messages of the instances: a generic marker, a marker of one API, neither.
IsAuthFailure(message, api) ==
  \/ message \in {"auth_required", "unauthorized"}
  \/ message = "authentication_error" /\ api = "anthropic-messages"

===============================================================================
