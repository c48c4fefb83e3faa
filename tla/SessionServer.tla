---------------------------- MODULE SessionServer ----------------------------
(***************************************************************************)
(* What the agent half of the stdio host promises its client: a table of   *)
(* session registrations and one ordered stream of frames.  Every request  *)
(* is judged against the table; a run shows only as frames of a session    *)
(* that is processing, and its one settlement.  AgentHost implements this  *)
(* with a loop, threads and queues; AgentCall is its client in the Python  *)
(* SDK (zig/src/protocol/agent/server.zig).                                *)
(***************************************************************************)
EXTENDS Naturals, Sequences

CONSTANTS
  Sessions,  \* session ids
  Requests,  \* requests the client may send
  None,      \* the absent in_reply_to
  MaxGen     \* bound: registrations the server makes

VARIABLES
  registry,  \* by session id: its status, generation and expected sequence
  made,      \* registrations made so far
  wire       \* frames sent and not yet read by the client

serverVars == <<registry, made, wire>>

Absent == [status |-> "absent", gen |-> 0, next |-> 0]

Held(s) == registry[s].status # "absent"

SentFrame(type, s, g, re, code) ==
  [type |-> type, session |-> s, gen |-> g, re |-> re, code |-> code]

ServerInit ==
  registry = [s \in Sessions |-> Absent] /\ made = 0 /\ wire = <<>>

Answer(f, type, g, code) ==
  wire' = Append(wire, SentFrame(type, f.session, g, f.id, code))

Decline(f, code) ==
  Answer(f, "agent_error", registry[f.session].gen, code) /\ UNCHANGED <<registry, made>>

-----------------------------------------------------------------------------
AcceptStart(f) ==
  /\ f.type = "agent_start"
  /\ \/ (f.payload # f.session \/ f.seq # 1) /\ Decline(f, "invalid_request")
     \/ f.payload = f.session /\ f.seq = 1 /\ Held(f.session) /\ Decline(f, "agent_busy")
     \/ /\ f.payload = f.session /\ f.seq = 1 /\ ~Held(f.session) /\ made < MaxGen
        /\ made' = made + 1
        /\ registry' = [registry EXCEPT ![f.session] =
                          [status |-> "ready", gen |-> made + 1, next |-> 2]]
        /\ Answer(f, "agent_started", made + 1, "none")

\* Why a message or a stop is refused.
Objection(f) ==
  CASE f.payload # f.session -> "invalid_request"
    [] ~Held(f.session) -> "agent_not_found"
    [] f.seq # registry[f.session].next -> "invalid_request"
    [] f.type = "agent_message" /\ registry[f.session].status = "processing" -> "agent_busy"
    [] OTHER -> "none"

\* An accepted message has no reply; it is settled later.
AcceptMessage(f) ==
  /\ f.type = "agent_message"
  /\ \/ Objection(f) # "none" /\ Decline(f, Objection(f))
     \/ /\ Objection(f) = "none"
        /\ registry' = [registry EXCEPT ![f.session].status = "processing",
                                        ![f.session].next = @ + 1]
        /\ UNCHANGED <<made, wire>>

AcceptStop(f) ==
  /\ f.type = "agent_stop"
  /\ \/ Objection(f) # "none" /\ Decline(f, Objection(f))
     \/ /\ Objection(f) = "none"
        /\ Answer(f, "agent_stopped", registry[f.session].gen, "none")
        /\ registry' = [registry EXCEPT ![f.session] = Absent]
        /\ UNCHANGED made

\* Requests that only read: their replies, if any.
AnswerQuery(f) ==
  /\ f.type \in {"agent_status", "models_request", "tool_list", "ping", "goodbye"}
  /\ \/ \E reply \in {<<"nack", "not_implemented">>, <<"tool_list_response", "none">>,
                      <<"pong", "none">>, <<"session_info", "none">>,
                      <<"agent_error", "invalid_request">>, <<"agent_error", "agent_not_found">>} :
          Answer(f, reply[1], registry[f.session].gen, reply[2])
     \/ UNCHANGED wire
  /\ UNCHANGED <<registry, made>>

Serve(f) == AcceptStart(f) \/ AcceptMessage(f) \/ AcceptStop(f) \/ AnswerQuery(f)

-----------------------------------------------------------------------------
RunSends(s, type, code) == SentFrame(type, s, registry[s].gen, None, code)

\* The run of a processing session shows an event or asks for a tool.
Show(s) ==
  /\ registry[s].status = "processing"
  /\ \E type \in {"agent_event", "tool_execute"} :
       wire' = Append(wire, RunSends(s, type, "none"))
  /\ UNCHANGED <<registry, made>>

\* The accepted message settles, once: with a result, or with an error event
\* and the error of the run.
Settle(s) ==
  /\ registry[s].status = "processing"
  /\ LET result == RunSends(s, "agent_result", "none")
         end == RunSends(s, "agent_end", "none")
     IN \/ /\ registry' = [registry EXCEPT ![s].status = "ready"]
           /\ wire' \in {wire \o <<result>>, wire \o <<result, end>>}
        \/ /\ registry' = [registry EXCEPT ![s].status = "error"]
           /\ \E code \in {"internal_error", "tool_execution_error"} :
                wire' = wire \o <<RunSends(s, "agent_event", code),
                                  RunSends(s, "agent_error", code)>>
  /\ UNCHANGED made

\* Idle sessions end; a processing session is never idle.
Evict(E) ==
  /\ \A s \in E : registry[s].status \in {"ready", "error"}
  /\ registry' = [s \in Sessions |-> IF s \in E THEN Absent ELSE registry[s]]
  /\ UNCHANGED <<made, wire>>

\* The client reads the first n frames.
Deliver(n) ==
  /\ n <= Len(wire)
  /\ wire' = SubSeq(wire, n + 1, Len(wire))
  /\ UNCHANGED <<registry, made>>

ServerNext ==
  \/ \E f \in Requests : Serve(f)
  \/ \E s \in Sessions : Show(s) \/ Settle(s)
  \/ \E E \in SUBSET Sessions : Evict(E)
  \/ \E n \in 1..Len(wire) : Deliver(n)

ServerSpec == ServerInit /\ [][ServerNext]_serverVars

=============================================================================
