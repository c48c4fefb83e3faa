---------------------------- MODULE ProviderServer ----------------------------
(***************************************************************************)
(* The provider protocol server (zig/src/protocol/provider/server.zig) and *)
(* the part of the host's loop that serves it (provider/runtime.zig): the  *)
(* table of active streams, each fed by the thread of its provider, the    *)
(* pump that forwards what they hold, and completions, which the loop      *)
(* serves without returning until they are over.                           *)
(*                                                                         *)
(* Abstractions.  A stream id names one request.  A provider's events are  *)
(* deltas, and its terminal is the outcome it completes the stream with;   *)
(* that it refuses, fails or lacks credentials is nondeterministic.  The   *)
(* provider thread of an aborted stream has no more effect.  The ring of a *)
(* stream does not fill.                                                   *)
(***************************************************************************)
EXTENDS Naturals, Sequences, FiniteSets

CONSTANTS
  Streams,
  MaxStreams,  \* options.max_streams
  MaxDeltas    \* bound: the deltas of a stream

ASSUME DeltasAssumption == MaxDeltas \in Nat

VARIABLES
  stream,  \* by stream: ActiveStream, with the ring of its events
  pump,    \* where the loop is, and the streams the current pass has still to visit
  out      \* by stream: the frames written for it

providerVars == <<stream, pump, out>>

\* `outcome` is what the provider completed the stream with.
NoStream == [state |-> "absent", events |-> <<>>, deltas |-> 0, outcome |-> "none"]

ProviderInit ==
  /\ stream = [x \in Streams |-> NoStream]
  /\ pump = [at |-> "dispatch", todo |-> {}]
  /\ out = [x \in Streams |-> <<>>]

Active == {x \in Streams : stream[x].state = "active"}

Dispatching == pump.at = "dispatch"

Emit(x, frames) == out' = [out EXCEPT ![x] = @ \o frames]

-----------------------------------------------------------------------------
(***************************************************************************)
(* The handlers, called while the loop dispatches.                         *)
(***************************************************************************)

\* A refusal may be for the lack of credentials.
Refuse(x) == \E why \in {"nack", "nack_auth"} : Emit(x, <<why>>) /\ UNCHANGED <<stream, pump>>

AcceptStream(x, m) ==
  /\ m.type = "stream_request"
  /\ \/ Refuse(x)
     \/ /\ x \notin Active /\ Cardinality(Active) < MaxStreams
        /\ stream' = [stream EXCEPT ![x].state = "active"]
        /\ Emit(x, <<"ack">>)
        /\ UNCHANGED pump

ExpectedFirst(x) == 1  \* seeded fault: an abort is validated as a first request

\* The sequence the server expects next for x: nothing is expected beyond 1 of a
\* stream that is not in the table.
Expected(x) == IF x \in Active THEN 2 ELSE 1

\* The stream leaves the table at once.  Its error follows the reply.
AcceptAbort(x, m) ==
  /\ m.type = "abort_request"
  /\ \/ /\ m.seq = Expected(x) /\ x \in Active
        /\ stream' = [stream EXCEPT ![x].state = "aborted", ![x].events = <<>>]
        /\ Emit(x, <<"ack", "stream_error">>)
     \/ /\ m.seq = Expected(x) /\ x \notin Active
        /\ Emit(x, <<"ack">>) /\ UNCHANGED stream
     \/ /\ m.seq # Expected(x)
        /\ Emit(x, <<"nack">>) /\ UNCHANGED stream
  /\ UNCHANGED pump

\* handleCompleteRequest does not return before the completion is over.
AcceptComplete(x, m) ==
  /\ m.type = "complete_request"
  /\ \/ Refuse(x)
     \/ /\ pump' = [at |-> "blocked", todo |-> {x}]
        /\ UNCHANGED <<stream, out>>

AcceptProvider(x, m) ==
  Dispatching /\ (AcceptStream(x, m) \/ AcceptAbort(x, m) \/ AcceptComplete(x, m))

\* The provider ends or fails, or options.stream_timeout_ms is over.
CompletionEnds ==
  /\ pump.at = "blocked"
  /\ \E x \in pump.todo, reply \in {"result", "result_auth", "nack"} : Emit(x, <<reply>>)
  /\ pump' = [at |-> "dispatch", todo |-> {}]
  /\ UNCHANGED stream

-----------------------------------------------------------------------------
(***************************************************************************)
(* The thread of a provider.                                               *)
(***************************************************************************)
Streamed(x) ==
  /\ x \in Active /\ stream[x].outcome = "none" /\ stream[x].deltas < MaxDeltas
  /\ stream' = [stream EXCEPT ![x].events = Append(@, "delta"), ![x].deltas = @ + 1]
  /\ UNCHANGED <<pump, out>>

\* complete or completeWithError
Completes(x) ==
  /\ x \in Active /\ stream[x].outcome = "none"
  /\ \E outcome \in {"result", "stream_error", "stream_error_auth"} :
       stream' = [stream EXCEPT ![x].outcome = outcome]
  /\ UNCHANGED <<pump, out>>

Done(x) == stream[x].outcome # "none"

-----------------------------------------------------------------------------
(***************************************************************************)
(* pumpBackground: a pass that forwards events and terminals, a pass that  *)
(* forwards what events came meanwhile, and the removal of the streams     *)
(* that are done by then.                                                  *)
(***************************************************************************)
PumpBegins ==
  /\ Dispatching /\ Active # {}
  /\ pump' = [at |-> "first", todo |-> Active]
  /\ UNCHANGED <<stream, out>>

Visited(x) ==
  LET left == pump.todo \ {x}
  IN CASE left # {} -> [pump EXCEPT !.todo = left]
       [] left = {} /\ pump.at = "first" -> [at |-> "second", todo |-> Active]
       [] OTHER -> [at |-> "cleanup", todo |-> {}]

\* forwardStreamShare
Forward(x) ==
  /\ x \in pump.todo /\ pump.at \in {"first", "second"}
  /\ Emit(x, IF pump.at = "first" /\ Done(x)
             THEN Append(stream[x].events, stream[x].outcome) ELSE stream[x].events)
  /\ stream' = [stream EXCEPT ![x].events = <<>>]
  /\ pump' = Visited(x)

\* cleanupCompletedStreams looks at the completion alone.
Cleanup ==
  /\ pump.at = "cleanup"
  /\ stream' = [x \in Streams |-> IF x \in Active /\ Done(x)
                                  THEN [stream[x] EXCEPT !.state = "gone", !.events = <<>>]
                                  ELSE stream[x]]
  /\ pump' = [at |-> "dispatch", todo |-> {}]
  /\ UNCHANGED out

ProviderWorks == \E x \in Streams : Streamed(x) \/ Completes(x)

PumpStep == PumpBegins \/ Cleanup \/ CompletionEnds \/ \E x \in Streams : Forward(x)

=============================================================================
