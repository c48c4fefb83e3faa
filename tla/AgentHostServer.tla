--------------------------- MODULE AgentHostServer ---------------------------
(***************************************************************************)
(* AgentHost implements SessionServer.  The table is the server's three    *)
(* maps read together.  The stream of frames is what is in the agent pipe, *)
(* then what the pump has queued behind it: replies go straight to the     *)
(* pipe, run frames through the outbox, and the outbox is empty whenever a *)
(* request is answered.                                                    *)
(***************************************************************************)
EXTENDS AgentHost

Shown(f) == [type |-> f.type, session |-> f.session, gen |-> f.gen, re |-> f.re,
             code |-> f.code]

Stream(frames) == [i \in 1..Len(frames) |-> Shown(frames[i])]

Server == INSTANCE SessionServer WITH
  registry <- [s \in Sessions |->
                [status |-> status[s], gen |-> generation[s], next |-> expected[s]]],
  made <- nextGen,
  wire <- Stream(pipe) \o Stream(outbox)

(***************************************************************************)
(* Every step of loop, workers and client is a step of the session server  *)
(* or changes nothing its client can see: a message settles once, in the   *)
(* frames the server promises, and no run shows in a session it lost.      *)
(***************************************************************************)
ImplementsServer == Server!ServerSpec

=============================================================================
