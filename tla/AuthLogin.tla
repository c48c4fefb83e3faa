------------------------------ MODULE AuthLogin ------------------------------
(***************************************************************************)
(* auth.login and auth.list_providers of the Python SDK                    *)
(* (python/src/makai/auth.py) against the auth server: a login starts a    *)
(* flow, shows its events, answers its prompts and ends on its result, on  *)
(* an error or on a cancellation that may come at any await, also inside a *)
(* send whose bytes are already queued.                                    *)
(*                                                                         *)
(* Abstractions.  The transport is connected and keeps the order of a      *)
(* flow's lines both ways; the module Transport has its failures, which    *)
(* raise like a timeout does.  The host reads the lines of different flows *)
(* in any order.  The callbacks of a caller return or raise; events that   *)
(* only inform are one kind.  One listing is made, once a login ended.      *)
(***************************************************************************)
EXTENDS AuthServer, FiniteSets

VARIABLES
  login,    \* by flow: the locals of login
  listing,  \* the locals of list_providers
  toHost,   \* by flow: requests written and not yet read by the host
  toClient, \* by flow: frames on their way and in the route
  said      \* history, by flow: the events and results the server ever queued

clientVars == <<login, listing>>
wireVars   == <<toHost, toClient>>
authVars   == <<serverVars, clientVars, wireVars, said>>

Idle == [pc |-> "idle", seq |-> 1, prompts |-> TRUE, asked |-> 0,
         outcome |-> "none", lost |-> FALSE]

AuthInit ==
  /\ ServerInit
  /\ login = [f \in Flows |-> Idle]
  /\ listing = [pc |-> "idle", after |-> FALSE, status |-> "none"]
  /\ toHost = [f \in Flows |-> <<>>] /\ toClient = [f \in Flows |-> <<>>]
  /\ said = [f \in Flows |-> <<>>]

Request(f, type, answer) ==
  [type |-> type, seq |-> login[f].seq, prompt |-> login[f].asked, answer |-> answer]

Write(f, type, answer) == toHost' = [toHost EXCEPT ![f] = Append(@, Request(f, type, answer))]

LoginOpen(f) == login[f].pc \in {"starting", "reading", "asking", "refusing", "leaving"}

-----------------------------------------------------------------------------
(***************************************************************************)
(* The host's loop and the workers.                                        *)
(***************************************************************************)
Delivered(f, type, n) ==
  IF LoginOpen(f) THEN [toClient EXCEPT ![f] = Append(@, Frame(type, n))] ELSE toClient

\* What the server queued is said, in its order.
Recorded(f) ==
  said' = [said EXCEPT ![f] = @ \o SubSeq(outbox'[f], Len(outbox[f]) + 1, Len(outbox'[f]))]

AuthReads(f) ==
  /\ toHost[f] # <<>> /\ toHost' = [toHost EXCEPT ![f] = Tail(@)]
  /\ \E reply \in {"ack", "nack"} :
       Accept(f, Head(toHost[f]), reply) /\ toClient' = Delivered(f, reply, 0)
  /\ Recorded(f)
  /\ UNCHANGED clientVars

AuthPops(f) ==
  /\ Pop(f)
  /\ toClient' = Delivered(f, Head(outbox[f]).type, Head(outbox[f]).prompt)
  /\ UNCHANGED <<clientVars, toHost, said>>

AuthWorks(f) == WorkerStep(f) /\ Recorded(f) /\ UNCHANGED <<clientVars, wireVars>>

-----------------------------------------------------------------------------
(***************************************************************************)
(* login.                                                                  *)
(***************************************************************************)
Only(f) == UNCHANGED <<serverVars, listing, said>>

\* Whether the caller gave an on_prompt handler.
LoginBegins(f) ==
  /\ login[f].pc = "idle"
  /\ \E prompts \in BOOLEAN :
       login' = [login EXCEPT ![f].pc = "starting", ![f].prompts = prompts]
  /\ Only(f) /\ UNCHANGED wireVars

LoginSendsStart(f) ==
  /\ login[f].pc = "starting"
  /\ Write(f, "auth_login_start", "none")
  /\ login' = [login EXCEPT ![f].pc = "reading", ![f].seq = 2]
  /\ Only(f) /\ UNCHANGED toClient

\* The first send raises or is cancelled, before or after its line is queued:
\* the handler that sends auth_cancel is not entered yet.
LoginLosesStart(f) ==
  /\ login[f].pc = "starting"
  /\ \/ Write(f, "auth_login_start", "none")
     \/ UNCHANGED toHost
  /\ login' = [login EXCEPT ![f].pc = "ended", ![f].outcome = "raised", ![f].lost = TRUE]
  /\ toClient' = [toClient EXCEPT ![f] = <<>>]
  /\ Only(f)

Take(f) == toClient[f] # <<>> /\ toClient' = [toClient EXCEPT ![f] = Tail(@)]

Ends(f, outcome) ==
  /\ login' = [login EXCEPT ![f].pc = "ended", ![f].outcome = outcome]
  /\ toClient' = [toClient EXCEPT ![f] = <<>>]

\* What the login reads and goes on: acknowledgements and the variants of an auth_event
\* that ask nothing; an error is kept for the message of what it will raise.
Informs == {"ack", "event", "error"}

LoginReads(f) ==
  /\ login[f].pc = "reading" /\ toClient[f] # <<>>
  /\ LET m == Head(toClient[f])
     IN \/ m.type \in Informs /\ Take(f) /\ UNCHANGED login
        \/ /\ m.type = "nack" /\ Take(f)
           /\ login' = [login EXCEPT ![f].pc = "leaving"]
        \/ /\ m.type = "prompt" /\ Take(f)
           /\ login' = [login EXCEPT ![f].asked = m.prompt,
                          ![f].pc = IF login[f].prompts THEN "asking" ELSE "refusing"]
        \/ m.type \in {"success", "failed", "cancelled"} /\ Ends(f, m.type)
  /\ Only(f) /\ UNCHANGED toHost

\* Seeded fault: the answer does not count as a request.
LoginAnswersUncounted(f) ==
  /\ login[f].pc = "asking"
  /\ \E answer \in {"text", "empty"} :
       /\ answer = "empty" => login[f].asked < MaxPrompts
       /\ Write(f, "auth_prompt_response", answer)
  /\ login' = [login EXCEPT ![f].pc = "reading"]
  /\ Only(f) /\ UNCHANGED toClient

\* on_prompt returns (MaxPrompts also bounds how often it says nothing).
LoginAnswers(f) ==
  /\ login[f].pc = "asking"
  /\ \E answer \in {"text", "empty"} :
       /\ answer = "empty" => login[f].asked < MaxPrompts
       /\ Write(f, "auth_prompt_response", answer)
  /\ login' = [login EXCEPT ![f].pc = "reading", ![f].seq = @ + 1]
  /\ Only(f) /\ UNCHANGED toClient

\* The answer, or the auth_cancel of a refusal, is queued and the login cancelled
\* before its send returns: the sequence is not counted.
LoginLosesCount(f) ==
  /\ \/ /\ login[f].pc = "asking" /\ Write(f, "auth_prompt_response", "text")
        /\ login' = [login EXCEPT ![f].pc = "leaving", ![f].lost = TRUE]
     \/ /\ login[f].pc = "refusing" /\ Write(f, "auth_cancel", "none")
        /\ login' = [login EXCEPT ![f].pc = "leaving"]
  /\ Only(f) /\ UNCHANGED toClient

\* No on_prompt handler: the flow is cancelled, and its result awaited.
LoginRefuses(f) ==
  /\ login[f].pc = "refusing"
  /\ Write(f, "auth_cancel", "none")
  /\ login' = [login EXCEPT ![f].pc = "reading", ![f].seq = @ + 1]
  /\ Only(f) /\ UNCHANGED toClient

\* A timeout, a cancellation, a callback that raises.
LoginLeaves(f) ==
  /\ login[f].pc \in {"reading", "asking", "refusing"}
  /\ login' = [login EXCEPT ![f].pc = "leaving"]
  /\ Only(f) /\ UNCHANGED wireVars

LoginCancels(f) ==
  /\ login[f].pc = "leaving"
  /\ Write(f, "auth_cancel", "none") /\ Ends(f, "raised")
  /\ Only(f)

\* A second cancellation arrives while the auth_cancel waits to be written.
LoginLosesCancel(f) ==
  /\ login[f].pc = "leaving"
  /\ login' = [login EXCEPT ![f].pc = "ended", ![f].outcome = "raised", ![f].lost = TRUE]
  /\ toClient' = [toClient EXCEPT ![f] = <<>>]
  /\ Only(f) /\ UNCHANGED toHost

LoginProceeds(f) ==
  \/ LoginSendsStart(f) \/ LoginReads(f) \/ LoginAnswers(f) \/ LoginRefuses(f)
  \/ LoginCancels(f)

LoginStep(f) ==
  \/ LoginProceeds(f) \/ LoginLosesStart(f) \/ LoginLosesCount(f) \/ LoginLeaves(f)
  \/ LoginLosesCancel(f)

-----------------------------------------------------------------------------
(***************************************************************************)
(* list_providers.  Its stream id is its own and its sequence 1, which the *)
(* server accepts; an acknowledgement before the response is skipped.      *)
(***************************************************************************)
ListBegins ==
  /\ listing.pc = "idle" /\ \E f \in Flows : login[f].pc = "ended"
  /\ listing' = [listing EXCEPT !.pc = "asked",
                   !.after = \E f \in Flows : login[f].outcome = "success"]
  /\ UNCHANGED <<serverVars, login, wireVars, said>>

\* handleProvidersRequestLocked and the parse of what it answers.
ListAnswered ==
  /\ listing.pc = "asked"
  /\ \E status \in ListedStatuses : listing' = [listing EXCEPT !.pc = "listed", !.status = status]
  /\ flow' = Cleaned /\ expects' = CleanedExpects
  /\ UNCHANGED <<worker, outbox, saved, login, wireVars, said>>

\* A timeout or a refusal.
ListRaises ==
  /\ listing.pc = "asked"
  /\ listing' = [listing EXCEPT !.pc = "raised"]
  /\ UNCHANGED <<serverVars, login, wireVars, said>>

-----------------------------------------------------------------------------
HostStep(f) == AuthReads(f) \/ AuthPops(f)

-----------------------------------------------------------------------------
(***************************************************************************)
(* Properties.                                                             *)
(***************************************************************************)

\* Types, with the sequence numbers of both sides.
AuthTypeOK ==
  /\ \A f \in Flows :
       /\ flow[f].waiting \in 0..MaxPrompts /\ flow[f].prompts \in 0..MaxPrompts
       /\ flow[f].answer \in {"none", "text", "empty"}
       /\ flow[f].waiting # 0 => flow[f].waiting = flow[f].prompts /\ flow[f].answer = "none"
       /\ login[f].seq \in 1..(MaxPrompts + 3) /\ expects[f] \in 1..(MaxPrompts + 4)
       /\ login[f].asked \in 0..MaxPrompts
       /\ worker[f].result \in {"none", "success", "failed", "cancelled"}
  /\ saved \subseteq Flows
  /\ listing.status \in {"none", "login_required", "authenticated", "expired"}

Result == {"success", "failed", "cancelled"}

\* A flow announces one result, and nothing of the flow follows it, though the
\* worker and the handler of auth_cancel end it under different locks.
ResultIsLast ==
  \A f \in Flows : \A i \in 1..Len(said[f]) : said[f][i].type \in Result => i = Len(said[f])

\* A login that ends without a result has ended its flow once the host has read
\* all it wrote, unless one of its sends was cut short: the sequence of its
\* auth_cancel is right at every point it can leave from.
EndedLoginEndsFlow ==
  \A f \in Flows :
    login[f].pc = "ended" /\ ~login[f].lost /\ toHost[f] = <<>> => f \notin ActiveFlows

\* A login that reports success has left its credentials behind, and a provider
\* list asked for after it does not ask for a login.
SuccessIsKept ==
  /\ \A f \in Flows : login[f].outcome = "success" => f \in saved
  /\ listing.after => listing.status # "login_required"

\* Every login returns, and the worker of a flow whose login was not cut short
\* does not wait for ever for an answer nobody will give: the flow leaves the
\* table, so that the host may exit.
LoginEnds == \A f \in Flows : login[f].pc = "starting" ~> login[f].pc = "ended"

FlowEnds ==
  \A f \in Flows :
    login[f].pc = "ended" /\ ~login[f].lost ~> toHost[f] = <<>> /\ ~Present(f)

=============================================================================
