----------------------------- MODULE ProviderCall -----------------------------
(***************************************************************************)
(* provider.complete and provider.stream of the Python SDK                 *)
(* (python/src/makai/execution.py) against the provider server, with the   *)
(* one login and one retry that follow an authentication failure: the      *)
(* composition of ProviderServer and AuthLogin over one host, whose loop   *)
(* serves both.                                                            *)
(*                                                                         *)
(* Abstractions.  A call and the flow of its login have the same name.     *)
(* Arguments are valid; a call whose arguments are not sends nothing.      *)
(* Other frames than the server's end a call like a timeout does.          *)
(***************************************************************************)
EXTENDS AuthLogin, ProviderServer

ASSUME StreamAssumption == Streams = Flows \X {1, 2}

VARIABLES
  call,   \* by call: the locals of complete, stream and what they await
  asked,  \* by stream: requests written and not yet read by the host
  shown   \* history, by stream: the events the caller was given

callVars == <<call, asked, shown>>
vars == <<authVars, providerVars, callVars>>

NoCall == [pc |-> "idle", kind |-> "stream", policy |-> FALSE, attempt |-> 1,
           yielded |-> FALSE, outcome |-> "none", aborted |-> FALSE]

Init ==
  /\ AuthInit /\ ProviderInit
  /\ call = [c \in Flows |-> NoCall]
  /\ asked = [x \in Streams |-> <<>>] /\ shown = [x \in Streams |-> <<>>]

StreamOf(c) == <<c, call[c].attempt>>

RouteOpen(c) == call[c].pc \in {"starting", "reading", "yielding", "aborting"}

Ask4(c, type, seq) ==
  asked' = [asked EXCEPT ![StreamOf(c)] = Append(@, [type |-> type, seq |-> seq])]

Move(c, pc) == call' = [call EXCEPT ![c].pc = pc]

\* The route is closed with what it holds.
EndAs(c, outcome) == call' = [call EXCEPT ![c].pc = "ended", ![c].outcome = outcome]

CallOnly == UNCHANGED <<authVars, stream, pump>>

-----------------------------------------------------------------------------
(***************************************************************************)
(* The host's loop: it dispatches lines of both protocols and pumps both   *)
(* servers, and does neither while it serves a completion.                 *)
(***************************************************************************)
HostReadsProvider(x) ==
  /\ asked[x] # <<>> /\ asked' = [asked EXCEPT ![x] = Tail(@)]
  /\ AcceptProvider(x, Head(asked[x]))
  /\ UNCHANGED <<authVars, call, shown>>

HostServesAuth(f) == Dispatching /\ HostStep(f) /\ UNCHANGED <<providerVars, callVars>>

HostListsProviders == Dispatching /\ ListAnswered /\ UNCHANGED <<providerVars, callVars>>

HostPumps == PumpStep /\ UNCHANGED <<authVars, callVars>>

ThreadsRun ==
  \/ ProviderWorks /\ UNCHANGED <<authVars, callVars>>
  \/ \E f \in Flows : AuthWorks(f) /\ UNCHANGED <<providerVars, callVars>>

-----------------------------------------------------------------------------
(***************************************************************************)
(* complete, stream and their attempts.                                    *)
(***************************************************************************)

\* The caller chooses the retry policy; auth is there with every client.
CallBegins(c) ==
  /\ call[c].pc = "idle"
  /\ \E kind \in {"complete", "stream"}, policy \in BOOLEAN :
       call' = [call EXCEPT ![c].pc = "starting", ![c].kind = kind, ![c].policy = policy]
  /\ CallOnly /\ UNCHANGED <<out, asked, shown>>

RequestType(c) == IF call[c].kind = "stream" THEN "stream_request" ELSE "complete_request"

CallSends(c) ==
  /\ call[c].pc = "starting"
  /\ Ask4(c, RequestType(c), 1) /\ Move(c, "reading")
  /\ CallOnly /\ UNCHANGED <<out, shown>>

\* The send is cancelled, its line queued or not: it is inside the handler.
CallLosesSend(c) ==
  /\ call[c].pc = "starting"
  /\ Ask4(c, RequestType(c), 1) \/ UNCHANGED asked
  /\ Move(c, "aborting")
  /\ CallOnly /\ UNCHANGED <<out, shown>>

TakeFrame(c) ==
  /\ out[StreamOf(c)] # <<>> /\ out' = [out EXCEPT ![StreamOf(c)] = Tail(@)]

AuthFrame == {"nack_auth", "stream_error_auth", "result_auth"}

RetryableOnceShown(c) == call[c].policy /\ call[c].attempt = 1  \* seeded fault

\* _retryable_auth_provider and the loop around an attempt.
Retryable(c) == call[c].policy /\ call[c].attempt = 1 /\ ~call[c].yielded

Fails(c, m) ==
  /\ m \in AuthFrame \union {"nack"} \/ (m = "stream_error" /\ call[c].kind = "complete")
  /\ IF m \in AuthFrame /\ Retryable(c) THEN Move(c, "login") ELSE EndAs(c, "raised")
  /\ UNCHANGED shown

Show(c, m) == shown' = [shown EXCEPT ![StreamOf(c)] = Append(@, m)]

\* The consumer runs while the generator is suspended.
Yields(c, m) ==
  /\ call[c].kind = "stream" /\ m \in {"delta", "result", "stream_error"}
  /\ call' = [call EXCEPT ![c].pc = "yielding", ![c].yielded = TRUE,
                ![c].outcome = IF m = "delta" THEN "none" ELSE "ok"]
  /\ Show(c, m)

CallReads(c) ==
  /\ call[c].pc = "reading" /\ TakeFrame(c)
  /\ LET m == Head(out[StreamOf(c)])
     IN \/ m = "ack" /\ UNCHANGED <<call, shown>>
        \/ Fails(c, m)
        \/ Yields(c, m)
        \/ /\ call[c].kind = "complete" /\ m = "result"
           /\ EndAs(c, "ok") /\ Show(c, m)
  /\ CallOnly /\ UNCHANGED asked

\* The consumer asks for the next event; after the terminal there is none.
CallResumes(c) ==
  /\ call[c].pc = "yielding"
  /\ Move(c, IF call[c].outcome = "ok" THEN "ended" ELSE "reading")
  /\ CallOnly /\ UNCHANGED <<out, asked, shown>>

\* A timeout or a failure of the transport: nothing is sent.
CallTimesOut(c) ==
  /\ call[c].pc = "reading" /\ EndAs(c, "raised")
  /\ CallOnly /\ UNCHANGED <<out, asked, shown>>

\* The task is cancelled while it reads, or the consumer closes the generator
\* at any event, the terminal one included.
CallCancelled(c) ==
  /\ call[c].pc \in {"reading", "yielding"} /\ Move(c, "aborting")
  /\ CallOnly /\ UNCHANGED <<out, asked, shown>>

AbortSeq == 2

\* _abort_stream; a second cancellation may keep it from being written.
CallAborts(c) ==
  /\ call[c].pc = "aborting"
  /\ \/ Ask4(c, "abort_request", AbortSeq)
        /\ call' = [call EXCEPT ![c].pc = "ended", ![c].outcome = "raised", ![c].aborted = TRUE]
     \/ EndAs(c, "raised") /\ UNCHANGED asked
  /\ CallOnly /\ UNCHANGED <<out, shown>>

-----------------------------------------------------------------------------
(***************************************************************************)
(* _relogin: the login of the call, and the second attempt under a fresh   *)
(* stream id.  A cancellation meanwhile is the login's.                    *)
(***************************************************************************)
ReloginBegins(c) ==
  /\ call[c].pc = "login" /\ LoginBegins(c) /\ UNCHANGED <<providerVars, callVars>>

LoginSteps(c) == LoginStep(c) /\ UNCHANGED <<providerVars, callVars>>

\* Seeded fault: a login that raised is not looked at.
ReloginEndsAnyway(c) ==
  /\ call[c].pc = "login" /\ login[c].pc = "ended"
  /\ call' = [call EXCEPT ![c].pc = "starting", ![c].attempt = 2]
  /\ CallOnly /\ UNCHANGED <<out, asked, shown>>

ReloginEnds(c) ==
  /\ call[c].pc = "login" /\ login[c].pc = "ended"
  /\ IF login[c].outcome = "success"
     THEN call' = [call EXCEPT ![c].pc = "starting", ![c].attempt = 2]
     ELSE EndAs(c, "raised")
  /\ CallOnly /\ UNCHANGED <<out, asked, shown>>

ListingSteps == (ListBegins \/ ListRaises) /\ UNCHANGED <<providerVars, callVars>>

CallProceeds(c) ==
  CallSends(c) \/ CallReads(c) \/ CallResumes(c) \/ CallAborts(c) \/ ReloginBegins(c) \/ ReloginEnds(c)

CallLeaves(c) == CallLosesSend(c) \/ CallTimesOut(c) \/ CallCancelled(c)

-----------------------------------------------------------------------------
HostProceeds ==
  \/ \E x \in Streams : HostReadsProvider(x)
  \/ \E f \in Flows : HostServesAuth(f)
  \/ HostListsProviders \/ HostPumps

Next ==
  \/ HostProceeds \/ ThreadsRun \/ ListingSteps
  \/ \E c \in Flows : CallBegins(c) \/ CallProceeds(c) \/ CallLeaves(c) \/ LoginSteps(c)

\* The loop of the host serves every line it has and every stream, and a completion
\* ends by itself or by its timeout.  Threads run, and a provider's login and
\* stream end.  A caller's callbacks return and its waits for a frame time out.
Fairness ==
  /\ \A x \in Streams : SF_vars(HostReadsProvider(x))
  /\ WF_vars(HostPumps) /\ WF_vars(ProviderWorks /\ UNCHANGED <<authVars, callVars>>)
  /\ \A f \in Flows :
       /\ SF_vars(HostServesAuth(f))
       /\ WF_vars(AuthWorks(f) /\ UNCHANGED <<providerVars, callVars>>)
       /\ WF_vars((LoginProceeds(f) \/ LoginLeaves(f)) /\ UNCHANGED <<providerVars, callVars>>)
       /\ WF_vars(CallProceeds(f) \/ CallTimesOut(f))

Spec == Init /\ [][Next]_vars

FairSpec == Spec /\ Fairness

-----------------------------------------------------------------------------
(***************************************************************************)
(* Properties.                                                             *)
(***************************************************************************)

\* Types, with those of the login; the route of a call is that of its attempt.
TypeOK ==
  /\ AuthTypeOK
  /\ \A x \in Streams :
       /\ stream[x].state \in {"absent", "active", "aborted", "gone"}
       /\ stream[x].deltas \in 0..MaxDeltas /\ Len(stream[x].events) <= MaxDeltas
  /\ \A c \in Flows : call[c].attempt \in {1, 2} /\ call[c].outcome \in {"none", "ok", "raised"}

\* A call whose abort_request was written holds no stream in the host once its
\* requests are read, whatever point it left from: the sequence the abort names is
\* the one the host expects whenever there is something to abort.
AbortedStreamEnds ==
  \A c \in Flows : call[c].aborted /\ asked[StreamOf(c)] = <<>> => StreamOf(c) \notin Active

Terminal == {"result", "stream_error"}

\* The caller of a call is given one terminal at most, at the end, and a call is
\* not tried again once it was given anything.
OneTerminalShown ==
  /\ \A x \in Streams : \A i \in 1..Len(shown[x]) :
       shown[x][i] \in Terminal => i = Len(shown[x])
  /\ \A c \in Flows : call[c].attempt = 2 => shown[<<c, 1>>] = <<>>

\* A second attempt runs with the credentials its own login left behind.
RetryHasCredentials == \A c \in Flows : call[c].attempt = 2 => c \in saved

\* Every login of a retry returns, though the loop of the host may be serving a
\* completion, and its flow leaves the host's table.
LoginsEnd == LoginEnds /\ FlowEnds

\* docs/v1-sdk-agent-provider-spec.md:462: each provider stream must emit exactly
\* one terminal event.  A caller that still reads a stream the host has let go has
\* one to come.
StreamEndsWithTerminal ==
  \A c \in Flows :
    call[c].pc = "reading" /\ stream[StreamOf(c)].state = "gone" =>
      \E i \in 1..Len(out[StreamOf(c)]) : out[StreamOf(c)][i] \in Terminal \union AuthFrame

=============================================================================
