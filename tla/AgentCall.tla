------------------------------ MODULE AgentCall ------------------------------
(***************************************************************************)
(* agent.run and agent.stream of the Python SDK (python/src/makai/         *)
(* execution.py) against the session server: each call drives one session  *)
(* by agent_start, agent_message and agent_stop over a shared transport,   *)
(* runs the client's tools, leaves at any await, and tries once more after *)
(* an authentication failure.                                              *)
(*                                                                         *)
(* Abstractions.  The transport is connected; its failure ends a call like *)
(* a cancellation does.  Lines keep their order both ways.  Whether a      *)
(* frame reports an authentication failure, and whether an event is one    *)
(* that bars a retry, is nondeterministic.  The idle slices of a probe are *)
(* one wait.                                                               *)
(***************************************************************************)
EXTENDS SessionServer, FiniteSets

CONSTANTS
  Calls,
  Supplied,  \* the session ids callers supply; the SDK mints the others
  MaxShown,  \* bound: frames all runs show before they settle
  MaxWire    \* bound: frames on the wire when the host sends more

\* What a request is and what its message id tells: its call, the attempt, its
\* type and its sequence number.
RequestTypes == {"agent_start", "agent_message", "agent_stop", "tool_result"}
MessageIds == Calls \X (1..2) \X RequestTypes \X (0..3)

ASSUME CallAssumption ==
  /\ Supplied \subseteq Sessions /\ MaxGen \in Nat /\ MaxShown \in Nat /\ MaxWire \in Nat
  /\ None \notin MessageIds

VARIABLES
  call,    \* by call: the locals of _session and of the retry loop around it
  queue,   \* by call: the frames in its route
  unused,  \* minted ids nobody has drawn
  inbox,   \* requests written and not yet read by the host
  shown,
  maker,   \* history: by generation, the attempt whose agent_start made it
  got,     \* history: by call, the generations whose output its attempt saw
  ran      \* history: by call, the attempts in which a client tool ran

callVars    == <<call, queue, unused>>
historyVars == <<maker, got, ran>>
vars == <<serverVars, callVars, inbox, shown, historyVars>>

StartSeq == 1
MessageSeq == 2
StopSeq == 3

NewAttempt(s, n, exclusive) ==
  [pc |-> "starting", session |-> s, attempt |-> n, exclusive |-> exclusive,
   minted |-> s \notin Supplied, accepted |-> FALSE, messageAccepted |-> FALSE,
   rejected |-> FALSE, stop |-> 0, second |-> FALSE, hurried |-> FALSE,
   barred |-> FALSE, auth |-> FALSE]

Idle == [NewAttempt(None, 0, FALSE) EXCEPT !.pc = "idle"]

RouteOpen(c) == call[c].pc \in {"starting", "reading", "tool", "leaving", "probing", "draining"}

RouteOf(s) == {c \in Calls : RouteOpen(c) /\ call[c].session = s}

\* A request of call c; its message id tells the attempt and what it is.
RequestOf(c, type, seq) ==
  [type |-> type, session |-> call[c].session, payload |-> call[c].session, seq |-> seq,
   id |-> <<c, call[c].attempt, type, seq>>]

Send(c, type, seq) == inbox' = Append(inbox, RequestOf(c, type, seq))

Attempt(c) == <<c, call[c].attempt>>

Init ==
  /\ ServerInit
  /\ call = [c \in Calls |-> Idle] /\ queue = [c \in Calls |-> <<>>]
  /\ unused = Sessions \ Supplied
  /\ inbox = <<>> /\ shown = 0
  /\ maker = [g \in 1..MaxGen |-> <<>>]
  /\ got = [c \in Calls |-> {}] /\ ran = [c \in Calls |-> {}]

-----------------------------------------------------------------------------
(***************************************************************************)
(* The host and the reader of the transport.                               *)
(***************************************************************************)
HostReads ==
  /\ inbox # <<>> /\ inbox' = Tail(inbox) /\ Len(wire) < MaxWire
  /\ LET f == Head(inbox)
     IN /\ \/ AcceptStart(f) \/ AcceptMessage(f) \/ AcceptStop(f)
           \/ f.type = "tool_result" /\ UNCHANGED serverVars
        /\ maker' = IF made' = made THEN maker
                    ELSE [maker EXCEPT ![made'] = <<f.id[1], f.id[2]>>]
  /\ UNCHANGED <<callVars, shown, got, ran>>

HostRuns ==
  /\ Len(wire) < MaxWire
  /\ \/ /\ shown < MaxShown /\ shown' = shown + 1
        /\ \E s \in Sessions : Show(s)
     \/ UNCHANGED shown /\ \E s \in Sessions : Settle(s) \/ Evict({s})
  /\ UNCHANGED <<callVars, inbox, historyVars>>

\* A frame goes to the route of its session; nobody's frame is dropped.
ReadFrame ==
  /\ wire # <<>> /\ Deliver(1)
  /\ queue' = [c \in Calls |-> IF c \in RouteOf(Head(wire).session)
                               THEN Append(queue[c], Head(wire)) ELSE queue[c]]
  /\ UNCHANGED <<call, unused, inbox, shown, historyVars>>

-----------------------------------------------------------------------------
(***************************************************************************)
(* _session: opening it and reading its frames.                            *)
(***************************************************************************)

\* Seeded fault: a route that is open already is opened again.
BeginSharedRoute(c) ==
  /\ call[c].pc = "idle"
  /\ \/ /\ \E s \in Supplied : call' = [call EXCEPT ![c] = NewAttempt(s, 1, FALSE)]
        /\ UNCHANGED unused
     \/ \E s \in unused : /\ call' = [call EXCEPT ![c] = NewAttempt(s, 1, TRUE)]
                          /\ unused' = unused \ {s}
  /\ UNCHANGED <<serverVars, queue, inbox, shown, historyVars>>

\* The caller supplies an id, with no route open, or the SDK mints one.
Begin(c) ==
  /\ call[c].pc = "idle"
  /\ \/ /\ \E s \in Supplied :
             RouteOf(s) = {} /\ call' = [call EXCEPT ![c] = NewAttempt(s, 1, FALSE)]
        /\ UNCHANGED unused
     \/ \E s \in unused : /\ call' = [call EXCEPT ![c] = NewAttempt(s, 1, TRUE)]
                          /\ unused' = unused \ {s}
  /\ UNCHANGED <<serverVars, queue, inbox, shown, historyVars>>

SendStart(c) ==
  /\ call[c].pc = "starting"
  /\ Send(c, "agent_start", StartSeq)
  /\ call' = [call EXCEPT ![c].pc = "reading"]
  /\ UNCHANGED <<serverVars, queue, unused, shown, historyVars>>

StartId(c) == RequestOf(c, "agent_start", StartSeq).id

\* Seeded fault: output is taken before agent_started.
IgnoredByReplyOnly(c, f) ==
  \/ f.type = "agent_stopped"
  \/ f.type \in {"agent_error", "nack"} /\ ~call[c].accepted /\ f.re \notin {None, StartId(c)}
  \/ f.type = "agent_started" /\ f.re \notin {None, StartId(c)}

\* Replies to other requests, and whatever precedes the reply to agent_start.
Ignored(c, f) ==
  \/ f.type = "agent_stopped"
  \/ f.type \in {"agent_error", "nack"} /\ ~call[c].accepted /\ f.re \notin {None, StartId(c)}
  \/ f.type = "agent_started" /\ f.re \notin {None, StartId(c)}
  \/ f.type \notin {"agent_error", "nack", "agent_started"} /\ ~call[c].accepted

IsOutput(f) == f.type \in {"agent_event", "tool_execute", "agent_result", "agent_end"}

Take(c) == queue[c] # <<>> /\ queue' = [queue EXCEPT ![c] = Tail(@)]

SkipFrame(c) ==
  /\ call[c].pc = "reading"
  /\ Take(c) /\ Ignored(c, Head(queue[c]))
  /\ UNCHANGED <<serverVars, call, unused, inbox, shown, historyVars>>

\* A refused start, or an error of the run: the call ends by raising it.
Raise(c, f) ==
  /\ f.type \in {"agent_error", "nack"}
  /\ \E auth \in BOOLEAN :
       call' = [call EXCEPT ![c].pc = "leaving", ![c].rejected = ~call[c].accepted,
                            ![c].auth = auth]
  /\ UNCHANGED <<inbox, got>>

Started(c, f) ==
  /\ f.type = "agent_started"
  /\ call' = [call EXCEPT ![c].accepted = TRUE]
  /\ Send(c, "agent_message", MessageSeq)
  /\ UNCHANGED got

\* Output is proof that agent_message was accepted.  A tool call suspends the
\* reading; a result, the end or an error event ends the call.
Output(c, f) ==
  /\ IsOutput(f)
  /\ got' = [got EXCEPT ![c] = @ \union {f.gen}]
  /\ \/ /\ f.type = "tool_execute"
        /\ call' = [call EXCEPT ![c].pc = "tool", ![c].messageAccepted = TRUE]
     \/ /\ f.type = "agent_event" /\ f.code = "none"
        /\ \E barred \in {call[c].barred, TRUE} :
             call' = [call EXCEPT ![c].messageAccepted = TRUE, ![c].barred = barred]
     \/ /\ f.type \in {"agent_result", "agent_end"} \/ (f.type = "agent_event" /\ f.code # "none")
        /\ \E auth \in BOOLEAN :
             call' = [call EXCEPT ![c].pc = "leaving", ![c].messageAccepted = TRUE,
                                  ![c].auth = auth]
  /\ UNCHANGED inbox

ReadNext(c) ==
  /\ call[c].pc = "reading"
  /\ Take(c)
  /\ LET f == Head(queue[c])
     IN ~Ignored(c, f) /\ (Raise(c, f) \/ Started(c, f) \/ Output(c, f))
  /\ UNCHANGED <<serverVars, unused, shown, maker, ran>>

\* Seeded fault: only events tell that a tool ran.
ToolEndsUnmarked(c) ==
  /\ call[c].pc = "tool"
  /\ call' = [call EXCEPT ![c].pc = "reading"]
  /\ ran' = [ran EXCEPT ![c] = @ \union {call[c].attempt}]
  /\ Send(c, "tool_result", 0)
  /\ UNCHANGED <<serverVars, queue, unused, shown, maker, got>>

\* The tool has run: its result is sent and the retry barred.
ToolEnds(c) ==
  /\ call[c].pc = "tool"
  /\ call' = [call EXCEPT ![c].pc = "reading", ![c].barred = TRUE]
  /\ ran' = [ran EXCEPT ![c] = @ \union {call[c].attempt}]
  /\ Send(c, "tool_result", 0)
  /\ UNCHANGED <<serverVars, queue, unused, shown, maker, got>>

\* A timeout, a cancellation or the consumer's aclose() at any await.
Leave(c) ==
  /\ call[c].pc \in {"starting", "reading", "tool"}
  /\ call' = [call EXCEPT ![c].pc = "leaving"]
  /\ ran' = IF call[c].pc = "tool" THEN [ran EXCEPT ![c] = @ \union {call[c].attempt}] ELSE ran
  /\ UNCHANGED <<serverVars, queue, unused, inbox, shown, maker, got>>

-----------------------------------------------------------------------------
(***************************************************************************)
(* Leaving: agent_stop with the sequence the host should expect, and once  *)
(* more with the other one when it is refused for that.                    *)
(***************************************************************************)
OwesStopAlways(c) == TRUE  \* seeded fault: every call stops its session id

OwesStop(c) == ~call[c].rejected /\ (call[c].accepted \/ call[c].exclusive)

AlternateSame(seq) == seq  \* seeded fault: the same sequence is tried again

Alternate(seq) == IF seq = StopSeq THEN MessageSeq ELSE StopSeq

Stop(c) ==
  /\ call[c].pc = "leaving"
  /\ \/ /\ OwesStop(c)
        /\ LET seq == IF call[c].messageAccepted THEN StopSeq ELSE MessageSeq
           IN /\ Send(c, "agent_stop", seq)
              /\ call' = [call EXCEPT ![c].pc = "probing", ![c].stop = seq]
     \/ /\ ~OwesStop(c)
        /\ call' = [call EXCEPT ![c].pc = "draining"]
        /\ UNCHANGED inbox
  /\ UNCHANGED <<serverVars, queue, unused, shown, historyVars>>

Probe(c) ==
  /\ call[c].pc = "probing"
  /\ Take(c)
  /\ LET f == Head(queue[c])
         mine == f.re = RequestOf(c, "agent_stop", call[c].stop).id
         again == mine /\ f.code = "invalid_request" /\ ~call[c].second
     IN \/ ~mine /\ UNCHANGED <<call, inbox>>
        \/ /\ again
           /\ Send(c, "agent_stop", Alternate(call[c].stop))
           /\ call' = [call EXCEPT ![c].stop = Alternate(@), ![c].second = TRUE]
        \/ /\ mine /\ ~again
           /\ call' = [call EXCEPT ![c].pc = "draining"]
           /\ UNCHANGED inbox
  /\ UNCHANGED <<serverVars, unused, shown, historyVars>>

\* The budget of a probe is spent, or the call is cancelled while it stops.
ProbeAbandoned(c) ==
  /\ \/ call[c].pc = "probing"
     \/ call[c].pc = "leaving" /\ OwesStop(c)
  /\ call' = [call EXCEPT ![c].pc = "draining", ![c].hurried = TRUE]
  /\ UNCHANGED <<serverVars, queue, unused, inbox, shown, historyVars>>

\* drain() ends and the route is closed with what is left in it.  The call is
\* tried again, under a fresh id, after an authentication failure that neither
\* followed a tool nor an earlier retry.
MayRetry(c) == call[c].auth /\ ~call[c].barred /\ call[c].attempt = 1

Close(c) ==
  /\ call[c].pc = "draining"
  /\ queue' = [queue EXCEPT ![c] = <<>>]
  /\ call' = [call EXCEPT ![c].pc = IF MayRetry(c) THEN "login" ELSE "ended"]
  /\ UNCHANGED <<serverVars, unused, inbox, shown, historyVars>>

LoginFails(c) ==
  /\ call[c].pc = "login"
  /\ call' = [call EXCEPT ![c].pc = "ended"]
  /\ UNCHANGED <<serverVars, queue, unused, inbox, shown, historyVars>>

\* The minted id is passed as options.session_id: _session does not take it
\* for an exclusive one.
Retry(c) ==
  /\ call[c].pc = "login"
  /\ \E s \in unused : /\ call' = [call EXCEPT ![c] = NewAttempt(s, 2, FALSE)]
                       /\ unused' = unused \ {s}
  /\ got' = [got EXCEPT ![c] = {}]
  /\ UNCHANGED <<serverVars, queue, inbox, shown, maker, ran>>

-----------------------------------------------------------------------------
Step(c) ==
  \/ Begin(c) \/ SendStart(c) \/ SkipFrame(c) \/ ReadNext(c) \/ ToolEnds(c) \/ Leave(c)
  \/ Stop(c) \/ Probe(c) \/ ProbeAbandoned(c) \/ Close(c) \/ LoginFails(c) \/ Retry(c)

Next == HostReads \/ HostRuns \/ ReadFrame \/ \E c \in Calls : Step(c)

Spec == Init /\ [][Next]_vars

-----------------------------------------------------------------------------
(***************************************************************************)
(* Properties.                                                             *)
(***************************************************************************)

\* Types, and the exclusion of routes: one call at a time reads a session.
TypeOK ==
  /\ registry \in [Sessions -> [status : {"absent", "ready", "processing", "error"},
                                gen : 0..MaxGen, next : 0..StopSeq]]
  /\ made \in 0..MaxGen /\ shown \in 0..MaxShown /\ unused \subseteq Sessions \ Supplied
  /\ \A c \in Calls :
       /\ call[c].pc \in {"idle", "starting", "reading", "tool", "leaving", "probing",
                          "draining", "login", "ended"}
       /\ call[c].session \in Sessions \union {None} /\ call[c].attempt \in 0..2
       /\ call[c].stop \in {0, MessageSeq, StopSeq}
       /\ got[c] \subseteq 1..MaxGen /\ ran[c] \subseteq {1, 2}
       /\ RouteOpen(c) => RouteOf(call[c].session) = {c}

\* The output a caller sees is of the registration its own agent_start made,
\* though ids are reused and a late frame carries nothing but its session id.
OutputIsOwn == \A c \in Calls : \A g \in got[c] : maker[g] = Attempt(c)

\* An agent_stop that is accepted ends a session its own attempt started: a
\* call never tears down the run that made its agent_start busy.
StopsOnlyOwnSession ==
  [][\A s \in Sessions :
       Held(s) /\ registry'[s] = Absent /\ inbox # inbox' /\ inbox # <<>> =>
         maker[registry[s].gen] = <<Head(inbox).id[1], Head(inbox).id[2]>>]_vars

\* A call that has left, was not hurried while it stopped and has nothing
\* unread holds no session, whatever point it left from, if its id is
\* exclusive or its start was confirmed: the two stop sequences cover every
\* state the host can be in.
Left(c) == call[c].pc \in {"login", "ended"}
Unread(c) == \E i \in 1..Len(inbox) : <<inbox[i].id[1], inbox[i].id[2]>> = Attempt(c)
Holds(c) == \E s \in Sessions : Held(s) /\ maker[registry[s].gen] = Attempt(c)

LeavesNoSession ==
  \A c \in Calls :
    Left(c) /\ ~call[c].hurried /\ ~Unread(c) /\ (call[c].exclusive \/ call[c].accepted)
      => ~Holds(c)

\* A call is never tried again once a client tool has run in it.
NoToolReplay == \A c \in Calls : call[c].attempt = 2 => 1 \notin ran[c]

\* execution.py:567-568: an id the SDK minted is exclusively ours, so a lost
\* or delayed start reply still leaves it safe to tear down.
MintedSessionEnds ==
  \A c \in Calls :
    Left(c) /\ ~call[c].hurried /\ ~Unread(c) /\ call[c].minted => ~Holds(c)

=============================================================================
