------------------------------ MODULE AuthServer ------------------------------
(***************************************************************************)
(* The auth protocol server (zig/src/protocol/auth/server.zig): the table  *)
(* of login flows, the handlers the host's loop calls under the server's   *)
(* mutex, and the worker thread of each flow, which asks the user through  *)
(* prompts, obtains credentials, saves them and announces the result.      *)
(*                                                                         *)
(* Abstractions.  A flow id is used by one login.  Answers are empty or    *)
(* text.  What the provider's own login does between its prompts, how many *)
(* it asks (MaxPrompts is the bound) and whether it succeeds is            *)
(* nondeterministic.  Memory does not run out.                             *)
(***************************************************************************)
EXTENDS Naturals, Sequences

CONSTANTS Flows, MaxPrompts

ASSUME PromptsAssumption == MaxPrompts \in Nat

VARIABLES
  flow,     \* by flow: FlowState, in the table `flows` or gone
  expects,  \* by flow: expected_sequences, 1 when there is no entry
  worker,   \* by flow: where its thread is, and the result it means to announce
  outbox,   \* by flow: its frames in the server's outbox
  saved     \* the flows whose credentials were written to the storage

serverVars == <<flow, expects, worker, outbox, saved>>

Fresh == [held |-> FALSE, cancelled |-> FALSE, terminal |-> FALSE, done |-> FALSE,
          waiting |-> 0, answer |-> "none", prompts |-> 0]

\* A frame the client reads: all that a login looks at.
Frame(type, n) == [type |-> type, prompt |-> n]

ServerInit ==
  /\ flow = [f \in Flows |-> Fresh] /\ expects = [f \in Flows |-> 1]
  /\ worker = [f \in Flows |-> [pc |-> "none", result |-> "none"]]
  /\ outbox = [f \in Flows |-> <<>>] /\ saved = {}

Silenced(f) == flow[f].cancelled \/ flow[f].terminal

\* cleanupCompletedFlowsLocked, run first by every entry of the server.
Completed(f) == flow[f].held /\ flow[f].done /\ flow[f].terminal

Present(f) == flow[f].held /\ ~Completed(f)

Cleaned == [f \in Flows |-> IF Completed(f) THEN [flow[f] EXCEPT !.held = FALSE] ELSE flow[f]]

CleanedExpects == [f \in Flows |-> IF Completed(f) THEN 1 ELSE expects[f]]

\* activeFlowCount: what the host's exit test asks.
ActiveFlows == {f \in Flows : Present(f) /\ ~flow[f].terminal}

-----------------------------------------------------------------------------
(***************************************************************************)
(* The handlers.  Each says the reply it returns.                          *)
(***************************************************************************)
Put(f, type, n) == outbox' = [outbox EXCEPT ![f] = Append(@, Frame(type, n))]

\* login_start; the thread may fail to start.
AcceptLogin(f, m, reply) ==
  /\ m.type = "auth_login_start"
  /\ \/ /\ m.seq = CleanedExpects[f] /\ ~Present(f)
        /\ expects' = [CleanedExpects EXCEPT ![f] = @ + 1]
        /\ \/ /\ flow' = [Cleaned EXCEPT ![f] = [Fresh EXCEPT !.held = TRUE]]
              /\ worker' = [worker EXCEPT ![f].pc = "begin"]
              /\ reply = "ack"
           \/ flow' = Cleaned /\ UNCHANGED worker /\ reply = "nack"
     \/ /\ m.seq # CleanedExpects[f] \/ Present(f)
        /\ flow' = Cleaned /\ expects' = CleanedExpects
        /\ UNCHANGED worker /\ reply = "nack"
  /\ UNCHANGED <<outbox, saved>>

\* A request for a flow that is over is acknowledged, whatever its sequence.
AcceptLate(f, m, reply) ==
  /\ m.type \in {"auth_prompt_response", "auth_cancel"}
  /\ ~Present(f) \/ Silenced(f)
  /\ flow' = Cleaned /\ expects' = CleanedExpects
  /\ reply = "ack" /\ UNCHANGED <<worker, outbox, saved>>

RefuseSequence(f, m, reply) ==
  /\ m.type \in {"auth_prompt_response", "auth_cancel"}
  /\ Present(f) /\ ~Silenced(f) /\ m.seq # expects[f]
  /\ flow' = Cleaned /\ expects' = CleanedExpects
  /\ reply = "nack" /\ UNCHANGED <<worker, outbox, saved>>

InSequence(f, m) == Present(f) /\ ~Silenced(f) /\ m.seq = expects[f]

\* Seeded fault: the prompt that was answered still waits.
AcceptAnswerAgain(f, m, reply) ==
  /\ m.type = "auth_prompt_response" /\ InSequence(f, m)
  /\ expects' = [CleanedExpects EXCEPT ![f] = @ + 1]
  /\ flow' = IF flow[f].waiting = m.prompt /\ flow[f].answer = "none"
             THEN [Cleaned EXCEPT ![f].answer = m.answer] ELSE Cleaned
  /\ reply = "ack" /\ UNCHANGED <<worker, outbox, saved>>

\* The answer is kept for the prompt that waits; any other is dropped.
AcceptAnswer(f, m, reply) ==
  /\ m.type = "auth_prompt_response" /\ InSequence(f, m)
  /\ expects' = [CleanedExpects EXCEPT ![f] = @ + 1]
  /\ flow' = IF flow[f].waiting = m.prompt /\ flow[f].answer = "none"
             THEN [Cleaned EXCEPT ![f].answer = m.answer, ![f].waiting = 0] ELSE Cleaned
  /\ reply = "ack" /\ UNCHANGED <<worker, outbox, saved>>

AcceptCancel(f, m, reply) ==
  /\ m.type = "auth_cancel" /\ InSequence(f, m)
  /\ expects' = [CleanedExpects EXCEPT ![f] = @ + 1]
  /\ flow' = [Cleaned EXCEPT ![f].cancelled = TRUE, ![f].terminal = TRUE,
                             ![f].waiting = 0, ![f].answer = "none"]
  /\ Put(f, "cancelled", 0)
  /\ reply = "ack" /\ UNCHANGED <<worker, saved>>

\* handleEnvelope
Accept(f, m, reply) ==
  \/ AcceptLogin(f, m, reply) \/ AcceptLate(f, m, reply) \/ RefuseSequence(f, m, reply)
  \/ AcceptAnswer(f, m, reply) \/ AcceptCancel(f, m, reply)

\* popOutbound; the caller writes Head(outbox[f]).
Pop(f) ==
  /\ outbox[f] # <<>> /\ outbox' = [outbox EXCEPT ![f] = Tail(@)]
  /\ flow' = Cleaned /\ expects' = CleanedExpects
  /\ UNCHANGED <<worker, saved>>

\* buildProvidersResponse: a stored credential is valid or expired.
ListedStatuses == IF saved = {} THEN {"login_required"} ELSE {"authenticated", "expired"}

-----------------------------------------------------------------------------
(***************************************************************************)
(* The worker thread of flow f.                                            *)
(***************************************************************************)
WorkerAt(f, pc) == worker[f].pc = pc

Goto(f, pc) == worker' = [worker EXCEPT ![f].pc = pc]

Conclude(f, result) == worker' = [worker EXCEPT ![f] = [pc |-> "conclude", result |-> result]]

\* emitProgress, emitAuthUrl
Begin(f) ==
  /\ WorkerAt(f, "begin") /\ Goto(f, "login")
  /\ IF Silenced(f) THEN UNCHANGED outbox ELSE Put(f, "event", 0)
  /\ UNCHANGED <<flow, expects, saved>>

\* Seeded fault: a prompt is queued for a flow that was cancelled meanwhile.
AskAnyway(f) ==
  /\ WorkerAt(f, "login") \/ WorkerAt(f, "again")
  /\ flow[f].prompts < MaxPrompts
  /\ flow' = [flow EXCEPT ![f].prompts = @ + 1, ![f].waiting = flow[f].prompts + 1]
  /\ Put(f, "prompt", flow[f].prompts + 1)
  /\ Goto(f, "waiting")
  /\ UNCHANGED <<expects, saved>>

\* queuePrompt.  A flow that is over ends the login with AuthFlowCancelled, or
\* goes on with an empty answer where the provider's callback swallows it.
Ask(f) ==
  /\ WorkerAt(f, "login") \/ WorkerAt(f, "again")
  /\ \/ /\ ~Silenced(f) /\ flow[f].prompts < MaxPrompts
        /\ flow' = [flow EXCEPT ![f].prompts = @ + 1, ![f].waiting = flow[f].prompts + 1]
        /\ Put(f, "prompt", flow[f].prompts + 1)
        /\ Goto(f, "waiting")
     \/ /\ Silenced(f)
        /\ Conclude(f, "cancelled")
        /\ UNCHANGED <<flow, outbox>>
  /\ UNCHANGED <<expects, saved>>

\* Seeded fault: only an answer wakes the worker.
WakeOnAnswer(f) ==
  /\ WorkerAt(f, "waiting") /\ flow[f].answer # "none"
  /\ flow' = [flow EXCEPT ![f].answer = "none"]
  /\ \/ Goto(f, "login")
     \/ flow[f].answer = "empty" /\ Goto(f, "again")
  /\ UNCHANGED <<expects, outbox, saved>>

\* promptForAnswer: an empty answer is taken where the prompt allows one.
Wake(f) ==
  /\ WorkerAt(f, "waiting")
  /\ \/ /\ Silenced(f)
        /\ flow' = [flow EXCEPT ![f].answer = "none", ![f].waiting = 0]
        /\ Conclude(f, "cancelled") \/ Goto(f, "login")
     \/ /\ ~Silenced(f) /\ flow[f].answer # "none"
        /\ flow' = [flow EXCEPT ![f].answer = "none"]
        /\ \/ Goto(f, "login")
           \/ flow[f].answer = "empty" /\ Goto(f, "again")
  /\ UNCHANGED <<expects, outbox, saved>>

\* executeProviderLogin returns credentials, or an error.
Obtain(f) ==
  /\ WorkerAt(f, "login")
  /\ Goto(f, "check") \/ Conclude(f, "failed")
  /\ UNCHANGED <<flow, expects, outbox, saved>>

\* runLoginFlow looks at `cancelled` once, between the credentials and the save.
Check(f) ==
  /\ WorkerAt(f, "check")
  /\ IF flow[f].cancelled THEN Conclude(f, "cancelled") ELSE Goto(f, "save")
  /\ UNCHANGED <<flow, expects, outbox, saved>>

\* Seeded fault: success is announced though the credentials were not written.
SaveLightly(f) ==
  /\ WorkerAt(f, "save")
  /\ Conclude(f, "success")
  /\ saved' \in {saved, saved \union {f}}
  /\ UNCHANGED <<flow, expects, outbox>>

Save(f) ==
  /\ WorkerAt(f, "save")
  /\ \/ saved' = saved \union {f} /\ Conclude(f, "success")
     \/ Conclude(f, "failed") /\ UNCHANGED saved
  /\ UNCHANGED <<flow, expects, outbox>>

\* tryBeginTerminal, under the flow's mutex only.
BeginTerminal(f) ==
  /\ WorkerAt(f, "conclude")
  /\ Goto(f, IF flow[f].terminal THEN "over" ELSE "announce")
  /\ flow' = [flow EXCEPT ![f].terminal = TRUE]
  /\ UNCHANGED <<expects, outbox, saved>>

\* The rest of emitSuccessIfNeeded, emitFailureIfNeeded and
\* emitCancelledIfNeeded, under the server's mutex.
Announce(f) ==
  /\ WorkerAt(f, "announce") /\ Goto(f, "over")
  /\ outbox' = [outbox EXCEPT ![f] = @ \o
       CASE worker[f].result = "success" -> <<Frame("event", 0), Frame("success", 0)>>
         [] worker[f].result = "failed" -> <<Frame("error", 0), Frame("failed", 0)>>
         [] OTHER -> <<Frame("cancelled", 0)>>]
  /\ UNCHANGED <<flow, expects, saved>>

\* The deferred block of loginWorkerMain.
Exit(f) ==
  /\ WorkerAt(f, "over") /\ Goto(f, "exited")
  /\ flow' = [flow EXCEPT ![f].done = TRUE]
  /\ UNCHANGED <<expects, outbox, saved>>

WorkerStep(f) ==
  \/ Begin(f) \/ Ask(f) \/ Wake(f) \/ Obtain(f) \/ Check(f) \/ Save(f)
  \/ BeginTerminal(f) \/ Announce(f) \/ Exit(f)

=============================================================================
