-------------------------- MODULE ProviderCallProofs --------------------------
(***************************************************************************)
(* Proofs about ProviderCall, with the login inside it, for every set of   *)
(* calls and every value of the bounds.                                    *)
(***************************************************************************)
EXTENDS ProviderCall, TLAPS

(***************************************************************************)
(* The shape of the state: what the steps below need of the types.         *)
(***************************************************************************)
AuthFrames ==
  [type : {"ack", "nack", "event", "error", "prompt", "success", "failed", "cancelled"},
   prompt : Nat]

Answers == {"none", "text", "empty"}

AuthRequests ==
  [type : {"auth_login_start", "auth_prompt_response", "auth_cancel"},
   seq : Nat, prompt : Nat, answer : Answers]

FlowStates == [held : BOOLEAN, cancelled : BOOLEAN, terminal : BOOLEAN, done : BOOLEAN,
               waiting : Nat, answer : Answers, prompts : Nat]

FlowShape == flow \in [Flows -> FlowStates]

WorkerShape ==
  worker \in [Flows -> [pc : {"none", "begin", "login", "again", "waiting", "check", "save",
                              "conclude", "announce", "over", "exited"},
                        result : {"none", "success", "failed", "cancelled"}]]

LoginPlaces == {"idle", "starting", "reading", "asking", "refusing", "leaving", "ended"}

Outcomes == {"none", "raised", "success", "failed", "cancelled"}

LoginStates == [pc : LoginPlaces, seq : Nat, prompts : BOOLEAN, asked : Nat,
                outcome : Outcomes, lost : BOOLEAN]

LoginShape == login \in [Flows -> LoginStates]

QueueShape ==
  /\ outbox \in [Flows -> Seq(AuthFrames)] /\ toClient \in [Flows -> Seq(AuthFrames)]
  /\ said \in [Flows -> Seq(AuthFrames)] /\ toHost \in [Flows -> Seq(AuthRequests)]

ListingShape ==
  listing \in [pc : {"idle", "asked", "listed", "raised"}, after : BOOLEAN,
              status : {"none", "login_required", "authenticated", "expired"}]

AuthShape ==
  /\ FlowShape /\ WorkerShape /\ LoginShape /\ ListingShape /\ QueueShape
  /\ saved \subseteq Flows

(***************************************************************************)
(* A success on its way, from the worker to the caller, is of credentials  *)
(* that were saved.                                                        *)
(***************************************************************************)
NoSuccess(queue) == \A i \in 1..Len(queue) : queue[i].type # "success"

KeptOf(f) ==
  f \notin saved => /\ worker[f].result # "success" /\ login[f].outcome # "success"
                    /\ NoSuccess(outbox[f]) /\ NoSuccess(toClient[f])

Listed ==
  /\ listing.pc \in {"idle", "asked"} => listing.status = "none"
  /\ listing.after => saved # {} /\ listing.status # "login_required"

Kept == Listed /\ \A f \in Flows : KeptOf(f)

(***************************************************************************)
(* A flow is started once, and whoever sets `terminal` first is the only   *)
(* one to announce.                                                        *)
(***************************************************************************)
NoResult(queue) == \A i \in 1..Len(queue) : queue[i].type \notin Result

ResultAtEnd(queue) == \A i \in 1..Len(queue) : queue[i].type \in Result => i = Len(queue)

StartAtHead(queue) == \A i \in 1..Len(queue) : queue[i].type = "auth_login_start" => i = 1

NoStart(queue) == \A i \in 1..Len(queue) : queue[i].type # "auth_login_start"

Unstarted(f) == worker[f].pc = "none"

StartedOnce(f) ==
  /\ StartAtHead(toHost[f])
  /\ ~Unstarted(f) => NoStart(toHost[f])
  /\ login[f].pc \in {"idle", "starting"} => toHost[f] = <<>> /\ Unstarted(f)

AnnouncedOnce(f) ==
  /\ Unstarted(f) => said[f] = <<>> /\ ~flow[f].held
  /\ worker[f].pc = "announce" => flow[f].terminal /\ NoResult(said[f])
  /\ ~flow[f].terminal => NoResult(said[f])
  /\ ResultAtEnd(said[f])

Once == \A f \in Flows : StartedOnce(f) /\ AnnouncedOnce(f)

AuthInv == AuthShape /\ Kept /\ Once

-----------------------------------------------------------------------------
(***************************************************************************)
(* Sequences.                                                              *)
(***************************************************************************)

\* The part of a queue past its old end is what was appended.
LEMMA NewPart ==
  ASSUME NEW S, NEW q \in Seq(S), NEW r \in Seq(S)
  PROVE  SubSeq(q \o r, Len(q) + 1, Len(q \o r)) = r
  OBVIOUS

\* A queue that did not grow has nothing past its old end.
LEMMA NoNewPart ==
  ASSUME NEW S, NEW q \in Seq(S), NEW p \in Seq(S)
  PROVE  p \o SubSeq(q, Len(q) + 1, Len(q)) = p
  OBVIOUS

\* An appended element is a sequence joined.
LEMMA AppendJoins ==
  ASSUME NEW S, NEW q \in Seq(S), NEW e \in S
  PROVE  Append(q, e) = q \o <<e>>
  OBVIOUS

LEMMA LastOfQueue ==
  ASSUME NEW S, NEW q \in Seq(S), NEW e \in S
  PROVE  /\ Append(q, e) \in Seq(S) /\ Append(q, e) # <<>>
         /\ Append(q, e)[Len(Append(q, e))] = e
  OBVIOUS

LEMMA HeadOfQueue ==
  ASSUME NEW S, NEW q \in Seq(S), q # <<>>
  PROVE  /\ Head(q) \in S /\ Head(q) = q[1] /\ 1 \in 1..Len(q) /\ Tail(q) \in Seq(S)
         /\ Len(Tail(q)) = Len(q) - 1
         /\ \A i \in 1..Len(Tail(q)) : i + 1 \in 1..Len(q) /\ Tail(q)[i] = q[i + 1]
  OBVIOUS
-----------------------------------------------------------------------------
(***************************************************************************)
(* The worker of a flow.                                                   *)
(***************************************************************************)

\* Nothing queued, nothing said.
LEMMA SaidNothing ==
  ASSUME QueueShape, NEW f \in Flows, Recorded(f), outbox' = outbox
  PROVE  said' = said
<1>1. said' = [said EXCEPT ![f] = said[f] \o SubSeq(outbox[f], Len(outbox[f]) + 1, Len(outbox[f]))]
  BY DEF Recorded
<1>2. outbox[f] \in Seq(AuthFrames) /\ said[f] \in Seq(AuthFrames)
  BY DEF QueueShape
<1>3. said[f] \o SubSeq(outbox[f], Len(outbox[f]) + 1, Len(outbox[f])) = said[f]
  BY <1>2, NoNewPart
<1> QED
  BY <1>1, <1>3 DEF QueueShape

\* What is queued is said.
LEMMA SaidQueued ==
  ASSUME QueueShape, NEW f \in Flows, Recorded(f), NEW r \in Seq(AuthFrames),
         outbox' = [outbox EXCEPT ![f] = outbox[f] \o r]
  PROVE  said' = [said EXCEPT ![f] = said[f] \o r]
<1>1. outbox[f] \in Seq(AuthFrames) /\ outbox'[f] = outbox[f] \o r
  BY DEF QueueShape
<1>2. SubSeq(outbox'[f], Len(outbox[f]) + 1, Len(outbox'[f])) = r
  BY <1>1, NewPart
<1> QED
  BY <1>2 DEF Recorded

LEMMA SaidPut ==
  ASSUME QueueShape, NEW f \in Flows, Recorded(f), NEW type, NEW n \in Nat, Put(f, type, n),
         Frame(type, n) \in AuthFrames
  PROVE  /\ said' = [said EXCEPT ![f] = said[f] \o <<Frame(type, n)>>]
         /\ outbox' = [outbox EXCEPT ![f] = outbox[f] \o <<Frame(type, n)>>]
<1>1. outbox[f] \in Seq(AuthFrames)
  BY DEF QueueShape
<1>2. outbox' = [outbox EXCEPT ![f] = outbox[f] \o <<Frame(type, n)>>]
  BY <1>1, AppendJoins DEF Put
<1>3. <<Frame(type, n)>> \in Seq(AuthFrames)
  OBVIOUS
<1> QED
  BY <1>2, <1>3, SaidQueued

\* A step of the worker that queues nothing, saves nothing new and neither starts
\* nor announces keeps the invariant.
LEMMA QuietWorkerStep ==
  ASSUME AuthInv, NEW f \in Flows, Recorded(f), UNCHANGED <<clientVars, wireVars, outbox>>,
         FlowShape', WorkerShape', saved \subseteq saved', saved' \subseteq Flows,
         worker[f].pc # "none", worker'[f].pc \notin {"none", "announce"},
         worker'[f].result = "success" => f \in saved',
         \A g \in Flows \ {f} : flow'[g] = flow[g] /\ worker'[g] = worker[g],
         flow[f].terminal => flow'[f].terminal
  PROVE  AuthInv'
<1> USE DEF AuthInv, AuthShape, clientVars, wireVars
<1>1. said' = said
  BY SaidNothing
<1>2. AuthShape'
  BY <1>1 DEF LoginShape, ListingShape, QueueShape
<1>3. Kept'
  BY DEF Kept, KeptOf, Listed
<1>4. Once'
  BY <1>1 DEF Once, StartedOnce, AnnouncedOnce, Unstarted
<1> QED
  BY <1>2, <1>3, <1>4

\* Begin and Ask: a frame that is no result, while the flow is not over.
LEMMA SpeakingWorkerStep ==
  ASSUME AuthInv, NEW f \in Flows, Recorded(f), UNCHANGED <<clientVars, wireVars, saved>>,
         NEW type \in {"event", "prompt"}, NEW n \in Nat, Put(f, type, n),
         FlowShape', WorkerShape',
         worker[f].pc # "none", worker'[f].pc \notin {"none", "announce"},
         worker'[f].result = worker[f].result, ~flow[f].terminal,
         \A g \in Flows \ {f} : flow'[g] = flow[g] /\ worker'[g] = worker[g]
  PROVE  AuthInv'
<1> USE DEF AuthInv, AuthShape, clientVars, wireVars
<1> DEFINE e == Frame(type, n)
<1>0. e \in AuthFrames /\ e.type = type
  BY DEF Frame, AuthFrames
<1>1. /\ said' = [said EXCEPT ![f] = said[f] \o <<e>>]
      /\ outbox' = [outbox EXCEPT ![f] = outbox[f] \o <<e>>]
  BY <1>0, SaidPut
<1> HIDE DEF e
<1>2. AuthShape'
  BY <1>0, <1>1 DEF LoginShape, ListingShape, QueueShape
<1>3. Kept'
  <2>1. NoSuccess(outbox[f]) => NoSuccess(outbox'[f])
    BY <1>0, <1>1 DEF NoSuccess, QueueShape
  <2>2. KeptOf(f)'
    BY <2>1 DEF Kept, KeptOf
  <2>3. \A g \in Flows \ {f} : KeptOf(g)'
    BY <1>1 DEF Kept, KeptOf, QueueShape
  <2> QED
    BY <2>2, <2>3 DEF Kept, Listed
<1>4. Once'
  <2>1. \A g \in Flows : StartedOnce(g)'
    BY DEF Once, StartedOnce, Unstarted
  <2>2. NoResult(said[f])
    BY DEF Once, AnnouncedOnce
  <2>3. NoResult(said'[f])
    BY <1>0, <1>1, <2>2 DEF NoResult, Result, QueueShape
  <2>4. AnnouncedOnce(f)'
    BY <2>3 DEF AnnouncedOnce, Unstarted, ResultAtEnd, NoResult
  <2>5. \A g \in Flows \ {f} : AnnouncedOnce(g)'
    BY <1>1 DEF Once, AnnouncedOnce, Unstarted, QueueShape
  <2> QED
    BY <2>1, <2>4, <2>5 DEF Once
<1> QED
  BY <1>2, <1>3, <1>4

LEMMA BeginStep ==
  ASSUME AuthInv, NEW f \in Flows, Begin(f), Recorded(f), UNCHANGED <<clientVars, wireVars>>
  PROVE  AuthInv'
<1>1. /\ FlowShape' /\ WorkerShape' /\ worker[f].pc # "none" /\ worker'[f].pc = "login"
      /\ worker'[f].result = worker[f].result
      /\ \A g \in Flows \ {f} : flow'[g] = flow[g] /\ worker'[g] = worker[g]
      /\ flow' = flow
  BY DEF AuthInv, AuthShape, FlowShape, FlowStates, WorkerShape, Begin, WorkerAt, Goto
<1>2. CASE Silenced(f)
  <2>1. outbox' = outbox /\ saved' = saved
    BY <1>2 DEF Begin
  <2>2. worker'[f].result = "success" => f \in saved
    BY <1>1 DEF AuthInv, Kept, KeptOf
  <2> QED
    BY <1>1, <2>1, <2>2, QuietWorkerStep DEF AuthInv, AuthShape
<1>3. CASE ~Silenced(f)
  <2>1. Put(f, "event", 0) /\ ~flow[f].terminal /\ saved' = saved
    BY <1>3 DEF Begin, Silenced
  <2> QED
    BY <1>1, <2>1, SpeakingWorkerStep
<1> QED
  BY <1>2, <1>3

LEMMA AskStep ==
  ASSUME AuthInv, NEW f \in Flows, Ask(f), Recorded(f), UNCHANGED <<clientVars, wireVars>>
  PROVE  AuthInv'
<1> USE DEF AuthInv, AuthShape
<1>1. CASE ~Silenced(f)
  <2> DEFINE n == flow[f].prompts + 1
  <2>1. n \in Nat /\ Put(f, "prompt", n) /\ saved' = saved /\ ~flow[f].terminal
    BY <1>1 DEF Ask, Silenced, FlowShape, FlowStates
  <2>2. /\ WorkerShape' /\ worker[f].pc # "none" /\ worker'[f].pc = "waiting"
        /\ worker'[f].result = worker[f].result
        /\ \A g \in Flows \ {f} : worker'[g] = worker[g]
    BY <1>1 DEF WorkerShape, Ask, WorkerAt, Goto
  <2>3. FlowShape' /\ \A g \in Flows \ {f} : flow'[g] = flow[g]
    <3>1. flow' = [flow EXCEPT ![f].prompts = n, ![f].waiting = n]
      BY <1>1 DEF Ask
    <3> HIDE DEF n
    <3> QED
      BY <2>1, <3>1 DEF FlowShape, FlowStates
  <2> QED
    BY <2>1, <2>2, <2>3, SpeakingWorkerStep
<1>2. CASE Silenced(f)
  <2>1. /\ flow' = flow /\ outbox' = outbox /\ saved' = saved /\ worker[f].pc # "none"
        /\ Conclude(f, "cancelled")
    BY <1>2 DEF Ask, WorkerAt
  <2>2. /\ WorkerShape' /\ worker'[f].pc = "conclude" /\ worker'[f].result = "cancelled"
        /\ \A g \in Flows \ {f} : worker'[g] = worker[g]
    BY <2>1 DEF WorkerShape, Conclude
  <2>3. FlowShape'
    BY <2>1 DEF FlowShape, FlowStates
  <2> QED
    BY <2>1, <2>2, <2>3, QuietWorkerStep
<1> QED
  BY <1>1, <1>2

LEMMA WakeStep ==
  ASSUME AuthInv, NEW f \in Flows, Wake(f), Recorded(f), UNCHANGED <<clientVars, wireVars>>
  PROVE  AuthInv'
<1>1. /\ FlowShape' /\ worker[f].pc # "none" /\ outbox' = outbox /\ saved' = saved
      /\ flow'[f].terminal = flow[f].terminal
      /\ \A g \in Flows \ {f} : flow'[g] = flow[g]
  BY DEF AuthInv, AuthShape, FlowShape, FlowStates, Answers, Wake, WorkerAt
<1>2. /\ WorkerShape' /\ worker'[f].pc \notin {"none", "announce"}
      /\ worker'[f].result \in {worker[f].result, "cancelled"}
      /\ \A g \in Flows \ {f} : worker'[g] = worker[g]
  BY DEF AuthInv, AuthShape, WorkerShape, Wake, WorkerAt, Goto, Conclude
<1>3. worker'[f].result = "success" => f \in saved
  BY <1>2 DEF AuthInv, Kept, KeptOf
<1> QED
  BY <1>1, <1>2, <1>3, QuietWorkerStep DEF AuthInv, AuthShape

\* Obtain, Check, Save and Exit.
LEMMA LaterWorkerStep ==
  ASSUME AuthInv, NEW f \in Flows, Obtain(f) \/ Check(f) \/ Save(f) \/ Exit(f), Recorded(f),
         UNCHANGED <<clientVars, wireVars>>
  PROVE  AuthInv'
<1>1. /\ FlowShape' /\ worker[f].pc # "none" /\ outbox' = outbox
      /\ flow'[f].terminal = flow[f].terminal
      /\ \A g \in Flows \ {f} : flow'[g] = flow[g]
  BY DEF AuthInv, AuthShape, FlowShape, FlowStates, Obtain, Check, Save, Exit, WorkerAt
<1>2. /\ WorkerShape' /\ worker'[f].pc \notin {"none", "announce"}
      /\ worker'[f].result # worker[f].result => worker'[f].result # "success" \/ f \in saved'
      /\ \A g \in Flows \ {f} : worker'[g] = worker[g]
      /\ saved \subseteq saved' /\ saved' \subseteq Flows
  BY DEF AuthInv, AuthShape, WorkerShape, Obtain, Check, Save, Exit, WorkerAt, Goto, Conclude
<1>3. worker'[f].result = "success" => f \in saved'
  BY <1>2 DEF AuthInv, Kept, KeptOf
<1> QED
  BY <1>1, <1>2, <1>3, QuietWorkerStep

\* Only a worker that found the flow not over goes on to announce.
LEMMA BeginTerminalStep ==
  ASSUME AuthInv, NEW f \in Flows, BeginTerminal(f), Recorded(f),
         UNCHANGED <<clientVars, wireVars>>
  PROVE  AuthInv'
<1> USE DEF AuthInv, AuthShape, clientVars, wireVars
<1>1. said' = said
  BY SaidNothing DEF BeginTerminal
<1>2. /\ FlowShape' /\ outbox' = outbox /\ saved' = saved /\ flow'[f].terminal
      /\ flow'[f].held = flow[f].held
      /\ \A g \in Flows \ {f} : flow'[g] = flow[g]
  BY DEF FlowShape, FlowStates, BeginTerminal
<1>3. /\ WorkerShape' /\ worker[f].pc = "conclude"
      /\ worker'[f].pc = (IF flow[f].terminal THEN "over" ELSE "announce")
      /\ worker'[f].result = worker[f].result
      /\ \A g \in Flows \ {f} : worker'[g] = worker[g]
  BY DEF WorkerShape, BeginTerminal, WorkerAt, Goto
<1>4. AuthShape'
  BY <1>1, <1>2, <1>3 DEF LoginShape, ListingShape, QueueShape
<1>5. Kept'
  BY <1>2, <1>3 DEF Kept, KeptOf, Listed
<1>6. Once'
  BY <1>1, <1>2, <1>3 DEF Once, StartedOnce, AnnouncedOnce, Unstarted
<1> QED
  BY <1>4, <1>5, <1>6

\* What the announcement of a result queues.
Announced(result) ==
  CASE result = "success" -> <<Frame("event", 0), Frame("success", 0)>>
    [] result = "failed" -> <<Frame("error", 0), Frame("failed", 0)>>
    [] OTHER -> <<Frame("cancelled", 0)>>

LEMMA PairOfFrames ==
  ASSUME NEW a \in AuthFrames, NEW b \in AuthFrames, a.type \notin Result
  PROVE  /\ <<a, b>> \in Seq(AuthFrames) /\ ResultAtEnd(<<a, b>>)
         /\ a.type # "success" /\ b.type # "success" => NoSuccess(<<a, b>>)
<1> DEFINE p == <<a, b>>
<1>1. p \in Seq(AuthFrames) /\ Len(p) = 2 /\ p[1] = a /\ p[2] = b
  OBVIOUS
<1> HIDE DEF p
<1>2. \A i \in 1..Len(p) : i = 1 \/ i = 2
  BY <1>1
<1>3. ResultAtEnd(p) /\ (a.type # "success" /\ b.type # "success" => NoSuccess(p))
  BY <1>1, <1>2 DEF ResultAtEnd, NoSuccess
<1> QED
  BY <1>1, <1>3 DEF p

LEMMA AnnouncedFrames ==
  ASSUME NEW result
  PROVE  /\ Announced(result) \in Seq(AuthFrames)
         /\ ResultAtEnd(Announced(result))
         /\ result # "success" => NoSuccess(Announced(result))
<1> DEFINE e(type) == Frame(type, 0)
<1>1. \A type \in {"event", "success", "error", "failed", "cancelled"} :
        e(type) \in AuthFrames /\ e(type).type = type
  BY DEF Frame, AuthFrames
<1> HIDE DEF e
<1>2. CASE result = "success"
  <2>1. Announced(result) = <<e("event"), e("success")>>
    BY <1>2 DEF Announced, e
  <2> QED
    BY <1>1, <1>2, <2>1, PairOfFrames DEF Result
<1>3. CASE result = "failed"
  <2>1. Announced(result) = <<e("error"), e("failed")>>
    BY <1>3 DEF Announced, e
  <2> QED
    BY <1>1, <1>3, <2>1, PairOfFrames DEF Result
<1>4. CASE result # "success" /\ result # "failed"
  <2>1. Announced(result) = <<e("cancelled")>>
    BY <1>4 DEF Announced, e
  <2> QED
    BY <1>1, <1>4, <2>1 DEF ResultAtEnd, Result, NoSuccess
<1> QED
  BY <1>2, <1>3, <1>4

LEMMA JoinedNoSuccess ==
  ASSUME NEW q \in Seq(AuthFrames), NEW r \in Seq(AuthFrames), NoSuccess(q), NoSuccess(r)
  PROVE  NoSuccess(q \o r)
  BY DEF NoSuccess

LEMMA JoinedResultAtEnd ==
  ASSUME NEW q \in Seq(AuthFrames), NEW r \in Seq(AuthFrames), NoResult(q), ResultAtEnd(r)
  PROVE  ResultAtEnd(q \o r)
<1> SUFFICES ASSUME NEW i \in 1..Len(q \o r), (q \o r)[i].type \in Result
             PROVE  i = Len(q \o r)
  BY DEF ResultAtEnd
<1>1. Len(q \o r) = Len(q) + Len(r)
  OBVIOUS
<1>2. CASE i <= Len(q)
  <2>1. i \in 1..Len(q) /\ (q \o r)[i] = q[i]
    BY <1>1, <1>2
  <2> QED
    BY <2>1 DEF NoResult
<1>3. CASE i > Len(q)
  <2>1. i - Len(q) \in 1..Len(r) /\ (q \o r)[i] = r[i - Len(q)]
    BY <1>1, <1>3
  <2>2. i - Len(q) = Len(r)
    BY <2>1 DEF ResultAtEnd
  <2> QED
    BY <1>1, <2>2
<1> QED
  BY <1>2, <1>3

\* The result is said once, after everything else.
LEMMA AnnounceStep ==
  ASSUME AuthInv, NEW f \in Flows, Announce(f), Recorded(f), UNCHANGED <<clientVars, wireVars>>
  PROVE  AuthInv'
<1> USE DEF AuthInv, AuthShape, clientVars, wireVars
<1> DEFINE r == Announced(worker[f].result)
<1>0. /\ r \in Seq(AuthFrames) /\ ResultAtEnd(r)
      /\ worker[f].result # "success" => NoSuccess(r)
  BY AnnouncedFrames
<1>1. outbox' = [outbox EXCEPT ![f] = outbox[f] \o r]
  BY DEF Announce, Announced
<1> HIDE DEF r
<1>2. said' = [said EXCEPT ![f] = said[f] \o r]
  BY <1>0, <1>1, SaidQueued
<1>3. /\ WorkerShape' /\ worker[f].pc = "announce" /\ worker'[f].pc = "over"
      /\ worker'[f].result = worker[f].result
      /\ \A g \in Flows \ {f} : worker'[g] = worker[g]
      /\ flow' = flow /\ saved' = saved
  BY DEF WorkerShape, Announce, WorkerAt, Goto
<1>4. outbox[f] \in Seq(AuthFrames) /\ said[f] \in Seq(AuthFrames)
  BY DEF QueueShape
<1>5. AuthShape'
  <2>1. outbox[f] \o r \in Seq(AuthFrames) /\ said[f] \o r \in Seq(AuthFrames)
    BY <1>0, <1>4
  <2>2. QueueShape'
    BY <1>1, <1>2, <2>1 DEF QueueShape
  <2> QED
    BY <1>3, <2>2 DEF FlowShape, FlowStates, LoginShape, ListingShape
<1>6. Kept'
  <2>1. KeptOf(f)'
    <3>1. CASE f \in saved
      BY <1>3, <3>1 DEF KeptOf
    <3>2. CASE f \notin saved
      <4>1. NoSuccess(outbox[f]) /\ worker[f].result # "success"
        BY <3>2 DEF Kept, KeptOf
      <4>2. NoSuccess(outbox'[f])
        BY <1>0, <1>1, <1>4, <4>1, JoinedNoSuccess DEF QueueShape
      <4> QED
        BY <1>3, <3>2, <4>2 DEF Kept, KeptOf
    <3> QED
      BY <3>1, <3>2
  <2>2. \A g \in Flows \ {f} : KeptOf(g)'
    BY <1>1, <1>3 DEF Kept, KeptOf, QueueShape
  <2> QED
    BY <1>3, <2>1, <2>2 DEF Kept, Listed
<1>7. Once'
  <2>1. \A g \in Flows : StartedOnce(g)'
    BY <1>3 DEF Once, StartedOnce, Unstarted
  <2>2. NoResult(said[f]) /\ flow[f].terminal
    BY <1>3 DEF Once, AnnouncedOnce
  <2>3. ResultAtEnd(said'[f])
    BY <1>0, <1>2, <1>4, <2>2, JoinedResultAtEnd DEF QueueShape
  <2>4. AnnouncedOnce(f)'
    BY <1>3, <2>2, <2>3 DEF AnnouncedOnce, Unstarted
  <2>5. \A g \in Flows \ {f} : AnnouncedOnce(g)'
    BY <1>2, <1>3 DEF Once, AnnouncedOnce, Unstarted, QueueShape
  <2> QED
    BY <2>1, <2>4, <2>5 DEF Once
<1> QED
  BY <1>5, <1>6, <1>7

LEMMA AuthWorksStep ==
  ASSUME AuthInv, NEW f \in Flows, AuthWorks(f)
  PROVE  AuthInv'
  BY BeginStep, AskStep, WakeStep, LaterWorkerStep, BeginTerminalStep, AnnounceStep
  DEF AuthWorks, WorkerStep
-----------------------------------------------------------------------------
(***************************************************************************)
(* The loop of the host.                                                   *)
(***************************************************************************)

\* Removing flows that are over changes nothing the invariant looks at, but `held`.
LEMMA CleanedKeeps ==
  ASSUME FlowShape
  PROVE  /\ Cleaned \in [Flows -> FlowStates]
         /\ \A f \in Flows : Cleaned[f].terminal <=> flow[f].terminal
         /\ \A f \in Flows : Cleaned[f].held => flow[f].held
  BY DEF FlowShape, FlowStates, FlowStates, Cleaned, Completed

\* The table with an answer kept for the prompt that waits.
LEMMA AnsweredTable ==
  ASSUME NEW table \in [Flows -> FlowStates], NEW f \in Flows, NEW a \in Answers
  PROVE  LET T == [table EXCEPT ![f].answer = a, ![f].waiting = 0]
         IN  /\ T \in [Flows -> FlowStates]
             /\ \A g \in Flows : T[g].terminal <=> table[g].terminal
             /\ \A g \in Flows : T[g].held <=> table[g].held
  BY DEF FlowStates

\* The frame the host writes reaches the route, or nobody.
LEMMA DeliveredFrame ==
  ASSUME QueueShape, NEW f \in Flows, NEW type, NEW n, Frame(type, n) \in AuthFrames,
         toClient' = Delivered(f, type, n)
  PROVE  /\ toClient' \in [Flows -> Seq(AuthFrames)]
         /\ \A g \in Flows \ {f} : toClient'[g] = toClient[g]
         /\ NoSuccess(toClient[f]) /\ type # "success" => NoSuccess(toClient'[f])
<1> DEFINE e == Frame(type, n)
<1>1. e.type = type
  BY DEF Frame
<1>2. toClient[f] \in Seq(AuthFrames)
  BY DEF QueueShape
<1>3. toClient' = toClient \/ toClient' = [toClient EXCEPT ![f] = Append(toClient[f], e)]
  BY DEF Delivered
<1>4. e \in AuthFrames
  OBVIOUS
<1> HIDE DEF e
<1>5. CASE toClient' = toClient
  BY <1>5 DEF QueueShape
<1>6. CASE toClient' = [toClient EXCEPT ![f] = Append(toClient[f], e)]
  <2>1. Append(toClient[f], e) \in Seq(AuthFrames) /\ toClient'[f] = Append(toClient[f], e)
    BY <1>2, <1>4, <1>6 DEF QueueShape
  <2>2. NoSuccess(toClient[f]) /\ type # "success" => NoSuccess(toClient'[f])
    BY <1>1, <1>2, <1>4, <2>1 DEF NoSuccess
  <2> QED
    BY <1>6, <2>1, <2>2 DEF QueueShape
<1> QED
  BY <1>3, <1>5, <1>6

\* A request read that queues nothing: the head of the flow's requests is gone.
LEMMA QuietRequestStep ==
  ASSUME AuthInv, NEW f \in Flows, NEW reply \in {"ack", "nack"},
         toHost[f] # <<>>, toHost' = [toHost EXCEPT ![f] = Tail(@)],
         toClient' = Delivered(f, reply, 0), Recorded(f),
         UNCHANGED <<clientVars, outbox, saved, worker>>, FlowShape',
         \A g \in Flows : flow'[g].terminal <=> flow[g].terminal,
         \A g \in Flows : flow'[g].held => flow[g].held
  PROVE  AuthInv'
<1> USE DEF AuthInv, AuthShape, clientVars
<1>1. said' = said
  BY SaidNothing
<1>2. /\ toClient' \in [Flows -> Seq(AuthFrames)]
      /\ \A g \in Flows \ {f} : toClient'[g] = toClient[g]
      /\ NoSuccess(toClient[f]) => NoSuccess(toClient'[f])
  BY DeliveredFrame DEF Frame, AuthFrames
<1>3. toHost[f] \in Seq(AuthRequests)
  BY DEF QueueShape
<1>4. /\ toHost' \in [Flows -> Seq(AuthRequests)] /\ toHost'[f] = Tail(toHost[f])
      /\ \A g \in Flows \ {f} : toHost'[g] = toHost[g]
  BY <1>3, HeadOfQueue DEF QueueShape
<1>5. AuthShape'
  BY <1>1, <1>2, <1>4 DEF QueueShape, LoginShape, ListingShape, WorkerShape
<1>6. Kept'
  BY <1>2 DEF Kept, KeptOf, Listed
<1>7. Once'
  <2>1. ASSUME NEW g \in Flows PROVE AnnouncedOnce(g)'
    <3>1. AnnouncedOnce(g)
      BY DEF Once
    <3>2. Unstarted(g)' => said'[g] = <<>> /\ ~flow'[g].held
      BY <1>1, <3>1 DEF AnnouncedOnce, Unstarted
    <3>3. /\ worker'[g].pc = "announce" => flow'[g].terminal /\ NoResult(said'[g])
          /\ ~flow'[g].terminal => NoResult(said'[g])
          /\ ResultAtEnd(said'[g])
      BY <1>1, <3>1 DEF AnnouncedOnce
    <3> QED
      BY <3>2, <3>3 DEF AnnouncedOnce
  <2>2. StartedOnce(f)'
    <3>1. StartAtHead(toHost[f])
      BY DEF Once, StartedOnce
    <3>2. NoStart(toHost'[f])
      BY <1>3, <1>4, <3>1, HeadOfQueue DEF StartAtHead, NoStart
    <3> QED
      BY <3>2 DEF Once, StartedOnce, Unstarted, StartAtHead, NoStart
  <2>3. \A g \in Flows \ {f} : StartedOnce(g)'
    BY <1>4 DEF Once, StartedOnce, Unstarted
  <2> QED
    BY <2>1, <2>2, <2>3 DEF Once
<1> QED
  BY <1>5, <1>6, <1>7

\* Refusals, late requests, answers, and a start whose thread does not come up.
LEMMA QuietAccept ==
  ASSUME AuthInv, NEW f \in Flows, NEW reply \in {"ack", "nack"},
         toHost[f] # <<>>, toHost' = [toHost EXCEPT ![f] = Tail(@)],
         toClient' = Delivered(f, reply, 0), Recorded(f), UNCHANGED <<clientVars, worker>>,
         \/ AcceptLogin(f, Head(toHost[f]), reply) \/ AcceptLate(f, Head(toHost[f]), reply)
         \/ RefuseSequence(f, Head(toHost[f]), reply) \/ AcceptAnswer(f, Head(toHost[f]), reply)
  PROVE  AuthInv'
<1>1. Head(toHost[f]).answer \in Answers
  <2>1. toHost[f] \in Seq(AuthRequests)
    BY DEF AuthInv, AuthShape, QueueShape
  <2>2. Head(toHost[f]) \in AuthRequests
    BY <2>1, HeadOfQueue
  <2> QED
    BY <2>2 DEF AuthRequests
<1>2. outbox' = outbox /\ saved' = saved
  BY DEF AcceptLogin, AcceptLate, RefuseSequence, AcceptAnswer
<1>3. FlowShape
  BY DEF AuthInv, AuthShape
<1>4. \/ flow' = Cleaned
      \/ flow' = [Cleaned EXCEPT ![f].answer = Head(toHost[f]).answer, ![f].waiting = 0]
  <2>1. ASSUME AcceptLogin(f, Head(toHost[f]), reply) PROVE flow' = Cleaned
    <3>1. worker[f].pc # "begin"
      <4>1. toHost[f][1] = Head(toHost[f]) /\ 1 \in 1..Len(toHost[f])
        BY HeadOfQueue DEF AuthInv, AuthShape, QueueShape
      <4> QED
        BY <2>1, <4>1 DEF AuthInv, Once, StartedOnce, NoStart, Unstarted, AcceptLogin
    <3> QED
      BY <2>1, <3>1 DEF AcceptLogin, AuthInv, AuthShape, WorkerShape
  <2> QED
    BY <2>1 DEF AcceptLate, RefuseSequence, AcceptAnswer
<1>5. /\ FlowShape'
      /\ \A g \in Flows : flow'[g].terminal <=> flow[g].terminal
      /\ \A g \in Flows : flow'[g].held => flow[g].held
  <2>1. CASE flow' = Cleaned
    BY <1>3, <2>1, CleanedKeeps DEF FlowShape, FlowStates
  <2>2. CASE flow' = [Cleaned EXCEPT ![f].answer = Head(toHost[f]).answer, ![f].waiting = 0]
    <3>1. Cleaned \in [Flows -> FlowStates]
      BY <1>3, CleanedKeeps
    <3>2. /\ flow' \in [Flows -> FlowStates]
          /\ \A g \in Flows : flow'[g].terminal <=> Cleaned[g].terminal
          /\ \A g \in Flows : flow'[g].held <=> Cleaned[g].held
      BY <1>1, <2>2, <3>1, AnsweredTable
    <3> QED
      BY <1>3, <3>2, CleanedKeeps DEF FlowShape
  <2> QED
    BY <1>4, <2>1, <2>2
<1> QED
  BY <1>2, <1>5, QuietRequestStep

\* login_start: the flow is fresh, and nothing was said of it.
LEMMA StartAccept ==
  ASSUME AuthInv, NEW f \in Flows, NEW reply \in {"ack", "nack"},
         toHost[f] # <<>>, toHost' = [toHost EXCEPT ![f] = Tail(@)],
         toClient' = Delivered(f, reply, 0), Recorded(f), UNCHANGED clientVars,
         AcceptLogin(f, Head(toHost[f]), reply), worker' # worker
  PROVE  AuthInv'
<1> USE DEF AuthInv, AuthShape, clientVars
<1>1. /\ flow' = [Cleaned EXCEPT ![f] = [Fresh EXCEPT !.held = TRUE]]
      /\ worker' = [worker EXCEPT ![f].pc = "begin"]
      /\ outbox' = outbox /\ saved' = saved /\ Head(toHost[f]).type = "auth_login_start"
  BY DEF AcceptLogin
<1>2. said' = said
  BY <1>1, SaidNothing
<1>3. /\ toClient' \in [Flows -> Seq(AuthFrames)]
      /\ \A g \in Flows \ {f} : toClient'[g] = toClient[g]
      /\ NoSuccess(toClient[f]) => NoSuccess(toClient'[f])
  BY DeliveredFrame DEF Frame, AuthFrames
<1>4. toHost[f] \in Seq(AuthRequests)
  BY DEF QueueShape
<1>5. /\ toHost' \in [Flows -> Seq(AuthRequests)] /\ toHost'[f] = Tail(toHost[f])
      /\ \A g \in Flows \ {f} : toHost'[g] = toHost[g]
  BY <1>4, HeadOfQueue DEF QueueShape
<1>6. Unstarted(f) /\ StartAtHead(toHost[f]) /\ said[f] = <<>> /\ toHost[f] # <<>>
  <2>1. toHost[f][1].type = "auth_login_start" /\ 1 \in 1..Len(toHost[f])
    BY <1>1, <1>4, HeadOfQueue
  <2> QED
    BY <2>1 DEF Once, StartedOnce, AnnouncedOnce, NoStart
<1>7. /\ WorkerShape' /\ worker'[f].pc = "begin" /\ worker'[f].result = worker[f].result
      /\ \A g \in Flows \ {f} : worker'[g] = worker[g]
  BY <1>1 DEF WorkerShape
<1>8. /\ FlowShape'
      /\ \A g \in Flows \ {f} : flow'[g].terminal <=> flow[g].terminal
      /\ \A g \in Flows \ {f} : flow'[g].held => flow[g].held
  BY <1>1, CleanedKeeps DEF FlowShape, FlowStates, Fresh, Answers
<1>9. AuthShape'
  BY <1>1, <1>2, <1>3, <1>5, <1>7, <1>8 DEF QueueShape, LoginShape, ListingShape
<1>10. Kept'
  BY <1>1, <1>3, <1>7 DEF Kept, KeptOf, Listed
<1>11. Once'
  <2>1. ASSUME NEW g \in Flows, g # f PROVE AnnouncedOnce(g)' /\ StartedOnce(g)'
    <3>1. AnnouncedOnce(g) /\ StartedOnce(g)
      BY DEF Once
    <3>2. Unstarted(g)' => said'[g] = <<>> /\ ~flow'[g].held
      BY <1>2, <1>7, <1>8, <2>1, <3>1 DEF AnnouncedOnce, Unstarted
    <3>3. /\ worker'[g].pc = "announce" => flow'[g].terminal /\ NoResult(said'[g])
          /\ ~flow'[g].terminal => NoResult(said'[g])
          /\ ResultAtEnd(said'[g])
      BY <1>2, <1>7, <1>8, <2>1, <3>1 DEF AnnouncedOnce
    <3>4. StartedOnce(g)'
      BY <1>5, <1>7, <2>1, <3>1 DEF StartedOnce, Unstarted
    <3> QED
      BY <3>2, <3>3, <3>4 DEF AnnouncedOnce
  <2>2. AnnouncedOnce(f)'
    BY <1>2, <1>6, <1>7 DEF AnnouncedOnce, Unstarted, NoResult, ResultAtEnd
  <2>3. StartedOnce(f)'
    <3>1. NoStart(toHost'[f])
      BY <1>4, <1>5, <1>6, HeadOfQueue DEF StartAtHead, NoStart
    <3>2. login[f].pc \notin {"idle", "starting"}
      BY <1>6 DEF Once, StartedOnce
    <3> QED
      BY <3>1, <3>2 DEF StartedOnce, StartAtHead, NoStart
  <2> QED
    BY <2>1, <2>2, <2>3 DEF Once
<1> QED
  BY <1>9, <1>10, <1>11

\* The table with f cancelled.
LEMMA EndedTable ==
  ASSUME NEW table \in [Flows -> FlowStates], NEW f \in Flows
  PROVE  LET T == [table EXCEPT ![f].cancelled = TRUE, ![f].terminal = TRUE,
                                ![f].waiting = 0, ![f].answer = "none"]
         IN  /\ T \in [Flows -> FlowStates] /\ T[f].terminal
             /\ \A g \in Flows \ {f} : T[g].terminal <=> table[g].terminal
             /\ \A g \in Flows : T[g].held <=> table[g].held
<1> DEFINE e == [table[f] EXCEPT !.cancelled = TRUE, !.terminal = TRUE,
                                 !.waiting = 0, !.answer = "none"]
           T == [table EXCEPT ![f] = e]
<1>1. e \in FlowStates /\ e.terminal
  BY DEF FlowStates, Answers
<1>2. e.held <=> table[f].held
  BY DEF FlowStates
<1>3. T = [table EXCEPT ![f].cancelled = TRUE, ![f].terminal = TRUE,
                        ![f].waiting = 0, ![f].answer = "none"]
  OBVIOUS
<1> HIDE DEF e
<1>4. /\ T \in [Flows -> FlowStates] /\ T[f].terminal
      /\ \A g \in Flows \ {f} : T[g].terminal <=> table[g].terminal
      /\ \A g \in Flows : T[g].held <=> table[g].held
  BY <1>1, <1>2
<1> QED
  BY <1>3, <1>4

LEMMA CancelledTable ==
  ASSUME FlowShape, NEW f \in Flows,
         flow' = [Cleaned EXCEPT ![f].cancelled = TRUE, ![f].terminal = TRUE,
                                 ![f].waiting = 0, ![f].answer = "none"]
  PROVE  /\ FlowShape' /\ flow'[f].terminal
         /\ \A g \in Flows \ {f} : flow'[g].terminal <=> flow[g].terminal
         /\ \A g \in Flows : flow'[g].held => flow[g].held
<1>1. Cleaned \in [Flows -> FlowStates]
  BY CleanedKeeps
<1>2. /\ flow' \in [Flows -> FlowStates] /\ flow'[f].terminal
      /\ \A g \in Flows \ {f} : flow'[g].terminal <=> Cleaned[g].terminal
      /\ \A g \in Flows : flow'[g].held <=> Cleaned[g].held
  BY <1>1, EndedTable
<1> QED
  BY <1>2, CleanedKeeps DEF FlowShape

\* auth_cancel ends a flow nobody has ended: its result is the first, and the last.
LEMMA CancelAccept ==
  ASSUME AuthInv, NEW f \in Flows, NEW reply \in {"ack", "nack"},
         toHost[f] # <<>>, toHost' = [toHost EXCEPT ![f] = Tail(@)],
         toClient' = Delivered(f, reply, 0), Recorded(f), UNCHANGED clientVars,
         AcceptCancel(f, Head(toHost[f]), reply)
  PROVE  AuthInv'
<1> USE DEF AuthInv, AuthShape, clientVars
<1> DEFINE e == Frame("cancelled", 0)
<1>0. e \in AuthFrames /\ e.type = "cancelled"
  BY DEF Frame, AuthFrames
<1>1. /\ said' = [said EXCEPT ![f] = said[f] \o <<e>>]
      /\ outbox' = [outbox EXCEPT ![f] = outbox[f] \o <<e>>]
  BY <1>0, SaidPut DEF AcceptCancel
<1>2. worker' = worker /\ saved' = saved /\ flow[f].held /\ ~flow[f].terminal
  BY DEF AcceptCancel, InSequence, Present, Silenced
<1>3. /\ toClient' \in [Flows -> Seq(AuthFrames)]
      /\ \A g \in Flows \ {f} : toClient'[g] = toClient[g]
      /\ NoSuccess(toClient[f]) => NoSuccess(toClient'[f])
  BY DeliveredFrame DEF Frame, AuthFrames
<1>4. toHost[f] \in Seq(AuthRequests) /\ outbox[f] \in Seq(AuthFrames)
      /\ said[f] \in Seq(AuthFrames) /\ <<e>> \in Seq(AuthFrames)
  BY <1>0 DEF QueueShape
<1>5. /\ toHost' \in [Flows -> Seq(AuthRequests)] /\ toHost'[f] = Tail(toHost[f])
      /\ \A g \in Flows \ {f} : toHost'[g] = toHost[g]
  BY <1>4, HeadOfQueue DEF QueueShape
<1>6. /\ FlowShape' /\ flow'[f].terminal
      /\ \A g \in Flows \ {f} : flow'[g].terminal <=> flow[g].terminal
      /\ \A g \in Flows : flow'[g].held => flow[g].held
  BY CancelledTable DEF AcceptCancel
<1>7. NoSuccess(<<e>>) /\ ResultAtEnd(<<e>>)
  BY <1>0 DEF NoSuccess, ResultAtEnd
<1> HIDE DEF e
<1>8. AuthShape'
  <2>1. outbox[f] \o <<e>> \in Seq(AuthFrames) /\ said[f] \o <<e>> \in Seq(AuthFrames)
    BY <1>4
  <2>2. QueueShape'
    BY <1>1, <1>3, <1>5, <2>1 DEF QueueShape
  <2> QED
    BY <1>2, <1>6, <2>2 DEF LoginShape, ListingShape, WorkerShape
<1>9. Kept'
  <2>1. NoSuccess(outbox[f]) => NoSuccess(outbox'[f])
    BY <1>1, <1>4, <1>7, JoinedNoSuccess DEF QueueShape
  <2>2. KeptOf(f)'
    BY <1>2, <1>3, <2>1 DEF Kept, KeptOf
  <2>3. \A g \in Flows \ {f} : KeptOf(g)'
    BY <1>1, <1>2, <1>3 DEF Kept, KeptOf, QueueShape
  <2> QED
    BY <1>2, <2>2, <2>3 DEF Kept, Listed
<1>10. Once'
  <2>1. ASSUME NEW g \in Flows, g # f PROVE AnnouncedOnce(g)' /\ StartedOnce(g)'
    <3>1. AnnouncedOnce(g) /\ StartedOnce(g) /\ said'[g] = said[g]
      BY <1>1, <2>1 DEF Once, QueueShape
    <3>2. Unstarted(g)' => said'[g] = <<>> /\ ~flow'[g].held
      BY <1>2, <1>6, <2>1, <3>1 DEF AnnouncedOnce, Unstarted
    <3>3. /\ worker'[g].pc = "announce" => flow'[g].terminal /\ NoResult(said'[g])
          /\ ~flow'[g].terminal => NoResult(said'[g])
          /\ ResultAtEnd(said'[g])
      BY <1>2, <1>6, <2>1, <3>1 DEF AnnouncedOnce
    <3>4. StartedOnce(g)'
      BY <1>2, <1>5, <2>1, <3>1 DEF StartedOnce, Unstarted
    <3> QED
      BY <3>2, <3>3, <3>4 DEF AnnouncedOnce
  <2>2. AnnouncedOnce(f)'
    <3>1. NoResult(said[f]) /\ worker[f].pc # "none" /\ worker[f].pc # "announce"
      <4>1. AnnouncedOnce(f)
        BY DEF Once
      <4>2. NoResult(said[f]) /\ worker[f].pc # "announce"
        BY <1>2, <4>1 DEF AnnouncedOnce
      <4>3. worker[f].pc # "none"
        BY <1>2, <4>1 DEF AnnouncedOnce, Unstarted
      <4> QED
        BY <4>2, <4>3
    <3>2. ResultAtEnd(said'[f])
      BY <1>1, <1>4, <1>7, <3>1, JoinedResultAtEnd DEF QueueShape
    <3> QED
      BY <1>2, <1>6, <3>1, <3>2 DEF AnnouncedOnce, Unstarted
  <2>3. StartedOnce(f)'
    <3>1. StartedOnce(f)
      BY DEF Once
    <3>2. NoStart(toHost'[f])
      BY <1>4, <1>5, <3>1, HeadOfQueue DEF StartedOnce, StartAtHead, NoStart
    <3> QED
      BY <1>2, <3>1, <3>2 DEF StartedOnce, StartAtHead, NoStart, Unstarted
  <2> QED
    BY <2>1, <2>2, <2>3 DEF Once
<1> QED
  BY <1>8, <1>9, <1>10

LEMMA AuthReadsStep ==
  ASSUME AuthInv, NEW f \in Flows, AuthReads(f)
  PROVE  AuthInv'
<1>1. PICK reply \in {"ack", "nack"} :
        Accept(f, Head(toHost[f]), reply) /\ toClient' = Delivered(f, reply, 0)
  BY DEF AuthReads
<1>2. /\ toHost[f] # <<>> /\ toHost' = [toHost EXCEPT ![f] = Tail(@)]
      /\ Recorded(f) /\ UNCHANGED clientVars
  BY DEF AuthReads
<1>3. CASE AcceptLogin(f, Head(toHost[f]), reply) /\ worker' # worker
  BY <1>1, <1>2, <1>3, StartAccept
<1>4. CASE AcceptCancel(f, Head(toHost[f]), reply)
  BY <1>1, <1>2, <1>4, CancelAccept
<1>5. CASE /\ worker' = worker
           /\ \/ AcceptLogin(f, Head(toHost[f]), reply) \/ AcceptLate(f, Head(toHost[f]), reply)
              \/ RefuseSequence(f, Head(toHost[f]), reply)
              \/ AcceptAnswer(f, Head(toHost[f]), reply)
  BY <1>1, <1>2, <1>5, QuietAccept
<1> QED
  BY <1>1, <1>3, <1>4, <1>5 DEF Accept, AcceptLate, RefuseSequence, AcceptAnswer

\* A step that removes what is over from the table and says nothing.
LEMMA AnnouncedCleaned ==
  ASSUME AuthInv, flow' = Cleaned, UNCHANGED <<worker, said>>, NEW g \in Flows
  PROVE  AnnouncedOnce(g)'
<1> USE DEF AuthInv, AuthShape
<1>1. AnnouncedOnce(g)
  BY DEF Once
<1>2. (flow'[g].terminal <=> flow[g].terminal) /\ (flow'[g].held => flow[g].held)
  BY CleanedKeeps
<1>3. Unstarted(g)' => said'[g] = <<>> /\ ~flow'[g].held
  BY <1>1, <1>2 DEF AnnouncedOnce, Unstarted
<1>4. /\ worker'[g].pc = "announce" => flow'[g].terminal /\ NoResult(said'[g])
      /\ ~flow'[g].terminal => NoResult(said'[g])
      /\ ResultAtEnd(said'[g])
  BY <1>1, <1>2 DEF AnnouncedOnce
<1> QED
  BY <1>3, <1>4 DEF AnnouncedOnce

\* A frame moves from the outbox to the route.
LEMMA AuthPopsStep ==
  ASSUME AuthInv, NEW f \in Flows, AuthPops(f)
  PROVE  AuthInv'
<1> USE DEF AuthInv, AuthShape, clientVars
<1> DEFINE m == Head(outbox[f])
<1>1. /\ outbox[f] # <<>> /\ outbox' = [outbox EXCEPT ![f] = Tail(outbox[f])]
      /\ flow' = Cleaned /\ UNCHANGED <<worker, saved, login, listing, toHost, said>>
      /\ toClient' = Delivered(f, m.type, m.prompt)
  BY DEF AuthPops, Pop
<1>2. outbox[f] \in Seq(AuthFrames)
  BY DEF QueueShape
<1>3. /\ m \in AuthFrames /\ m = outbox[f][1] /\ 1 \in 1..Len(outbox[f])
      /\ Tail(outbox[f]) \in Seq(AuthFrames)
      /\ NoSuccess(outbox[f]) => NoSuccess(Tail(outbox[f])) /\ m.type # "success"
  BY <1>1, <1>2, HeadOfQueue DEF NoSuccess
<1> HIDE DEF m
<1>4. Frame(m.type, m.prompt) \in AuthFrames
  BY <1>3 DEF Frame, AuthFrames
<1>5. /\ toClient' \in [Flows -> Seq(AuthFrames)]
      /\ \A g \in Flows \ {f} : toClient'[g] = toClient[g]
      /\ NoSuccess(toClient[f]) /\ m.type # "success" => NoSuccess(toClient'[f])
  BY <1>1, <1>4, DeliveredFrame
<1>6. AuthShape'
  <2>1. FlowShape'
    BY <1>1, CleanedKeeps DEF FlowShape
  <2>2. QueueShape'
    BY <1>1, <1>3, <1>5 DEF QueueShape
  <2> QED
    BY <1>1, <2>1, <2>2 DEF LoginShape, ListingShape, WorkerShape
<1>7. Kept'
  <2>1. KeptOf(f)'
    BY <1>1, <1>2, <1>3, <1>5 DEF Kept, KeptOf, QueueShape
  <2>2. \A g \in Flows \ {f} : KeptOf(g)'
    BY <1>1, <1>5 DEF Kept, KeptOf, QueueShape
  <2> QED
    BY <1>1, <2>1, <2>2 DEF Kept, Listed
<1>8. Once'
  <2>1. \A g \in Flows : StartedOnce(g)'
    BY <1>1 DEF Once, StartedOnce, Unstarted
  <2> QED
    BY <1>1, <2>1, AnnouncedCleaned DEF Once
<1> QED
  BY <1>6, <1>7, <1>8

\* A list of providers asked for after a success finds its credentials.
LEMMA ListingStep ==
  ASSUME AuthInv, ListBegins \/ ListAnswered \/ ListRaises
  PROVE  AuthInv'
<1> USE DEF AuthInv, AuthShape
<1>1. /\ UNCHANGED <<worker, outbox, saved, login, toHost, toClient, said>>
      /\ flow' = flow \/ flow' = Cleaned
  BY DEF ListBegins, ListAnswered, ListRaises, serverVars, wireVars
<1>2. /\ ListingShape' /\ Listed
      /\ listing.pc \in {"idle", "asked"} => listing.status = "none"
  <2>1. listing'.pc \in {"asked", "listed", "raised"} /\ ListingShape'
    BY DEF ListingShape, ListBegins, ListAnswered, ListRaises, ListedStatuses
  <2> QED
    BY <2>1 DEF Kept, Listed
<1>3. AuthShape'
  <2>1. FlowShape'
    BY <1>1, CleanedKeeps DEF FlowShape
  <2> QED
    BY <1>1, <1>2, <2>1 DEF LoginShape, WorkerShape, QueueShape
<1>4. Listed'
  <2>1. CASE ListBegins
    <3>1. /\ listing'.after => \E f \in Flows : login[f].outcome = "success"
          /\ listing'.status = "none"
      BY <1>2, <2>1 DEF ListBegins, ListingShape
    <3>2. listing'.after => saved # {}
      BY <3>1 DEF Kept, KeptOf
    <3> QED
      BY <1>1, <3>1, <3>2 DEF Listed
  <2>2. CASE ListAnswered
    <3>1. /\ listing'.after <=> listing.after
          /\ listing'.pc = "listed" /\ listing'.status \in ListedStatuses
      BY <2>2 DEF ListAnswered, ListingShape
    <3> QED
      BY <1>1, <1>2, <3>1 DEF Listed, ListedStatuses
  <2>3. CASE ListRaises
    <3>1. /\ listing'.after <=> listing.after
          /\ listing'.pc = "raised" /\ listing'.status = listing.status
      BY <2>3 DEF ListRaises, ListingShape
    <3> QED
      BY <1>1, <1>2, <3>1 DEF Listed
  <2> QED
    BY <2>1, <2>2, <2>3
<1>5. \A f \in Flows : KeptOf(f)'
  BY <1>1 DEF Kept, KeptOf
<1>6. \A f \in Flows : StartedOnce(f)'
  BY <1>1 DEF Once, StartedOnce, Unstarted
<1>7. \A f \in Flows : AnnouncedOnce(f)'
  BY <1>1, AnnouncedCleaned DEF Once, AnnouncedOnce, Unstarted
<1> QED
  BY <1>3, <1>4, <1>5, <1>6, <1>7 DEF Kept, Once

-----------------------------------------------------------------------------
(***************************************************************************)
(* The login.                                                              *)
(***************************************************************************)

\* A step of one login that says success only if a success was on the way, and
\* writes a start only as its first request.
LEMMA OneLoginStep ==
  ASSUME AuthInv, NEW f \in Flows, Only(f), LoginShape',
         toClient' \in [Flows -> Seq(AuthFrames)], toHost' \in [Flows -> Seq(AuthRequests)],
         \A g \in Flows \ {f} : /\ login'[g] = login[g] /\ toHost'[g] = toHost[g]
                               /\ toClient'[g] = toClient[g],
         NoSuccess(toClient[f]) => NoSuccess(toClient'[f]),
         NoSuccess(toClient[f]) /\ login[f].outcome # "success" => login'[f].outcome # "success",
         StartedOnce(f)'
  PROVE  AuthInv'
<1> USE DEF AuthInv, AuthShape, Only, serverVars
<1>1. AuthShape'
  BY DEF FlowShape, WorkerShape, ListingShape, QueueShape
<1>2. Kept'
  BY DEF Kept, KeptOf, Listed
<1>3. Once'
  BY DEF Once, StartedOnce, AnnouncedOnce, Unstarted
<1> QED
  BY <1>1, <1>2, <1>3

\* A request is written at the end of the flow's.
LEMMA WrittenRequest ==
  ASSUME AuthInv, NEW f \in Flows, NEW answer \in Answers,
         NEW type \in {"auth_login_start", "auth_prompt_response", "auth_cancel"},
         Write(f, type, answer)
  PROVE  /\ toHost' \in [Flows -> Seq(AuthRequests)] /\ toHost'[f] # <<>>
         /\ \A g \in Flows \ {f} : toHost'[g] = toHost[g]
         /\ type = "auth_login_start" /\ toHost[f] = <<>> => StartAtHead(toHost'[f])
         /\ type # "auth_login_start" /\ StartAtHead(toHost[f]) => StartAtHead(toHost'[f])
         /\ type # "auth_login_start" /\ NoStart(toHost[f]) => NoStart(toHost'[f])
<1> USE DEF AuthInv, AuthShape
<1> DEFINE r == Request(f, type, answer)
<1>1. r \in AuthRequests /\ r.type = type
  BY DEF Request, AuthRequests, LoginShape, LoginStates
<1>2. toHost' = [toHost EXCEPT ![f] = Append(toHost[f], r)]
  BY DEF Write
<1>3. toHost[f] \in Seq(AuthRequests)
  BY DEF QueueShape
<1> HIDE DEF r
<1>4. /\ toHost' \in [Flows -> Seq(AuthRequests)] /\ toHost'[f] = Append(toHost[f], r)
      /\ \A g \in Flows \ {f} : toHost'[g] = toHost[g]
  BY <1>1, <1>2, <1>3 DEF QueueShape
<1>5. toHost'[f] # <<>>
  BY <1>1, <1>3, <1>4
<1>6. type = "auth_login_start" /\ toHost[f] = <<>> => StartAtHead(toHost'[f])
  BY <1>1, <1>3, <1>4 DEF StartAtHead
<1>7. type # "auth_login_start" /\ StartAtHead(toHost[f]) => StartAtHead(toHost'[f])
  BY <1>1, <1>3, <1>4 DEF StartAtHead
<1>8. type # "auth_login_start" /\ NoStart(toHost[f]) => NoStart(toHost'[f])
  BY <1>1, <1>3, <1>4 DEF NoStart
<1> QED
  BY <1>4, <1>5, <1>6, <1>7, <1>8

\* A login that does not write a start and is not at its beginning after the step.
LEMMA LaterLoginStep ==
  ASSUME AuthInv, NEW f \in Flows, Only(f), LoginShape',
         \/ toHost' = toHost
         \/ \E type \in {"auth_prompt_response", "auth_cancel"}, answer \in Answers :
              Write(f, type, answer),
         \/ toClient' = toClient
         \/ toClient' = [toClient EXCEPT ![f] = <<>>]
         \/ /\ toClient[f] # <<>>
            /\ toClient' = [toClient EXCEPT ![f] = Tail(toClient[f])],
         \A g \in Flows \ {f} : login'[g] = login[g],
         login'[f].pc \notin {"idle", "starting"},
         NoSuccess(toClient[f]) /\ login[f].outcome # "success" => login'[f].outcome # "success"
  PROVE  AuthInv'
<1> USE DEF AuthInv, AuthShape
<1>1. toClient[f] \in Seq(AuthFrames)
  BY DEF QueueShape
<1>2. /\ toClient' \in [Flows -> Seq(AuthFrames)]
      /\ \A g \in Flows \ {f} : toClient'[g] = toClient[g]
      /\ NoSuccess(toClient[f]) => NoSuccess(toClient'[f])
  <2>1. CASE toClient' = toClient
    BY <2>1 DEF QueueShape
  <2>2. CASE toClient' = [toClient EXCEPT ![f] = <<>>]
    BY <2>2 DEF QueueShape, NoSuccess
  <2>3. CASE toClient[f] # <<>> /\ toClient' = [toClient EXCEPT ![f] = Tail(toClient[f])]
    <3>1. Tail(toClient[f]) \in Seq(AuthFrames) /\ toClient'[f] = Tail(toClient[f])
      BY <1>1, <2>3, HeadOfQueue DEF QueueShape
    <3>2. NoSuccess(toClient[f]) => NoSuccess(toClient'[f])
      BY <1>1, <2>3, <3>1, HeadOfQueue DEF NoSuccess
    <3> QED
      BY <2>3, <3>1, <3>2 DEF QueueShape
  <2> QED
    BY <2>1, <2>2, <2>3
<1>3. /\ toHost' \in [Flows -> Seq(AuthRequests)]
      /\ \A g \in Flows \ {f} : toHost'[g] = toHost[g]
      /\ StartAtHead(toHost[f]) => StartAtHead(toHost'[f])
      /\ NoStart(toHost[f]) => NoStart(toHost'[f])
  <2>1. CASE toHost' = toHost
    BY <2>1 DEF QueueShape
  <2>2. ASSUME NEW type \in {"auth_prompt_response", "auth_cancel"}, NEW answer \in Answers,
               Write(f, type, answer)
        PROVE  /\ toHost' \in [Flows -> Seq(AuthRequests)]
               /\ \A g \in Flows \ {f} : toHost'[g] = toHost[g]
               /\ StartAtHead(toHost[f]) => StartAtHead(toHost'[f])
               /\ NoStart(toHost[f]) => NoStart(toHost'[f])
    <3>1. type \in {"auth_login_start", "auth_prompt_response", "auth_cancel"}
          /\ type # "auth_login_start"
      OBVIOUS
    <3> QED
      BY <2>2, <3>1, WrittenRequest
  <2> QED
    BY <2>1, <2>2
<1>4. StartedOnce(f)'
  BY <1>3 DEF Once, StartedOnce, Unstarted, Only, serverVars
<1> QED
  BY <1>2, <1>3, <1>4, OneLoginStep

\* A login that was cut short.
LEMMA LostLogin ==
  ASSUME NEW table \in [Flows -> LoginStates], NEW f \in Flows
  PROVE  [table EXCEPT ![f].pc = "ended", ![f].outcome = "raised", ![f].lost = TRUE]
           \in [Flows -> LoginStates]
<1>1. ASSUME NEW pc \in LoginPlaces, NEW outcome \in Outcomes
      PROVE  [table EXCEPT ![f].pc = pc, ![f].outcome = outcome, ![f].lost = TRUE]
               \in [Flows -> LoginStates]
  BY DEF LoginStates
<1> QED
  BY <1>1 DEF LoginPlaces, Outcomes

LEMMA LoginBeginsStep ==
  ASSUME AuthInv, NEW f \in Flows, LoginBegins(f)
  PROVE  AuthInv'
<1> USE DEF AuthInv, AuthShape, wireVars
<1>1. Only(f) /\ toHost' = toHost /\ toClient' = toClient /\ login[f].pc = "idle"
  BY DEF LoginBegins
<1>2. PICK prompts \in BOOLEAN :
        login' = [login EXCEPT ![f].pc = "starting", ![f].prompts = prompts]
  BY DEF LoginBegins
<1>3. login[f].outcome \in Outcomes
  BY DEF LoginShape, LoginStates
<1>4. LoginShape' /\ \A g \in Flows \ {f} : login'[g] = login[g]
  <2>1. [login EXCEPT ![f].pc = "starting", ![f].prompts = prompts] \in [Flows -> LoginStates]
    BY DEF LoginShape, LoginStates, LoginPlaces, Outcomes
  <2> QED
    BY <1>2, <2>1 DEF LoginShape
<1>5. login'[f].pc = "starting" /\ login'[f].outcome = login[f].outcome
  BY <1>2 DEF LoginShape, LoginStates
<1>6. StartedOnce(f)'
  BY <1>1, <1>5 DEF Once, StartedOnce, Unstarted, Only, serverVars
<1> QED
  BY <1>1, <1>4, <1>5, <1>6, OneLoginStep DEF QueueShape

\* The first send, whether or not it returns, is the only one of a start.
LEMMA LoginStartStep ==
  ASSUME AuthInv, NEW f \in Flows, LoginSendsStart(f) \/ LoginLosesStart(f)
  PROVE  AuthInv'
<1> USE DEF AuthInv, AuthShape
<1>1. /\ Only(f) /\ login[f].pc = "starting"
      /\ Write(f, "auth_login_start", "none") \/ toHost' = toHost
      /\ toClient' = toClient \/ toClient' = [toClient EXCEPT ![f] = <<>>]
  BY DEF LoginSendsStart, LoginLosesStart
<1>2. /\ LoginShape' /\ \A g \in Flows \ {f} : login'[g] = login[g]
      /\ login'[f].pc \in {"reading", "ended"}
      /\ login'[f].outcome \in {login[f].outcome, "raised"}
  <2>1. \/ login' = [login EXCEPT ![f].pc = "reading", ![f].seq = 2]
        \/ login' = [login EXCEPT ![f].pc = "ended", ![f].outcome = "raised", ![f].lost = TRUE]
    BY DEF LoginSendsStart, LoginLosesStart
  <2>2. CASE login' = [login EXCEPT ![f].pc = "reading", ![f].seq = 2]
    BY <2>2 DEF LoginShape, LoginStates, LoginPlaces, Outcomes
  <2>3. CASE login' = [login EXCEPT ![f].pc = "ended", ![f].outcome = "raised", ![f].lost = TRUE]
    <3>1. login' \in [Flows -> LoginStates]
      BY <2>3, LostLogin DEF LoginShape
    <3> QED
      BY <2>3, <3>1 DEF LoginShape, LoginStates
  <2> QED
    BY <2>1, <2>2, <2>3
<1>3. toHost[f] = <<>> /\ Unstarted(f) /\ worker' = worker
  BY <1>1 DEF Once, StartedOnce, Only, serverVars
<1>4. /\ toHost' \in [Flows -> Seq(AuthRequests)] /\ StartAtHead(toHost'[f])
      /\ \A g \in Flows \ {f} : toHost'[g] = toHost[g]
  <2>1. CASE toHost' = toHost
    BY <1>3, <2>1 DEF QueueShape, StartAtHead
  <2>2. CASE Write(f, "auth_login_start", "none")
    BY <1>3, <2>2, WrittenRequest DEF Answers
  <2> QED
    BY <1>1, <2>1, <2>2
<1>5. StartedOnce(f)'
  <2>1. login'[f].pc \notin {"idle", "starting"}
    BY <1>2
  <2> QED
    BY <1>3, <1>4, <2>1 DEF StartedOnce, Unstarted
<1>6. /\ toClient' \in [Flows -> Seq(AuthFrames)]
      /\ \A g \in Flows \ {f} : toClient'[g] = toClient[g]
      /\ NoSuccess(toClient[f]) => NoSuccess(toClient'[f])
  <2>1. CASE toClient' = toClient
    BY <2>1 DEF QueueShape
  <2>2. CASE toClient' = [toClient EXCEPT ![f] = <<>>]
    BY <2>2 DEF QueueShape, NoSuccess
  <2> QED
    BY <1>1, <2>1, <2>2
<1> QED
  BY <1>1, <1>2, <1>4, <1>5, <1>6, OneLoginStep

\* A success is what the login read.
LEMMA LoginReadsStep ==
  ASSUME AuthInv, NEW f \in Flows, LoginReads(f)
  PROVE  AuthInv'
<1> USE DEF AuthInv, AuthShape
<1> DEFINE m == Head(toClient[f])
<1>1. m \in AuthFrames /\ m = toClient[f][1] /\ 1 \in 1..Len(toClient[f]) /\ toClient[f] # <<>>
  BY HeadOfQueue DEF LoginReads, QueueShape
<1>2. m.prompt \in Nat /\ (NoSuccess(toClient[f]) => m.type # "success")
  BY <1>1 DEF AuthFrames, NoSuccess
<1>3. /\ Only(f) /\ toHost' = toHost /\ login[f].pc = "reading"
      /\ toClient' = [toClient EXCEPT ![f] = <<>>]
         \/ toClient' = [toClient EXCEPT ![f] = Tail(toClient[f])]
      /\ \/ login' = login
         \/ login' = [login EXCEPT ![f].pc = "leaving"]
         \/ login' = [login EXCEPT ![f].asked = m.prompt,
                        ![f].pc = IF login[f].prompts THEN "asking" ELSE "refusing"]
         \/ /\ m.type \in {"success", "failed", "cancelled"}
            /\ login' = [login EXCEPT ![f].pc = "ended", ![f].outcome = m.type]
  BY DEF LoginReads, Take, Ends
<1> HIDE DEF m
<1>4. /\ LoginShape' /\ login'[f].pc \notin {"idle", "starting"}
      /\ login'[f].outcome = login[f].outcome \/ login'[f].outcome = m.type
      /\ \A g \in Flows \ {f} : login'[g] = login[g]
  <2>1. CASE login' = login
    BY <1>3, <2>1 DEF LoginShape
  <2>2. CASE login' = [login EXCEPT ![f].pc = "leaving"]
    BY <2>2 DEF LoginShape, LoginStates, LoginPlaces, Outcomes
  <2>3. ASSUME NEW pc \in {"asking", "refusing"},
               login' = [login EXCEPT ![f].asked = m.prompt, ![f].pc = pc]
        PROVE  /\ LoginShape' /\ login'[f].pc = pc /\ login'[f].outcome = login[f].outcome
               /\ \A g \in Flows \ {f} : login'[g] = login[g]
    BY <1>2, <2>3 DEF LoginShape, LoginStates, LoginPlaces, Outcomes
  <2>4. CASE /\ m.type \in {"success", "failed", "cancelled"}
             /\ login' = [login EXCEPT ![f].pc = "ended", ![f].outcome = m.type]
    <3>1. PICK type \in Outcomes :
            type = m.type /\ login' = [login EXCEPT ![f].pc = "ended", ![f].outcome = type]
      BY <2>4 DEF Outcomes
    <3>2. LoginShape'
      BY <3>1 DEF LoginShape, LoginStates, LoginPlaces
    <3> QED
      BY <3>1, <3>2 DEF LoginShape, LoginStates
  <2> QED
    BY <1>3, <2>1, <2>2, <2>3, <2>4
<1> QED
  BY <1>1, <1>2, <1>3, <1>4, LaterLoginStep

\* Answers, refusals, and the ways to leave.
LEMMA OtherLoginStep ==
  ASSUME AuthInv, NEW f \in Flows,
         \/ LoginAnswers(f) \/ LoginLosesCount(f) \/ LoginRefuses(f) \/ LoginLeaves(f)
         \/ LoginCancels(f) \/ LoginLosesCancel(f)
  PROVE  AuthInv'
<1> USE DEF AuthInv, AuthShape
<1>1. /\ Only(f)
      /\ \/ toHost' = toHost
         \/ Write(f, "auth_prompt_response", "text") \/ Write(f, "auth_prompt_response", "empty")
         \/ Write(f, "auth_cancel", "none")
      /\ toClient' = toClient \/ toClient' = [toClient EXCEPT ![f] = <<>>]
  BY DEF LoginAnswers, LoginLosesCount, LoginRefuses, LoginLeaves, LoginCancels,
         LoginLosesCancel, Ends, wireVars
<1>2. \/ login' = [login EXCEPT ![f].pc = "reading", ![f].seq = login[f].seq + 1]
      \/ login' = [login EXCEPT ![f].pc = "leaving"]
      \/ login' = [login EXCEPT ![f].pc = "leaving", ![f].lost = TRUE]
      \/ login' = [login EXCEPT ![f].pc = "ended", ![f].outcome = "raised"]
      \/ login' = [login EXCEPT ![f].pc = "ended", ![f].outcome = "raised", ![f].lost = TRUE]
  BY DEF LoginAnswers, LoginLosesCount, LoginRefuses, LoginLeaves, LoginCancels,
         LoginLosesCancel, Ends
<1>3. login[f].seq + 1 \in Nat
  BY DEF LoginShape, LoginStates
<1>4. LoginShape'
  <2>1. CASE login' = [login EXCEPT ![f].pc = "reading", ![f].seq = login[f].seq + 1]
    BY <1>3, <2>1 DEF LoginShape, LoginStates, LoginPlaces, Outcomes
  <2>2. CASE login' = [login EXCEPT ![f].pc = "leaving"]
    BY <2>2 DEF LoginShape, LoginStates, LoginPlaces, Outcomes
  <2>3. CASE login' = [login EXCEPT ![f].pc = "leaving", ![f].lost = TRUE]
    BY <2>3 DEF LoginShape, LoginStates, LoginPlaces, Outcomes
  <2>4. CASE login' = [login EXCEPT ![f].pc = "ended", ![f].outcome = "raised"]
    BY <2>4 DEF LoginShape, LoginStates, LoginPlaces, Outcomes
  <2>5. CASE login' = [login EXCEPT ![f].pc = "ended", ![f].outcome = "raised", ![f].lost = TRUE]
    BY <2>5, LostLogin DEF LoginShape
  <2> QED
    BY <1>2, <2>1, <2>2, <2>3, <2>4, <2>5
<1>5. /\ login'[f].pc \in {"reading", "leaving", "ended"}
      /\ login'[f].outcome \in {login[f].outcome, "raised"}
      /\ \A g \in Flows \ {f} : login'[g] = login[g]
  BY <1>2 DEF LoginShape, LoginStates
<1> QED
  BY <1>1, <1>4, <1>5, LaterLoginStep DEF Answers

LEMMA LoginStepStep ==
  ASSUME AuthInv, NEW f \in Flows, LoginStep(f)
  PROVE  AuthInv'
  BY LoginStartStep, LoginReadsStep, OtherLoginStep DEF LoginStep, LoginProceeds
-----------------------------------------------------------------------------
(***************************************************************************)
(* The call: a second attempt follows a login that left its credentials,   *)
(* and what is written after an abort_request is nothing.                  *)
(***************************************************************************)
ProviderRequests == [type : {"stream_request", "complete_request", "abort_request"}, seq : Nat]

CallPlaces == {"idle", "starting", "reading", "yielding", "aborting", "login", "ended"}

CallStates == [pc : CallPlaces, kind : {"complete", "stream"}, policy : BOOLEAN,
               attempt : {1, 2}, yielded : BOOLEAN, outcome : {"none", "ok", "raised"},
               aborted : BOOLEAN]

StreamStates == [state : {"absent", "active", "aborted", "gone"}, events : Seq({"delta"}),
                 deltas : Nat, outcome : {"none", "result", "stream_error", "stream_error_auth"}]

CallShape ==
  /\ call \in [Flows -> CallStates] /\ asked \in [Streams -> Seq(ProviderRequests)]
  /\ stream \in [Streams -> StreamStates]

AbortRequest == [type |-> "abort_request", seq |-> AbortSeq]

\* What follows the abort_request of a call: nothing, until it is read, and then
\* the stream is not in the table.
AbortIsLast(c) ==
  LET x == StreamOf(c)
  IN call[c].aborted => /\ call[c].pc = "ended"
                        /\ asked[x] = <<>> => stream[x].state # "active"
                        /\ asked[x] # <<>> => asked[x][Len(asked[x])] = AbortRequest

CallInv == CallShape /\ RetryHasCredentials /\ \A c \in Flows : AbortIsLast(c)

\* The streams of different calls and attempts differ.
LEMMA StreamOfCall ==
  ASSUME CallShape, NEW c \in Flows
  PROVE  /\ StreamOf(c) \in Streams
         /\ \A d \in Flows \ {c} : StreamOf(d) # StreamOf(c)
  BY StreamAssumption DEF CallShape, CallStates, StreamOf, StreamAssumption

\* A request asked is the last of its stream.
LEMMA AskedRequest ==
  ASSUME CallShape, NEW c \in Flows, NEW r \in ProviderRequests,
         asked' = [asked EXCEPT ![StreamOf(c)] = Append(@, r)]
  PROVE  /\ asked' \in [Streams -> Seq(ProviderRequests)]
         /\ \A x \in Streams : x # StreamOf(c) => asked'[x] = asked[x]
         /\ asked'[StreamOf(c)] # <<>>
         /\ asked'[StreamOf(c)][Len(asked'[StreamOf(c)])] = r
<1> DEFINE s == StreamOf(c)
<1>1. s \in Streams
  BY StreamOfCall
<1> HIDE DEF s
<1>2. asked' = [asked EXCEPT ![s] = Append(asked[s], r)] /\ asked \in [Streams -> Seq(ProviderRequests)]
  BY DEF s, CallShape
<1>3. /\ asked[s] \in Seq(ProviderRequests) /\ Append(asked[s], r) \in Seq(ProviderRequests)
      /\ Append(asked[s], r) # <<>> /\ Append(asked[s], r)[Len(Append(asked[s], r))] = r
  BY <1>1, <1>2, LastOfQueue
<1>4. asked'[s] = Append(asked[s], r)
  BY <1>1, <1>2
<1>5. asked' \in [Streams -> Seq(ProviderRequests)]
  BY <1>2, <1>3
<1>6. \A x \in Streams : x # s => asked'[x] = asked[x]
  BY <1>2
<1> QED
  BY <1>3, <1>4, <1>5, <1>6 DEF s

\* A step of one call, whose locals become e: it says what it asks, and keeps or
\* raises the attempt.
LEMMA OneCallStep ==
  ASSUME CallInv, NEW c \in Flows, call[c].pc # "ended", stream' = stream, saved' = saved,
         NEW e \in CallStates, call' = [call EXCEPT ![c] = e],
         asked' \in [Streams -> Seq(ProviderRequests)],
         \A x \in Streams : x # StreamOf(c) => asked'[x] = asked[x],
         e.attempt = 2 => call[c].attempt = 2 \/ c \in saved,
         e.aborted =>
           /\ e.pc = "ended" /\ e.attempt = call[c].attempt
           /\ asked'[StreamOf(c)] # <<>>
           /\ asked'[StreamOf(c)][Len(asked'[StreamOf(c)])] = AbortRequest
  PROVE  CallInv'
<1>0. call'[c] = e /\ \A d \in Flows \ {c} : call'[d] = call[d]
  BY DEF CallInv, CallShape
<1>1. CallShape'
  BY DEF CallInv, CallShape
<1>2. RetryHasCredentials'
  BY <1>0 DEF CallInv, RetryHasCredentials
<1>3. AbortIsLast(c)'
  <2>1. call'[c].aborted => StreamOf(c)' = StreamOf(c)
    BY <1>0 DEF StreamOf
  <2> QED
    BY <1>0, <2>1 DEF AbortIsLast
<1>4. ASSUME NEW d \in Flows, d # c PROVE AbortIsLast(d)'
  <2>1. StreamOf(d) \in Streams /\ StreamOf(d) # StreamOf(c)
    BY <1>4, StreamOfCall DEF CallInv
  <2>2. StreamOf(d)' = StreamOf(d) /\ call'[d] = call[d] /\ asked'[StreamOf(d)] = asked[StreamOf(d)]
    BY <1>0, <1>4, <2>1 DEF StreamOf
  <2>3. AbortIsLast(d)
    BY DEF CallInv
  <2> QED
    BY <2>2, <2>3 DEF AbortIsLast
<1> QED
  BY <1>1, <1>2, <1>3, <1>4 DEF CallInv

\* What the steps of a call write to its locals.
LEMMA CallEntries ==
  ASSUME NEW t \in CallStates, NEW pc \in CallPlaces, NEW outcome \in {"none", "ok", "raised"}
  PROVE  /\ [t EXCEPT !.pc = pc] \in CallStates
         /\ \A kind \in {"complete", "stream"}, policy \in BOOLEAN :
              [t EXCEPT !.pc = "starting", !.kind = kind, !.policy = policy] \in CallStates
         /\ [t EXCEPT !.pc = "ended", !.outcome = outcome] \in CallStates
         /\ [t EXCEPT !.pc = "yielding", !.yielded = TRUE, !.outcome = outcome] \in CallStates
         /\ [t EXCEPT !.pc = "ended", !.outcome = outcome, !.aborted = TRUE] \in CallStates
         /\ [t EXCEPT !.pc = "starting", !.attempt = 2] \in CallStates
<1> USE DEF CallStates, CallPlaces
<1>1. [t EXCEPT !.pc = pc] \in CallStates
  OBVIOUS
<1>2. \A kind \in {"complete", "stream"}, policy \in BOOLEAN :
        [t EXCEPT !.pc = "starting", !.kind = kind, !.policy = policy] \in CallStates
  OBVIOUS
<1>3. [t EXCEPT !.pc = "ended", !.outcome = outcome] \in CallStates
  OBVIOUS
<1>4. [t EXCEPT !.pc = "yielding", !.yielded = TRUE, !.outcome = outcome] \in CallStates
  OBVIOUS
<1>5. [t EXCEPT !.pc = "ended", !.outcome = outcome, !.aborted = TRUE] \in CallStates
  OBVIOUS
<1>6. [t EXCEPT !.pc = "starting", !.attempt = 2] \in CallStates
  OBVIOUS
<1> QED
  BY <1>1, <1>2, <1>3, <1>4, <1>5, <1>6

\* A step of a call that is no abort and no second attempt.
LEMMA PlainEntryStep ==
  ASSUME CallInv, NEW c \in Flows, call[c].pc # "ended", stream' = stream, saved' = saved,
         \/ asked' = asked
         \/ \E type \in {"stream_request", "complete_request"} : Ask4(c, type, 1),
         NEW e, call' = [call EXCEPT ![c] = e],
         \/ e = call[c]
         \/ \E kind \in {"complete", "stream"}, policy \in BOOLEAN :
              e = [call[c] EXCEPT !.pc = "starting", !.kind = kind, !.policy = policy]
         \/ \E pc \in CallPlaces : e = [call[c] EXCEPT !.pc = pc]
         \/ \E outcome \in {"none", "ok", "raised"} :
              \/ e = [call[c] EXCEPT !.pc = "ended", !.outcome = outcome]
              \/ e = [call[c] EXCEPT !.pc = "yielding", !.yielded = TRUE, !.outcome = outcome]
  PROVE  CallInv'
<1> USE DEF CallInv
<1> DEFINE t == call[c]
<1>1. t \in CallStates /\ ~t.aborted
  BY DEF AbortIsLast, CallShape
<1>2. \/ e = t
      \/ \E kind \in {"complete", "stream"}, policy \in BOOLEAN :
           e = [t EXCEPT !.pc = "starting", !.kind = kind, !.policy = policy]
      \/ \E pc \in CallPlaces : e = [t EXCEPT !.pc = pc]
      \/ \E outcome \in {"none", "ok", "raised"} :
           \/ e = [t EXCEPT !.pc = "ended", !.outcome = outcome]
           \/ e = [t EXCEPT !.pc = "yielding", !.yielded = TRUE, !.outcome = outcome]
  OBVIOUS
<1> HIDE DEF t
<1>3. /\ e \in CallStates
      /\ e.attempt = t.attempt /\ ~e.aborted
  <2>1. CASE e = t
    BY <1>1, <2>1
  <2>2. ASSUME NEW kind \in {"complete", "stream"}, NEW policy \in BOOLEAN,
               e = [t EXCEPT !.pc = "starting", !.kind = kind, !.policy = policy]
        PROVE  /\ e \in CallStates
               /\ e.attempt = t.attempt /\ ~e.aborted
    BY <1>1, <2>2 DEF CallStates, CallPlaces
  <2>3. ASSUME NEW pc \in CallPlaces, e = [t EXCEPT !.pc = pc]
        PROVE  /\ e \in CallStates
               /\ e.attempt = t.attempt /\ ~e.aborted
    BY <1>1, <2>3 DEF CallStates, CallPlaces
  <2>4. ASSUME NEW outcome \in {"none", "ok", "raised"},
               \/ e = [t EXCEPT !.pc = "ended", !.outcome = outcome]
               \/ e = [t EXCEPT !.pc = "yielding", !.yielded = TRUE, !.outcome = outcome]
        PROVE  /\ e \in CallStates
               /\ e.attempt = t.attempt /\ ~e.aborted
    BY <1>1, <2>4 DEF CallStates, CallPlaces
  <2> QED
    BY <1>2, <2>1, <2>2, <2>3, <2>4
<1>5. /\ asked' \in [Streams -> Seq(ProviderRequests)]
      /\ \A x \in Streams : x # StreamOf(c) => asked'[x] = asked[x]
  <2>1. CASE asked' = asked
    BY <2>1 DEF CallShape
  <2>2. ASSUME NEW type \in {"stream_request", "complete_request"}, Ask4(c, type, 1)
        PROVE  /\ asked' \in [Streams -> Seq(ProviderRequests)]
               /\ \A x \in Streams : x # StreamOf(c) => asked'[x] = asked[x]
    <3> DEFINE r == [type |-> type, seq |-> 1]
    <3>1. r \in ProviderRequests
      BY DEF ProviderRequests
    <3>2. asked' = [asked EXCEPT ![StreamOf(c)] = Append(@, r)]
      BY <2>2 DEF Ask4
    <3> HIDE DEF r
    <3> QED
      BY <3>1, <3>2, AskedRequest
  <2> QED
    BY <2>1, <2>2
<1> QED
  BY <1>3, <1>5, OneCallStep DEF t

LEMMA PlainCallStep ==
  ASSUME CallInv, NEW c \in Flows,
         \/ CallBegins(c) \/ CallSends(c) \/ CallLosesSend(c) \/ CallReads(c)
         \/ CallResumes(c) \/ CallTimesOut(c) \/ CallCancelled(c)
  PROVE  CallInv'
<1>1. /\ stream' = stream /\ saved' = saved /\ call[c].pc # "ended"
      /\ \/ asked' = asked
         \/ \E type \in {"stream_request", "complete_request"} : Ask4(c, type, 1)
  BY DEF CallBegins, CallSends, CallLosesSend, CallReads, CallResumes, CallTimesOut,
         CallCancelled, CallOnly, authVars, serverVars, RequestType
<1>2. ASSUME NEW kind \in {"complete", "stream"}, NEW policy \in BOOLEAN,
             call' = [call EXCEPT ![c].pc = "starting", ![c].kind = kind, ![c].policy = policy]
      PROVE  CallInv'
  <2> DEFINE e == [call[c] EXCEPT !.pc = "starting", !.kind = kind, !.policy = policy]
  <2>1. call' = [call EXCEPT ![c] = e]
    BY <1>2
  <2> QED
    BY <1>1, <2>1, PlainEntryStep
<1>3. ASSUME NEW pc \in CallPlaces, call' = [call EXCEPT ![c].pc = pc] PROVE CallInv'
  <2> DEFINE e == [call[c] EXCEPT !.pc = pc]
  <2>1. call' = [call EXCEPT ![c] = e]
    BY <1>3
  <2> QED
    BY <1>1, <2>1, PlainEntryStep
<1>4. ASSUME NEW outcome \in {"none", "ok", "raised"},
             call' = [call EXCEPT ![c].pc = "ended", ![c].outcome = outcome]
      PROVE  CallInv'
  <2> DEFINE e == [call[c] EXCEPT !.pc = "ended", !.outcome = outcome]
  <2>1. call' = [call EXCEPT ![c] = e]
    BY <1>4
  <2> QED
    BY <1>1, <2>1, PlainEntryStep
<1>5. ASSUME NEW outcome \in {"none", "ok", "raised"},
             call' = [call EXCEPT ![c].pc = "yielding", ![c].yielded = TRUE, ![c].outcome = outcome]
      PROVE  CallInv'
  <2> DEFINE e == [call[c] EXCEPT !.pc = "yielding", !.yielded = TRUE, !.outcome = outcome]
  <2>1. call' = [call EXCEPT ![c] = e]
    BY <1>5
  <2> QED
    BY <1>1, <2>1, PlainEntryStep
<1>6. CASE call' = call
  <2>1. call' = [call EXCEPT ![c] = call[c]]
    BY <1>6 DEF CallInv, CallShape
  <2> QED
    BY <1>1, <2>1, PlainEntryStep
<1>7. CASE CallBegins(c)
  BY <1>2, <1>7 DEF CallBegins
<1>8. CASE CallSends(c) \/ CallLosesSend(c) \/ CallResumes(c) \/ CallCancelled(c)
  BY <1>3, <1>8 DEF CallSends, CallLosesSend, CallResumes, CallCancelled, Move, CallPlaces
<1>9. CASE CallTimesOut(c)
  BY <1>4, <1>9 DEF CallTimesOut, EndAs
<1>10. CASE CallReads(c)
  <2>1. \/ call' = call \/ EndAs(c, "ok") \/ EndAs(c, "raised") \/ Move(c, "login")
        \/ \E m \in {"delta", "result", "stream_error"} : Yields(c, m)
    BY <1>10 DEF CallReads, Fails, Yields
  <2>2. CASE EndAs(c, "ok") \/ EndAs(c, "raised")
    BY <1>4, <2>2 DEF EndAs
  <2>3. CASE Move(c, "login")
    BY <1>3, <2>3 DEF Move, CallPlaces
  <2>4. CASE \E m \in {"delta", "result", "stream_error"} : Yields(c, m)
    BY <1>5, <2>4 DEF Yields
  <2> QED
    BY <1>6, <2>1, <2>2, <2>3, <2>4
<1> QED
  BY <1>7, <1>8, <1>9, <1>10

LEMMA CallAbortsStep ==
  ASSUME CallInv, NEW c \in Flows, CallAborts(c)
  PROVE  CallInv'
<1> USE DEF CallInv
<1> DEFINE t == call[c]
<1>1. stream' = stream /\ saved' = saved /\ t.pc = "aborting"
  BY DEF CallAborts, CallOnly, authVars, serverVars
<1>2. t \in CallStates /\ ~t.aborted
  BY <1>1 DEF AbortIsLast, CallShape
<1>3. CASE /\ Ask4(c, "abort_request", AbortSeq)
           /\ call' = [call EXCEPT ![c].pc = "ended", ![c].outcome = "raised", ![c].aborted = TRUE]
  <2> DEFINE e == [t EXCEPT !.pc = "ended", !.outcome = "raised", !.aborted = TRUE]
  <2>1. call' = [call EXCEPT ![c] = e]
    BY <1>3
  <2>2. e \in CallStates /\ e.attempt = t.attempt /\ e.pc = "ended"
    <3> HIDE DEF t
    <3>1. e \in CallStates
      BY <1>2, CallEntries DEF CallPlaces
    <3>2. e.attempt = t.attempt /\ e.pc = "ended"
      BY <1>2 DEF CallStates
    <3> QED
      BY <3>1, <3>2
  <2>3. AbortRequest \in ProviderRequests
    BY DEF AbortRequest, AbortSeq, ProviderRequests
  <2>4. asked' = [asked EXCEPT ![StreamOf(c)] = Append(@, AbortRequest)]
    BY <1>3 DEF Ask4, AbortRequest
  <2> HIDE DEF e
  <2> QED
    BY <1>1, <2>1, <2>2, <2>3, <2>4, AskedRequest, OneCallStep
<1>4. CASE EndAs(c, "raised") /\ UNCHANGED asked
  <2> DEFINE e == [t EXCEPT !.pc = "ended", !.outcome = "raised"]
  <2>1. call' = [call EXCEPT ![c] = e]
    BY <1>4 DEF EndAs
  <2>2. e \in CallStates /\ e.attempt = t.attempt /\ ~e.aborted
    <3> HIDE DEF t
    <3>1. e \in CallStates
      BY <1>2, CallEntries DEF CallPlaces
    <3>2. e.attempt = t.attempt /\ ~e.aborted
      BY <1>2 DEF CallStates
    <3> QED
      BY <3>1, <3>2
  <2> HIDE DEF e
  <2> QED
    BY <1>1, <1>4, <2>1, <2>2, OneCallStep DEF CallShape
<1> QED
  BY <1>3, <1>4 DEF CallAborts

\* The second attempt follows a success, whose credentials were saved.
LEMMA ReloginEndsStep ==
  ASSUME CallInv, AuthInv, NEW c \in Flows, ReloginEnds(c)
  PROVE  CallInv'
<1> USE DEF CallInv
<1> DEFINE t == call[c]
<1>1. stream' = stream /\ saved' = saved /\ asked' = asked /\ t.pc = "login"
  BY DEF ReloginEnds, CallOnly, authVars, serverVars
<1>2. t \in CallStates /\ ~t.aborted
  BY <1>1 DEF AbortIsLast, CallShape
<1>3. PICK e : /\ call' = [call EXCEPT ![c] = e]
               /\ \/ /\ login[c].outcome = "success"
                     /\ e = [t EXCEPT !.pc = "starting", !.attempt = 2]
                  \/ e = [t EXCEPT !.pc = "ended", !.outcome = "raised"]
  BY DEF ReloginEnds, EndAs
<1> HIDE DEF t
<1>4. e \in CallStates /\ ~e.aborted /\ (e.attempt = t.attempt \/ login[c].outcome = "success")
  <2>1. e \in CallStates
    BY <1>2, <1>3, CallEntries DEF CallPlaces
  <2>2. ~e.aborted /\ (e.attempt = t.attempt \/ login[c].outcome = "success")
    BY <1>2, <1>3 DEF CallStates
  <2> QED
    BY <2>1, <2>2
<1>5. login[c].outcome = "success" => c \in saved
  BY DEF AuthInv, Kept, KeptOf
<1> QED
  BY <1>1, <1>3, <1>4, <1>5, OneCallStep DEF t, CallShape

\* Nothing but a stream_request makes a stream active.
LEMMA StreamsQuiet ==
  ASSUME CallInv, UNCHANGED <<call, asked, saved>>, stream' \in [Streams -> StreamStates],
         \A x \in Streams : stream'[x].state = "active" => stream[x].state = "active"
  PROVE  CallInv'
<1>1. CallShape' /\ RetryHasCredentials'
  BY DEF CallInv, CallShape, RetryHasCredentials
<1>2. ASSUME NEW c \in Flows PROVE AbortIsLast(c)'
  <2>1. AbortIsLast(c) /\ StreamOf(c) \in Streams /\ StreamOf(c)' = StreamOf(c)
    BY StreamOfCall DEF CallInv, StreamOf
  <2> QED
    BY <2>1 DEF AbortIsLast
<1> QED
  BY <1>1, <1>2 DEF CallInv

\* The provider's thread and the pump.
LEMMA PumpedStep ==
  ASSUME CallInv, UNCHANGED <<call, asked, saved>>, ProviderWorks \/ PumpStep
  PROVE  CallInv'
<1> USE DEF CallInv, CallShape
<1>1. CASE \E x \in Streams : Streamed(x)
  <2> PICK x \in Streams : Streamed(x)
    BY <1>1
  <2>1. stream' = [stream EXCEPT ![x].events = Append(@, "delta"), ![x].deltas = @ + 1]
    BY DEF Streamed
  <2>2. stream[x].events \in Seq({"delta"}) /\ stream[x].deltas + 1 \in Nat
    BY DEF StreamStates
  <2>3. PICK events \in Seq({"delta"}), deltas \in Nat :
          stream' = [stream EXCEPT ![x].events = events, ![x].deltas = deltas]
    <3>1. Append(stream[x].events, "delta") \in Seq({"delta"})
      BY <2>2
    <3> QED
      BY <2>1, <2>2, <3>1
  <2>4. /\ stream' \in [Streams -> StreamStates]
        /\ \A y \in Streams : stream'[y].state = stream[y].state
    BY <2>3 DEF StreamStates
  <2> QED
    BY <2>4, StreamsQuiet
<1>2. CASE \E x \in Streams : Completes(x)
  <2>1. PICK x \in Streams, outcome \in {"result", "stream_error", "stream_error_auth"} :
          stream' = [stream EXCEPT ![x].outcome = outcome]
    BY <1>2 DEF Completes
  <2>2. /\ stream' \in [Streams -> StreamStates]
        /\ \A y \in Streams : stream'[y].state = stream[y].state
    BY <2>1 DEF StreamStates
  <2> QED
    BY <2>2, StreamsQuiet
<1>3. CASE PumpBegins \/ CompletionEnds
  BY <1>3, StreamsQuiet DEF PumpBegins, CompletionEnds
<1>4. CASE \E x \in Streams : Forward(x)
  <2>1. PICK x \in Streams : stream' = [stream EXCEPT ![x].events = <<>>]
    BY <1>4 DEF Forward
  <2>2. <<>> \in Seq({"delta"})
    OBVIOUS
  <2>3. /\ stream' \in [Streams -> StreamStates]
        /\ \A y \in Streams : stream'[y].state = stream[y].state
    BY <2>1, <2>2 DEF StreamStates
  <2> QED
    BY <2>3, StreamsQuiet
<1>5. CASE Cleanup
  <2>1. <<>> \in Seq({"delta"})
    OBVIOUS
  <2>2. \A x \in Streams :
          /\ [stream[x] EXCEPT !.state = "gone", !.events = <<>>] \in StreamStates
          /\ [stream[x] EXCEPT !.state = "gone", !.events = <<>>].state = "gone"
    BY <2>1 DEF StreamStates
  <2>3. \A x \in Streams :
          stream'[x] \in {stream[x], [stream[x] EXCEPT !.state = "gone", !.events = <<>>]}
    BY <1>5 DEF Cleanup
  <2>4. stream' = [x \in Streams |-> stream'[x]]
    BY <1>5 DEF Cleanup
  <2>5. /\ stream' \in [Streams -> StreamStates]
        /\ \A x \in Streams : stream'[x].state = "active" => stream[x].state = "active"
    BY <2>2, <2>3, <2>4
  <2> QED
    BY <2>5, StreamsQuiet
<1> QED
  BY <1>1, <1>2, <1>3, <1>4, <1>5 DEF ProviderWorks, PumpStep

\* An abort_request finds its stream out of the table, or takes it out.
LEMMA HostReadsStep ==
  ASSUME CallInv, NEW x \in Streams, HostReadsProvider(x)
  PROVE  CallInv'
<1> USE DEF CallInv, CallShape
<1> DEFINE m == Head(asked[x])
<1>1. /\ asked[x] # <<>> /\ asked' = [asked EXCEPT ![x] = Tail(asked[x])]
      /\ AcceptProvider(x, m) /\ call' = call /\ saved' = saved
  BY DEF HostReadsProvider, authVars, serverVars
<1>2. /\ asked[x] \in Seq(ProviderRequests) /\ m \in ProviderRequests /\ m = asked[x][1]
      /\ Tail(asked[x]) \in Seq(ProviderRequests) /\ Len(Tail(asked[x])) = Len(asked[x]) - 1
      /\ 1 \in 1..Len(asked[x])
      /\ \A i \in 1..Len(Tail(asked[x])) : Tail(asked[x])[i] = asked[x][i + 1]
  BY <1>1, HeadOfQueue
<1> HIDE DEF m
<1>3. /\ asked' \in [Streams -> Seq(ProviderRequests)] /\ asked'[x] = Tail(asked[x])
      /\ \A y \in Streams \ {x} : asked'[y] = asked[y]
  BY <1>1, <1>2
<1>4. PICK e \in StreamStates : /\ stream' = [stream EXCEPT ![x] = e]
                                /\ m = AbortRequest => e.state # "active"
  <2>1. \/ AcceptStream(x, m) \/ AcceptAbort(x, m) \/ AcceptComplete(x, m)
    BY <1>1 DEF AcceptProvider
  <2>2. CASE stream' = stream /\ (m = AbortRequest => stream[x].state # "active")
    <3>1. stream' = [stream EXCEPT ![x] = stream[x]] /\ stream[x] \in StreamStates
      BY <2>2
    <3> QED
      BY <2>2, <3>1
  <2>3. CASE AcceptStream(x, m)
    <3>1. m # AbortRequest
      BY <2>3 DEF AcceptStream, AbortRequest
    <3>2. stream' = stream \/ stream' = [stream EXCEPT ![x].state = "active"]
      BY <2>3 DEF AcceptStream, Refuse
    <3> DEFINE e == [stream[x] EXCEPT !.state = "active"]
    <3>3. e \in StreamStates
      BY DEF StreamStates
    <3>4. stream' = stream \/ stream' = [stream EXCEPT ![x] = e]
      BY <3>2
    <3> HIDE DEF e
    <3> QED
      BY <2>2, <3>1, <3>3, <3>4
  <2>4. CASE AcceptAbort(x, m)
    <3> DEFINE e == [stream[x] EXCEPT !.state = "aborted", !.events = <<>>]
    <3>1. \/ stream' = [stream EXCEPT ![x].state = "aborted", ![x].events = <<>>]
          \/ stream' = stream /\ x \notin Active
          \/ stream' = stream /\ m.seq # Expected(x)
      BY <2>4 DEF AcceptAbort
    <3>2. e \in StreamStates /\ e.state = "aborted"
      <4>1. <<>> \in Seq({"delta"})
        OBVIOUS
      <4> QED
        BY <4>1 DEF StreamStates
    <3>3. m = AbortRequest /\ m.seq # Expected(x) => x \notin Active
      BY DEF AbortRequest, AbortSeq, Expected
    <3>4. x \notin Active => stream[x].state # "active"
      BY DEF Active
    <3>5. CASE stream' = [stream EXCEPT ![x].state = "aborted", ![x].events = <<>>]
      <4>1. stream' = [stream EXCEPT ![x] = e]
        BY <3>5
      <4> HIDE DEF e
      <4> QED
        BY <3>2, <4>1
    <3>6. CASE stream' = stream /\ (m = AbortRequest => x \notin Active)
      BY <2>2, <3>4, <3>6
    <3> QED
      BY <3>1, <3>3, <3>5, <3>6
  <2>5. CASE AcceptComplete(x, m)
    BY <2>2, <2>5 DEF AcceptComplete, Refuse, AbortRequest
  <2> QED
    BY <2>1, <2>3, <2>4, <2>5
<1>5. /\ stream' \in [Streams -> StreamStates] /\ stream'[x] = e
      /\ \A y \in Streams \ {x} : stream'[y] = stream[y]
  BY <1>4
<1>6. ASSUME NEW c \in Flows PROVE AbortIsLast(c)'
  <2>1. AbortIsLast(c) /\ StreamOf(c) \in Streams /\ StreamOf(c)' = StreamOf(c) /\ call'[c] = call[c]
    BY <1>1, StreamOfCall DEF StreamOf
  <2>2. CASE StreamOf(c) # x
    BY <1>3, <1>5, <2>1, <2>2 DEF AbortIsLast
  <2>3. CASE StreamOf(c) = x
    <3> SUFFICES ASSUME call[c].aborted
                 PROVE  /\ call[c].pc = "ended"
                        /\ asked'[x] = <<>> => stream'[x].state # "active"
                        /\ asked'[x] # <<>> => asked'[x][Len(asked'[x])] = AbortRequest
      BY <2>1, <2>3 DEF AbortIsLast
    <3>1. call[c].pc = "ended" /\ asked[x][Len(asked[x])] = AbortRequest
      BY <1>1, <2>1, <2>3 DEF AbortIsLast
    <3>2. CASE Len(asked[x]) = 1
      <4>1. m = AbortRequest
        BY <1>2, <3>1, <3>2
      <4>2. asked'[x] = <<>>
        <5>1. asked'[x] \in Seq(ProviderRequests) /\ Len(asked'[x]) = 0
          BY <1>2, <1>3, <3>2
        <5> QED
          BY <5>1
      <4> QED
        BY <1>4, <1>5, <3>1, <4>1, <4>2
    <3>3. CASE Len(asked[x]) # 1
      <4>0. Len(asked[x]) \in Nat /\ Len(asked[x]) > 1
        BY <1>2, <3>3
      <4>1. Len(asked'[x]) = Len(asked[x]) - 1 /\ asked'[x] # <<>>
        BY <1>2, <1>3, <4>0
      <4>2. asked'[x][Len(asked'[x])] = asked[x][Len(asked[x])]
        BY <1>2, <1>3, <4>0, <4>1
      <4> QED
        BY <3>1, <4>1, <4>2
    <3> QED
      BY <3>2, <3>3
  <2> QED
    BY <2>2, <2>3
<1> QED
  BY <1>1, <1>3, <1>5, <1>6 DEF RetryHasCredentials
-----------------------------------------------------------------------------
(***************************************************************************)
(* The steps together.                                                     *)
(***************************************************************************)
LEMMA AuthUnchanged ==
  ASSUME AuthInv, UNCHANGED authVars
  PROVE  AuthInv'
<1> USE DEF AuthInv, authVars, serverVars, clientVars, wireVars
<1>1. AuthShape'
  BY DEF AuthShape, FlowShape, WorkerShape, LoginShape, ListingShape, QueueShape
<1>2. Kept'
  BY DEF Kept, KeptOf, Listed
<1>3. Once'
  BY DEF Once, StartedOnce, AnnouncedOnce, Unstarted
<1> QED
  BY <1>1, <1>2, <1>3

LEMMA CallUnchanged ==
  ASSUME CallInv, UNCHANGED <<call, asked, stream>>, saved \subseteq saved'
  PROVE  CallInv'
<1>1. CallShape' /\ RetryHasCredentials'
  BY DEF CallInv, CallShape, RetryHasCredentials
<1>2. \A c \in Flows : AbortIsLast(c)'
  BY DEF CallInv, AbortIsLast, StreamOf
<1> QED
  BY <1>1, <1>2 DEF CallInv

\* Credentials that were saved stay.
LEMMA SavedStay ==
  ASSUME NEW f \in Flows,
         AuthReads(f) \/ AuthPops(f) \/ AuthWorks(f) \/ LoginBegins(f) \/ LoginStep(f)
  PROVE  saved \subseteq saved'
<1>1. CASE AuthReads(f)
  BY <1>1 DEF AuthReads, Accept, AcceptLogin, AcceptLate, RefuseSequence, AcceptAnswer, AcceptCancel
<1>2. CASE AuthPops(f)
  BY <1>2 DEF AuthPops, Pop
<1>3. CASE AuthWorks(f)
  BY <1>3 DEF AuthWorks, WorkerStep, Begin, Ask, Wake, Obtain, Check, Save, BeginTerminal,
              Announce, Exit
<1>4. CASE LoginBegins(f)
  BY <1>4 DEF LoginBegins, Only, serverVars
<1>5. CASE LoginStep(f)
  BY <1>5 DEF LoginStep, LoginProceeds, LoginSendsStart, LoginReads, LoginAnswers, LoginRefuses,
              LoginCancels, LoginLosesStart, LoginLosesCount, LoginLeaves, LoginLosesCancel,
              Only, serverVars
<1> QED
  BY <1>1, <1>2, <1>3, <1>4, <1>5

LEMMA AuthSideStep ==
  ASSUME AuthInv, CallInv, NEW f \in Flows, UNCHANGED <<providerVars, callVars>>,
         AuthReads(f) \/ AuthPops(f) \/ AuthWorks(f) \/ LoginBegins(f) \/ LoginStep(f)
  PROVE  AuthInv' /\ CallInv'
<1>1. AuthInv'
  BY AuthReadsStep, AuthPopsStep, AuthWorksStep, LoginBeginsStep, LoginStepStep
<1>2. CallInv'
  BY SavedStay, CallUnchanged DEF providerVars, callVars
<1> QED
  BY <1>1, <1>2

LEMMA ListingSideStep ==
  ASSUME AuthInv, CallInv, UNCHANGED <<providerVars, callVars>>,
         ListBegins \/ ListAnswered \/ ListRaises
  PROVE  AuthInv' /\ CallInv'
<1>1. AuthInv'
  BY ListingStep
<1>2. saved' = saved
  BY DEF ListBegins, ListAnswered, ListRaises, serverVars
<1> QED
  BY <1>1, <1>2, CallUnchanged DEF providerVars, callVars

LEMMA CallSideStep ==
  ASSUME AuthInv, CallInv, NEW c \in Flows,
         \/ CallBegins(c) \/ CallSends(c) \/ CallLosesSend(c) \/ CallReads(c)
         \/ CallResumes(c) \/ CallTimesOut(c) \/ CallCancelled(c)
         \/ CallAborts(c) \/ ReloginEnds(c)
  PROVE  AuthInv' /\ CallInv'
<1>1. UNCHANGED authVars
  BY DEF CallBegins, CallSends, CallLosesSend, CallReads, CallResumes, CallTimesOut,
         CallCancelled, CallAborts, ReloginEnds, CallOnly
<1>2. AuthInv'
  BY <1>1, AuthUnchanged
<1>3. CallInv'
  BY PlainCallStep, CallAbortsStep, ReloginEndsStep
<1> QED
  BY <1>2, <1>3

LEMMA ProviderSideStep ==
  ASSUME AuthInv, CallInv,
         \/ \E x \in Streams : HostReadsProvider(x)
         \/ HostPumps
         \/ ProviderWorks /\ UNCHANGED <<authVars, callVars>>
  PROVE  AuthInv' /\ CallInv'
<1>1. UNCHANGED authVars
  BY DEF HostReadsProvider, HostPumps
<1>2. AuthInv'
  BY <1>1, AuthUnchanged
<1>3. CallInv'
  <2>1. CASE \E x \in Streams : HostReadsProvider(x)
    BY <2>1, HostReadsStep
  <2>2. CASE HostPumps \/ (ProviderWorks /\ UNCHANGED <<authVars, callVars>>)
    BY <2>2, PumpedStep DEF HostPumps, authVars, serverVars, callVars
  <2> QED
    BY <2>1, <2>2
<1> QED
  BY <1>2, <1>3

LEMMA InitialProvider ==
  Init => AuthInv /\ CallInv
<1> SUFFICES ASSUME Init PROVE AuthInv /\ CallInv
  OBVIOUS
<1> USE DEF Init, AuthInit, ServerInit, ProviderInit
<1>1. FlowShape
  BY DEF FlowShape, FlowStates, Fresh, Answers
<1>2. WorkerShape /\ ListingShape /\ saved \subseteq Flows
  BY DEF WorkerShape, ListingShape
<1>3. LoginShape
  BY DEF LoginShape, LoginStates, LoginPlaces, Outcomes, Idle
<1>4. QueueShape
  BY DEF QueueShape
<1>5. Kept
  BY DEF Kept, KeptOf, Listed, NoSuccess, Idle
<1>6. \A f \in Flows : flow[f] = Fresh
  OBVIOUS
<1>7. Once
  <2>1. ASSUME NEW f \in Flows
        PROVE  /\ toHost[f] = <<>> /\ worker[f].pc = "none"
               /\ said[f] = <<>> /\ ~flow[f].held
    BY <1>6 DEF Fresh
  <2>2. ASSUME NEW f \in Flows PROVE StartedOnce(f)
    <3>1. StartAtHead(<<>>) /\ NoStart(<<>>)
      BY DEF StartAtHead, NoStart
    <3>2. toHost[f] = <<>> /\ Unstarted(f)
      BY <2>1 DEF Unstarted
    <3> QED
      BY <3>1, <3>2, Zenon DEF StartedOnce
  <2>3. ASSUME NEW f \in Flows PROVE AnnouncedOnce(f)
    <3>1. NoResult(<<>>) /\ ResultAtEnd(<<>>)
      BY DEF NoResult, ResultAtEnd
    <3>2. said[f] = <<>> /\ Unstarted(f) /\ ~flow[f].held /\ worker[f].pc # "announce"
      BY <2>1 DEF Unstarted
    <3> HIDE DEF Init, AuthInit, ServerInit, ProviderInit
    <3> QED
      BY <3>1, <3>2, Zenon DEF AnnouncedOnce
  <2> QED
    BY <2>2, <2>3 DEF Once
<1>8. CallShape
  <2>1. call \in [Flows -> CallStates]
    BY DEF CallStates, CallPlaces, NoCall
  <2>2. asked \in [Streams -> Seq(ProviderRequests)]
    OBVIOUS
  <2>3. stream \in [Streams -> StreamStates]
    BY DEF StreamStates, NoStream
  <2> QED
    BY <2>1, <2>2, <2>3 DEF CallShape
<1>9. RetryHasCredentials
  BY DEF RetryHasCredentials, NoCall
<1>10. \A c \in Flows : AbortIsLast(c)
  BY DEF AbortIsLast, NoCall
<1> QED
  BY <1>1, <1>2, <1>3, <1>4, <1>5, <1>7, <1>8, <1>9, <1>10 DEF AuthInv, AuthShape, CallInv

LEMMA ProviderNext ==
  AuthInv /\ CallInv /\ [Next]_vars => (AuthInv /\ CallInv)'
<1> SUFFICES ASSUME AuthInv, CallInv, [Next]_vars PROVE AuthInv' /\ CallInv'
  OBVIOUS
<1>1. CASE UNCHANGED vars
  BY <1>1, AuthUnchanged, CallUnchanged DEF vars, authVars, serverVars, providerVars, callVars
<1>2. CASE HostProceeds
  BY <1>2, AuthSideStep, ListingSideStep, ProviderSideStep
  DEF HostProceeds, HostServesAuth, HostStep, HostListsProviders
<1>3. CASE ThreadsRun
  BY <1>3, AuthSideStep, ProviderSideStep DEF ThreadsRun
<1>4. CASE ListingSteps
  BY <1>4, ListingSideStep DEF ListingSteps
<1>5. ASSUME NEW c \in Flows, CallBegins(c) \/ CallProceeds(c) \/ CallLeaves(c) \/ LoginSteps(c)
      PROVE  AuthInv' /\ CallInv'
  BY <1>5, CallSideStep, AuthSideStep DEF CallProceeds, CallLeaves, LoginSteps, ReloginBegins
<1> QED
  BY <1>1, <1>2, <1>3, <1>4, <1>5 DEF Next

-----------------------------------------------------------------------------
(***************************************************************************)
(* The theorems.                                                           *)
(***************************************************************************)

\* The inductive invariants of the login and of the call hold in every behaviour.
THEOREM ProviderInvariant == Spec => [](AuthInv /\ CallInv)
  BY InitialProvider, ProviderNext, PTL DEF Spec

\* A second attempt runs with the credentials its own login left (_relogin of
\* execution.py), whatever is cancelled, lost or refused on the way.
THEOREM RetriesHaveCredentials == Spec => []RetryHasCredentials
<1>1. AuthInv /\ CallInv => RetryHasCredentials
  BY DEF CallInv
<1> QED
  BY <1>1, ProviderInvariant, PTL

\* A login that reports success has left its credentials, and a list asked for
\* after it asks for no login (login and list_providers of auth.py).
THEOREM SuccessesAreKept == Spec => []SuccessIsKept
<1>1. AuthInv /\ CallInv => SuccessIsKept
  BY DEF AuthInv, Kept, KeptOf, Listed, SuccessIsKept
<1> QED
  BY <1>1, ProviderInvariant, PTL

\* The worker of a flow and the handler of auth_cancel announce one result between
\* them, after everything else the flow says (server.zig of the auth protocol).
THEOREM ResultsAreLast == Spec => []ResultIsLast
<1>1. AuthInv /\ CallInv => ResultIsLast
  BY DEF AuthInv, Once, AnnouncedOnce, ResultAtEnd, ResultIsLast
<1> QED
  BY <1>1, ProviderInvariant, PTL

\* Once the requests of a call that wrote its abort_request are read, its stream is
\* not in the host's table (_abort_stream of execution.py).
THEOREM AbortedStreamsEnd == Spec => []AbortedStreamEnds
<1>1. ASSUME AuthInv, CallInv PROVE AbortedStreamEnds
  <2> SUFFICES ASSUME NEW c \in Flows, call[c].aborted, asked[StreamOf(c)] = <<>>
               PROVE  StreamOf(c) \notin Active
    BY DEF AbortedStreamEnds
  <2>1. stream[StreamOf(c)].state # "active"
    <3>1. AbortIsLast(c)
      BY <1>1 DEF CallInv
    <3> QED
      BY <3>1 DEF AbortIsLast
  <2> QED
    BY <2>1 DEF Active
<1> QED
  BY <1>1, ProviderInvariant, PTL

=============================================================================
