------------------------- MODULE ProviderLoginProofs -------------------------
(***************************************************************************)
(* More proofs about ProviderCall, on top of those of ProviderCallProofs:  *)
(* the two sides of a login count its requests alike, and what a caller is *)
(* shown ends with one terminal.                                           *)
(***************************************************************************)
EXTENDS ProviderCallProofs

(***************************************************************************)
(* A flow.  The predicates are of its entries in the variables: `fl` of    *)
(* flow, `ex` of expects, `w` of worker, `ob` of outbox, `l` of login,     *)
(* `th` of toHost and `tc` of toClient.                                    *)
(***************************************************************************)
NoThread(w) == w.pc = "none"

\* What the server keeps: an answer or a prompt to be answered, and only while the
\* worker waits.
Tight(fl, w, ob) ==
  /\ fl.prompts <= MaxPrompts
  /\ fl.waiting # 0 => fl.waiting = fl.prompts /\ fl.answer = "none"
  /\ w.pc # "waiting" => fl.waiting = 0 /\ fl.answer = "none"
  /\ fl.cancelled => fl.terminal
  /\ NoThread(w) => fl = Fresh /\ ob = <<>>

\* No result is on its way or was read before the flow is terminal.
Unannounced(fl, ob, l, tc) ==
  ~fl.terminal => NoResult(ob) /\ NoResult(tc) /\ l.outcome \notin Result

PromptsRise(q) ==
  \A i, j \in 1..Len(q) : i < j /\ q[i].type = "prompt" /\ q[j].type = "prompt" =>
    q[i].prompt < q[j].prompt

PromptsIn(q, low, high) ==
  \A i \in 1..Len(q) : q[i].type = "prompt" => low < q[i].prompt /\ q[i].prompt <= high

PromptsBefore(q, r) ==
  \A i \in 1..Len(q), j \in 1..Len(r) : q[i].type = "prompt" /\ r[j].type = "prompt" =>
    q[i].prompt < r[j].prompt

\* Prompts reach the login in their order, each once.
Prompted(fl, ob, l, tc) ==
  /\ PromptsRise(tc) /\ PromptsRise(ob) /\ PromptsBefore(tc, ob)
  /\ PromptsIn(tc, l.asked, fl.prompts) /\ PromptsIn(ob, l.asked, fl.prompts)
  /\ l.asked <= fl.prompts

\* A login counts a request for each prompt it was shown, and one to start; the server
\* counts no further than the login.
Counted(ex, l, th) ==
  /\ 1 <= l.seq /\ l.seq <= l.asked + 2 /\ 1 <= ex /\ ex <= l.seq + 1
  /\ l.pc \in {"asking", "refusing"} => l.seq <= l.asked + 1 /\ l.asked >= 1
  /\ l.pc \in {"idle", "starting"} => l.seq = 1
  /\ \A i \in 1..Len(th) :
       /\ th[i].seq <= l.seq
       /\ th[i].type = "auth_prompt_response" => th[i].prompt >= 1

NoCancel(th, n) == \A i \in 1..n : th[i].type # "auth_cancel"

\* The flow can be asked for something, or is still to be started.
Live(fl, w, l, th) ==
  \/ fl.held /\ ~fl.terminal
  \/ NoThread(w) /\ (l.pc \in {"idle", "starting"} \/ (th # <<>> /\ th[1].type = "auth_login_start"))

\* Up to the first auth_cancel, what is written is numbered as the server will count.
Agreed(fl, ex, w, l, th) ==
  ~l.lost /\ Live(fl, w, l, th) =>
    /\ \A i \in 1..Len(th) : NoCancel(th, i - 1) => th[i].seq = ex + i - 1
    /\ NoCancel(th, Len(th)) => l.pc # "ended" /\ l.seq = ex + Len(th)

FlowInv(fl, ex, w, ob, l, th, tc) ==
  /\ Tight(fl, w, ob) /\ Unannounced(fl, ob, l, tc) /\ Prompted(fl, ob, l, tc)
  /\ Counted(ex, l, th) /\ Agreed(fl, ex, w, l, th)

FlowInvAt(f) ==
  FlowInv(flow[f], expects[f], worker[f], outbox[f], login[f], toHost[f], toClient[f])

CountInv ==
  /\ expects \in [Flows -> Nat]
  /\ \A f \in Flows : FlowInvAt(f)

(***************************************************************************)
(* What the caller of a call was shown.                                    *)
(***************************************************************************)
NoTerminal(q) == \A i \in 1..Len(q) : q[i] \notin Terminal

TerminalAtEnd(q) == \A i \in 1..Len(q) : q[i] \in Terminal => i = Len(q)

ShownOf(c) ==
  LET q == shown[StreamOf(c)]
  IN /\ TerminalAtEnd(q)
     /\ \A a \in {1, 2} \ {call[c].attempt} : shown[<<c, a>>] = <<>>
     /\ call[c].pc \in {"idle", "starting", "login"} => ~call[c].yielded
     /\ call[c].pc = "login" => call[c].attempt = 1
     /\ ~call[c].yielded /\ call[c].pc # "ended" => q = <<>>
     /\ call[c].pc = "reading" \/ (call[c].pc = "yielding" /\ call[c].outcome # "ok") =>
          NoTerminal(q)

ShownInv ==
  /\ shown \in [Streams -> Seq({"delta", "result", "stream_error"})]
  /\ \A c \in Flows : ShownOf(c)

(***************************************************************************)
(* The streams: what is buffered was counted.                              *)
(***************************************************************************)
StreamsInv ==
  \A x \in Streams : stream[x].deltas <= MaxDeltas /\ Len(stream[x].events) <= stream[x].deltas

LoginInv == CountInv /\ ShownInv /\ StreamsInv

-----------------------------------------------------------------------------
(***************************************************************************)
(* What the caller is shown.                                               *)
(***************************************************************************)
ShownEvents == {"delta", "result", "stream_error"}

LEMMA StreamNames ==
  ASSUME CallShape
  PROVE  /\ \A c \in Flows : StreamOf(c) \in Streams /\ call[c].attempt \in {1, 2}
                             /\ StreamOf(c) = <<c, call[c].attempt>>
         /\ \A c, d \in Flows, a, b \in {1, 2} : <<c, a>> \in Streams
                             /\ (<<c, a>> = <<d, b>> => c = d /\ a = b)
  BY StreamAssumption DEF CallShape, CallStates, StreamOf, StreamAssumption

\* One call takes a step and may be shown something on its stream.
LEMMA OneShownStep ==
  ASSUME CallShape, ShownInv, NEW c \in Flows, NEW e \in CallStates, NEW q \in Seq(ShownEvents),
         call' = [call EXCEPT ![c] = e], shown' = [shown EXCEPT ![StreamOf(c)] = q],
         \/ e.attempt = call[c].attempt
         \/ e.attempt = 2 /\ call[c].attempt = 1 /\ q = <<>> /\ e.pc = "starting",
         TerminalAtEnd(q),
         e.pc \in {"idle", "starting", "login"} => ~e.yielded,
         e.pc = "login" => e.attempt = 1,
         ~e.yielded /\ e.pc # "ended" => q = <<>>,
         e.pc = "reading" \/ (e.pc = "yielding" /\ e.outcome # "ok") => NoTerminal(q)
  PROVE  ShownInv'
<1> DEFINE x == StreamOf(c)
<1>1. /\ shown \in [Streams -> Seq(ShownEvents)] /\ call \in [Flows -> CallStates]
      /\ x \in Streams /\ call[c].attempt \in {1, 2} /\ e.attempt \in {1, 2}
  BY StreamNames DEF ShownInv, ShownEvents, CallShape, CallStates
<1>2. /\ shown' \in [Streams -> Seq(ShownEvents)] /\ shown'[x] = q /\ call'[c] = e
      /\ \A y \in Streams \ {x} : shown'[y] = shown[y]
      /\ \A d \in Flows \ {c} : call'[d] = call[d]
  BY <1>1
<1>3. x = <<c, call[c].attempt>> /\ (StreamOf(c))' = <<c, e.attempt>>
  BY <1>2 DEF StreamOf
<1>4. ShownOf(c)'
  <2>1. CASE e.attempt = call[c].attempt
    <3>1. (StreamOf(c))' = x
      BY <1>3, <2>1
    <3>2. \A a \in {1, 2} \ {e.attempt} : shown'[<<c, a>>] = <<>>
      BY <1>2, <1>3, <2>1, StreamNames DEF ShownInv, ShownOf
    <3> QED
      BY <1>2, <3>1, <3>2 DEF ShownOf
  <2>2. CASE e.attempt # call[c].attempt
    <3>1. e.attempt = 2 /\ call[c].attempt = 1 /\ q = <<>> /\ e.pc = "starting"
      BY <2>2
    <3>2. <<c, 2>> \in Streams /\ <<c, 2>> # x
      BY <1>3, <3>1, StreamNames
    <3>3. shown'[<<c, 2>>] = <<>> /\ shown'[<<c, 1>>] = <<>>
      BY <1>2, <1>3, <3>1, <3>2 DEF ShownInv, ShownOf
    <3>4. TerminalAtEnd(<<>>)
      BY DEF TerminalAtEnd
    <3>5. (StreamOf(c))' = <<c, 2>>
      BY <1>3, <3>1
    <3>6. e.pc # "reading" /\ e.pc # "yielding" /\ e.pc # "login" /\ ~e.yielded
      BY <3>1
    <3>7. \A a \in {1, 2} \ {e.attempt} : a = 1
      BY <3>1
    <3> QED
      BY <1>2, <3>3, <3>4, <3>5, <3>6, <3>7 DEF ShownOf
  <2> QED
    BY <2>1, <2>2
<1>5. ASSUME NEW d \in Flows, d # c PROVE ShownOf(d)'
  <2>1. \A a \in {1, 2} : shown'[<<d, a>>] = shown[<<d, a>>]
    BY <1>1, <1>2, <1>3, <1>5, StreamNames
  <2>2. call'[d] = call[d] /\ (StreamOf(d))' = StreamOf(d) /\ StreamOf(d) = <<d, call[d].attempt>>
        /\ call[d].attempt \in {1, 2}
    BY <1>2, <1>5, StreamNames DEF StreamOf
  <2>3. shown'[StreamOf(d)] = shown[StreamOf(d)]
    BY <2>1, <2>2
  <2> QED
    BY <2>1, <2>2, <2>3 DEF ShownInv, ShownOf
<1> QED
  BY <1>2, <1>4, <1>5 DEF ShownInv, ShownEvents

LEMMA AppendedTerminal ==
  ASSUME NEW q \in Seq(ShownEvents), NEW m \in ShownEvents, NoTerminal(q)
  PROVE  /\ Append(q, m) \in Seq(ShownEvents) /\ TerminalAtEnd(Append(q, m))
         /\ m \notin Terminal => NoTerminal(Append(q, m))
<1>1. /\ Append(q, m) \in Seq(ShownEvents) /\ Len(Append(q, m)) = Len(q) + 1 /\ Len(q) \in Nat
      /\ \A i \in 1..Len(q) : Append(q, m)[i] = q[i]
      /\ Append(q, m)[Len(q) + 1] = m
  OBVIOUS
<1> DEFINE r == Append(q, m)
<1>2. r \in Seq(ShownEvents) /\ Len(r) = Len(q) + 1 /\ \A i \in 1..Len(r) : i \in 1..Len(q) \/ i = Len(r)
  BY <1>1
<1>3. TerminalAtEnd(r) /\ (m \notin Terminal => NoTerminal(r))
  BY <1>1, <1>2 DEF TerminalAtEnd, NoTerminal
<1> QED
  BY <1>2, <1>3

\* A step that shows nothing.
LEMMA NothingShown ==
  ASSUME CallShape, ShownInv, NEW c \in Flows, NEW e \in CallStates,
         call' = [call EXCEPT ![c] = e], shown' = shown,
         \/ e.attempt = call[c].attempt /\ (e.yielded <=> call[c].yielded)
         \/ e.attempt = 2 /\ call[c].pc = "login" /\ e.pc = "starting" /\ (e.yielded <=> call[c].yielded),
         e.pc \in {"idle", "starting", "login"} => ~call[c].yielded,
         e.pc = "login" => e.attempt = 1,
         e.pc = "ended" \/ call[c].pc # "ended",
         e.pc = "reading" => \/ call[c].pc \in {"starting", "reading"}
                             \/ call[c].pc = "yielding" /\ call[c].outcome # "ok",
         e.pc = "yielding" => call[c].pc = "yielding" /\ e.outcome = call[c].outcome
  PROVE  ShownInv'
<1> DEFINE x == StreamOf(c)
           q == shown[x]
<1>1. ShownOf(c) /\ x \in Streams /\ shown \in [Streams -> Seq(ShownEvents)]
  BY StreamNames DEF ShownInv, ShownEvents
<1>2. q \in Seq(ShownEvents) /\ shown' = [shown EXCEPT ![x] = q]
  BY <1>1
<1>3. NoTerminal(<<>>)
  BY DEF NoTerminal
<1>4. TerminalAtEnd(q)
      /\ (call[c].pc = "reading" \/ (call[c].pc = "yielding" /\ call[c].outcome # "ok") => NoTerminal(q))
      /\ (~call[c].yielded /\ call[c].pc # "ended" => q = <<>>)
      /\ (call[c].pc \in {"idle", "starting", "login"} => ~call[c].yielded)
      /\ (call[c].pc = "login" => call[c].attempt = 1)
  BY <1>1 DEF ShownOf
<1> HIDE DEF q
<1>5. e.pc = "reading" => NoTerminal(q)
  BY <1>3, <1>4
<1>6. e.pc = "yielding" /\ e.outcome # "ok" => NoTerminal(q)
  BY <1>4
<1>7. ~e.yielded /\ e.pc # "ended" => q = <<>>
  BY <1>4
<1>8. e.attempt # call[c].attempt =>
        e.attempt = 2 /\ call[c].attempt = 1 /\ q = <<>> /\ e.pc = "starting"
  BY <1>4
<1> QED
  BY <1>2, <1>4, <1>5, <1>6, <1>7, <1>8, OneShownStep


LEMMA ShownAgain ==
  ASSUME ShownInv, UNCHANGED <<call, shown>>
  PROVE  ShownInv'
  BY DEF ShownInv, ShownOf, StreamOf, TerminalAtEnd, NoTerminal

\* Steps that show nothing, by what they make of the locals.
LEMMA QuietCallStep ==
  ASSUME CallInv, ShownInv, NEW c \in Flows,
         \/ CallBegins(c) \/ CallSends(c) \/ CallLosesSend(c) \/ CallResumes(c)
         \/ CallTimesOut(c) \/ CallCancelled(c) \/ CallAborts(c) \/ ReloginEnds(c)
  PROVE  ShownInv'
<1> DEFINE t == call[c]
<1>1. t \in CallStates /\ call \in [Flows -> CallStates] /\ CallShape
  BY DEF CallInv, CallShape
<1>2. ShownOf(c)
  BY DEF ShownInv
<1>3. CASE CallBegins(c)
  <2>1. PICK kind \in {"complete", "stream"}, policy \in BOOLEAN :
          call' = [call EXCEPT ![c].pc = "starting", ![c].kind = kind, ![c].policy = policy]
    BY <1>3 DEF CallBegins
  <2> DEFINE e == [t EXCEPT !.pc = "starting", !.kind = kind, !.policy = policy]
  <2>2. e \in CallStates /\ e.pc = "starting" /\ e.attempt = t.attempt /\ (e.yielded <=> t.yielded)
    BY <1>1 DEF CallStates, CallPlaces
  <2>3. call' = [call EXCEPT ![c] = e]
    BY <2>1
  <2> HIDE DEF e
  <2>4. t.pc = "idle" /\ shown' = shown
    BY <1>3 DEF CallBegins
  <2> QED
    BY <1>1, <1>2, <2>2, <2>3, <2>4, NothingShown DEF ShownOf
<1>4. ASSUME NEW pc \in {"reading", "aborting", "ended"}, Move(c, pc), shown' = shown,
             pc = "reading" => \/ t.pc = "starting"
                               \/ t.pc = "yielding" /\ t.outcome # "ok",
             t.pc # "ended"
      PROVE  ShownInv'
  <2> DEFINE e == [t EXCEPT !.pc = pc]
  <2>1. e \in CallStates /\ e.pc = pc /\ e.attempt = t.attempt /\ (e.yielded <=> t.yielded)
    BY <1>1, <1>4 DEF CallStates, CallPlaces
  <2>2. call' = [call EXCEPT ![c] = e]
    BY <1>4 DEF Move
  <2> HIDE DEF e
  <2> QED
    BY <1>1, <1>4, <2>1, <2>2, NothingShown
<1>5. ASSUME EndAs(c, "raised"), shown' = shown
      PROVE  ShownInv'
  <2> DEFINE e == [t EXCEPT !.pc = "ended", !.outcome = "raised"]
  <2>1. e \in CallStates /\ e.pc = "ended" /\ e.attempt = t.attempt /\ (e.yielded <=> t.yielded)
    BY <1>1 DEF CallStates, CallPlaces
  <2>2. call' = [call EXCEPT ![c] = e]
    BY <1>5 DEF EndAs
  <2> HIDE DEF e
  <2> QED
    BY <1>1, <1>5, <2>1, <2>2, NothingShown
<1>6. CASE CallSends(c) \/ CallLosesSend(c) \/ CallResumes(c) \/ CallTimesOut(c) \/ CallCancelled(c)
  BY <1>4, <1>5, <1>6 DEF CallSends, CallLosesSend, CallResumes, CallTimesOut, CallCancelled
<1>7. CASE CallAborts(c)
  <2>1. CASE call' = [call EXCEPT ![c].pc = "ended", ![c].outcome = "raised", ![c].aborted = TRUE]
    <3> DEFINE e == [t EXCEPT !.pc = "ended", !.outcome = "raised", !.aborted = TRUE]
    <3>1. e \in CallStates /\ e.pc = "ended" /\ e.attempt = t.attempt /\ (e.yielded <=> t.yielded)
      BY <1>1 DEF CallStates, CallPlaces
    <3>2. call' = [call EXCEPT ![c] = e] /\ shown' = shown
      BY <1>7, <2>1 DEF CallAborts
    <3> HIDE DEF e
    <3> QED
      BY <1>1, <3>1, <3>2, NothingShown
  <2> QED
    BY <1>5, <1>7, <2>1 DEF CallAborts
<1>8. CASE ReloginEnds(c)
  <2>1. CASE call' = [call EXCEPT ![c].pc = "starting", ![c].attempt = 2]
    <3> DEFINE e == [t EXCEPT !.pc = "starting", !.attempt = 2]
    <3>1. e \in CallStates /\ e.pc = "starting" /\ e.attempt = 2 /\ (e.yielded <=> t.yielded)
      BY <1>1 DEF CallStates, CallPlaces
    <3>2. call' = [call EXCEPT ![c] = e] /\ shown' = shown /\ t.pc = "login"
      BY <1>8, <2>1 DEF ReloginEnds
    <3> HIDE DEF e
    <3>3. ~t.yielded
      BY <1>2, <3>2 DEF ShownOf
    <3> QED
      BY <1>1, <3>1, <3>2, <3>3, NothingShown
  <2> QED
    BY <1>5, <1>8, <2>1 DEF ReloginEnds
<1> QED
  BY <1>3, <1>6, <1>7, <1>8

LEMMA CallReadsShown ==
  ASSUME CallInv, ShownInv, NEW c \in Flows, CallReads(c)
  PROVE  ShownInv'
<1> DEFINE t == call[c]
           x == StreamOf(c)
           q == shown[x]
           m == Head(out[x])
<1>1. /\ t \in CallStates /\ call \in [Flows -> CallStates] /\ CallShape /\ t.pc = "reading"
      /\ x \in Streams /\ shown \in [Streams -> Seq(ShownEvents)] /\ q \in Seq(ShownEvents)
  BY StreamNames DEF CallInv, CallShape, CallReads, ShownInv, ShownEvents
<1>2. ShownOf(c) /\ NoTerminal(q)
  BY <1>1 DEF ShownInv, ShownOf
<1>3. ASSUME NEW e \in CallStates, call' = [call EXCEPT ![c] = e], e.attempt = t.attempt,
             \/ shown' = shown /\ (e.yielded <=> t.yielded)
                /\ (e.pc = "ended" \/ (e.pc = "login" /\ t.attempt = 1 /\ ~t.yielded))
             \/ m \in ShownEvents /\ Show(c, m) /\ e.pc = "ended"
             \/ m \in ShownEvents /\ Show(c, m) /\ e.pc = "yielding" /\ e.yielded
                /\ (m \in Terminal => e.outcome = "ok")
      PROVE  ShownInv'
  <2>1. CASE shown' = shown /\ (e.yielded <=> t.yielded)
             /\ (e.pc = "ended" \/ (e.pc = "login" /\ t.attempt = 1 /\ ~t.yielded))
    BY <1>1, <1>3, <2>1, NothingShown
  <2>2. CASE m \in ShownEvents /\ Show(c, m)
             /\ (\/ e.pc = "ended"
                 \/ e.pc = "yielding" /\ e.yielded /\ (m \in Terminal => e.outcome = "ok"))
    <3> DEFINE r == Append(q, m)
    <3>1. shown' = [shown EXCEPT ![x] = r]
      BY <2>2 DEF Show
    <3>2. r \in Seq(ShownEvents) /\ TerminalAtEnd(r) /\ (m \notin Terminal => NoTerminal(r))
      BY <1>1, <1>2, <2>2, AppendedTerminal
    <3> HIDE DEF r
    <3> QED
      BY <1>1, <1>3, <2>2, <3>1, <3>2, OneShownStep
  <2> QED
    BY <1>3, <2>1, <2>2
<1>4. CASE UNCHANGED <<call, shown>>
  BY <1>4, ShownAgain
<1>5. CASE Fails(c, m)
  <2>1. CASE Move(c, "login") /\ Retryable(c)
    <3> DEFINE e == [t EXCEPT !.pc = "login"]
    <3>1. e \in CallStates /\ e.pc = "login" /\ e.attempt = t.attempt /\ (e.yielded <=> t.yielded)
      BY <1>1 DEF CallStates, CallPlaces
    <3>2. call' = [call EXCEPT ![c] = e] /\ shown' = shown /\ t.attempt = 1 /\ ~t.yielded
      BY <1>5, <2>1 DEF Move, Fails, Retryable
    <3> HIDE DEF e
    <3> QED
      BY <1>3, <3>1, <3>2
  <2>2. CASE EndAs(c, "raised")
    <3> DEFINE e == [t EXCEPT !.pc = "ended", !.outcome = "raised"]
    <3>1. e \in CallStates /\ e.pc = "ended" /\ e.attempt = t.attempt /\ (e.yielded <=> t.yielded)
      BY <1>1 DEF CallStates, CallPlaces
    <3>2. call' = [call EXCEPT ![c] = e] /\ shown' = shown
      BY <1>5, <2>2 DEF EndAs, Fails
    <3> HIDE DEF e
    <3> QED
      BY <1>3, <3>1, <3>2
  <2> QED
    BY <1>5, <2>1, <2>2 DEF Fails
<1>6. CASE Yields(c, m)
  <2> DEFINE o == IF m = "delta" THEN "none" ELSE "ok"
             e == [t EXCEPT !.pc = "yielding", !.yielded = TRUE, !.outcome = o]
  <2>1. o \in {"none", "ok"} /\ m \in ShownEvents /\ (m \in Terminal => o = "ok")
    BY <1>6 DEF Yields, ShownEvents, Terminal
  <2>2. call' = [call EXCEPT ![c] = e] /\ Show(c, m)
    BY <1>6 DEF Yields
  <2> HIDE DEF o
  <2>3. e \in CallStates /\ e.pc = "yielding" /\ e.attempt = t.attempt /\ e.yielded /\ e.outcome = o
    BY <1>1, <2>1 DEF CallStates, CallPlaces
  <2> HIDE DEF e
  <2> QED
    BY <1>3, <2>1, <2>2, <2>3
<1>7. CASE m = "result" /\ EndAs(c, "ok") /\ Show(c, m)
  <2> DEFINE e == [t EXCEPT !.pc = "ended", !.outcome = "ok"]
  <2>1. e \in CallStates /\ e.pc = "ended" /\ e.attempt = t.attempt
    BY <1>1 DEF CallStates, CallPlaces
  <2>2. call' = [call EXCEPT ![c] = e] /\ m \in ShownEvents
    BY <1>7 DEF EndAs, ShownEvents
  <2> HIDE DEF e
  <2> QED
    BY <1>3, <1>7, <2>1, <2>2
<1> QED
  BY <1>4, <1>5, <1>6, <1>7 DEF CallReads

-----------------------------------------------------------------------------
(***************************************************************************)
(* The streams.                                                            *)
(***************************************************************************)
StreamFits(s) == s.deltas <= MaxDeltas /\ Len(s.events) <= s.deltas

LEMMA StreamsUnchanged ==
  ASSUME StreamsInv, stream' = stream
  PROVE  StreamsInv'
  BY DEF StreamsInv

\* An entry whose buffer is emptied, or which only changes its state, still fits.
LEMMA StreamStep ==
  ASSUME CallShape, StreamsInv, \/ \E x \in Streams : AcceptProvider(x, Head(asked[x]))
                                \/ PumpStep \/ ProviderWorks
  PROVE  StreamsInv'
<1>1. \A x \in Streams : StreamFits(stream[x]) /\ stream[x] \in StreamStates
  BY DEF StreamsInv, StreamFits, CallShape
<1>2. ASSUME NEW s \in StreamStates, StreamFits(s), NEW state, NEW outcome
      PROVE  /\ StreamFits([s EXCEPT !.state = state]) /\ StreamFits([s EXCEPT !.outcome = outcome])
             /\ StreamFits([s EXCEPT !.events = <<>>])
             /\ StreamFits([s EXCEPT !.state = state, !.events = <<>>])
  <2>1. Len(<<>>) = 0 /\ s.deltas \in Nat
    BY DEF StreamStates
  <2> QED
    BY <1>2, <2>1 DEF StreamFits, StreamStates
<1>3. ASSUME NEW s \in StreamStates, StreamFits(s), s.deltas < MaxDeltas
      PROVE  StreamFits([s EXCEPT !.events = Append(@, "delta"), !.deltas = @ + 1])
  <2> DEFINE r == Append(s.events, "delta")
  <2>1. s.events \in Seq({"delta"}) /\ s.deltas \in Nat
    BY DEF StreamStates
  <2>2. r \in Seq({"delta"}) /\ Len(r) = Len(s.events) + 1 /\ Len(s.events) \in Nat
    BY <2>1
  <2>3. s.deltas + 1 <= MaxDeltas /\ Len(r) <= s.deltas + 1
    BY <1>3, <2>1, <2>2, DeltasAssumption DEF StreamFits
  <2> HIDE DEF r
  <2>4. [s EXCEPT !.events = r, !.deltas = s.deltas + 1].deltas = s.deltas + 1
        /\ [s EXCEPT !.events = r, !.deltas = s.deltas + 1].events = r
    BY DEF StreamStates
  <2> QED
    BY <2>3, <2>4 DEF StreamFits, r
<1>4. ASSUME NEW x \in Streams, NEW s, stream' = [stream EXCEPT ![x] = s], StreamFits(s)
      PROVE  StreamsInv'
  <2>1. /\ stream \in [Streams -> StreamStates] /\ stream'[x] = s
        /\ \A y \in Streams \ {x} : stream'[y] = stream[y]
    BY <1>4 DEF CallShape
  <2> QED
    BY <1>1, <1>4, <2>1 DEF StreamsInv, StreamFits
<1>5. ASSUME NEW x \in Streams, AcceptProvider(x, Head(asked[x])) PROVE StreamsInv'
  <2>1. \/ stream' = stream
        \/ stream' = [stream EXCEPT ![x].state = "active"]
        \/ stream' = [stream EXCEPT ![x].state = "aborted", ![x].events = <<>>]
    BY <1>5 DEF AcceptProvider, AcceptStream, AcceptAbort, AcceptComplete, Refuse
  <2>2. CASE stream' = [stream EXCEPT ![x].state = "active"]
    <3>1. stream' = [stream EXCEPT ![x] = [stream[x] EXCEPT !.state = "active"]]
      BY <2>2
    <3> QED
      BY <1>1, <1>2, <1>4, <3>1
  <2>3. CASE stream' = [stream EXCEPT ![x].state = "aborted", ![x].events = <<>>]
    <3>1. stream' = [stream EXCEPT ![x] = [stream[x] EXCEPT !.state = "aborted", !.events = <<>>]]
      BY <2>3
    <3> QED
      BY <1>1, <1>2, <1>4, <3>1
  <2> QED
    BY <2>1, <2>2, <2>3, StreamsUnchanged
<1>6. ASSUME NEW x \in Streams, Streamed(x) PROVE StreamsInv'
  <2>1. stream' = [stream EXCEPT ![x] = [stream[x] EXCEPT !.events = Append(@, "delta"),
                                                          !.deltas = @ + 1]]
        /\ stream[x].deltas < MaxDeltas
    BY <1>6 DEF Streamed
  <2> QED
    BY <1>1, <1>3, <1>4, <2>1
<1>7. ASSUME NEW x \in Streams, Completes(x) PROVE StreamsInv'
  <2>1. PICK outcome : stream' = [stream EXCEPT ![x] = [stream[x] EXCEPT !.outcome = outcome]]
    BY <1>7 DEF Completes
  <2> QED
    BY <1>1, <1>2, <1>4, <2>1
<1>8. ASSUME NEW x \in Streams, Forward(x) PROVE StreamsInv'
  <2>1. stream' = [stream EXCEPT ![x] = [stream[x] EXCEPT !.events = <<>>]]
    BY <1>8 DEF Forward
  <2> QED
    BY <1>1, <1>2, <1>4, <2>1
<1>9. CASE Cleanup
  <2>1. \A x \in Streams :
          stream'[x] \in {stream[x], [stream[x] EXCEPT !.state = "gone", !.events = <<>>]}
    BY <1>9 DEF Cleanup
  <2>2. ASSUME NEW x \in Streams PROVE StreamFits(stream'[x])
    <3>1. StreamFits([stream[x] EXCEPT !.state = "gone", !.events = <<>>]) /\ StreamFits(stream[x])
      BY <1>1, <1>2
    <3>2. \/ stream'[x] = stream[x]
          \/ stream'[x] = [stream[x] EXCEPT !.state = "gone", !.events = <<>>]
      BY <2>1
    <3> QED
      BY <3>1, <3>2
  <2> QED
    BY <2>2 DEF StreamsInv, StreamFits
<1> QED
  BY <1>5, <1>6, <1>7, <1>8, <1>9, StreamsUnchanged
  DEF PumpStep, ProviderWorks, PumpBegins, CompletionEnds

-----------------------------------------------------------------------------
(***************************************************************************)
(* Queues of frames and of requests.                                       *)
(***************************************************************************)
NoPrompt(q) == \A i \in 1..Len(q) : q[i].type # "prompt"

LEMMA AppendedElements ==
  ASSUME NEW S, NEW q \in Seq(S), NEW e \in S
  PROVE  /\ Append(q, e) \in Seq(S) /\ Len(q) \in Nat /\ Len(Append(q, e)) = Len(q) + 1
         /\ \A i \in 1..Len(q) : i \in 1..Len(Append(q, e)) /\ Append(q, e)[i] = q[i]
         /\ Append(q, e)[Len(q) + 1] = e
         /\ \A i \in 1..Len(Append(q, e)) : i \in 1..Len(q) \/ i = Len(q) + 1
<1>1. /\ Append(q, e) \in Seq(S) /\ Len(q) \in Nat /\ Len(Append(q, e)) = Len(q) + 1
      /\ \A i \in 1..Len(q) : Append(q, e)[i] = q[i]
      /\ Append(q, e)[Len(q) + 1] = e
  OBVIOUS
<1> QED
  BY <1>1

LEMMA JoinedElements ==
  ASSUME NEW S, NEW q \in Seq(S), NEW r \in Seq(S)
  PROVE  /\ q \o r \in Seq(S) /\ Len(q) \in Nat /\ Len(r) \in Nat /\ Len(q \o r) = Len(q) + Len(r)
         /\ \A i \in 1..Len(q \o r) :
              \/ i \in 1..Len(q) /\ (q \o r)[i] = q[i]
              \/ i - Len(q) \in 1..Len(r) /\ (q \o r)[i] = r[i - Len(q)]
<1>1. /\ q \o r \in Seq(S) /\ Len(q) \in Nat /\ Len(r) \in Nat /\ Len(q \o r) = Len(q) + Len(r)
      /\ \A i \in 1..Len(q) + Len(r) : (q \o r)[i] = IF i <= Len(q) THEN q[i] ELSE r[i - Len(q)]
  OBVIOUS
<1> QED
  BY <1>1

\* What is no prompt changes nothing for the prompts.
LEMMA JoinedQuiet ==
  ASSUME NEW q \in Seq(AuthFrames), NEW r \in Seq(AuthFrames), NoPrompt(r), NEW s,
         NEW low, NEW high
  PROVE  /\ PromptsRise(q) => PromptsRise(q \o r)
         /\ PromptsBefore(q, s) => PromptsBefore(q \o r, s)
         /\ PromptsBefore(s, q) => PromptsBefore(s, q \o r)
         /\ PromptsIn(q, low, high) => PromptsIn(q \o r, low, high)
<1> DEFINE p == q \o r
<1>1. \A i \in 1..Len(p) : p[i].type = "prompt" => i \in 1..Len(q) /\ p[i] = q[i]
  BY JoinedElements DEF NoPrompt
<1> HIDE DEF p
<1>2. PromptsRise(q) => PromptsRise(p)
  BY <1>1 DEF PromptsRise
<1>3. PromptsBefore(q, s) => PromptsBefore(p, s)
  BY <1>1 DEF PromptsBefore
<1>4. PromptsBefore(s, q) => PromptsBefore(s, p)
  BY <1>1 DEF PromptsBefore
<1>5. PromptsIn(q, low, high) => PromptsIn(p, low, high)
  BY <1>1 DEF PromptsIn
<1> QED
  BY <1>2, <1>3, <1>4, <1>5 DEF p

\* The next prompt, after those of q and s.
LEMMA AppendedPrompt ==
  ASSUME NEW q \in Seq(AuthFrames), NEW s \in Seq(AuthFrames), NEW e \in AuthFrames,
         NEW low \in Nat, NEW n \in Nat, low <= n, e.prompt = n + 1,
         PromptsRise(q), PromptsBefore(s, q), PromptsIn(q, low, n), PromptsIn(s, low, n)
  PROVE  /\ PromptsRise(Append(q, e)) /\ PromptsBefore(s, Append(q, e))
         /\ PromptsIn(Append(q, e), low, n + 1) /\ PromptsIn(s, low, n + 1)
<1> DEFINE p == Append(q, e)
<1>1. /\ \A i \in 1..Len(p) : (i \in 1..Len(q) /\ p[i] = q[i]) \/ (i = Len(q) + 1 /\ p[i] = e)
      /\ Len(q) \in Nat
  BY AppendedElements
<1> HIDE DEF p
<1>2. \A i \in 1..Len(q) : q[i].prompt \in Nat
  <2>1. \A i \in 1..Len(q) : q[i] \in AuthFrames
    OBVIOUS
  <2> QED
    BY <2>1 DEF AuthFrames
<1>3. \A i \in 1..Len(s) : s[i].prompt \in Nat
  <2>1. \A i \in 1..Len(s) : s[i] \in AuthFrames
    OBVIOUS
  <2> QED
    BY <2>1 DEF AuthFrames
<1>4. PromptsRise(p)
  <2> SUFFICES ASSUME NEW i \in 1..Len(p), NEW j \in 1..Len(p), i < j,
                      p[i].type = "prompt", p[j].type = "prompt"
               PROVE  p[i].prompt < p[j].prompt
    BY DEF PromptsRise
  <2>1. i \in 1..Len(q) /\ p[i] = q[i] /\ q[i].prompt \in Nat /\ q[i].prompt <= n
    BY <1>1, <1>2 DEF PromptsIn
  <2>2. CASE j \in 1..Len(q) /\ p[j] = q[j]
    BY <2>1, <2>2 DEF PromptsRise
  <2>3. CASE p[j] = e
    BY <2>1, <2>3
  <2> QED
    BY <1>1, <2>2, <2>3
<1>5. PromptsBefore(s, p)
  BY <1>1, <1>3 DEF PromptsBefore, PromptsIn
<1>6. PromptsIn(p, low, n + 1) /\ PromptsIn(s, low, n + 1)
  BY <1>1, <1>2, <1>3 DEF PromptsIn
<1> QED
  BY <1>4, <1>5, <1>6 DEF p

\* The first frame of q goes, or moves to the end of s.
LEMMA MovedPrompts ==
  ASSUME NEW q \in Seq(AuthFrames), NEW s \in Seq(AuthFrames), q # <<>>, NEW low, NEW high,
         PromptsRise(q), PromptsRise(s), PromptsBefore(s, q), PromptsIn(q, low, high),
         PromptsIn(s, low, high)
  PROVE  /\ PromptsRise(Tail(q)) /\ PromptsBefore(s, Tail(q)) /\ PromptsIn(Tail(q), low, high)
         /\ PromptsRise(Append(s, Head(q))) /\ PromptsBefore(Append(s, Head(q)), Tail(q))
         /\ PromptsIn(Append(s, Head(q)), low, high)
<1> DEFINE t == Tail(q)
           p == Append(s, Head(q))
<1>1. /\ Head(q) \in AuthFrames /\ Head(q) = q[1] /\ 1 \in 1..Len(q)
      /\ \A i \in 1..Len(t) : i + 1 \in 1..Len(q) /\ t[i] = q[i + 1]
  BY HeadOfQueue
<1>2. /\ \A i \in 1..Len(p) : (i \in 1..Len(s) /\ p[i] = s[i]) \/ (i = Len(s) + 1 /\ p[i] = q[1])
      /\ Len(s) \in Nat
  BY <1>1, AppendedElements
<1> HIDE DEF t, p
<1>3. PromptsRise(t) /\ PromptsBefore(s, t) /\ PromptsIn(t, low, high)
  <2>1. \A i \in 1..Len(t) : i \in Nat
    OBVIOUS
  <2>2. PromptsRise(t)
    <3> SUFFICES ASSUME NEW i \in 1..Len(t), NEW j \in 1..Len(t), i < j,
                        t[i].type = "prompt", t[j].type = "prompt"
                 PROVE  t[i].prompt < t[j].prompt
      BY DEF PromptsRise
    <3>1. t[i] = q[i + 1] /\ t[j] = q[j + 1] /\ i + 1 \in 1..Len(q) /\ j + 1 \in 1..Len(q)
      BY <1>1
    <3>2. i + 1 < j + 1
      BY <2>1
    <3> QED
      BY <3>1, <3>2 DEF PromptsRise
  <2>3. PromptsBefore(s, t)
    BY <1>1 DEF PromptsBefore
  <2>4. PromptsIn(t, low, high)
    BY <1>1 DEF PromptsIn
  <2> QED
    BY <2>2, <2>3, <2>4
<1>4. PromptsRise(p)
  <2> SUFFICES ASSUME NEW i \in 1..Len(p), NEW j \in 1..Len(p), i < j,
                      p[i].type = "prompt", p[j].type = "prompt"
               PROVE  p[i].prompt < p[j].prompt
    BY DEF PromptsRise
  <2>1. i \in 1..Len(s) /\ p[i] = s[i]
    BY <1>2
  <2> QED
    BY <1>1, <1>2, <2>1 DEF PromptsRise, PromptsBefore
<1>5. PromptsBefore(p, t)
  <2> SUFFICES ASSUME NEW i \in 1..Len(p), NEW j \in 1..Len(t),
                      p[i].type = "prompt", t[j].type = "prompt"
               PROVE  p[i].prompt < t[j].prompt
    BY DEF PromptsBefore
  <2>1. t[j] = q[j + 1] /\ j + 1 \in 1..Len(q) /\ 1 < j + 1
    BY <1>1
  <2>2. CASE i \in 1..Len(s) /\ p[i] = s[i]
    BY <2>1, <2>2 DEF PromptsBefore
  <2>3. CASE p[i] = q[1]
    BY <1>1, <2>1, <2>3 DEF PromptsRise
  <2> QED
    BY <1>2, <2>2, <2>3
<1>6. PromptsIn(p, low, high)
  BY <1>1, <1>2 DEF PromptsIn
<1> QED
  BY <1>3, <1>4, <1>5, <1>6 DEF t, p

\* The first frame of s is read; of a prompt the rest come after it.
LEMMA ReadPrompts ==
  ASSUME NEW q, NEW s \in Seq(AuthFrames), s # <<>>, NEW low, NEW high,
         PromptsRise(s), PromptsBefore(s, q), PromptsIn(s, low, high), PromptsIn(q, low, high)
  PROVE  /\ PromptsRise(Tail(s)) /\ PromptsBefore(Tail(s), q) /\ PromptsIn(Tail(s), low, high)
         /\ Head(s).type = "prompt" =>
              /\ PromptsIn(Tail(s), Head(s).prompt, high) /\ PromptsIn(q, Head(s).prompt, high)
              /\ low < Head(s).prompt /\ Head(s).prompt <= high
<1> DEFINE t == Tail(s)
<1>1. /\ Head(s) = s[1] /\ 1 \in 1..Len(s)
      /\ \A i \in 1..Len(t) : i + 1 \in 1..Len(s) /\ t[i] = s[i + 1]
  BY HeadOfQueue
<1> HIDE DEF t
<1>2. PromptsRise(t) /\ PromptsBefore(t, q) /\ PromptsIn(t, low, high)
  <2>1. \A i \in 1..Len(t) : i \in Nat
    OBVIOUS
  <2>2. PromptsRise(t)
    <3> SUFFICES ASSUME NEW i \in 1..Len(t), NEW j \in 1..Len(t), i < j,
                        t[i].type = "prompt", t[j].type = "prompt"
                 PROVE  t[i].prompt < t[j].prompt
      BY DEF PromptsRise
    <3>1. t[i] = s[i + 1] /\ t[j] = s[j + 1] /\ i + 1 \in 1..Len(s) /\ j + 1 \in 1..Len(s)
      BY <1>1
    <3>2. i + 1 < j + 1
      BY <2>1
    <3> QED
      BY <3>1, <3>2 DEF PromptsRise
  <2>3. PromptsBefore(t, q)
    BY <1>1 DEF PromptsBefore
  <2>4. PromptsIn(t, low, high)
    BY <1>1 DEF PromptsIn
  <2> QED
    BY <2>2, <2>3, <2>4
<1>3. ASSUME s[1].type = "prompt"
      PROVE  /\ PromptsIn(t, s[1].prompt, high) /\ PromptsIn(q, s[1].prompt, high)
             /\ low < s[1].prompt /\ s[1].prompt <= high
  BY <1>1, <1>3 DEF PromptsRise, PromptsBefore, PromptsIn
<1> QED
  BY <1>1, <1>2, <1>3 DEF t

LEMMA NothingQueued ==
  ASSUME NEW q, NEW low, NEW high
  PROVE  /\ PromptsRise(<<>>) /\ PromptsIn(<<>>, low, high) /\ NoResult(<<>>)
         /\ PromptsBefore(<<>>, q) /\ PromptsBefore(q, <<>>)
  BY DEF PromptsRise, PromptsIn, PromptsBefore, NoResult

-----------------------------------------------------------------------------
(***************************************************************************)
(* What the server and its worker make of the entries of a flow.           *)
(***************************************************************************)

\* The flow leaves the table.
LEMMA FlowCleaned ==
  ASSUME NEW fl \in FlowStates, NEW ex \in Nat, NEW w, NEW ob, NEW l \in LoginStates, NEW th,
  NEW tc,
         FlowInv(fl, ex, w, ob, l, th, tc), fl.held, fl.terminal
  PROVE  FlowInv([fl EXCEPT !.held = FALSE], 1, w, ob, l, th, tc)
<1> DEFINE g == [fl EXCEPT !.held = FALSE]
<1>1. /\ g.prompts = fl.prompts /\ g.waiting = fl.waiting /\ g.answer = fl.answer
      /\ (g.cancelled <=> fl.cancelled) /\ (g.terminal <=> fl.terminal) /\ ~g.held
      /\ l.seq \in Nat
  BY DEF FlowStates, LoginStates
<1>2. ~NoThread(w)
  BY DEF FlowInv, Tight, Fresh
<1> HIDE DEF g
<1>3. Tight(g, w, ob) /\ Unannounced(g, ob, l, tc) /\ Prompted(g, ob, l, tc)
  BY <1>1, <1>2 DEF FlowInv, Tight, Unannounced, Prompted
<1>4. Counted(1, l, th)
  BY <1>1 DEF FlowInv, Counted
<1>5. Agreed(g, 1, w, l, th)
  BY <1>1, <1>2 DEF Agreed, Live
<1> QED
  BY <1>3, <1>4, <1>5 DEF FlowInv, g

\* The worker goes on, and may say that the flow is over.
LEMMA WorkerGoes ==
  ASSUME NEW fl, NEW ex, NEW w, NEW ob, NEW l, NEW th, NEW tc, NEW g, NEW v,
         FlowInv(fl, ex, w, ob, l, th, tc), ~NoThread(w), ~NoThread(v), w.pc # "waiting",
         g.prompts = fl.prompts, g.waiting = fl.waiting, g.answer = fl.answer,
         g.held <=> fl.held, g.cancelled <=> fl.cancelled, fl.terminal => g.terminal
  PROVE  FlowInv(g, ex, v, ob, l, th, tc)
<1>1. Tight(g, v, ob) /\ Unannounced(g, ob, l, tc) /\ Prompted(g, ob, l, tc)
  BY DEF FlowInv, Tight, Unannounced, Prompted
<1>2. Agreed(g, ex, v, l, th)
  BY DEF FlowInv, Agreed, Live
<1> QED
  BY <1>1, <1>2 DEF FlowInv

\* The worker says something that is no prompt.
LEMMA WorkerSays ==
  ASSUME NEW fl, NEW ex, NEW w, NEW ob \in Seq(AuthFrames), NEW l, NEW th, NEW tc,
         NEW r \in Seq(AuthFrames), NoPrompt(r), fl.terminal \/ NoResult(r), ~NoThread(w),
         FlowInv(fl, ex, w, ob, l, th, tc)
  PROVE  FlowInv(fl, ex, w, ob \o r, l, th, tc)
<1> DEFINE p == ob \o r
<1>1. Prompted(fl, p, l, tc)
  BY JoinedQuiet DEF FlowInv, Prompted
<1>2. ~fl.terminal => NoResult(p)
  BY JoinedElements DEF FlowInv, Unannounced, NoResult
<1> HIDE DEF p
<1>3. Unannounced(fl, p, l, tc) /\ Tight(fl, w, p)
  BY <1>2 DEF FlowInv, Unannounced, Tight
<1> QED
  BY <1>1, <1>3 DEF FlowInv, p

LEMMA WorkerAsks ==
  ASSUME NEW fl \in FlowStates, NEW ex, NEW w, NEW ob \in Seq(AuthFrames), NEW l \in LoginStates,
         NEW th, NEW tc \in Seq(AuthFrames), NEW v,
         FlowInv(fl, ex, w, ob, l, th, tc), w.pc \in {"login", "again"}, v.pc = "waiting",
         fl.prompts < MaxPrompts, ~fl.terminal
  PROVE  FlowInv([fl EXCEPT !.prompts = fl.prompts + 1, !.waiting = fl.prompts + 1], ex, v,
                 Append(ob, Frame("prompt", fl.prompts + 1)), l, th, tc)
<1> DEFINE n == fl.prompts
           e == Frame("prompt", n + 1)
           g == [fl EXCEPT !.prompts = n + 1, !.waiting = n + 1]
           p == Append(ob, e)
<1>1. n \in Nat /\ l.asked \in Nat /\ e \in AuthFrames /\ e.prompt = n + 1 /\ e.type = "prompt"
  BY DEF FlowStates, LoginStates, Frame, AuthFrames
<1>2. /\ g.prompts = n + 1 /\ g.waiting = n + 1 /\ g.answer = fl.answer
      /\ (g.cancelled <=> fl.cancelled) /\ (g.terminal <=> fl.terminal) /\ (g.held <=> fl.held)
  BY DEF FlowStates
<1>3. PromptsRise(p) /\ PromptsBefore(tc, p) /\ PromptsIn(p, l.asked, n + 1) /\ PromptsIn(tc, l.asked, n + 1)
  BY <1>1, AppendedPrompt DEF FlowInv, Prompted
<1>4. NoResult(p)
  <2>1. \A i \in 1..Len(p) : (i \in 1..Len(ob) /\ p[i] = ob[i]) \/ p[i] = e
    BY <1>1, AppendedElements
  <2> HIDE DEF p, e
  <2> QED
    BY <1>1, <2>1 DEF FlowInv, Unannounced, NoResult, Result
<1> HIDE DEF g, p, e
<1>5. Tight(g, v, p)
  BY <1>1, <1>2, PromptsAssumption DEF FlowInv, Tight, NoThread, PromptsAssumption
<1>6. Unannounced(g, p, l, tc)
  BY <1>2, <1>4 DEF FlowInv, Unannounced
<1>7. Prompted(g, p, l, tc)
  BY <1>1, <1>2, <1>3 DEF FlowInv, Prompted
<1>8. Agreed(g, ex, v, l, th)
  BY <1>2 DEF FlowInv, Agreed, Live, NoThread
<1> QED
  BY <1>5, <1>6, <1>7, <1>8 DEF FlowInv, g, p, e

LEMMA WorkerWakes ==
  ASSUME NEW fl, NEW ex, NEW w, NEW ob, NEW l, NEW th, NEW tc, NEW g, NEW v,
         FlowInv(fl, ex, w, ob, l, th, tc), w.pc = "waiting", ~NoThread(v),
         g.prompts = fl.prompts, g.answer = "none", g.waiting = 0,
         g.held <=> fl.held, g.cancelled <=> fl.cancelled, g.terminal <=> fl.terminal
  PROVE  FlowInv(g, ex, v, ob, l, th, tc)
<1>1. Tight(g, v, ob) /\ Unannounced(g, ob, l, tc) /\ Prompted(g, ob, l, tc)
  BY DEF FlowInv, Tight, Unannounced, Prompted
<1>2. Agreed(g, ex, v, l, th)
  BY DEF FlowInv, Agreed, Live, NoThread
<1> QED
  BY <1>1, <1>2 DEF FlowInv

\* The next frame is written, to a login that reads or to none.
LEMMA FramePopped ==
  ASSUME NEW fl, NEW ex, NEW w, NEW ob \in Seq(AuthFrames), NEW l, NEW th,
         NEW tc \in Seq(AuthFrames), FlowInv(fl, ex, w, ob, l, th, tc), ob # <<>>
  PROVE  /\ FlowInv(fl, ex, w, Tail(ob), l, th, tc)
         /\ FlowInv(fl, ex, w, Tail(ob), l, th, Append(tc, Head(ob)))
<1> DEFINE t == Tail(ob)
           p == Append(tc, Head(ob))
<1>1. Prompted(fl, t, l, tc) /\ Prompted(fl, t, l, p)
  BY MovedPrompts DEF FlowInv, Prompted
<1>2. NoResult(ob) /\ NoResult(tc) => NoResult(t) /\ NoResult(p)
  <2>1. /\ Head(ob) = ob[1] /\ 1 \in 1..Len(ob) /\ Head(ob) \in AuthFrames
        /\ \A i \in 1..Len(t) : i + 1 \in 1..Len(ob) /\ t[i] = ob[i + 1]
    BY HeadOfQueue
  <2>2. \A i \in 1..Len(p) : (i \in 1..Len(tc) /\ p[i] = tc[i]) \/ p[i] = ob[1]
    BY <2>1, AppendedElements
  <2> HIDE DEF t, p
  <2> QED
    BY <2>1, <2>2 DEF NoResult
<1> HIDE DEF t, p
<1>3. Unannounced(fl, t, l, tc) /\ Unannounced(fl, t, l, p)
  BY <1>2 DEF FlowInv, Unannounced
<1>4. Tight(fl, w, t)
  BY DEF FlowInv, Tight
<1> QED
  BY <1>1, <1>3, <1>4 DEF FlowInv, t, p

\* A reply is written to a login that reads.
LEMMA FrameReplied ==
  ASSUME NEW fl, NEW ex, NEW w, NEW ob \in Seq(AuthFrames), NEW l, NEW th,
         NEW tc \in Seq(AuthFrames), FlowInv(fl, ex, w, ob, l, th, tc), NEW reply \in {"ack",
         "nack"}
  PROVE  FlowInv(fl, ex, w, ob, l, th, Append(tc, Frame(reply, 0)))
<1> DEFINE e == Frame(reply, 0)
           p == Append(tc, e)
<1>1. e \in AuthFrames /\ e.type = reply
  BY DEF Frame, AuthFrames
<1> HIDE DEF e
<1>2. NoPrompt(<<e>>) /\ NoResult(<<e>>) /\ <<e>> \in Seq(AuthFrames)
  BY <1>1 DEF NoPrompt, NoResult, Result
<1>3. p = tc \o <<e>>
  BY <1>1, AppendJoins
<1>4. Prompted(fl, ob, l, p)
  BY <1>2, <1>3, JoinedQuiet DEF FlowInv, Prompted
<1>5. NoResult(tc) => NoResult(p)
  <2>1. \A i \in 1..Len(p) : (i \in 1..Len(tc) /\ p[i] = tc[i]) \/ p[i] = e
    BY <1>1, AppendedElements
  <2> HIDE DEF p
  <2> QED
    BY <1>1, <2>1 DEF NoResult, Result
<1> HIDE DEF p
<1>6. Unannounced(fl, ob, l, p)
  BY <1>5 DEF FlowInv, Unannounced
<1> QED
  BY <1>4, <1>6 DEF FlowInv, p, e

-----------------------------------------------------------------------------
(***************************************************************************)
(* What reading a request makes of the entries of a flow.                  *)
(***************************************************************************)
LEMMA TailRequests ==
  ASSUME NEW th \in Seq(AuthRequests), th # <<>>
  PROVE  /\ 1 \in 1..Len(th) /\ Len(th) \in Nat /\ Tail(th) \in Seq(AuthRequests)
         /\ Len(Tail(th)) = Len(th) - 1
         /\ \A i \in 1..Len(Tail(th)) : i \in Nat /\ i + 1 \in 1..Len(th) /\ Tail(th)[i] = th[i + 1]
         /\ \A i \in 1..Len(th) : th[i] \in AuthRequests
  BY HeadOfQueue

\* What is still to be read stays counted.
LEMMA CountedTail ==
  ASSUME NEW ex, NEW l, NEW th \in Seq(AuthRequests), th # <<>>, Counted(ex, l, th)
  PROVE  Counted(ex, l, Tail(th))
<1> DEFINE t == Tail(th)
<1>1. \A i \in 1..Len(t) : i + 1 \in 1..Len(th) /\ t[i] = th[i + 1]
  BY TailRequests
<1> HIDE DEF t
<1>2. Counted(ex, l, t)
  BY <1>1 DEF Counted
<1> QED
  BY <1>2 DEF t

\* The server counts a request in its place.
LEMMA CountedMore ==
  ASSUME NEW ex \in Nat, NEW l \in LoginStates, NEW th \in Seq(AuthRequests), th # <<>>,
         Counted(ex, l, th), th[1].seq = ex
  PROVE  Counted(ex + 1, l, Tail(th))
<1>1. th[1].seq <= l.seq /\ l.seq \in Nat
  BY TailRequests DEF Counted, LoginStates
<1>2. Counted(ex, l, Tail(th))
  BY CountedTail
<1> QED
  BY <1>1, <1>2 DEF Counted

\* A request that is no auth_cancel is read in its place: the rest is numbered from the next.
LEMMA AgreedMore ==
  ASSUME NEW fl, NEW g, NEW ex \in Nat, NEW w, NEW v, NEW l \in LoginStates,
         NEW th \in Seq(AuthRequests), th # <<>>, Agreed(fl, ex, w, l, th),
         th[1].type # "auth_cancel", Live(fl, w, l, th)
  PROVE  Agreed(g, ex + 1, v, l, Tail(th))
<1> SUFFICES ASSUME ~l.lost, Live(g, v, l, Tail(th))
             PROVE  /\ \A i \in 1..Len(Tail(th)) : NoCancel(Tail(th), i - 1) =>
                         Tail(th)[i].seq = ex + 1 + i - 1
                    /\ NoCancel(Tail(th), Len(Tail(th))) =>
                         l.pc # "ended" /\ l.seq = ex + 1 + Len(Tail(th))
  BY DEF Agreed
<1> DEFINE t == Tail(th)
<1>1. /\ 1 \in 1..Len(th) /\ Len(th) \in Nat /\ Len(t) = Len(th) - 1
      /\ \A i \in 1..Len(t) : i \in Nat /\ i + 1 \in 1..Len(th) /\ t[i] = th[i + 1]
  BY TailRequests
<1>2. /\ \A i \in 1..Len(th) : NoCancel(th, i - 1) => th[i].seq = ex + i - 1
      /\ NoCancel(th, Len(th)) => l.pc # "ended" /\ l.seq = ex + Len(th)
  BY DEF Agreed
<1> HIDE DEF t
<1>3. ASSUME NEW n \in 0..Len(t), NoCancel(t, n) PROVE NoCancel(th, n + 1)
  <2> SUFFICES ASSUME NEW i \in 1..n + 1 PROVE th[i].type # "auth_cancel"
    BY DEF NoCancel
  <2>1. CASE i = 1
    BY <2>1
  <2>2. CASE i # 1
    <3>1. i - 1 \in 1..n /\ i - 1 \in 1..Len(t) /\ (i - 1) + 1 = i
      BY <1>1, <2>2
    <3>2. t[i - 1] = th[i]
      BY <1>1, <3>1
    <3> QED
      BY <1>3, <3>1, <3>2 DEF NoCancel
  <2> QED
    BY <2>1, <2>2
<1>4. ASSUME NEW i \in 1..Len(t), NoCancel(t, i - 1) PROVE t[i].seq = ex + 1 + i - 1
  <2>1. i - 1 \in 0..Len(t) /\ i + 1 \in 1..Len(th) /\ t[i] = th[i + 1] /\ i \in Nat /\ (i - 1) + 1 = i
    BY <1>1
  <2>2. NoCancel(th, i)
    <3>1. NoCancel(th, (i - 1) + 1)
      BY <1>3, <1>4, <2>1
    <3> QED
      BY <2>1, <3>1
  <2>3. NoCancel(th, (i + 1) - 1)
    <3>1. (i + 1) - 1 = i
      BY <2>1
    <3> QED
      BY <2>2, <3>1
  <2>4. th[i + 1].seq = ex + (i + 1) - 1
    BY <1>2, <2>1, <2>3
  <2>5. ex + (i + 1) - 1 = ex + 1 + i - 1
    BY <2>1
  <2> QED
    BY <2>1, <2>4, <2>5
<1>5. ASSUME NoCancel(t, Len(t)) PROVE l.pc # "ended" /\ l.seq = ex + 1 + Len(t)
  <2>1. Len(t) \in 0..Len(t) /\ Len(t) + 1 = Len(th)
    BY <1>1
  <2>2. NoCancel(th, Len(th))
    <3>1. NoCancel(th, Len(t) + 1)
      BY <1>3, <1>5, <2>1
    <3> QED
      BY <2>1, <3>1
  <2> QED
    BY <1>1, <1>2, <2>1, <2>2
<1> QED
  BY <1>4, <1>5 DEF t

\* The first request of a flow starts it.
LEMMA FlowStarted ==
  ASSUME NEW fl, NEW ex \in Nat, NEW w, NEW ob, NEW l \in LoginStates,
         NEW th \in Seq(AuthRequests), NEW tc, NEW v,
         FlowInv(fl, ex, w, ob, l, th, tc), th # <<>>, NoThread(w), v.pc = "begin",
         th[1].type = "auth_login_start", th[1].seq = ex
  PROVE  FlowInv([Fresh EXCEPT !.held = TRUE], ex + 1, v, ob, l, Tail(th), tc)
<1> DEFINE g == [Fresh EXCEPT !.held = TRUE]
<1>1. /\ g.prompts = 0 /\ g.waiting = 0 /\ g.answer = "none" /\ ~g.cancelled /\ ~g.terminal /\ g.held
      /\ Fresh.prompts = 0 /\ ~Fresh.terminal
  BY DEF Fresh
<1>2. fl = Fresh
  BY DEF FlowInv, Tight
<1>3. Counted(ex + 1, l, Tail(th))
  BY CountedMore DEF FlowInv
<1>4. Agreed(g, ex + 1, v, l, Tail(th))
  BY AgreedMore DEF FlowInv, Live
<1> HIDE DEF g
<1>5. Tight(g, v, ob)
  BY <1>1, PromptsAssumption DEF Tight, NoThread, PromptsAssumption
<1>6. Unannounced(g, ob, l, tc) /\ Prompted(g, ob, l, tc)
  BY <1>1, <1>2 DEF FlowInv, Unannounced, Prompted
<1> QED
  BY <1>3, <1>4, <1>5, <1>6 DEF FlowInv, g

\* A request that changes nothing but the count, for a flow that can be asked nothing.
LEMMA ReadInVain ==
  ASSUME NEW fl, NEW ex \in Nat, NEW w, NEW ob, NEW l \in LoginStates,
         NEW th \in Seq(AuthRequests), NEW tc, NEW x,
         FlowInv(fl, ex, w, ob, l, th, tc), th # <<>>, x = ex \/ (x = ex + 1 /\ th[1].seq = ex),
         l.lost \/ ~Live(fl, w, l, Tail(th))
  PROVE  FlowInv(fl, x, w, ob, l, Tail(th), tc)
<1>1. Counted(x, l, Tail(th))
  BY CountedTail, CountedMore DEF FlowInv
<1>2. Agreed(fl, x, w, l, Tail(th))
  BY DEF Agreed
<1> QED
  BY <1>1, <1>2 DEF FlowInv

\* An answer is kept for the prompt that waits for it, or dropped.
LEMMA FlowAnswered ==
  ASSUME NEW fl \in FlowStates, NEW ex \in Nat, NEW w, NEW ob, NEW l \in LoginStates,
         NEW th \in Seq(AuthRequests), NEW tc, NEW g,
         FlowInv(fl, ex, w, ob, l, th, tc), th # <<>>, fl.held, ~fl.terminal,
         th[1].type = "auth_prompt_response", th[1].seq = ex,
         \/ g = fl
         \/ fl.waiting = th[1].prompt /\ g = [fl EXCEPT !.answer = th[1].answer, !.waiting = 0]
  PROVE  FlowInv(g, ex + 1, w, ob, l, Tail(th), tc)
<1>1. Counted(ex + 1, l, Tail(th))
  BY CountedMore DEF FlowInv
<1>2. Agreed(g, ex + 1, w, l, Tail(th))
  BY AgreedMore DEF FlowInv, Live
<1>3. CASE g = fl
  BY <1>1, <1>2, <1>3 DEF FlowInv
<1>4. CASE fl.waiting = th[1].prompt /\ g = [fl EXCEPT !.answer = th[1].answer, !.waiting = 0]
  <2>1. /\ g.prompts = fl.prompts /\ g.waiting = 0 /\ (g.held <=> fl.held)
        /\ (g.cancelled <=> fl.cancelled) /\ (g.terminal <=> fl.terminal)
    BY <1>4 DEF FlowStates
  <2>2. th[1].prompt >= 1 /\ th[1].prompt \in Nat
    BY TailRequests DEF FlowInv, Counted, AuthRequests
  <2>3. w.pc = "waiting"
    BY <1>4, <2>2 DEF FlowInv, Tight
  <2>4. Tight(g, w, ob) /\ Unannounced(g, ob, l, tc) /\ Prompted(g, ob, l, tc)
    BY <2>1, <2>3 DEF FlowInv, Tight, Unannounced, Prompted, NoThread
  <2> QED
    BY <1>1, <1>2, <2>4 DEF FlowInv
<1> QED
  BY <1>3, <1>4

\* An auth_cancel ends the flow and announces it.
LEMMA FlowCancelled ==
  ASSUME NEW fl \in FlowStates, NEW ex \in Nat, NEW w, NEW ob \in Seq(AuthFrames),
         NEW l \in LoginStates, NEW th \in Seq(AuthRequests), NEW tc,
         FlowInv(fl, ex, w, ob, l, th, tc), th # <<>>, fl.held, th[1].seq = ex
  PROVE  FlowInv([fl EXCEPT !.cancelled = TRUE, !.terminal = TRUE, !.waiting = 0,
                         !.answer = "none"],
                 ex + 1, w, Append(ob, Frame("cancelled", 0)), l, Tail(th), tc)
<1> DEFINE g == [fl EXCEPT !.cancelled = TRUE, !.terminal = TRUE, !.waiting = 0, !.answer = "none"]
           e == Frame("cancelled", 0)
           p == Append(ob, e)
<1>1. /\ g.prompts = fl.prompts /\ g.waiting = 0 /\ g.answer = "none" /\ g.held /\ g.terminal
  BY DEF FlowStates
<1>2. ~NoThread(w)
  BY DEF FlowInv, Tight, Fresh
<1>3. e \in AuthFrames /\ e.type = "cancelled"
  BY DEF Frame, AuthFrames
<1> HIDE DEF g, e
<1>4. NoPrompt(<<e>>) /\ <<e>> \in Seq(AuthFrames)
  BY <1>3 DEF NoPrompt
<1>5. p = ob \o <<e>>
  BY <1>3, AppendJoins
<1>6. Prompted(g, p, l, tc)
  BY <1>1, <1>4, <1>5, JoinedQuiet DEF FlowInv, Prompted
<1> HIDE DEF p
<1>7. Tight(g, w, p) /\ Unannounced(g, p, l, tc)
  BY <1>1, <1>2 DEF FlowInv, Tight, Unannounced
<1>8. Counted(ex + 1, l, Tail(th))
  BY CountedMore DEF FlowInv
<1>9. Agreed(g, ex + 1, w, l, Tail(th))
  BY <1>1, <1>2 DEF Agreed, Live
<1> QED
  BY <1>6, <1>7, <1>8, <1>9 DEF FlowInv, g, e, p

-----------------------------------------------------------------------------
(***************************************************************************)
(* What a login makes of the entries of its flow.                          *)
(***************************************************************************)

\* It leaves the route, with what it holds.
LEMMA RouteLeft ==
  ASSUME NEW fl, NEW ex, NEW w, NEW ob, NEW l, NEW th, NEW tc, FlowInv(fl, ex, w, ob, l, th, tc)
  PROVE  FlowInv(fl, ex, w, ob, l, th, <<>>)
<1>1. Prompted(fl, ob, l, <<>>) /\ Unannounced(fl, ob, l, <<>>)
  BY NothingQueued DEF FlowInv, Prompted, Unannounced
<1> QED
  BY <1>1 DEF FlowInv

\* It goes on without a word; only one that is cut short ends so.
LEMMA LoginGoes ==
  ASSUME NEW fl, NEW ex, NEW w, NEW ob, NEW l, NEW th, NEW tc, NEW m,
         FlowInv(fl, ex, w, ob, l, th, tc),
         m.seq = l.seq, m.asked = l.asked, m.outcome \in {l.outcome, "raised"},
         l.lost => m.lost, m.pc = "ended" => m.lost,
         m.pc \notin {"asking", "refusing"},
         m.pc \in {"idle", "starting"} => l.pc \in {"idle", "starting"}
  PROVE  FlowInv(fl, ex, w, ob, m, th, tc)
<1>1. Unannounced(fl, ob, m, tc)
  BY DEF FlowInv, Unannounced, Result
<1>2. Prompted(fl, ob, m, tc)
  BY DEF FlowInv, Prompted
<1>3. Counted(ex, m, th)
  BY DEF FlowInv, Counted
<1>4. Agreed(fl, ex, w, m, th)
  BY DEF FlowInv, Agreed, Live
<1> QED
  BY <1>1, <1>2, <1>3, <1>4 DEF FlowInv

\* It writes a request, numbered as it counts; an auth_cancel need not be counted.
LEMMA LoginWrites ==
  ASSUME NEW fl, NEW ex \in Nat, NEW w, NEW ob, NEW l \in LoginStates,
         NEW th \in Seq(AuthRequests), NEW tc, NEW m, NEW r \in AuthRequests,
         FlowInv(fl, ex, w, ob, l, th, tc),
         r.seq = l.seq, r.type = "auth_prompt_response" => r.prompt >= 1,
         r.type = "auth_login_start" => l.pc = "starting",
         m.seq \in {l.seq, l.seq + 1}, m.asked = l.asked, m.seq <= m.asked + 2,
         m.outcome \in {l.outcome, "raised"}, l.lost => m.lost,
         m.pc \notin {"idle", "starting", "asking", "refusing"},
         r.type # "auth_cancel" => m.lost \/ (m.seq = l.seq + 1 /\ m.pc # "ended")
  PROVE  FlowInv(fl, ex, w, ob, m, Append(th, r), tc)
<1> DEFINE q == Append(th, r)
<1>1. /\ Len(th) \in Nat /\ Len(q) = Len(th) + 1
      /\ \A i \in 1..Len(th) : i \in 1..Len(q) /\ q[i] = th[i]
      /\ q[Len(th) + 1] = r /\ q # <<>> /\ l.seq \in Nat
      /\ \A i \in 1..Len(q) : i \in 1..Len(th) \/ i = Len(th) + 1
  BY AppendedElements DEF LoginStates
<1>2. th = <<>> => Len(th) = 0
  OBVIOUS
<1>3. th # <<>> => 1 \in 1..Len(th)
  BY TailRequests
<1> HIDE DEF q
<1>4. Unannounced(fl, ob, m, tc) /\ Prompted(fl, ob, m, tc)
  BY DEF FlowInv, Unannounced, Prompted, Result
<1>5. Counted(ex, m, q)
  <2>1. ASSUME NEW i \in 1..Len(q)
        PROVE  q[i].seq <= m.seq /\ (q[i].type = "auth_prompt_response" => q[i].prompt >= 1)
    <3>1. CASE i \in 1..Len(th)
      <4>1. th[i].seq <= l.seq /\ th[i].seq \in Nat /\ q[i] = th[i]
            /\ (th[i].type = "auth_prompt_response" => th[i].prompt >= 1)
        <5>1. th[i] \in AuthRequests
          BY <3>1
        <5> QED
          BY <1>1, <3>1, <5>1 DEF FlowInv, Counted, AuthRequests
      <4> QED
        BY <1>1, <4>1
    <3>2. CASE i = Len(th) + 1
      BY <1>1, <3>2
    <3> QED
      BY <1>1, <3>1, <3>2
  <2>2. 1 <= m.seq /\ m.seq <= m.asked + 2 /\ 1 <= ex /\ ex <= m.seq + 1
    BY <1>1 DEF FlowInv, Counted
  <2> QED
    BY <2>1, <2>2 DEF Counted
<1>6. Agreed(fl, ex, w, m, q)
  <2> SUFFICES ASSUME ~m.lost, Live(fl, w, m, q)
               PROVE  /\ \A i \in 1..Len(q) : NoCancel(q, i - 1) => q[i].seq = ex + i - 1
                      /\ NoCancel(q, Len(q)) => m.pc # "ended" /\ m.seq = ex + Len(q)
    BY DEF Agreed
  <2>1. Live(fl, w, l, th)
    <3>1. th # <<>> => q[1] = th[1]
      BY <1>1, <1>3
    <3>2. th = <<>> => q[1] = r
      BY <1>1, <1>2
    <3> QED
      BY <3>1, <3>2 DEF Live
  <2>2. /\ \A i \in 1..Len(th) : NoCancel(th, i - 1) => th[i].seq = ex + i - 1
        /\ NoCancel(th, Len(th)) => l.pc # "ended" /\ l.seq = ex + Len(th)
    BY <2>1 DEF FlowInv, Agreed
  <2>3. ASSUME NEW n \in 0..Len(th), NoCancel(q, n) PROVE NoCancel(th, n)
    <3> SUFFICES ASSUME NEW i \in 1..n PROVE th[i].type # "auth_cancel"
      BY DEF NoCancel
    <3>1. i \in 1..Len(th) /\ q[i] = th[i]
      BY <1>1
    <3> QED
      BY <2>3, <3>1 DEF NoCancel
  <2>4. ASSUME NEW i \in 1..Len(q), NoCancel(q, i - 1) PROVE q[i].seq = ex + i - 1
    <3>1. CASE i \in 1..Len(th)
      <4>1. i - 1 \in 0..Len(th)
        BY <1>1, <3>1
      <4>2. NoCancel(th, i - 1)
        BY <2>3, <2>4, <4>1
      <4> QED
        BY <1>1, <2>2, <3>1, <4>2
    <3>2. CASE i = Len(th) + 1
      <4>1. i - 1 = Len(th) /\ Len(th) \in 0..Len(th)
        BY <1>1, <3>2
      <4>2. NoCancel(q, Len(th))
        BY <2>4, <4>1
      <4>3. NoCancel(th, Len(th))
        BY <2>3, <4>1, <4>2
      <4> QED
        BY <1>1, <2>2, <3>2, <4>3
    <3> QED
      BY <1>1, <3>1, <3>2
  <2>5. ASSUME NoCancel(q, Len(q)) PROVE m.pc # "ended" /\ m.seq = ex + Len(q)
    <3>1. Len(q) \in 1..Len(q) /\ q[Len(q)] = r /\ Len(th) \in 0..Len(th)
      BY <1>1
    <3>2. r.type # "auth_cancel"
      BY <2>5, <3>1 DEF NoCancel
    <3>3. NoCancel(q, Len(th))
      BY <1>1, <2>5 DEF NoCancel
    <3>4. NoCancel(th, Len(th))
      BY <2>3, <3>1, <3>3
    <3>5. l.seq = ex + Len(th)
      BY <2>2, <3>4
    <3>6. m.seq = l.seq + 1 /\ m.pc # "ended"
      BY <3>2
    <3>7. ex + Len(th) + 1 = ex + Len(q)
      BY <1>1
    <3> QED
      BY <3>5, <3>6, <3>7
  <2> QED
    BY <2>4, <2>5
<1> QED
  BY <1>4, <1>5, <1>6 DEF FlowInv, q

\* It reads a frame that asks nothing and ends nothing.
LEMMA FrameRead ==
  ASSUME NEW fl, NEW ex, NEW w, NEW ob, NEW l, NEW th, NEW tc \in Seq(AuthFrames), tc # <<>>,
         FlowInv(fl, ex, w, ob, l, th, tc)
  PROVE  FlowInv(fl, ex, w, ob, l, th, Tail(tc))
<1>1. Prompted(fl, ob, l, Tail(tc))
  BY ReadPrompts DEF FlowInv, Prompted
<1>2. NoResult(tc) => NoResult(Tail(tc))
  BY HeadOfQueue DEF NoResult
<1> QED
  BY <1>1, <1>2 DEF FlowInv, Unannounced

\* It is shown a prompt.
LEMMA PromptRead ==
  ASSUME NEW fl \in FlowStates, NEW ex, NEW w, NEW ob, NEW l \in LoginStates, NEW th,
         NEW tc \in Seq(AuthFrames), tc # <<>>, FlowInv(fl, ex, w, ob, l, th, tc),
         l.pc = "reading", Head(tc).type = "prompt", NEW pc \in {"asking", "refusing"}
  PROVE  FlowInv(fl, ex, w, ob, [l EXCEPT !.asked = Head(tc).prompt, !.pc = pc], th, Tail(tc))
<1> DEFINE n == Head(tc).prompt
           m == [l EXCEPT !.asked = n, !.pc = pc]
<1>1. Head(tc) \in AuthFrames /\ n \in Nat /\ l.asked \in Nat /\ l.seq \in Nat
  <2>1. Head(tc) \in AuthFrames
    BY HeadOfQueue
  <2>2. n \in Nat
    BY <2>1 DEF AuthFrames
  <2> QED
    BY <2>1, <2>2 DEF LoginStates
<1>2. /\ PromptsRise(Tail(tc)) /\ PromptsBefore(Tail(tc), ob) /\ PromptsIn(Tail(tc), n, fl.prompts)
      /\ PromptsIn(ob, n, fl.prompts) /\ l.asked < n /\ n <= fl.prompts
  BY ReadPrompts DEF FlowInv, Prompted
<1>3. NoResult(tc) => NoResult(Tail(tc))
  BY HeadOfQueue DEF NoResult
<1> HIDE DEF n
<1>4. m.asked = n /\ m.pc = pc /\ m.seq = l.seq /\ m.outcome = l.outcome /\ (m.lost <=> l.lost)
  BY <1>1 DEF LoginStates
<1> HIDE DEF m
<1>5. Prompted(fl, ob, m, Tail(tc))
  BY <1>2, <1>4 DEF FlowInv, Prompted
<1>6. Unannounced(fl, ob, m, Tail(tc))
  BY <1>3, <1>4 DEF FlowInv, Unannounced
<1>7. Counted(ex, m, th)
  BY <1>1, <1>2, <1>4 DEF FlowInv, Counted
<1>8. Agreed(fl, ex, w, m, th)
  BY <1>4 DEF FlowInv, Agreed, Live
<1> QED
  BY <1>5, <1>6, <1>7, <1>8 DEF FlowInv, m, n

\* It reads the result.
LEMMA ResultRead ==
  ASSUME NEW fl, NEW ex, NEW w, NEW ob, NEW l \in LoginStates, NEW th,
         NEW tc \in Seq(AuthFrames), tc # <<>>, FlowInv(fl, ex, w, ob, l, th, tc),
         Head(tc).type \in Result, NEW outcome
  PROVE  FlowInv(fl, ex, w, ob, [l EXCEPT !.pc = "ended", !.outcome = outcome], th, <<>>)
<1> DEFINE m == [l EXCEPT !.pc = "ended", !.outcome = outcome]
<1>1. ~NoResult(tc)
  BY HeadOfQueue DEF NoResult
<1>2. fl.terminal /\ ~NoThread(w)
  BY <1>1 DEF FlowInv, Unannounced, Tight, Fresh
<1>3. m.asked = l.asked /\ m.pc = "ended" /\ m.seq = l.seq
  BY DEF LoginStates
<1> HIDE DEF m
<1>4. Prompted(fl, ob, m, <<>>)
  BY <1>3, NothingQueued DEF FlowInv, Prompted
<1>5. Unannounced(fl, ob, m, <<>>)
  BY <1>2 DEF Unannounced
<1>6. Counted(ex, m, th)
  BY <1>3 DEF FlowInv, Counted
<1>7. Agreed(fl, ex, w, m, th)
  BY <1>2 DEF Agreed, Live
<1> QED
  BY <1>4, <1>5, <1>6, <1>7 DEF FlowInv, m

-----------------------------------------------------------------------------
(***************************************************************************)
(* The steps of the server, the workers and the logins keep the counts.    *)
(***************************************************************************)
FlowTypes(f) ==
  /\ flow[f] \in FlowStates /\ login[f] \in LoginStates /\ expects[f] \in Nat
  /\ outbox[f] \in Seq(AuthFrames) /\ toClient[f] \in Seq(AuthFrames)
  /\ toHost[f] \in Seq(AuthRequests)

LEMMA FlowEntries ==
  ASSUME AuthInv, CountInv, NEW f \in Flows
  PROVE  FlowTypes(f) /\ FlowInvAt(f)
  BY DEF AuthInv, AuthShape, FlowShape, LoginShape, QueueShape, CountInv, FlowTypes

\* The entries of a flow once the table is cleaned.
LEMMA CleanedFlow ==
  ASSUME AuthInv, CountInv, NEW f \in Flows
  PROVE  /\ FlowInv(Cleaned[f], CleanedExpects[f], worker[f], outbox[f], login[f], toHost[f],
                    toClient[f])
         /\ Cleaned[f] \in FlowStates /\ CleanedExpects[f] \in Nat
         /\ Cleaned[f].held <=> Present(f)
         /\ Cleaned[f].terminal <=> flow[f].terminal
         /\ Present(f) => Cleaned[f] = flow[f] /\ CleanedExpects[f] = expects[f]
<1>1. FlowTypes(f) /\ FlowInvAt(f)
  BY FlowEntries
<1>2. CASE Completed(f)
  <2>1. /\ Cleaned[f] = [flow[f] EXCEPT !.held = FALSE] /\ CleanedExpects[f] = 1
        /\ flow[f].held /\ flow[f].terminal /\ ~Present(f)
    BY <1>2 DEF Cleaned, CleanedExpects, Completed, Present
  <2>2. FlowInv([flow[f] EXCEPT !.held = FALSE], 1, worker[f], outbox[f], login[f], toHost[f],
                toClient[f])
    BY <1>1, <2>1, FlowCleaned DEF FlowTypes, FlowInvAt
  <2>3. /\ [flow[f] EXCEPT !.held = FALSE] \in FlowStates
        /\ ~[flow[f] EXCEPT !.held = FALSE].held
        /\ [flow[f] EXCEPT !.held = FALSE].terminal <=> flow[f].terminal
    BY <1>1 DEF FlowTypes, FlowStates
  <2> QED
    BY <2>1, <2>2, <2>3
<1>3. CASE ~Completed(f)
  <2>1. Cleaned[f] = flow[f] /\ CleanedExpects[f] = expects[f] /\ (Present(f) <=> flow[f].held)
    BY <1>3 DEF Cleaned, CleanedExpects, Present
  <2> QED
    BY <1>1, <2>1 DEF FlowTypes, FlowInvAt
<1> QED
  BY <1>2, <1>3

\* A step of one flow, in which others may be removed from the table.
LEMMA OneFlowStep ==
  ASSUME AuthInv, CountInv, NEW f \in Flows, expects' \in [Flows -> Nat],
         FlowInv(flow'[f], expects'[f], worker'[f], outbox'[f], login'[f], toHost'[f],
         toClient'[f]),
         \A g \in Flows \ {f} :
           /\ worker'[g] = worker[g] /\ outbox'[g] = outbox[g] /\ login'[g] = login[g]
           /\ toHost'[g] = toHost[g] /\ toClient'[g] = toClient[g]
           /\ \/ flow'[g] = flow[g] /\ expects'[g] = expects[g]
              \/ flow'[g] = Cleaned[g] /\ expects'[g] = CleanedExpects[g]
  PROVE  CountInv'
<1>1. ASSUME NEW g \in Flows, g # f
      PROVE  FlowInv(flow'[g], expects'[g], worker'[g], outbox'[g], login'[g], toHost'[g],
      toClient'[g])
  <2>1. /\ FlowInv(Cleaned[g], CleanedExpects[g], worker[g], outbox[g], login[g], toHost[g],
                   toClient[g])
        /\ FlowInv(flow[g], expects[g], worker[g], outbox[g], login[g], toHost[g], toClient[g])
    BY CleanedFlow, FlowEntries DEF FlowInvAt
  <2>2. /\ worker'[g] = worker[g] /\ outbox'[g] = outbox[g] /\ login'[g] = login[g]
        /\ toHost'[g] = toHost[g] /\ toClient'[g] = toClient[g]
    BY <1>1
  <2>3. \/ flow'[g] = flow[g] /\ expects'[g] = expects[g]
        \/ flow'[g] = Cleaned[g] /\ expects'[g] = CleanedExpects[g]
    BY <1>1
  <2> QED
    BY <2>1, <2>2, <2>3
<1>2. \A g \in Flows : FlowInvAt(g)'
  BY <1>1 DEF FlowInvAt
<1> QED
  BY <1>2 DEF CountInv

\* A start is read of a flow that has no thread and will not be started again.
LEMMA StartRead ==
  ASSUME AuthInv, CountInv, NEW f \in Flows, toHost[f] # <<>>
  PROVE  /\ toHost[f][1].type = "auth_login_start" => NoThread(worker[f])
         /\ NoThread(worker[f]) => ~Live(Cleaned[f], worker[f], login[f], Tail(toHost[f]))
<1>1. StartedOnce(f) /\ toHost[f] \in Seq(AuthRequests)
  BY DEF AuthInv, Once, AuthShape, QueueShape
<1>2. /\ 1 \in 1..Len(toHost[f])
      /\ \A i \in 1..Len(Tail(toHost[f])) : i + 1 \in 1..Len(toHost[f])
                                            /\ Tail(toHost[f])[i] = toHost[f][i + 1]
  BY <1>1, TailRequests
<1>3. toHost[f][1].type = "auth_login_start" => NoThread(worker[f])
  BY <1>1, <1>2 DEF StartedOnce, NoStart, Unstarted, NoThread
<1>4. ASSUME NoThread(worker[f]) PROVE ~Live(Cleaned[f], worker[f], login[f], Tail(toHost[f]))
  <2>1. ~Cleaned[f].held
    <3>1. Tight(Cleaned[f], worker[f], outbox[f])
      BY CleanedFlow DEF FlowInv
    <3> QED
      BY <1>4, <3>1 DEF Tight, Fresh
  <2>2. login[f].pc \notin {"idle", "starting"}
    BY <1>1 DEF StartedOnce
  <2>3. ASSUME Tail(toHost[f]) # <<>> PROVE Tail(toHost[f])[1].type # "auth_login_start"
    <3>1. 1 \in 1..Len(Tail(toHost[f]))
      BY <1>1, <2>3, HeadOfQueue
    <3>2. 1 + 1 \in 1..Len(toHost[f]) /\ Tail(toHost[f])[1] = toHost[f][1 + 1] /\ 1 + 1 # 1
      BY <1>2, <3>1
    <3> QED
      BY <1>1, <3>2 DEF StartedOnce, StartAtHead
  <2> QED
    BY <2>1, <2>2, <2>3 DEF Live
<1> QED
  BY <1>3, <1>4

\* What a handler leaves of the flow it is called for, and of the others.
Handled(f) ==
  /\ FlowInv(flow'[f], expects'[f], worker'[f], outbox'[f], login[f], Tail(toHost[f]), toClient[f])
  /\ expects' \in [Flows -> Nat] /\ outbox'[f] \in Seq(AuthFrames)
  /\ \A g \in Flows \ {f} :
       /\ worker'[g] = worker[g] /\ outbox'[g] = outbox[g]
       /\ flow'[g] = Cleaned[g] /\ expects'[g] = CleanedExpects[g]

\* A request that only cleans the table, counted or not.
LEMMA ReadQuietly ==
  ASSUME AuthInv, CountInv, NEW f \in Flows, toHost[f] # <<>>,
         flow' = Cleaned, UNCHANGED <<worker, outbox>>,
         \/ expects' = CleanedExpects
         \/ /\ expects' = [CleanedExpects EXCEPT ![f] = CleanedExpects[f] + 1]
            /\ toHost[f][1].seq = CleanedExpects[f],
         login[f].lost \/ ~Live(Cleaned[f], worker[f], login[f], Tail(toHost[f]))
  PROVE  Handled(f)
<1>1. FlowTypes(f) /\ CleanedExpects \in [Flows -> Nat] /\ CleanedExpects[f] \in Nat
  BY FlowEntries, CleanedFlow DEF CleanedExpects, CountInv
<1>2. /\ \/ expects'[f] = CleanedExpects[f]
         \/ expects'[f] = CleanedExpects[f] + 1 /\ toHost[f][1].seq = CleanedExpects[f]
      /\ expects' \in [Flows -> Nat]
      /\ \A g \in Flows \ {f} : expects'[g] = CleanedExpects[g]
  BY <1>1
<1>3. FlowInv(Cleaned[f], expects'[f], worker[f], outbox[f], login[f], Tail(toHost[f]), toClient[f])
  <2>1. FlowInv(Cleaned[f], CleanedExpects[f], worker[f], outbox[f], login[f], toHost[f], toClient[f])
    BY CleanedFlow
  <2>2. login[f] \in LoginStates /\ toHost[f] \in Seq(AuthRequests)
    BY <1>1 DEF FlowTypes
  <2> QED
    BY <1>1, <1>2, <2>1, <2>2, ReadInVain
<1> QED
  BY <1>1, <1>2, <1>3 DEF Handled, FlowTypes

LEMMA LoginRead ==
  ASSUME AuthInv, CountInv, NEW f \in Flows, NEW reply, toHost[f] # <<>>,
         AcceptLogin(f, Head(toHost[f]), reply)
  PROVE  Handled(f)
<1>1. /\ FlowTypes(f) /\ CleanedExpects \in [Flows -> Nat] /\ CleanedExpects[f] \in Nat
      /\ Cleaned \in [Flows -> FlowStates] /\ DOMAIN worker = Flows
  BY FlowEntries, CleanedFlow, CleanedKeeps
  DEF CleanedExpects, CountInv, AuthInv, AuthShape, FlowShape, WorkerShape
<1>2. Head(toHost[f]) = toHost[f][1] /\ toHost[f][1].type = "auth_login_start"
  BY <1>1, HeadOfQueue DEF AcceptLogin, FlowTypes
<1>3. /\ NoThread(worker[f])
      /\ ~Live(Cleaned[f], worker[f], login[f], Tail(toHost[f]))
  BY <1>2, StartRead
<1>4. CASE /\ toHost[f][1].seq = CleanedExpects[f]
           /\ expects' = [CleanedExpects EXCEPT ![f] = CleanedExpects[f] + 1]
           /\ flow' = [Cleaned EXCEPT ![f] = [Fresh EXCEPT !.held = TRUE]]
           /\ worker' = [worker EXCEPT ![f].pc = "begin"] /\ outbox' = outbox
  <2>1. /\ expects' \in [Flows -> Nat] /\ expects'[f] = CleanedExpects[f] + 1
        /\ flow'[f] = [Fresh EXCEPT !.held = TRUE]
        /\ \A g \in Flows \ {f} : /\ worker'[g] = worker[g] /\ flow'[g] = Cleaned[g]
                                 /\ expects'[g] = CleanedExpects[g]
    BY <1>1, <1>4
  <2>2. worker'[f].pc = "begin"
    BY <1>1, <1>4 DEF AuthInv, AuthShape, WorkerShape
  <2>3. FlowInv([Fresh EXCEPT !.held = TRUE], CleanedExpects[f] + 1, worker'[f], outbox[f], login[f],
                Tail(toHost[f]), toClient[f])
    <3>1. FlowInv(Cleaned[f], CleanedExpects[f], worker[f], outbox[f], login[f], toHost[f],
                  toClient[f])
      BY CleanedFlow
    <3> QED
      BY <1>1, <1>2, <1>3, <1>4, <2>2, <3>1, FlowStarted DEF FlowTypes
  <2> QED
    BY <1>1, <1>4, <2>1, <2>3 DEF Handled, FlowTypes
<1>5. CASE /\ flow' = Cleaned /\ UNCHANGED <<worker, outbox>>
           /\ \/ expects' = CleanedExpects
              \/ /\ expects' = [CleanedExpects EXCEPT ![f] = CleanedExpects[f] + 1]
                 /\ toHost[f][1].seq = CleanedExpects[f]
  BY <1>3, <1>5, ReadQuietly
<1> QED
  BY <1>2, <1>4, <1>5 DEF AcceptLogin

LEMMA LateRead ==
  ASSUME AuthInv, CountInv, NEW f \in Flows, NEW reply, toHost[f] # <<>>,
         AcceptLate(f, Head(toHost[f]), reply) \/ RefuseSequence(f, Head(toHost[f]), reply)
  PROVE  Handled(f)
<1>1. /\ FlowTypes(f) /\ Head(toHost[f]) = toHost[f][1] /\ 1 \in 1..Len(toHost[f])
      /\ FlowInv(Cleaned[f], CleanedExpects[f], worker[f], outbox[f], login[f], toHost[f],
                 toClient[f])
      /\ (Cleaned[f].held <=> Present(f)) /\ (Cleaned[f].terminal <=> flow[f].terminal)
      /\ CleanedExpects[f] \in Nat
  BY FlowEntries, CleanedFlow, HeadOfQueue DEF FlowTypes
<1>2. flow' = Cleaned /\ expects' = CleanedExpects /\ UNCHANGED <<worker, outbox>>
  BY DEF AcceptLate, RefuseSequence
<1>3. ASSUME ~NoThread(worker[f]), Live(Cleaned[f], worker[f], login[f], Tail(toHost[f]))
      PROVE  login[f].lost
  <2>1. Present(f) /\ ~flow[f].terminal /\ Live(Cleaned[f], worker[f], login[f], toHost[f])
    BY <1>1, <1>3 DEF Live
  <2>2. Present(f) => Tight(flow[f], worker[f], outbox[f]) /\ CleanedExpects[f] = expects[f]
    BY CleanedFlow DEF FlowInv
  <2>3. ~Silenced(f)
    BY <2>1, <2>2 DEF Silenced, Tight
  <2>4. toHost[f][1].seq # CleanedExpects[f]
    BY <1>1, <2>1, <2>2, <2>3 DEF AcceptLate, RefuseSequence
  <2>5. NoCancel(toHost[f], 1 - 1) /\ CleanedExpects[f] + 1 - 1 = CleanedExpects[f]
    BY <1>1 DEF NoCancel
  <2> QED
    BY <1>1, <2>1, <2>4, <2>5 DEF FlowInv, Agreed
<1>4. login[f].lost \/ ~Live(Cleaned[f], worker[f], login[f], Tail(toHost[f]))
  BY <1>3, StartRead
<1> QED
  BY <1>2, <1>4, ReadQuietly

LEMMA AnswerRead ==
  ASSUME AuthInv, CountInv, NEW f \in Flows, NEW reply, toHost[f] # <<>>,
         AcceptAnswer(f, Head(toHost[f]), reply)
  PROVE  Handled(f)
<1> DEFINE g == [flow[f] EXCEPT !.answer = toHost[f][1].answer, !.waiting = 0]
<1>1. /\ FlowTypes(f) /\ CleanedExpects \in [Flows -> Nat] /\ CleanedExpects[f] = expects[f]
      /\ Cleaned \in [Flows -> FlowStates] /\ Cleaned[f] = flow[f] /\ Present(f)
  BY FlowEntries, CleanedFlow, CleanedKeeps
  DEF CleanedExpects, CountInv, AuthInv, AuthShape, FlowShape, AcceptAnswer, InSequence
<1>2. /\ Head(toHost[f]) = toHost[f][1] /\ toHost[f][1].type = "auth_prompt_response"
      /\ toHost[f][1].seq = expects[f] /\ flow[f].held /\ ~flow[f].terminal
  BY <1>1, HeadOfQueue DEF AcceptAnswer, InSequence, FlowTypes, Present, Silenced
<1>3. /\ expects' = [CleanedExpects EXCEPT ![f] = CleanedExpects[f] + 1]
      /\ UNCHANGED <<worker, outbox>>
      /\ \/ flow' = Cleaned
         \/ /\ flow[f].waiting = toHost[f][1].prompt
            /\ flow' = [Cleaned EXCEPT ![f].answer = toHost[f][1].answer, ![f].waiting = 0]
  BY <1>2 DEF AcceptAnswer
<1>4. /\ \/ flow'[f] = flow[f]
         \/ flow[f].waiting = toHost[f][1].prompt /\ flow'[f] = g
      /\ \A h \in Flows \ {f} : flow'[h] = Cleaned[h]
  BY <1>1, <1>3
<1>5. /\ expects' \in [Flows -> Nat] /\ expects'[f] = expects[f] + 1
      /\ \A h \in Flows \ {f} : expects'[h] = CleanedExpects[h]
  BY <1>1, <1>3
<1>6. FlowInv(flow'[f], expects[f] + 1, worker[f], outbox[f], login[f], Tail(toHost[f]), toClient[f])
  <2>1. FlowInv(flow[f], expects[f], worker[f], outbox[f], login[f], toHost[f], toClient[f])
    BY FlowEntries DEF FlowInvAt
  <2>2. /\ flow[f] \in FlowStates /\ expects[f] \in Nat /\ login[f] \in LoginStates
        /\ toHost[f] \in Seq(AuthRequests)
    BY <1>1 DEF FlowTypes
  <2> QED
    BY <1>2, <1>4, <2>1, <2>2, FlowAnswered
<1> QED
  BY <1>1, <1>3, <1>4, <1>5, <1>6 DEF Handled, FlowTypes

LEMMA CancelRead ==
  ASSUME AuthInv, CountInv, NEW f \in Flows, NEW reply, toHost[f] # <<>>,
         AcceptCancel(f, Head(toHost[f]), reply)
  PROVE  Handled(f)
<1> DEFINE g == [flow[f] EXCEPT !.cancelled = TRUE, !.terminal = TRUE, !.waiting = 0, !.answer = "none"]
           e == Frame("cancelled", 0)
<1>1. /\ FlowTypes(f) /\ CleanedExpects \in [Flows -> Nat] /\ CleanedExpects[f] = expects[f]
      /\ Cleaned \in [Flows -> FlowStates] /\ Cleaned[f] = flow[f] /\ Present(f)
  BY FlowEntries, CleanedFlow, CleanedKeeps
  DEF CleanedExpects, CountInv, AuthInv, AuthShape, FlowShape, AcceptCancel, InSequence
<1>2. Head(toHost[f]) = toHost[f][1] /\ toHost[f][1].seq = expects[f] /\ flow[f].held
  BY <1>1, HeadOfQueue DEF AcceptCancel, InSequence, FlowTypes, Present
<1>3. /\ expects' = [CleanedExpects EXCEPT ![f] = CleanedExpects[f] + 1]
      /\ worker' = worker /\ outbox' = [outbox EXCEPT ![f] = Append(outbox[f], e)]
      /\ flow' = [Cleaned EXCEPT ![f].cancelled = TRUE, ![f].terminal = TRUE,
                                 ![f].waiting = 0, ![f].answer = "none"]
  BY DEF AcceptCancel, Put
<1>4. flow'[f] = g /\ \A h \in Flows \ {f} : flow'[h] = Cleaned[h]
  BY <1>1, <1>3
<1>5. /\ expects' \in [Flows -> Nat] /\ expects'[f] = expects[f] + 1
      /\ \A h \in Flows \ {f} : expects'[h] = CleanedExpects[h]
  BY <1>1, <1>3
<1>6. e \in AuthFrames
  BY DEF Frame, AuthFrames
<1>7. /\ outbox'[f] = Append(outbox[f], e) /\ outbox'[f] \in Seq(AuthFrames)
      /\ \A h \in Flows \ {f} : outbox'[h] = outbox[h]
  <2>1. outbox \in [Flows -> Seq(AuthFrames)]
    BY DEF AuthInv, AuthShape, QueueShape
  <2> HIDE DEF e
  <2> QED
    BY <1>3, <1>6, <2>1
<1>8. FlowInv(g, expects[f] + 1, worker[f], Append(outbox[f], e), login[f], Tail(toHost[f]), toClient[f])
  <2>1. FlowInv(flow[f], expects[f], worker[f], outbox[f], login[f], toHost[f], toClient[f])
    BY FlowEntries DEF FlowInvAt
  <2>2. /\ flow[f] \in FlowStates /\ expects[f] \in Nat /\ login[f] \in LoginStates
        /\ toHost[f] \in Seq(AuthRequests) /\ outbox[f] \in Seq(AuthFrames)
    BY <1>1 DEF FlowTypes
  <2> QED
    BY <1>2, <2>1, <2>2, FlowCancelled
<1> QED
  BY <1>3, <1>4, <1>5, <1>7, <1>8 DEF Handled

\* What the host writes is delivered to a login that reads.
LEMMA DeliveredHow ==
  ASSUME AuthInv, NEW f \in Flows, NEW type, NEW n, toClient' = Delivered(f, type, n)
  PROVE  /\ toClient'[f] \in {toClient[f], Append(toClient[f], Frame(type, n))}
         /\ \A g \in Flows \ {f} : toClient'[g] = toClient[g]
<1> DEFINE e == Frame(type, n)
<1>1. toClient \in [Flows -> Seq(AuthFrames)]
  BY DEF AuthInv, AuthShape, QueueShape
<1>2. toClient' = toClient \/ toClient' = [toClient EXCEPT ![f] = Append(toClient[f], e)]
  BY DEF Delivered
<1> HIDE DEF e
<1>3. /\ toClient'[f] \in {toClient[f], Append(toClient[f], e)}
      /\ \A g \in Flows \ {f} : toClient'[g] = toClient[g]
  BY <1>1, <1>2
<1> QED
  BY <1>3 DEF e

LEMMA AuthReadsCounted ==
  ASSUME AuthInv, CountInv, NEW f \in Flows, AuthReads(f)
  PROVE  CountInv'
<1>1. PICK reply \in {"ack", "nack"} :
        Accept(f, Head(toHost[f]), reply) /\ toClient' = Delivered(f, reply, 0)
  BY DEF AuthReads
<1>2. toHost[f] # <<>> /\ toHost' = [toHost EXCEPT ![f] = Tail(toHost[f])] /\ login' = login
  BY DEF AuthReads, clientVars
<1>3. Handled(f)
  BY <1>1, <1>2, LoginRead, LateRead, AnswerRead, CancelRead DEF Accept
<1>4. toHost'[f] = Tail(toHost[f]) /\ \A g \in Flows \ {f} : toHost'[g] = toHost[g]
  BY <1>2 DEF AuthInv, AuthShape, QueueShape
<1>5. /\ toClient'[f] \in {toClient[f], Append(toClient[f], Frame(reply, 0))}
      /\ \A g \in Flows \ {f} : toClient'[g] = toClient[g]
  BY <1>1, DeliveredHow
<1>6. FlowInv(flow'[f], expects'[f], worker'[f], outbox'[f], login'[f], toHost'[f], toClient'[f])
  <2>1. toClient[f] \in Seq(AuthFrames) /\ outbox'[f] \in Seq(AuthFrames)
    BY <1>3, FlowEntries DEF Handled, FlowTypes
  <2>2. FlowInv(flow'[f], expects'[f], worker'[f], outbox'[f], login'[f], toHost'[f], toClient[f])
    BY <1>2, <1>3, <1>4 DEF Handled
  <2> QED
    BY <1>5, <2>1, <2>2, FrameReplied
<1> QED
  BY <1>2, <1>3, <1>4, <1>5, <1>6, OneFlowStep DEF Handled

LEMMA AuthPopsCounted ==
  ASSUME AuthInv, CountInv, NEW f \in Flows, AuthPops(f)
  PROVE  CountInv'
<1> DEFINE m == Head(outbox[f])
<1>1. /\ outbox[f] # <<>> /\ outbox' = [outbox EXCEPT ![f] = Tail(outbox[f])]
      /\ flow' = Cleaned /\ expects' = CleanedExpects /\ UNCHANGED <<worker, login, toHost>>
      /\ toClient' = Delivered(f, m.type, m.prompt)
  BY DEF AuthPops, Pop, clientVars
<1>2. FlowTypes(f) /\ m \in AuthFrames
  BY <1>1, FlowEntries, HeadOfQueue DEF FlowTypes
<1>3. Frame(m.type, m.prompt) = m
  <2> HIDE DEF m
  <2> QED
    BY <1>2 DEF Frame, AuthFrames
<1>4. /\ toClient'[f] \in {toClient[f], Append(toClient[f], m)}
      /\ \A g \in Flows \ {f} : toClient'[g] = toClient[g]
  BY <1>1, <1>3, DeliveredHow
<1>5. outbox'[f] = Tail(outbox[f]) /\ \A g \in Flows \ {f} : outbox'[g] = outbox[g]
  BY <1>1 DEF AuthInv, AuthShape, QueueShape
<1>6. FlowInv(flow'[f], expects'[f], worker'[f], outbox'[f], login'[f], toHost'[f], toClient'[f])
  <2>1. FlowInv(Cleaned[f], CleanedExpects[f], worker[f], outbox[f], login[f], toHost[f], toClient[f])
    BY CleanedFlow
  <2>2. outbox[f] \in Seq(AuthFrames) /\ toClient[f] \in Seq(AuthFrames)
    BY <1>2 DEF FlowTypes
  <2>3. /\ FlowInv(Cleaned[f], CleanedExpects[f], worker[f], Tail(outbox[f]), login[f], toHost[f],
                   toClient[f])
        /\ FlowInv(Cleaned[f], CleanedExpects[f], worker[f], Tail(outbox[f]), login[f], toHost[f],
                   Append(toClient[f], m))
    BY <1>1, <2>1, <2>2, FramePopped
  <2> QED
    BY <1>1, <1>4, <1>5, <2>3
<1>7. expects' \in [Flows -> Nat]
  BY <1>1, CleanedFlow DEF CleanedExpects, CountInv
<1> QED
  BY <1>1, <1>4, <1>5, <1>6, <1>7, OneFlowStep

\* A list of providers is asked for, which cleans the table, or read.
LEMMA ListingCounted ==
  ASSUME AuthInv, CountInv, ListBegins \/ ListAnswered \/ ListRaises
  PROVE  CountInv'
<1>1. /\ UNCHANGED <<worker, outbox, login, toHost, toClient>>
      /\ \/ flow' = flow /\ expects' = expects
         \/ flow' = Cleaned /\ expects' = CleanedExpects
  BY DEF ListBegins, ListAnswered, ListRaises, serverVars, wireVars
<1>2. CleanedExpects \in [Flows -> Nat]
  BY CleanedFlow DEF CleanedExpects, CountInv
<1>3. ASSUME NEW g \in Flows PROVE FlowInvAt(g)'
  <2>1. /\ FlowInv(Cleaned[g], CleanedExpects[g], worker[g], outbox[g], login[g], toHost[g],
                   toClient[g])
        /\ FlowInv(flow[g], expects[g], worker[g], outbox[g], login[g], toHost[g], toClient[g])
    BY CleanedFlow, FlowEntries DEF FlowInvAt
  <2> QED
    BY <1>1, <2>1 DEF FlowInvAt
<1> QED
  BY <1>1, <1>2, <1>3 DEF CountInv

-----------------------------------------------------------------------------
(***************************************************************************)
(* The workers.                                                            *)
(***************************************************************************)

\* A step of the worker of f: only its own entries change.
LEMMA OneWorkerStep ==
  ASSUME AuthInv, CountInv, NEW f \in Flows, NEW g, NEW p,
         flow' = [flow EXCEPT ![f] = g], outbox' = [outbox EXCEPT ![f] = p],
         \A h \in Flows \ {f} : worker'[h] = worker[h],
         UNCHANGED <<expects, login, toHost, toClient>>,
         FlowInv(g, expects[f], worker'[f], p, login[f], toHost[f], toClient[f])
  PROVE  CountInv'
<1>1. /\ flow'[f] = g /\ outbox'[f] = p
      /\ \A h \in Flows \ {f} : flow'[h] = flow[h] /\ outbox'[h] = outbox[h]
  BY DEF AuthInv, AuthShape, FlowShape, QueueShape
<1>2. expects' \in [Flows -> Nat]
  BY DEF CountInv
<1> QED
  BY <1>1, <1>2, OneFlowStep

\* Goto and Conclude.
LEMMA WorkerEntry ==
  ASSUME WorkerShape, NEW f \in Flows, NEW pc, NEW result
  PROVE  /\ Goto(f, pc) => worker'[f].pc = pc
         /\ Conclude(f, result) => worker'[f].pc = "conclude"
         /\ Goto(f, pc) \/ Conclude(f, result) => \A h \in Flows \ {f} : worker'[h] = worker[h]
  BY DEF WorkerShape, Goto, Conclude

\* The worker goes on and changes the flow no more than to say that it is over.
LEMMA QuietWorkerCounted ==
  ASSUME AuthInv, CountInv, NEW f \in Flows, NEW g,
         flow' = [flow EXCEPT ![f] = g], UNCHANGED <<expects, outbox, login, toHost, toClient>>,
         \A h \in Flows \ {f} : worker'[h] = worker[h],
         worker[f].pc \notin {"none", "waiting"}, worker'[f].pc # "none",
         g.prompts = flow[f].prompts, g.waiting = flow[f].waiting, g.answer = flow[f].answer,
         g.held <=> flow[f].held, g.cancelled <=> flow[f].cancelled,
         flow[f].terminal => g.terminal
  PROVE  CountInv'
<1>1. FlowInv(flow[f], expects[f], worker[f], outbox[f], login[f], toHost[f], toClient[f])
  BY FlowEntries DEF FlowInvAt
<1>2. FlowInv(g, expects[f], worker'[f], outbox[f], login[f], toHost[f], toClient[f])
  BY <1>1, WorkerGoes DEF NoThread
<1>3. outbox' = [outbox EXCEPT ![f] = outbox[f]]
  BY DEF AuthInv, AuthShape, QueueShape
<1> QED
  BY <1>2, <1>3, OneWorkerStep

\* A worker that says what is no prompt, and no result unless the flow is over.
LEMMA SpeakingWorkerCounted ==
  ASSUME AuthInv, CountInv, NEW f \in Flows, NEW r \in Seq(AuthFrames),
         NoPrompt(r), flow[f].terminal \/ NoResult(r),
         outbox' = [outbox EXCEPT ![f] = outbox[f] \o r],
         UNCHANGED <<flow, expects, login, toHost, toClient>>,
         \A h \in Flows \ {f} : worker'[h] = worker[h],
         worker[f].pc \notin {"none", "waiting"}, worker'[f].pc # "none"
  PROVE  CountInv'
<1>1. /\ FlowInv(flow[f], expects[f], worker[f], outbox[f], login[f], toHost[f], toClient[f])
      /\ outbox[f] \in Seq(AuthFrames)
  BY FlowEntries DEF FlowInvAt, FlowTypes
<1>2. FlowInv(flow[f], expects[f], worker[f], outbox[f] \o r, login[f], toHost[f], toClient[f])
  BY <1>1, WorkerSays DEF NoThread
<1>3. FlowInv(flow[f], expects[f], worker'[f], outbox[f] \o r, login[f], toHost[f], toClient[f])
  BY <1>2, WorkerGoes DEF NoThread
<1>4. flow' = [flow EXCEPT ![f] = flow[f]]
  BY DEF AuthInv, AuthShape, FlowShape
<1> QED
  BY <1>3, <1>4, OneWorkerStep

LEMMA BeginCounted ==
  ASSUME AuthInv, CountInv, NEW f \in Flows, Begin(f), UNCHANGED <<login, toHost, toClient>>
  PROVE  CountInv'
<1> DEFINE e == Frame("event", 0)
<1>1. /\ UNCHANGED <<flow, expects>> /\ worker[f].pc = "begin" /\ worker'[f].pc = "login"
      /\ \A h \in Flows \ {f} : worker'[h] = worker[h]
      /\ outbox' = outbox \/ outbox' = [outbox EXCEPT ![f] = Append(outbox[f], e)]
  BY WorkerEntry DEF Begin, WorkerAt, Put, AuthInv, AuthShape
<1>2. e \in AuthFrames /\ e.type = "event"
  BY DEF Frame, AuthFrames
<1> HIDE DEF e
<1>3. NoPrompt(<<e>>) /\ NoResult(<<e>>) /\ <<e>> \in Seq(AuthFrames)
  BY <1>2 DEF NoPrompt, NoResult, Result
<1>4. Append(outbox[f], e) = outbox[f] \o <<e>>
  BY <1>2, AppendJoins, FlowEntries DEF FlowTypes
<1>5. CASE outbox' = outbox
  <2>1. flow' = [flow EXCEPT ![f] = flow[f]]
    BY <1>1 DEF AuthInv, AuthShape, FlowShape
  <2> QED
    BY <1>1, <1>5, <2>1, QuietWorkerCounted
<1>6. CASE outbox' = [outbox EXCEPT ![f] = outbox[f] \o <<e>>]
  BY <1>1, <1>3, <1>6, SpeakingWorkerCounted
<1> QED
  BY <1>1, <1>4, <1>5, <1>6

LEMMA AskCounted ==
  ASSUME AuthInv, CountInv, NEW f \in Flows, Ask(f), UNCHANGED <<login, toHost, toClient>>
  PROVE  CountInv'
<1> DEFINE n == flow[f].prompts + 1
           g == [flow[f] EXCEPT !.prompts = n, !.waiting = n]
           p == Append(outbox[f], Frame("prompt", n))
<1>1. /\ FlowTypes(f) /\ expects' = expects /\ worker[f].pc \in {"login", "again"}
      /\ FlowInv(flow[f], expects[f], worker[f], outbox[f], login[f], toHost[f], toClient[f])
      /\ WorkerShape /\ flow \in [Flows -> FlowStates]
  BY FlowEntries DEF Ask, WorkerAt, FlowInvAt, AuthInv, AuthShape, FlowShape
<1>2. CASE /\ ~Silenced(f) /\ flow[f].prompts < MaxPrompts
           /\ flow' = [flow EXCEPT ![f].prompts = n, ![f].waiting = n]
           /\ Put(f, "prompt", n) /\ Goto(f, "waiting")
  <2>1. flow' = [flow EXCEPT ![f] = g]
    BY <1>1, <1>2
  <2>2. worker'[f].pc = "waiting" /\ \A h \in Flows \ {f} : worker'[h] = worker[h]
    BY <1>1, <1>2, WorkerEntry
  <2>3. outbox' = [outbox EXCEPT ![f] = p] /\ ~flow[f].terminal
    BY <1>2 DEF Put, Silenced
  <2>4. FlowInv(g, expects[f], worker'[f], p, login[f], toHost[f], toClient[f])
    BY <1>1, <1>2, <2>2, <2>3, WorkerAsks DEF FlowTypes
  <2> HIDE DEF g, p, n
  <2> QED
    BY <1>1, <2>1, <2>2, <2>3, <2>4, OneWorkerStep
<1>3. CASE Conclude(f, "cancelled") /\ UNCHANGED <<flow, outbox>>
  <2>1. flow' = [flow EXCEPT ![f] = flow[f]]
    BY <1>1, <1>3
  <2>2. worker'[f].pc = "conclude" /\ \A h \in Flows \ {f} : worker'[h] = worker[h]
    BY <1>1, <1>3, WorkerEntry
  <2> QED
    BY <1>1, <1>3, <2>1, <2>2, QuietWorkerCounted
<1> QED
  BY <1>2, <1>3 DEF Ask

LEMMA WakeCounted ==
  ASSUME AuthInv, CountInv, NEW f \in Flows, Wake(f), UNCHANGED <<login, toHost, toClient>>
  PROVE  CountInv'
<1> DEFINE a == [flow[f] EXCEPT !.answer = "none", !.waiting = 0]
           b == [flow[f] EXCEPT !.answer = "none"]
<1>1. /\ UNCHANGED <<expects, outbox>> /\ worker[f].pc = "waiting"
      /\ FlowInv(flow[f], expects[f], worker[f], outbox[f], login[f], toHost[f], toClient[f])
      /\ WorkerShape /\ flow \in [Flows -> FlowStates] /\ flow[f] \in FlowStates
  BY FlowEntries DEF Wake, WorkerAt, FlowInvAt, AuthInv, AuthShape, FlowShape
<1>2. \/ flow' = [flow EXCEPT ![f] = a]
      \/ flow' = [flow EXCEPT ![f] = b] /\ flow[f].answer # "none"
  BY <1>1 DEF Wake
<1>3. /\ worker'[f].pc \in {"conclude", "login", "again"}
      /\ \A h \in Flows \ {f} : worker'[h] = worker[h]
  BY <1>1, WorkerEntry DEF Wake
<1>4. ASSUME NEW g, flow' = [flow EXCEPT ![f] = g],
             g.prompts = flow[f].prompts, g.answer = "none", g.waiting = 0,
             g.held <=> flow[f].held, g.cancelled <=> flow[f].cancelled,
             g.terminal <=> flow[f].terminal
      PROVE  CountInv'
  <2>1. FlowInv(g, expects[f], worker'[f], outbox[f], login[f], toHost[f], toClient[f])
    BY <1>1, <1>3, <1>4, WorkerWakes DEF NoThread
  <2>2. outbox' = [outbox EXCEPT ![f] = outbox[f]]
    BY <1>1 DEF AuthInv, AuthShape, QueueShape
  <2> QED
    BY <1>1, <1>3, <1>4, <2>1, <2>2, OneWorkerStep
<1>5. /\ a.prompts = flow[f].prompts /\ a.answer = "none" /\ a.waiting = 0
      /\ (a.held <=> flow[f].held) /\ (a.cancelled <=> flow[f].cancelled)
      /\ (a.terminal <=> flow[f].terminal)
      /\ b.prompts = flow[f].prompts /\ b.answer = "none" /\ b.waiting = flow[f].waiting
      /\ (b.held <=> flow[f].held) /\ (b.cancelled <=> flow[f].cancelled)
      /\ (b.terminal <=> flow[f].terminal)
  BY <1>1 DEF FlowStates
<1>6. flow[f].answer # "none" => flow[f].waiting = 0
  BY <1>1 DEF FlowInv, Tight
<1> HIDE DEF a, b
<1>7. CASE flow' = [flow EXCEPT ![f] = a]
  BY <1>4, <1>5, <1>7
<1>8. CASE flow' = [flow EXCEPT ![f] = b] /\ flow[f].answer # "none"
  BY <1>4, <1>5, <1>6, <1>8
<1> QED
  BY <1>2, <1>7, <1>8

LEMMA LaterWorkerCounted ==
  ASSUME AuthInv, CountInv, NEW f \in Flows, UNCHANGED <<login, toHost, toClient>>,
         Obtain(f) \/ Check(f) \/ Save(f) \/ BeginTerminal(f) \/ Exit(f)
  PROVE  CountInv'
<1>1. /\ UNCHANGED <<expects, outbox>> /\ worker[f].pc \notin {"none", "waiting"}
  BY DEF Obtain, Check, Save, BeginTerminal, Exit, WorkerAt
<1>2. WorkerShape /\ flow \in [Flows -> FlowStates] /\ flow[f] \in FlowStates
  BY DEF AuthInv, AuthShape, FlowShape
<1>3. /\ worker'[f].pc # "none" /\ \A h \in Flows \ {f} : worker'[h] = worker[h]
  BY <1>2, WorkerEntry DEF Obtain, Check, Save, BeginTerminal, Exit
<1>4. flow' \in {[flow EXCEPT ![f] = flow[f]], [flow EXCEPT ![f] = [flow[f] EXCEPT !.terminal = TRUE]],
                 [flow EXCEPT ![f] = [flow[f] EXCEPT !.done = TRUE]]}
  BY <1>2 DEF Obtain, Check, Save, BeginTerminal, Exit
<1>5. PICK g \in {flow[f], [flow[f] EXCEPT !.terminal = TRUE], [flow[f] EXCEPT !.done = TRUE]} :
        flow' = [flow EXCEPT ![f] = g]
  BY <1>4
<1>6. /\ g.prompts = flow[f].prompts /\ g.waiting = flow[f].waiting /\ g.answer = flow[f].answer
      /\ (g.held <=> flow[f].held) /\ (g.cancelled <=> flow[f].cancelled)
      /\ flow[f].terminal => g.terminal
  BY <1>2, <1>5 DEF FlowStates
<1> QED
  BY <1>1, <1>3, <1>5, <1>6, QuietWorkerCounted

LEMMA AnnounceCounted ==
  ASSUME AuthInv, CountInv, NEW f \in Flows, Announce(f), UNCHANGED <<login, toHost, toClient>>
  PROVE  CountInv'
<1> DEFINE r == Announced(worker[f].result)
<1>1. outbox' = [outbox EXCEPT ![f] = outbox[f] \o r] /\ r \in Seq(AuthFrames)
  BY AnnouncedFrames DEF Announce, Announced
<1>2. NoPrompt(r)
  <2>1. \A type \in {"event", "success", "error", "failed", "cancelled"} :
          Frame(type, 0).type # "prompt"
    BY DEF Frame
  <2> QED
    BY <2>1 DEF NoPrompt, Announced
<1> HIDE DEF r
<1>3. /\ UNCHANGED <<flow, expects>> /\ worker[f].pc = "announce" /\ worker'[f].pc = "over"
      /\ \A h \in Flows \ {f} : worker'[h] = worker[h]
  BY WorkerEntry DEF Announce, WorkerAt, AuthInv, AuthShape
<1>4. flow[f].terminal
  BY <1>3 DEF AuthInv, Once, AnnouncedOnce
<1> QED
  BY <1>1, <1>2, <1>3, <1>4, SpeakingWorkerCounted

LEMMA AuthWorksCounted ==
  ASSUME AuthInv, CountInv, NEW f \in Flows, AuthWorks(f)
  PROVE  CountInv'
<1>1. UNCHANGED <<login, toHost, toClient>> /\ WorkerStep(f)
  BY DEF AuthWorks, clientVars, wireVars
<1> QED
  BY <1>1, BeginCounted, AskCounted, WakeCounted, LaterWorkerCounted, AnnounceCounted
     DEF WorkerStep

-----------------------------------------------------------------------------
(***************************************************************************)
(* The logins.                                                             *)
(***************************************************************************)

\* A step of the login of f: the server's entries stay.
LEMMA OneLoginCounted ==
  ASSUME AuthInv, CountInv, NEW f \in Flows, Only(f), NEW m, NEW q, NEW p,
         login' = [login EXCEPT ![f] = m], toHost' = [toHost EXCEPT ![f] = q],
         toClient' = [toClient EXCEPT ![f] = p],
         FlowInv(flow[f], expects[f], worker[f], outbox[f], m, q, p)
  PROVE  CountInv'
<1>1. /\ login'[f] = m /\ toHost'[f] = q /\ toClient'[f] = p
      /\ \A g \in Flows \ {f} : /\ login'[g] = login[g] /\ toHost'[g] = toHost[g]
                               /\ toClient'[g] = toClient[g]
  BY DEF AuthInv, AuthShape, LoginShape, QueueShape
<1>2. UNCHANGED <<flow, expects, worker, outbox>> /\ expects' \in [Flows -> Nat]
  BY DEF Only, serverVars, CountInv
<1> QED
  BY <1>1, <1>2, OneFlowStep

\* The entries of a login, and the tables with one of them kept.
LEMMA LoginEntries ==
  ASSUME AuthInv, CountInv, NEW f \in Flows
  PROVE  /\ FlowInv(flow[f], expects[f], worker[f], outbox[f], login[f], toHost[f], toClient[f])
         /\ flow[f] \in FlowStates /\ login[f] \in LoginStates /\ expects[f] \in Nat
         /\ toClient[f] \in Seq(AuthFrames) /\ toHost[f] \in Seq(AuthRequests)
         /\ [toHost EXCEPT ![f] = toHost[f]] = toHost
         /\ [toClient EXCEPT ![f] = toClient[f]] = toClient
         /\ [login EXCEPT ![f] = login[f]] = login
         /\ \A place : [login EXCEPT ![f].pc = place] = [login EXCEPT ![f] = [login[f] EXCEPT !.pc = place]]
<1>1. FlowTypes(f) /\ FlowInvAt(f)
  BY FlowEntries
<1>2. /\ toHost \in [Flows -> Seq(AuthRequests)] /\ toClient \in [Flows -> Seq(AuthFrames)]
      /\ login \in [Flows -> LoginStates]
  BY DEF AuthInv, AuthShape, QueueShape, LoginShape
<1> QED
  BY <1>1, <1>2 DEF FlowTypes, FlowInvAt

\* A request is written, in its number.
LEMMA WrittenCounted ==
  ASSUME AuthInv, CountInv, NEW f \in Flows, Only(f), NEW answer \in Answers, NEW m,
         NEW type \in {"auth_login_start", "auth_prompt_response", "auth_cancel"},
         Write(f, type, answer), login' = [login EXCEPT ![f] = m],
         toClient' \in {toClient, [toClient EXCEPT ![f] = <<>>]},
         type = "auth_prompt_response" => login[f].pc = "asking",
         type = "auth_login_start" => login[f].pc = "starting",
         m.seq = login[f].seq \/ (m.seq = login[f].seq + 1 /\ login[f].pc \in {"starting", "asking", "refusing"}),
         m.asked = login[f].asked,
         m.outcome \in {login[f].outcome, "raised"}, login[f].lost => m.lost,
         m.pc \notin {"idle", "starting", "asking", "refusing"},
         type # "auth_cancel" => m.lost \/ (m.seq = login[f].seq + 1 /\ m.pc # "ended")
  PROVE  CountInv'
<1> DEFINE r == Request(f, type, answer)
           q == Append(toHost[f], r)
<1>1. /\ FlowInv(flow[f], expects[f], worker[f], outbox[f], login[f], toHost[f], toClient[f])
      /\ login[f] \in LoginStates /\ expects[f] \in Nat /\ toHost[f] \in Seq(AuthRequests)
      /\ [toClient EXCEPT ![f] = toClient[f]] = toClient
  BY LoginEntries
<1>2. r \in AuthRequests /\ r.seq = login[f].seq /\ r.prompt = login[f].asked /\ r.type = type
  BY <1>1 DEF Request, AuthRequests, LoginStates
<1>3. toHost' = [toHost EXCEPT ![f] = q]
  BY DEF Write
<1> HIDE DEF r
<1>4. /\ login[f].seq \in Nat /\ login[f].asked \in Nat
      /\ login[f].seq <= login[f].asked + 2
      /\ login[f].pc = "starting" => login[f].seq = 1
      /\ login[f].pc \in {"asking", "refusing"} => login[f].seq <= login[f].asked + 1
      /\ login[f].pc = "asking" => login[f].asked >= 1
  BY <1>1 DEF FlowInv, Counted, LoginStates
<1>5. m.seq \in {login[f].seq, login[f].seq + 1} /\ m.seq <= m.asked + 2
  BY <1>4
<1>6. r.type = "auth_prompt_response" => r.prompt >= 1
  BY <1>2, <1>4
<1>7. FlowInv(flow[f], expects[f], worker[f], outbox[f], m, q, toClient[f])
  BY <1>1, <1>2, <1>5, <1>6, LoginWrites
<1>8. FlowInv(flow[f], expects[f], worker[f], outbox[f], m, q, <<>>)
  BY <1>7, RouteLeft
<1> HIDE DEF q
<1>9. CASE toClient' = toClient
  BY <1>1, <1>3, <1>7, <1>9, OneLoginCounted
<1>10. CASE toClient' = [toClient EXCEPT ![f] = <<>>]
  BY <1>3, <1>8, <1>10, OneLoginCounted
<1> QED
  BY <1>9, <1>10

\* It goes on without a word.
LEMMA SilentCounted ==
  ASSUME AuthInv, CountInv, NEW f \in Flows, Only(f), NEW m,
         toHost' = toHost, login' = [login EXCEPT ![f] = m],
         toClient' \in {toClient, [toClient EXCEPT ![f] = <<>>]},
         m.seq = login[f].seq, m.asked = login[f].asked, m.outcome \in {login[f].outcome, "raised"},
         login[f].lost => m.lost, m.pc = "ended" => m.lost,
         m.pc \notin {"asking", "refusing"},
         m.pc \in {"idle", "starting"} => login[f].pc \in {"idle", "starting"}
  PROVE  CountInv'
<1>1. /\ FlowInv(flow[f], expects[f], worker[f], outbox[f], login[f], toHost[f], toClient[f])
      /\ [toClient EXCEPT ![f] = toClient[f]] = toClient
      /\ [toHost EXCEPT ![f] = toHost[f]] = toHost
  BY LoginEntries
<1>2. FlowInv(flow[f], expects[f], worker[f], outbox[f], m, toHost[f], toClient[f])
  BY <1>1, LoginGoes
<1>3. FlowInv(flow[f], expects[f], worker[f], outbox[f], m, toHost[f], <<>>)
  BY <1>2, RouteLeft
<1>4. CASE toClient' = toClient
  BY <1>1, <1>2, <1>4, OneLoginCounted
<1>5. CASE toClient' = [toClient EXCEPT ![f] = <<>>]
  BY <1>1, <1>3, <1>5, OneLoginCounted
<1> QED
  BY <1>4, <1>5

LEMMA LoginBeginsCounted ==
  ASSUME AuthInv, CountInv, NEW f \in Flows, LoginBegins(f)
  PROVE  CountInv'
<1>1. PICK prompts \in BOOLEAN :
        login' = [login EXCEPT ![f].pc = "starting", ![f].prompts = prompts]
  BY DEF LoginBegins
<1> DEFINE m == [login[f] EXCEPT !.pc = "starting", !.prompts = prompts]
<1>2. login[f].pc = "idle" /\ Only(f) /\ toHost' = toHost /\ toClient' = toClient
  BY DEF LoginBegins, wireVars
<1>3. /\ m.seq = login[f].seq /\ m.asked = login[f].asked /\ m.outcome = login[f].outcome
      /\ (m.lost <=> login[f].lost) /\ m.pc = "starting" /\ login' = [login EXCEPT ![f] = m]
  BY <1>1 DEF AuthInv, AuthShape, LoginShape, LoginStates
<1> HIDE DEF m
<1> QED
  BY <1>2, <1>3, SilentCounted

LEMMA LoginWritesCounted ==
  ASSUME AuthInv, CountInv, NEW f \in Flows,
         LoginSendsStart(f) \/ LoginAnswers(f) \/ LoginRefuses(f) \/ LoginLosesCount(f)
  PROVE  CountInv'
<1> DEFINE l == login[f]
<1>1. l \in LoginStates /\ login \in [Flows -> LoginStates] /\ Only(f) /\ toClient' = toClient
  BY LoginEntries DEF LoginSendsStart, LoginAnswers, LoginRefuses, LoginLosesCount, AuthInv,
                      AuthShape, LoginShape
<1>2. CASE LoginSendsStart(f)
  <2> DEFINE m == [l EXCEPT !.pc = "reading", !.seq = 2]
  <2>1. l.pc = "starting" /\ Write(f, "auth_login_start", "none") /\ login' = [login EXCEPT ![f] = m]
    BY <1>1, <1>2 DEF LoginSendsStart
  <2>2. l.seq = 1
    BY <2>1, LoginEntries DEF FlowInv, Counted
  <2>3. /\ m.seq = l.seq + 1 /\ m.asked = l.asked /\ m.outcome = l.outcome /\ (m.lost <=> l.lost)
        /\ m.pc = "reading"
    BY <1>1, <2>2 DEF LoginStates
  <2> HIDE DEF m
  <2> QED
    BY <1>1, <2>1, <2>3, WrittenCounted DEF Answers
<1>3. CASE LoginAnswers(f)
  <2> DEFINE m == [l EXCEPT !.pc = "reading", !.seq = l.seq + 1]
  <2>1. PICK answer \in {"text", "empty"} : Write(f, "auth_prompt_response", answer)
    BY <1>3 DEF LoginAnswers
  <2>2. l.pc = "asking" /\ login' = [login EXCEPT ![f] = m]
    BY <1>1, <1>3 DEF LoginAnswers
  <2>3. /\ m.seq = l.seq + 1 /\ m.asked = l.asked /\ m.outcome = l.outcome /\ (m.lost <=> l.lost)
        /\ m.pc = "reading"
    BY <1>1 DEF LoginStates
  <2> HIDE DEF m
  <2> QED
    BY <1>1, <2>1, <2>2, <2>3, WrittenCounted DEF Answers
<1>4. CASE LoginRefuses(f)
  <2> DEFINE m == [l EXCEPT !.pc = "reading", !.seq = l.seq + 1]
  <2>1. l.pc = "refusing" /\ Write(f, "auth_cancel", "none") /\ login' = [login EXCEPT ![f] = m]
    BY <1>1, <1>4 DEF LoginRefuses
  <2>2. /\ m.seq = l.seq + 1 /\ m.asked = l.asked /\ m.outcome = l.outcome /\ (m.lost <=> l.lost)
        /\ m.pc = "reading"
    BY <1>1 DEF LoginStates
  <2> HIDE DEF m
  <2> QED
    BY <1>1, <2>1, <2>2, WrittenCounted DEF Answers
<1>5. CASE /\ l.pc = "asking" /\ Write(f, "auth_prompt_response", "text")
           /\ login' = [login EXCEPT ![f].pc = "leaving", ![f].lost = TRUE]
  <2> DEFINE m == [l EXCEPT !.pc = "leaving", !.lost = TRUE]
  <2>1. login' = [login EXCEPT ![f] = m]
    BY <1>1, <1>5
  <2>2. m.seq = l.seq /\ m.asked = l.asked /\ m.outcome = l.outcome /\ m.lost /\ m.pc = "leaving"
    BY <1>1 DEF LoginStates
  <2> HIDE DEF m
  <2> QED
    BY <1>1, <1>5, <2>1, <2>2, WrittenCounted DEF Answers
<1>6. CASE /\ l.pc = "refusing" /\ Write(f, "auth_cancel", "none")
           /\ login' = [login EXCEPT ![f].pc = "leaving"]
  <2> DEFINE m == [l EXCEPT !.pc = "leaving"]
  <2>1. login' = [login EXCEPT ![f] = m]
    BY <1>1, <1>6
  <2>2. /\ m.seq = l.seq /\ m.asked = l.asked /\ m.outcome = l.outcome /\ (m.lost <=> l.lost)
        /\ m.pc = "leaving"
    BY <1>1 DEF LoginStates
  <2> HIDE DEF m
  <2> QED
    BY <1>1, <1>6, <2>1, <2>2, WrittenCounted DEF Answers
<1> QED
  BY <1>2, <1>3, <1>4, <1>5, <1>6 DEF LoginLosesCount

LEMMA LoginEndsCounted ==
  ASSUME AuthInv, CountInv, NEW f \in Flows,
         LoginLosesStart(f) \/ LoginCancels(f) \/ LoginLosesCancel(f) \/ LoginLeaves(f)
  PROVE  CountInv'
<1> DEFINE l == login[f]
           x == [l EXCEPT !.pc = "ended", !.outcome = "raised", !.lost = TRUE]
           y == [l EXCEPT !.pc = "ended", !.outcome = "raised"]
           z == [l EXCEPT !.pc = "leaving"]
<1>1. /\ l \in LoginStates /\ login \in [Flows -> LoginStates] /\ Only(f)
      /\ toClient' \in {toClient, [toClient EXCEPT ![f] = <<>>]}
  BY LoginEntries DEF LoginLosesStart, LoginCancels, LoginLosesCancel, LoginLeaves, AuthInv,
                      AuthShape, LoginShape, Ends, wireVars
<1>2. /\ x.seq = l.seq /\ x.asked = l.asked /\ x.outcome = "raised" /\ x.lost /\ x.pc = "ended"
      /\ y.seq = l.seq /\ y.asked = l.asked /\ y.outcome = "raised" /\ (y.lost <=> l.lost)
      /\ y.pc = "ended"
      /\ z.seq = l.seq /\ z.asked = l.asked /\ z.outcome = l.outcome /\ (z.lost <=> l.lost)
      /\ z.pc = "leaving"
  BY <1>1 DEF LoginStates
<1>3. /\ LoginLosesStart(f) => /\ login' = [login EXCEPT ![f] = x] /\ l.pc = "starting"
                               /\ toHost' = toHost \/ Write(f, "auth_login_start", "none")
      /\ LoginCancels(f) => login' = [login EXCEPT ![f] = y] /\ Write(f, "auth_cancel", "none")
      /\ LoginLosesCancel(f) => login' = [login EXCEPT ![f] = x] /\ toHost' = toHost
      /\ LoginLeaves(f) => login' = [login EXCEPT ![f] = z] /\ toHost' = toHost
  BY <1>1 DEF LoginLosesStart, LoginCancels, LoginLosesCancel, LoginLeaves, Ends, wireVars
<1> HIDE DEF x, y, z
<1>4. ASSUME login' = [login EXCEPT ![f] = x] \/ login' = [login EXCEPT ![f] = z], toHost' = toHost
      PROVE  CountInv'
  BY <1>1, <1>2, <1>4, SilentCounted
<1>5. ASSUME login' = [login EXCEPT ![f] = x], l.pc = "starting", Write(f, "auth_login_start", "none")
      PROVE  CountInv'
  BY <1>1, <1>2, <1>5, WrittenCounted DEF Answers
<1>6. ASSUME login' = [login EXCEPT ![f] = y], Write(f, "auth_cancel", "none")
      PROVE  CountInv'
  BY <1>1, <1>2, <1>6, WrittenCounted DEF Answers
<1> QED
  BY <1>3, <1>4, <1>5, <1>6

LEMMA LoginReadsCounted ==
  ASSUME AuthInv, CountInv, NEW f \in Flows, LoginReads(f)
  PROVE  CountInv'
<1> DEFINE l == login[f]
           tc == toClient[f]
           z == [l EXCEPT !.pc = "leaving"]
<1>1. /\ FlowInv(flow[f], expects[f], worker[f], outbox[f], l, toHost[f], tc)
      /\ flow[f] \in FlowStates /\ l \in LoginStates /\ login \in [Flows -> LoginStates]
      /\ tc \in Seq(AuthFrames) /\ tc # <<>> /\ l.pc = "reading"
      /\ [toHost EXCEPT ![f] = toHost[f]] = toHost /\ [login EXCEPT ![f] = l] = login
      /\ Only(f) /\ toHost' = toHost
  BY LoginEntries DEF LoginReads, AuthInv, AuthShape, LoginShape
<1>2. FlowInv(flow[f], expects[f], worker[f], outbox[f], l, toHost[f], Tail(tc))
  BY <1>1, FrameRead
<1>3. ASSUME NEW m, login' = [login EXCEPT ![f] = m], Take(f),
             FlowInv(flow[f], expects[f], worker[f], outbox[f], m, toHost[f], Tail(toClient[f]))
      PROVE  CountInv'
  <2>1. toHost' = [toHost EXCEPT ![f] = toHost[f]] /\ Only(f)
    BY <1>1
  <2>2. toClient' = [toClient EXCEPT ![f] = Tail(toClient[f])]
    BY <1>3 DEF Take
  <2> QED
    BY <1>3, <2>1, <2>2, OneLoginCounted
<1>4. CASE Take(f) /\ login' = login
  <2>1. login' = [login EXCEPT ![f] = l]
    BY <1>1, <1>4
  <2> QED
    BY <1>2, <1>3, <1>4, <2>1
<1>5. CASE Take(f) /\ login' = [login EXCEPT ![f].pc = "leaving"]
  <2>1. login' = [login EXCEPT ![f] = z]
    BY <1>1, <1>5
  <2>2. /\ z.seq = l.seq /\ z.asked = l.asked /\ z.outcome = l.outcome /\ (z.lost <=> l.lost)
        /\ z.pc = "leaving"
    BY <1>1 DEF LoginStates
  <2> HIDE DEF z
  <2>3. FlowInv(flow[f], expects[f], worker[f], outbox[f], z, toHost[f], Tail(tc))
    BY <1>2, <2>2, LoginGoes
  <2> QED
    BY <1>3, <1>5, <2>1, <2>3
<1>6. CASE /\ Head(tc).type = "prompt" /\ Take(f)
           /\ login' = [login EXCEPT ![f].asked = Head(tc).prompt,
                          ![f].pc = IF login[f].prompts THEN "asking" ELSE "refusing"]
  <2> DEFINE pc == IF l.prompts THEN "asking" ELSE "refusing"
             m == [l EXCEPT !.asked = Head(tc).prompt, !.pc = pc]
  <2>1. pc \in {"asking", "refusing"} /\ login' = [login EXCEPT ![f] = m]
    BY <1>1, <1>6
  <2> HIDE DEF pc
  <2>2. FlowInv(flow[f], expects[f], worker[f], outbox[f], m, toHost[f], Tail(tc))
    BY <1>1, <1>6, <2>1, PromptRead
  <2> HIDE DEF m
  <2> QED
    BY <1>3, <1>6, <2>1, <2>2
<1>7. CASE Head(tc).type \in {"success", "failed", "cancelled"} /\ Ends(f, Head(tc).type)
  <2> DEFINE m == [l EXCEPT !.pc = "ended", !.outcome = Head(tc).type]
  <2>1. login' = [login EXCEPT ![f] = m] /\ toClient' = [toClient EXCEPT ![f] = <<>>]
    BY <1>1, <1>7 DEF Ends
  <2>2. FlowInv(flow[f], expects[f], worker[f], outbox[f], m, toHost[f], <<>>)
    BY <1>1, <1>7, ResultRead DEF Result
  <2> HIDE DEF m
  <2> QED
    BY <1>1, <2>1, <2>2, OneLoginCounted
<1> QED
  BY <1>4, <1>5, <1>6, <1>7 DEF LoginReads

LEMMA LoginStepCounted ==
  ASSUME AuthInv, CountInv, NEW f \in Flows, LoginStep(f)
  PROVE  CountInv'
  BY LoginWritesCounted, LoginEndsCounted, LoginReadsCounted DEF LoginStep, LoginProceeds

-----------------------------------------------------------------------------
(***************************************************************************)
(* The steps together.                                                     *)
(***************************************************************************)
LEMMA CountsUnchanged ==
  ASSUME CountInv, UNCHANGED authVars
  PROVE  CountInv'
<1>1. \A f \in Flows : FlowInvAt(f)'
  BY DEF CountInv, FlowInvAt, authVars, serverVars, clientVars, wireVars
<1> QED
  BY <1>1 DEF CountInv, authVars, serverVars

LEMMA LoginSideStep ==
  ASSUME AuthInv, CallInv, LoginInv, NEW f \in Flows, UNCHANGED <<providerVars, callVars>>,
         AuthReads(f) \/ AuthPops(f) \/ AuthWorks(f) \/ LoginBegins(f) \/ LoginStep(f)
  PROVE  LoginInv'
<1>1. CountInv'
  BY AuthReadsCounted, AuthPopsCounted, AuthWorksCounted, LoginBeginsCounted, LoginStepCounted
  DEF LoginInv
<1>2. ShownInv' /\ StreamsInv'
  BY ShownAgain, StreamsUnchanged DEF LoginInv, providerVars, callVars
<1> QED
  BY <1>1, <1>2 DEF LoginInv

LEMMA ListSideStep ==
  ASSUME AuthInv, CallInv, LoginInv, UNCHANGED <<providerVars, callVars>>,
         ListBegins \/ ListAnswered \/ ListRaises
  PROVE  LoginInv'
<1>1. CountInv'
  BY ListingCounted DEF LoginInv
<1>2. ShownInv' /\ StreamsInv'
  BY ShownAgain, StreamsUnchanged DEF LoginInv, providerVars, callVars
<1> QED
  BY <1>1, <1>2 DEF LoginInv

LEMMA ShownSideStep ==
  ASSUME AuthInv, CallInv, LoginInv, NEW c \in Flows,
         \/ CallBegins(c) \/ CallSends(c) \/ CallLosesSend(c) \/ CallReads(c)
         \/ CallResumes(c) \/ CallTimesOut(c) \/ CallCancelled(c)
         \/ CallAborts(c) \/ ReloginEnds(c)
  PROVE  LoginInv'
<1>1. UNCHANGED authVars /\ stream' = stream
  BY DEF CallBegins, CallSends, CallLosesSend, CallReads, CallResumes, CallTimesOut,
         CallCancelled, CallAborts, ReloginEnds, CallOnly
<1>2. CountInv' /\ StreamsInv'
  BY <1>1, CountsUnchanged, StreamsUnchanged DEF LoginInv
<1>3. ShownInv'
  BY QuietCallStep, CallReadsShown DEF LoginInv
<1> QED
  BY <1>2, <1>3 DEF LoginInv

LEMMA StreamSideStep ==
  ASSUME AuthInv, CallInv, LoginInv,
         \/ \E x \in Streams : HostReadsProvider(x)
         \/ HostPumps
         \/ ProviderWorks /\ UNCHANGED <<authVars, callVars>>
  PROVE  LoginInv'
<1>1. UNCHANGED authVars /\ UNCHANGED <<call, shown>>
  BY DEF HostReadsProvider, HostPumps, callVars
<1>2. CountInv' /\ ShownInv'
  BY <1>1, CountsUnchanged, ShownAgain DEF LoginInv
<1>3. StreamsInv'
  BY StreamStep DEF LoginInv, CallInv, HostReadsProvider, HostPumps
<1> QED
  BY <1>2, <1>3 DEF LoginInv

LEMMA InitialLogin ==
  Init => LoginInv
<1> SUFFICES ASSUME Init PROVE LoginInv
  OBVIOUS
<1>1. CountInv
  <2>1. ASSUME NEW f \in Flows PROVE FlowInvAt(f)
    <3>1. /\ flow[f] = Fresh /\ expects[f] = 1 /\ worker[f].pc = "none" /\ outbox[f] = <<>>
          /\ login[f] = Idle /\ toHost[f] = <<>> /\ toClient[f] = <<>>
      BY DEF Init, AuthInit, ServerInit
    <3>2. /\ Fresh.prompts = 0 /\ Fresh.waiting = 0 /\ Fresh.answer = "none" /\ ~Fresh.cancelled
          /\ ~Fresh.terminal /\ Idle.asked = 0 /\ Idle.seq = 1 /\ Idle.pc = "idle"
          /\ Idle.outcome = "none"
      BY DEF Fresh, Idle
    <3>3. Tight(Fresh, worker[f], <<>>)
      BY <3>1, <3>2, PromptsAssumption DEF Tight, NoThread, PromptsAssumption
    <3>4. Unannounced(Fresh, <<>>, Idle, <<>>) /\ Prompted(Fresh, <<>>, Idle, <<>>)
      BY <3>2, NothingQueued DEF Unannounced, Prompted, Result
    <3>5. Len(<<>>) = 0
      OBVIOUS
    <3>6. Counted(1, Idle, <<>>) /\ Agreed(Fresh, 1, worker[f], Idle, <<>>)
      BY <3>2, <3>5 DEF Counted, Agreed
    <3> QED
      BY <3>1, <3>3, <3>4, <3>6 DEF FlowInvAt, FlowInv
  <2>2. expects \in [Flows -> Nat]
    BY DEF Init, AuthInit, ServerInit
  <2> QED
    BY <2>1, <2>2 DEF CountInv
<1>2. ShownInv
  <2>1. /\ shown = [x \in Streams |-> <<>>] /\ \A c \in Flows : call[c] = NoCall
    BY DEF Init
  <2>2. CallShape
    BY InitialProvider DEF CallInv
  <2>3. ASSUME NEW c \in Flows PROVE ShownOf(c)
    <3>1. /\ shown[StreamOf(c)] = <<>> /\ \A a \in {1, 2} : shown[<<c, a>>] = <<>>
      BY <2>1, <2>2, StreamNames
    <3>2. ~call[c].yielded /\ call[c].pc = "idle"
      BY <2>1 DEF NoCall
    <3>3. TerminalAtEnd(<<>>) /\ NoTerminal(<<>>)
      BY DEF TerminalAtEnd, NoTerminal
    <3> QED
      BY <3>1, <3>2, <3>3 DEF ShownOf
  <2> QED
    BY <2>1, <2>3 DEF ShownInv
<1>3. StreamsInv
  <2>1. \A x \in Streams : stream[x] = NoStream
    BY DEF Init, ProviderInit
  <2>2. NoStream.deltas = 0 /\ Len(NoStream.events) = 0
    BY DEF NoStream
  <2> QED
    BY <2>1, <2>2, DeltasAssumption DEF StreamsInv, DeltasAssumption
<1> QED
  BY <1>1, <1>2, <1>3 DEF LoginInv

LEMMA LoginNext ==
  AuthInv /\ CallInv /\ LoginInv /\ [Next]_vars => LoginInv'
<1> SUFFICES ASSUME AuthInv, CallInv, LoginInv, [Next]_vars PROVE LoginInv'
  OBVIOUS
<1>1. CASE UNCHANGED vars
  BY <1>1, CountsUnchanged, ShownAgain, StreamsUnchanged
  DEF LoginInv, vars, authVars, serverVars, providerVars, callVars
<1>2. CASE HostProceeds
  BY <1>2, LoginSideStep, ListSideStep, StreamSideStep
  DEF HostProceeds, HostServesAuth, HostStep, HostListsProviders
<1>3. CASE ThreadsRun
  BY <1>3, LoginSideStep, StreamSideStep DEF ThreadsRun
<1>4. CASE ListingSteps
  BY <1>4, ListSideStep DEF ListingSteps
<1>5. ASSUME NEW c \in Flows, CallBegins(c) \/ CallProceeds(c) \/ CallLeaves(c) \/ LoginSteps(c)
      PROVE  LoginInv'
  BY <1>5, ShownSideStep, LoginSideStep DEF CallProceeds, CallLeaves, LoginSteps, ReloginBegins
<1> QED
  BY <1>1, <1>2, <1>3, <1>4, <1>5 DEF Next

-----------------------------------------------------------------------------
(***************************************************************************)
(* The theorems.                                                           *)
(***************************************************************************)

\* The counts of both sides of a login, what a caller was shown and what a stream
\* buffers: the inductive invariant, with that of ProviderCallProofs beside it.
THEOREM LoginInvariant == Spec => [](AuthInv /\ CallInv /\ LoginInv)
<1>1. Init => AuthInv /\ CallInv /\ LoginInv
  BY InitialProvider, InitialLogin
<1>2. AuthInv /\ CallInv /\ LoginInv /\ [Next]_vars => (AuthInv /\ CallInv /\ LoginInv)'
  BY ProviderNext, LoginNext
<1> QED
  BY <1>1, <1>2, PTL DEF Spec

\* Every variable of the composition has its type, and every sequence number and
\* every buffer its bound (login_start to buildProvidersResponse, execution.py).
THEOREM ProviderTypeCorrect == Spec => []TypeOK
<1>1. ASSUME AuthInv, CallInv, LoginInv PROVE TypeOK
  <2>1. ASSUME NEW f \in Flows
        PROVE  /\ flow[f].waiting \in 0..MaxPrompts /\ flow[f].prompts \in 0..MaxPrompts
               /\ flow[f].answer \in {"none", "text", "empty"}
               /\ flow[f].waiting # 0 => flow[f].waiting = flow[f].prompts /\ flow[f].answer = "none"
               /\ login[f].seq \in 1..(MaxPrompts + 3) /\ expects[f] \in 1..(MaxPrompts + 4)
               /\ login[f].asked \in 0..MaxPrompts
               /\ worker[f].result \in {"none", "success", "failed", "cancelled"}
    <3>1. /\ FlowInv(flow[f], expects[f], worker[f], outbox[f], login[f], toHost[f], toClient[f])
          /\ flow[f] \in FlowStates /\ login[f] \in LoginStates /\ expects[f] \in Nat
      BY <1>1, LoginEntries DEF LoginInv
    <3>2. worker[f].result \in {"none", "success", "failed", "cancelled"}
      BY <1>1 DEF AuthInv, AuthShape, WorkerShape
    <3>3. /\ flow[f].prompts \in Nat /\ flow[f].waiting \in Nat /\ flow[f].answer \in Answers
          /\ login[f].seq \in Nat /\ login[f].asked \in Nat
      BY <3>1 DEF FlowStates, LoginStates
    <3>4. /\ flow[f].prompts <= MaxPrompts
          /\ flow[f].waiting # 0 => flow[f].waiting = flow[f].prompts /\ flow[f].answer = "none"
      BY <3>1 DEF FlowInv, Tight
    <3>5. /\ login[f].asked <= flow[f].prompts
          /\ 1 <= login[f].seq /\ login[f].seq <= login[f].asked + 2
          /\ 1 <= expects[f] /\ expects[f] <= login[f].seq + 1
      BY <3>1 DEF FlowInv, Prompted, Counted
    <3> QED
      BY <3>1, <3>2, <3>3, <3>4, <3>5, PromptsAssumption DEF Answers, PromptsAssumption
  <2>2. saved \subseteq Flows /\ listing.status \in {"none", "login_required", "authenticated", "expired"}
    BY <1>1 DEF AuthInv, AuthShape, ListingShape
  <2>3. AuthTypeOK
    BY <2>1, <2>2 DEF AuthTypeOK
  <2>4. ASSUME NEW x \in Streams
        PROVE  /\ stream[x].state \in {"absent", "active", "aborted", "gone"}
               /\ stream[x].deltas \in 0..MaxDeltas /\ Len(stream[x].events) <= MaxDeltas
    <3>1. stream[x] \in StreamStates
      BY <1>1 DEF CallInv, CallShape
    <3>2. /\ stream[x].state \in {"absent", "active", "aborted", "gone"} /\ stream[x].deltas \in Nat
          /\ Len(stream[x].events) \in Nat
      BY <3>1 DEF StreamStates
    <3>3. stream[x].deltas <= MaxDeltas /\ Len(stream[x].events) <= stream[x].deltas
      BY <1>1 DEF LoginInv, StreamsInv
    <3> QED
      BY <3>2, <3>3, DeltasAssumption DEF DeltasAssumption
  <2>5. \A c \in Flows : call[c].attempt \in {1, 2} /\ call[c].outcome \in {"none", "ok", "raised"}
    BY <1>1 DEF CallInv, CallShape, CallStates
  <2> QED
    BY <2>3, <2>4, <2>5 DEF TypeOK
<1> QED
  BY <1>1, LoginInvariant, PTL

\* A caller is given one terminal at most, at the end of what it is given, and is
\* not served twice (stream, complete and their retry in execution.py).
THEOREM OneTerminal == Spec => []OneTerminalShown
<1>1. ASSUME CallInv, LoginInv PROVE OneTerminalShown
  <2>1. CallShape /\ ShownInv
    BY <1>1 DEF CallInv, LoginInv
  <2>2. ASSUME NEW c \in Flows, NEW a \in {1, 2} PROVE TerminalAtEnd(shown[<<c, a>>])
    <3>1. ShownOf(c) /\ StreamOf(c) = <<c, call[c].attempt>>
      BY <2>1, StreamNames DEF ShownInv
    <3>2. CASE a = call[c].attempt
      BY <3>1, <3>2 DEF ShownOf
    <3>3. CASE a # call[c].attempt
      <4>1. shown[<<c, a>>] = <<>>
        BY <3>1, <3>3 DEF ShownOf
      <4> QED
        BY <4>1 DEF TerminalAtEnd
    <3> QED
      BY <3>2, <3>3
  <2>3. ASSUME NEW x \in Streams PROVE TerminalAtEnd(shown[x])
    <3>1. PICK c \in Flows, a \in {1, 2} : x = <<c, a>>
      BY StreamAssumption DEF StreamAssumption
    <3> QED
      BY <2>2, <3>1
  <2>4. \A c \in Flows : call[c].attempt = 2 => shown[<<c, 1>>] = <<>>
    BY <2>1 DEF ShownInv, ShownOf
  <2> QED
    BY <2>3, <2>4 DEF OneTerminalShown, TerminalAtEnd
<1> QED
  BY <1>1, LoginInvariant, PTL

\* A login that ends without a result has ended its flow once its requests are
\* read, unless a send of its was cut short: its auth_cancel was in its place
\* (login of auth.py against expected_sequences of server.zig).
THEOREM EndedLoginsEndFlows == Spec => []EndedLoginEndsFlow
<1>1. ASSUME AuthInv, LoginInv PROVE EndedLoginEndsFlow
  <2> SUFFICES ASSUME NEW f \in Flows, login[f].pc = "ended", ~login[f].lost, toHost[f] = <<>>,
                      f \in ActiveFlows
               PROVE  FALSE
    BY DEF EndedLoginEndsFlow
  <2>1. FlowInv(flow[f], expects[f], worker[f], outbox[f], login[f], toHost[f], toClient[f])
    BY <1>1, LoginEntries DEF LoginInv
  <2>2. Live(flow[f], worker[f], login[f], toHost[f])
    BY DEF ActiveFlows, Present, Live
  <2>3. NoCancel(toHost[f], Len(toHost[f]))
    <3>1. Len(toHost[f]) = 0
      OBVIOUS
    <3> QED
      BY <3>1 DEF NoCancel
  <2> QED
    BY <2>1, <2>2, <2>3 DEF FlowInv, Agreed
<1> QED
  BY <1>1, LoginInvariant, PTL

=============================================================================
