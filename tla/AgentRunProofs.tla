--------------------------- MODULE AgentRunProofs ---------------------------
(***************************************************************************)
(* Proofs about AgentRun for every value of its constants: a client shows  *)
(* what was streamed and counted, its response is the last message, and a  *)
(* model that is resolved is the one of the catalogue.                     *)
(***************************************************************************)
EXTENDS AgentRunLemmas, FiniteSetTheorems

(***************************************************************************)
(* The invariant.  What a client has been promised depends on frames it    *)
(* has yet to read, so the invariant looks ahead: for each number of       *)
(* frames still on the wire, the client that will have read so many is as  *)
(* it should be, and the one that will have read them all has caught up    *)
(* with the loop.  A step of the client moves one along that sequence; a   *)
(* step of the loop makes it longer, and only the client that has caught   *)
(* up needs to be looked at.                                               *)
(***************************************************************************)

\* A message of the run that is complete.
FinalOK(f) ==
  /\ IsSeq(f.content) /\ \A i \in 1..Len(f.content) : f.content[i] \in LoopParts
  /\ IsSeq(f.streamed) /\ \A i \in 1..Len(f.streamed) : f.streamed[i] \in LoopParts
  /\ IsUsage(f.usage) /\ (~Compact => "cache_read" \in DOMAIN f.usage)

LoopFields ==
  {"pc", "content", "open", "started", "fragments", "calls", "next", "termination"}

\* The loop and its messages: what is open stands behind what is closed, and is a call.
LoopOK ==
  /\ loop = [k \in LoopFields |-> loop[k]]
  /\ loop.pc \in {"prompt", "turn", "message", "tools", "executing", "settle", "ended"}
  /\ IsSeq(loop.content) /\ \A i \in 1..Len(loop.content) : loop.content[i] \in LoopParts
  /\ \E c \in 0..Len(loop.content) : loop.open = (c + 1)..Len(loop.content)
  /\ \A i \in loop.open : loop.content[i] \in LoopCalls
  /\ loop.pc \notin {"message", "ended"} \/ (loop.pc = "message" /\ ~loop.started) =>
       loop.content = <<>>
  /\ loop.started \in BOOLEAN /\ loop.fragments \in Nat /\ loop.next \in Nat
  /\ loop.calls \in 0..MaxCalls
  /\ \A i \in 1..Len(loop.content) : loop.content[i].type = "tool_call" => loop.calls > 0
  /\ loop.pc \in {"tools", "executing"} => loop.calls > 0
  /\ IsSeq(finals) /\ \A i \in 1..Len(finals) : FinalOK(finals[i])
  /\ loop.pc \in {"tools", "executing", "settle"} => finals # <<>>

\* The call that the client is executing is one, and the runtime waits for it.
CallsOut == {i \in 1..Len(wire) : wire[i].type = "tool_execute"}

ToolOK ==
  /\ reply \in BOOLEAN
  /\ reply \/ CallsOut # {} => loop.pc = "executing"
  /\ reply => CallsOut = {}
  /\ \A i, j \in CallsOut : i = j

\* What StreamShowsRun and StreamUsageIsSum promise of the agent_end of a stream.
EndFacts(end) ==
  /\ end.stop_reason = StopReason /\ end.error_message = Last(finals).error_message
  /\ ~AuthFailed(end)
  /\ end.usage = TotalOf(finals)

\* What ResponseIsFinalMessage promises of a response.
ResponseFacts(r) ==
  /\ SaidIn(r.content) = SaidIn(Last(finals).content)
  /\ r.usage = Last(finals).usage
  /\ r.stop_reason = StopReason
  /\ r.error_message = Last(finals).error_message
  /\ r.api = setup.api /\ r.provider_id = "p"
  /\ ~AuthFailed(r)

\* A client that has its result: the run is over, and the result is the run's.
Outcome(x) ==
  /\ EventsOK(x.events)
  /\ \A i \in 1..Len(x.events) : x.events[i].type \in Terminal => i = Len(x.events)
  /\ setup.op = "stream" /\ x.events # <<>> => x.events[1].type = "agent_start"
  /\ x.out.kind \in {"response", "ended", "raised", "needs_login"}
  /\ x.out.kind = "ended" /\ Last(x.events).type = "agent_end" =>
       SaidBy(x.events) = SaidByRun /\ EndFacts(Last(x.events))
  /\ x.out.kind = "response" => ResponseFacts(x.out.response)
  /\ x.out.kind = "needs_login" => loop.calls > 0

\* Such a client, once the run is over.
Over(x) == loop.pc = "ended" /\ Outcome(x)

\* A client as it should be, at any moment: it has shown of the run what it has read.
Good(x) ==
  /\ Quiet(setup.op, x) \/ Over(x)
  /\ IsPrefix(SaidBy(x.events), SaidByRun)
  /\ x.executed => loop.calls > 0

\* What _session holds is what the provider has open.
Buffered(b) ==
  /\ DOMAIN b = loop.open
  /\ \A i \in loop.open :
       b[i] = Tool(loop.content[i].id, loop.content[i].name, loop.content[i].arguments_json)

\* The sum of a stream: of the messages so far, but for one that broke before any ended.
Summing(sum) ==
  \/ finals = <<>> /\ sum = NoUsage
  \/ finals # <<>> /\ sum # NoUsage /\ sum = TotalOf(finals)
  \/ loop.pc = "settle" /\ ~Compact /\ Len(finals) = 1 /\ sum = NoUsage

\* The message that starts last, at m, of an api.
Starting(events, api, m) ==
  /\ m \in 1..Len(events) /\ events[m] = StartShown("p", api, "m")
  /\ \A i \in (m + 1)..Len(events) : events[i].type # "message_start"

\* It is under way and has said so much; it ended, with that usage.
UnderWay(events, api, said) ==
  \E m \in 1..Len(events) :
    /\ Starting(events, api, m)
    /\ \A i \in (m + 1)..Len(events) : events[i].type # "message_end"
    /\ SaidBy(SubSeq(events, m, Len(events))) = said

Ended(events, api, usage, said) ==
  \E m, e \in 1..Len(events) :
    /\ Starting(events, api, m) /\ m < e
    /\ \A i \in (m + 1)..Len(events) : events[i].type = "message_end" <=> i = e
    /\ events[e].usage = usage
    /\ SaidBy(SubSeq(events, m, e)) = said

\* What the events of a compact run, of which the response will be made, tell of its messages.
Telling(events) ==
  /\ loop.pc = "message" /\ loop.started => UnderWay(events, setup.api, SaidIn(Closed))
  /\ finals # <<>> /\ ~(loop.pc = "message" /\ loop.started) =>
       Ended(events, setup.api, Last(finals).usage, SaidIn(Last(finals).content))

\* A client that has read all that was sent.
CaughtUp(x) ==
  loop.pc # "ended" =>
    /\ Quiet(setup.op, x)
    /\ SaidBy(x.events) = SaidByRun
    /\ loop.pc # "settle" => Buffered(x.buffers)
    /\ setup.op = "stream" => Summing(x.sum)
    /\ setup.op = "run" /\ Compact => Telling(x.events)

\* The client that reads on will be as it should be, and has caught up when it has read all.
ReadingOK ==
  \E ahead :
    /\ Ahead(setup.op, ahead, wire, Client)
    /\ \A k \in 0..Len(wire) : Good(ahead[k])
    /\ CaughtUp(ahead[Len(wire)])

\* The inductive invariant.
IInv ==
  /\ setup.op \in {"run", "stream", "resolve"}
  /\ IsSeq(wire) /\ SeenOK /\ LoopOK /\ ToolOK /\ ReadingOK

(***************************************************************************)
(* What the run has said: what its providers streamed, turn by turn.       *)
(***************************************************************************)

\* The part of a message that no later event changes.
ClosedOf(content, open) == SubSeq(content, 1, Len(content) - Cardinality(open))

\* What was streamed of messages says.
MessagesSay(messages) == FlattenSeq([i \in DOMAIN messages |-> SaidIn(messages[i].streamed)])

\* The run has said its messages and what is closed of the one under way.
LEMMA RunSays ==
  /\ Closed = ClosedOf(loop.content, loop.open)
  /\ SaidByRun = MessagesSay(finals) \o SaidIn(Closed)
  BY DEF Closed, ClosedOf, SaidByRun, MessagesSay

\* The content of the loop is content.
LEMMA PartsAreContent ==
  ASSUME NEW content, PartsOK(content) PROVE ContentOK(content)
  BY DEF PartsOK, ContentOK, Parts

\* What is closed, when the parts after the first c are open.
LEMMA ClosedIs ==
  ASSUME NEW content, PartsOK(content), NEW c \in 0..Len(content), NEW open,
         open = (c + 1)..Len(content)
  PROVE  /\ ClosedOf(content, open) = SubSeq(content, 1, c)
         /\ PartsOK(ClosedOf(content, open)) /\ Len(ClosedOf(content, open)) = c
         /\ \A i \in 1..c : ClosedOf(content, open)[i] = content[i]
         /\ ContentOK(ClosedOf(content, open))
         /\ c = Len(content) => ClosedOf(content, open) = content
  <1>1. Len(content) \in Nat /\ c \in Nat /\ c <= Len(content) BY SeqHas DEF PartsOK
  <1>2. PICK n : n = Len(content) OBVIOUS
  <1>3. Cardinality((c + 1)..n) = n - c
    <2>1. c + 1 \in Int /\ n \in Int BY <1>1, <1>2
    <2>2. Cardinality((c + 1)..n) = IF c + 1 > n THEN 0 ELSE n - (c + 1) + 1
      BY <2>1, FS_Interval
    <2> QED BY <1>1, <1>2, <2>2
  <1>4. n - (n - c) = c BY <1>1, <1>2
  <1>5. ClosedOf(content, open) = SubSeq(content, 1, c) BY <1>2, <1>3, <1>4 DEF ClosedOf
  <1>6. PICK q : q = SubSeq(content, 1, c) OBVIOUS
  <1>7. IsSeq(q) /\ Len(q) = c - 1 + 1 /\ \A i \in 1..(c - 1 + 1) : q[i] = content[(1 - 1) + i]
    <2>1. 1 \in Nat \ {0} /\ c \in Nat /\ 1 <= c + 1 /\ c <= Len(content) BY <1>1
    <2> QED BY <1>6, <2>1, SeqSub DEF PartsOK
  <1>8. Len(q) = c /\ \A i \in 1..c : q[i] = content[i] BY <1>1, <1>7
  <1>9. PartsOK(q) BY <1>1, <1>7, <1>8 DEF PartsOK
  <1>10. c = Len(content) => q = content BY <1>7, <1>8, SeqSame DEF PartsOK
  <1> QED BY <1>5, <1>6, <1>8, <1>9, <1>10, PartsAreContent

\* What messages say is a sequence of words.
LEMMA MessagesSayIn ==
  ASSUME NEW messages, IsSeq(messages), \A i \in 1..Len(messages) : ContentOK(messages[i].streamed)
  PROVE  /\ [i \in DOMAIN messages |-> SaidIn(messages[i].streamed)] \in Seq(Seq(Words))
         /\ MessagesSay(messages) \in Seq(Words)
  <1>1. PICK W : W = Seq(Words) OBVIOUS
  <1>2. DOMAIN messages = 1..Len(messages) /\ Len(messages) \in Nat BY SeqHas
  <1>3. \A i \in 1..Len(messages) : SaidIn(messages[i].streamed) \in W BY <1>1, SaidInIn
  <1>4. [i \in DOMAIN messages |-> SaidIn(messages[i].streamed)] \in Seq(W) BY <1>2, <1>3
  <1> QED BY <1>1, <1>4, FlatIn DEF MessagesSay

\* One message more says what it says at the end.
LEMMA MessagesSayAppend ==
  ASSUME NEW messages, NEW f, IsSeq(messages), ContentOK(f.streamed),
         \A i \in 1..Len(messages) : ContentOK(messages[i].streamed)
  PROVE  MessagesSay(Append(messages, f)) = MessagesSay(messages) \o SaidIn(f.streamed)
  <1>1. PICK more : more = Append(messages, f) OBVIOUS
  <1>2. /\ IsSeq(more) /\ Len(more) = Len(messages) + 1 /\ more[Len(messages) + 1] = f
        /\ \A i \in 1..Len(messages) : more[i] = messages[i]
    BY <1>1, SeqAppend
  <1>3. Len(messages) \in Nat /\ DOMAIN messages = 1..Len(messages)
        /\ DOMAIN more = 1..(Len(messages) + 1)
    BY <1>2, SeqHas
  <1>4. \A i \in 1..Len(more) : ContentOK(more[i].streamed)
    <2>1. \A i \in 1..Len(more) : i \in 1..Len(messages) \/ i = Len(messages) + 1 BY <1>2, <1>3
    <2> QED BY <1>2, <2>1
  <1>5. PICK s, t, x :
          /\ s = [i \in DOMAIN messages |-> SaidIn(messages[i].streamed)]
          /\ t = [i \in DOMAIN more |-> SaidIn(more[i].streamed)]
          /\ x = SaidIn(f.streamed)
    OBVIOUS
  <1>6. PICK W : W = Seq(Words) OBVIOUS
  <1>7. s \in Seq(W) /\ t \in Seq(W) /\ x \in W
    BY <1>2, <1>4, <1>5, <1>6, MessagesSayIn, SaidInIn
  <1>8. t = Append(s, x)
    <2>1. Len(s) = Len(messages) /\ Len(t) = Len(messages) + 1 BY <1>3, <1>5, <1>7
    <2>2. \A i \in 1..Len(messages) : t[i] = s[i] BY <1>2, <1>3, <1>5
    <2>3. t[Len(messages) + 1] = x BY <1>2, <1>3, <1>5
    <2>4. PICK q : q = Append(s, x) OBVIOUS
    <2>5. IsSeq(s) /\ IsSeq(t) BY <1>7, SeqIn
    <2>6. IsSeq(q) /\ Len(q) = Len(s) + 1 /\ q[Len(s) + 1] = x /\ \A i \in 1..Len(s) : q[i] = s[i]
      BY <2>4, <2>5, SeqAppend
    <2>7. ASSUME NEW i \in 1..Len(t) PROVE t[i] = q[i]
      <3>1. i \in 1..Len(messages) \/ i = Len(messages) + 1 BY <1>3, <2>1
      <3> QED BY <2>1, <2>2, <2>3, <2>6, <3>1
    <2> QED BY <2>1, <2>4, <2>5, <2>6, <2>7, SeqSame
  <1>9. FlattenSeq(Append(s, x)) = FlattenSeq(s) \o x BY <1>6, <1>7, FlatAppend
  <1> QED BY <1>1, <1>5, <1>8, <1>9 DEF MessagesSay

\* What LoopOK says of the message under way and of the messages so far.
LEMMA LoopHas ==
  ASSUME LoopOK
  PROVE  /\ PartsOK(loop.content) /\ ContentOK(Closed) /\ SaidIn(Closed) \in Seq(Words)
         /\ PartsOK(Closed)
         /\ IsSeq(finals) /\ \A i \in 1..Len(finals) : ContentOK(finals[i].streamed)
         /\ MessagesSay(finals) \in Seq(Words) /\ SaidByRun \in Seq(Words)
  <1>1. PartsOK(loop.content) BY DEF LoopOK, PartsOK
  <1>2. PICK c \in 0..Len(loop.content) : loop.open = (c + 1)..Len(loop.content) BY DEF LoopOK
  <1>3. ContentOK(Closed) /\ PartsOK(Closed) BY <1>1, <1>2, ClosedIs, RunSays
  <1>4. SaidIn(Closed) \in Seq(Words) BY <1>3, SaidInIn
  <1>5. IsSeq(finals) BY DEF LoopOK
  <1>6. \A i \in 1..Len(finals) : ContentOK(finals[i].streamed)
    <2> TAKE i \in 1..Len(finals)
    <2>1. FinalOK(finals[i]) BY DEF LoopOK
    <2> QED BY <2>1, PartsAreContent DEF FinalOK, PartsOK
  <1>7. MessagesSay(finals) \in Seq(Words) BY <1>5, <1>6, MessagesSayIn
  <1>8. SaidByRun \in Seq(Words)
    <2>1. PICK a, b : a = MessagesSay(finals) /\ b = SaidIn(Closed) OBVIOUS
    <2>2. a \o b \in Seq(Words) BY <1>4, <1>7, <2>1
    <2> QED BY <2>1, <2>2, RunSays
  <1> QED BY <1>1, <1>3, <1>4, <1>5, <1>6, <1>7, <1>8

(***************************************************************************)
(* The loop moves on, or its message grows.                                *)
(***************************************************************************)

\* Where the loop may be.
Places == {"prompt", "turn", "message", "tools", "executing", "settle", "ended"}

\* The loop moves on with the same message: LoopOK holds and nothing more is said.
LEMMA LoopSame ==
  ASSUME LoopOK, loop' = [k \in LoopFields |-> loop'[k]], setup' = setup, finals' = finals,
         loop'.content = loop.content, loop'.open = loop.open, loop'.fragments = loop.fragments,
         loop'.calls = loop.calls, loop'.next \in Nat, loop'.started \in BOOLEAN,
         loop'.pc \in Places,
         loop'.pc \notin {"message", "ended"} \/ (loop'.pc = "message" /\ ~loop'.started) =>
           loop.content = <<>>,
         loop'.pc \in {"tools", "executing"} => loop.calls > 0,
         loop'.pc \in {"tools", "executing", "settle"} => finals # <<>>
  PROVE  LoopOK' /\ SaidByRun' = SaidByRun /\ Closed' = Closed
  <1>1. Closed' = Closed BY DEF Closed
  <1>2. SaidByRun' = SaidByRun BY <1>1 DEF SaidByRun
  <1>3. \A f : FinalOK(f)' <=> FinalOK(f) BY DEF FinalOK, Compact
  <1>4. LoopOK' BY <1>3 DEF LoopOK, Places
  <1> QED BY <1>1, <1>2, <1>4

\* Go changes where the loop is.
LEMMA LoopPc ==
  ASSUME LoopOK, NEW p, Go(p)
  PROVE  /\ loop' = [k \in LoopFields |-> loop'[k]] /\ loop'.pc = p
         /\ loop'.content = loop.content /\ loop'.open = loop.open /\ loop'.started = loop.started
         /\ loop'.fragments = loop.fragments /\ loop'.calls = loop.calls /\ loop'.next = loop.next
         /\ loop'.termination = loop.termination
  BY DEF LoopOK, LoopFields, Go

\* What a run has said, when its message says t more.
LEMMA SaysMore ==
  ASSUME NEW a, NEW s, NEW t, NEW u, a \in Seq(Words), s \in Seq(Words), t \in Seq(Words),
         u = s \o t
  PROVE  a \o u = (a \o s) \o t
  BY SeqAssoc, SeqIn

\* A fragment is a sequence of pieces.
LEMMA FragmentIn ==
  ASSUME LoopOK PROVE Fragment \in Fragments
  <1>1. Turn \in Nat
    <2>1. Len(finals) \in Nat BY SeqHas DEF LoopOK
    <2> QED BY <2>1 DEF Turn
  <1>2. loop.fragments \in Nat BY DEF LoopOK
  <1>3. PICK p : p = <<Turn, loop.fragments>> OBVIOUS
  <1>4. p \in Pieces BY <1>1, <1>2, <1>3 DEF Pieces
  <1>5. Fragment = <<p>> BY <1>3 DEF Fragment
  <1> QED BY <1>4, <1>5 DEF Fragments

\* The last part of a message, replaced by p, says more.
LastSays(content, p, said, more) ==
  /\ PartsOK(content) /\ content # <<>> /\ p \in LoopParts /\ said \in Seq(Words)
  /\ PartSays(p) = PartSays(content[Len(content)]) \o said
  /\ more = [content EXCEPT ![Len(content)] = p]

\* Content whose last part says more says more.
LEMMA SaidInExtends ==
  ASSUME NEW content, NEW p, NEW said, NEW more, LastSays(content, p, said, more)
  PROVE  PartsOK(more) /\ Len(more) = Len(content) /\ SaidIn(more) = SaidIn(content) \o said
         /\ (\A i \in 1..(Len(content) - 1) : more[i] = content[i]) /\ more[Len(content)] = p
  <1> USE DEF LastSays
  <1>1. PICK n : n = Len(content) OBVIOUS
  <1>2. n \in Nat \ {0} /\ content = [i \in 1..n |-> content[i]]
    BY <1>1, SeqHas, SeqTail DEF PartsOK
  <1>3. n \in Nat /\ n # 0 BY <1>2
  <1>4. IsSeq(content) /\ n = Len(content) /\ \A i \in 1..n : content[i] \in LoopParts
    BY <1>1 DEF PartsOK
  <1>5. /\ more = [i \in 1..n |-> more[i]] /\ more[n] = p
        /\ \A i \in 1..(n - 1) : more[i] = content[i]
    <2>1. more = [content EXCEPT ![n] = p] BY <1>1
    <2>2. DOMAIN content = 1..n /\ n \in 1..n /\ n \in Nat BY <1>2
    <2>3. more = [i \in 1..n |-> IF i = n THEN p ELSE content[i]] BY <2>1, <2>2
    <2>4. DOMAIN more = 1..n /\ more = [i \in 1..n |-> more[i]] BY <2>3
    <2>5. ASSUME NEW i \in 1..n PROVE more[i] = IF i = n THEN p ELSE content[i] BY <2>3
    <2>6. more[n] = p BY <2>2, <2>5
    <2>7. \A i \in 1..(n - 1) : i \in 1..n /\ i # n BY <2>2
    <2> QED BY <2>4, <2>5, <2>6, <2>7
  <1>6. IsSeq(more) /\ Len(more) = n BY <1>2, <1>5, SeqMade
  <1>7. PartsOK(more)
    <2>1. \A i \in 1..n : i = n \/ i \in 1..(n - 1) BY <1>2
    <2>2. \A i \in 1..n : content[i] \in LoopParts BY <1>1 DEF PartsOK
    <2> QED BY <1>5, <1>6, <2>1, <2>2 DEF PartsOK
  <1>8. PICK front : front = SubSeq(content, 1, n - 1) OBVIOUS
  <1>9. IsSeq(front) /\ Len(front) = n - 1 /\ \A i \in 1..(n - 1) : front[i] = content[i]
    <2>1. PICK k : k = n - 1 OBVIOUS
    <2>2. 1 \in Nat \ {0} /\ k \in Nat /\ 1 <= k + 1 /\ k <= Len(content) /\ k - 1 + 1 = k
      BY <1>1, <1>2, <2>1
    <2>3. /\ IsSeq(front) /\ Len(front) = k - 1 + 1
          /\ \A i \in 1..(k - 1 + 1) : front[i] = content[(1 - 1) + i]
      BY <1>8, <1>4, <2>1, <2>2, SeqSub
    <2> QED BY <2>1, <2>2, <2>3
  <1>10. PartsOK(front)
    <2>1. \A i \in 1..(n - 1) : content[i] \in LoopParts BY <1>4, <1>3
    <2> QED BY <1>9, <2>1 DEF PartsOK
  <1>11. PICK last : last = content[n] OBVIOUS
  <1>12. last \in LoopParts BY <1>11, <1>4, <1>3
  <1>13. content = Append(front, last) /\ more = Append(front, p)
    <2>1. ASSUME NEW z, IsSeq(z), Len(z) = n, \A i \in 1..(n - 1) : z[i] = content[i]
          PROVE  z = Append(front, z[n])
      <3>1. PICK q : q = Append(front, z[n]) OBVIOUS
      <3>2. /\ IsSeq(q) /\ Len(q) = (n - 1) + 1 /\ q[(n - 1) + 1] = z[n]
            /\ \A i \in 1..(n - 1) : q[i] = front[i]
        BY <1>9, <3>1, SeqAppend
      <3>3. (n - 1) + 1 = n /\ \A i \in 1..n : i = n \/ i \in 1..(n - 1) BY <1>2
      <3>4. \A i \in 1..n : q[i] = z[i] BY <1>9, <2>1, <3>2, <3>3
      <3> QED BY <2>1, <3>1, <3>2, <3>3, <3>4, SeqSame
    <2>2. content = Append(front, content[n])
      <3>1. IsSeq(content) /\ Len(content) = n BY <1>1 DEF PartsOK
      <3> QED BY <2>1, <3>1
    <2>3. more = Append(front, more[n]) BY <1>5, <1>6, <2>1
    <2> QED BY <1>5, <1>11, <2>2, <2>3
  <1>14. ContentOK(front) /\ last \in Parts /\ p \in Parts
    BY <1>10, <1>12, PartsAreContent DEF Parts
  <1>15. SaidIn(content) = SaidIn(front) \o PartSays(last)
         /\ SaidIn(more) = SaidIn(front) \o PartSays(p)
    BY <1>13, <1>14, SaidInAppend
  <1>16. PICK a, s, u : a = SaidIn(front) /\ s = PartSays(last) /\ u = PartSays(p) OBVIOUS
  <1>17. a \in Seq(Words) /\ s \in Seq(Words) /\ u = s \o said
    BY <1>1, <1>11, <1>14, <1>16, SaidInIn, PartSaysIn
  <1>18. a \o u = (a \o s) \o said BY <1>17, SaysMore
  <1> QED BY <1>1, <1>5, <1>6, <1>7, <1>15, <1>16, <1>18

\* A step in which the message grows by what is said.
Grown(said) ==
  /\ LoopOK' /\ loop'.pc = "message" /\ loop'.started /\ loop'.calls >= loop.calls
  /\ finals' = finals
  /\ SaidIn(Closed)' = SaidIn(Closed) \o said
  /\ SaidByRun' = SaidByRun \o said

\* How a message grows: its content, what of it is open, the calls so far, and what it says.
Grows(content, open, calls, said) ==
  /\ \E fragments \in Nat :
       loop' = [loop EXCEPT !.content = content, !.open = open, !.fragments = fragments,
                            !.calls = calls]
  /\ setup' = setup /\ finals' = finals /\ Streaming
  /\ calls \in 0..MaxCalls /\ calls >= loop.calls
  /\ PartsOK(content) /\ \E c \in 0..Len(content) : open = (c + 1)..Len(content)
  /\ \A i \in open : content[i] \in LoopCalls
  /\ \A i \in 1..Len(content) : content[i].type = "tool_call" => calls > 0
  /\ said \in Seq(Words)
  /\ SaidIn(ClosedOf(content, open)) = SaidIn(Closed) \o said

\* A message that grows so is one that has grown by what it says.
LEMMA GrownBy ==
  ASSUME LoopOK, NEW content, NEW open, NEW calls, NEW said, Grows(content, open, calls, said)
  PROVE  /\ Grown(said)
         /\ loop'.content = content /\ loop'.open = open /\ loop'.calls = calls
  <1>1. PICK fragments \in Nat :
          loop' = [loop EXCEPT !.content = content, !.open = open, !.fragments = fragments,
                               !.calls = calls]
    BY DEF Grows
  <1>2. /\ loop' = [k \in LoopFields |-> loop'[k]]
        /\ loop'.pc = loop.pc /\ loop'.content = content /\ loop'.open = open
        /\ loop'.started = loop.started /\ loop'.fragments = fragments /\ loop'.calls = calls
        /\ loop'.next = loop.next
    BY <1>1 DEF LoopOK, LoopFields
  <1>3. loop.pc = "message" /\ loop.started BY DEF Streaming, Grows
  <1>4. Closed' = ClosedOf(content, open) BY <1>2 DEF Closed, ClosedOf
  <1>5. SaidByRun' = MessagesSay(finals) \o SaidIn(ClosedOf(content, open))
    BY <1>4 DEF SaidByRun, MessagesSay, Grows
  <1>6. \A f : FinalOK(f)' <=> FinalOK(f) BY DEF FinalOK, Compact, Grows
  <1>7. calls > 0 \/ ~(loop.calls > 0) BY DEF LoopOK, Grows
  <1>8. LoopOK'
    <2>1. /\ IsSeq(content) /\ \A i \in 1..Len(content) : content[i] \in LoopParts
          /\ calls \in 0..MaxCalls
          /\ \A i \in open : content[i] \in LoopCalls
          /\ \A i \in 1..Len(content) : content[i].type = "tool_call" => calls > 0
      BY DEF PartsOK, Grows
    <2>2. \E d \in 0..Len(content) : open = (d + 1)..Len(content) BY DEF Grows
    <2>3. loop'.pc \in Places /\ loop'.pc \notin {"tools", "executing", "settle"}
      BY <1>2, <1>3 DEF Places
    <2>4. loop.next \in Nat /\ loop.started \in BOOLEAN /\ IsSeq(finals)
          /\ \A i \in 1..Len(finals) : FinalOK(finals[i])
      BY DEF LoopOK
    <2>5. MaxCalls' = MaxCalls /\ finals' = finals BY DEF Grows
    <2> QED BY <1>2, <1>3, <1>6, <2>1, <2>2, <2>3, <2>4, <2>5 DEF LoopOK, Places
  <1>9. PICK a, s, u : /\ a = MessagesSay(finals) /\ s = SaidIn(Closed)
                       /\ u = SaidIn(ClosedOf(content, open))
    OBVIOUS
  <1>10. a \in Seq(Words) /\ s \in Seq(Words) BY <1>9, LoopHas
  <1>11. u = s \o said /\ said \in Seq(Words) BY <1>9 DEF Grows
  <1>12. a \o u = (a \o s) \o said BY <1>10, <1>11, SaysMore
  <1>13. SaidByRun = a \o s BY <1>9, RunSays
  <1>14. SaidByRun' = SaidByRun \o said BY <1>5, <1>9, <1>12, <1>13
  <1>15. SaidIn(Closed)' = SaidIn(Closed) \o said BY <1>4, <1>9, <1>11
  <1>16. calls >= loop.calls /\ finals' = finals BY DEF Grows
  <1> QED BY <1>2, <1>3, <1>8, <1>14, <1>15, <1>16 DEF Grown

\* With nothing open the whole content is closed.
LEMMA NothingOpen ==
  ASSUME LoopOK, loop.open = {}
  PROVE  Closed = loop.content /\ Len(loop.content) \in Nat
  <1>1. PICK n : n = Len(loop.content) OBVIOUS
  <1>2. n \in Nat BY <1>1, SeqHas DEF LoopOK
  <1>3. PICK c \in 0..n : loop.open = (c + 1)..n BY <1>1 DEF LoopOK
  <1>4. c = n
    <2>1. c < n => c + 1 \in (c + 1)..n BY <1>2
    <2>2. ~(c < n) BY <1>3, <2>1
    <2>3. c \in Int /\ c <= n BY <1>2, <1>3
    <2> QED BY <1>2, <2>2, <2>3
  <1>5. PartsOK(loop.content) BY LoopHas
  <1>6. ClosedOf(loop.content, loop.open) = loop.content BY <1>1, <1>3, <1>4, <1>5, ClosedIs
  <1> QED BY <1>1, <1>2, <1>6, RunSays

(***************************************************************************)
(* The actions that make a message grow.                                   *)
(***************************************************************************)

\* More text of a text part.
LEMMA TextMore ==
  ASSUME NEW p \in TextParts, NEW f \in Fragments, NEW q, q = [p EXCEPT !.text = @ \o f]
  PROVE  q \in TextParts /\ PartSays(q) = PartSays(p) \o Say("text", f)
  <1>1. PICK old, more : old = p.text /\ more = old \o f OBVIOUS
  <1>2. /\ old \in Fragments
        /\ more \in Fragments /\ Say("text", more) = Say("text", old) \o Say("text", f)
    BY <1>1, SayJoin DEF TextParts
  <1>3. q = [p EXCEPT !.text = more] BY <1>1
  <1>4. q \in TextParts /\ q.text = more BY <1>2, <1>3 DEF TextParts
  <1>5. PartSays(q) = Say("text", more) /\ PartSays(p) = Say("text", old)
    BY <1>1, <1>4, PartSaysIn DEF Parts, LoopParts
  <1> QED BY <1>2, <1>4, <1>5

\* More of a thinking part.
LEMMA ThinkingMore ==
  ASSUME NEW p \in ThinkingParts, NEW f \in Fragments, NEW q, q = [p EXCEPT !.thinking = @ \o f]
  PROVE  q \in ThinkingParts /\ PartSays(q) = PartSays(p) \o Say("thinking", f)
  <1>1. PICK old, more : old = p.thinking /\ more = old \o f OBVIOUS
  <1>2. old \in Fragments /\ more \in Fragments
        /\ Say("thinking", more) = Say("thinking", old) \o Say("thinking", f)
    BY <1>1, SayJoin DEF ThinkingParts
  <1>3. q = [p EXCEPT !.thinking = more] BY <1>1
  <1>4. q \in ThinkingParts /\ q.thinking = more BY <1>2, <1>3 DEF ThinkingParts
  <1>5. PartSays(q) = Say("thinking", more) /\ PartSays(p) = Say("thinking", old)
    BY <1>1, <1>4, PartSaysIn DEF Parts, LoopParts
  <1> QED BY <1>2, <1>4, <1>5

\* A part that is no call comes at the end, or the last part says more.
LEMMA ContentSaysMore ==
  ASSUME LoopOK, Streaming, loop.open = {}, NEW content, NEW said \in Seq(Words), NEW p,
         p \in TextParts \cup ThinkingParts,
         loop' = [loop EXCEPT !.content = content, !.fragments = @ + 1],
         setup' = setup, finals' = finals,
         \/ content = Append(loop.content, p) /\ PartSays(p) = said
         \/ /\ loop.content # <<>> /\ content = [loop.content EXCEPT ![Len(loop.content)] = p]
            /\ PartSays(p) = PartSays(loop.content[Len(loop.content)]) \o said
  PROVE  Grown(said) /\ loop'.open = {}
  <1>1. PartsOK(loop.content) /\ Len(loop.content) \in Nat /\ Closed = loop.content
    BY LoopHas, NothingOpen
  <1>2. p \in LoopParts /\ p \in Parts /\ p.type # "tool_call"
    BY DEF LoopParts, Parts, TextParts, ThinkingParts
  <1>3. PartsOK(content) /\ SaidIn(content) = SaidIn(loop.content) \o said
        /\ \A i \in 1..Len(content) :
             \/ i \in 1..Len(loop.content) /\ content[i] = loop.content[i]
             \/ content[i] = p
    <2>1. CASE content = Append(loop.content, p) /\ PartSays(p) = said
      <3>1. /\ IsSeq(content) /\ Len(content) = Len(loop.content) + 1
            /\ \A i \in 1..Len(loop.content) : content[i] = loop.content[i]
            /\ content[Len(loop.content) + 1] = p
        BY <1>1, <2>1, SeqAppend DEF PartsOK
      <3>2. SaidIn(content) = SaidIn(loop.content) \o said
        BY <1>1, <1>2, <2>1, SaidInAppend, PartsAreContent
      <3>3. \A i \in 1..Len(content) : i \in 1..Len(loop.content) \/ i = Len(loop.content) + 1
        BY <1>1, <3>1
      <3> QED BY <1>1, <1>2, <3>1, <3>2, <3>3 DEF PartsOK
    <2>2. CASE /\ loop.content # <<>> /\ content = [loop.content EXCEPT ![Len(loop.content)] = p]
               /\ PartSays(p) = PartSays(loop.content[Len(loop.content)]) \o said
      <3>1. /\ PartsOK(content) /\ Len(content) = Len(loop.content)
            /\ SaidIn(content) = SaidIn(loop.content) \o said
            /\ \A i \in 1..(Len(loop.content) - 1) : content[i] = loop.content[i]
            /\ content[Len(loop.content)] = p
        <4>1. LastSays(loop.content, p, said, content) BY <1>1, <1>2, <2>2 DEF LastSays
        <4> QED BY <4>1, SaidInExtends
      <3>2. \A i \in 1..Len(content) : i \in 1..(Len(loop.content) - 1) \/ i = Len(loop.content)
        BY <1>1, <3>1
      <3>3. \A i \in 1..(Len(loop.content) - 1) : i \in 1..Len(loop.content) BY <1>1
      <3> QED BY <3>1, <3>2, <3>3
    <2> QED BY <2>1, <2>2
  <1>4. PICK n : n = Len(content) OBVIOUS
  <1>5. n \in Nat BY <1>3, <1>4, SeqHas DEF PartsOK
  <1>6. n \in 0..n /\ {} = (n + 1)..n BY <1>5
  <1>7. ClosedOf(content, {}) = content BY <1>3, <1>4, <1>6, ClosedIs
  <1>8. Grows(content, {}, loop.calls, said)
    <2>1. PICK fragments : fragments = loop.fragments + 1 OBVIOUS
    <2>2. fragments \in Nat BY <2>1 DEF LoopOK
    <2>3. loop' = [loop EXCEPT !.content = content, !.open = {}, !.fragments = fragments,
                               !.calls = loop.calls]
      BY <2>1 DEF LoopOK, LoopFields
    <2>4. loop.calls \in 0..MaxCalls /\ loop.calls >= loop.calls
      BY RunAssumption DEF LoopOK
    <2>5. \A i \in 1..Len(content) : content[i].type = "tool_call" => loop.calls > 0
      BY <1>2, <1>3 DEF LoopOK
    <2>6. SaidIn(ClosedOf(content, {})) = SaidIn(Closed) \o said BY <1>1, <1>3, <1>7
    <2> QED BY <1>3, <1>4, <1>6, <2>2, <2>3, <2>4, <2>5, <2>6 DEF Grows
  <1> QED BY <1>8, GrownBy

\* What Text does to the run, and the frame it sends.
LEMMA TextLoop ==
  ASSUME LoopOK, Text
  PROVE  /\ Grown(Say("text", Fragment)) /\ loop'.open = {} /\ loop.open = {}
         /\ \E i : wire' = wire \o <<Update([type |-> "text_delta", content_index |-> i,
                                             delta |-> Fragment])>>
         /\ LoopStep
  <1>1. /\ Streaming /\ loop.open = {} /\ LoopStep /\ finals' = finals /\ setup' = setup
        /\ \E i : wire' = wire \o <<Update([type |-> "text_delta", content_index |-> i,
                                            delta |-> Fragment])>>
    BY DEF Text, Sends, LoopStep, Running
  <1>2. PICK f : f = Fragment OBVIOUS
  <1>3. f \in Fragments BY <1>2, FragmentIn
  <1>4. PICK said : said = Say("text", f) OBVIOUS
  <1>5. said \in Seq(Words) BY <1>3, <1>4, SayIn
  <1>6. PICK n : n = Len(loop.content) OBVIOUS
  <1>7. CASE ExtendsLast("text")
    <2>1. loop.content # <<>> /\ loop.content[n].type = "text" BY <1>6, <1>7 DEF ExtendsLast, Last
    <2>2. n \in 1..n /\ PartsOK(loop.content) BY <1>6, <2>1, LoopHas, SeqTail DEF PartsOK
    <2>3. PICK p : p = loop.content[n] OBVIOUS
    <2>4. p \in TextParts BY <1>6, <2>1, <2>2, <2>3, KindOfPart DEF PartsOK
    <2>5. PICK q : q = [p EXCEPT !.text = @ \o f] OBVIOUS
    <2>6. q \in TextParts /\ PartSays(q) = PartSays(p) \o said BY <1>3, <1>4, <2>4, <2>5, TextMore
    <2>7. loop' = [loop EXCEPT !.fragments = @ + 1,
                     !.content = [loop.content EXCEPT ![n].text = @ \o Fragment]]
      BY <1>6, <1>7 DEF Text
    <2>8. [loop.content EXCEPT ![n].text = @ \o Fragment] = [loop.content EXCEPT ![n] = q]
      BY <1>2, <2>3, <2>5
    <2>9. PICK content : content = [loop.content EXCEPT ![n] = q] OBVIOUS
    <2>10. loop' = [loop EXCEPT !.content = content, !.fragments = @ + 1]
      BY <2>7, <2>8, <2>9 DEF LoopOK, LoopFields
    <2> QED BY <1>1, <1>2, <1>4, <1>5, <1>6, <2>1, <2>3, <2>6, <2>9, <2>10, ContentSaysMore
  <1>8. CASE ~ExtendsLast("text")
    <2>1. PICK q : q = TextPart(f) OBVIOUS
    <2>2. q \in TextParts /\ q.text = f BY <1>3, <2>1 DEF TextPart, TextParts
    <2>3. PartSays(q) = said BY <1>4, <2>2, PartSaysIn DEF Parts, LoopParts
    <2>4. loop' = [loop EXCEPT !.content = Append(loop.content, q), !.fragments = @ + 1]
      BY <1>2, <1>8, <2>1 DEF Text, LoopOK, LoopFields
    <2> QED BY <1>1, <1>2, <1>4, <1>5, <2>2, <2>3, <2>4, ContentSaysMore
  <1> QED BY <1>7, <1>8

\* What Thinking does to the run, and the frame it sends.
LEMMA ThinkingLoop ==
  ASSUME LoopOK, Thinking
  PROVE  /\ Grown(Say("thinking", Fragment)) /\ loop'.open = {} /\ loop.open = {}
         /\ \/ \E i : wire' = wire \o <<Update([type |-> "thinking_delta", content_index |-> i,
                                                delta |-> Fragment])>>
            \/ wire' = wire \o <<Update([type |-> "reasoning", delta |-> Fragment])>>
         /\ LoopStep
  <1>1. /\ Streaming /\ loop.open = {} /\ LoopStep /\ finals' = finals /\ setup' = setup
        /\ \/ \E i : wire' = wire \o <<Update([type |-> "thinking_delta", content_index |-> i,
                                                delta |-> Fragment])>>
           \/ wire' = wire \o <<Update([type |-> "reasoning", delta |-> Fragment])>>
    BY DEF Thinking, Sends, LoopStep, Running
  <1>2. PICK f : f = Fragment OBVIOUS
  <1>3. f \in Fragments BY <1>2, FragmentIn
  <1>4. PICK said : said = Say("thinking", f) OBVIOUS
  <1>5. said \in Seq(Words) BY <1>3, <1>4, SayIn
  <1>6. PICK n : n = Len(loop.content) OBVIOUS
  <1>7. CASE ExtendsLast("thinking")
    <2>1. loop.content # <<>> /\ loop.content[n].type = "thinking"
      BY <1>6, <1>7 DEF ExtendsLast, Last
    <2>2. n \in 1..n /\ PartsOK(loop.content) BY <1>6, <2>1, LoopHas, SeqTail DEF PartsOK
    <2>3. PICK p : p = loop.content[n] OBVIOUS
    <2>4. p \in ThinkingParts BY <1>6, <2>1, <2>2, <2>3, KindOfPart DEF PartsOK
    <2>5. PICK q : q = [p EXCEPT !.thinking = @ \o f] OBVIOUS
    <2>6. q \in ThinkingParts /\ PartSays(q) = PartSays(p) \o said
      BY <1>3, <1>4, <2>4, <2>5, ThinkingMore
    <2>7. loop' = [loop EXCEPT !.fragments = @ + 1,
                     !.content = [loop.content EXCEPT ![n].thinking = @ \o Fragment]]
      BY <1>6, <1>7 DEF Thinking
    <2>8. [loop.content EXCEPT ![n].thinking = @ \o Fragment] = [loop.content EXCEPT ![n] = q]
      BY <1>2, <2>3, <2>5
    <2>9. PICK content : content = [loop.content EXCEPT ![n] = q] OBVIOUS
    <2>10. loop' = [loop EXCEPT !.content = content, !.fragments = @ + 1]
      BY <2>7, <2>8, <2>9 DEF LoopOK, LoopFields
    <2> QED BY <1>1, <1>2, <1>4, <1>5, <1>6, <2>1, <2>3, <2>6, <2>9, <2>10, ContentSaysMore
  <1>8. CASE ~ExtendsLast("thinking")
    <2>1. PICK q : q = ThinkingPart(f) OBVIOUS
    <2>2. q \in ThinkingParts /\ q.thinking = f BY <1>3, <2>1 DEF ThinkingPart, ThinkingParts
    <2>3. PartSays(q) = said BY <1>4, <2>2, PartSaysIn DEF Parts, LoopParts
    <2>4. loop' = [loop EXCEPT !.content = Append(loop.content, q), !.fragments = @ + 1]
      BY <1>2, <1>8, <2>1 DEF Thinking, LoopOK, LoopFields
    <2> QED BY <1>1, <1>2, <1>4, <1>5, <2>2, <2>3, <2>4, ContentSaysMore
  <1> QED BY <1>7, <1>8

\* What is closed stays closed while calls open and grow.
LEMMA ClosedSame ==
  ASSUME NEW content, NEW more, PartsOK(content), PartsOK(more), NEW open, NEW also,
         NEW c \in Nat,
         c \in 0..Len(content), c \in 0..Len(more),
         open = (c + 1)..Len(content), also = (c + 1)..Len(more),
         \A i \in 1..c : more[i] = content[i]
  PROVE  ClosedOf(more, also) = ClosedOf(content, open)
  <1>1. PICK s, t : s = ClosedOf(content, open) /\ t = ClosedOf(more, also) OBVIOUS
  <1>2. PartsOK(s) /\ Len(s) = c /\ \A i \in 1..c : s[i] = content[i] BY <1>1, ClosedIs
  <1>3. PartsOK(t) /\ Len(t) = c /\ \A i \in 1..c : t[i] = more[i] BY <1>1, ClosedIs
  <1>4. s = t BY <1>2, <1>3, SeqSame DEF PartsOK
  <1> QED BY <1>1, <1>4

\* Nothing said is nothing added.
LEMMA SaysNothing ==
  ASSUME LoopOK
  PROVE  <<>> \in Seq(Words) /\ SaidIn(Closed) = SaidIn(Closed) \o <<>>
  <1>1. PICK s : s = SaidIn(Closed) OBVIOUS
  <1>2. s \in Seq(Words) BY <1>1, LoopHas
  <1>3. s = s \o <<>> BY <1>2
  <1>4. <<>> \in Seq(Words) OBVIOUS
  <1> QED BY <1>1, <1>3, <1>4

\* A call opens: nothing is said of it yet.
LEMMA ToolStartsLoop ==
  ASSUME LoopOK, ToolStarts
  PROVE  /\ Grown(<<>>) /\ LoopStep
         /\ \E i, id :
              /\ loop'.open = loop.open \cup {i}
              /\ loop'.content[i].id = id /\ loop'.content[i].name = "lookup"
              /\ loop'.content[i].arguments_json = <<>>
              /\ \A j \in loop.open : loop'.content[j] = loop.content[j]
              /\ wire' = wire \o <<Update([type |-> "toolcall_start", content_index |-> i,
                                           id |-> id, name |-> "lookup"])>>
  <1>1. PICK n, id, args : n = Len(loop.content) /\ id = CallIds[loop.calls + 1] /\ args = <<>>
    OBVIOUS
  <1>2. PICK p : p = [type |-> "tool_call", id |-> id, name |-> "lookup", arguments_json |-> args]
    OBVIOUS
  <1>3. PICK index, open, content : /\ index = n + 1 /\ open = loop.open \cup {index}
                                    /\ content = Append(loop.content, p)
    OBVIOUS
  <1>4. /\ Streaming /\ loop.calls < MaxCalls /\ finals' = finals /\ setup' = setup /\ LoopStep
        /\ loop' = [loop EXCEPT !.calls = @ + 1, !.open = open, !.content = content]
        /\ wire' = wire \o <<Update([type |-> "toolcall_start", content_index |-> index, id |-> id,
                                     name |-> "lookup"])>>
    BY <1>1, <1>2, <1>3 DEF ToolStarts, Sends, LoopStep, Running
  <1>5. loop.calls \in Nat /\ loop.calls + 1 \in 0..MaxCalls
    BY <1>4, RunAssumption DEF LoopOK
  <1>6. id \in Ids
    <2>1. loop.calls + 1 \in 1..Len(CallIds) BY <1>5, RunAssumption
    <2> QED BY <1>1, <2>1, RunAssumption DEF Ids, ToSet
  <1>7. p \in LoopCalls
    <2>1. args \in Fragments BY <1>1 DEF Fragments
    <2> QED BY <1>2, <1>6, <2>1 DEF LoopCalls, Tools
  <1>8. PartsOK(loop.content) /\ IsSeq(loop.content) /\ n \in Nat
    BY <1>1, LoopHas, SeqHas DEF PartsOK
  <1>9. /\ IsSeq(content) /\ Len(content) = n + 1 /\ content[n + 1] = p
        /\ \A i \in 1..n : content[i] = loop.content[i]
    BY <1>1, <1>3, <1>8, SeqAppend
  <1>10. PICK c \in 0..n : loop.open = (c + 1)..n BY <1>1 DEF LoopOK
  <1>11. c \in Nat /\ c \in 0..(n + 1) /\ open = (c + 1)..(n + 1) BY <1>3, <1>8, <1>10
  <1>12. PartsOK(content)
    <2>1. \A i \in 1..(n + 1) : i \in 1..n \/ i = n + 1 BY <1>8
    <2> QED BY <1>1, <1>7, <1>8, <1>9, <2>1 DEF PartsOK, LoopParts
  <1>13. Grows(content, open, loop.calls + 1, <<>>)
    <2>1. loop.fragments \in Nat
          /\ loop' = [loop EXCEPT !.content = content, !.open = open,
                        !.fragments = loop.fragments, !.calls = loop.calls + 1]
      BY <1>4 DEF LoopOK, LoopFields
    <2>2. \A i \in open : content[i] \in LoopCalls
      <3>1. \A i \in open : i = n + 1 \/ i \in loop.open BY <1>3
      <3>2. \A i \in loop.open : loop.content[i] \in LoopCalls BY DEF LoopOK
      <3>3. \A i \in loop.open : i \in 1..n BY <1>8, <1>10
      <3> QED BY <1>7, <1>9, <3>1, <3>2, <3>3
    <2>3. loop.calls + 1 > 0 /\ loop.calls + 1 >= loop.calls BY <1>5
    <2>4. ClosedOf(content, open) = Closed
      <3>1. \A i \in 1..c : i \in 1..n BY <1>8, <1>10
      <3>2. c \in 0..Len(loop.content) /\ c \in 0..Len(content) BY <1>1, <1>9, <1>10, <1>11
      <3>3. loop.open = (c + 1)..Len(loop.content) /\ open = (c + 1)..Len(content)
        BY <1>1, <1>9, <1>10, <1>11
      <3>4. \A i \in 1..c : content[i] = loop.content[i] BY <1>9, <3>1
      <3>5. ClosedOf(content, open) = ClosedOf(loop.content, loop.open)
        BY <1>8, <1>11, <1>12, <3>2, <3>3, <3>4, ClosedSame
      <3> QED BY <3>5, RunSays
    <2>5. c \in 0..Len(content) /\ open = (c + 1)..Len(content) BY <1>9, <1>11
    <2> QED BY <1>4, <1>5, <1>12, <2>1, <2>2, <2>3, <2>4, <2>5, SaysNothing DEF Grows
  <1>14. Grown(<<>>) /\ loop'.content = content /\ loop'.open = open BY <1>13, GrownBy
  <1>15. content[index].id = id /\ content[index].name = "lookup"
         /\ content[index].arguments_json = args
    BY <1>2, <1>3, <1>9
  <1>16. \A j \in loop.open : content[j] = loop.content[j]
    <2>1. \A j \in loop.open : j \in 1..n BY <1>8, <1>10
    <2> QED BY <1>9, <2>1
  <1> QED BY <1>1, <1>3, <1>4, <1>14, <1>15, <1>16

\* The other open calls are as they were.
SameBut(index) == \A j \in loop.open : j # index => loop'.content[j] = loop.content[j]

\* An open call has more arguments: nothing is said of it yet.
LEMMA ToolGrowsLoop ==
  ASSUME LoopOK, NEW index, index \in loop.open, ToolGrows(index)
  PROVE  /\ Grown(<<>>) /\ LoopStep
         /\ loop'.open = loop.open
         /\ loop'.content[index].id = loop.content[index].id
         /\ loop'.content[index].name = loop.content[index].name
         /\ loop'.content[index].arguments_json = loop.content[index].arguments_json \o Fragment
         /\ SameBut(index)
         /\ wire' = wire \o <<Update([type |-> "toolcall_delta", content_index |-> index,
                                      delta |-> Fragment])>>
  <1>1. PICK n, f, p : n = Len(loop.content) /\ f = Fragment /\ p = loop.content[index] OBVIOUS
  <1>2. PICK args : args = p.arguments_json \o f OBVIOUS
  <1>3. PICK q : q = [p EXCEPT !.arguments_json = args] OBVIOUS
  <1>4. PICK content : content = [loop.content EXCEPT ![index] = q] OBVIOUS
  <1>5. PICK c \in 0..n : loop.open = (c + 1)..n BY <1>1 DEF LoopOK
  <1>6. PartsOK(loop.content) /\ IsSeq(loop.content) /\ n \in Nat
        /\ loop.content = [i \in 1..n |-> loop.content[i]]
    BY <1>1, LoopHas, SeqHas DEF PartsOK
  <1>7. index \in 1..n /\ index \in (c + 1)..n BY <1>5, <1>6
  <1>8. /\ Streaming /\ finals' = finals /\ setup' = setup /\ LoopStep
        /\ loop' = [loop EXCEPT !.fragments = @ + 1, !.content = content]
        /\ wire' = wire \o <<Update([type |-> "toolcall_delta", content_index |-> index,
                                     delta |-> Fragment])>>
    <2>1. /\ Streaming /\ finals' = finals /\ setup' = setup /\ LoopStep
          /\ loop' = [loop EXCEPT !.fragments = @ + 1,
                        !.content[index].arguments_json = @ \o Fragment]
          /\ wire' = wire \o <<Update([type |-> "toolcall_delta", content_index |-> index,
                                       delta |-> Fragment])>>
      BY DEF ToolGrows, Sends, LoopStep, Running
    <2>2. loop' = [loop EXCEPT !.fragments = @ + 1, !.content = content]
      BY <1>1, <1>2, <1>3, <1>4, <2>1 DEF LoopOK, LoopFields
    <2> QED BY <2>1, <2>2
  <1>9. f \in Fragments /\ p \in LoopCalls BY <1>1, FragmentIn DEF LoopOK
  <1>10. args \in Fragments BY <1>2, <1>9 DEF LoopCalls, Fragments
  <1>11. q \in LoopCalls /\ q.id = p.id /\ q.name = p.name /\ q.arguments_json = args
    BY <1>3, <1>9, <1>10 DEF LoopCalls
  <1>12. /\ content = [i \in 1..n |-> content[i]] /\ content[index] = q
         /\ \A i \in 1..n : i # index => content[i] = loop.content[i]
    <2>1. content = [i \in 1..n |-> IF i = index THEN q ELSE loop.content[i]]
      BY <1>4, <1>6, <1>7
    <2> QED BY <1>7, <2>1
  <1>13. IsSeq(content) /\ Len(content) = n BY <1>6, <1>12, SeqMade
  <1>14. PartsOK(content)
    <2>1. \A i \in 1..n : loop.content[i] \in LoopParts BY <1>1, <1>6 DEF PartsOK
    <2> QED BY <1>11, <1>12, <1>13, <2>1 DEF PartsOK, LoopParts
  <1>15. Grows(content, loop.open, loop.calls, <<>>)
    <2>1. PICK fragments : fragments = loop.fragments + 1 OBVIOUS
    <2>2. fragments \in Nat
          /\ loop' = [loop EXCEPT !.content = content, !.open = loop.open,
                        !.fragments = fragments, !.calls = loop.calls]
      <3>1. fragments \in Nat BY <2>1 DEF LoopOK
      <3>2. loop' = [loop EXCEPT !.content = content, !.open = loop.open,
                       !.fragments = fragments, !.calls = loop.calls]
        BY <1>8, <2>1 DEF LoopOK, LoopFields
      <3> QED BY <3>1, <3>2
    <2>3. \A i \in loop.open : content[i] \in LoopCalls
      <3>1. \A i \in loop.open : loop.content[i] \in LoopCalls BY DEF LoopOK
      <3>2. \A i \in loop.open : i \in 1..n BY <1>5, <1>6
      <3> QED BY <1>11, <1>12, <3>1, <3>2
    <2>4. loop.calls \in 0..MaxCalls /\ loop.calls >= loop.calls BY RunAssumption DEF LoopOK
    <2>5. \A i \in 1..Len(content) : content[i].type = "tool_call" => loop.calls > 0
      <3>1. p.type = "tool_call" BY <1>9 DEF LoopCalls
      <3>2. loop.calls > 0 BY <1>1, <1>7, <3>1 DEF LoopOK
      <3> QED BY <3>2
    <2>6. ClosedOf(content, loop.open) = Closed
      <3>1. c \in Nat /\ \A i \in 1..c : i \in 1..n /\ i # index BY <1>5, <1>6, <1>7
      <3>2. c \in 0..Len(loop.content) /\ c \in 0..Len(content) BY <1>1, <1>5, <1>13
      <3>3. loop.open = (c + 1)..Len(loop.content) /\ loop.open = (c + 1)..Len(content)
        BY <1>1, <1>5, <1>13
      <3>4. \A i \in 1..c : content[i] = loop.content[i] BY <1>12, <3>1
      <3>5. PICK open : open = loop.open OBVIOUS
      <3>6. open = (c + 1)..Len(loop.content) /\ open = (c + 1)..Len(content) /\ c \in Nat
        BY <3>1, <3>3, <3>5
      <3>7. PartsOK(loop.content) BY <1>6
      <3>8. ClosedOf(content, open) = ClosedOf(loop.content, open)
        BY <1>14, <3>2, <3>4, <3>6, <3>7, ClosedSame
      <3> QED BY <3>5, <3>8, RunSays
    <2>7. c \in 0..Len(content) /\ loop.open = (c + 1)..Len(content) BY <1>5, <1>13
    <2> QED BY <1>8, <1>14, <2>2, <2>3, <2>4, <2>5, <2>6, <2>7, SaysNothing DEF Grows
  <1>16. Grown(<<>>) /\ loop'.content = content /\ loop'.open = loop.open BY <1>15, GrownBy
  <1>17. \A j \in loop.open : j # index => content[j] = loop.content[j]
    <2>1. \A j \in loop.open : j \in 1..n BY <1>5, <1>6
    <2> QED BY <1>12, <2>1
  <1>18. SameBut(index) BY <1>16, <1>17 DEF SameBut
  <1> QED BY <1>1, <1>2, <1>8, <1>11, <1>12, <1>16, <1>18

\* The call is closed, and with it said.
LEMMA ToolClosesLoop ==
  ASSUME LoopOK, NEW index, index \in loop.open, ToolCloses(index)
  PROVE  /\ Grown(SaysCall(loop.content[index].id, loop.content[index])) /\ LoopStep
         /\ loop.content[index] \in LoopCalls
         /\ loop'.open = loop.open \ {index} /\ loop'.content = loop.content
         /\ LET whole == [k \in {"id", "name", "arguments_json"} |-> loop.content[index][k]]
                bare == [type |-> "toolcall_end", content_index |-> index]
            IN  wire' = wire \o <<Update(IF Compact THEN bare ELSE bare ++ whole)>>
  <1> DEFINE whole == [k \in {"id", "name", "arguments_json"} |-> loop.content[index][k]]
             bare == [type |-> "toolcall_end", content_index |-> index]
             frame == Update(IF Compact THEN bare ELSE bare ++ whole)
  <1>1. PICK n, p, open :
               n = Len(loop.content) /\ p = loop.content[index] /\ open = loop.open \ {index}
    OBVIOUS
  <1>2. /\ Streaming /\ finals' = finals /\ setup' = setup /\ LoopStep
        /\ \A other \in loop.open : index <= other
        /\ loop' = [loop EXCEPT !.open = open]
        /\ wire' = wire \o <<frame>>
    BY <1>1 DEF ToolCloses, Sends, LoopStep, Running
  <1> HIDE DEF frame
  <1>3. PICK c \in 0..n : loop.open = (c + 1)..n BY <1>1 DEF LoopOK
  <1>4. PartsOK(loop.content) /\ IsSeq(loop.content) /\ n \in Nat
    BY <1>1, LoopHas, SeqHas DEF PartsOK
  <1>5. PICK k : k = c + 1 OBVIOUS
  <1>6. index = k /\ k \in 1..n /\ c \in Nat /\ k \in Nat
    <2>1. index \in (c + 1)..n BY <1>3
    <2>2. c + 1 \in (c + 1)..n BY <1>3, <1>4, <2>1
    <2>3. index <= c + 1 BY <1>2, <1>3, <2>2
    <2> QED BY <1>3, <1>4, <1>5, <2>1, <2>3
  <1>7. open = (k + 1)..n BY <1>1, <1>3, <1>4, <1>5, <1>6
  <1>8. p \in LoopCalls BY <1>1 DEF LoopOK
  <1>9. PICK s, t : s = ClosedOf(loop.content, loop.open) /\ t = ClosedOf(loop.content, open)
    OBVIOUS
  <1>10. /\ PartsOK(s) /\ Len(s) = c /\ ContentOK(s)
         /\ \A i \in 1..c : s[i] = loop.content[i]
    <2>1. c \in 0..Len(loop.content) /\ loop.open = (c + 1)..Len(loop.content) BY <1>1, <1>3
    <2> QED BY <1>4, <1>9, <2>1, ClosedIs
  <1>11. /\ PartsOK(t) /\ Len(t) = k
         /\ \A i \in 1..k : t[i] = loop.content[i]
    <2>1. k \in 0..Len(loop.content) /\ open = (k + 1)..Len(loop.content) BY <1>1, <1>6, <1>7
    <2> QED BY <1>4, <1>9, <2>1, ClosedIs
  <1>12. t = Append(s, p)
    <2>1. PICK q : q = Append(s, p) OBVIOUS
    <2>2. IsSeq(q) /\ Len(q) = c + 1 /\ q[c + 1] = p /\ \A i \in 1..c : q[i] = s[i]
      BY <1>10, <2>1, SeqAppend DEF PartsOK
    <2>3. \A i \in 1..k : i \in 1..c \/ i = k BY <1>5, <1>6
    <2>4. \A i \in 1..k : q[i] = t[i] BY <1>1, <1>5, <1>6, <1>10, <1>11, <2>2, <2>3
    <2> QED BY <1>5, <1>11, <2>1, <2>2, <2>4, SeqSame DEF PartsOK
  <1>13. PICK said : said = SaysCall(p.id, p) OBVIOUS
  <1>14. PartSays(p) = said /\ said \in Seq(Words) /\ p \in Parts
    BY <1>8, <1>13, PartSaysIn DEF Parts, LoopParts
  <1>15. SaidIn(t) = SaidIn(s) \o said BY <1>10, <1>12, <1>14, SaidInAppend
  <1>16. Grows(loop.content, open, loop.calls, said)
    <2>1. loop.fragments \in Nat
          /\ loop' = [loop EXCEPT !.content = loop.content, !.open = open,
                        !.fragments = loop.fragments, !.calls = loop.calls]
      BY <1>2 DEF LoopOK, LoopFields
    <2>2. \A i \in open : loop.content[i] \in LoopCalls BY <1>1 DEF LoopOK
    <2>3. loop.calls \in 0..MaxCalls /\ loop.calls >= loop.calls BY RunAssumption DEF LoopOK
    <2>4. \A i \in 1..Len(loop.content) : loop.content[i].type = "tool_call" => loop.calls > 0
      BY DEF LoopOK
    <2>5. SaidIn(ClosedOf(loop.content, open)) = SaidIn(Closed) \o said
      BY <1>9, <1>15, RunSays
    <2>6. k \in 0..Len(loop.content) /\ open = (k + 1)..Len(loop.content) BY <1>1, <1>6, <1>7
    <2> QED BY <1>2, <1>4, <1>14, <2>1, <2>2, <2>3, <2>4, <2>5, <2>6 DEF Grows
  <1>17. Grown(said) /\ loop'.content = loop.content /\ loop'.open = open BY <1>16, GrownBy
  <1> QED BY <1>1, <1>2, <1>8, <1>13, <1>17 DEF frame

(***************************************************************************)
(* What each action of the loop does to the run, and the frames it sends.  *)
(***************************************************************************)

\* A step of the loop that sends the frames and has the run say what it says.
Steps(frames, said) ==
  /\ LoopOK' /\ setup' = setup /\ UNCHANGED <<buffers, seen, out>>
  /\ setup.op # "resolve"
  /\ loop'.calls >= loop.calls /\ said \in Seq(Words)
  /\ wire' = wire \o frames /\ SaidByRun' = SaidByRun \o said

\* A message that grows is such a step.
LEMMA GrownSteps ==
  ASSUME NEW said \in Seq(Words), Grown(said), LoopStep, NEW frames, wire' = wire \o frames
  PROVE  Steps(frames, said)
  BY DEF Grown, LoopStep, Running, Steps

\* A step in which the run says nothing and its messages are the same.
Stays(frames) ==
  /\ Steps(frames, <<>>) /\ Closed' = Closed /\ finals' = finals
  /\ loop'.open = loop.open /\ loop'.content = loop.content /\ loop'.calls = loop.calls

\* A step of the loop that only moves on is such a step.
LEMMA StaysSo ==
  ASSUME LoopOK, NEW frames, Running, UNCHANGED <<finals, buffers, seen, out>>,
         wire' = wire \o frames, loop' = [k \in LoopFields |-> loop'[k]],
         loop'.content = loop.content, loop'.open = loop.open, loop'.fragments = loop.fragments,
         loop'.calls = loop.calls, loop'.next \in Nat, loop'.started \in BOOLEAN,
         loop'.pc \in Places,
         loop'.pc \notin {"message", "ended"} \/ (loop'.pc = "message" /\ ~loop'.started) =>
           loop.content = <<>>,
         loop'.pc \in {"tools", "executing"} => loop.calls > 0,
         loop'.pc \in {"tools", "executing", "settle"} => finals # <<>>
  PROVE  Stays(frames)
  <1>1. setup' = setup /\ setup.op # "resolve" BY DEF Running
  <1>2. LoopOK' /\ SaidByRun' = SaidByRun /\ Closed' = Closed BY <1>1, LoopSame
  <1>3. PICK s : s = SaidByRun OBVIOUS
  <1>4. s \in Seq(Words) BY <1>3, LoopHas
  <1>5. s = s \o <<>> BY <1>4
  <1>6. SaidByRun' = SaidByRun \o <<>> BY <1>2, <1>3, <1>5
  <1>7. <<>> \in Seq(Words) OBVIOUS
  <1>8. loop'.calls >= loop.calls BY RunAssumption DEF LoopOK
  <1> QED BY <1>1, <1>2, <1>6, <1>7, <1>8 DEF Stays, Steps

\* What each action of the loop does to the run, and the frames it sends.
LEMMA PromptedLoop ==
  ASSUME LoopOK, Prompted
  PROVE  /\ Stays((IF Compact THEN <<>> ELSE OtherMessage)
                    \o <<AgentEventFrame([type |-> "agent_start"])>>)
         /\ loop.pc = "prompt" /\ loop'.pc = "turn"
  <1>1. PICK frames : frames = (IF Compact THEN <<>> ELSE OtherMessage)
                                 \o <<AgentEventFrame([type |-> "agent_start"])>>
    OBVIOUS
  <1>2. /\ loop.pc = "prompt" /\ Go("turn") /\ wire' = wire \o frames /\ Running
        /\ UNCHANGED <<finals, buffers, seen, out>>
    BY <1>1 DEF Prompted, Sends, LoopStep
  <1>3. loop.content = <<>> /\ loop.next \in Nat /\ loop.started \in BOOLEAN
    BY <1>2 DEF LoopOK
  <1>4. Stays(frames) /\ loop'.pc = "turn" BY <1>2, <1>3, LoopPc, StaysSo DEF Places
  <1> QED BY <1>1, <1>2, <1>4

LEMMA TurnBeginsLoop ==
  ASSUME LoopOK, TurnBegins
  PROVE  /\ Stays(<<AgentEventFrame([type |-> "turn_start"])>>)
         /\ loop.pc = "turn" /\ loop'.pc = "message" /\ loop'.started = FALSE
  <1>1. PICK frames : frames = <<AgentEventFrame([type |-> "turn_start"])>> OBVIOUS
  <1>2. /\ loop.pc = "turn" /\ wire' = wire \o frames /\ Running
        /\ UNCHANGED <<finals, buffers, seen, out>>
        /\ loop' = [loop EXCEPT !.pc = "message", !.content = <<>>, !.started = FALSE, !.next = 0]
    BY <1>1 DEF TurnBegins, Sends, LoopStep
  <1>3. loop.content = <<>> BY <1>2 DEF LoopOK
  <1>4. /\ loop' = [k \in LoopFields |-> loop'[k]] /\ loop'.pc = "message"
        /\ loop'.content = loop.content /\ loop'.open = loop.open /\ loop'.started = FALSE
        /\ loop'.fragments = loop.fragments /\ loop'.calls = loop.calls /\ loop'.next = 0
    BY <1>2, <1>3 DEF LoopOK, LoopFields
  <1>5. Stays(frames) BY <1>2, <1>3, <1>4, StaysSo DEF Places
  <1> QED BY <1>1, <1>2, <1>4, <1>5

LEMMA ProviderStartsLoop ==
  ASSUME LoopOK, ProviderStarts
  PROVE  /\ Stays(<<AgentEventFrame([type |-> "message_start"] ++ Metadata)>>)
         /\ loop.pc = "message" /\ loop'.pc = "message" /\ loop'.started = TRUE
         /\ ~loop.started /\ loop.content = <<>>
  <1>1. PICK frames : frames = <<AgentEventFrame([type |-> "message_start"] ++ Metadata)>> OBVIOUS
  <1>2. /\ loop.pc = "message" /\ ~loop.started /\ wire' = wire \o frames /\ Running
        /\ UNCHANGED <<finals, buffers, seen, out>>
        /\ loop' = [loop EXCEPT !.started = TRUE]
    BY <1>1 DEF ProviderStarts, Sends, LoopStep
  <1>3. loop.content = <<>> /\ loop.next \in Nat BY <1>2 DEF LoopOK
  <1>4. /\ loop' = [k \in LoopFields |-> loop'[k]] /\ loop'.pc = "message"
        /\ loop'.content = loop.content /\ loop'.open = loop.open /\ loop'.started = TRUE
        /\ loop'.fragments = loop.fragments /\ loop'.calls = loop.calls /\ loop'.next = loop.next
    BY <1>2 DEF LoopOK, LoopFields
  <1>5. Stays(frames) BY <1>2, <1>3, <1>4, StaysSo DEF Places
  <1> QED BY <1>1, <1>2, <1>3, <1>4, <1>5

LEMMA ToolBeginsLoop ==
  ASSUME LoopOK, NEW known \in BOOLEAN, ToolBegins(known)
  PROVE  LET begun == AgentEventFrame([type |-> "tool_execution_start", tool_call_id |-> ThisCall.id])
             ended == AgentEventFrame([type |-> "tool_execution_end", tool_call_id |-> ThisCall.id])
         IN  /\ loop.pc = "tools" /\ loop.calls > 0 /\ reply' = reply
             /\ \/ /\ Stays(<<begun, [type |-> "tool_execute",
                                      payload |-> [tool_call_id |-> ThisCall.id]]>>)
                   /\ loop'.pc = "executing"
                \/ Stays(<<begun, ended>>) /\ loop'.pc = "tools"
  <1>1. PICK begun, ended, execute :
          /\ begun = AgentEventFrame([type |-> "tool_execution_start", tool_call_id |-> ThisCall.id])
          /\ ended = AgentEventFrame([type |-> "tool_execution_end", tool_call_id |-> ThisCall.id])
          /\ execute = [type |-> "tool_execute", payload |-> [tool_call_id |-> ThisCall.id]]
    OBVIOUS
  <1>2. /\ loop.pc = "tools" /\ Running /\ UNCHANGED <<finals, buffers, seen, out>> /\ reply' = reply
        /\ \/ Go("executing") /\ wire' = wire \o <<begun, execute>>
           \/ loop' = [loop EXCEPT !.next = @ + 1] /\ wire' = wire \o <<begun, ended>>
    BY <1>1 DEF ToolBegins, Sends, LoopStep
  <1>3. loop.content = <<>> /\ loop.next \in Nat /\ loop.started \in BOOLEAN /\ loop.calls > 0
        /\ finals # <<>>
    BY <1>2 DEF LoopOK
  <1>4. CASE Go("executing") /\ wire' = wire \o <<begun, execute>>
    <2>1. PICK frames : frames = <<begun, execute>> OBVIOUS
    <2>2. wire' = wire \o frames BY <1>4, <2>1
    <2>3. /\ loop' = [k \in LoopFields |-> loop'[k]] /\ loop'.pc = "executing"
          /\ loop'.content = loop.content /\ loop'.open = loop.open /\ loop'.started = loop.started
          /\ loop'.fragments = loop.fragments /\ loop'.calls = loop.calls
          /\ loop'.next = loop.next
      BY <1>4, LoopPc
    <2>4. Stays(frames) BY <1>2, <1>3, <2>2, <2>3, StaysSo DEF Places
    <2> QED BY <1>1, <1>2, <1>3, <2>1, <2>3, <2>4
  <1>5. CASE loop' = [loop EXCEPT !.next = @ + 1] /\ wire' = wire \o <<begun, ended>>
    <2>1. PICK frames : frames = <<begun, ended>> OBVIOUS
    <2>2. wire' = wire \o frames BY <1>5, <2>1
    <2>3. /\ loop' = [k \in LoopFields |-> loop'[k]] /\ loop'.pc = "tools"
          /\ loop'.content = loop.content /\ loop'.open = loop.open /\ loop'.started = loop.started
          /\ loop'.fragments = loop.fragments /\ loop'.calls = loop.calls
          /\ loop'.next = loop.next + 1
      BY <1>2, <1>5 DEF LoopOK, LoopFields
    <2>4. loop'.next \in Nat BY <1>3, <2>3
    <2>5. Stays(frames) BY <1>2, <1>3, <2>2, <2>3, <2>4, StaysSo DEF Places
    <2> QED BY <1>1, <1>2, <1>3, <2>1, <2>3, <2>5
  <1> QED BY <1>2, <1>4, <1>5

LEMMA ToolEndsLoop ==
  ASSUME LoopOK, ToolEnds
  PROVE  /\ Stays(<<AgentEventFrame([type |-> "tool_execution_end", tool_call_id |-> ThisCall.id])>>)
         /\ loop.pc = "executing" /\ loop'.pc = "tools" /\ loop.calls > 0
         /\ reply = TRUE /\ reply' = FALSE
  <1>1. PICK frames :
               frames = <<AgentEventFrame([type |-> "tool_execution_end", tool_call_id |-> ThisCall.id])>>
    OBVIOUS
  <1>2. /\ loop.pc = "executing" /\ wire' = wire \o frames /\ Running
        /\ UNCHANGED <<finals, buffers, seen, out>> /\ reply /\ reply' = FALSE
        /\ loop' = [loop EXCEPT !.pc = "tools", !.next = @ + 1]
    BY <1>1 DEF ToolEnds, Sends
  <1>3. loop.content = <<>> /\ loop.next \in Nat /\ loop.started \in BOOLEAN /\ loop.calls > 0
        /\ finals # <<>>
    BY <1>2 DEF LoopOK
  <1>4. /\ loop' = [k \in LoopFields |-> loop'[k]] /\ loop'.pc = "tools"
        /\ loop'.content = loop.content /\ loop'.open = loop.open /\ loop'.started = loop.started
        /\ loop'.fragments = loop.fragments /\ loop'.calls = loop.calls
        /\ loop'.next = loop.next + 1
    BY <1>2 DEF LoopOK, LoopFields
  <1>5. loop'.next \in Nat BY <1>3, <1>4
  <1>6. Stays(frames) BY <1>2, <1>3, <1>4, <1>5, StaysSo DEF Places
  <1> QED BY <1>1, <1>2, <1>3, <1>4, <1>6

LEMMA ToolsDoneLoop ==
  ASSUME LoopOK, ToolsDone
  PROVE  /\ \E n \in Nat :
              Stays(<<TurnEndFrame("tool_use", "")>>
                      \o (IF Compact THEN <<>> ELSE FlattenSeq([i \in 1..n |-> OtherMessage])))
         /\ loop.pc = "tools" /\ loop'.pc \in {"turn", "settle"}
         /\ finals # <<>>
  <1>1. PICK n : n = loop.next OBVIOUS
  <1>2. PICK frames : frames = <<TurnEndFrame("tool_use", "")>>
                      \o (IF Compact THEN <<>> ELSE FlattenSeq([i \in 1..n |-> OtherMessage]))
    OBVIOUS
  <1>3. /\ loop.pc = "tools" /\ wire' = wire \o frames /\ Running
        /\ UNCHANGED <<finals, buffers, seen, out>>
        /\ \/ loop' = [loop EXCEPT !.pc = "settle", !.termination = "max_turns"]
           \/ loop' = [loop EXCEPT !.pc = "turn"]
    BY <1>1, <1>2 DEF ToolsDone, Sends, LoopStep
  <1>4. loop.content = <<>> /\ n \in Nat /\ loop.started \in BOOLEAN /\ loop.calls > 0
        /\ finals # <<>>
    BY <1>1, <1>3 DEF LoopOK
  <1>5. /\ loop' = [k \in LoopFields |-> loop'[k]] /\ loop'.pc \in {"turn", "settle"}
        /\ loop'.content = loop.content /\ loop'.open = loop.open /\ loop'.started = loop.started
        /\ loop'.fragments = loop.fragments /\ loop'.calls = loop.calls
        /\ loop'.next = n
    BY <1>1, <1>3 DEF LoopOK, LoopFields
  <1>6. Stays(frames) BY <1>3, <1>4, <1>5, StaysSo DEF Places
  <1> QED BY <1>2, <1>3, <1>4, <1>5, <1>6

LEMMA SettlesLoop ==
  ASSUME LoopOK, Settles
  PROVE  /\ Stays(<<ResultFrame, AgentEndFrame>>) \/ (Compact /\ Stays(<<AgentEndFrame>>))
         /\ loop.pc = "settle" /\ loop'.pc = "ended" /\ loop'.termination = loop.termination
         /\ reply' = reply
  <1>1. /\ loop.pc = "settle" /\ Go("ended") /\ Running /\ reply' = reply
        /\ UNCHANGED <<finals, buffers, seen, out>>
        /\ \/ wire' = wire \o <<ResultFrame, AgentEndFrame>>
           \/ Compact /\ wire' = wire \o <<AgentEndFrame>>
    BY DEF Settles, Sends, LoopStep
  <1>2. ASSUME NEW frames, wire' = wire \o frames PROVE Stays(frames)
    <2>1. loop.next \in Nat /\ loop.started \in BOOLEAN BY DEF LoopOK
    <2>2. /\ loop' = [k \in LoopFields |-> loop'[k]] /\ loop'.pc = "ended"
          /\ loop'.content = loop.content /\ loop'.open = loop.open /\ loop'.started = loop.started
          /\ loop'.fragments = loop.fragments /\ loop'.calls = loop.calls
          /\ loop'.next = loop.next
      BY <1>1, LoopPc
    <2> QED BY <1>1, <1>2, <2>1, <2>2, StaysSo DEF Places
  <1>3. loop'.pc = "ended" /\ loop'.termination = loop.termination BY <1>1, LoopPc
  <1>4. CASE wire' = wire \o <<ResultFrame, AgentEndFrame>>
    <2>1. PICK frames : frames = <<ResultFrame, AgentEndFrame>> OBVIOUS
    <2> QED BY <1>1, <1>2, <1>3, <1>4, <2>1
  <1>5. CASE Compact /\ wire' = wire \o <<AgentEndFrame>>
    <2>1. PICK frames : frames = <<AgentEndFrame>> OBVIOUS
    <2> QED BY <1>1, <1>2, <1>3, <1>5, <2>1
  <1> QED BY <1>1, <1>4, <1>5

LEMMA RunFailsLoop ==
  ASSUME LoopOK, RunFails
  PROVE  /\ \/ Stays(<<AgentEventFrame([type |-> "error"] ++ Failure),
                      [type |-> "agent_error", payload |-> Failure]>>)
            \/ Stays(<<[type |-> "agent_error", payload |-> Failure]>>)
         /\ loop.pc \in {"message", "tools", "settle"} /\ loop'.pc = "ended" /\ reply' = reply
         /\ loop'.termination = loop.termination
  <1>1. PICK event, settled : /\ event = AgentEventFrame([type |-> "error"] ++ Failure)
                              /\ settled = [type |-> "agent_error", payload |-> Failure]
    OBVIOUS
  <1>2. /\ loop.pc \in {"message", "tools", "settle"} /\ Go("ended") /\ Running /\ reply' = reply
        /\ UNCHANGED <<finals, buffers, seen, out>>
        /\ \/ wire' = wire \o <<event, settled>>
           \/ wire' = wire \o <<settled>>
    BY <1>1 DEF RunFails, Sends, LoopStep, Failure
  <1>3. ASSUME NEW frames, wire' = wire \o frames PROVE Stays(frames)
    <2>1. loop.next \in Nat /\ loop.started \in BOOLEAN BY DEF LoopOK
    <2>2. /\ loop' = [k \in LoopFields |-> loop'[k]] /\ loop'.pc = "ended"
          /\ loop'.content = loop.content /\ loop'.open = loop.open /\ loop'.started = loop.started
          /\ loop'.fragments = loop.fragments /\ loop'.calls = loop.calls
          /\ loop'.next = loop.next
      BY <1>2, LoopPc
    <2> QED BY <1>2, <1>3, <2>1, <2>2, StaysSo DEF Places
  <1>4. loop'.pc = "ended" /\ loop'.termination = loop.termination BY <1>2, LoopPc
  <1>5. CASE wire' = wire \o <<event, settled>>
    <2>1. PICK frames : frames = <<event, settled>> OBVIOUS
    <2> QED BY <1>1, <1>2, <1>3, <1>4, <1>5, <2>1
  <1>6. CASE wire' = wire \o <<settled>>
    <2>1. PICK frames : frames = <<settled>> OBVIOUS
    <2> QED BY <1>1, <1>2, <1>3, <1>4, <1>6, <2>1
  <1> QED BY <1>2, <1>5, <1>6

\* A message that is complete is among the run's messages.
Completed(f, pc) ==
  /\ loop'.pc = pc /\ loop'.open = {} /\ loop'.content = <<>> /\ loop'.calls = loop.calls
  /\ loop'.started = loop.started
  /\ finals' = Append(finals, f) /\ Len(finals') = Len(finals) + 1 /\ Last(finals') = f

\* Completes says nothing that its message had not said.
LEMMA CompletesLoop ==
  ASSUME LoopOK, NEW frames, Running, UNCHANGED <<buffers, seen, out>>, wire' = wire \o frames,
         NEW pc, pc \in {"tools", "settle"}, NEW f, Completes(pc, f), FinalOK(f),
         loop.pc = "message", f.streamed = Closed, pc = "tools" => loop.calls > 0
  PROVE  Steps(frames, <<>>) /\ Completed(f, pc)
  <1>1. setup' = setup /\ setup.op # "resolve" BY DEF Running
  <1>2. /\ loop' = [k \in LoopFields |-> loop'[k]] /\ loop'.pc = pc
        /\ loop'.content = <<>> /\ loop'.open = {} /\ loop'.started = loop.started
        /\ loop'.fragments = loop.fragments /\ loop'.calls = loop.calls
        /\ loop'.next = loop.next /\ finals' = Append(finals, f)
    BY DEF Completes, LoopOK, LoopFields
  <1>3. PICK more, n : more = Append(finals, f) /\ n = Len(finals) OBVIOUS
  <1>4. IsSeq(finals) /\ \A i \in 1..n : FinalOK(finals[i]) BY <1>3 DEF LoopOK
  <1>5. n \in Nat BY <1>3, <1>4, SeqHas
  <1>6. /\ IsSeq(more) /\ Len(more) = n + 1 /\ more[n + 1] = f
        /\ \A i \in 1..n : more[i] = finals[i]
    BY <1>3, <1>4, SeqAppend
  <1>7. Last(more) = f BY <1>6 DEF Last
  <1>8. more # <<>> BY <1>5, <1>6, SeqEmpty
  <1>9. \A i \in 1..(n + 1) : FinalOK(more[i])
    <2>1. \A i \in 1..(n + 1) : i \in 1..n \/ i = n + 1 BY <1>5
    <2> QED BY <1>4, <1>6, <2>1
  <1>10. \A g : FinalOK(g)' <=> FinalOK(g) BY <1>1 DEF FinalOK, Compact
  <1>11. LoopOK'
    <2>1. PICK none, nothing : none = <<>> /\ nothing = {} OBVIOUS
    <2>2. IsSeq(none) /\ Len(none) = 0 BY <2>1, SeqEmpty
    <2>3. 0 \in 0..Len(none) /\ nothing = (0 + 1)..Len(none) BY <2>1, <2>2
    <2>4. \A i \in 1..Len(none) : FALSE BY <2>2
    <2>5. \A i \in nothing : FALSE BY <2>1
    <2>6. loop'.content = none /\ loop'.open = nothing BY <1>2, <2>1
    <2>7. /\ loop.started \in BOOLEAN /\ loop.fragments \in Nat /\ loop.next \in Nat
          /\ loop.calls \in 0..MaxCalls
      BY DEF LoopOK
    <2>8. finals' = more /\ IsSeq(more) /\ more # <<>> /\ \A i \in 1..Len(more) : FinalOK(more[i])'
      BY <1>2, <1>3, <1>6, <1>8, <1>9, <1>10
    <2> QED BY <1>2, <2>1, <2>2, <2>3, <2>4, <2>5, <2>6, <2>7, <2>8 DEF LoopOK
  <1>12. SaidByRun' = SaidByRun \o <<>>
    <2>1. PICK a, s, none : a = MessagesSay(finals) /\ s = SaidIn(Closed) /\ none = <<>> OBVIOUS
    <2>2. a \in Seq(Words) /\ s \in Seq(Words) BY <2>1, LoopHas
    <2>3. ContentOK(f.streamed) /\ \A i \in 1..n : ContentOK(finals[i].streamed)
      BY <1>4, PartsAreContent DEF FinalOK, PartsOK
    <2>4. MessagesSay(more) = a \o s BY <1>3, <1>4, <2>1, <2>3, MessagesSayAppend
    <2>5. Closed' = none
      <3>1. PartsOK(none) /\ Len(none) = 0 BY <2>1, SeqEmpty DEF PartsOK
      <3>2. 0 \in 0..Len(none) /\ {} = (0 + 1)..Len(none) BY <3>1
      <3>3. ClosedOf(none, {}) = none BY <3>1, <3>2, ClosedIs
      <3>4. Closed' = ClosedOf(loop'.content, loop'.open) BY DEF Closed, ClosedOf
      <3> QED BY <1>2, <2>1, <3>3, <3>4
    <2>6. SaidIn(Closed)' = none BY <2>1, <2>5, SaidInNone
    <2>7. SaidByRun' = MessagesSay(more) \o none
      <3>1. SaidByRun' = MessagesSay(finals') \o SaidIn(Closed)' BY DEF SaidByRun, MessagesSay
      <3> QED BY <1>2, <1>3, <2>6, <3>1
    <2>8. SaidByRun = a \o s BY <2>1, RunSays
    <2> QED BY <2>1, <2>4, <2>7, <2>8
  <1>13. <<>> \in Seq(Words) OBVIOUS
  <1>14. loop'.calls >= loop.calls BY <1>2, RunAssumption DEF LoopOK
  <1> QED BY <1>1, <1>2, <1>3, <1>6, <1>7, <1>11, <1>12, <1>13, <1>14 DEF Steps, Completed

\* Sequences of one element, joined.
LEMMA JoinOnes ==
  ASSUME NEW g, NEW h
  PROVE  <<g>> \o <<h>> = <<g, h>> /\ <<g>> \o <<>> = <<g>> /\ <<>> \o <<h>> = <<h>>
  <1>1. PICK a, b, c : a = <<g>> /\ b = <<h>> /\ c = <<g, h>> OBVIOUS
  <1>2. IsSeq(a) /\ IsSeq(b) /\ Len(a) = 1 /\ Len(b) = 1 /\ a[1] = g /\ b[1] = h
    BY <1>1, SeqOne
  <1>3. IsSeq(c) /\ Len(c) = 2 /\ c[1] = g /\ c[2] = h BY <1>1, SeqTwo
  <1>4. PICK d : d = a \o b OBVIOUS
  <1>5. /\ IsSeq(d) /\ Len(d) = Len(a) + Len(b)
        /\ \A i \in 1..Len(a) : d[i] = a[i]
        /\ \A i \in 1..Len(b) : d[Len(a) + i] = b[i]
    <2>1. IsSeq(a) /\ IsSeq(b) BY <1>2
    <2> QED BY <1>4, <2>1, SeqJoin
  <1>6. Len(d) = 2 /\ d[1] = g /\ d[2] = h
    <2>1. 1 \in 1..Len(a) /\ 1 \in 1..Len(b) /\ Len(a) + 1 = 2 BY <1>2
    <2>2. d[1] = a[1] BY <1>5, <2>1
    <2>3. d[Len(a) + 1] = b[1] BY <1>5, <2>1
    <2> QED BY <1>2, <1>5, <2>1, <2>2, <2>3
  <1>7. \A i \in 1..2 : i = 1 \/ i = 2 OBVIOUS
  <1>8. d = c BY <1>3, <1>5, <1>6, <1>7, SeqSame
  <1> QED BY <1>1, <1>2, <1>4, <1>8, SeqNone

\* What a turn spends is a usage.
LEMMA SpentIsUsage == ASSUME NEW turn PROVE IsUsage(Spent(turn)) /\ Spent(turn).input # 0
  <1>1. PICK u : u = Spent(turn) OBVIOUS
  <1>2. CASE turn = 1
    <2>1. u = [input |-> 3, output |-> 1] BY <1>1, <1>2 DEF Spent
    <2> QED BY <1>1, <2>1 DEF IsUsage
  <1>3. CASE turn # 1
    <2>1. u = [input |-> 5, output |-> 2, cache_read |-> 4] BY <1>1, <1>3 DEF Spent
    <2> QED BY <1>1, <2>1 DEF IsUsage
  <1> QED BY <1>2, <1>3

\* What the message that the loop makes of a broken stream counts.
ZeroUsage == [input |-> 0, output |-> 0]

\* That is a usage, too.
LEMMA ZeroIsUsage == IsUsage(ZeroUsage)
  <1>1. PICK u : u = [input |-> 0, output |-> 0] OBVIOUS
  <1>2. IsUsage(u) BY <1>1 DEF IsUsage
  <1> QED BY <1>1, <1>2 DEF ZeroUsage

\* The message that Completes adds.
LEMMA FinalIsOK ==
  ASSUME LoopOK, NEW sr, NEW em, NEW u, IsUsage(u), NEW content, PartsOK(content),
         NEW f, f = Final(sr, em, Counted(u), content)
  PROVE  /\ FinalOK(f) /\ f.content = content /\ f.usage = Counted(u)
         /\ f.stop_reason = sr /\ f.error_message = em /\ f.streamed = Closed
  <1>1. PICK counted : counted = Counted(u) OBVIOUS
  <1>2. IsUsage(counted) /\ (~Compact => "cache_read" \in DOMAIN counted) BY <1>1, CountedHas
  <1>3. PICK closed : closed = Closed OBVIOUS
  <1>4. f = [stop_reason |-> sr, error_message |-> em, usage |-> counted, content |-> content,
             streamed |-> closed]
    BY <1>1, <1>3 DEF Final
  <1>5. /\ f.content = content /\ f.usage = counted /\ f.stop_reason = sr
        /\ f.error_message = em /\ f.streamed = closed
    BY <1>4
  <1>6. PartsOK(closed) BY <1>3, LoopHas
  <1> QED BY <1>1, <1>2, <1>3, <1>5, <1>6 DEF FinalOK, PartsOK

\* The message is complete: the frames, and what it counts and says.
LEMMA ProviderDoneLoop ==
  ASSUME LoopOK, ProviderDone
  PROVE  /\ loop.pc = "message" /\ loop.started /\ loop.open = {}
         /\ \E u, sr, f, frames, pc :
              /\ u = Spent(Turn) /\ Completed(f, pc) /\ Steps(frames, <<>>) /\ FinalOK(f)
              /\ pc \in {"tools", "settle"}
              /\ f.usage = Counted(u) /\ f.content = Closed
              /\ \/ frames = <<MessageEndFrame(u, sr, "")>>
                 \/ frames = <<MessageEndFrame(u, sr, ""), TurnEndFrame(sr, "")>>
  <1>1. /\ Streaming /\ loop.open = {} /\ Running /\ UNCHANGED <<buffers, seen, out>>
    BY DEF ProviderDone, LoopStep
  <1>2. PICK sr, em, pc, u, content :
          /\ sr = IF CallsOf(loop.content) # {} THEN "tool_use" ELSE "stop"
          /\ em = "" /\ pc = IF CallsOf(loop.content) # {} THEN "tools" ELSE "settle"
          /\ u = Spent(Turn) /\ content = loop.content
    OBVIOUS
  <1>3. PICK f : f = Final(sr, em, Counted(u), content) OBVIOUS
  <1>4. PICK frames :
          frames = <<MessageEndFrame(u, sr, em)>>
                     \o (IF CallsOf(loop.content) # {} THEN <<>> ELSE <<TurnEndFrame(sr, em)>>)
    OBVIOUS
  <1>5. Completes(pc, f) /\ wire' = wire \o frames
    BY <1>2, <1>3, <1>4 DEF ProviderDone, Sends
  <1>6. loop.pc = "message" /\ loop.started BY <1>1 DEF Streaming
  <1>7. content = Closed /\ PartsOK(content) BY <1>1, <1>2, NothingOpen, LoopHas
  <1>8. FinalOK(f) /\ f.content = content /\ f.usage = Counted(u) /\ f.streamed = Closed
    <2>1. IsUsage(u) BY <1>2, SpentIsUsage
    <2> QED BY <1>3, <1>7, <2>1, FinalIsOK
  <1>9. pc \in {"tools", "settle"} BY <1>2
  <1>10. pc = "tools" => loop.calls > 0
    <2>1. SUFFICES ASSUME CallsOf(loop.content) # {} PROVE loop.calls > 0 BY <1>2
    <2>2. PICK i \in DOMAIN loop.content : loop.content[i].type = "tool_call" BY <2>1 DEF CallsOf
    <2>3. i \in 1..Len(loop.content) BY <2>2, SeqHas DEF LoopOK
    <2> QED BY <2>2, <2>3 DEF LoopOK
  <1>11. Steps(frames, <<>>) /\ Completed(f, pc)
    BY <1>1, <1>5, <1>6, <1>8, <1>9, <1>10, CompletesLoop
  <1>12. frames = <<MessageEndFrame(u, sr, em)>>
         \/ frames = <<MessageEndFrame(u, sr, em), TurnEndFrame(sr, em)>>
    <2>1. PICK g, h : g = MessageEndFrame(u, sr, em) /\ h = TurnEndFrame(sr, em) OBVIOUS
    <2>2. frames = <<g>> \o <<>> \/ frames = <<g>> \o <<h>> BY <1>4, <2>1
    <2> QED BY <2>1, <2>2, JoinOnes
  <1> QED BY <1>1, <1>2, <1>6, <1>7, <1>8, <1>9, <1>11, <1>12

\* A message that ends with a message_end and settles the run; a compact one has begun, and
\* holds what was streamed.
Concludes(u, sr, em, f) ==
  /\ IsUsage(u) /\ Completed(f, "settle") /\ FinalOK(f) /\ f.usage = Counted(u)
  /\ Compact => f.content = Closed
  /\ Steps(<<MessageEndFrame(u, sr, em), TurnEndFrame(sr, em)>>, <<>>)

\* That is what a final message with its two frames does.
LEMMA ConcludesLoop ==
  ASSUME LoopOK, loop.pc = "message", Running, UNCHANGED <<buffers, seen, out>>,
         NEW sr, NEW em, NEW u, IsUsage(u), NEW content, PartsOK(content),
         Compact => content = Closed,
         Completes("settle", Final(sr, em, Counted(u), content)),
         Sends(<<MessageEndFrame(u, sr, em), TurnEndFrame(sr, em)>>)
  PROVE  \E f : Concludes(u, sr, em, f)
  <1>1. PICK f, pc, frames :
          /\ f = Final(sr, em, Counted(u), content) /\ pc = "settle"
          /\ frames = <<MessageEndFrame(u, sr, em), TurnEndFrame(sr, em)>>
    OBVIOUS
  <1>2. Completes(pc, f) /\ wire' = wire \o frames BY <1>1 DEF Sends
  <1>3. FinalOK(f) /\ f.content = content /\ f.usage = Counted(u) /\ f.streamed = Closed
    BY <1>1, FinalIsOK
  <1>4. pc \in {"tools", "settle"} /\ pc # "tools" BY <1>1
  <1>5. Steps(frames, <<>>) /\ Completed(f, pc) BY <1>2, <1>3, <1>4, CompletesLoop
  <1> QED BY <1>1, <1>3, <1>5 DEF Concludes

\* So it is when the provider sends an error.
LEMMA ProviderFailsLoop ==
  ASSUME LoopOK, NEW message, ProviderFails(message)
  PROVE  /\ loop.pc = "message" /\ (Compact => loop.started)
         /\ \E u, sr, em, f : Concludes(u, sr, em, f)
  <1>1. /\ loop.pc = "message" /\ (Compact => loop.started) /\ Running
        /\ UNCHANGED <<buffers, seen, out>>
    BY DEF ProviderFails, LoopStep
  <1>2. PICK sr, u, content : sr = "error" /\ content = Closed /\ u = Spent(Turn) OBVIOUS
  <1>3. /\ Completes("settle", Final(sr, message, Counted(u), content))
        /\ Sends(<<MessageEndFrame(u, sr, message), TurnEndFrame(sr, message)>>)
    BY <1>2 DEF ProviderFails
  <1>4. PartsOK(content) BY <1>2, LoopHas
  <1>5. IsUsage(u) BY <1>2, SpentIsUsage
  <1>6. \E f : Concludes(u, sr, message, f) BY <1>1, <1>2, <1>3, <1>4, <1>5, ConcludesLoop
  <1> QED BY <1>1, <1>6

\* So it is when its body ends early, with what was closed.
LEMMA ProviderCutOffLoop ==
  ASSUME LoopOK, NEW kept \in {Closed, Front(Closed)}, ProviderCutOff(kept)
  PROVE  /\ loop.pc = "message" /\ loop.started /\ \E u, sr, em, f : Concludes(u, sr, em, f)
  <1>1. /\ loop.pc = "message" /\ loop.started /\ ~Compact /\ Running
        /\ UNCHANGED <<buffers, seen, out>>
    BY DEF ProviderCutOff, Streaming, LoopStep
  <1>2. PICK sr, em, u : sr = "stop" /\ em = "" /\ u = Spent(Turn) OBVIOUS
  <1>3. /\ Completes("settle", Final(sr, em, Counted(u), kept))
        /\ Sends(<<MessageEndFrame(u, sr, em), TurnEndFrame(sr, em)>>)
    BY <1>2 DEF ProviderCutOff
  <1>4. PartsOK(Closed) BY LoopHas
  <1>5. PartsOK(kept)
    <2>1. CASE kept = Closed BY <1>4, <2>1
    <2>2. CASE kept # Closed
      <3>1. Closed # <<>> /\ kept = Front(Closed) BY <2>2 DEF ProviderCutOff
      <3>2. PICK s, n : s = Closed /\ n = Len(s) OBVIOUS
      <3>3. IsSeq(s) /\ \A i \in 1..n : s[i] \in LoopParts BY <1>4, <3>2 DEF PartsOK
      <3>4. n \in Nat /\ n # 0
        <4>1. s # <<>> BY <3>1, <3>2
        <4> QED BY <3>2, <3>3, <4>1, SeqEmpty, SeqHas
      <3>5. PICK m : m = n - 1 OBVIOUS
      <3>6. 1 \in Nat \ {0} /\ m \in Nat /\ 1 <= m + 1 /\ m <= n /\ m - 1 + 1 = m
        BY <3>4, <3>5
      <3>7. PICK q : q = SubSeq(s, 1, m) OBVIOUS
      <3>8. /\ IsSeq(q) /\ Len(q) = m - 1 + 1
            /\ \A i \in 1..(m - 1 + 1) : q[i] = s[(1 - 1) + i]
        BY <3>2, <3>3, <3>6, <3>7, SeqSub
      <3>9. \A i \in 1..m : i \in 1..n /\ (1 - 1) + i = i BY <3>4, <3>5
      <3>10. PartsOK(q) BY <3>3, <3>6, <3>8, <3>9 DEF PartsOK
      <3>11. kept = q BY <3>1, <3>2, <3>5, <3>7 DEF Front
      <3> QED BY <3>10, <3>11
    <2> QED BY <2>1, <2>2
  <1>6. IsUsage(u) BY <1>2, SpentIsUsage
  <1>7. \E f : Concludes(u, sr, em, f) BY <1>1, <1>3, <1>5, <1>6, ConcludesLoop
  <1> QED BY <1>1, <1>7

\* A part with nothing in it is content.
LEMMA EmptyTextOK == PartsOK(<<TextPart(<<>>)>>)
  <1>1. PICK none, p, s : none = <<>> /\ p = TextPart(none) /\ s = <<p>> OBVIOUS
  <1>2. none \in Fragments BY <1>1 DEF Fragments
  <1>3. p \in LoopParts BY <1>1, <1>2 DEF TextPart, TextParts, LoopParts
  <1>4. IsSeq(s) /\ Len(s) = 1 /\ s[1] = p BY <1>1, SeqOne
  <1>5. \A i \in 1..1 : i = 1 OBVIOUS
  <1>6. PartsOK(s) BY <1>3, <1>4, <1>5 DEF PartsOK
  <1> QED BY <1>1, <1>6

\* A stream that breaks has no message_end, and its message no content and no count.
LEMMA ProviderBreaksLoop ==
  ASSUME LoopOK, NEW message, ProviderBreaks(message)
  PROVE  /\ loop.pc = "message" /\ ~Compact
         /\ \E sr, f : /\ Completed(f, "settle") /\ FinalOK(f) /\ f.usage = Counted(ZeroUsage)
                       /\ Steps(<<TurnEndFrame(sr, message)>>, <<>>)
  <1>1. /\ loop.pc = "message" /\ ~Compact /\ Running /\ UNCHANGED <<buffers, seen, out>>
    BY DEF ProviderBreaks, LoopStep
  <1>2. PICK sr, pc, u, content :
          sr = "error" /\ pc = "settle" /\ content = <<TextPart(<<>>)>> /\ u = ZeroUsage
    OBVIOUS
  <1>3. PICK f, frames : /\ f = Final(sr, message, Counted(u), content)
                         /\ frames = <<TurnEndFrame(sr, message)>>
    OBVIOUS
  <1>4. Completes(pc, f) /\ wire' = wire \o frames
    BY <1>2, <1>3 DEF ProviderBreaks, Sends, ZeroUsage
  <1>5. PartsOK(content) BY <1>2, EmptyTextOK
  <1>6. IsUsage(u) BY <1>2, ZeroIsUsage
  <1>7. FinalOK(f) /\ f.usage = Counted(u) /\ f.streamed = Closed
    BY <1>3, <1>5, <1>6, FinalIsOK
  <1>8. pc \in {"tools", "settle"} /\ pc # "tools" BY <1>2
  <1>9. Steps(frames, <<>>) /\ Completed(f, pc) BY <1>1, <1>4, <1>7, <1>8, CompletesLoop
  <1> QED BY <1>1, <1>2, <1>3, <1>7, <1>9

(***************************************************************************)
(* What a client that has read everything makes of one frame more.         *)
(***************************************************************************)

\* A frame that AgentFrame reads.
Plain(f) == f.type \notin {"tool_execute", "agent_result", "agent_error"}

\* The frames of events, updates, message ends and turn ends are read so.
LEMMA EventIsPlain == ASSUME NEW e PROVE Plain(AgentEventFrame(e))
  BY DEF Plain, AgentEventFrame

LEMMA UpdateIsPlain ==
  ASSUME NEW e, e.type \notin {"tool_execute", "agent_result", "agent_error"}
  PROVE  Plain(Update(e))
  BY EventIsPlain DEF Plain, Update

LEMMA MessageEndIsPlain ==
  ASSUME NEW u, NEW sr, NEW em PROVE Plain(MessageEndFrame(u, sr, em))
  <1>1. PICK fields : fields = [stop_reason |-> sr, usage |-> UsageFields(u)] ++ ErrorField(em)
    OBVIOUS
  <1>2. PICK e : e = [type |-> "message_end"] ++ fields OBVIOUS
  <1>3. MessageEndFrame(u, sr, em) = IF Compact THEN [type |-> "message_end", payload |-> fields]
                                     ELSE AgentEventFrame(e)
    BY <1>1, <1>2 DEF MessageEndFrame
  <1> QED BY <1>3, EventIsPlain DEF Plain

LEMMA TurnEndIsPlain == ASSUME NEW sr, NEW em PROVE Plain(TurnEndFrame(sr, em))
  BY EventIsPlain DEF TurnEndFrame

\* What such a frame makes of a client.
LEMMA AfterPlain ==
  ASSUME NEW op, NEW f, NEW x, Plain(f), Quiet(op, x)
  PROVE  After(op, f, x) = GetsRead(op, AgentFrame(f, x.buffers), x)
  <1>1. x.out.kind = "none" BY DEF Quiet, Pending
  <1> QED BY <1>1 DEF After, Plain

\* y is x after the event e, which ends nothing.
Told(op, x, e, b, y) ==
  /\ Quiet(op, y) /\ y.buffers = b
  /\ y.sum = IF op = "stream" THEN SumWith(x, e) ELSE x.sum
  /\ SaidBy(y.events) = SaidBy(x.events) \o EventSays(e)
  /\ op = "run" => y.events = Append(x.events, e)
  /\ y.executed => x.executed \/ e.type \in Executing

\* A frame that is one event, which ends nothing.
LEMMA OneEvent ==
  ASSUME NEW op, op \in {"run", "stream"}, NEW x, NEW f, NEW e, NEW b, Quiet(op, x), Plain(f),
         AgentFrame(f, x.buffers) = Only(e, b), EventOK(e), e.type \notin Terminal
  PROVE  Told(op, x, e, b, After(op, f, x))
  <1>1. PICK read : read = Only(e, b) OBVIOUS
  <1>2. read.buffers = b /\ read.events = <<e>> BY <1>1 DEF Only
  <1>3. <<e>> # <<>> /\ Head(<<e>>) = e OBVIOUS
  <1>4. GetsRead(op, read, x) = Gets(op, e, b, x) BY <1>2, <1>3 DEF GetsRead
  <1>5. PICK y : y = After(op, f, x) OBVIOUS
  <1>6. y = Gets(op, e, b, x) BY <1>1, <1>4, <1>5, AfterPlain
  <1>7. CASE op = "run" BY <1>5, <1>6, <1>7, QuietRun DEF Told
  <1>8. CASE op = "stream"
    <2>1. y = Gets("stream", e, b, x) /\ Quiet("stream", x) BY <1>6, <1>8
    <2>2. Quiet("stream", y) /\ y.buffers = b /\ y.sum = SumWith(x, e)
      BY <2>1, QuietStream
    <2>3. SaidBy(y.events) = SaidBy(x.events) \o EventSays(e) BY <2>1, QuietStream
    <2>4. y.executed = x.executed BY <2>1, QuietStream
    <2> QED BY <1>5, <1>8, <2>2, <2>3, <2>4 DEF Told
  <1> QED BY <1>7, <1>8

\* y is x with other buffers.
Same(op, x, b, y) ==
  /\ Quiet(op, y) /\ y.buffers = b /\ y.sum = x.sum /\ y.events = x.events
  /\ y.executed = x.executed

\* A frame that only changes what is buffered.
LEMMA OneNothing ==
  ASSUME NEW op, op \in {"run", "stream"}, NEW x, NEW f, NEW b, Quiet(op, x), Plain(f),
         AgentFrame(f, x.buffers) = Nothing(b)
  PROVE  Same(op, x, b, After(op, f, x))
  <1>1. PICK read : read = Nothing(b) OBVIOUS
  <1>2. read.buffers = b /\ read.events = <<>> BY <1>1 DEF Nothing
  <1>3. GetsRead(op, read, x) = Reader(b, x.started, x.sum, x.executed, x.events, x.out)
    BY <1>2 DEF GetsRead
  <1>4. PICK y : y = After(op, f, x) OBVIOUS
  <1>5. y = Reader(b, x.started, x.sum, x.executed, x.events, x.out)
    BY <1>1, <1>3, <1>4, AfterPlain
  <1>6. y.buffers = b /\ y.started = x.started /\ y.sum = x.sum /\ y.executed = x.executed
        /\ y.events = x.events /\ y.out = x.out
    BY <1>5 DEF Reader
  <1>7. Quiet(op, y) BY <1>6 DEF Quiet, Leads
  <1> QED BY <1>4, <1>6, <1>7 DEF Same

\* tool_execute: that a tool ran is noted.
LEMMA OneExecution ==
  ASSUME NEW op, op \in {"run", "stream"}, NEW x, NEW f, Quiet(op, x), f.type = "tool_execute",
         NEW y, y = After(op, f, x)
  PROVE  /\ Quiet(op, y) /\ y.buffers = x.buffers /\ y.sum = x.sum /\ y.events = x.events
  <1>1. x.out.kind = "none" BY DEF Quiet, Pending
  <1>2. y = Reader(x.buffers, x.started, x.sum, TRUE, x.events, x.out) BY <1>1 DEF After
  <1>3. y.buffers = x.buffers /\ y.started = x.started /\ y.sum = x.sum
        /\ y.events = x.events /\ y.out = x.out
    BY <1>2 DEF Reader
  <1>4. Quiet(op, y) BY <1>3 DEF Quiet, Leads
  <1> QED BY <1>3, <1>4

(***************************************************************************)
(* The frames of a step are put behind those on the wire.                  *)
(***************************************************************************)

\* A client as it should be stays so while the loop goes on.
LEMMA GoodStays ==
  ASSUME LoopOK, NEW frames, NEW said, Steps(frames, said), loop.pc # "ended", NEW x, Good(x)
  PROVE  Good(x)'
  <1>1. Quiet(setup.op, x) BY DEF Good, Over
  <1>2. Quiet(setup.op, x)' BY <1>1 DEF Steps
  <1>3. PICK s, t : s = SaidByRun /\ t = SaidBy(x.events) OBVIOUS
  <1>4. s \in Seq(Words) /\ said \in Seq(Words) /\ t \in Seq(Words)
    BY <1>1, <1>3, LoopHas, SaidByIn DEF Steps, Quiet
  <1>5. IsPrefix(t, s) BY <1>3 DEF Good
  <1>6. IsPrefix(t, s \o said) BY <1>4, <1>5, PrefixJoin
  <1>7. SaidByRun' = s \o said BY <1>3 DEF Steps
  <1>8. x.executed => loop'.calls > 0
    <2>1. x.executed => loop.calls > 0 BY DEF Good
    <2>2. loop'.calls >= loop.calls /\ loop'.calls \in Int /\ loop.calls \in Int
      BY RunAssumption DEF Steps, LoopOK
    <2> QED BY <2>1, <2>2
  <1> QED BY <1>2, <1>3, <1>6, <1>7, <1>8 DEF Good

\* From x, a client that has read everything, the frames lead to clients as they should be.
Goes(x, frames) ==
  \E more :
    /\ Ahead(setup.op, more, frames, x)
    /\ \A i \in 1..Len(frames) : Good(more[i])'
    /\ CaughtUp(more[Len(frames)])'

\* One frame.
LEMMA GoesOne ==
  ASSUME NEW f, NEW x, NEW y, y = After(setup.op, f, x), Good(y)', CaughtUp(y)'
  PROVE  Goes(x, <<f>>)
  <1>1. PICK s : s = <<f>> OBVIOUS
  <1>2. Len(s) = 1 BY <1>1
  <1>3. PICK more : Ahead(setup.op, more, s, x) /\ more[0] = x /\ more[1] = y BY <1>1, AheadOne
  <1>4. \A i \in 1..Len(s) : i = 1 BY <1>2
  <1>5. \A i \in 1..Len(s) : Good(more[i])' BY <1>3, <1>4
  <1>6. CaughtUp(more[Len(s)])' BY <1>2, <1>3
  <1>7. Goes(x, s) BY <1>3, <1>5, <1>6 DEF Goes
  <1> QED BY <1>1, <1>7

\* Two frames.
LEMMA GoesTwo ==
  ASSUME NEW f, NEW g, NEW x, NEW y, NEW z, y = After(setup.op, f, x), z = After(setup.op, g, y),
         Good(y)', Good(z)', CaughtUp(z)'
  PROVE  Goes(x, <<f, g>>)
  <1>1. PICK s : s = <<f, g>> OBVIOUS
  <1>2. Len(s) = 2 BY <1>1
  <1>3. PICK more : /\ Ahead(setup.op, more, s, x)
                    /\ more[0] = x /\ more[1] = y /\ more[2] = z
    BY <1>1, AheadTwo
  <1>4. \A i \in 1..Len(s) : i = 1 \/ i = 2 BY <1>2
  <1>5. \A i \in 1..Len(s) : Good(more[i])' BY <1>3, <1>4
  <1>6. CaughtUp(more[Len(s)])' BY <1>2, <1>3
  <1>7. Goes(x, s) BY <1>3, <1>5, <1>6 DEF Goes
  <1> QED BY <1>1, <1>7

\* The frames are added to what is ahead: it is enough to look at the client that has caught up.
LEMMA Sent ==
  ASSUME IInv, NEW frames, NEW said, IsSeq(frames), Steps(frames, said), loop.pc # "ended",
         \A x : Quiet(setup.op, x) /\ Good(x) /\ CaughtUp(x) => Goes(x, frames)
  PROVE  ReadingOK' /\ IsSeq(wire') /\ SeenOK' /\ LoopOK'
         /\ setup'.op \in {"run", "stream", "resolve"}
  <1>1. PICK ahead : /\ Ahead(setup.op, ahead, wire, Client)
                     /\ \A k \in 0..Len(wire) : Good(ahead[k])
                     /\ CaughtUp(ahead[Len(wire)])
    BY DEF IInv, ReadingOK
  <1>2. PICK n, x, op : n = Len(wire) /\ x = ahead[n] /\ op = setup.op OBVIOUS
  <1>3. n \in Nat /\ IsSeq(wire) BY <1>2, SeqHas DEF IInv
  <1>4. Quiet(op, x) /\ Good(x) /\ CaughtUp(x)
    <2>1. n \in 0..n BY <1>3
    <2>2. Good(x) BY <1>1, <1>2, <2>1
    <2>3. CaughtUp(x) BY <1>1, <1>2
    <2> QED BY <1>2, <2>2, <2>3 DEF CaughtUp
  <1>5. PICK more : /\ Ahead(op, more, frames, x)
                    /\ \A i \in 1..Len(frames) : Good(more[i])'
                    /\ CaughtUp(more[Len(frames)])'
    BY <1>2, <1>4 DEF Goes
  <1>6. PICK after : /\ Ahead(op, after, wire \o frames, Client)
                     /\ \A k \in 0..n : after[k] = ahead[k]
                     /\ \A i \in 0..Len(frames) : after[n + i] = more[i]
    <2>1. Ahead(op, ahead, wire, Client) /\ Ahead(op, more, frames, ahead[Len(wire)])
      BY <1>1, <1>2, <1>5
    <2>2. \E after : /\ Ahead(op, after, wire \o frames, Client)
                     /\ \A k \in 0..Len(wire) : after[k] = ahead[k]
                     /\ \A i \in 0..Len(frames) : after[Len(wire) + i] = more[i]
      BY <1>3, <2>1, AheadSends
    <2> QED BY <1>2, <2>2
  <1>7. PICK w, m : w = wire \o frames /\ m = Len(frames) OBVIOUS
  <1>8. IsSeq(w) /\ Len(w) = n + m /\ m \in Nat
    <2>1. IsSeq(w) /\ Len(w) = Len(wire) + Len(frames) BY <1>3, <1>7, SeqJoin
    <2> QED BY <1>2, <1>7, <2>1, SeqHas
  <1>9. wire' = w /\ setup' = setup /\ Client' = Client
    BY <1>7 DEF Steps, Client
  <1>10. ASSUME NEW k \in 0..(n + m) PROVE Good(after[k])'
    <2>1. CASE k <= n
      <3>1. k \in 0..n BY <1>3, <2>1
      <3>2. Good(ahead[k]) BY <1>1, <1>2, <3>1
      <3>3. Good(ahead[k])' BY <3>2, GoodStays DEF IInv
      <3> QED BY <1>6, <3>1, <3>3
    <2>2. CASE ~(k <= n)
      <3>1. PICK i : i = k - n OBVIOUS
      <3>2. i \in 1..m /\ i \in 0..m /\ k = n + i BY <1>3, <1>8, <2>2, <3>1
      <3>3. after[k] = more[i] BY <1>6, <1>7, <3>2
      <3> QED BY <1>5, <1>7, <3>2, <3>3
    <2> QED BY <2>1, <2>2
  <1>11. CaughtUp(after[n + m])'
    <2>1. m \in 0..m BY <1>8
    <2>2. after[n + m] = more[m] BY <1>6, <1>7, <2>1
    <2> QED BY <1>5, <1>7, <2>2
  <1>12. ReadingOK'
    <2>1. Ahead(setup'.op, after, wire', Client') BY <1>2, <1>6, <1>7, <1>9
    <2>2. Len(wire') = n + m BY <1>8, <1>9
    <2> QED BY <1>10, <1>11, <2>1, <2>2 DEF ReadingOK
  <1>13. SeenOK' BY DEF IInv, SeenOK, Steps
  <1> QED BY <1>8, <1>9, <1>12, <1>13 DEF IInv, Steps

(***************************************************************************)
(* The last message, as the events of a compact run tell it.               *)
(***************************************************************************)

\* A subsequence of the elements that were there.
LEMMA SubSame ==
  ASSUME NEW s, IsSeq(s), NEW x, NEW m \in Nat \ {0}, NEW n \in Nat, m <= n + 1, n <= Len(s)
  PROVE  SubSeq(Append(s, x), m, n) = SubSeq(s, m, n)
  <1>1. PICK t : t = Append(s, x) OBVIOUS
  <1>2. IsSeq(t) /\ Len(t) = Len(s) + 1 /\ \A i \in 1..Len(s) : t[i] = s[i] BY <1>1, SeqAppend
  <1>3. Len(s) \in Nat BY SeqHas
  <1>4. PICK a, b, k : a = SubSeq(s, m, n) /\ b = SubSeq(t, m, n) /\ k = n - m + 1 OBVIOUS
  <1>5. IsSeq(a) /\ Len(a) = k /\ \A i \in 1..k : a[i] = s[(m - 1) + i] BY <1>4, SeqSub
  <1>6. IsSeq(b) /\ Len(b) = k /\ \A i \in 1..k : b[i] = t[(m - 1) + i]
    <2>1. n <= Len(t) BY <1>2, <1>3
    <2> QED BY <1>2, <1>4, <2>1, SeqSub
  <1>7. \A i \in 1..k : (m - 1) + i \in 1..Len(s) BY <1>3, <1>4
  <1>8. \A i \in 1..k : a[i] = b[i] BY <1>2, <1>5, <1>6, <1>7
  <1> QED BY <1>1, <1>4, <1>5, <1>6, <1>8, SeqSame

\* A subsequence up to the element appended.
LEMMA SubAppend ==
  ASSUME NEW s, IsSeq(s), NEW x, NEW m \in Nat \ {0}, m <= Len(s) + 1
  PROVE  SubSeq(Append(s, x), m, Len(s) + 1) = Append(SubSeq(s, m, Len(s)), x)
  <1>1. PICK t, n : t = Append(s, x) /\ n = Len(s) OBVIOUS
  <1>2. IsSeq(t) /\ Len(t) = n + 1 /\ t[n + 1] = x /\ \A i \in 1..n : t[i] = s[i]
    BY <1>1, SeqAppend
  <1>3. n \in Nat BY <1>1, SeqHas
  <1>4. PICK a, b, k : a = SubSeq(s, m, n) /\ b = SubSeq(t, m, n + 1) /\ k = n - m + 1 OBVIOUS
  <1>5. k \in Nat /\ n + 1 \in Nat /\ (n + 1) - m + 1 = k + 1 /\ m \in Nat /\ m - 1 + (k + 1) = n + 1
    BY <1>1, <1>3, <1>4
  <1>6. IsSeq(a) /\ Len(a) = k /\ \A i \in 1..k : a[i] = s[(m - 1) + i]
    <2>1. m <= n + 1 /\ n <= Len(s) BY <1>1, <1>3
    <2> QED BY <1>3, <1>4, <2>1, SeqSub
  <1>7. IsSeq(b) /\ Len(b) = k + 1 /\ \A i \in 1..(k + 1) : b[i] = t[(m - 1) + i]
    <2>1. PICK l : l = n + 1 OBVIOUS
    <2>2. l \in Nat /\ m <= l + 1 /\ l <= Len(t) BY <1>1, <1>2, <1>3, <2>1
    <2>3. /\ IsSeq(b) /\ Len(b) = l - m + 1
          /\ \A i \in 1..(l - m + 1) : b[i] = t[(m - 1) + i]
      BY <1>2, <1>4, <2>1, <2>2, SeqSub
    <2>4. l - m + 1 = k + 1 BY <1>5, <2>1
    <2> QED BY <2>3, <2>4
  <1>8. PICK c : c = Append(a, x) OBVIOUS
  <1>9. IsSeq(c) /\ Len(c) = k + 1 /\ c[k + 1] = x /\ \A i \in 1..k : c[i] = a[i]
    BY <1>6, <1>8, SeqAppend
  <1>10. ASSUME NEW i \in 1..(k + 1) PROVE b[i] = c[i]
    <2>1. CASE i = k + 1
      <3>1. (m - 1) + i = n + 1 BY <1>5, <2>1
      <3> QED BY <1>2, <1>7, <1>9, <2>1, <3>1
    <2>2. CASE i # k + 1
      <3>1. i \in Nat /\ 1 <= i /\ i <= k /\ m \in Nat /\ 1 <= m /\ k = n - m + 1
        BY <1>4, <1>5, <2>2
      <3>2. i \in 1..k /\ (m - 1) + i \in 1..n BY <1>3, <1>5, <3>1
      <3>3. b[i] = t[(m - 1) + i] /\ c[i] = a[i] /\ a[i] = s[(m - 1) + i]
        BY <1>6, <1>7, <1>9, <3>2
      <3> QED BY <1>2, <3>2, <3>3
    <2> QED BY <2>1, <2>2
  <1>11. b = c BY <1>7, <1>9, <1>10, SeqSame
  <1> QED BY <1>1, <1>4, <1>8, <1>11

\* What an appended event leaves, and that it is the last.
LEMMA EventAdded ==
  ASSUME NEW s, IsSeq(s), NEW e, NEW t, t = Append(s, e)
  PROVE  /\ Len(s) \in Nat /\ Len(t) = Len(s) + 1 /\ IsSeq(t)
         /\ \A i \in 1..Len(s) : t[i] = s[i] /\ i \in 1..Len(t)
         /\ t[Len(t)] = e /\ Len(t) \in 1..Len(t)
         /\ \A i \in 1..Len(t) : i \in 1..Len(s) \/ i = Len(t)
         /\ \A m \in 1..Len(s) : \A i \in (m + 1)..Len(t) : i \in (m + 1)..Len(s) \/ i = Len(t)
         /\ \A m \in 1..Len(s) : \A i \in (m + 1)..Len(s) : i \in 1..Len(s)
  <1>1. Len(s) \in Nat BY SeqHas
  <1>2. IsSeq(t) /\ Len(t) = Len(s) + 1 /\ t[Len(s) + 1] = e /\ \A i \in 1..Len(s) : t[i] = s[i]
    BY SeqAppend
  <1>3. PICK n, l : n = Len(s) /\ l = Len(t) OBVIOUS
  <1>4. n \in Nat /\ l = n + 1 BY <1>1, <1>2, <1>3
  <1>5. \A i \in 1..n : i \in 1..l BY <1>4
  <1>6. \A i \in 1..l : i \in 1..n \/ i = l BY <1>4
  <1>7. \A m \in 1..n : \A i \in (m + 1)..l : i \in (m + 1)..n \/ i = l BY <1>4
  <1>8. \A m \in 1..n : \A i \in (m + 1)..n : i \in 1..n BY <1>4
  <1>9. l \in 1..l BY <1>4
  <1> QED BY <1>1, <1>2, <1>3, <1>5, <1>6, <1>7, <1>8, <1>9

\* The events at the bounds of a message.
Bounds == {"message_start", "message_end"}

\* The message that started last is the same after an event that is no start.
LEMMA StartingMore ==
  ASSUME NEW s, IsSeq(s), NEW e, NEW t, t = Append(s, e), e.type # "message_start", NEW api,
         NEW m,
         Starting(s, api, m)
  PROVE  Starting(t, api, m)
  <1>1. PICK n, l : n = Len(s) /\ l = Len(t) OBVIOUS
  <1>2. /\ \A i \in 1..n : t[i] = s[i] /\ i \in 1..l
        /\ t[l] = e
        /\ \A k \in 1..n : \A i \in (k + 1)..l : i \in (k + 1)..n \/ i = l
        /\ \A k \in 1..n : \A i \in (k + 1)..n : i \in 1..n
    BY <1>1, EventAdded
  <1>3. m \in 1..n /\ s[m] = StartShown("p", api, "m")
        /\ \A i \in (m + 1)..n : s[i].type # "message_start"
    BY <1>1 DEF Starting
  <1>4. m \in 1..l /\ t[m] = StartShown("p", api, "m") BY <1>2, <1>3
  <1>5. \A i \in (m + 1)..l : t[i].type # "message_start" BY <1>2, <1>3
  <1> QED BY <1>1, <1>4, <1>5 DEF Starting

\* A message that has ended has done so after an event that is no bound.
LEMMA EndedMore ==
  ASSUME NEW s, EventsOK(s), NEW e, e.type \notin Bounds, NEW api, NEW usage, NEW said,
         Ended(s, api, usage, said)
  PROVE  Ended(Append(s, e), api, usage, said)
  <1>1. PICK n, t, l : n = Len(s) /\ t = Append(s, e) /\ l = Len(t) OBVIOUS
  <1>2. IsSeq(s) BY DEF EventsOK
  <1>3. /\ \A i \in 1..n : t[i] = s[i] /\ i \in 1..l
        /\ t[l] = e /\ n \in Nat /\ l = n + 1
        /\ \A k \in 1..n : \A i \in (k + 1)..l : i \in (k + 1)..n \/ i = l
        /\ \A k \in 1..n : \A i \in (k + 1)..n : i \in 1..n
    BY <1>1, <1>2, EventAdded
  <1>4. PICK m \in 1..n, z \in 1..n :
          /\ Starting(s, api, m) /\ m < z
          /\ \A i \in (m + 1)..n : s[i].type = "message_end" <=> i = z
          /\ s[z].usage = usage
          /\ SaidBy(SubSeq(s, m, z)) = said
    BY <1>1 DEF Ended
  <1>5. Starting(t, api, m) BY <1>1, <1>2, <1>4, StartingMore DEF Bounds
  <1>6. \A i \in (m + 1)..l : t[i].type = "message_end" <=> i = z
    <2> TAKE i \in (m + 1)..l
    <2>1. CASE i = l
      <3>1. i # z BY <1>3, <1>4, <2>1
      <3> QED BY <1>3, <2>1, <3>1 DEF Bounds
    <2>2. CASE i # l
      <3>1. i \in (m + 1)..n /\ i \in 1..n BY <1>3, <2>2
      <3> QED BY <1>3, <1>4, <3>1
    <2> QED BY <2>1, <2>2
  <1>7. t[z].usage = usage BY <1>3, <1>4
  <1>8. SubSeq(t, m, z) = SubSeq(s, m, z)
    <2>1. m \in Nat \ {0} /\ z \in Nat /\ m <= z + 1 /\ z <= Len(s) BY <1>1, <1>3, <1>4
    <2> QED BY <1>1, <1>2, <2>1, SubSame
  <1>9. m \in 1..l /\ z \in 1..l BY <1>3
  <1>10. \E a, b \in 1..l :
           /\ Starting(t, api, a) /\ a < b
           /\ \A i \in (a + 1)..l : t[i].type = "message_end" <=> i = b
           /\ t[b].usage = usage
           /\ SaidBy(SubSeq(t, a, b)) = said
    BY <1>4, <1>5, <1>6, <1>7, <1>8, <1>9
  <1>11. Ended(t, api, usage, said)
    <2>1. l = Len(t) BY <1>1
    <2> QED BY <1>10, <2>1, Zenon DEF Ended
  <1> QED BY <1>1, <1>11

\* The message_start of the model begins a message that has said nothing.
LEMMA UnderWayStarts ==
  ASSUME NEW s, EventsOK(s), NEW api, NEW e, e = StartShown("p", api, "m"), EventOK(e)
  PROVE  UnderWay(Append(s, e), api, <<>>)
  <1>1. PICK n, t, l : n = Len(s) /\ t = Append(s, e) /\ l = Len(t) OBVIOUS
  <1>2. IsSeq(s) BY DEF EventsOK
  <1>3. t[l] = e /\ n \in Nat /\ l = n + 1 /\ l \in 1..l
    BY <1>1, <1>2, EventAdded
  <1>4. \A i \in (l + 1)..l : FALSE BY <1>3
  <1>5. Starting(t, api, l) BY <1>1, <1>3, <1>4 DEF Starting
  <1>6. SaidBy(SubSeq(t, l, l)) = <<>>
    <2>1. l \in Nat \ {0} /\ l <= n + 1 BY <1>3
    <2>2. SubSeq(t, l, l) = Append(SubSeq(s, l, n), e) BY <1>1, <1>2, <1>3, <2>1, SubAppend
    <2>3. PICK q : q = SubSeq(s, l, n) OBVIOUS
    <2>4. EventsOK(q) BY <1>1, <1>3, <2>1, <2>3, SubOK
    <2>5. q = <<>>
      <3>1. IsSeq(q) /\ Len(q) = n - l + 1 BY <1>1, <1>2, <1>3, <2>1, <2>3, SeqSub
      <3>2. Len(q) = 0 BY <1>3, <3>1
      <3> QED BY <3>1, <3>2, SeqEmpty, SeqSame
    <2>6. e.type = "message_start" BY DEF StartShown
    <2>7. EventSays(e) = <<>> BY <2>6, EventSaysIn
    <2>8. SaidBy(Append(q, e)) = SaidBy(q) \o EventSays(e) BY <2>4, SaidByAppend
    <2>9. SaidBy(q) = <<>> BY <2>5, SaidByNone
    <2>10. SaidBy(Append(q, e)) = <<>> BY <2>7, <2>8, <2>9
    <2> QED BY <2>2, <2>3, <2>10
  <1>7. \E m \in 1..l :
          /\ Starting(t, api, m)
          /\ \A i \in (m + 1)..l : t[i].type # "message_end"
          /\ SaidBy(SubSeq(t, m, l)) = <<>>
    BY <1>3, <1>4, <1>5, <1>6
  <1> QED BY <1>1, <1>7 DEF UnderWay

\* An event says more of the message under way.
LEMMA UnderWayMore ==
  ASSUME NEW s, EventsOK(s), NEW api, NEW e, EventOK(e), e.type \notin Bounds, NEW said,
         UnderWay(s, api, said)
  PROVE  UnderWay(Append(s, e), api, said \o EventSays(e))
  <1>1. PICK n, t, l : n = Len(s) /\ t = Append(s, e) /\ l = Len(t) OBVIOUS
  <1>2. IsSeq(s) BY DEF EventsOK
  <1>3. /\ \A i \in 1..n : t[i] = s[i] /\ i \in 1..l
        /\ t[l] = e /\ n \in Nat /\ l = n + 1
        /\ \A k \in 1..n : \A i \in (k + 1)..l : i \in (k + 1)..n \/ i = l
        /\ \A k \in 1..n : \A i \in (k + 1)..n : i \in 1..n
    BY <1>1, <1>2, EventAdded
  <1>4. PICK m \in 1..n :
          /\ Starting(s, api, m)
          /\ \A i \in (m + 1)..n : s[i].type # "message_end"
          /\ SaidBy(SubSeq(s, m, n)) = said
    BY <1>1 DEF UnderWay
  <1>5. Starting(t, api, m) BY <1>1, <1>2, <1>4, StartingMore DEF Bounds
  <1>6. \A i \in (m + 1)..l : t[i].type # "message_end" BY <1>3, <1>4 DEF Bounds
  <1>7. SaidBy(SubSeq(t, m, l)) = said \o EventSays(e)
    <2>1. m \in Nat \ {0} /\ m <= n + 1 /\ n <= Len(s) BY <1>1, <1>3, <1>4
    <2>2. SubSeq(t, m, l) = Append(SubSeq(s, m, n), e) BY <1>1, <1>2, <1>3, <2>1, SubAppend
    <2>3. EventsOK(SubSeq(s, m, n)) BY <1>3, <2>1, SubOK
    <2> QED BY <1>4, <2>2, <2>3, SaidByAppend
  <1>8. m \in 1..l BY <1>3
  <1>9. \E k \in 1..l :
          /\ Starting(t, api, k)
          /\ \A i \in (k + 1)..l : t[i].type # "message_end"
          /\ SaidBy(SubSeq(t, k, l)) = said \o EventSays(e)
    BY <1>5, <1>6, <1>7, <1>8
  <1> QED BY <1>1, <1>9 DEF UnderWay

\* A message_end ends the message under way, with its usage.
LEMMA EndsNow ==
  ASSUME NEW s, EventsOK(s), NEW api, NEW e, EventOK(e), e.type = "message_end", NEW said,
         UnderWay(s, api, said)
  PROVE  Ended(Append(s, e), api, e.usage, said)
  <1>1. PICK n, t, l : n = Len(s) /\ t = Append(s, e) /\ l = Len(t) OBVIOUS
  <1>2. IsSeq(s) BY DEF EventsOK
  <1>3. /\ \A i \in 1..n : t[i] = s[i] /\ i \in 1..l
        /\ t[l] = e /\ n \in Nat /\ l = n + 1 /\ l \in 1..l
        /\ \A k \in 1..n : \A i \in (k + 1)..l : i \in (k + 1)..n \/ i = l
        /\ \A k \in 1..n : \A i \in (k + 1)..n : i \in 1..n
    BY <1>1, <1>2, EventAdded
  <1>4. PICK m \in 1..n :
          /\ Starting(s, api, m)
          /\ \A i \in (m + 1)..n : s[i].type # "message_end"
          /\ SaidBy(SubSeq(s, m, n)) = said
    BY <1>1 DEF UnderWay
  <1>5. Starting(t, api, m) BY <1>1, <1>2, <1>4, StartingMore
  <1>6. \A i \in (m + 1)..l : t[i].type = "message_end" <=> i = l
    <2> TAKE i \in (m + 1)..l
    <2>1. CASE i = l BY <1>3, <2>1
    <2>2. CASE i # l
      <3>1. i \in (m + 1)..n /\ i \in 1..n BY <1>3, <2>2
      <3> QED BY <1>3, <1>4, <2>2, <3>1
    <2> QED BY <2>1, <2>2
  <1>7. SaidBy(SubSeq(t, m, l)) = said
    <2>1. m \in Nat \ {0} /\ m <= n + 1 /\ n <= Len(s) BY <1>1, <1>3, <1>4
    <2>2. SubSeq(t, m, l) = Append(SubSeq(s, m, n), e) BY <1>1, <1>2, <1>3, <2>1, SubAppend
    <2>3. PICK q : q = SubSeq(s, m, n) OBVIOUS
    <2>4. EventsOK(q) BY <1>3, <2>1, <2>3, SubOK
    <2>5. SaidBy(Append(q, e)) = SaidBy(q) \o EventSays(e) BY <2>4, SaidByAppend
    <2>6. EventSays(e) = <<>> BY EventSaysIn
    <2>7. SaidBy(q) \o <<>> = SaidBy(q) BY <2>4, SaidByIn, SeqIn, SeqNone
    <2> QED BY <1>4, <2>2, <2>3, <2>5, <2>6, <2>7
  <1>8. m \in 1..l /\ m < l BY <1>3, <1>4
  <1>9. \E a, b \in 1..l :
          /\ Starting(t, api, a) /\ a < b
          /\ \A i \in (a + 1)..l : t[i].type = "message_end" <=> i = b
          /\ t[b].usage = e.usage
          /\ SaidBy(SubSeq(t, a, b)) = said
    BY <1>3, <1>5, <1>6, <1>7, <1>8
  <1> QED BY <1>1, <1>9 DEF Ended

(***************************************************************************)
(* Frames of which a client keeps nothing but the event.                   *)
(***************************************************************************)

\* When y is as it should be after a step, and has caught up.
LEMMA Arrives ==
  ASSUME LoopOK, NEW frames, NEW said, Steps(frames, said), NEW y, Quiet(setup.op, y),
         y.executed => loop.calls > 0, SaidBy(y.events) = SaidByRun \o said
  PROVE  /\ Good(y)'
         /\ /\ loop'.pc # "settle" => Buffered(y.buffers)'
            /\ setup.op = "stream" => Summing(y.sum)'
            /\ setup.op = "run" /\ Compact => Telling(y.events)'
            => CaughtUp(y)'
  <1>1. setup' = setup /\ SaidByRun' = SaidByRun \o said BY DEF Steps
  <1>2. Quiet(setup.op, y)' BY <1>1
  <1>3. PICK s : s = SaidBy(y.events) OBVIOUS
  <1>4. s \in Seq(Words) BY <1>3, SaidByIn DEF Quiet
  <1>5. IsPrefix(s, s) BY <1>4, PrefixSame
  <1>6. y.executed => loop'.calls > 0
    <2>1. loop'.calls >= loop.calls /\ loop'.calls \in Int /\ loop.calls \in Int
      BY RunAssumption DEF Steps, LoopOK
    <2> QED BY <2>1
  <1>7. Good(y)' BY <1>1, <1>2, <1>3, <1>5, <1>6 DEF Good
  <1>8. /\ /\ loop'.pc # "settle" => Buffered(y.buffers)'
           /\ setup.op = "stream" => Summing(y.sum)'
           /\ setup.op = "run" /\ Compact => Telling(y.events)'
        => CaughtUp(y)'
    BY <1>1, <1>2 DEF CaughtUp, Compact
  <1> QED BY <1>7, <1>8

\* What has ended in s has ended in t.
Keeps(s, t) ==
  \A api, usage, said : Ended(s, api, usage, said) => Ended(t, api, usage, said)

\* An event that is no bound of a message keeps what has ended.
LEMMA KeepsOne ==
  ASSUME NEW s, EventsOK(s), NEW e, e.type \notin Bounds
  PROVE  Keeps(s, Append(s, e))
  BY EndedMore DEF Keeps

\* y is x after frames that say nothing and bound no message.
Quietly(x, y) ==
  /\ Quiet(setup.op, y) /\ y.buffers = x.buffers /\ y.sum = x.sum
  /\ SaidBy(y.events) = SaidBy(x.events)
  /\ y.executed => x.executed \/ loop.calls > 0
  /\ setup.op = "run" /\ Compact => Keeps(x.events, y.events)

\* A frame that says nothing and bounds no message of the model.
Silent(f) == \A x : Quiet(setup.op, x) => Quietly(x, After(setup.op, f, x))

\* The events that do so.
LEMMA SilentEvent ==
  ASSUME setup.op \in {"run", "stream"}, NEW f, NEW e, Plain(f),
         \A b : AgentFrame(f, b) = Only(e, b),
         e.type \in {"agent_start", "turn_start", "turn_end"} \cup Bounds \cup Executing,
         e.type = "message_end" => e.usage = NoUsage, e.type \in Bounds => ~Compact,
         e.type \in Executing => loop.calls > 0
  PROVE  Silent(f)
  <1>1. EventOK(e) /\ e.type \notin Terminal
        /\ e.type \notin {"text_delta", "thinking_delta", "tool_call"}
    BY DEF EventOK, EventTypes, AgentEventTypes, Bounds, Executing, Terminal
  <1>2. EventSays(e) = <<>> BY <1>1, EventSaysIn
  <1>3. ASSUME NEW x, Quiet(setup.op, x) PROVE Quietly(x, After(setup.op, f, x))
    <2>1. PICK y, b, op : y = After(setup.op, f, x) /\ b = x.buffers /\ op = setup.op OBVIOUS
    <2>2. Quiet(op, x) /\ op \in {"run", "stream"} /\ AgentFrame(f, x.buffers) = Only(e, b)
      BY <1>3, <2>1
    <2>3. Told(op, x, e, b, After(op, f, x)) BY <1>1, <2>2, OneEvent
    <2>4. Told(op, x, e, b, y) BY <2>1, <2>3
    <2>5. SumWith(x, e) = x.sum BY DEF SumWith
    <2>6. EventsOK(x.events) BY <2>2 DEF Quiet
    <2>7. SaidBy(y.events) = SaidBy(x.events)
      <3>1. SaidBy(x.events) \o <<>> = SaidBy(x.events) BY <2>6, SaidByIn, SeqIn, SeqNone
      <3> QED BY <1>2, <2>4, <3>1 DEF Told
    <2>8. op = "run" /\ Compact => Keeps(x.events, y.events)
      <3>1. SUFFICES ASSUME op = "run", Compact PROVE Keeps(x.events, y.events) OBVIOUS
      <3>2. y.events = Append(x.events, e) BY <2>4, <3>1 DEF Told
      <3>3. e.type \notin Bounds BY <3>1
      <3> QED BY <2>6, <3>2, <3>3, KeepsOne
    <2>9. Quiet(op, y) /\ y.buffers = b /\ y.sum = x.sum BY <2>4, <2>5 DEF Told
    <2>10. y.executed => x.executed \/ loop.calls > 0 BY <2>4 DEF Told
    <2> QED BY <2>1, <2>7, <2>8, <2>9, <2>10 DEF Quietly
  <1> QED BY <1>3 DEF Silent

\* A tool_execute does so.
LEMMA SilentExecution ==
  ASSUME setup.op \in {"run", "stream"}, NEW f, f.type = "tool_execute", loop.calls > 0
  PROVE  Silent(f)
  <1>1. ASSUME NEW x, Quiet(setup.op, x) PROVE Quietly(x, After(setup.op, f, x))
    <2>1. PICK y : y = After(setup.op, f, x) OBVIOUS
    <2>2. Quiet(setup.op, y) /\ y.buffers = x.buffers /\ y.sum = x.sum /\ y.events = x.events
      BY <1>1, <2>1, OneExecution
    <2>3. Keeps(x.events, x.events) BY DEF Keeps
    <2> QED BY <2>1, <2>2, <2>3 DEF Quietly
  <1> QED BY <1>1 DEF Silent

\* One such step after another.
LEMMA QuietlyOn ==
  ASSUME NEW x, NEW y, NEW z, Quietly(x, y), Quietly(y, z)
  PROVE  Quietly(x, z)
  BY DEF Quietly, Keeps

\* No such step.
LEMMA QuietlySame == ASSUME NEW x, Quiet(setup.op, x) PROVE Quietly(x, x)
  BY DEF Quietly, Keeps

\* The frames of such a step, one by one.
LEMMA SilentMany ==
  ASSUME NEW frames, IsSeq(frames), \A i \in 1..Len(frames) : Silent(frames[i]),
         NEW x, Quiet(setup.op, x)
  PROVE  \E more : /\ Ahead(setup.op, more, frames, x)
                   /\ \A i \in 0..Len(frames) : Quietly(x, more[i])
  <1>1. PICK op, l : op = setup.op /\ l = Len(frames) OBVIOUS
  <1>2. l \in Nat BY <1>1, SeqHas
  <1> DEFINE Reach(n) ==
               \E more : /\ more[0] = x
                         /\ \A k \in 1..n : more[k] = After(op, frames[k], more[k - 1])
                         /\ \A k \in 0..n : Quietly(x, more[k])
             T == {n \in Nat : n <= l => Reach(n)}
  <1>3. 0 \in T
    <2>1. PICK more : more = [k \in {0} |-> x] OBVIOUS
    <2>2. more[0] = x BY <2>1
    <2>3. Quietly(x, x) BY QuietlySame
    <2>4. \A k \in 0..0 : Quietly(x, more[k]) BY <2>2, <2>3
    <2>5. \A k \in 1..0 : FALSE OBVIOUS
    <2>6. Reach(0) BY <2>2, <2>4, <2>5
    <2> HIDE DEF Reach
    <2> QED BY <2>6
  <1>4. ASSUME NEW n \in Nat, n \in T PROVE n + 1 \in T
    <2>1. ASSUME n + 1 <= l PROVE Reach(n + 1)
      <3>1. Reach(n)
        <4>1. n <= l BY <1>2, <2>1
        <4> HIDE DEF Reach
        <4> QED BY <1>4, <4>1
      <3>2. PICK more : /\ more[0] = x
                        /\ \A k \in 1..n : more[k] = After(op, frames[k], more[k - 1])
                        /\ \A k \in 0..n : Quietly(x, more[k])
        BY <3>1
      <3>3. PICK f, y, z : f = frames[n + 1] /\ y = more[n] /\ z = After(op, f, y) OBVIOUS
      <3>4. Silent(f) /\ Quietly(x, y)
        <4>1. n + 1 \in 1..Len(frames) /\ n \in 0..n BY <1>1, <1>2, <2>1
        <4> QED BY <3>2, <3>3, <4>1
      <3>5. Quietly(y, z)
        <4>1. Quiet(setup.op, y) BY <3>4 DEF Quietly
        <4> QED BY <1>1, <3>3, <3>4, <4>1 DEF Silent
      <3>6. Quietly(x, z) BY <3>4, <3>5, QuietlyOn
      <3>7. PICK after : after = [k \in 0..(n + 1) |-> IF k <= n THEN more[k] ELSE z] OBVIOUS
      <3>8. /\ \A k \in 0..n : after[k] = more[k]
            /\ after[n + 1] = z
        <4>1. \A k \in 0..n : k \in 0..(n + 1) /\ k <= n OBVIOUS
        <4>2. n + 1 \in 0..(n + 1) /\ ~(n + 1 <= n) OBVIOUS
        <4> QED BY <3>7, <4>1, <4>2
      <3>9. \A k \in 0..(n + 1) : Quietly(x, after[k])
        <4>1. \A k \in 0..(n + 1) : k \in 0..n \/ k = n + 1 OBVIOUS
        <4> QED BY <3>2, <3>6, <3>8, <4>1
      <3>10. ASSUME NEW k \in 1..(n + 1) PROVE after[k] = After(op, frames[k], after[k - 1])
        <4>1. CASE k = n + 1
          <5>1. k - 1 = n /\ n \in 0..n BY <4>1
          <5>2. after[k - 1] = y BY <3>3, <3>8, <5>1
          <5> QED BY <3>3, <3>8, <4>1, <5>2
        <4>2. CASE k # n + 1
          <5>1. k \in 1..n /\ k \in 0..n /\ k - 1 \in 0..n BY <4>2
          <5>2. after[k] = more[k] /\ after[k - 1] = more[k - 1] BY <3>8, <5>1
          <5> QED BY <3>2, <5>1, <5>2
        <4> QED BY <4>1, <4>2
      <3>11. after[0] = x BY <3>2, <3>8
      <3> QED BY <3>9, <3>10, <3>11
    <2> HIDE DEF Reach
    <2> QED BY <2>1
  <1>5. \A n \in Nat : n \in T
    <2> HIDE DEF T
    <2> QED BY <1>3, <1>4, Induction
  <1>6. Reach(l)
    <2> HIDE DEF Reach
    <2> QED BY <1>2, <1>5
  <1>7. PICK more : /\ more[0] = x
                    /\ \A k \in 1..l : more[k] = After(op, frames[k], more[k - 1])
                    /\ \A k \in 0..l : Quietly(x, more[k])
    BY <1>6
  <1> QED BY <1>1, <1>7 DEF Ahead

\* Nothing is said and the message does not begin, grow or end.
LEMMA SilentGoes ==
  ASSUME LoopOK, NEW frames, IsSeq(frames), Stays(frames),
         \A i \in 1..Len(frames) : Silent(frames[i]), Len(frames) # 0,
         loop.pc \notin {"settle", "ended"}, loop'.pc # "ended",
         ~(loop.pc = "message" /\ loop.started), ~(loop'.pc = "message" /\ loop'.started),
         NEW x, Quiet(setup.op, x), Good(x), CaughtUp(x)
  PROVE  Goes(x, frames)
  <1>1. PICK more : /\ Ahead(setup.op, more, frames, x)
                    /\ \A i \in 0..Len(frames) : Quietly(x, more[i])
    BY SilentMany
  <1>2. SaidBy(x.events) = SaidByRun BY DEF CaughtUp
  <1>3. PICK said : said = <<>> OBVIOUS
  <1>4. Steps(frames, said) BY <1>3 DEF Stays
  <1>5. SaidByRun = SaidByRun \o said BY <1>3, LoopHas, SeqIn, SeqNone
  <1>6. ASSUME NEW y, Quietly(x, y) PROVE Good(y)' /\ CaughtUp(y)'
    <2>1. y.executed => loop.calls > 0 BY <1>6 DEF Quietly, Good
    <2>2. SaidBy(y.events) = SaidByRun \o said BY <1>2, <1>5, <1>6 DEF Quietly
    <2>3. Quiet(setup.op, y) BY <1>6 DEF Quietly
    <2>4. Buffered(y.buffers)'
      <3>1. Buffered(x.buffers) /\ y.buffers = x.buffers BY <1>6 DEF CaughtUp, Quietly
      <3> QED BY <3>1 DEF Buffered, Stays
    <2>5. setup.op = "stream" => Summing(y.sum)'
      <3>1. SUFFICES ASSUME setup.op = "stream" PROVE Summing(y.sum)' OBVIOUS
      <3>2. Summing(x.sum) /\ y.sum = x.sum BY <1>6, <3>1 DEF CaughtUp, Quietly
      <3> QED BY <3>2 DEF Summing, Stays
    <2>6. setup.op = "run" /\ Compact => Telling(y.events)'
      <3>1. SUFFICES ASSUME setup.op = "run", Compact PROVE Telling(y.events)' OBVIOUS
      <3>2. Telling(x.events) BY <3>1 DEF CaughtUp
      <3>3. finals # <<>> =>
              Ended(x.events, setup.api, Last(finals).usage, SaidIn(Last(finals).content))
        BY <3>2 DEF Telling
      <3>4. Keeps(x.events, y.events) BY <1>6, <3>1 DEF Quietly
      <3>5. finals # <<>> =>
              Ended(y.events, setup.api, Last(finals).usage, SaidIn(Last(finals).content))
        BY <3>3, <3>4 DEF Keeps
      <3>6. finals' = finals /\ setup' = setup BY DEF Stays, Steps
      <3> QED BY <3>5, <3>6 DEF Telling
    <2> QED BY <1>4, <2>1, <2>2, <2>3, <2>4, <2>5, <2>6, Arrives
  <1>7. Len(frames) \in Nat BY SeqHas
  <1>8. \A i \in 1..Len(frames) : Good(more[i])'
    <2> TAKE i \in 1..Len(frames)
    <2>1. i \in 0..Len(frames) BY <1>7
    <2> QED BY <1>1, <1>6, <2>1
  <1>9. CaughtUp(more[Len(frames)])'
    <2>1. Len(frames) \in 0..Len(frames) BY <1>7
    <2> QED BY <1>1, <1>6, <2>1
  <1> QED BY <1>1, <1>8, <1>9 DEF Goes

(***************************************************************************)
(* The steps in which the run says nothing.                                *)
(***************************************************************************)

\* What the invariant says of all but the tool calls.
Kept ==
  /\ ReadingOK' /\ IsSeq(wire') /\ SeenOK' /\ LoopOK'
  /\ setup'.op \in {"run", "stream", "resolve"}

\* The loop runs for a run or for a stream.
LEMMA RunsOrStreams ==
  ASSUME IInv, NEW frames, NEW said, Steps(frames, said)
  PROVE  setup.op \in {"run", "stream"}
  BY DEF IInv, Steps

\* A step that sends only silent frames keeps it.
LEMMA SilentSent ==
  ASSUME IInv, NEW frames, IsSeq(frames), Stays(frames),
         \A i \in 1..Len(frames) : Silent(frames[i]), Len(frames) # 0,
         loop.pc \notin {"settle", "ended"}, loop'.pc # "ended",
         ~(loop.pc = "message" /\ loop.started), ~(loop'.pc = "message" /\ loop'.started)
  PROVE  Kept
  <1>1. PICK said : said = <<>> OBVIOUS
  <1>2. Steps(frames, said) BY <1>1 DEF Stays
  <1>3. LoopOK BY DEF IInv
  <1>4. \A x : Quiet(setup.op, x) /\ Good(x) /\ CaughtUp(x) => Goes(x, frames)
    BY <1>3, SilentGoes
  <1> QED BY <1>2, <1>4, Sent DEF Kept

\* The frames that are silent.
LEMMA SilentAgentStart ==
  ASSUME setup.op \in {"run", "stream"} PROVE Silent(AgentEventFrame([type |-> "agent_start"]))
  <1>1. PICK f, e : /\ f = AgentEventFrame([type |-> "agent_start"])
                    /\ e = [type |-> "agent_start", session_id |-> Absent]
    OBVIOUS
  <1>2. Plain(f) /\ \A b : AgentFrame(f, b) = Only(e, b) BY <1>1, EventIsPlain, ReadsAgentStart
  <1>3. e.type = "agent_start" BY <1>1
  <1>4. Silent(f) BY <1>2, <1>3, SilentEvent DEF Bounds, Executing
  <1> QED BY <1>1, <1>4

LEMMA SilentTurnStart ==
  ASSUME setup.op \in {"run", "stream"} PROVE Silent(AgentEventFrame([type |-> "turn_start"]))
  <1>1. PICK f, e : f = AgentEventFrame([type |-> "turn_start"]) /\ e = [type |-> "turn_start"]
    OBVIOUS
  <1>2. Plain(f) /\ \A b : AgentFrame(f, b) = Only(e, b) BY <1>1, EventIsPlain, ReadsTurnStart
  <1>3. e.type = "turn_start" BY <1>1
  <1>4. Silent(f) BY <1>2, <1>3, SilentEvent DEF Bounds, Executing
  <1> QED BY <1>1, <1>4

LEMMA SilentOther ==
  ASSUME setup.op \in {"run", "stream"}, ~Compact
  PROVE  /\ Silent(AgentEventFrame([type |-> "message_start"]))
         /\ Silent(AgentEventFrame([type |-> "message_end"]))
  <1>1. PICK f, e : /\ f = AgentEventFrame([type |-> "message_start"])
                    /\ e = StartShown(Absent, Absent, Absent)
    OBVIOUS
  <1>2. Plain(f) /\ \A b : AgentFrame(f, b) = Only(e, b) BY <1>1, EventIsPlain, ReadsOtherStart
  <1>3. e.type = "message_start" BY <1>1 DEF StartShown
  <1>4. Silent(f) BY <1>2, <1>3, SilentEvent DEF Bounds, Executing
  <1>5. PICK g, d : /\ g = AgentEventFrame([type |-> "message_end"])
                    /\ d = EndShown(NoUsage, Absent, Absent)
    OBVIOUS
  <1>6. Plain(g) /\ \A b : AgentFrame(g, b) = Only(d, b) BY <1>5, EventIsPlain, ReadsOtherEnd
  <1>7. d.type = "message_end" /\ d.usage = NoUsage BY <1>5 DEF EndShown
  <1>8. Silent(g) BY <1>6, <1>7, SilentEvent DEF Bounds, Executing
  <1> QED BY <1>1, <1>4, <1>5, <1>8

LEMMA SilentTurnEnd ==
  ASSUME setup.op \in {"run", "stream"}, NEW sr, NEW em PROVE Silent(TurnEndFrame(sr, em))
  <1>1. PICK f, e : f = TurnEndFrame(sr, em) /\ e = TurnShown(sr, em) OBVIOUS
  <1>2. Plain(f) /\ \A b : AgentFrame(f, b) = Only(e, b) BY <1>1, TurnEndIsPlain, ReadsTurnEnd
  <1>3. e.type = "turn_end" BY <1>1 DEF TurnShown
  <1>4. Silent(f) BY <1>2, <1>3, SilentEvent DEF Bounds, Executing
  <1> QED BY <1>1, <1>4

LEMMA SilentRunsTool ==
  ASSUME setup.op \in {"run", "stream"}, loop.calls > 0, NEW t \in Executing, NEW id
  PROVE  Silent(AgentEventFrame([type |-> t, tool_call_id |-> id]))
  <1>1. PICK f, e : /\ f = AgentEventFrame([type |-> t, tool_call_id |-> id])
                    /\ e = ExecutionShown(t, id)
    OBVIOUS
  <1>2. Plain(f) /\ \A b : AgentFrame(f, b) = Only(e, b)
    BY <1>1, EventIsPlain, ReadsExecution DEF Executing
  <1>3. e.type = t BY <1>1 DEF ExecutionShown
  <1>4. e.type # "message_end" /\ e.type \notin Bounds BY <1>3 DEF Executing, Bounds
  <1>5. Silent(f) BY <1>2, <1>3, <1>4, SilentEvent
  <1> QED BY <1>1, <1>5

\* The prompt is answered with frames that are silent.
LEMMA PromptedKept ==
  ASSUME IInv, Prompted PROVE Kept
  <1>1. PICK g, a, b : /\ g = AgentEventFrame([type |-> "agent_start"])
                       /\ a = AgentEventFrame([type |-> "message_start"])
                       /\ b = AgentEventFrame([type |-> "message_end"])
    OBVIOUS
  <1>2. PICK before : before = IF Compact THEN <<>> ELSE <<a, b>> OBVIOUS
  <1>3. PICK frames : frames = before \o <<g>> OBVIOUS
  <1>4. Stays(frames) /\ loop.pc = "prompt" /\ loop'.pc = "turn"
    BY <1>1, <1>2, <1>3, PromptedLoop DEF IInv, OtherMessage
  <1>5. setup.op \in {"run", "stream"} BY <1>4, RunsOrStreams DEF Stays
  <1>6. /\ IsSeq(before)
        /\ \A i \in 1..Len(before) : Silent(before[i])
    <2>1. CASE Compact
      <3>1. before = <<>> BY <1>2, <2>1
      <3>2. IsSeq(before) /\ Len(before) = 0 BY <3>1, SeqEmpty
      <3> QED BY <3>2
    <2>2. CASE ~Compact
      <3>1. before = <<a, b>> BY <1>2, <2>2
      <3>2. IsSeq(before) /\ Len(before) = 2 /\ before[1] = a /\ before[2] = b BY <3>1, SeqTwo
      <3>3. Silent(a) /\ Silent(b) BY <1>1, <1>5, <2>2, SilentOther
      <3>4. \A i \in 1..Len(before) : i = 1 \/ i = 2 BY <3>2
      <3> QED BY <3>2, <3>3, <3>4
    <2> QED BY <2>1, <2>2
  <1>7. frames = Append(before, g) BY <1>3, <1>6, SeqAppendJoin
  <1>8. /\ IsSeq(frames) /\ Len(frames) = Len(before) + 1 /\ frames[Len(before) + 1] = g
        /\ \A i \in 1..Len(before) : frames[i] = before[i]
    BY <1>6, <1>7, SeqAppend
  <1>9. Len(before) \in Nat BY <1>6, SeqHas
  <1>10. Silent(g) BY <1>1, <1>5, SilentAgentStart
  <1>11. \A i \in 1..Len(frames) : Silent(frames[i])
    <2>1. \A i \in 1..Len(frames) : i \in 1..Len(before) \/ i = Len(before) + 1 BY <1>8, <1>9
    <2> QED BY <1>6, <1>8, <1>10, <2>1
  <1>12. Len(frames) # 0 BY <1>8, <1>9
  <1> QED BY <1>4, <1>8, <1>11, <1>12, SilentSent

\* One silent frame.
LEMMA SilentOne ==
  ASSUME IInv, NEW f, Silent(f), Stays(<<f>>), loop.pc \notin {"settle", "ended"},
         loop'.pc # "ended", ~(loop.pc = "message" /\ loop.started),
         ~(loop'.pc = "message" /\ loop'.started)
  PROVE  Kept
  <1>1. PICK frames : frames = <<f>> OBVIOUS
  <1>2. IsSeq(frames) /\ Len(frames) = 1 /\ frames[1] = f BY <1>1, SeqOne
  <1>3. \A i \in 1..Len(frames) : i = 1 BY <1>2
  <1>4. \A i \in 1..Len(frames) : Silent(frames[i]) BY <1>2, <1>3
  <1>5. Stays(frames) /\ Len(frames) # 0 BY <1>1, <1>2
  <1>6. IsSeq(frames) BY <1>2
  <1> QED BY <1>4, <1>5, <1>6, SilentSent

\* Two silent frames.
LEMMA SilentTwo ==
  ASSUME IInv, NEW f, NEW g, Silent(f), Silent(g), Stays(<<f, g>>),
         loop.pc \notin {"settle", "ended"}, loop'.pc # "ended",
         ~(loop.pc = "message" /\ loop.started), ~(loop'.pc = "message" /\ loop'.started)
  PROVE  Kept
  <1>1. PICK frames : frames = <<f, g>> OBVIOUS
  <1>2. IsSeq(frames) /\ Len(frames) = 2 /\ frames[1] = f /\ frames[2] = g BY <1>1, SeqTwo
  <1>3. \A i \in 1..Len(frames) : i = 1 \/ i = 2 BY <1>2
  <1>4. \A i \in 1..Len(frames) : Silent(frames[i]) BY <1>2, <1>3
  <1>5. Stays(frames) /\ Len(frames) # 0 BY <1>1, <1>2
  <1>6. IsSeq(frames) BY <1>2
  <1> QED BY <1>4, <1>5, <1>6, SilentSent

\* A turn begins.
LEMMA TurnBeginsKept ==
  ASSUME IInv, TurnBegins PROVE Kept
  <1>1. PICK f : f = AgentEventFrame([type |-> "turn_start"]) OBVIOUS
  <1>2. /\ Stays(<<f>>) /\ loop.pc = "turn" /\ loop'.pc = "message" /\ ~loop'.started
    BY <1>1, TurnBeginsLoop DEF IInv
  <1>3. setup.op \in {"run", "stream"} BY <1>2, RunsOrStreams DEF Stays
  <1>4. Silent(f) BY <1>1, <1>3, SilentTurnStart
  <1> QED BY <1>2, <1>4, SilentOne

\* A tool call is handed to the client, or refused.
LEMMA ToolBeginsKept ==
  ASSUME IInv, NEW known \in BOOLEAN, ToolBegins(known) PROVE Kept
  <1>1. PICK begun, ended, execute :
          /\ begun = AgentEventFrame([type |-> "tool_execution_start", tool_call_id |-> ThisCall.id])
          /\ ended = AgentEventFrame([type |-> "tool_execution_end", tool_call_id |-> ThisCall.id])
          /\ execute = [type |-> "tool_execute", payload |-> [tool_call_id |-> ThisCall.id]]
    OBVIOUS
  <1>2. /\ loop.pc = "tools" /\ loop.calls > 0
        /\ \/ Stays(<<begun, execute>>) /\ loop'.pc = "executing"
           \/ Stays(<<begun, ended>>) /\ loop'.pc = "tools"
    BY <1>1, ToolBeginsLoop DEF IInv
  <1>3. setup.op \in {"run", "stream"} BY <1>2, RunsOrStreams DEF Stays
  <1>4. Silent(begun) /\ Silent(ended)
    <2>1. "tool_execution_start" \in Executing /\ "tool_execution_end" \in Executing
      BY DEF Executing
    <2> QED BY <1>1, <1>2, <1>3, <2>1, SilentRunsTool
  <1>5. Silent(execute)
    <2>1. execute.type = "tool_execute" BY <1>1
    <2> QED BY <1>2, <1>3, <2>1, SilentExecution
  <1> QED BY <1>2, <1>4, <1>5, SilentTwo

\* Its result is taken.
LEMMA ToolEndsKept ==
  ASSUME IInv, ToolEnds PROVE Kept
  <1>1. PICK f : f = AgentEventFrame([type |-> "tool_execution_end", tool_call_id |-> ThisCall.id])
    OBVIOUS
  <1>2. /\ Stays(<<f>>) /\ loop.pc = "executing" /\ loop'.pc = "tools" /\ loop.calls > 0
    BY <1>1, ToolEndsLoop DEF IInv
  <1>3. setup.op \in {"run", "stream"} BY <1>2, RunsOrStreams DEF Stays
  <1>4. Silent(f)
    <2>1. "tool_execution_end" \in Executing BY DEF Executing
    <2> QED BY <1>1, <1>2, <1>3, <2>1, SilentRunsTool
  <1> QED BY <1>2, <1>4, SilentOne

\* The results are sent with the next turn.
LEMMA ToolsDoneKept ==
  ASSUME IInv, ToolsDone PROVE Kept
  <1>1. PICK g, a, b : /\ g = TurnEndFrame("tool_use", "")
                       /\ a = AgentEventFrame([type |-> "message_start"])
                       /\ b = AgentEventFrame([type |-> "message_end"])
    OBVIOUS
  <1>2. PICK n \in Nat :
          Stays(<<g>> \o (IF Compact THEN <<>> ELSE FlattenSeq([i \in 1..n |-> OtherMessage])))
    BY <1>1, ToolsDoneLoop DEF IInv
  <1>3. PICK results : results = IF Compact THEN <<>> ELSE FlattenSeq([i \in 1..n |-> OtherMessage])
    OBVIOUS
  <1>4. PICK frames : frames = <<g>> \o results OBVIOUS
  <1>5. Stays(frames) /\ loop.pc = "tools" /\ loop'.pc \in {"turn", "settle"}
    BY <1>2, <1>3, <1>4, ToolsDoneLoop DEF IInv
  <1>6. setup.op \in {"run", "stream"} BY <1>5, RunsOrStreams DEF Stays
  <1>7. Silent(g) BY <1>1, <1>6, SilentTurnEnd
  <1>8. IsSeq(results) /\ \A i \in 1..Len(results) : Silent(results[i])
    <2>1. CASE Compact
      <3>1. results = <<>> BY <1>3, <2>1
      <3>2. IsSeq(results) /\ Len(results) = 0 BY <3>1, SeqEmpty
      <3> QED BY <3>2
    <2>2. CASE ~Compact
      <3>1. PICK S, other : S = {a, b} /\ other = OtherMessage OBVIOUS
      <3>2. other \in Seq(S)
        <4>1. other = <<a, b>> BY <1>1, <3>1 DEF OtherMessage
        <4> QED BY <3>1, <4>1
      <3>3. PICK W : W = Seq(S) OBVIOUS
      <3>4. PICK each : each = [i \in 1..n |-> other] OBVIOUS
      <3>5. each \in Seq(W) BY <3>2, <3>3, <3>4
      <3>6. results = FlattenSeq(each) BY <1>3, <2>2, <3>1, <3>4
      <3>7. results \in Seq(S) BY <3>3, <3>5, <3>6, FlatIn
      <3>8. Silent(a) /\ Silent(b) BY <1>1, <1>6, <2>2, SilentOther
      <3>9. IsSeq(results) BY <3>7, SeqIn
      <3>10. \A i \in 1..Len(results) : results[i] \in S BY <3>7
      <3> QED BY <3>1, <3>8, <3>9, <3>10
    <2> QED BY <2>1, <2>2
  <1>9. PICK first : first = <<g>> OBVIOUS
  <1>10. IsSeq(first) /\ Len(first) = 1 /\ first[1] = g BY <1>9, SeqOne
  <1>11. IsSeq(first) BY <1>10
  <1>12. frames = first \o results BY <1>4, <1>9
  <1>13. /\ IsSeq(frames) /\ Len(frames) = Len(first) + Len(results)
         /\ \A i \in 1..Len(first) : frames[i] = first[i]
         /\ \A i \in 1..Len(results) : frames[Len(first) + i] = results[i]
    <2>1. IsSeq(results) BY <1>8
    <2> QED BY <1>11, <1>12, <2>1, SeqJoin
  <1>14. PICK m : m = Len(results) OBVIOUS
  <1>15. m \in Nat BY <1>8, <1>14, SeqHas
  <1>16. Len(frames) = m + 1 /\ frames[1] = g /\ \A i \in 1..m : frames[i + 1] = results[i]
    <2>1. Len(frames) = m + 1 BY <1>10, <1>13, <1>14, <1>15
    <2>2. 1 \in 1..Len(first) BY <1>10
    <2>3. frames[1] = first[1] BY <1>13, <2>2
    <2>4. ASSUME NEW i \in 1..m PROVE frames[i + 1] = results[i]
      <3>1. Len(first) + i = i + 1 BY <1>10
      <3>2. frames[Len(first) + i] = results[i] BY <1>13, <1>14
      <3> QED BY <3>1, <3>2
    <2> QED BY <1>10, <2>1, <2>3, <2>4
  <1>17. \A i \in 1..Len(frames) : Silent(frames[i])
    <2> TAKE i \in 1..Len(frames)
    <2>1. CASE i = 1 BY <1>7, <1>16, <2>1
    <2>2. CASE i # 1
      <3>1. PICK j : j = i - 1 OBVIOUS
      <3>2. j \in 1..m /\ i = j + 1 BY <1>15, <1>16, <2>2, <3>1
      <3>3. frames[i] = results[j] /\ Silent(results[j]) BY <1>8, <1>14, <1>16, <3>2
      <3> QED BY <3>3
    <2> QED BY <2>1, <2>2
  <1>18. Len(frames) # 0 BY <1>15, <1>16
  <1>19. IsSeq(frames) BY <1>13
  <1> QED BY <1>5, <1>17, <1>18, <1>19, SilentSent

(***************************************************************************)
(* The steps in which the message grows.                                   *)
(***************************************************************************)

\* y is x after a frame that says so much of the message under way.
Further(x, y, said) ==
  /\ Quiet(setup.op, y) /\ y.sum = x.sum
  /\ SaidBy(y.events) = SaidBy(x.events) \o said
  /\ y.executed => x.executed
  /\ setup.op = "run" =>
       \A api : \A s \in Seq(Words) :
         UnderWay(x.events, api, s) => UnderWay(y.events, api, s \o said)

\* An event that is no bound says so much.
LEMMA FurtherEvent ==
  ASSUME NEW x, NEW e, NEW b, NEW y, Quiet(setup.op, x), Told(setup.op, x, e, b, y), EventOK(e),
         e.type \notin Bounds \cup Executing
  PROVE  Further(x, y, EventSays(e)) /\ y.buffers = b
  <1>1. SumWith(x, e) = x.sum BY DEF SumWith, Bounds
  <1>2. Quiet(setup.op, y) /\ y.sum = x.sum /\ y.buffers = b BY <1>1 DEF Told
  <1>3. SaidBy(y.events) = SaidBy(x.events) \o EventSays(e) /\ (y.executed => x.executed)
    BY DEF Told
  <1>4. ASSUME setup.op = "run", NEW api, NEW s \in Seq(Words), UnderWay(x.events, api, s)
        PROVE  UnderWay(y.events, api, s \o EventSays(e))
    <2>1. y.events = Append(x.events, e) BY <1>4 DEF Told
    <2>2. EventsOK(x.events) BY DEF Quiet
    <2>3. e.type \notin Bounds OBVIOUS
    <2>4. UnderWay(Append(x.events, e), api, s \o EventSays(e)) BY <1>4, <2>2, <2>3, UnderWayMore
    <2> QED BY <2>1, <2>4
  <1> QED BY <1>2, <1>3, <1>4 DEF Further

\* A frame that only changes what is buffered says nothing.
LEMMA FurtherNothing ==
  ASSUME NEW x, NEW b, NEW y, Quiet(setup.op, x), Same(setup.op, x, b, y)
  PROVE  Further(x, y, <<>>) /\ y.buffers = b
  <1>1. /\ Quiet(setup.op, y) /\ y.sum = x.sum /\ y.buffers = b /\ y.events = x.events
        /\ (y.executed => x.executed)
    BY DEF Same
  <1>2. EventsOK(x.events) BY DEF Quiet
  <1>3. SaidBy(x.events) = SaidBy(x.events) \o <<>> BY <1>2, SaidByIn, SeqIn, SeqNone
  <1>4. SaidBy(y.events) = SaidBy(x.events) \o <<>> BY <1>1, <1>3
  <1>5. ASSUME NEW api, NEW s \in Seq(Words), UnderWay(x.events, api, s)
        PROVE  UnderWay(y.events, api, s \o <<>>)
    <2>1. s \o <<>> = s BY SeqIn, SeqNone
    <2> QED BY <1>1, <1>5, <2>1
  <1> QED BY <1>1, <1>4, <1>5 DEF Further

\* A frame that says what the message has grown by keeps the client caught up.
LEMMA FurtherGoes ==
  ASSUME LoopOK, NEW f, NEW said, Steps(<<f>>, said), Streaming, Grown(said),
         NEW x, Quiet(setup.op, x), Good(x), CaughtUp(x),
         NEW y, y = After(setup.op, f, x), Further(x, y, said), Buffered(y.buffers)'
  PROVE  Goes(x, <<f>>)
  <1>1. PICK frames : frames = <<f>> OBVIOUS
  <1>2. Steps(frames, said) BY <1>1
  <1>3. loop.pc = "message" /\ loop.started BY DEF Streaming
  <1>4. loop'.pc = "message" /\ loop'.started /\ finals' = finals
        /\ SaidIn(Closed)' = SaidIn(Closed) \o said
    BY DEF Grown
  <1>5. /\ SaidBy(x.events) = SaidByRun
        /\ setup.op = "stream" => Summing(x.sum)
        /\ setup.op = "run" /\ Compact => Telling(x.events)
    BY <1>3 DEF CaughtUp
  <1>6. SaidBy(y.events) = SaidByRun \o said BY <1>5 DEF Further
  <1>7. y.executed => loop.calls > 0 BY DEF Further, Good
  <1>8. setup.op = "stream" => Summing(y.sum)'
    <2>1. SUFFICES ASSUME setup.op = "stream" PROVE Summing(y.sum)' OBVIOUS
    <2>2. Summing(x.sum) /\ y.sum = x.sum BY <1>5, <2>1 DEF Further
    <2> QED BY <1>3, <1>4, <2>2 DEF Summing
  <1>9. setup.op = "run" /\ Compact => Telling(y.events)'
    <2>1. SUFFICES ASSUME setup.op = "run", Compact PROVE Telling(y.events)' OBVIOUS
    <2>2. UnderWay(x.events, setup.api, SaidIn(Closed)) BY <1>3, <1>5, <2>1 DEF Telling
    <2>3. SaidIn(Closed) \in Seq(Words) BY LoopHas
    <2>4. UnderWay(y.events, setup.api, SaidIn(Closed) \o said) BY <2>1, <2>2, <2>3 DEF Further
    <2>5. setup' = setup BY DEF Steps
    <2> QED BY <1>4, <2>4, <2>5 DEF Telling
  <1>10. Quiet(setup.op, y) BY DEF Further
  <1>11. Good(y)' /\ CaughtUp(y)' BY <1>2, <1>6, <1>7, <1>8, <1>9, <1>10, Arrives
  <1> QED BY <1>11, GoesOne

\* So the step that sends it keeps the invariant.
LEMMA FurtherKept ==
  ASSUME IInv, NEW f, NEW said, Steps(<<f>>, said), Streaming, Grown(said),
         \A x, y : /\ Quiet(setup.op, x) /\ Buffered(x.buffers) /\ y = After(setup.op, f, x)
                   => Further(x, y, said) /\ Buffered(y.buffers)'
  PROVE  Kept
  <1>1. PICK frames : frames = <<f>> OBVIOUS
  <1>2. IsSeq(frames) BY <1>1, SeqOne
  <1>3. Steps(frames, said) /\ loop.pc # "ended" BY <1>1 DEF Streaming
  <1>4. ASSUME NEW x, Quiet(setup.op, x), Good(x), CaughtUp(x) PROVE Goes(x, frames)
    <2>1. PICK y : y = After(setup.op, f, x) OBVIOUS
    <2>2. Buffered(x.buffers) BY <1>4 DEF CaughtUp, Streaming
    <2>3. Further(x, y, said) /\ Buffered(y.buffers)' BY <1>4, <2>1, <2>2
    <2>4. LoopOK BY DEF IInv
    <2>5. Goes(x, <<f>>) BY <1>4, <2>1, <2>3, <2>4, FurtherGoes
    <2> QED BY <1>1, <2>5
  <1> QED BY <1>2, <1>3, <1>4, Sent DEF Kept

\* A frame that is that event, whatever is buffered.
Tells(f, e) == Plain(f) /\ \A b : AgentFrame(f, b) = Only(e, b)

\* The event of a fragment.
FragmentShown(t) == IF t = "text" THEN TextShown(Fragment) ELSE ThinkingShown(Fragment)

\* A fragment of text or of thinking.
LEMMA FragmentKept ==
  ASSUME IInv, NEW t, NEW f, NEW e, t \in {"text", "thinking"}, Streaming,
         Grown(Say(t, Fragment)), loop'.open = {}, loop.open = {}, LoopStep,
         wire' = wire \o <<f>>, Tells(f, e), e = FragmentShown(t)
  PROVE  Kept
  <1>1. LoopOK BY DEF IInv
  <1>2. Fragment \in Fragments BY <1>1, FragmentIn
  <1>3. /\ EventOK(e) /\ e.type \notin Bounds \cup Executing /\ e.type \notin Terminal
        /\ EventSays(e) = Say(t, Fragment)
    <2>1. CASE t = "text"
      <3>1. e.type = "text_delta" /\ e.delta = Fragment BY <2>1 DEF FragmentShown, TextShown
      <3>2. EventOK(e) BY <1>2, <3>1 DEF EventOK, EventTypes
      <3> QED BY <2>1, <3>1, <3>2, EventSaysIn DEF Bounds, Executing, Terminal
    <2>2. CASE t = "thinking"
      <3>1. e.type = "thinking_delta" /\ e.delta = Fragment
        BY <2>2 DEF FragmentShown, ThinkingShown
      <3>2. EventOK(e) BY <1>2, <3>1 DEF EventOK, EventTypes
      <3> QED BY <2>2, <3>1, <3>2, EventSaysIn DEF Bounds, Executing, Terminal
    <2> QED BY <2>1, <2>2
  <1>4. PICK said : said = Say(t, Fragment) OBVIOUS
  <1>5. said \in Seq(Words) BY <1>2, <1>4, SayIn
  <1>6. PICK frames : frames = <<f>> OBVIOUS
  <1>7. Grown(said) /\ wire' = wire \o frames BY <1>4, <1>6
  <1>8. Steps(frames, said) BY <1>5, <1>7, GrownSteps
  <1>9. ASSUME NEW x, NEW y, Quiet(setup.op, x), Buffered(x.buffers), y = After(setup.op, f, x)
        PROVE  Further(x, y, said) /\ Buffered(y.buffers)'
    <2>1. PICK b : b = x.buffers OBVIOUS
    <2>2. setup.op \in {"run", "stream"} BY <1>8, RunsOrStreams
    <2>3. Plain(f) /\ AgentFrame(f, x.buffers) = Only(e, b) BY <2>1 DEF Tells
    <2>4. Told(setup.op, x, e, b, y) BY <1>3, <1>9, <2>2, <2>3, OneEvent
    <2>5. Further(x, y, said) /\ y.buffers = b BY <1>3, <1>4, <1>9, <2>4, FurtherEvent
    <2>6. DOMAIN b = {} BY <1>9, <2>1 DEF Buffered
    <2>7. Buffered(y.buffers)' BY <2>5, <2>6 DEF Buffered
    <2> QED BY <2>5, <2>7
  <1> QED BY <1>6, <1>7, <1>8, <1>9, FurtherKept

\* Text keeps it.
LEMMA TextKept ==
  ASSUME IInv, Text PROVE Kept
  <1>1. LoopOK BY DEF IInv
  <1>2. PICK i : wire' = wire \o <<Update([type |-> "text_delta", content_index |-> i,
                                           delta |-> Fragment])>>
    BY <1>1, TextLoop
  <1>3. PICK d, f, e : /\ d = [type |-> "text_delta", content_index |-> i, delta |-> Fragment]
                       /\ f = Update(d) /\ e = TextShown(Fragment)
    OBVIOUS
  <1>4. d.type = "text_delta" BY <1>3
  <1>5. Plain(f) BY <1>3, <1>4, UpdateIsPlain
  <1>6. \A b : AgentFrame(f, b) = Only(e, b) BY <1>3, ReadsText
  <1>7. Streaming BY DEF Text
  <1>8. Grown(Say("text", Fragment)) /\ loop'.open = {} /\ loop.open = {} /\ LoopStep
    BY <1>1, TextLoop
  <1>9. PICK t : t = "text" OBVIOUS
  <1>10. t \in {"text", "thinking"} /\ e = FragmentShown(t) BY <1>3, <1>9 DEF FragmentShown
  <1>11. Grown(Say(t, Fragment)) BY <1>8, <1>9
  <1>12. wire' = wire \o <<f>> BY <1>2, <1>3
  <1>13. Tells(f, e) BY <1>5, <1>6 DEF Tells
  <1> QED BY <1>7, <1>8, <1>10, <1>11, <1>12, <1>13, FragmentKept

\* Thinking keeps it.
LEMMA ThinkingKept ==
  ASSUME IInv, Thinking PROVE Kept
  <1>1. LoopOK BY DEF IInv
  <1>2. PICK e : e = ThinkingShown(Fragment) OBVIOUS
  <1>3. \E f : /\ wire' = wire \o <<f>> /\ Plain(f)
               /\ \A b : AgentFrame(f, b) = Only(e, b)
    <2>1. CASE \E i : wire' = wire \o <<Update([type |-> "thinking_delta", content_index |-> i,
                                                delta |-> Fragment])>>
      <3>1. PICK i : wire' = wire \o <<Update([type |-> "thinking_delta", content_index |-> i,
                                               delta |-> Fragment])>>
        BY <2>1
      <3>2. PICK d, f : /\ d = [type |-> "thinking_delta", content_index |-> i, delta |-> Fragment]
                        /\ f = Update(d)
        OBVIOUS
      <3>3. d.type = "thinking_delta" BY <3>2
      <3>4. Plain(f) BY <3>2, <3>3, UpdateIsPlain
      <3>5. \A b : AgentFrame(f, b) = Only(e, b) BY <1>2, <3>2, ReadsThinking
      <3> QED BY <3>1, <3>2, <3>4, <3>5
    <2>2. CASE wire' = wire \o <<Update([type |-> "reasoning", delta |-> Fragment])>>
      <3>1. PICK d, f : d = [type |-> "reasoning", delta |-> Fragment] /\ f = Update(d)
        OBVIOUS
      <3>2. d.type = "reasoning" BY <3>1
      <3>3. Plain(f) BY <3>1, <3>2, UpdateIsPlain
      <3>4. \A b : AgentFrame(f, b) = Only(e, b) BY <1>2, <3>1, ReadsThinking
      <3> QED BY <2>2, <3>1, <3>3, <3>4
    <2> QED BY <1>1, <2>1, <2>2, ThinkingLoop
  <1>4. PICK f : /\ wire' = wire \o <<f>> /\ Plain(f)
                 /\ \A b : AgentFrame(f, b) = Only(e, b)
    BY <1>3
  <1>5. Streaming BY DEF Thinking
  <1>6. Grown(Say("thinking", Fragment)) /\ loop'.open = {} /\ loop.open = {} /\ LoopStep
    BY <1>1, ThinkingLoop
  <1>7. PICK t : t = "thinking" OBVIOUS
  <1>8. t \in {"text", "thinking"} /\ e = FragmentShown(t)
    BY <1>2, <1>7 DEF FragmentShown
  <1>9. Grown(Say(t, Fragment)) BY <1>6, <1>7
  <1>10. wire' = wire \o <<f>> /\ Tells(f, e) BY <1>4 DEF Tells
  <1> QED BY <1>5, <1>6, <1>8, <1>9, <1>10, FragmentKept

(***************************************************************************)
(* The steps of a tool call, and the start of the message.                 *)
(***************************************************************************)

\* What is buffered with one call more, or changed.
LEMMA BufferHas ==
  ASSUME NEW b, NEW i, NEW tool, NEW c, c = Buffer(b, i, tool)
  PROVE  /\ DOMAIN c = DOMAIN b \cup {i} /\ c[i] = tool
         /\ \A j \in DOMAIN b : j # i => c[j] = b[j]
  BY DEF Buffer

\* A frame of which a client keeps what it buffers, and nothing else.
LEMMA BufferingKept ==
  ASSUME IInv, NEW f, Streaming, Grown(<<>>), LoopStep, wire' = wire \o <<f>>, Plain(f),
         \A b : Buffered(b) => \E c : AgentFrame(f, b) = Nothing(c) /\ Buffered(c)'
  PROVE  Kept
  <1>1. LoopOK BY DEF IInv
  <1>2. PICK said, frames : said = <<>> /\ frames = <<f>> OBVIOUS
  <1>3. said \in Seq(Words) /\ Grown(said) BY <1>1, <1>2, SaysNothing
  <1>4. wire' = wire \o frames BY <1>2
  <1>5. Steps(frames, said) BY <1>3, <1>4, GrownSteps
  <1>6. ASSUME NEW x, NEW y, Quiet(setup.op, x), Buffered(x.buffers), y = After(setup.op, f, x)
        PROVE  Further(x, y, said) /\ Buffered(y.buffers)'
    <2>1. PICK c : AgentFrame(f, x.buffers) = Nothing(c) /\ Buffered(c)' BY <1>6
    <2>2. setup.op \in {"run", "stream"} BY <1>5, RunsOrStreams
    <2>3. Same(setup.op, x, c, y) BY <1>6, <2>1, <2>2, OneNothing
    <2>4. Further(x, y, said) /\ y.buffers = c BY <1>2, <1>6, <2>3, FurtherNothing
    <2> QED BY <2>1, <2>4
  <1> QED BY <1>2, <1>3, <1>5, <1>6, FurtherKept

\* A call opens in the loop and in the buffers.
LEMMA ToolStartsKept ==
  ASSUME IInv, ToolStarts PROVE Kept
  <1>1. LoopOK BY DEF IInv
  <1>2. Grown(<<>>) /\ LoopStep BY <1>1, ToolStartsLoop
  <1>3. PICK i, id :
          /\ loop'.open = loop.open \cup {i}
          /\ loop'.content[i].id = id /\ loop'.content[i].name = "lookup"
          /\ loop'.content[i].arguments_json = <<>>
          /\ \A j \in loop.open : loop'.content[j] = loop.content[j]
          /\ wire' = wire \o <<Update([type |-> "toolcall_start", content_index |-> i,
                                       id |-> id, name |-> "lookup"])>>
    BY <1>1, ToolStartsLoop
  <1>4. PICK name, d, f :
          /\ name = "lookup"
          /\ d = [type |-> "toolcall_start", content_index |-> i, id |-> id, name |-> name]
          /\ f = Update(d)
    OBVIOUS
  <1>5. d.type = "toolcall_start" BY <1>4
  <1>6. Plain(f) BY <1>4, <1>5, UpdateIsPlain
  <1>7. ASSUME NEW b, Buffered(b) PROVE \E c : AgentFrame(f, b) = Nothing(c) /\ Buffered(c)'
    <2>1. PICK tool, c : tool = Tool(id, name, <<>>) /\ c = Buffer(b, i, tool) OBVIOUS
    <2>2. AgentFrame(f, b) = Nothing(c) BY <1>4, <2>1, ReadsToolStart DEF Tool
    <2>3. /\ DOMAIN c = DOMAIN b \cup {i} /\ c[i] = tool
          /\ \A j \in DOMAIN b : j # i => c[j] = b[j]
      <3>1. c = Buffer(b, i, tool) BY <2>1
      <3> QED BY <3>1 DEF Buffer
    <2>4. DOMAIN b = loop.open BY <1>7 DEF Buffered
    <2>5. ASSUME NEW j \in loop'.open
          PROVE  c[j] = Tool(loop'.content[j].id, loop'.content[j].name,
                             loop'.content[j].arguments_json)
      <3>1. CASE j = i BY <1>3, <1>4, <2>1, <2>3, <3>1
      <3>2. CASE j # i
        <4>1. j \in loop.open BY <1>3, <2>5, <3>2
        <4>2. c[j] = b[j] /\ loop'.content[j] = loop.content[j] BY <1>3, <2>3, <2>4, <3>2, <4>1
        <4>3. b[j] = Tool(loop.content[j].id, loop.content[j].name, loop.content[j].arguments_json)
          BY <1>7, <4>1 DEF Buffered
        <4> QED BY <4>2, <4>3
      <3> QED BY <3>1, <3>2
    <2>6. DOMAIN c = loop'.open BY <1>3, <2>3, <2>4
    <2>7. Buffered(c)' BY <2>5, <2>6 DEF Buffered
    <2> QED BY <2>2, <2>7
  <1>8. wire' = wire \o <<f>> BY <1>3, <1>4
  <1>9. Streaming BY DEF ToolStarts
  <1> QED BY <1>2, <1>6, <1>7, <1>8, <1>9, BufferingKept

\* It grows in both.
LEMMA ToolGrowsKept ==
  ASSUME IInv, NEW index, index \in loop.open, ToolGrows(index) PROVE Kept
  <1>1. LoopOK BY DEF IInv
  <1>2. Grown(<<>>) /\ LoopStep BY <1>1, ToolGrowsLoop
  <1>3. /\ loop'.open = loop.open
        /\ loop'.content[index].id = loop.content[index].id
        /\ loop'.content[index].name = loop.content[index].name
        /\ loop'.content[index].arguments_json = loop.content[index].arguments_json \o Fragment
        /\ \A j \in loop.open : j # index => loop'.content[j] = loop.content[j]
    <2>1. /\ loop'.open = loop.open
          /\ loop'.content[index].id = loop.content[index].id
          /\ loop'.content[index].name = loop.content[index].name
      BY <1>1, ToolGrowsLoop
    <2>2. loop'.content[index].arguments_json = loop.content[index].arguments_json \o Fragment
      BY <1>1, ToolGrowsLoop
    <2>3. ASSUME NEW j \in loop.open, j # index PROVE loop'.content[j] = loop.content[j]
      <3>1. SameBut(index) BY <1>1, ToolGrowsLoop
      <3> QED BY <2>3, <3>1 DEF SameBut
    <2> QED BY <2>1, <2>2, <2>3
  <1>4. PICK d, f :
          /\ d = [type |-> "toolcall_delta", content_index |-> index, delta |-> Fragment]
          /\ f = Update(d)
    OBVIOUS
  <1>5. wire' = wire \o <<f>> BY <1>1, <1>4, ToolGrowsLoop
  <1>6. d.type = "toolcall_delta" BY <1>4
  <1>7. Plain(f) BY <1>4, <1>6, UpdateIsPlain
  <1>8. ASSUME NEW b, Buffered(b) PROVE \E c : AgentFrame(f, b) = Nothing(c) /\ Buffered(c)'
    <2>1. PICK id, name, args : /\ id = loop.content[index].id /\ name = loop.content[index].name
                                /\ args = loop.content[index].arguments_json
      OBVIOUS
    <2>2. DOMAIN b = loop.open /\ b[index] = Tool(id, name, args) BY <1>8, <2>1 DEF Buffered
    <2>3. PICK tool, c : tool = Tool(id, name, args \o Fragment) /\ c = Buffer(b, index, tool)
      OBVIOUS
    <2>4. AgentFrame(f, b) = Nothing(c) BY <1>4, <2>2, <2>3, ReadsToolDelta
    <2>5. /\ DOMAIN c = DOMAIN b \cup {index} /\ c[index] = tool
          /\ \A j \in DOMAIN b : j # index => c[j] = b[j]
      BY <2>3, BufferHas
    <2>6. ASSUME NEW j \in loop'.open
          PROVE  c[j] = Tool(loop'.content[j].id, loop'.content[j].name,
                             loop'.content[j].arguments_json)
      <3>1. CASE j = index BY <1>3, <2>1, <2>3, <2>5, <3>1
      <3>2. CASE j # index
        <4>1. j \in loop.open BY <1>3, <2>6
        <4>2. c[j] = b[j] /\ loop'.content[j] = loop.content[j] BY <1>3, <2>2, <2>5, <3>2, <4>1
        <4>3. b[j] = Tool(loop.content[j].id, loop.content[j].name, loop.content[j].arguments_json)
          BY <1>8, <4>1 DEF Buffered
        <4> QED BY <4>2, <4>3
      <3> QED BY <3>1, <3>2
    <2>7. DOMAIN c = loop'.open BY <1>3, <2>2, <2>5
    <2>8. Buffered(c)' BY <2>6, <2>7 DEF Buffered
    <2> QED BY <2>4, <2>8
  <1>9. Streaming BY DEF ToolGrows
  <1> QED BY <1>2, <1>5, <1>7, <1>8, <1>9, BufferingKept

\* It is closed in the loop, dropped from the buffers and shown.
LEMMA ToolClosesKept ==
  ASSUME IInv, NEW index, index \in loop.open, ToolCloses(index) PROVE Kept
  <1>1. LoopOK BY DEF IInv
  <1>2. PICK part, id, args : /\ part = loop.content[index] /\ id = part.id
                              /\ args = part.arguments_json
    OBVIOUS
  <1>3. PICK said : said = SaysCall(id, part) OBVIOUS
  <1>4. Grown(said) /\ LoopStep /\ part \in LoopCalls /\ loop'.open = loop.open \ {index}
        /\ loop'.content = loop.content
    BY <1>1, <1>2, <1>3, ToolClosesLoop
  <1>5. id \in Ids /\ part.name = Tools /\ args \in Fragments BY <1>2, <1>4 DEF LoopCalls
  <1>6. PICK name : name = part.name OBVIOUS
  <1>7. said \in Seq(Words) BY <1>2, <1>3, <1>5, CallIn
  <1>8. PICK d, f :
          /\ d = IF Compact THEN [type |-> "toolcall_end", content_index |-> index]
                 ELSE [type |-> "toolcall_end", content_index |-> index]
                        ++ [k \in {"id", "name", "arguments_json"} |-> part[k]]
          /\ f = Update(d)
    OBVIOUS
  <1>9. wire' = wire \o <<f>> BY <1>1, <1>2, <1>8, ToolClosesLoop
  <1>10. d.type = "toolcall_end"
    <2>1. PICK bare, whole : /\ bare = [type |-> "toolcall_end", content_index |-> index]
                             /\ whole = [k \in {"id", "name", "arguments_json"} |-> part[k]]
      OBVIOUS
    <2>2. bare.type = "toolcall_end" /\ "type" \in DOMAIN bare BY <2>1
    <2>3. (bare ++ whole).type = bare.type BY <2>2 DEF ++
    <2>4. d = IF Compact THEN bare ELSE bare ++ whole BY <1>8, <2>1
    <2> QED BY <2>2, <2>3, <2>4
  <1>11. Plain(f) BY <1>8, <1>10, UpdateIsPlain
  <1>12. PICK e : e = CallShown(id, name, args) OBVIOUS
  <1>13. /\ e.type = "tool_call" /\ e.tool_call_id = id /\ e.name = part.name
         /\ e.arguments_json = args
    BY <1>6, <1>12 DEF CallShown
  <1>14. EventOK(e) /\ e.type \notin Bounds \cup Executing /\ e.type \notin Terminal
    <2>1. e \in ReadCalls BY <1>5, <1>6, <1>12 DEF CallShown, ReadCalls
    <2>2. EventOK(e) BY <1>13, <2>1 DEF EventOK, EventTypes
    <2> QED BY <1>13, <2>2 DEF Bounds, Executing, Terminal
  <1>15. EventSays(e) = said
    <2>1. EventSays(e) = SaysCall(id, e) BY <1>13, <1>14, EventSaysIn
    <2> QED BY <1>2, <1>3, <1>13, <2>1 DEF SaysCall
  <1>16. PICK frames : frames = <<f>> OBVIOUS
  <1>17. Grown(said) /\ wire' = wire \o frames BY <1>4, <1>9, <1>16
  <1>18. Steps(frames, said) BY <1>4, <1>7, <1>17, GrownSteps
  <1>19. ASSUME NEW x, NEW y, Quiet(setup.op, x), Buffered(x.buffers), y = After(setup.op, f, x)
         PROVE  Further(x, y, said) /\ Buffered(y.buffers)'
    <2>1. PICK b, c : b = x.buffers /\ c = [j \in DOMAIN b \ {index} |-> b[j]] OBVIOUS
    <2>2. setup.op \in {"run", "stream"} BY <1>18, RunsOrStreams
    <2>3. Buffered(b) BY <1>19, <2>1
    <2>4. DOMAIN b = loop.open /\ b[index] = Tool(id, name, args)
      BY <1>2, <1>6, <2>3 DEF Buffered
    <2>5. AgentFrame(f, b) = Only(e, c)
      <3>1. part.id = id /\ part.name = name /\ part.arguments_json = args BY <1>2, <1>6
      <3>2. index \in DOMAIN b BY <2>4
      <3> QED BY <1>8, <1>12, <2>1, <2>4, <3>1, <3>2, ReadsToolEnd
    <2>6. AgentFrame(f, x.buffers) = Only(e, c) BY <2>1, <2>5
    <2>7. Told(setup.op, x, e, c, y) BY <1>11, <1>14, <1>19, <2>2, <2>6, OneEvent
    <2>8. Further(x, y, said) /\ y.buffers = c BY <1>14, <1>15, <1>19, <2>7, FurtherEvent
    <2>9. Buffered(c)'
      <3>1. DOMAIN c = loop'.open BY <1>4, <2>1, <2>4
      <3>2. \A j \in loop'.open : j \in loop.open /\ c[j] = b[j] BY <1>4, <2>1, <2>4
      <3>3. \A j \in loop.open : b[j] = Tool(loop.content[j].id, loop.content[j].name,
                                             loop.content[j].arguments_json)
        BY <2>3 DEF Buffered
      <3> QED BY <1>4, <3>1, <3>2, <3>3 DEF Buffered
    <2> QED BY <2>8, <2>9
  <1>20. Streaming BY DEF ToolCloses
  <1> QED BY <1>4, <1>16, <1>18, <1>19, <1>20, FurtherKept

\* The message of the model begins: a compact run reads its start.
LEMMA ProviderStartsKept ==
  ASSUME IInv, ProviderStarts PROVE Kept
  <1>1. LoopOK BY DEF IInv
  <1>2. PICK f : f = AgentEventFrame([type |-> "message_start"] ++ Metadata) OBVIOUS
  <1>3. PICK frames, said : frames = <<f>> /\ said = <<>> OBVIOUS
  <1>4. Stays(frames) /\ loop.pc = "message" /\ ~loop.started /\ loop.content = <<>>
        /\ loop'.pc = "message"
    BY <1>1, <1>2, <1>3, ProviderStartsLoop
  <1>5. Steps(frames, said) BY <1>3, <1>4 DEF Stays
  <1>6. IsSeq(frames) BY <1>3, SeqOne
  <1>7. setup.op \in {"run", "stream"} BY <1>5, RunsOrStreams
  <1>8. PICK e : e = StartShown("p", setup.api, "m") OBVIOUS
  <1>9. Plain(f) /\ \A b : AgentFrame(f, b) = Only(e, b)
    BY <1>2, <1>8, EventIsPlain, ReadsMessageStart
  <1>10. e.type = "message_start" BY <1>8 DEF StartShown
  <1>11. EventOK(e) /\ e.type \notin Terminal
    BY <1>10 DEF EventOK, EventTypes, Terminal
  <1>12. EventSays(e) = <<>> BY <1>10, <1>11, EventSaysIn
  <1>13. SaidIn(Closed) = <<>>
    <2>1. Closed = <<>>
      <3>1. PICK c \in 0..Len(loop.content) : loop.open = (c + 1)..Len(loop.content)
        BY <1>1 DEF LoopOK
      <3>2. PartsOK(loop.content) BY <1>1, LoopHas
      <3>3. IsSeq(Closed) /\ Len(Closed) = c /\ Closed = ClosedOf(loop.content, loop.open)
        BY <3>1, <3>2, ClosedIs, RunSays DEF PartsOK
      <3>4. Len(loop.content) = 0 BY <1>4
      <3>5. Len(Closed) = 0 BY <3>1, <3>3, <3>4
      <3> QED BY <3>3, <3>5, SeqEmpty, SeqSame
    <2> QED BY <2>1, SaidInNone
  <1>14. ASSUME NEW x, Quiet(setup.op, x), Good(x), CaughtUp(x) PROVE Goes(x, frames)
    <2>1. PICK y, b : y = After(setup.op, f, x) /\ b = x.buffers OBVIOUS
    <2>2. AgentFrame(f, x.buffers) = Only(e, b) BY <1>9, <2>1
    <2>3. Told(setup.op, x, e, b, y) BY <1>7, <1>9, <1>11, <1>14, <2>1, <2>2, OneEvent
    <2>4. SumWith(x, e) = x.sum BY <1>10 DEF SumWith
    <2>5. Quiet(setup.op, y) /\ y.buffers = x.buffers /\ y.sum = x.sum
      BY <2>1, <2>3, <2>4 DEF Told
    <2>6. y.executed => loop.calls > 0 BY <1>10, <1>14, <2>3 DEF Told, Good, Executing
    <2>7. SaidBy(x.events) = SaidByRun /\ EventsOK(x.events)
      BY <1>4, <1>14 DEF CaughtUp, Quiet
    <2>8. SaidBy(y.events) = SaidByRun \o said
      <3>1. SaidBy(y.events) = SaidBy(x.events) \o EventSays(e) BY <2>3 DEF Told
      <3> QED BY <1>3, <1>12, <2>7, <3>1
    <2>9. Buffered(y.buffers)'
      <3>1. Buffered(x.buffers) BY <1>4, <1>14 DEF CaughtUp
      <3> QED BY <1>4, <2>5, <3>1 DEF Buffered, Stays
    <2>10. setup.op = "stream" => Summing(y.sum)'
      <3>1. SUFFICES ASSUME setup.op = "stream" PROVE Summing(y.sum)' OBVIOUS
      <3>2. Summing(x.sum) BY <1>4, <1>14, <3>1 DEF CaughtUp
      <3> QED BY <1>4, <2>5, <3>2 DEF Summing, Stays
    <2>11. setup.op = "run" /\ Compact => Telling(y.events)'
      <3>1. SUFFICES ASSUME setup.op = "run", Compact PROVE Telling(y.events)' OBVIOUS
      <3>2. y.events = Append(x.events, e) BY <2>3, <3>1 DEF Told
      <3>3. UnderWay(y.events, setup.api, <<>>)
        <4>1. PICK s, api : s = x.events /\ api = setup.api OBVIOUS
        <4>2. UnderWay(Append(s, e), api, <<>>) BY <1>8, <1>11, <2>7, <4>1, UnderWayStarts
        <4> QED BY <3>2, <4>1, <4>2
      <3>4. SaidIn(Closed)' = <<>> /\ setup' = setup /\ loop'.started
        BY <1>1, <1>4, <1>13, ProviderStartsLoop DEF Stays, Steps
      <3> QED BY <1>4, <3>3, <3>4 DEF Telling
    <2>12. Good(y)' /\ CaughtUp(y)'
      BY <1>1, <1>5, <2>5, <2>6, <2>8, <2>9, <2>10, <2>11, Arrives
    <2>13. Goes(x, <<f>>) BY <2>1, <2>12, GoesOne
    <2> QED BY <1>3, <2>13
  <1> QED BY <1>4, <1>5, <1>6, <1>14, Sent DEF Kept

(***************************************************************************)
(* The steps in which the message ends.                                    *)
(***************************************************************************)

\* The messages of the run count tokens.
LEMMA FinalsCount ==
  ASSUME LoopOK PROVE UsagesOK(finals)
  BY DEF LoopOK, FinalOK, UsagesOK

\* A usage is not the absence of one.
LEMMA UsageIsSome == ASSUME NEW u, IsUsage(u) PROVE u # NoUsage
  <1>1. "input" \in DOMAIN u BY DEF IsUsage
  <1> QED BY <1>1 DEF NoUsage

\* The sum is of the turns so far, the one that ends included.
LEMMA SumEnds ==
  ASSUME LoopOK, NEW f, IsUsage(f.usage), finals' = Append(finals, f), NEW x, Summing(x.sum),
         loop.pc = "message", NEW e, e.type = "message_end", e.usage = f.usage, NEW sum,
         sum = SumWith(x, e)
  PROVE  Summing(sum)'
  <1>1. UsagesOK(finals) BY FinalsCount
  <1>2. PICK u : u = f.usage OBVIOUS
  <1>3. IsUsage(u) /\ u # NoUsage /\ e.usage # NoUsage BY <1>2, UsageIsSome
  <1>4. sum = IF x.sum = NoUsage THEN u ELSE AddUsage(x.sum, u) BY <1>2, <1>3 DEF SumWith
  <1>5. sum = TotalOf(finals')
    <2>1. CASE finals = <<>> /\ x.sum = NoUsage
      <3>1. PICK messages : messages = finals OBVIOUS
      <3>2. TotalOf(Append(messages, f)) = u BY <1>2, <1>3, <2>1, <3>1, TotalOfOne
      <3> QED BY <1>4, <2>1, <3>1, <3>2
    <2>2. CASE finals # <<>> /\ x.sum # NoUsage /\ x.sum = TotalOf(finals)
      <3>1. PICK messages, t : messages = finals /\ t = TotalOf(messages) OBVIOUS
      <3>2. TotalOf(Append(messages, f)) = AddUsage(t, u)
        BY <1>1, <1>2, <1>3, <3>1, TotalMore
      <3> QED BY <1>4, <2>2, <3>1, <3>2
    <2> QED BY <2>1, <2>2 DEF Summing
  <1>6. UsagesOK(finals') BY <1>1, <1>2, <1>3, TotalMore
  <1>7. PICK n : n = Len(finals) OBVIOUS
  <1>8. Len(finals') = n + 1 /\ n \in Nat
    BY <1>1, <1>7, SeqAppend, SeqHas DEF UsagesOK
  <1>9. n + 1 \in 1..Len(finals') BY <1>8
  <1>10. TotalOf(finals') # NoUsage BY <1>6, <1>9, TotalIsSome
  <1>11. finals' # <<>>
    <2>1. Len(finals') # 0 BY <1>8
    <2> QED BY <2>1
  <1> QED BY <1>5, <1>10, <1>11 DEF Summing

\* A message that the loop makes of a broken stream adds nothing.
LEMMA SumStays ==
  ASSUME LoopOK, ~Compact, ~Compact', NEW f, f.usage = Counted(ZeroUsage),
         finals' = Append(finals, f), Len(finals') = Len(finals) + 1,
         NEW sum, Summing(sum), loop.pc = "message", loop'.pc = "settle"
  PROVE  Summing(sum)'
  <1>1. UsagesOK(finals) BY FinalsCount
  <1>2. PICK u : u = f.usage OBVIOUS
  <1>3. /\ IsUsage(u) /\ DOMAIN u = {"input", "output", "cache_read"}
        /\ \A k \in DOMAIN u : u[k] = 0
    <2>1. PICK z, c : z = ZeroUsage /\ c = [cache_read |-> 0] OBVIOUS
    <2>2. DOMAIN z = {"input", "output"} /\ \A k \in DOMAIN z : z[k] = 0 BY <2>1 DEF ZeroUsage
    <2>3. DOMAIN c = {"cache_read"} /\ \A k \in DOMAIN c : c[k] = 0 BY <2>1
    <2>4. u = z ++ c BY <1>2, <2>1 DEF Counted
    <2>5. \A k \in DOMAIN u : u[k] = 0 BY <2>2, <2>3, <2>4 DEF ++
    <2>6. IsUsage(u) /\ DOMAIN u = {"input", "output", "cache_read"}
      BY <1>2, ZeroIsUsage, CountedHas
    <2> QED BY <2>5, <2>6
  <1>4. CASE finals = <<>> /\ sum = NoUsage
    <2>1. Len(finals') = 1 BY <1>4
    <2> QED BY <1>4, <2>1 DEF Summing
  <1>5. CASE finals # <<>> /\ sum # NoUsage /\ sum = TotalOf(finals)
    <2>1. PICK n : n = Len(finals) OBVIOUS
    <2>2. n \in Nat /\ n # 0
      <3>1. IsSeq(finals) BY <1>1 DEF UsagesOK
      <3> QED BY <1>5, <2>1, <3>1, SeqTail
    <2>3. 1 \in 1..Len(finals) BY <2>1, <2>2
    <2>4. PICK old : old = finals[1].usage OBVIOUS
    <2>5. IsUsage(old) /\ "cache_read" \in DOMAIN old BY <2>3, <2>4 DEF LoopOK, FinalOK
    <2>6. DOMAIN u \subseteq DOMAIN finals[1].usage
      <3>1. DOMAIN old = {"input", "output", "cache_read"} BY <2>5 DEF IsUsage
      <3> QED BY <1>3, <2>4, <3>1
    <2>7. TotalOf(Append(finals, f)) = TotalOf(finals) BY <1>1, <1>2, <1>3, <2>3, <2>6, TotalSame
    <2>8. Len(finals') # 0 BY <2>1, <2>2
    <2>9. finals' # <<>> BY <2>8
    <2> QED BY <1>5, <2>7, <2>9 DEF Summing
  <1> QED BY <1>4, <1>5 DEF Summing

\* What makes y a client that is as it should be when the message has ended.
Settled(y) ==
  /\ Quiet(setup.op, y) /\ (y.executed => loop.calls > 0)
  /\ SaidBy(y.events) = SaidByRun
  /\ loop'.pc # "settle" => Buffered(y.buffers)'
  /\ setup.op = "stream" => Summing(y.sum)'
  /\ setup.op = "run" /\ Compact =>
       Ended(y.events, setup.api, Last(finals').usage, SaidIn(Last(finals').content))

\* Such a client has caught up after the step.
LEMMA SettledArrives ==
  ASSUME LoopOK, NEW frames, Steps(frames, <<>>), NEW y, Settled(y), loop'.pc # "message"
  PROVE  Good(y)' /\ CaughtUp(y)'
  <1>1. PICK said : said = <<>> OBVIOUS
  <1>2. Steps(frames, said) BY <1>1
  <1>3. SaidByRun = SaidByRun \o said BY <1>1, LoopHas, SeqIn, SeqNone
  <1>4. SaidBy(y.events) = SaidByRun \o said BY <1>3 DEF Settled
  <1>5. setup.op = "run" /\ Compact => Telling(y.events)'
    <2>1. setup' = setup BY DEF Steps
    <2> QED BY <2>1 DEF Settled, Telling
  <1>6. Quiet(setup.op, y) /\ (y.executed => loop.calls > 0) BY DEF Settled
  <1>7. loop'.pc # "settle" => Buffered(y.buffers)' BY DEF Settled
  <1>8. setup.op = "stream" => Summing(y.sum)' BY DEF Settled
  <1> QED BY <1>2, <1>4, <1>5, <1>6, <1>7, <1>8, Arrives

\* So has one that read silent frames after that.
LEMMA SettledQuietly ==
  ASSUME NEW y, NEW z, Settled(y), Quietly(y, z)
  PROVE  Settled(z)
  <1>1. Quiet(setup.op, z) /\ z.buffers = y.buffers /\ z.sum = y.sum
        /\ SaidBy(z.events) = SaidBy(y.events) /\ (z.executed => loop.calls > 0)
    BY DEF Settled, Quietly
  <1>2. loop'.pc # "settle" => Buffered(z.buffers)' BY <1>1 DEF Settled
  <1>3. setup.op = "stream" => Summing(z.sum)' BY <1>1 DEF Settled
  <1>4. setup.op = "run" /\ Compact =>
          Ended(z.events, setup.api, Last(finals').usage, SaidIn(Last(finals').content))
    BY DEF Settled, Quietly, Keeps
  <1> QED BY <1>1, <1>2, <1>3, <1>4 DEF Settled

\* The message_end that the loop sends makes a client such a one.
LEMMA EndSettles ==
  ASSUME LoopOK, loop.pc = "message", Compact => loop.started, setup.op \in {"run", "stream"},
         NEW u, IsUsage(u), NEW f, NEW pc, Completed(f, pc), pc \in {"tools", "settle"},
         f.usage = Counted(u), Compact => f.content = Closed, pc = "tools" => loop.open = {},
         NEW sr, NEW em, NEW x, Quiet(setup.op, x), Good(x), CaughtUp(x),
         NEW y, y = After(setup.op, MessageEndFrame(u, sr, em), x)
  PROVE  Settled(y)
  <1>1. PICK g, e, b : /\ g = MessageEndFrame(u, sr, em) /\ e = EndShown(Counted(u), sr, em)
                       /\ b = x.buffers
    OBVIOUS
  <1>2. Plain(g) BY <1>1, MessageEndIsPlain
  <1>3. AgentFrame(g, x.buffers) = Only(e, b) BY <1>1, ReadsMessageEnd
  <1>4. e.type = "message_end" /\ e.usage = f.usage BY <1>1 DEF EndShown
  <1>5. EventOK(e) /\ e.type \notin Terminal BY <1>4 DEF EventOK, EventTypes, Terminal
  <1>6. Told(setup.op, x, e, b, y) BY <1>1, <1>2, <1>3, <1>5, OneEvent
  <1>7. loop.pc = "message" /\ (Compact => loop.started) OBVIOUS
  <1>8. IsUsage(f.usage) BY CountedHas
  <1>9. finals' = Append(finals, f) /\ Last(finals') = f /\ loop'.pc = pc /\ loop'.open = {}
    BY DEF Completed
  <1>10. Quiet(setup.op, y) /\ y.buffers = b BY <1>6 DEF Told
  <1>11. y.executed => loop.calls > 0 BY <1>4, <1>6 DEF Told, Good, Executing
  <1>12. SaidBy(y.events) = SaidByRun
    <2>1. SaidBy(y.events) = SaidBy(x.events) \o EventSays(e) BY <1>6 DEF Told
    <2>2. EventSays(e) = <<>> BY <1>4, <1>5, EventSaysIn
    <2>3. SaidBy(x.events) = SaidByRun BY <1>7 DEF CaughtUp
    <2>4. SaidByRun \o <<>> = SaidByRun BY LoopHas, SeqIn, SeqNone
    <2> QED BY <2>1, <2>2, <2>3, <2>4
  <1>13. loop'.pc # "settle" => Buffered(y.buffers)'
    <2>1. SUFFICES ASSUME loop'.pc # "settle" PROVE Buffered(y.buffers)' OBVIOUS
    <2>2. loop.open = {} BY <1>9, <2>1
    <2>3. Buffered(x.buffers) BY <1>7 DEF CaughtUp
    <2>4. DOMAIN y.buffers = {} BY <1>1, <1>10, <2>2, <2>3 DEF Buffered
    <2> QED BY <1>9, <2>4 DEF Buffered
  <1>14. setup.op = "stream" => Summing(y.sum)'
    <2>1. SUFFICES ASSUME setup.op = "stream" PROVE Summing(y.sum)' OBVIOUS
    <2>2. y.sum = SumWith(x, e) BY <1>6, <2>1 DEF Told
    <2>3. Summing(x.sum) BY <1>7, <2>1 DEF CaughtUp
    <2>4. PICK sum : sum = y.sum OBVIOUS
    <2>5. Summing(sum)' BY <1>4, <1>7, <1>8, <1>9, <2>2, <2>3, <2>4, SumEnds
    <2> QED BY <2>4, <2>5
  <1>15. setup.op = "run" /\ Compact =>
           Ended(y.events, setup.api, Last(finals').usage, SaidIn(Last(finals').content))
    <2>1. SUFFICES ASSUME setup.op = "run", Compact
                   PROVE  Ended(y.events, setup.api, Last(finals').usage,
                                SaidIn(Last(finals').content))
      OBVIOUS
    <2>2. PICK said, api, s : said = SaidIn(Closed) /\ api = setup.api /\ s = x.events OBVIOUS
    <2>3. UnderWay(s, api, said) BY <1>7, <2>1, <2>2 DEF CaughtUp, Telling
    <2>4. EventsOK(s) BY <2>2 DEF Quiet
    <2>5. Ended(Append(s, e), api, e.usage, said) BY <1>4, <1>5, <2>3, <2>4, EndsNow
    <2>6. y.events = Append(s, e) BY <1>6, <2>1, <2>2 DEF Told
    <2>7. Last(finals').usage = e.usage /\ SaidIn(Last(finals').content) = said
      BY <1>4, <1>9, <2>1, <2>2
    <2> QED BY <2>2, <2>5, <2>6, <2>7
  <1> QED BY <1>10, <1>11, <1>12, <1>13, <1>14, <1>15 DEF Settled

\* A step that ends the message and makes its reader such a client keeps the invariant.
LEMMA SettledKept ==
  ASSUME IInv, NEW frames, IsSeq(frames), Steps(frames, <<>>), loop.pc = "message",
         loop'.pc # "message",
         \A x : Quiet(setup.op, x) /\ Good(x) /\ CaughtUp(x) =>
           \/ \E f, y : frames = <<f>> /\ y = After(setup.op, f, x) /\ Settled(y)
           \/ \E f, g, y, z : /\ frames = <<f, g>> /\ y = After(setup.op, f, x) /\ Settled(y)
                              /\ z = After(setup.op, g, y) /\ Settled(z)
  PROVE  Kept
  <1>1. LoopOK BY DEF IInv
  <1>2. ASSUME NEW y, Settled(y) PROVE Good(y)' /\ CaughtUp(y)' BY <1>1, <1>2, SettledArrives
  <1>3. ASSUME NEW x, Quiet(setup.op, x), Good(x), CaughtUp(x) PROVE Goes(x, frames)
    <2>1. CASE \E f, y : frames = <<f>> /\ y = After(setup.op, f, x) /\ Settled(y)
      <3>1. PICK f, y : frames = <<f>> /\ y = After(setup.op, f, x) /\ Settled(y) BY <2>1
      <3>2. Good(y)' /\ CaughtUp(y)' BY <1>2, <3>1
      <3>3. Goes(x, <<f>>) BY <3>1, <3>2, GoesOne
      <3> QED BY <3>1, <3>3
    <2>2. CASE \E f, g, y, z : /\ frames = <<f, g>> /\ y = After(setup.op, f, x) /\ Settled(y)
                               /\ z = After(setup.op, g, y) /\ Settled(z)
      <3>1. PICK f, g, y, z : /\ frames = <<f, g>> /\ y = After(setup.op, f, x) /\ Settled(y)
                              /\ z = After(setup.op, g, y) /\ Settled(z)
        BY <2>2
      <3>2. Good(y)' /\ Good(z)' /\ CaughtUp(z)' BY <1>2, <3>1
      <3>3. Goes(x, <<f, g>>) BY <3>1, <3>2, GoesTwo
      <3> QED BY <3>1, <3>3
    <2> QED BY <1>3, <2>1, <2>2
  <1>4. PICK said : said = <<>> OBVIOUS
  <1>5. Steps(frames, said) BY <1>4
  <1> QED BY <1>3, <1>5, Sent DEF Kept

\* The turn_end after it changes nothing of that.
LEMMA TurnEndSettles ==
  ASSUME setup.op \in {"run", "stream"}, NEW y, Settled(y), NEW sr, NEW em, NEW z,
         z = After(setup.op, TurnEndFrame(sr, em), y)
  PROVE  Settled(z)
  <1>1. PICK g : g = TurnEndFrame(sr, em) OBVIOUS
  <1>2. Silent(g) BY <1>1, SilentTurnEnd
  <1>3. Quiet(setup.op, y) BY DEF Settled
  <1>4. Quietly(y, After(setup.op, g, y)) BY <1>2, <1>3 DEF Silent
  <1>5. Quietly(y, z) BY <1>1, <1>4
  <1> QED BY <1>5, SettledQuietly

\* The provider is done.
LEMMA ProviderDoneKept ==
  ASSUME IInv, ProviderDone PROVE Kept
  <1>1. LoopOK BY DEF IInv
  <1>2. PICK u, sr, f, frames, pc :
          /\ u = Spent(Turn) /\ Completed(f, pc) /\ Steps(frames, <<>>) /\ FinalOK(f)
          /\ pc \in {"tools", "settle"}
          /\ f.usage = Counted(u) /\ f.content = Closed
          /\ \/ frames = <<MessageEndFrame(u, sr, "")>>
             \/ frames = <<MessageEndFrame(u, sr, ""), TurnEndFrame(sr, "")>>
    BY <1>1, ProviderDoneLoop
  <1>3. loop.pc = "message" /\ loop.started /\ loop.open = {} BY <1>1, ProviderDoneLoop
  <1>4. PICK em, said, g, h : /\ em = Absent /\ said = <<>> /\ g = MessageEndFrame(u, sr, em)
                              /\ h = TurnEndFrame(sr, em)
    OBVIOUS
  <1>5. frames = <<g>> \/ frames = <<g, h>> BY <1>2, <1>4 DEF Absent
  <1>6. setup.op \in {"run", "stream"}
    <2>1. Steps(frames, said) BY <1>2, <1>4
    <2> QED BY <2>1, RunsOrStreams
  <1>7. IsUsage(u) BY <1>2, SpentIsUsage
  <1>8. Streaming BY <1>3 DEF Streaming
  <1>9. IsSeq(frames) BY <1>5, SeqOne, SeqTwo
  <1>10. ASSUME NEW x, Quiet(setup.op, x), Good(x), CaughtUp(x)
         PROVE  \/ \E a, y : frames = <<a>> /\ y = After(setup.op, a, x) /\ Settled(y)
                \/ \E a, b, y, z : /\ frames = <<a, b>> /\ y = After(setup.op, a, x) /\ Settled(y)
                                   /\ z = After(setup.op, b, y) /\ Settled(z)
    <2>1. PICK y, z : y = After(setup.op, g, x) /\ z = After(setup.op, h, y) OBVIOUS
    <2>2. y = After(setup.op, MessageEndFrame(u, sr, em), x) BY <1>4, <2>1
    <2>3. Completed(f, pc) /\ pc \in {"tools", "settle"} /\ f.usage = Counted(u)
          /\ f.content = Closed
      BY <1>2
    <2>4. Settled(y)
      BY <1>1, <1>3, <1>6, <1>7, <1>8, <1>10, <2>2, <2>3, EndSettles
    <2>5. Settled(z) BY <1>4, <1>6, <2>1, <2>4, TurnEndSettles
    <2> QED BY <1>5, <2>1, <2>4, <2>5
  <1>11. loop'.pc # "message" BY <1>2 DEF Completed
  <1>12. Steps(frames, <<>>) BY <1>2
  <1> QED BY <1>3, <1>9, <1>10, <1>11, <1>12, SettledKept

\* A message that concludes the run.
LEMMA ConcludesKept ==
  ASSUME IInv, loop.pc = "message", Compact => loop.started, NEW u, NEW sr, NEW em, NEW f,
         Concludes(u, sr, em, f)
  PROVE  Kept
  <1>1. LoopOK BY DEF IInv
  <1>2. PICK said, pc, g, h, frames :
          /\ said = <<>> /\ pc = "settle" /\ g = MessageEndFrame(u, sr, em)
          /\ h = TurnEndFrame(sr, em) /\ frames = <<g, h>>
    OBVIOUS
  <1>3. Steps(frames, said) BY <1>2 DEF Concludes
  <1>4. setup.op \in {"run", "stream"} BY <1>3, RunsOrStreams
  <1>5. /\ IsUsage(u) /\ Completed(f, pc) /\ pc \in {"tools", "settle"} /\ pc # "tools"
        /\ f.usage = Counted(u) /\ (Compact => f.content = Closed)
    BY <1>2 DEF Concludes
  <1>6. IsSeq(frames) BY <1>2, SeqTwo
  <1>7. ASSUME NEW x, Quiet(setup.op, x), Good(x), CaughtUp(x)
        PROVE  \/ \E a, y : frames = <<a>> /\ y = After(setup.op, a, x) /\ Settled(y)
               \/ \E a, b, y, z : /\ frames = <<a, b>> /\ y = After(setup.op, a, x) /\ Settled(y)
                                  /\ z = After(setup.op, b, y) /\ Settled(z)
    <2>1. PICK y, z : y = After(setup.op, g, x) /\ z = After(setup.op, h, y) OBVIOUS
    <2>2. y = After(setup.op, MessageEndFrame(u, sr, em), x) BY <1>2, <2>1
    <2>3. Settled(y) BY <1>1, <1>4, <1>5, <1>7, <2>2, EndSettles
    <2>4. z = After(setup.op, TurnEndFrame(sr, em), y) BY <1>2, <2>1
    <2>5. Settled(z) BY <1>4, <2>3, <2>4, TurnEndSettles
    <2> QED BY <1>2, <2>1, <2>3, <2>5
  <1>8. loop'.pc # "message" BY <1>2, <1>5 DEF Completed
  <1>9. Steps(frames, <<>>) BY <1>2, <1>3
  <1> QED BY <1>6, <1>7, <1>8, <1>9, SettledKept

\* The provider sends an error.
LEMMA ProviderFailsKept ==
  ASSUME IInv, NEW message, ProviderFails(message) PROVE Kept
  <1>1. LoopOK BY DEF IInv
  <1>2. loop.pc = "message" /\ (Compact => loop.started) BY <1>1, ProviderFailsLoop
  <1>3. PICK u, sr, em, f : Concludes(u, sr, em, f) BY <1>1, ProviderFailsLoop
  <1> QED BY <1>2, <1>3, ConcludesKept

\* Its body ends early.
LEMMA ProviderCutOffKept ==
  ASSUME IInv, NEW kept \in {Closed, Front(Closed)}, ProviderCutOff(kept) PROVE Kept
  <1>1. LoopOK BY DEF IInv
  <1>2. loop.pc = "message" /\ loop.started BY <1>1, ProviderCutOffLoop
  <1>3. PICK u, sr, em, f : Concludes(u, sr, em, f) BY <1>1, ProviderCutOffLoop
  <1> QED BY <1>2, <1>3, ConcludesKept

\* The stream breaks: what was shown was said, and the sum is of the messages that ended.
LEMMA ProviderBreaksKept ==
  ASSUME IInv, NEW message, ProviderBreaks(message) PROVE Kept
  <1>1. LoopOK BY DEF IInv
  <1>2. loop.pc = "message" /\ ~Compact BY <1>1, ProviderBreaksLoop
  <1>3. PICK sr, f : /\ Completed(f, "settle") /\ FinalOK(f) /\ f.usage = Counted(ZeroUsage)
                     /\ Steps(<<TurnEndFrame(sr, message)>>, <<>>)
    BY <1>1, ProviderBreaksLoop
  <1>4. PICK said, h, frames : said = <<>> /\ h = TurnEndFrame(sr, message) /\ frames = <<h>>
    OBVIOUS
  <1>5. Steps(frames, said) BY <1>3, <1>4
  <1>6. setup.op \in {"run", "stream"} BY <1>5, RunsOrStreams
  <1>7. IsSeq(frames) BY <1>4, SeqOne
  <1>8. loop'.pc = "settle" /\ finals' = Append(finals, f) /\ Len(finals') = Len(finals) + 1
    BY <1>3 DEF Completed
  <1>9. ~Compact' BY <1>2, <1>5 DEF Compact, Steps
  <1>10. ASSUME NEW x, Quiet(setup.op, x), Good(x), CaughtUp(x)
         PROVE  \E a, y : frames = <<a>> /\ y = After(setup.op, a, x) /\ Settled(y)
    <2>1. PICK y : y = After(setup.op, h, x) OBVIOUS
    <2>2. Silent(h) BY <1>4, <1>6, SilentTurnEnd
    <2>3. Quietly(x, y) BY <1>10, <2>1, <2>2 DEF Silent
    <2>4. Quiet(setup.op, y) /\ y.sum = x.sum /\ SaidBy(y.events) = SaidBy(x.events)
          /\ (y.executed => x.executed \/ loop.calls > 0)
      BY <2>3 DEF Quietly
    <2>5. SaidBy(x.events) = SaidByRun BY <1>2, <1>10 DEF CaughtUp
    <2>6. y.executed => loop.calls > 0 BY <1>10, <2>4 DEF Good
    <2>7. setup.op = "stream" => Summing(y.sum)'
      <3>1. SUFFICES ASSUME setup.op = "stream" PROVE Summing(y.sum)' OBVIOUS
      <3>2. PICK sum : sum = x.sum OBVIOUS
      <3>3. Summing(sum) BY <1>2, <1>10, <3>1, <3>2 DEF CaughtUp
      <3>4. Summing(sum)' BY <1>1, <1>2, <1>3, <1>8, <1>9, <3>3, SumStays
      <3> QED BY <2>4, <3>2, <3>4
    <2>8. Settled(y) BY <1>2, <1>8, <2>4, <2>5, <2>6, <2>7 DEF Settled
    <2> QED BY <1>4, <2>1, <2>8
  <1>11. loop'.pc # "message" BY <1>8
  <1>12. Steps(frames, <<>>) BY <1>4, <1>5
  <1> QED BY <1>2, <1>7, <1>10, <1>11, <1>12, SettledKept

(***************************************************************************)
(* The response that is made of a run's events.                            *)
(***************************************************************************)

\* The largest of some naturals.
LEMMA MaxIs ==
  ASSUME NEW S, S \subseteq Nat, NEW m \in S, \A i \in S : i <= m
  PROVE  Max(S) = m
  <1>1. \A i \in S : m >= i OBVIOUS
  <1>2. \A k \in S : (\A i \in S : k >= i) => k = m OBVIOUS
  <1> QED BY <1>1, <1>2 DEF Max

\* The smallest of some naturals.
LEMMA MinIs ==
  ASSUME NEW S, S \subseteq Nat, NEW m \in S, \A i \in S : m <= i
  PROVE  Min(S) = m
  <1>1. \A k \in S : (\A i \in S : k <= i) => k = m OBVIOUS
  <1> QED BY <1>1 DEF Min

\* The last message of the events goes from m to e.
Spans(h, m, e) ==
  /\ m \in 1..Len(h) /\ e \in 1..Len(h) /\ m < e
  /\ h[m].type = "message_start" /\ \A i \in (m + 1)..Len(h) : h[i].type # "message_start"
  /\ \A i \in (m + 1)..Len(h) : h[i].type = "message_end" <=> i = e

\* FinalMessageEvents takes just these, and BuildResponse finds their bounds.
LEMMA FinalIs ==
  ASSUME NEW h, IsSeq(h), NEW m, NEW e, Spans(h, m, e)
  PROVE  /\ FinalMessageEvents(h) = SubSeq(h, m, e)
         /\ Ends(h) # {} /\ Max(Ends(h)) = e
         /\ Starts(SubSeq(h, m, e)) # {} /\ Min(Starts(SubSeq(h, m, e))) = 1
         /\ SubSeq(h, m, e)[1] = h[m]
  <1>1. PICK n : n = Len(h) OBVIOUS
  <1>2. n \in Nat /\ DOMAIN h = 1..n BY <1>1, SeqHas
  <1>3. m \in 1..n /\ e \in 1..n /\ m < e BY <1>1 DEF Spans
  <1>4. /\ h[m].type = "message_start" /\ \A i \in (m + 1)..n : h[i].type # "message_start"
        /\ \A i \in (m + 1)..n : h[i].type = "message_end" <=> i = e
    BY <1>1 DEF Spans
  <1>5. PICK S, E : S = Starts(h) /\ E = Ends(h) OBVIOUS
  <1>6. /\ \A i : i \in S <=> i \in 1..n /\ h[i].type = "message_start"
        /\ \A i : i \in E <=> i \in 1..n /\ h[i].type = "message_end"
    BY <1>2, <1>5 DEF Starts, Ends
  <1>7. S \subseteq Nat /\ E \subseteq Nat BY <1>2, <1>6
  <1>8. \A i \in 1..n : i <= m \/ i \in (m + 1)..n BY <1>2, <1>3
  <1>9. e \in (m + 1)..n BY <1>2, <1>3
  <1>10. m \in S /\ Max(S) = m
    <2>1. m \in S BY <1>3, <1>4, <1>6
    <2>2. \A i \in S : i <= m BY <1>4, <1>6, <1>8
    <2> QED BY <1>7, <2>1, <2>2, MaxIs
  <1>11. e \in E BY <1>3, <1>4, <1>6, <1>9
  <1>12. Max(E) = e
    <2>1. \A i \in E : i <= m \/ i = e BY <1>4, <1>6, <1>8
    <2>2. \A i \in E : i <= e BY <1>2, <1>3, <1>7, <2>1
    <2> QED BY <1>7, <1>11, <2>2, MaxIs
  <1>13. FinalMessageEvents(h) = SubSeq(h, m, e)
    <2>1. PICK ends : ends = {i \in E : i > m} OBVIOUS
    <2>2. \A i : i \in ends <=> i = e
      <3>1. \A i \in E : i > m => i \in (m + 1)..n BY <1>2, <1>3, <1>6
      <3>2. \A i \in E : i > m => i = e BY <1>4, <1>6, <3>1
      <3>3. e \in E /\ e > m BY <1>2, <1>3, <1>11
      <3> QED BY <2>1, <3>2, <3>3
    <2>3. Min(ends) = e
      <3>1. e \in ends /\ ends \subseteq Nat /\ \A i \in ends : e <= i BY <1>3, <2>2
      <3> QED BY <3>1, MinIs
    <2>4. S # {} /\ ends # {} BY <1>10, <2>2
    <2>5. FinalMessageEvents(h) =
            LET start == Max(S)
                then == {i \in E : i > start}
            IN  SubSeq(h, start, IF then = {} THEN Len(h) ELSE Min(then))
      BY <1>5, <2>4 DEF FinalMessageEvents
    <2> QED BY <1>10, <2>1, <2>3, <2>4, <2>5
  <1>14. PICK a, l : a = SubSeq(h, m, e) /\ l = e - m + 1 OBVIOUS
  <1>15. l \in Nat /\ 1 \in 1..l BY <1>2, <1>3, <1>14
  <1>16. IsSeq(a) /\ Len(a) = l /\ \A i \in 1..l : a[i] = h[(m - 1) + i]
    <2>1. m \in Nat \ {0} /\ e \in Nat /\ m <= e + 1 /\ e <= Len(h) BY <1>1, <1>2, <1>3
    <2> QED BY <1>14, <2>1, SeqSub
  <1>17. a[1] = h[m]
    <2>1. (m - 1) + 1 = m BY <1>3
    <2> QED BY <1>15, <1>16, <2>1
  <1>18. \A i : i \in Starts(a) <=> i = 1
    <2>1. DOMAIN a = 1..l BY <1>16, SeqHas
    <2>2. 1 \in Starts(a) BY <1>4, <1>15, <1>17, <2>1 DEF Starts
    <2>3. ASSUME NEW i \in Starts(a) PROVE i = 1
      <3>1. i \in 1..l /\ a[i].type = "message_start" BY <2>1 DEF Starts
      <3>2. i # 1 => (m - 1) + i \in (m + 1)..n
        BY <1>2, <1>3, <1>14, <3>1
      <3> QED BY <1>4, <1>16, <3>1, <3>2
    <2> QED BY <2>2, <2>3
  <1>19. Min(Starts(a)) = 1 /\ Starts(a) # {}
    <2>1. PICK A : A = Starts(a) OBVIOUS
    <2>2. 1 \in A /\ A \subseteq Nat /\ \A i \in A : 1 <= i BY <1>18, <2>1
    <2> QED BY <2>1, <2>2, MinIs
  <1> QED BY <1>5, <1>11, <1>12, <1>13, <1>14, <1>17, <1>19

\* The response BuildResponse makes.
Built(r, end, api, usage, said) ==
  /\ SaidIn(r.content) = said /\ r.usage = usage
  /\ r.provider_id = "p" /\ r.api = api
  /\ r.stop_reason = end.stop_reason /\ r.error_message = end.error_message

\* The response holds the last message, whatever was said before it.
LEMMA BuiltIs ==
  ASSUME NEW h, EventsOK(h), NEW api, NEW usage, NEW said, Ended(h, api, usage, said),
         NEW end, end = Last(h), end.usage = NoUsage, end.provider_id = "p", end.api = api,
         NEW r, r = BuildResponse(h)
  PROVE  Built(r, end, api, usage, said)
  <1>1. PICK m, e \in 1..Len(h) :
          /\ Starting(h, api, m) /\ m < e
          /\ \A i \in (m + 1)..Len(h) : h[i].type = "message_end" <=> i = e
          /\ h[e].usage = usage
          /\ SaidBy(SubSeq(h, m, e)) = said
    BY DEF Ended
  <1>2. PICK start : start = StartShown("p", api, "m") OBVIOUS
  <1>3. h[m] = start BY <1>1, <1>2 DEF Starting
  <1>4. start.type = "message_start" /\ start.provider_id = "p" /\ start.api = api
    BY <1>2 DEF StartShown
  <1>5. Spans(h, m, e) BY <1>1, <1>3, <1>4 DEF Spans, Starting
  <1>6. IsSeq(h) BY DEF EventsOK
  <1>7. PICK final : final = SubSeq(h, m, e) OBVIOUS
  <1>8. /\ FinalMessageEvents(h) = final /\ Ends(h) # {} /\ Max(Ends(h)) = e
        /\ Starts(final) # {} /\ final[Min(Starts(final))] = start
    <2>1. Min(Starts(final)) = 1 /\ final[1] = h[m] BY <1>5, <1>6, <1>7, FinalIs
    <2> QED BY <1>3, <1>5, <1>6, <1>7, <2>1, FinalIs
  <1>9. EventsOK(final)
    <2>1. Len(h) \in Nat BY <1>6, SeqHas
    <2>2. m \in Nat \ {0} /\ e \in Nat /\ m <= e + 1 /\ e <= Len(h) BY <1>1, <2>1
    <2> QED BY <1>7, <2>2, SubOK
  <1>10. r = [content |-> ContentFromEvents(final),
              usage |-> IF NoUsage # NoUsage \/ Ends(h) = {} THEN NoUsage
                        ELSE h[Max(Ends(h))].usage,
              provider_id |-> Either(start.provider_id, end.provider_id),
              api |-> Either(start.api, end.api), model_id |-> start.model_id,
              stop_reason |-> end.stop_reason, error_message |-> end.error_message]
    BY <1>8 DEF BuildResponse
  <1>11. /\ r.content = ContentFromEvents(final) /\ r.usage = h[e].usage
         /\ r.provider_id = Either(start.provider_id, end.provider_id)
         /\ r.api = Either(start.api, end.api)
         /\ r.stop_reason = end.stop_reason /\ r.error_message = end.error_message
    BY <1>8, <1>10
  <1>12. SaidIn(r.content) = said BY <1>1, <1>7, <1>9, <1>11, EventsContentSays
  <1>13. r.provider_id = "p" BY <1>4, <1>11 DEF Either
  <1>14. r.api = api BY <1>4, <1>11 DEF Either
  <1> QED BY <1>1, <1>11, <1>12, <1>13, <1>14 DEF Built

(***************************************************************************)
(* The steps that end the run.                                             *)
(***************************************************************************)

\* What a client is that has its result.
Done(y) ==
  /\ Outcome(y) /\ IsPrefix(SaidBy(y.events), SaidByRun) /\ (y.executed => loop.calls > 0)

\* A step that ends the run.
Halts(frames) ==
  Stays(frames) /\ loop'.pc = "ended" /\ loop'.termination = loop.termination

\* After it, a client with its result is as it should be.
LEMMA DoneArrives ==
  ASSUME NEW frames, Halts(frames), NEW y, Done(y)
  PROVE  Good(y)' /\ CaughtUp(y)'
  <1>1. PICK said : said = <<>> OBVIOUS
  <1>2. Steps(frames, said) /\ finals' = finals /\ Closed' = Closed /\ loop'.calls = loop.calls
    BY <1>1 DEF Halts, Stays
  <1>3. setup' = setup BY <1>2 DEF Steps
  <1>4. loop'.pc = "ended" /\ loop'.termination = loop.termination BY DEF Halts
  <1>5. SaidByRun' = SaidByRun BY <1>2 DEF SaidByRun
  <1>6. StopReason' = StopReason BY <1>2, <1>4 DEF StopReason
  <1>7. ASSUME NEW e, EndFacts(e) PROVE EndFacts(e)' BY <1>2, <1>6, <1>7 DEF EndFacts
  <1>8. ASSUME NEW r, ResponseFacts(r) PROVE ResponseFacts(r)'
    BY <1>2, <1>3, <1>6, <1>8 DEF ResponseFacts
  <1>9. Outcome(y)'
    <2>1. Outcome(y) BY DEF Done
    <2>2. /\ y.out.kind = "ended" /\ Last(y.events).type = "agent_end" =>
               SaidBy(y.events) = SaidByRun' /\ EndFacts(Last(y.events))'
      BY <1>5, <1>7, <2>1 DEF Outcome
    <2>3. y.out.kind = "response" => ResponseFacts(y.out.response)' BY <1>8, <2>1 DEF Outcome
    <2> QED BY <1>2, <1>3, <2>1, <2>2, <2>3 DEF Outcome
  <1>10. Over(y)' BY <1>4, <1>9 DEF Over
  <1>11. IsPrefix(SaidBy(y.events), SaidByRun)' BY <1>5 DEF Done
  <1>12. y.executed => loop'.calls > 0 BY <1>2 DEF Done
  <1>13. CaughtUp(y)' BY <1>4 DEF CaughtUp
  <1> QED BY <1>10, <1>11, <1>12, <1>13 DEF Good

\* A client that has its result reads nothing more.
LEMMA DoneStays ==
  ASSUME NEW op, NEW f, NEW y, Done(y) PROVE After(op, f, y) = y
  <1>1. y.out.kind # "none" BY DEF Done, Outcome
  <1> QED BY <1>1 DEF After

\* A step whose first frame gives every reader its result keeps the invariant.
LEMMA HaltsKept ==
  ASSUME IInv, NEW f, NEW g, NEW frames, frames = <<f>> \/ frames = <<f, g>>, Halts(frames),
         loop.pc # "ended",
         \A x : Quiet(setup.op, x) /\ Good(x) /\ CaughtUp(x) => Done(After(setup.op, f, x))
  PROVE  Kept
  <1>1. PICK said : said = <<>> OBVIOUS
  <1>2. Steps(frames, said) BY <1>1 DEF Halts, Stays
  <1>3. IsSeq(frames) BY SeqOne, SeqTwo
  <1>4. ASSUME NEW x, Quiet(setup.op, x), Good(x), CaughtUp(x) PROVE Goes(x, frames)
    <2>1. PICK y : y = After(setup.op, f, x) OBVIOUS
    <2>2. Done(y) BY <1>4, <2>1
    <2>3. Good(y)' /\ CaughtUp(y)' BY <2>2, DoneArrives
    <2>4. CASE frames = <<f>>
      <3>1. Goes(x, <<f>>) BY <2>1, <2>3, GoesOne
      <3> QED BY <2>4, <3>1
    <2>5. CASE frames = <<f, g>>
      <3>1. y = After(setup.op, g, y) BY <2>2, DoneStays
      <3>2. Goes(x, <<f, g>>) BY <2>1, <2>3, <3>1, GoesTwo
      <3> QED BY <2>5, <3>2
    <2> QED BY <2>4, <2>5
  <1> QED BY <1>2, <1>3, <1>4, Sent DEF Kept

\* The events of a client that may stop.
Shown(events) ==
  /\ EventsOK(events)
  /\ \A i \in 1..Len(events) : events[i].type \in Terminal => i = Len(events)
  /\ setup.op = "stream" /\ events # <<>> => events[1].type = "agent_start"

\* A client without its result has such events.
LEMMA ShownQuiet ==
  ASSUME NEW x, Quiet(setup.op, x)
  PROVE  Shown(x.events)
  <1>1. setup.op = "stream" /\ x.events # <<>> => x.events[1].type = "agent_start"
    BY DEF Quiet, Leads
  <1> QED BY <1>1 DEF Shown, Quiet

\* So does one whose last event is the end.
LEMMA ShownLast ==
  ASSUME NEW events, Unended(events), NEW e, EventOK(e), e.type \in Terminal,
         setup.op = "stream" => Opening(events, e.type), NEW t, t = Append(events, e)
  PROVE  /\ Shown(t) /\ SaidBy(t) = SaidBy(events) /\ Last(t) = e
  <1>1. IsSeq(events) /\ EventsOK(events) BY DEF Unended, EventsOK
  <1>2. EventsOK(t) /\ SaidBy(t) = SaidBy(events) \o EventSays(e)
    BY <1>1, SaidByAppend
  <1>3. EventSays(e) = <<>> BY EventSaysIn DEF Terminal
  <1>4. SaidBy(t) = SaidBy(events) BY <1>1, <1>2, <1>3, SaidByIn, SeqIn, SeqNone
  <1>5. PICK n : n = Len(events) OBVIOUS
  <1>6. /\ n \in Nat /\ Len(t) = n + 1 /\ t[n + 1] = e
        /\ \A i \in 1..n : t[i] = events[i]
    BY <1>1, <1>5, SeqAppend, SeqHas
  <1>7. ASSUME NEW i \in 1..Len(t), t[i].type \in Terminal PROVE i = Len(t)
    <2>1. i \in 1..n \/ i = n + 1 BY <1>6
    <2>2. i \in 1..n => t[i].type \notin Terminal BY <1>5, <1>6 DEF Unended
    <2> QED BY <1>6, <1>7, <2>1, <2>2
  <1>8. Last(t) = e BY <1>6 DEF Last
  <1>9. setup.op = "stream" => t[1].type = "agent_start"
    <2>1. SUFFICES ASSUME setup.op = "stream" PROVE t[1].type = "agent_start" OBVIOUS
    <2>2. events # <<>> BY <2>1 DEF Opening, Terminal
    <2>3. 1 \in 1..n BY <1>1, <1>5, <1>6, <2>2, SeqTail
    <2> QED BY <1>6, <2>1, <2>2, <2>3 DEF Opening
  <1> QED BY <1>2, <1>4, <1>7, <1>8, <1>9 DEF Shown

\* A client with events of the run and a result that shows no end of it.
LEMMA DoneOtherwise ==
  ASSUME NEW events, Shown(events), IsPrefix(SaidBy(events), SaidByRun),
         NEW y, y.events = events, y.executed => loop.calls > 0,
         \/ y.out.kind = "raised"
         \/ y.out.kind = "ended" /\ Last(events).type = "error"
         \/ y.out.kind = "needs_login" /\ loop.calls > 0
  PROVE  Done(y)
  BY DEF Done, Outcome, Shown

\* A stream that has shown all of the run and its end.
LEMMA DoneEnded ==
  ASSUME NEW events, Shown(events), SaidBy(events) = SaidByRun, EndFacts(Last(events)),
         IsPrefix(SaidBy(events), SaidByRun),
         NEW y, y.events = events, y.executed => loop.calls > 0, y.out.kind = "ended"
  PROVE  Done(y)
  BY DEF Done, Outcome, Shown

\* A run with the response it was promised.
LEMMA DoneResponse ==
  ASSUME NEW events, Shown(events), IsPrefix(SaidBy(events), SaidByRun),
         NEW y, y.events = events, y.executed => loop.calls > 0,
         y.out.kind = "response", ResponseFacts(y.out.response)
  PROVE  Done(y)
  BY DEF Done, Outcome, Shown

(***************************************************************************)
(* A run that fails.                                                       *)
(***************************************************************************)

\* What is raised is raised.
LEMMA RaisedHas ==
  ASSUME NEW code, NEW provider PROVE Raised(code, provider).kind = "raised"
  BY DEF Raised

\* The fields of an error event.
LEMMA ErrorShownHas ==
  ASSUME NEW code, NEW provider, NEW e, e = ErrorShown(code, provider)
  PROVE  EventOK(e) /\ e.type = "error" /\ e.code = code /\ e.provider_id = provider
  <1>1. e.type = "error" /\ e.code = code /\ e.provider_id = provider BY DEF ErrorShown
  <1>2. "error" \in EventTypes BY DEF EventTypes
  <1> QED BY <1>1, <1>2 DEF EventOK

\* An error event ends the client that reads it.
LEMMA ErrorEventDone ==
  ASSUME setup.op \in {"run", "stream"}, NEW f, NEW code, NEW provider, NEW e, Plain(f),
         \A b : AgentFrame(f, b) = Only(e, b), e = ErrorShown(code, provider),
         NEW x, Quiet(setup.op, x), Good(x), NEW y, y = After(setup.op, f, x)
  PROVE  Done(y)
  <1>1. EventOK(e) /\ e.type = "error" /\ e.code = code /\ e.provider_id = provider
    BY ErrorShownHas
  <1>2. PICK b, read : b = x.buffers /\ read = Only(e, b) OBVIOUS
  <1>3. read.buffers = b /\ read.events = <<e>> BY <1>2 DEF Only
  <1>4. <<e>> # <<>> /\ Head(<<e>>) = e OBVIOUS
  <1>5. GetsRead(setup.op, read, x) = Gets(setup.op, e, b, x) BY <1>3, <1>4 DEF GetsRead
  <1>6. y = Gets(setup.op, e, b, x) BY <1>2, <1>5, AfterPlain
  <1>7. x.executed => loop.calls > 0 BY DEF Good
  <1>8. IsPrefix(SaidBy(x.events), SaidByRun) BY DEF Good
  <1>9. e.type \in Terminal BY <1>1 DEF Terminal
  <1>10. CASE setup.op = "run"
    <2>1. PICK events : events = Append(x.events, e) OBVIOUS
    <2>2. PICK o, executed :
            /\ o = Raised(e.code, e.provider_id)
            /\ executed =
                 (x.executed \/ e.type \in {"tool_execution_start", "tool_execution_end"})
      OBVIOUS
    <2>3. y = Reader(b, x.started, x.sum, executed, events, o)
      BY <1>1, <1>6, <1>10, <2>1, <2>2 DEF Gets, RunGets
    <2>4. y.events = events /\ y.executed = executed /\ y.out = o BY <2>3, ReaderHas
    <2>5. Unended(x.events) BY DEF Quiet, Unended
    <2>6. Shown(events) /\ SaidBy(events) = SaidBy(x.events)
      BY <1>1, <1>9, <1>10, <2>1, <2>5, ShownLast
    <2>7. y.out.kind = "raised" BY <2>2, <2>4, RaisedHas
    <2>8. executed => x.executed BY <1>1, <2>2
    <2>9. y.executed => loop.calls > 0 BY <1>7, <2>4, <2>8
    <2> QED BY <1>8, <2>4, <2>6, <2>7, <2>9, DoneOtherwise
  <1>11. CASE setup.op = "stream"
    <2>1. PICK t : t = e.type OBVIOUS
    <2>2. PICK before : before = x.events \o Led(x, t) OBVIOUS
    <2>3. Unended(before) /\ SaidBy(before) = SaidBy(x.events) /\ Opening(before, t)
      BY <1>11, <2>2, LedEvents
    <2>4. IsSeq(before) BY <2>3 DEF Unended, EventsOK
    <2>5. PICK sum, started : sum = SumWith(x, e) /\ started = TRUE OBVIOUS
    <2>6. CASE code = "auth_required"
      <3>1. PICK o : o = Raised(e.code, Either(e.provider_id, Fallback)) OBVIOUS
      <3>2. y = Reader(b, started, sum, x.executed, before \o <<>>, o)
        BY <1>1, <1>6, <1>11, <2>1, <2>2, <2>5, <2>6, <3>1 DEF Gets, StreamGets
      <3>3. before \o <<>> = before BY <2>4, SeqNone
      <3>4. y.events = before /\ y.executed = x.executed /\ y.out = o BY <3>2, <3>3, ReaderHas
      <3>5. Shown(before) BY <1>1, <2>1, <2>3 DEF Unended, Shown, Opening
      <3>6. y.out.kind = "raised" BY <3>1, <3>4, RaisedHas
      <3> QED BY <1>7, <1>8, <2>3, <3>4, <3>5, <3>6, DoneOtherwise
    <2>7. CASE code # "auth_required"
      <3>1. PICK o : o = [kind |-> "ended"] OBVIOUS
      <3>2. y = Reader(b, started, sum, x.executed, before \o <<e>>, o)
        BY <1>1, <1>6, <1>11, <2>1, <2>2, <2>5, <2>7, <3>1 DEF Gets, StreamGets
      <3>3. PICK events : events = Append(before, e) OBVIOUS
      <3>4. before \o <<e>> = events BY <2>4, <3>3, SeqAppendJoin
      <3>5. y.events = events /\ y.executed = x.executed /\ y.out = o
        <4>1. y = Reader(b, started, sum, x.executed, events, o) BY <3>2, <3>4
        <4> QED BY <4>1, ReaderHas
      <3>6. Shown(events) /\ SaidBy(events) = SaidBy(before) /\ Last(events) = e
        BY <1>1, <1>9, <2>1, <2>3, <3>3, ShownLast
      <3>7. y.out.kind = "ended" BY <3>1, <3>5
      <3> QED BY <1>1, <1>7, <1>8, <2>3, <3>5, <3>6, <3>7, DoneOtherwise
    <2> QED BY <2>6, <2>7
  <1> QED BY <1>10, <1>11

\* The agent_error ends the client that reads it first.
LEMMA FailureDone ==
  ASSUME NEW f, f = [type |-> "agent_error", payload |-> Failure],
         NEW x, Quiet(setup.op, x), Good(x), NEW y, y = After(setup.op, f, x)
  PROVE  Done(y)
  <1>1. PICK o : o = Raised(FailureCode, FailureProvider) OBVIOUS
  <1>2. ErrorFrameError(f) = o /\ f.type = "agent_error" BY <1>1, ReadsFailure
  <1>3. x.out.kind = "none" BY DEF Quiet, Pending
  <1>4. y = Reader(x.buffers, x.started, x.sum, x.executed, x.events, o)
    BY <1>2, <1>3 DEF After
  <1>5. y.events = x.events /\ y.executed = x.executed /\ y.out = o BY <1>4, ReaderHas
  <1>6. Shown(x.events) BY ShownQuiet
  <1>7. y.out.kind = "raised" BY <1>1, <1>5, RaisedHas
  <1> QED BY <1>5, <1>6, <1>7, DoneOtherwise DEF Good

\* The run fails.
LEMMA RunFailsKept ==
  ASSUME IInv, RunFails PROVE Kept
  <1>1. LoopOK BY DEF IInv
  <1>2. PICK event, settled : /\ event = AgentEventFrame([type |-> "error"] ++ Failure)
                              /\ settled = [type |-> "agent_error", payload |-> Failure]
    OBVIOUS
  <1>3. /\ Stays(<<event, settled>>) \/ Stays(<<settled>>)
        /\ loop.pc # "ended" /\ loop'.pc = "ended" /\ loop'.termination = loop.termination
    BY <1>1, <1>2, RunFailsLoop
  <1>4. PICK said : said = <<>> OBVIOUS
  <1>5. setup.op \in {"run", "stream"}
    <2>1. (\E frames : Steps(frames, said)) BY <1>3, <1>4 DEF Stays
    <2> QED BY <2>1, RunsOrStreams
  <1>6. ASSUME NEW x, Quiet(setup.op, x), Good(x), CaughtUp(x)
        PROVE  Done(After(setup.op, event, x)) /\ Done(After(setup.op, settled, x))
    <2>1. PICK e : e = ErrorShown(FailureCode, FailureProvider) OBVIOUS
    <2>2. Plain(event) BY <1>2, EventIsPlain
    <2>3. \A b : AgentFrame(event, b) = Only(e, b) BY <1>2, <2>1, ReadsFailureEvent
    <2>4. PICK y, z : y = After(setup.op, event, x) /\ z = After(setup.op, settled, x) OBVIOUS
    <2>5. Done(y) BY <1>5, <1>6, <2>1, <2>2, <2>3, <2>4, ErrorEventDone
    <2>6. Done(z) BY <1>2, <1>6, <2>4, FailureDone
    <2> QED BY <2>4, <2>5, <2>6
  <1>7. CASE Stays(<<event, settled>>)
    <2>1. PICK frames : frames = <<event, settled>> OBVIOUS
    <2>2. Halts(frames) BY <1>3, <1>7, <2>1 DEF Halts
    <2> QED BY <1>3, <1>6, <2>1, <2>2, HaltsKept
  <1>8. CASE Stays(<<settled>>)
    <2>1. PICK frames : frames = <<settled>> OBVIOUS
    <2>2. Halts(frames) BY <1>3, <1>8, <2>1 DEF Halts
    <2> QED BY <1>3, <1>6, <2>1, <2>2, HaltsKept
  <1> QED BY <1>3, <1>7, <1>8

(***************************************************************************)
(* A run that settles.                                                     *)
(***************************************************************************)

\* The last message of a run about to settle.
LEMMA LastIsOK ==
  ASSUME LoopOK, loop.pc = "settle"
  PROVE  /\ finals # <<>> /\ PartsOK(Last(finals).content) /\ IsUsage(Last(finals).usage)
         /\ Counted(Last(finals).usage) = Last(finals).usage
         /\ Len(finals) = 1 => TotalOf(finals) = Last(finals).usage
  <1>1. PICK n, f : n = Len(finals) /\ f = finals[n] OBVIOUS
  <1>2. finals # <<>> /\ IsSeq(finals) BY DEF LoopOK
  <1>3. n \in 1..n BY <1>1, <1>2, SeqTail
  <1>4. FinalOK(f) BY <1>1, <1>3 DEF LoopOK
  <1>5. Last(finals) = f BY <1>1 DEF Last
  <1>6. PICK u : u = f.usage OBVIOUS
  <1>7. IsUsage(u) /\ (Compact \/ "cache_read" \in DOMAIN u) BY <1>4, <1>6 DEF FinalOK
  <1>8. Counted(u) = u BY <1>7, CountedHas
  <1>9. PartsOK(f.content) BY <1>4 DEF FinalOK, PartsOK
  <1>10. ASSUME n = 1 PROVE TotalOf(finals) = u
    <2>1. PICK none, one : none = <<>> /\ one = Append(none, f) OBVIOUS
    <2>2. IsSeq(one) /\ Len(one) = 1 /\ one[1] = f
      <3>1. IsSeq(none) /\ Len(none) = 0 BY <2>1, SeqEmpty
      <3>2. IsSeq(one) /\ Len(one) = Len(none) + 1 /\ one[Len(none) + 1] = f
        BY <2>1, <3>1, SeqAppend
      <3> QED BY <3>1, <3>2
    <2>3. \A i \in 1..Len(finals) : finals[i] = one[i] BY <1>1, <1>10, <2>2
    <2>4. finals = one BY <1>1, <1>2, <1>10, <2>2, <2>3, SeqSame
    <2>5. TotalOf(one) = f.usage BY <1>6, <1>7, <2>1, TotalOfOne
    <2> QED BY <1>6, <2>4, <2>5
  <1> QED BY <1>1, <1>2, <1>5, <1>6, <1>7, <1>8, <1>9, <1>10

\* The response a run is told of, when no login has failed.
SaysAll(r) ==
  /\ SaidIn(r.content) = SaidIn(Last(finals).content)
  /\ r.usage = Last(finals).usage
  /\ r.stop_reason = StopReason /\ r.error_message = Last(finals).error_message
  /\ r.api = setup.api /\ r.provider_id = "p"

\* What the agent_result says is the last message's.
LEMMA ResultTells ==
  ASSUME LoopOK, loop.pc = "settle", NEW r,
         r = RunResponseOf(JsonField(ResultFrame, "result_json"))
  PROVE  SaysAll(r)
  <1>1. PICK content, u : content = Last(finals).content /\ u = Last(finals).usage OBVIOUS
  <1>2. PartsOK(content) /\ IsUsage(u) /\ Counted(u) = u BY <1>1, LastIsOK
  <1>3. PICK sr, em, api : /\ sr = StopReason /\ em = Last(finals).error_message
                           /\ api = setup.api
    OBVIOUS
  <1>4. r = ResponseShown(content, Counted(u), sr, em, api)
    BY <1>1, <1>2, <1>3, ReadsRunResult
  <1>5. /\ r.content = ParseContent(content) /\ r.usage = u /\ r.stop_reason = sr
        /\ r.error_message = em /\ r.api = api /\ r.provider_id = "p"
    BY <1>2, <1>4 DEF ResponseShown
  <1>6. SaidIn(r.content) = SaidIn(content) BY <1>2, <1>5, ParsedSays
  <1> QED BY <1>1, <1>3, <1>5, <1>6 DEF SaysAll

\* Checked returns it, or raises what the message says, or asks for a login.
LEMMA CheckedIs ==
  ASSUME NEW r, SaysAll(r), NEW executed, executed => loop.calls > 0,
         NEW o, o = Checked(r, executed)
  PROVE  \/ o.kind = "response" /\ ResponseFacts(o.response)
         \/ o.kind = "raised"
         \/ o.kind = "needs_login" /\ loop.calls > 0
  <1>1. CASE ~AuthFailed(r)
    <2>1. o = [kind |-> "response", response |-> r] BY <1>1 DEF Checked
    <2>2. o.kind = "response" /\ o.response = r BY <2>1
    <2>3. ResponseFacts(r) BY <1>1 DEF ResponseFacts, SaysAll
    <2> QED BY <2>2, <2>3
  <1>2. CASE AuthFailed(r)
    <2>1. PICK provider : provider = Either(r.provider_id, Fallback) OBVIOUS
    <2>2. PICK login : login = [kind |-> "needs_login", provider_id |-> provider] OBVIOUS
    <2>3. (executed /\ o = login) \/ o = Raised("auth_required", provider)
      BY <1>2, <2>1, <2>2 DEF Checked
    <2>4. login.kind = "needs_login" BY <2>2
    <2>5. CASE o = Raised("auth_required", provider) BY <2>5, RaisedHas
    <2>6. CASE executed /\ o = login BY <2>4, <2>6
    <2> QED BY <2>3, <2>5, <2>6
  <1> QED BY <1>1, <1>2

\* A run that was told of its last message has its result.
LEMMA RunTold ==
  ASSUME NEW events, Shown(events), IsPrefix(SaidBy(events), SaidByRun),
         NEW y, y.events = events, y.executed => loop.calls > 0,
         NEW r, SaysAll(r), NEW executed, executed => loop.calls > 0,
         y.out = Checked(r, executed)
  PROVE  Done(y)
  <1>1. PICK o : o = Checked(r, executed) OBVIOUS
  <1>2. CASE o.kind = "response" /\ ResponseFacts(o.response) BY <1>1, <1>2, DoneResponse
  <1>3. CASE o.kind = "raised" BY <1>1, <1>3, DoneOtherwise
  <1>4. CASE o.kind = "needs_login" /\ loop.calls > 0 BY <1>1, <1>4, DoneOtherwise
  <1> QED BY <1>1, <1>2, <1>3, <1>4, CheckedIs

\* The agent_end of a stream.
EndAs(usage, stop_reason, error_message, provider_id, api) ==
  [type |-> "agent_end", usage |-> usage, stop_reason |-> stop_reason,
   error_message |-> error_message, provider_id |-> provider_id, api |-> api]

\* Its fields.
LEMMA EndAsHas ==
  ASSUME NEW u, NEW sr, NEW em, NEW p, NEW api, NEW e, e = EndAs(u, sr, em, p, api)
  PROVE  /\ e.type = "agent_end" /\ e.usage = u /\ e.stop_reason = sr /\ e.error_message = em
         /\ e.provider_id = p /\ e.api = api /\ EventOK(e)
         /\ AuthFailed(e) <=> (sr = "error" /\ IsAuthFailure(em, api))
  <1>1. /\ e.type = "agent_end" /\ e.usage = u /\ e.stop_reason = sr /\ e.error_message = em
        /\ e.provider_id = p /\ e.api = api
    BY DEF EndAs
  <1>2. "agent_end" \in EventTypes BY DEF EventTypes, AgentEventTypes
  <1> QED BY <1>1, <1>2 DEF EventOK, AuthFailed

\* A stream ends with the run's end and the sum of its turns' tokens.
LEMMA StreamTold ==
  ASSUME LoopOK, loop.pc = "settle", setup.op = "stream", NEW x, Quiet("stream", x), Good(x),
         SaidBy(x.events) = SaidByRun, Summing(x.sum),
         NEW u, NEW p, NEW api, ~Compact => u = Last(finals).usage,
         NEW end, end = EndAs(u, StopReason, Last(finals).error_message, p, api),
         NEW b, NEW y, y = StreamGetsEnd(end, b, x)
  PROVE  Done(y)
  <1>1. PICK sr, em : sr = StopReason /\ em = Last(finals).error_message OBVIOUS
  <1>2. PICK v : v = IF x.sum # NoUsage THEN x.sum ELSE u OBVIOUS
  <1>3. PICK final : final = EndAs(v, sr, em, p, api) OBVIOUS
  <1>4. end = EndAs(u, sr, em, p, api) BY <1>1
  <1>5. end.type = "agent_end" /\ (AuthFailed(end) <=> (sr = "error" /\ IsAuthFailure(em, api)))
    BY <1>4, EndAsHas
  <1>6. /\ final.type = "agent_end" /\ final.usage = v /\ final.stop_reason = sr
        /\ final.error_message = em /\ EventOK(final)
        /\ AuthFailed(final) <=> (sr = "error" /\ IsAuthFailure(em, api))
    BY <1>3, EndAsHas
  <1>7. final = [end EXCEPT !.usage = IF x.sum # NoUsage THEN x.sum ELSE @]
    BY <1>2, <1>3, <1>4 DEF EndAs
  <1>8. PICK t, before, sum : t = end.type /\ before = x.events \o Led(x, t) /\ sum = x.sum OBVIOUS
  <1>9. Unended(before) /\ SaidBy(before) = SaidBy(x.events) /\ Opening(before, t)
    BY <1>8, LedEvents
  <1>10. IsSeq(before) BY <1>9 DEF Unended, EventsOK
  <1>11. PICK started : started = TRUE OBVIOUS
  <1>12. x.executed => loop.calls > 0 BY DEF Good
  <1>13. IsPrefix(SaidBy(before), SaidByRun) BY <1>9 DEF Good
  <1>14. CASE AuthFailed(end)
    <2>1. PICK o : o = Raised("auth_required", Either(end.provider_id, Fallback)) OBVIOUS
    <2>2. y = Reader(b, started, sum, x.executed, before, o)
      BY <1>8, <1>11, <1>14, <2>1 DEF StreamGetsEnd
    <2>3. y.events = before /\ y.executed = x.executed /\ y.out = o BY <2>2, ReaderHas
    <2>4. Shown(before) BY <1>5, <1>8, <1>9 DEF Unended, Shown, Opening
    <2>5. y.out.kind = "raised" BY <2>1, <2>3, RaisedHas
    <2> QED BY <1>12, <1>13, <2>3, <2>4, <2>5, DoneOtherwise
  <1>15. CASE ~AuthFailed(end)
    <2>1. PICK o, events : o = [kind |-> "ended"] /\ events = Append(before, final) OBVIOUS
    <2>2. y = Reader(b, started, sum, x.executed, before \o <<final>>, o)
      BY <1>7, <1>8, <1>11, <1>15, <2>1 DEF StreamGetsEnd
    <2>3. before \o <<final>> = events BY <1>10, <2>1, SeqAppendJoin
    <2>4. y = Reader(b, started, sum, x.executed, events, o) BY <2>2, <2>3
    <2>5. y.events = events /\ y.executed = x.executed /\ y.out = o BY <2>4, ReaderHas
    <2>6. final.type \in Terminal BY <1>6 DEF Terminal
    <2>7. Opening(before, final.type) BY <1>5, <1>6, <1>8, <1>9
    <2>8. Shown(events) /\ SaidBy(events) = SaidBy(before) /\ Last(events) = final
      BY <1>6, <1>9, <2>1, <2>6, <2>7, ShownLast
    <2>9. v = TotalOf(finals)
      <3>1. finals # <<>> /\ (Len(finals) = 1 => TotalOf(finals) = Last(finals).usage)
        BY LastIsOK
      <3>2. CASE sum # NoUsage
        <4>1. sum = TotalOf(finals) BY <1>8, <3>1, <3>2 DEF Summing
        <4> QED BY <1>2, <1>8, <3>2, <4>1
      <3>3. CASE sum = NoUsage
        <4>1. ~Compact /\ Len(finals) = 1 BY <1>8, <3>1, <3>3 DEF Summing
        <4> QED BY <1>2, <1>8, <3>1, <3>3, <4>1
      <3> QED BY <3>2, <3>3
    <2>10. EndFacts(final) BY <1>1, <1>5, <1>6, <1>15, <2>9 DEF EndFacts
    <2>11. y.out.kind = "ended" BY <2>1, <2>5
    <2>12. SaidBy(events) = SaidByRun /\ IsPrefix(SaidBy(events), SaidByRun)
      BY <1>9, <1>13, <2>8
    <2>13. EndFacts(Last(events)) BY <2>8, <2>10
    <2> QED BY <1>12, <2>5, <2>8, <2>11, <2>12, <2>13, DoneEnded
  <1> QED BY <1>14, <1>15

\* A client that has read everything of a run about to settle.
Waiting(x) ==
  /\ LoopOK /\ loop.pc = "settle" /\ setup.op \in {"run", "stream"}
  /\ Quiet(setup.op, x) /\ Good(x) /\ SaidBy(x.events) = SaidByRun
  /\ setup.op = "stream" => Summing(x.sum)
  /\ setup.op = "run" /\ Compact =>
       Ended(x.events, setup.api, Last(finals).usage, SaidIn(Last(finals).content))

\* A client that has caught up with such a run is one.
LEMMA IsWaiting ==
  ASSUME LoopOK, loop.pc = "settle", setup.op \in {"run", "stream"},
         NEW x, Quiet(setup.op, x), Good(x), CaughtUp(x)
  PROVE  Waiting(x)
  <1>1. finals # <<>> BY DEF LoopOK
  <1>2. SaidBy(x.events) = SaidByRun /\ (setup.op = "stream" => Summing(x.sum)) BY DEF CaughtUp
  <1>3. setup.op = "run" /\ Compact =>
          Ended(x.events, setup.api, Last(finals).usage, SaidIn(Last(finals).content))
    <2>1. SUFFICES ASSUME setup.op = "run" /\ Compact
                   PROVE  Ended(x.events, setup.api, Last(finals).usage,
                                SaidIn(Last(finals).content))
      OBVIOUS
    <2>2. Telling(x.events) BY <2>1 DEF CaughtUp
    <2> QED BY <1>1, <2>2 DEF Telling
  <1> QED BY <1>2, <1>3 DEF Waiting

\* The agent_result ends the client that reads it.
LEMMA ResultDone ==
  ASSUME NEW x, Waiting(x), NEW f, f = ResultFrame, NEW y, y = After(setup.op, f, x)
  PROVE  Done(y)
  <1>1. PICK r : r = RunResponseOf(JsonField(ResultFrame, "result_json")) OBVIOUS
  <1>2. SaysAll(r) BY <1>1, ResultTells DEF Waiting
  <1>3. f.type = "agent_result" BY DEF ResultFrame
  <1>4. x.out.kind = "none" BY DEF Waiting, Quiet, Pending
  <1>5. y = GetsResult(setup.op, r, x) BY <1>1, <1>3, <1>4 DEF After
  <1>6. x.executed => loop.calls > 0 BY DEF Waiting, Good
  <1>7. IsPrefix(SaidBy(x.events), SaidByRun) BY DEF Waiting, Good
  <1>8. CASE setup.op = "run"
    <2>1. PICK o : o = Checked(r, x.executed) OBVIOUS
    <2>2. y = Reader(x.buffers, x.started, x.sum, x.executed, x.events, o)
      BY <1>5, <1>8, <2>1 DEF GetsResult
    <2>3. y.events = x.events /\ y.executed = x.executed /\ y.out = o BY <2>2, ReaderHas
    <2>4. Shown(x.events) BY ShownQuiet DEF Waiting
    <2> QED BY <1>2, <1>6, <1>7, <2>1, <2>3, <2>4, RunTold
  <1>9. CASE setup.op = "stream"
    <2>1. PICK u, p, api, b, end :
            /\ u = Last(finals).usage /\ p = r.provider_id /\ api = r.api /\ b = x.buffers
            /\ end = EndAs(u, StopReason, Last(finals).error_message, p, api)
      OBVIOUS
    <2>2. EndOf(r) = end BY <1>2, <2>1 DEF EndOf, EndAs, SaysAll
    <2>3. y = StreamGetsEnd(end, b, x) BY <1>5, <1>9, <2>1, <2>2 DEF GetsResult
    <2>4. /\ LoopOK /\ loop.pc = "settle" /\ Quiet("stream", x) /\ Good(x)
          /\ SaidBy(x.events) = SaidByRun /\ Summing(x.sum)
      BY <1>9 DEF Waiting
    <2> QED BY <1>9, <2>1, <2>3, <2>4, StreamTold
  <1> QED BY <1>8, <1>9 DEF Waiting

\* An agent_end that comes alone ends the client that reads it.
LEMMA AgentEndDone ==
  ASSUME Compact, NEW x, Waiting(x), NEW f, f = AgentEndFrame, NEW y, y = After(setup.op, f, x)
  PROVE  Done(y)
  <1>1. PICK sr, em, api, e : /\ sr = StopReason /\ em = Last(finals).error_message
                              /\ api = setup.api /\ e = EndAs(NoUsage, sr, em, "p", api)
    OBVIOUS
  <1>2. /\ e.type = "agent_end" /\ e.usage = NoUsage /\ e.stop_reason = sr
        /\ e.error_message = em /\ e.provider_id = "p" /\ e.api = api /\ EventOK(e)
    BY <1>1, EndAsHas
  <1>3. AgentEndShown(sr, em, api) = e BY <1>1 DEF AgentEndShown, EndAs
  <1>4. PICK b, read : b = x.buffers /\ read = Only(e, b) OBVIOUS
  <1>5. AgentFrame(f, b) = read BY <1>1, <1>3, <1>4, ReadsAgentEnd
  <1>6. Plain(f) BY EventIsPlain DEF AgentEndFrame
  <1>7. read.buffers = b /\ read.events = <<e>> BY <1>4 DEF Only
  <1>8. <<e>> # <<>> /\ Head(<<e>>) = e OBVIOUS
  <1>9. GetsRead(setup.op, read, x) = Gets(setup.op, e, b, x) BY <1>7, <1>8 DEF GetsRead
  <1>10. Quiet(setup.op, x) BY DEF Waiting
  <1>11. y = Gets(setup.op, e, b, x) BY <1>4, <1>5, <1>6, <1>9, <1>10, AfterPlain
  <1>12. x.executed => loop.calls > 0 BY DEF Waiting, Good
  <1>13. IsPrefix(SaidBy(x.events), SaidByRun) BY DEF Waiting, Good
  <1>14. CASE setup.op = "run"
    <2>1. PICK events, r, executed :
            /\ events = Append(x.events, e) /\ r = BuildResponse(events)
            /\ executed =
                 (x.executed \/ e.type \in {"tool_execution_start", "tool_execution_end"})
      OBVIOUS
    <2>2. PICK o : o = Checked(r, executed) OBVIOUS
    <2>3. y = Reader(b, x.started, x.sum, executed, events, o)
      BY <1>2, <1>11, <1>14, <2>1, <2>2 DEF Gets, RunGets
    <2>4. y.events = events /\ y.executed = executed /\ y.out = o BY <2>3, ReaderHas
    <2>5. executed => x.executed BY <1>2, <2>1
    <2>6. Unended(x.events) BY <1>10 DEF Quiet, Unended
    <2>7. e.type \in Terminal /\ e.type \notin Bounds BY <1>2 DEF Terminal, Bounds
    <2>8. Shown(events) /\ SaidBy(events) = SaidBy(x.events) /\ Last(events) = e
      BY <1>2, <1>14, <2>1, <2>6, <2>7, ShownLast
    <2>9. PICK usage, said : usage = Last(finals).usage /\ said = SaidIn(Last(finals).content)
      OBVIOUS
    <2>10. Ended(x.events, api, usage, said) BY <1>1, <1>14, <2>9 DEF Waiting
    <2>11. Ended(events, api, usage, said) BY <2>1, <2>6, <2>7, <2>10, EndedMore DEF Unended
    <2>12. EventsOK(events) BY <2>8 DEF Shown
    <2>13. /\ SaidIn(r.content) = said /\ r.usage = usage /\ r.provider_id = "p" /\ r.api = api
           /\ r.stop_reason = e.stop_reason /\ r.error_message = e.error_message
      <3>1. e = Last(events) /\ e.usage = NoUsage /\ e.provider_id = "p" /\ e.api = api
        BY <1>2, <2>8
      <3>2. r = BuildResponse(events) BY <2>1
      <3>3. Built(r, e, api, usage, said) BY <2>11, <2>12, <3>1, <3>2, BuiltIs
      <3> QED BY <3>3 DEF Built
    <2>14. SaysAll(r) BY <1>1, <1>2, <2>9, <2>13 DEF SaysAll
    <2> QED BY <1>12, <1>13, <2>2, <2>4, <2>5, <2>8, <2>14, RunTold
  <1>15. CASE setup.op = "stream"
    <2>1. y = StreamGetsEnd(e, b, x) BY <1>2, <1>11, <1>15 DEF Gets, StreamGets
    <2>2. /\ LoopOK /\ loop.pc = "settle" /\ Quiet("stream", x) /\ Good(x)
          /\ SaidBy(x.events) = SaidByRun /\ Summing(x.sum)
      BY <1>15 DEF Waiting
    <2>3. PICK u, p : u = NoUsage /\ p = "p" OBVIOUS
    <2>4. e = EndAs(u, StopReason, Last(finals).error_message, p, api) BY <1>1, <2>3
    <2> QED BY <1>15, <2>1, <2>2, <2>4, StreamTold
  <1> QED BY <1>14, <1>15 DEF Waiting

\* The run settles.
LEMMA SettlesKept ==
  ASSUME IInv, Settles PROVE Kept
  <1>1. LoopOK BY DEF IInv
  <1>2. PICK result, end : result = ResultFrame /\ end = AgentEndFrame OBVIOUS
  <1>3. /\ Stays(<<result, end>>) \/ (Compact /\ Stays(<<end>>))
        /\ loop.pc = "settle" /\ loop'.pc = "ended" /\ loop'.termination = loop.termination
    BY <1>1, <1>2, SettlesLoop
  <1>4. PICK said : said = <<>> OBVIOUS
  <1>5. setup.op \in {"run", "stream"}
    <2>1. (\E frames : Steps(frames, said)) BY <1>3, <1>4 DEF Stays
    <2> QED BY <2>1, RunsOrStreams
  <1>6. ASSUME NEW x, Quiet(setup.op, x), Good(x), CaughtUp(x)
        PROVE  Done(After(setup.op, result, x)) /\ (Compact => Done(After(setup.op, end, x)))
    <2>1. Waiting(x) BY <1>1, <1>3, <1>5, <1>6, IsWaiting
    <2>2. PICK y, z : y = After(setup.op, result, x) /\ z = After(setup.op, end, x) OBVIOUS
    <2>3. Done(y) BY <1>2, <2>1, <2>2, ResultDone
    <2>4. Compact => Done(z) BY <1>2, <2>1, <2>2, AgentEndDone
    <2> QED BY <2>2, <2>3, <2>4
  <1>7. CASE Stays(<<result, end>>)
    <2>1. PICK frames : frames = <<result, end>> OBVIOUS
    <2>2. Halts(frames) BY <1>3, <1>7, <2>1 DEF Halts
    <2>3. loop.pc # "ended" BY <1>3
    <2> QED BY <1>6, <2>1, <2>2, <2>3, HaltsKept
  <1>8. CASE Compact /\ Stays(<<end>>)
    <2>1. PICK frames : frames = <<end>> OBVIOUS
    <2>2. Halts(frames) BY <1>3, <1>8, <2>1 DEF Halts
    <2>3. loop.pc # "ended" BY <1>3
    <2> QED BY <1>6, <1>8, <2>1, <2>2, <2>3, HaltsKept
  <1> QED BY <1>3, <1>7, <1>8

(***************************************************************************)
(* The tool calls: at most one is out, and only while the loop waits for   *)
(* it.                                                                     *)
(***************************************************************************)

\* A frame that is not a call of a tool.
NoCall(f) == f.type # "tool_execute"

\* Those that AgentFrame reads are not.
LEMMA PlainNoCall == ASSUME NEW f, Plain(f) PROVE NoCall(f) BY DEF Plain, NoCall

\* The calls on the wire when more frames are sent.
LEMMA CallsJoin ==
  ASSUME NEW frames, IsSeq(wire), IsSeq(frames), wire' = wire \o frames
  PROVE  CallsOut' = CallsOut \cup
           {Len(wire) + i : i \in {j \in 1..Len(frames) : frames[j].type = "tool_execute"}}
  <1>1. PICK n, m, w : n = Len(wire) /\ m = Len(frames) /\ w = wire' OBVIOUS
  <1>2. n \in Nat /\ m \in Nat BY <1>1, SeqHas
  <1>3. /\ Len(w) = n + m /\ \A i \in 1..n : w[i] = wire[i]
        /\ \A i \in 1..m : w[n + i] = frames[i]
    BY <1>1, SeqJoin
  <1>4. PICK called : called = {j \in 1..m : frames[j].type = "tool_execute"} OBVIOUS
  <1>5. CallsOut' = {k \in 1..(n + m) : w[k].type = "tool_execute"} BY <1>1, <1>3 DEF CallsOut
  <1>6. ASSUME NEW k \in CallsOut' PROVE k \in CallsOut \/ \E i \in called : k = n + i
    <2>1. k \in 1..(n + m) /\ w[k].type = "tool_execute" BY <1>5, <1>6
    <2>2. CASE k \in 1..n BY <1>1, <1>3, <2>1, <2>2 DEF CallsOut
    <2>3. CASE k \notin 1..n
      <3>1. PICK i : i = k - n OBVIOUS
      <3>2. i \in 1..m /\ k = n + i BY <1>2, <2>1, <2>3, <3>1
      <3> QED BY <1>3, <1>4, <2>1, <3>2
    <2> QED BY <2>2, <2>3
  <1>7. ASSUME NEW k \in CallsOut PROVE k \in CallsOut'
    <2>1. k \in 1..n /\ wire[k].type = "tool_execute" BY <1>1 DEF CallsOut
    <2>2. k \in 1..(n + m) BY <1>2, <2>1
    <2> QED BY <1>3, <1>5, <2>1, <2>2
  <1>8. ASSUME NEW i \in called PROVE n + i \in CallsOut'
    <2>1. i \in 1..m /\ frames[i].type = "tool_execute" BY <1>4
    <2>2. n + i \in 1..(n + m) BY <1>2, <2>1
    <2> QED BY <1>3, <1>5, <2>1, <2>2
  <1>9. PICK sent : sent = {n + i : i \in called} OBVIOUS
  <1>10. CallsOut' \subseteq CallsOut \cup sent BY <1>6, <1>9
  <1>11. CallsOut \subseteq CallsOut' BY <1>7
  <1>12. sent \subseteq CallsOut' BY <1>8, <1>9
  <1>13. CallsOut' = CallsOut \cup sent BY <1>10, <1>11, <1>12
  <1> QED BY <1>1, <1>4, <1>9, <1>13

\* The loop at work between its calls sends none of them.
LEMMA ToolIdle ==
  ASSUME IInv, NEW frames, IsSeq(frames), wire' = wire \o frames,
         \A i \in 1..Len(frames) : NoCall(frames[i]), loop.pc # "executing", reply' = reply
  PROVE  ToolOK'
  <1>1. ~reply /\ reply \in BOOLEAN /\ CallsOut = {} /\ IsSeq(wire) BY DEF IInv, ToolOK
  <1>2. CallsOut' = {} BY <1>1, CallsJoin DEF NoCall
  <1> QED BY <1>1, <1>2 DEF ToolOK

\* So with one frame.
LEMMA ToolIdleOne ==
  ASSUME IInv, NEW f, wire' = wire \o <<f>>, Plain(f), loop.pc # "executing", reply' = reply
  PROVE  ToolOK'
  <1>1. PICK frames : frames = <<f>> OBVIOUS
  <1>2. IsSeq(frames) /\ Len(frames) = 1 /\ frames[1] = f BY <1>1, SeqOne
  <1>3. \A i \in 1..Len(frames) : NoCall(frames[i]) BY <1>2, PlainNoCall
  <1> QED BY <1>1, <1>2, <1>3, ToolIdle

\* So with two.
LEMMA ToolIdleTwo ==
  ASSUME IInv, NEW f, NEW g, wire' = wire \o <<f, g>>, NoCall(f), NoCall(g),
         loop.pc # "executing", reply' = reply
  PROVE  ToolOK'
  <1>1. PICK frames : frames = <<f, g>> OBVIOUS
  <1>2. IsSeq(frames) /\ Len(frames) = 2 /\ frames[1] = f /\ frames[2] = g BY <1>1, SeqTwo
  <1>3. \A i \in 1..Len(frames) : i = 1 \/ i = 2 BY <1>2
  <1>4. \A i \in 1..Len(frames) : NoCall(frames[i]) BY <1>2, <1>3
  <1> QED BY <1>1, <1>2, <1>4, ToolIdle

\* A call is sent when nothing is executing, and its result is awaited.
LEMMA ToolSent ==
  ASSUME IInv, NEW f, NEW g, wire' = wire \o <<f, g>>, NoCall(f), loop.pc # "executing",
         loop'.pc = "executing", reply' = reply
  PROVE  ToolOK'
  <1>1. ~reply /\ reply \in BOOLEAN /\ CallsOut = {} /\ IsSeq(wire) BY DEF IInv, ToolOK
  <1>2. PICK frames, n : frames = <<f, g>> /\ n = Len(wire) OBVIOUS
  <1>3. IsSeq(frames) /\ Len(frames) = 2 /\ frames[1] = f /\ frames[2] = g BY <1>2, SeqTwo
  <1>4. PICK called : called = {j \in 1..Len(frames) : frames[j].type = "tool_execute"} OBVIOUS
  <1>5. \A j \in called : j = 2 BY <1>3, <1>4 DEF NoCall
  <1>6. CallsOut' = {n + i : i \in called}
    <2>1. CallsOut' = CallsOut \cup
            {Len(wire) + i : i \in {j \in 1..Len(frames) : frames[j].type = "tool_execute"}}
      BY <1>1, <1>2, <1>3, CallsJoin
    <2> QED BY <1>1, <1>2, <1>4, <2>1
  <1>7. \A i, j \in CallsOut' : i = j BY <1>5, <1>6
  <1> QED BY <1>1, <1>7 DEF ToolOK

\* The result is read; the call was before.
LEMMA ToolAnswered ==
  ASSUME IInv, NEW f, wire' = wire \o <<f>>, NoCall(f), reply = TRUE, reply' = FALSE
  PROVE  ToolOK'
  <1>1. CallsOut = {} /\ IsSeq(wire) BY DEF IInv, ToolOK
  <1>2. PICK frames : frames = <<f>> OBVIOUS
  <1>3. IsSeq(frames) /\ Len(frames) = 1 /\ frames[1] = f BY <1>2, SeqOne
  <1>4. \A i \in 1..Len(frames) : frames[i].type # "tool_execute" BY <1>3 DEF NoCall
  <1>5. CallsOut' = {} BY <1>1, <1>2, <1>3, <1>4, CallsJoin
  <1> QED BY <1>5 DEF ToolOK

\* While the model speaks no call is out.
LEMMA MessageTool ==
  ASSUME IInv, Text \/ Thinking \/ ToolStarts \/ ProviderStarts \/ ProviderDone
                 \/ (\E message : ProviderFails(message) \/ ProviderBreaks(message))
                 \/ (\E kept \in {Closed, Front(Closed)} : ProviderCutOff(kept))
                 \/ (\E index \in loop.open : ToolGrows(index) \/ ToolCloses(index))
  PROVE  ToolOK'
  <1>1. LoopOK BY DEF IInv
  <1>2. CASE Text
    <2>1. PICK i : wire' = wire \o <<Update([type |-> "text_delta", content_index |-> i,
                                             delta |-> Fragment])>>
      BY <1>1, <1>2, TextLoop
    <2>2. PICK e : e = [type |-> "text_delta", content_index |-> i, delta |-> Fragment] OBVIOUS
    <2>3. Plain(Update(e)) BY <2>2, UpdateIsPlain
    <2>4. loop.pc # "executing" /\ reply' = reply BY <1>2 DEF Text, Streaming, LoopStep
    <2> QED BY <2>1, <2>2, <2>3, <2>4, ToolIdleOne
  <1>3. CASE Thinking
    <2>1. PICK e : /\ wire' = wire \o <<Update(e)>>
                   /\ e.type \in {"thinking_delta", "reasoning"}
      <3>1. CASE \E i : wire' = wire \o <<Update([type |-> "thinking_delta", content_index |-> i,
                                                  delta |-> Fragment])>>
        <4>1. PICK i : wire' = wire \o <<Update([type |-> "thinking_delta", content_index |-> i,
                                                 delta |-> Fragment])>>
          BY <3>1
        <4>2. PICK e : e = [type |-> "thinking_delta", content_index |-> i, delta |-> Fragment]
          OBVIOUS
        <4>3. e.type = "thinking_delta" BY <4>2
        <4> QED BY <4>1, <4>2, <4>3
      <3>2. CASE wire' = wire \o <<Update([type |-> "reasoning", delta |-> Fragment])>>
        <4>1. PICK e : e = [type |-> "reasoning", delta |-> Fragment] OBVIOUS
        <4>2. e.type = "reasoning" BY <4>1
        <4> QED BY <3>2, <4>1, <4>2
      <3> QED BY <1>1, <1>3, <3>1, <3>2, ThinkingLoop
    <2>2. Plain(Update(e)) BY <2>1, UpdateIsPlain
    <2>3. loop.pc # "executing" /\ reply' = reply BY <1>3 DEF Thinking, Streaming, LoopStep
    <2> QED BY <2>1, <2>2, <2>3, ToolIdleOne
  <1>4. CASE ToolStarts
    <2>1. PICK e : wire' = wire \o <<Update(e)>> /\ e.type = "toolcall_start"
      <3>1. PICK e : e = [type |-> "toolcall_start", content_index |-> Len(loop.content) + 1,
                          id |-> CallIds[loop.calls + 1], name |-> "lookup"]
        OBVIOUS
      <3>2. wire' = wire \o <<Update(e)>> BY <1>4, <3>1 DEF ToolStarts, Sends
      <3>3. e.type = "toolcall_start" BY <3>1
      <3> QED BY <3>2, <3>3
    <2>2. Plain(Update(e)) BY <2>1, UpdateIsPlain
    <2>3. loop.pc # "executing" /\ reply' = reply BY <1>4 DEF ToolStarts, Streaming, LoopStep
    <2> QED BY <2>1, <2>2, <2>3, ToolIdleOne
  <1>5. CASE ProviderStarts
    <2>1. PICK e : wire' = wire \o <<AgentEventFrame(e)>> BY <1>5 DEF ProviderStarts, Sends
    <2>2. Plain(AgentEventFrame(e)) BY EventIsPlain
    <2>3. loop.pc # "executing" /\ reply' = reply BY <1>5 DEF ProviderStarts, LoopStep
    <2> QED BY <2>1, <2>2, <2>3, ToolIdleOne
  <1>6. CASE ProviderDone
    <2>1. PICK u, sr, em, frames :
            /\ wire' = wire \o frames
            /\ \/ frames = <<MessageEndFrame(u, sr, em)>>
               \/ frames = <<MessageEndFrame(u, sr, em), TurnEndFrame(sr, em)>>
      BY <1>1, <1>6, ProviderDoneLoop DEF Steps
    <2>2. loop.pc # "executing" /\ reply' = reply BY <1>6 DEF ProviderDone, Streaming, LoopStep
    <2>3. PICK f, g : f = MessageEndFrame(u, sr, em) /\ g = TurnEndFrame(sr, em) OBVIOUS
    <2>4. Plain(f) /\ Plain(g) BY <2>3, MessageEndIsPlain, TurnEndIsPlain
    <2>5. NoCall(f) /\ NoCall(g) BY <2>4, PlainNoCall
    <2>6. wire' = wire \o <<f>> \/ wire' = wire \o <<f, g>> BY <2>1, <2>3
    <2> QED BY <2>2, <2>4, <2>5, <2>6, ToolIdleOne, ToolIdleTwo
  <1>7. CASE \/ \E message : ProviderFails(message)
             \/ \E kept \in {Closed, Front(Closed)} : ProviderCutOff(kept)
    <2>1. PICK u, sr, em, f : Concludes(u, sr, em, f)
      BY <1>1, <1>7, ProviderFailsLoop, ProviderCutOffLoop
    <2>2. loop.pc # "executing" /\ reply' = reply
      BY <1>7 DEF ProviderFails, ProviderCutOff, Streaming, LoopStep
    <2>3. PICK g, h : g = MessageEndFrame(u, sr, em) /\ h = TurnEndFrame(sr, em) OBVIOUS
    <2>4. Plain(g) /\ Plain(h) BY <2>3, MessageEndIsPlain, TurnEndIsPlain
    <2>5. NoCall(g) /\ NoCall(h) BY <2>4, PlainNoCall
    <2>6. wire' = wire \o <<g, h>> BY <2>1, <2>3 DEF Concludes, Steps
    <2> QED BY <2>2, <2>4, <2>5, <2>6, ToolIdleTwo
  <1>9. CASE \E message : ProviderBreaks(message)
    <2>1. PICK message : ProviderBreaks(message) BY <1>9
    <2>2. PICK sr : Steps(<<TurnEndFrame(sr, message)>>, <<>>) BY <1>1, <2>1, ProviderBreaksLoop
    <2>3. loop.pc # "executing" /\ reply' = reply BY <2>1 DEF ProviderBreaks, LoopStep
    <2>4. PICK h : h = TurnEndFrame(sr, message) OBVIOUS
    <2>5. Plain(h) BY <2>4, TurnEndIsPlain
    <2>6. wire' = wire \o <<h>> BY <2>2, <2>4 DEF Steps
    <2> QED BY <2>3, <2>5, <2>6, ToolIdleOne
  <1>8. CASE \E index \in loop.open : ToolGrows(index) \/ ToolCloses(index)
    <2>1. PICK index \in loop.open : ToolGrows(index) \/ ToolCloses(index) BY <1>8
    <2>2. PICK e : wire' = wire \o <<Update(e)>>
                   /\ e.type \in {"toolcall_delta", "toolcall_end"}
      <3>1. CASE ToolGrows(index)
        <4>1. PICK e : e = [type |-> "toolcall_delta", content_index |-> index,
                            delta |-> Fragment]
          OBVIOUS
        <4>2. wire' = wire \o <<Update(e)>> BY <3>1, <4>1 DEF ToolGrows, Sends
        <4>3. e.type = "toolcall_delta" BY <4>1
        <4> QED BY <4>2, <4>3
      <3>2. CASE ToolCloses(index)
        <4>1. PICK whole, bare : /\ whole = [k \in {"id", "name", "arguments_json"} |->
                                               loop.content[index][k]]
                                 /\ bare = [type |-> "toolcall_end", content_index |-> index]
          OBVIOUS
        <4>2. PICK e : e = IF Compact THEN bare ELSE bare ++ whole OBVIOUS
        <4>3. wire' = wire \o <<Update(e)>> BY <3>2, <4>1, <4>2 DEF ToolCloses, Sends
        <4>4. e.type = "toolcall_end" BY <4>1, <4>2 DEF ++
        <4> QED BY <4>3, <4>4
      <3> QED BY <2>1, <3>1, <3>2
    <2>3. Plain(Update(e)) BY <2>2, UpdateIsPlain
    <2>4. loop.pc # "executing" /\ reply' = reply
      BY <2>1 DEF ToolGrows, ToolCloses, Streaming, LoopStep
    <2> QED BY <2>2, <2>3, <2>4, ToolIdleOne
  <1> QED BY <1>2, <1>3, <1>4, <1>5, <1>6, <1>7, <1>8, <1>9

\* An event is not a call.
LEMMA FrameTypes ==
  ASSUME NEW e PROVE NoCall(AgentEventFrame(e))
  BY EventIsPlain, PlainNoCall

\* The other steps of the loop, one by one.
LEMMA ToolsDoneTool ==
  ASSUME IInv, ToolsDone PROVE ToolOK'
  <1>1. PICK g, a, b : /\ g = TurnEndFrame("tool_use", "")
                       /\ a = AgentEventFrame([type |-> "message_start"])
                       /\ b = AgentEventFrame([type |-> "message_end"])
    OBVIOUS
  <1>2. PICK n \in Nat :
          Stays(<<g>> \o (IF Compact THEN <<>> ELSE FlattenSeq([i \in 1..n |-> OtherMessage])))
    BY <1>1, ToolsDoneLoop DEF IInv
  <1>3. PICK results, frames :
          /\ results = IF Compact THEN <<>> ELSE FlattenSeq([i \in 1..n |-> OtherMessage])
          /\ frames = <<g>> \o results
    OBVIOUS
  <1>4. wire' = wire \o frames BY <1>2, <1>3 DEF Stays, Steps
  <1>5. loop.pc # "executing" /\ reply' = reply BY DEF ToolsDone, LoopStep
  <1>6. NoCall(g) /\ NoCall(a) /\ NoCall(b) BY <1>1, FrameTypes DEF TurnEndFrame
  <1>7. PICK S : S = {g, a, b} OBVIOUS
  <1>8. results \in Seq(S)
    <2>1. CASE Compact
      <3>1. results = <<>> BY <1>3, <2>1
      <3> QED BY <3>1
    <2>2. CASE ~Compact
      <3>1. PICK other, W : other = OtherMessage /\ W = Seq(S) OBVIOUS
      <3>2. other \in W
        <4>1. other = <<a, b>> BY <1>1, <3>1 DEF OtherMessage
        <4> QED BY <1>7, <3>1, <4>1
      <3>3. PICK each : each = [i \in 1..n |-> other] OBVIOUS
      <3>4. each \in Seq(W) BY <3>2, <3>3
      <3>5. results = FlattenSeq(each) BY <1>3, <2>2, <3>1, <3>3
      <3> QED BY <3>1, <3>4, <3>5, FlatIn
    <2> QED BY <2>1, <2>2
  <1>9. frames \in Seq(S)
    <2>1. <<g>> \in Seq(S) BY <1>7
    <2> QED BY <1>3, <1>8, <2>1
  <1>10. IsSeq(frames) BY <1>9, SeqIn
  <1>11. \A i \in 1..Len(frames) : NoCall(frames[i])
    <2>1. \A i \in 1..Len(frames) : frames[i] \in S BY <1>9
    <2> QED BY <1>6, <1>7, <2>1
  <1> QED BY <1>4, <1>5, <1>10, <1>11, ToolIdle

LEMMA PromptedTool ==
  ASSUME IInv, Prompted PROVE ToolOK'
  <1>1. PICK a, b, c : /\ a = AgentEventFrame([type |-> "message_start"])
                       /\ b = AgentEventFrame([type |-> "message_end"])
                       /\ c = AgentEventFrame([type |-> "agent_start"])
    OBVIOUS
  <1>2. PICK S : S = {a, b, c} OBVIOUS
  <1>3. PICK before, frames :
          before = (IF Compact THEN <<>> ELSE OtherMessage) /\ frames = before \o <<c>>
    OBVIOUS
  <1>4. wire' = wire \o frames /\ reply' = reply /\ loop.pc # "executing"
    BY <1>1, <1>3 DEF Prompted, Sends, LoopStep
  <1>5. frames \in Seq(S)
    <2>1. <<c>> \in Seq(S) /\ <<>> \in Seq(S) /\ <<a, b>> \in Seq(S) BY <1>2
    <2>2. before = <<>> \/ before = <<a, b>> BY <1>1, <1>3 DEF OtherMessage
    <2>3. before \in Seq(S) BY <2>1, <2>2
    <2> QED BY <1>3, <2>1, <2>3
  <1>6. NoCall(a) /\ NoCall(b) /\ NoCall(c) BY <1>1, FrameTypes
  <1>7. IsSeq(frames) BY <1>5, SeqIn
  <1>8. \A i \in 1..Len(frames) : NoCall(frames[i])
    <2>1. \A i \in 1..Len(frames) : frames[i] \in S BY <1>5
    <2> QED BY <1>2, <1>6, <2>1
  <1> QED BY <1>4, <1>7, <1>8, ToolIdle

LEMMA ToolBeginsTool ==
  ASSUME IInv, NEW known \in BOOLEAN, ToolBegins(known) PROVE ToolOK'
  <1>1. PICK f, g, h :
          /\ f = AgentEventFrame([type |-> "tool_execution_start", tool_call_id |-> ThisCall.id])
          /\ g = AgentEventFrame([type |-> "tool_execution_end", tool_call_id |-> ThisCall.id])
          /\ h = [type |-> "tool_execute", payload |-> [tool_call_id |-> ThisCall.id]]
    OBVIOUS
  <1>2. /\ loop.pc = "tools" /\ reply' = reply
        /\ (Stays(<<f, h>>) /\ loop'.pc = "executing") \/ Stays(<<f, g>>)
    BY <1>1, ToolBeginsLoop DEF IInv
  <1>3. NoCall(f) /\ NoCall(g) BY <1>1, FrameTypes
  <1>4. CASE Stays(<<f, h>>) /\ loop'.pc = "executing"
    <2>1. wire' = wire \o <<f, h>> BY <1>4 DEF Stays, Steps
    <2>2. loop.pc # "executing" /\ loop'.pc = "executing" BY <1>2, <1>4
    <2> QED BY <1>2, <1>3, <2>1, <2>2, ToolSent
  <1>5. CASE Stays(<<f, g>>)
    <2>1. wire' = wire \o <<f, g>> BY <1>5 DEF Stays, Steps
    <2>2. loop.pc # "executing" BY <1>2
    <2> QED BY <1>2, <1>3, <2>1, <2>2, ToolIdleTwo
  <1> QED BY <1>2, <1>4, <1>5

LEMMA ToolEndsTool ==
  ASSUME IInv, ToolEnds PROVE ToolOK'
  <1>1. PICK e, f : /\ e = [type |-> "tool_execution_end", tool_call_id |-> ThisCall.id]
                    /\ f = AgentEventFrame(e)
    OBVIOUS
  <1>2. wire' = wire \o <<f>> BY <1>1 DEF ToolEnds, Sends
  <1>3. reply = TRUE /\ reply' = FALSE BY ToolEndsLoop DEF IInv
  <1>4. NoCall(f) BY <1>1, FrameTypes
  <1> QED BY <1>2, <1>3, <1>4, ToolAnswered

LEMMA TurnBeginsTool ==
  ASSUME IInv, TurnBegins PROVE ToolOK'
  <1>1. PICK e : e = [type |-> "turn_start"] OBVIOUS
  <1>2. wire' = wire \o <<AgentEventFrame(e)>> /\ reply' = reply /\ loop.pc # "executing"
    BY <1>1 DEF TurnBegins, Sends, LoopStep
  <1>3. Plain(AgentEventFrame(e)) BY EventIsPlain
  <1> QED BY <1>2, <1>3, ToolIdleOne

LEMMA EndingTool ==
  ASSUME IInv, Settles \/ RunFails PROVE ToolOK'
  <1>1. LoopOK BY DEF IInv
  <1>2. CASE Settles
    <2>1. PICK f, g : f = ResultFrame /\ g = AgentEndFrame OBVIOUS
    <2>2. /\ Stays(<<f, g>>) \/ Stays(<<g>>)
          /\ loop.pc = "settle" /\ reply' = reply
      BY <1>1, <1>2, <2>1, SettlesLoop
    <2>3. loop.pc # "executing" BY <2>2
    <2>4. wire' = wire \o <<f, g>> \/ wire' = wire \o <<g>> BY <2>2 DEF Stays, Steps
    <2>5. NoCall(f) BY <2>1 DEF NoCall, ResultFrame
    <2>6. Plain(g) BY <2>1, EventIsPlain DEF AgentEndFrame
    <2>7. NoCall(g) BY <2>6, PlainNoCall
    <2> QED BY <2>2, <2>3, <2>4, <2>5, <2>6, <2>7, ToolIdleOne, ToolIdleTwo
  <1>3. CASE RunFails
    <2>1. PICK f, g : /\ f = AgentEventFrame([type |-> "error"] ++ Failure)
                      /\ g = [type |-> "agent_error", payload |-> Failure]
      OBVIOUS
    <2>2. /\ Stays(<<f, g>>) \/ Stays(<<g>>)
          /\ loop.pc \in {"message", "tools", "settle"} /\ reply' = reply
      BY <1>1, <1>3, <2>1, RunFailsLoop
    <2>3. loop.pc # "executing" BY <2>2
    <2>4. wire' = wire \o <<f, g>> \/ wire' = wire \o <<g>> BY <2>2 DEF Stays, Steps
    <2>5. NoCall(f) BY <2>1, FrameTypes
    <2>6. NoCall(g) BY <2>1 DEF NoCall
    <2>7. CASE wire' = wire \o <<f, g>> BY <2>2, <2>3, <2>5, <2>6, <2>7, ToolIdleTwo
    <2>8. CASE wire' = wire \o <<g>>
      <3>1. PICK frames : frames = <<g>> OBVIOUS
      <3>2. IsSeq(frames) /\ Len(frames) = 1 /\ frames[1] = g BY <3>1, SeqOne
      <3>3. \A i \in 1..Len(frames) : NoCall(frames[i]) BY <2>6, <3>2
      <3>4. wire' = wire \o frames BY <2>8, <3>1
      <3> QED BY <2>2, <2>3, <3>2, <3>3, <3>4, ToolIdle
    <2> QED BY <2>4, <2>7, <2>8
  <1> QED BY <1>2, <1>3

\* Every step of the loop keeps the invariant.
LEMMA LoopKeeps ==
  ASSUME IInv, LoopNext PROVE IInv'
  <1>1. CASE Prompted BY <1>1, PromptedKept, PromptedTool DEF Kept, IInv
  <1>2. CASE TurnBegins BY <1>2, TurnBeginsKept, TurnBeginsTool DEF Kept, IInv
  <1>3. CASE ProviderStarts BY <1>3, ProviderStartsKept, MessageTool DEF Kept, IInv
  <1>4. CASE Text BY <1>4, TextKept, MessageTool DEF Kept, IInv
  <1>5. CASE Thinking BY <1>5, ThinkingKept, MessageTool DEF Kept, IInv
  <1>6. CASE ToolStarts BY <1>6, ToolStartsKept, MessageTool DEF Kept, IInv
  <1>7. ASSUME NEW index \in loop.open, ToolGrows(index) \/ ToolCloses(index) PROVE IInv'
    <2>1. Kept BY <1>7, ToolGrowsKept, ToolClosesKept
    <2>2. ToolOK' BY <1>7, MessageTool
    <2> QED BY <2>1, <2>2 DEF Kept, IInv
  <1>8. CASE ProviderDone BY <1>8, ProviderDoneKept, MessageTool DEF Kept, IInv
  <1>9. ASSUME NEW message, ProviderFails(message) \/ ProviderBreaks(message) PROVE IInv'
    <2>1. Kept BY <1>9, ProviderFailsKept, ProviderBreaksKept
    <2>2. ToolOK' BY <1>9, MessageTool
    <2> QED BY <2>1, <2>2 DEF Kept, IInv
  <1>15. ASSUME NEW kept \in {Closed, Front(Closed)}, ProviderCutOff(kept) PROVE IInv'
    <2>1. Kept BY <1>15, ProviderCutOffKept
    <2>2. ToolOK' BY <1>15, MessageTool
    <2> QED BY <2>1, <2>2 DEF Kept, IInv
  <1>10. ASSUME NEW known \in BOOLEAN, ToolBegins(known) PROVE IInv'
    BY <1>10, ToolBeginsKept, ToolBeginsTool DEF Kept, IInv
  <1>11. CASE ToolEnds BY <1>11, ToolEndsKept, ToolEndsTool DEF Kept, IInv
  <1>12. CASE ToolsDone BY <1>12, ToolsDoneKept, ToolsDoneTool DEF Kept, IInv
  <1>13. CASE Settles BY <1>13, SettlesKept, EndingTool DEF Kept, IInv
  <1>14. CASE RunFails BY <1>14, RunFailsKept, EndingTool DEF Kept, IInv
  <1> QED BY <1>1, <1>2, <1>3, <1>4, <1>5, <1>6, <1>7, <1>8, <1>9, <1>10, <1>11, <1>12, <1>13,
            <1>14, <1>15 DEF LoopNext

(***************************************************************************)
(* The steps of the client, and those of the catalogue.                    *)
(***************************************************************************)

\* A step that changes nothing of the run.
Idles == setup' = setup /\ loop' = loop /\ finals' = finals

\* What is said of the run is the same.
LEMMA IdlesRun ==
  ASSUME Idles
  PROVE  /\ SaidByRun' = SaidByRun /\ Closed' = Closed /\ StopReason' = StopReason
         /\ Compact' = Compact /\ (LoopOK => LoopOK')
  <1>1. SaidByRun' = SaidByRun /\ Closed' = Closed BY DEF Idles, SaidByRun, Closed
  <1>2. StopReason' = StopReason /\ Compact' = Compact BY DEF Idles, StopReason, Compact
  <1>3. \A f : FinalOK(f)' = FinalOK(f) BY <1>2 DEF FinalOK
  <1>4. LoopOK => LoopOK' BY <1>3 DEF Idles, LoopOK
  <1> QED BY <1>1, <1>2, <1>4

\* A client as it should be stays so.
LEMMA GoodIdles ==
  ASSUME Idles, NEW x, Good(x) PROVE Good(x)'
  <1>1. SaidByRun' = SaidByRun /\ StopReason' = StopReason BY IdlesRun
  <1>2. setup' = setup /\ loop' = loop /\ finals' = finals BY DEF Idles
  <1>3. \A e : EndFacts(e) => EndFacts(e)' BY <1>1, <1>2 DEF EndFacts
  <1>4. \A r : ResponseFacts(r) => ResponseFacts(r)' BY <1>1, <1>2 DEF ResponseFacts
  <1>5. Outcome(x) => Outcome(x)' BY <1>1, <1>2, <1>3, <1>4 DEF Outcome
  <1>6. Over(x) => Over(x)' BY <1>2, <1>5 DEF Over
  <1> QED BY <1>1, <1>2, <1>6 DEF Good

\* A client that has caught up has done so.
LEMMA CaughtUpIdles ==
  ASSUME Idles, NEW x, CaughtUp(x) PROVE CaughtUp(x)'
  <1>1. SaidByRun' = SaidByRun /\ Compact' = Compact /\ Closed' = Closed BY IdlesRun
  <1>2. setup' = setup /\ loop' = loop /\ finals' = finals BY DEF Idles
  <1>3. \A b : Buffered(b) => Buffered(b)' BY <1>2 DEF Buffered
  <1>4. \A sum : Summing(sum) => Summing(sum)' BY <1>1, <1>2 DEF Summing
  <1>5. \A events : Telling(events) => Telling(events)' BY <1>1, <1>2 DEF Telling
  <1> QED BY <1>1, <1>2, <1>3, <1>4, <1>5 DEF CaughtUp

\* A frame read is one the client was known to read well.
LEMMA ClientKeeps ==
  ASSUME IInv, ClientNext PROVE IInv'
  <1>1. SeenOK /\ IsSeq(wire) /\ LoopOK /\ ToolOK BY DEF IInv
  <1>2. /\ wire # <<>> /\ wire' = Tail(wire) /\ setup' = setup /\ loop' = loop /\ finals' = finals
        /\ Client' = After(setup.op, Head(wire), Client) /\ SeenOK'
    BY <1>1, ClientReads
  <1>3. Idles BY <1>2 DEF Idles
  <1>4. PICK n, w, op, y : /\ n = Len(wire) /\ w = Tail(wire) /\ op = setup.op
                           /\ y = After(op, Head(wire), Client)
    OBVIOUS
  <1>5. /\ IsSeq(w) /\ n \in Nat \ {0} /\ Len(w) = n - 1 /\ Head(wire) = wire[1]
        /\ \A i \in 1..(n - 1) : w[i] = wire[i + 1]
    BY <1>1, <1>2, <1>4, SeqTail
  <1>6. PICK ahead : /\ Ahead(op, ahead, wire, Client)
                     /\ \A k \in 0..n : Good(ahead[k])
                     /\ CaughtUp(ahead[n])
    BY <1>4 DEF IInv, ReadingOK
  <1>7. PICK after : /\ Ahead(op, after, w, y)
                     /\ \A k \in 0..(n - 1) : k + 1 \in 0..n /\ after[k] = ahead[k + 1]
    <2>1. \E after :
            /\ Ahead(op, after, Tail(wire), After(op, Head(wire), Client))
            /\ \A k \in 0..Len(Tail(wire)) :
                 k + 1 \in 0..Len(wire) /\ after[k] = ahead[k + 1]
      BY <1>1, <1>2, <1>6, AheadRead
    <2> QED BY <1>4, <1>5, <2>1
  <1>8. ASSUME NEW k \in 0..(n - 1) PROVE Good(after[k])'
    <2>1. Good(ahead[k + 1]) BY <1>6, <1>7
    <2>2. Good(after[k]) BY <1>7, <2>1
    <2> QED BY <1>3, <2>2, GoodIdles
  <1>9. CaughtUp(after[n - 1])'
    <2>1. n - 1 \in 0..(n - 1) /\ (n - 1) + 1 = n BY <1>5
    <2>2. after[n - 1] = ahead[n] BY <1>7, <2>1
    <2>3. CaughtUp(after[n - 1]) BY <1>6, <2>2
    <2> QED BY <1>3, <2>3, CaughtUpIdles
  <1>10. Client' = y /\ wire' = w /\ Len(w) = n - 1 /\ setup'.op = op BY <1>2, <1>4, <1>5
  <1>11. ReadingOK' BY <1>7, <1>8, <1>9, <1>10 DEF ReadingOK
  <1>12. ToolOK'
    <2>1. ASSUME NEW i \in CallsOut'
          PROVE  i + 1 \in CallsOut /\ i \in Nat /\ Head(wire).type # "tool_execute"
      <3>1. i \in 1..(n - 1) /\ w[i].type = "tool_execute" BY <1>10, <2>1 DEF CallsOut
      <3>2. i + 1 \in 1..n /\ i \in Nat /\ i + 1 # 1 /\ 1 \in 1..n BY <1>5, <3>1
      <3>3. wire[i + 1].type = "tool_execute" BY <1>5, <3>1
      <3>4. i + 1 \in CallsOut BY <1>4, <3>2, <3>3 DEF CallsOut
      <3>5. wire[1].type = "tool_execute" => 1 \in CallsOut BY <1>4, <3>2 DEF CallsOut
      <3> QED BY <1>1, <1>5, <3>2, <3>4, <3>5 DEF ToolOK
    <2>2. Head(wire).type = "tool_execute" => CallsOut # {} /\ CallsOut' = {}
      <3>1. 1 \in 1..n BY <1>5
      <3> QED BY <1>4, <1>5, <2>1, <3>1 DEF CallsOut
    <2>3. reply' = reply \/ (Head(wire).type = "tool_execute" /\ reply' = TRUE)
      BY <1>1, ClientReads DEF ClientNext, ReadsToolExecute, ReadsResult, ReadsError, ReadsEvent
    <2>4. \A i, j \in CallsOut' : i = j
      <3>1. \A i, j \in CallsOut : i = j BY <1>1 DEF ToolOK
      <3> QED BY <2>1, <3>1
    <2>5. CallsOut' # {} => CallsOut # {} BY <2>1
    <2>6. CASE reply' = reply BY <1>1, <1>2, <2>4, <2>5, <2>6 DEF ToolOK
    <2>7. CASE Head(wire).type = "tool_execute" /\ reply' = TRUE
      BY <1>1, <1>2, <2>2, <2>4, <2>7 DEF ToolOK
    <2> QED BY <2>3, <2>6, <2>7
  <1>13. LoopOK' BY <1>1, <1>3, IdlesRun
  <1>14. IsSeq(wire') /\ setup'.op \in {"run", "stream", "resolve"} BY <1>2, <1>5, <1>10 DEF IInv
  <1> QED BY <1>2, <1>11, <1>12, <1>13, <1>14 DEF IInv

\* What changes nothing of the run keeps the invariant.
LEMMA RunKept ==
  ASSUME IInv, UNCHANGED runVars PROVE IInv'
  <1>1. /\ setup' = setup /\ loop' = loop /\ finals' = finals /\ wire' = wire
        /\ reply' = reply /\ buffers' = buffers /\ seen' = seen /\ out' = out
    BY DEF runVars
  <1>2. Idles BY <1>1 DEF Idles
  <1>3. Client' = Client /\ SeenOK' BY <1>1 DEF Client, SeenOK, IInv
  <1>4. PICK ahead : /\ Ahead(setup.op, ahead, wire, Client)
                     /\ \A k \in 0..Len(wire) : Good(ahead[k])
                     /\ CaughtUp(ahead[Len(wire)])
    BY DEF IInv, ReadingOK
  <1>5. ASSUME NEW k \in 0..Len(wire) PROVE Good(ahead[k])' BY <1>2, <1>4, GoodIdles
  <1>6. ReadingOK'
    <2>1. PICK last : last = ahead[Len(wire)] OBVIOUS
    <2>2. CaughtUp(last)' BY <1>2, <1>4, <2>1, CaughtUpIdles
    <2> QED BY <1>1, <1>3, <1>4, <1>5, <2>1, <2>2 DEF ReadingOK
  <1>7. ToolOK' BY <1>1 DEF IInv, ToolOK, CallsOut
  <1>8. LoopOK' BY <1>2, IdlesRun DEF IInv
  <1> QED BY <1>1, <1>3, <1>6, <1>7, <1>8 DEF IInv

(***************************************************************************)
(* The invariant holds, and what it implies.                               *)
(***************************************************************************)

\* No messages say nothing.
LEMMA MessagesSayNone == MessagesSay(<<>>) = <<>>
  <1>1. [i \in DOMAIN <<>> |-> SaidIn(<<>>[i].streamed)] = <<>> OBVIOUS
  <1> QED BY <1>1, FlatEmpty DEF MessagesSay

\* The invariant holds at the start.
LEMMA RunBegins ==
  ASSUME Init PROVE IInv
  <1>1. /\ finals = <<>> /\ wire = <<>> /\ reply = FALSE /\ buffers = <<>> /\ out = Pending
        /\ seen = [started |-> FALSE, sum |-> NoUsage, executed |-> FALSE, events |-> <<>>]
        /\ loop = [pc |-> "prompt", content |-> <<>>, open |-> {}, started |-> FALSE,
                   fragments |-> 0, calls |-> 0, next |-> 0, termination |-> ""]
        /\ setup.op \in {"run", "stream", "resolve"}
    BY DEF Init
  <1>2. PICK none : none = <<>> OBVIOUS
  <1>3. IsSeq(none) /\ Len(none) = 0 /\ DOMAIN none = {} BY <1>2, SeqEmpty
  <1>4. /\ loop.pc = "prompt" /\ loop.content = none /\ loop.open = {} /\ loop.started = FALSE
        /\ loop.fragments = 0 /\ loop.calls = 0 /\ loop.next = 0
        /\ loop = [k \in LoopFields |-> loop[k]]
    BY <1>1, <1>2 DEF LoopFields
  <1>5. MaxCalls \in Nat
    <2>1. Len(CallIds) \in Nat BY RunAssumption
    <2> QED BY <2>1, RunAssumption
  <1>6. LoopOK
    <2>1. \E c \in 0..Len(loop.content) : loop.open = (c + 1)..Len(loop.content)
      BY <1>3, <1>4
    <2>2. IsSeq(finals) /\ Len(finals) = 0 BY <1>1, SeqEmpty
    <2>3. \A i \in 1..Len(finals) : FinalOK(finals[i]) BY <2>2
    <2>4. /\ \A i \in 1..Len(loop.content) : loop.content[i] \in LoopParts
          /\ \A i \in loop.open : loop.content[i] \in LoopCalls
          /\ \A i \in 1..Len(loop.content) : loop.content[i].type = "tool_call" => loop.calls > 0
      BY <1>3, <1>4
    <2>5. loop.calls \in 0..MaxCalls BY <1>4, <1>5
    <2>6. /\ loop.pc = "prompt" /\ loop.started \in BOOLEAN /\ loop.fragments \in Nat
          /\ loop.next \in Nat /\ IsSeq(loop.content) /\ loop.content = <<>>
      <3>1. loop.started \in BOOLEAN BY <1>4
      <3>2. loop.fragments \in Nat /\ loop.next \in Nat BY <1>4
      <3>3. loop.pc = "prompt" /\ loop.content = <<>> /\ IsSeq(loop.content)
        BY <1>2, <1>3, <1>4
      <3> QED BY <3>1, <3>2, <3>3
    <2>7. loop = [k \in LoopFields |-> loop[k]] BY <1>4
    <2> QED BY <2>1, <2>2, <2>3, <2>4, <2>5, <2>6, <2>7 DEF LoopOK
  <1>7. SaidByRun = none
    <2>1. MessagesSay(finals) = none BY <1>1, <1>2, MessagesSayNone
    <2>2. Closed = none
      <3>1. PICK c, o, z : c = loop.content /\ o = loop.open /\ z = 0 OBVIOUS
      <3>2. IsSeq(c) /\ Len(c) = 0 /\ o = {} BY <1>3, <1>4, <3>1
      <3>3. PartsOK(c) BY <3>2 DEF PartsOK
      <3>4. z \in 0..Len(c) /\ o = (z + 1)..Len(c) BY <3>1, <3>2
      <3>5. z = Len(c) => ClosedOf(c, o) = c BY <3>3, <3>4, ClosedIs
      <3> QED BY <1>4, <3>1, <3>2, <3>5, RunSays
    <2>3. SaidIn(Closed) = none BY <1>2, <2>2, SaidInNone
    <2>4. none \o none = none BY <1>3, SeqNone
    <2> QED BY <2>1, <2>3, <2>4, RunSays
  <1>8. PICK x : x = Client OBVIOUS
  <1>9. /\ x.buffers = none /\ x.started = FALSE /\ x.sum = NoUsage /\ x.executed = FALSE
        /\ x.events = none /\ x.out = Pending
    <2>1. /\ x.buffers = buffers /\ x.started = seen.started /\ x.sum = seen.sum
          /\ x.executed = seen.executed /\ x.events = seen.events /\ x.out = out
      BY <1>8, ClientHas
    <2> QED BY <1>1, <1>2, <2>1
  <1>10. SaidBy(x.events) = none BY <1>2, <1>9, SaidByNone
  <1>11. Quiet(setup.op, x)
    <2>1. EventsOK(none) BY <1>3 DEF EventsOK
    <2> QED BY <1>2, <1>3, <1>9, <2>1 DEF Quiet, Leads
  <1>12. IsPrefix(SaidBy(x.events), SaidByRun)
    <2>1. none \in Seq(Words) BY <1>2
    <2> QED BY <1>7, <1>10, <2>1, PrefixSame
  <1>13. Good(x) BY <1>9, <1>11, <1>12 DEF Good
  <1>14. CaughtUp(x)
    <2>1. Buffered(x.buffers) BY <1>3, <1>4, <1>9 DEF Buffered
    <2>2. Summing(x.sum) BY <1>1, <1>9 DEF Summing
    <2>3. Telling(x.events) BY <1>1, <1>4 DEF Telling
    <2> QED BY <1>7, <1>10, <1>11, <2>1, <2>2, <2>3 DEF CaughtUp
  <1>15. ReadingOK
    <2>1. PICK ahead : ahead = [k \in {0} |-> x] OBVIOUS
    <2>2. ahead[0] = x /\ Len(wire) = 0 BY <1>1, <2>1
    <2>3. Ahead(setup.op, ahead, wire, x) BY <2>2 DEF Ahead
    <2>4. \A k \in 0..Len(wire) : Good(ahead[k])
      <3>1. \A k \in 0..Len(wire) : k = 0 BY <2>2
      <3> QED BY <1>13, <2>2, <3>1
    <2>5. CaughtUp(ahead[Len(wire)]) BY <1>14, <2>2
    <2> QED BY <1>8, <2>3, <2>4, <2>5 DEF ReadingOK
  <1>16. ToolOK
    <2>1. Len(wire) = 0 BY <1>1, SeqEmpty
    <2>2. CallsOut = {} BY <2>1 DEF CallsOut
    <2> QED BY <1>1, <2>2 DEF ToolOK
  <1>17. SeenOK BY <1>1 DEF SeenOK
  <1> QED BY <1>1, <1>2, <1>3, <1>6, <1>15, <1>16, <1>17 DEF IInv

\* Every step keeps it.
LEMMA RunGoesOn ==
  ASSUME IInv, [Next]_vars PROVE IInv'
  <1>1. CASE LoopNext BY <1>1, LoopKeeps
  <1>2. CASE ClientNext BY <1>2, ClientKeeps
  <1>3. CASE UNCHANGED runVars BY <1>3, RunKept
  <1>4. UNCHANGED vars => UNCHANGED runVars BY DEF vars
  <1>5. Resolving => UNCHANGED runVars BY DEF Resolving
  <1> QED BY <1>1, <1>2, <1>3, <1>4, <1>5 DEF Next

\* The client is the first of those ahead.
LEMMA ClientIsGood ==
  ASSUME IInv
  PROVE  Good(Client) /\ (wire = <<>> => CaughtUp(Client))
  <1>1. PICK ahead : /\ Ahead(setup.op, ahead, wire, Client)
                     /\ \A k \in 0..Len(wire) : Good(ahead[k])
                     /\ CaughtUp(ahead[Len(wire)])
    BY DEF IInv, ReadingOK
  <1>2. ahead[0] = Client BY <1>1 DEF Ahead
  <1>3. Len(wire) \in Nat BY SeqHas DEF IInv
  <1>4. 0 \in 0..Len(wire) BY <1>3
  <1>5. wire = <<>> => Len(wire) = 0 OBVIOUS
  <1> QED BY <1>1, <1>2, <1>4, <1>5

\* What that says of what it has shown and of its result.
LEMMA ClientShows ==
  ASSUME IInv
  PROVE  /\ Quiet(setup.op, Client) \/ Over(Client)
         /\ IsPrefix(SaidByEvents, SaidByRun)
         /\ Shown(seen.events)
         /\ out.kind # "none" => Outcome(Client)
         /\ out.kind = "none" =>
              \A i \in 1..Len(seen.events) : seen.events[i].type \notin Terminal
         /\ out.kind \in {"none", "response", "ended", "raised", "needs_login"}
  <1>1. Good(Client) BY ClientIsGood
  <1>2. Client.events = seen.events /\ Client.out = out BY ClientHas
  <1>3. Quiet(setup.op, Client) \/ Over(Client) BY <1>1 DEF Good
  <1>4. IsPrefix(SaidByEvents, SaidByRun) BY <1>1, <1>2 DEF Good, SaidByEvents
  <1>5. CASE Quiet(setup.op, Client)
    <2>1. Shown(seen.events) BY <1>2, <1>5, ShownQuiet
    <2>2. out.kind = "none" BY <1>2, <1>5 DEF Quiet, Pending
    <2>3. \A i \in 1..Len(seen.events) : seen.events[i].type \notin Terminal
      BY <1>2, <1>5 DEF Quiet
    <2> QED BY <1>3, <1>4, <2>1, <2>2, <2>3
  <1>6. CASE Over(Client)
    <2>1. Outcome(Client) BY <1>6 DEF Over
    <2>2. Shown(seen.events) BY <1>2, <2>1 DEF Outcome, Shown
    <2>3. out.kind \in {"response", "ended", "raised", "needs_login"}
      BY <1>2, <2>1 DEF Outcome
    <2> QED BY <1>3, <1>4, <2>1, <2>2, <2>3
  <1> QED BY <1>3, <1>5, <1>6

\* The invariant implies the types.
LEMMA InvTypes ==
  ASSUME IInv PROVE TypeOK
  <1>1. loop.pc \in {"prompt", "turn", "message", "tools", "executing", "settle", "ended"}
    BY DEF IInv, LoopOK
  <1>2. \A i \in DOMAIN seen.events : seen.events[i].type \in EventTypes
    <2>1. EventsOK(seen.events) BY ClientShows DEF Shown
    <2>2. DOMAIN seen.events = 1..Len(seen.events) BY <2>1, SeqHas DEF EventsOK
    <2> QED BY <2>1, <2>2 DEF EventsOK, EventOK
  <1>3. out.kind \in {"none", "response", "ended", "raised", "needs_login"} BY ClientShows
  <1>4. reply => loop.pc = "executing" BY DEF IInv, ToolOK
  <1>5. wire = <<>> /\ loop.pc \notin {"settle", "ended"} => DOMAIN buffers = loop.open
    <2>1. SUFFICES ASSUME wire = <<>>, loop.pc \notin {"settle", "ended"}
                   PROVE  DOMAIN buffers = loop.open
      OBVIOUS
    <2>2. CaughtUp(Client) BY <2>1, ClientIsGood
    <2>3. Client.buffers = buffers BY ClientHas
    <2> QED BY <2>1, <2>2, <2>3 DEF CaughtUp, Buffered
  <1> QED BY <1>1, <1>2, <1>3, <1>4, <1>5 DEF TypeOK

\* A stream that has shown the end of the run has shown all of it.
LEMMA EndIsShown ==
  ASSUME IInv, ShownEnd
  PROVE  SaidByEvents = SaidByRun /\ EndFacts(Last(seen.events))
  <1>1. out.kind = "ended" /\ Last(seen.events).type = "agent_end" BY DEF ShownEnd
  <1>2. out.kind # "none" BY <1>1
  <1>3. Outcome(Client) BY <1>2, ClientShows
  <1>4. Client.events = seen.events /\ Client.out = out BY ClientHas
  <1> QED BY <1>1, <1>3, <1>4 DEF Outcome, SaidByEvents

\* The invariant implies what a stream promises.
LEMMA InvShows ==
  ASSUME IInv PROVE StreamShowsRun /\ StreamUsageIsSum
  <1>1. IsPrefix(SaidByEvents, SaidByRun) /\ Shown(seen.events) BY ClientShows
  <1>2. DOMAIN seen.events = 1..Len(seen.events) BY <1>1, SeqHas DEF Shown, EventsOK
  <1>3. ASSUME NEW i \in DOMAIN seen.events, seen.events[i].type \in {"agent_end", "error"}
        PROVE  i = Len(seen.events) /\ out.kind # "none"
    <2>1. i = Len(seen.events) BY <1>1, <1>2, <1>3 DEF Shown, Terminal
    <2>2. out.kind # "none" BY <1>2, <1>3, ClientShows DEF Terminal
    <2> QED BY <2>1, <2>2
  <1>4. setup.op = "stream" /\ seen.events # <<>> => Head(seen.events).type = "agent_start"
    BY <1>1, SeqTail DEF Shown, EventsOK
  <1>5. ASSUME ShownEnd PROVE SaidByEvents = SaidByRun /\ EndFacts(Last(seen.events))
    BY <1>5, EndIsShown
  <1>6. StreamShowsRun BY <1>1, <1>3, <1>4, <1>5 DEF StreamShowsRun, EndFacts
  <1>7. StreamUsageIsSum BY <1>5 DEF StreamUsageIsSum, EndFacts
  <1> QED BY <1>6, <1>7

\* The invariant implies what a response promises.
LEMMA InvTells ==
  ASSUME IInv PROVE ResponseIsFinalMessage
  <1>1. Client.out = out BY ClientHas
  <1>2. out.kind = "response" => ResponseFacts(out.response)
    <2>1. out.kind = "response" => Outcome(Client) BY ClientShows
    <2> QED BY <1>1, <2>1 DEF Outcome
  <1>3. out.kind = "needs_login" => loop.calls > 0
    <2>1. out.kind = "needs_login" => Outcome(Client) BY ClientShows
    <2> QED BY <1>1, <2>1 DEF Outcome
  <1> QED BY <1>2, <1>3 DEF ResponseIsFinalMessage, ResponseFacts

\* The inductive invariant holds in every reachable state: whatever a client has
\* read so far, and whatever the loop has sent that it has not, it will be told what
\* the providers streamed, however they fail (runLoop, pumpAgentRuns, _session).
THEOREM RunInvariant == Spec => []IInv
  <1>1. Init => IInv BY RunBegins
  <1>2. IInv /\ [Next]_vars => IInv' BY RunGoesOn
  <1> QED BY <1>1, <1>2, PTL DEF Spec

\* The loop, the frames on the wire, what _session buffers and what the client
\* has keep their types, for any schedule of calls and fragments that the
\* constants allow and any order in which the loop runs and the client reads.
THEOREM RunTypeCorrect == Spec => []TypeOK
  <1>1. IInv => TypeOK BY InvTypes
  <1> QED BY <1>1, RunInvariant, PTL

\* A stream shows what the providers streamed and nothing else, in that order (_session
\* and execution.stream): at any moment a prefix of it, and all of it once the stream
\* has shown the agent_end of a run that settled, also of a turn that broke off.
THEOREM StreamShowsRunHolds == Spec => []StreamShowsRun
  <1>1. IInv => StreamShowsRun BY InvShows
  <1> QED BY <1>1, RunInvariant, PTL

\* The agent_end a stream shows counts the tokens of all the run's turns, added
\* up by stream from the message_end events, or read from the result.
THEOREM StreamUsageIsSumHolds == Spec => []StreamUsageIsSum
  <1>1. IInv => StreamUsageIsSum BY InvShows
  <1> QED BY <1>1, RunInvariant, PTL

\* The response of a run holds the run's last message, no more and no less: its
\* content, usage, stop reason, error message and model, whether it is read from
\* the agent_result or built from the events (build_response).
THEOREM ResponseIsFinalMessageHolds == Spec => []ResponseIsFinalMessage
  <1>1. IInv => ResponseIsFinalMessage BY InvTells
  <1> QED BY <1>1, RunInvariant, PTL

(***************************************************************************)
(* The catalogue: model refs, and what resolve returns.                    *)
(***************************************************************************)

\* A separator is found where it first stands.
LEMMA FindIs ==
  ASSUME NEW ref, NEW separator, NEW n \in 1..Len(ref), Len(ref) \in Nat,
         ref[n] = separator, \A i \in 1..(n - 1) : ref[i] # separator
  PROVE  Find(ref, separator) = n
  <1> DEFINE I == {i \in 1..Len(ref) : ref[i] = separator}
  <1>1. n \in I /\ \A i \in I : n <= i
    <2> SUFFICES ASSUME NEW i \in I PROVE n <= i OBVIOUS
    <2>1. i \notin 1..(n - 1) OBVIOUS
    <2> QED BY <2>1
  <1>2. \A x \in I : (\A y \in I : x <= y) => x = n BY <1>1
  <1>3. Min(I) = n BY <1>1, <1>2 DEF Min
  <1>4. Find(ref, separator) = IF I # {} THEN Min(I) ELSE 0 BY DEF Find, SelectInSeq
  <1> QED BY <1>1, <1>3, <1>4

\* A model id without escapes is encoded as itself, and decoded as itself.
LEMMA Encoded ==
  ASSUME NEW id, IsSeq(id), id # <<>>, ToSet(id) \cap Escapes = {}
  PROVE  /\ IsSeq(EncodeModelId(id)) /\ Len(EncodeModelId(id)) = Len(id)
         /\ IsEncoded(EncodeModelId(id)) /\ Unquote(EncodeModelId(id)) = id
  <1> DEFINE e == EncodeModelId(id)
  <1>1. DOMAIN Escape = {"/", "@", "%"} /\ Escape["/"] = "%2F" /\ Escape["@"] = "%40"
        /\ Escape["%"] = "%25"
    BY DEF Escape
  <1>2. DOMAIN id = 1..Len(id) /\ Len(id) \in Nat BY SeqHas
  <1>3. e = [i \in 1..Len(id) |-> IF id[i] \in DOMAIN Escape THEN Escape[id[i]] ELSE id[i]]
    BY <1>2 DEF EncodeModelId
  <1>4. \A i \in 1..Len(id) : id[i] \notin Escapes BY <1>2 DEF ToSet
  <1>5. \A i \in 1..Len(id) : e[i] \notin DOMAIN Escape BY <1>1, <1>2, <1>3
  <1>6. \A c \in DOMAIN Escape : (CHOOSE d \in DOMAIN Escape : Escape[d] = Escape[c]) = c
    BY <1>1
  <1>7. \A c \in DOMAIN Escape : Escape[c] \in Escapes BY <1>1 DEF Escapes
  <1> HIDE DEF e
  <1>8. IsSeq(e) /\ Len(e) = Len(id) /\ DOMAIN e = 1..Len(id)
    <2>1. e = [i \in 1..Len(id) |-> e[i]] BY <1>3
    <2> QED BY <1>2, <1>3, <2>1, SeqMade
  <1>9. IsEncoded(e)
    <2>1. e # <<>>
      <3>1. Len(id) # 0
        <4>1. id = <<>> \/ Len(id) # 0 BY SeqEmpty, SeqSame
        <4> QED BY <4>1
      <3> QED BY <1>8, <3>1, SeqEmpty
    <2>2. ToSet(e) \cap DOMAIN Escape = {} BY <1>5, <1>8 DEF ToSet
    <2> QED BY <2>1, <2>2 DEF IsEncoded
  <1>10. Unquote(e) = id
    <2>1. Unquote(e) = [i \in 1..Len(id) |->
                IF e[i] \in Escapes THEN CHOOSE c \in DOMAIN Escape : Escape[c] = e[i] ELSE e[i]]
      BY <1>8 DEF Unquote
    <2>2. ASSUME NEW i \in 1..Len(id) PROVE Unquote(e)[i] = id[i]
      <3>1. CASE id[i] \in DOMAIN Escape
        <4>1. e[i] = Escape[id[i]] BY <1>3, <3>1
        <4>2. e[i] \in Escapes BY <1>7, <3>1, <4>1
        <4>3. Unquote(e)[i] = CHOOSE c \in DOMAIN Escape : Escape[c] = Escape[id[i]]
          BY <2>1, <4>1, <4>2
        <4> QED BY <1>6, <3>1, <4>3
      <3>2. CASE id[i] \notin DOMAIN Escape
        <4>1. e[i] = id[i] BY <1>3, <3>2
        <4> QED BY <1>4, <2>1, <4>1
      <3> QED BY <3>1, <3>2
    <2> HIDE DEF Unquote
    <2>3. id = [i \in 1..Len(id) |-> id[i]] BY SeqHas
    <2>4. Unquote(e) = [i \in 1..Len(id) |-> Unquote(e)[i]] BY <2>1
    <2> QED BY <2>2, <2>3, <2>4
  <1> QED BY <1>8, <1>9, <1>10 DEF e

\* A model ref is split into what it was made of.
LEMMA SplitOfFormat ==
  ASSUME NEW p, NEW a, NEW id, IsSeq(p), IsSeq(a), IsSeq(id),
         IsSegment(p), IsSegment(a), id # <<>>, ToSet(id) \cap Escapes = {}
  PROVE  SplitModelRef(FormatModelRef(p, a, id)) = <<p, a, id>>
  <1>1. PICK e : e = EncodeModelId(id) OBVIOUS
  <1>2. IsSeq(e) /\ IsEncoded(e) /\ Unquote(e) = id BY <1>1, Encoded
  <1>3. PICK ref : ref = p \o <<"/">> \o a \o <<"@">> \o e OBVIOUS
  <1>4. FormatModelRef(p, a, id) = ref BY <1>1, <1>3 DEF FormatModelRef
  <1>5. PICK s : s = "/" OBVIOUS
  <1>6. PICK t : t = "@" /\ s # t BY <1>5
  <1>7. /\ \A i \in 1..Len(p) : p[i] # s /\ p[i] # t
        /\ \A i \in 1..Len(a) : a[i] # s /\ a[i] # t
    <2>1. {s, t} \subseteq DOMAIN Escape BY <1>5, <1>6 DEF Escape
    <2>2. \A x \in {p, a} : \A i \in 1..Len(x) : x[i] \in ToSet(x) BY SeqHas DEF ToSet
    <2> QED BY <2>1, <2>2 DEF IsSegment
  <1>8. ref = p \o <<s>> \o a \o <<t>> \o e BY <1>3, <1>5, <1>6
  <1>9. PICK n, m : n = Len(p) + 1 /\ m = n + Len(a) + 1 OBVIOUS
  <1>10. n \in Nat /\ m \in Nat /\ n < m /\ n >= 1 /\ Len(p) \in Nat /\ Len(a) \in Nat
    BY <1>9, SeqHas
  <1>11. PICK h : h = p \o <<s>> OBVIOUS
  <1>12. IsSeq(h) /\ Len(h) = n /\ h[n] = s /\ \A i \in 1..Len(p) : h[i] = p[i]
    <2>1. IsSeq(<<s>>) /\ Len(<<s>>) = 1 /\ <<s>>[1] = s BY SeqOne
    <2>2. PICK u : u = <<s>> OBVIOUS
    <2>3. IsSeq(u) /\ Len(u) = 1 /\ u[1] = s BY <2>1, <2>2
    <2>4. h = p \o u BY <1>11, <2>2
    <2>5. /\ IsSeq(h) /\ Len(h) = Len(p) + Len(u)
          /\ \A i \in 1..Len(p) : h[i] = p[i]
          /\ \A i \in 1..Len(u) : h[Len(p) + i] = u[i]
      <3>1. IsSeq(h) /\ Len(h) = Len(p) + Len(u) BY <2>3, <2>4, SeqJoin
      <3>2. \A i \in 1..Len(p) : h[i] = p[i] BY <2>3, <2>4, SeqJoin
      <3>3. IsSeq(u) BY <2>3
      <3>4. \A i \in 1..Len(u) : h[Len(p) + i] = u[i] BY <3>3, <2>4, SeqJoin
      <3> QED BY <3>1, <3>2, <3>4
    <2>6. 1 \in 1..Len(u) BY <2>3
    <2>7. h[Len(p) + 1] = s BY <2>3, <2>5, <2>6
    <2> QED BY <1>9, <2>3, <2>5, <2>7
  <1>13. PICK k : k = h \o a OBVIOUS
  <1>14. IsSeq(k) /\ Len(k) = m - 1 /\ (\A i \in 1..n : k[i] = h[i])
         /\ \A i \in 1..Len(a) : k[n + i] = a[i]
    <2>1. /\ IsSeq(k) /\ Len(k) = Len(h) + Len(a)
          /\ \A i \in 1..Len(h) : k[i] = h[i]
          /\ \A i \in 1..Len(a) : k[Len(h) + i] = a[i]
      <3>1. IsSeq(k) /\ Len(k) = Len(h) + Len(a) BY <1>12, <1>13, SeqJoin
      <3>2. \A i \in 1..Len(h) : k[i] = h[i] BY <1>12, <1>13, SeqJoin
      <3>3. \A i \in 1..Len(a) : k[Len(h) + i] = a[i] BY <1>12, <1>13, SeqJoin
      <3> QED BY <3>1, <3>2, <3>3
    <2>2. Len(h) + Len(a) = m - 1 BY <1>9, <1>10, <1>12
    <2> QED BY <1>12, <2>1, <2>2
  <1>15. PICK l : l = k \o <<t>> OBVIOUS
  <1>16. IsSeq(l) /\ Len(l) = m /\ l[m] = t /\ \A i \in 1..(m - 1) : l[i] = k[i]
    <2>1. PICK u : u = <<t>> OBVIOUS
    <2>2. IsSeq(u) /\ Len(u) = 1 /\ u[1] = t BY <2>1, SeqOne
    <2>3. l = k \o u BY <1>15, <2>1
    <2>4. /\ IsSeq(l) /\ Len(l) = Len(k) + Len(u)
          /\ \A i \in 1..Len(k) : l[i] = k[i]
          /\ \A i \in 1..Len(u) : l[Len(k) + i] = u[i]
      <3>1. IsSeq(l) /\ Len(l) = Len(k) + Len(u) BY <1>14, <2>2, <2>3, SeqJoin
      <3>2. \A i \in 1..Len(k) : l[i] = k[i] BY <1>14, <2>2, <2>3, SeqJoin
      <3>3. IsSeq(u) /\ IsSeq(k) BY <1>14, <2>2
      <3>4. \A i \in 1..Len(u) : l[Len(k) + i] = u[i] BY <3>3, <2>3, SeqJoin
      <3> QED BY <3>1, <3>2, <3>4
    <2>5. Len(k) = m - 1 /\ Len(k) + 1 = m /\ 1 \in 1..Len(u) BY <1>10, <1>14, <2>2
    <2>6. l[m] = t BY <2>2, <2>4, <2>5
    <2> QED BY <2>2, <2>4, <2>5, <2>6
  <1>17. ref = l \o e BY <1>8, <1>11, <1>13, <1>15
  <1>18. IsSeq(ref) /\ Len(ref) = m + Len(e) /\ (\A i \in 1..m : ref[i] = l[i])
         /\ (\A i \in 1..Len(e) : ref[m + i] = e[i]) /\ Len(e) \in Nat /\ Len(ref) \in Nat
    <2>1. /\ IsSeq(ref) /\ Len(ref) = Len(l) + Len(e)
          /\ \A i \in 1..Len(l) : ref[i] = l[i]
          /\ \A i \in 1..Len(e) : ref[Len(l) + i] = e[i]
      <3>1. IsSeq(ref) /\ Len(ref) = Len(l) + Len(e) BY <1>2, <1>16, <1>17, SeqJoin
      <3>2. \A i \in 1..Len(l) : ref[i] = l[i] BY <1>2, <1>16, <1>17, SeqJoin
      <3>3. \A i \in 1..Len(e) : ref[Len(l) + i] = e[i] BY <1>2, <1>16, <1>17, SeqJoin
      <3> QED BY <3>1, <3>2, <3>3
    <2>2. Len(e) \in Nat /\ Len(ref) \in Nat BY <1>2, <2>1, SeqHas
    <2> QED BY <1>16, <2>1, <2>2
  <1>19. /\ \A i \in 1..(n - 1) : ref[i] = p[i]
         /\ \A i \in 1..Len(a) : ref[n + i] = a[i]
         /\ ref[n] = s /\ ref[m] = t
    <2>1. \A i \in 1..(n - 1) : i \in 1..Len(p) /\ i \in 1..n /\ i \in 1..(m - 1) /\ i \in 1..m
      BY <1>9, <1>10
    <2>2. \A i \in 1..Len(a) : n + i \in 1..(m - 1) /\ n + i \in 1..m BY <1>9, <1>10
    <2>3. n \in 1..n /\ n \in 1..(m - 1) /\ n \in 1..m /\ m \in 1..m BY <1>10
    <2> QED BY <1>12, <1>14, <1>16, <1>18, <2>1, <2>2, <2>3
  <1>20. Find(ref, s) = n
    <2>1. \A i \in 1..(n - 1) : ref[i] # s BY <1>7, <1>9, <1>19
    <2>2. n \in 1..Len(ref) /\ Len(ref) \in Nat BY <1>2, <1>10, <1>18
    <2> QED BY <1>19, <2>1, <2>2, FindIs
  <1>21. Find(ref, t) = m
    <2>1. ASSUME NEW i \in 1..(m - 1) PROVE ref[i] # t
      <3>1. CASE i < n BY <1>7, <1>9, <1>10, <1>19, <3>1
      <3>2. CASE i = n BY <1>6, <1>19, <3>2
      <3>3. CASE i > n
        <4>1. PICK j : j = i - n OBVIOUS
        <4>2. j \in 1..Len(a) /\ i = n + j BY <1>9, <1>10, <3>3, <4>1
        <4> QED BY <1>7, <1>19, <4>2
      <3> QED BY <1>10, <3>1, <3>2, <3>3
    <2>2. m \in 1..Len(ref) /\ Len(ref) \in Nat BY <1>2, <1>10, <1>18
    <2> QED BY <1>19, <2>1, <2>2, FindIs
  <1>22. SubSeq(ref, 1, n - 1) = p
    <2>1. PICK q : q = SubSeq(ref, 1, n - 1) OBVIOUS
    <2>2. 1 \in Nat \ {0} /\ n - 1 \in Nat /\ 1 <= (n - 1) + 1 /\ n - 1 <= Len(ref)
          /\ (n - 1) - 1 + 1 = n - 1
      BY <1>10, <1>18
    <2>3. IsSeq(q) /\ Len(q) = n - 1 /\ \A i \in 1..(n - 1) : q[i] = ref[(1 - 1) + i]
      BY <1>18, <2>1, <2>2, SeqSub
    <2>4. Len(q) = Len(p) /\ \A i \in 1..Len(q) : q[i] = p[i] BY <1>9, <1>10, <1>19, <2>3
    <2> QED BY <2>1, <2>3, <2>4, SeqSame
  <1>23. SubSeq(ref, n + 1, m - 1) = a
    <2>1. PICK j, k0 : j = n + 1 /\ k0 = m - 1 OBVIOUS
    <2>2. PICK q : q = SubSeq(ref, j, k0) OBVIOUS
    <2>3. j \in Nat \ {0} /\ k0 \in Nat /\ j <= k0 + 1 /\ k0 <= Len(ref)
          /\ k0 - j + 1 = Len(a) /\ j - 1 = n
      BY <1>9, <1>10, <1>18, <2>1
    <2>4. IsSeq(q) /\ Len(q) = k0 - j + 1 /\ \A i \in 1..(k0 - j + 1) : q[i] = ref[(j - 1) + i]
      BY <1>18, <2>2, <2>3, SeqSub
    <2>5. Len(q) = Len(a) /\ \A i \in 1..Len(q) : q[i] = a[i] BY <1>19, <2>3, <2>4
    <2> QED BY <2>1, <2>2, <2>4, <2>5, SeqSame
  <1>24. SubSeq(ref, m + 1, Len(ref)) = e
    <2>1. PICK j, k0 : j = m + 1 /\ k0 = Len(ref) OBVIOUS
    <2>2. PICK q : q = SubSeq(ref, j, k0) OBVIOUS
    <2>3. j \in Nat \ {0} /\ k0 \in Nat /\ j <= k0 + 1
          /\ k0 <= Len(ref) /\ k0 - j + 1 = Len(e) /\ j - 1 = m
      BY <1>10, <1>18, <2>1
    <2>4. IsSeq(q) /\ Len(q) = k0 - j + 1 /\ \A i \in 1..(k0 - j + 1) : q[i] = ref[(j - 1) + i]
      BY <1>18, <2>2, <2>3, SeqSub
    <2>5. Len(q) = Len(e) /\ \A i \in 1..Len(q) : q[i] = e[i] BY <1>18, <2>3, <2>4
    <2> QED BY <1>2, <2>1, <2>2, <2>4, <2>5, SeqSame
  <1>25. Segments(ref) = <<p, a, e>>
    <2>1. Find(ref, "/") = n /\ Find(ref, "@") = m BY <1>5, <1>6, <1>20, <1>21
    <2>2. ~(n = 0 \/ m < n) BY <1>10
    <2> QED BY <1>22, <1>23, <1>24, <2>1, <2>2 DEF Segments
  <1>26. IsCanonical(Segments(ref)) BY <1>2, <1>25 DEF IsCanonical
  <1>27. SplitModelRef(ref) = <<p, a, Unquote(e)>> BY <1>25, <1>26 DEF SplitModelRef
  <1> QED BY <1>2, <1>4, <1>27

\* The entries whose ref is shown carry the names of the catalogue's.
LEMMA WithRefKeeps ==
  ASSUME NEW entries \in Catalogs, NEW i \in DOMAIN entries, NEW model, model = entries[i]
  PROVE  LET shown == WithRef(model) IN
         /\ shown.provider_id = model.provider_id /\ shown.api = model.api
         /\ shown.model_id = model.model_id
         /\ SplitModelRef(shown.model_ref) \in
              {<<>>, <<model.provider_id, model.api, model.model_id>>}
  <1> DEFINE shown == WithRef(model)
             names == <<model.provider_id, model.api, model.model_id>>
  <1>1. model \in [provider_id : Seq(STRING), api : Seq(STRING), model_id : Seq(STRING),
                   lifecycle : STRING, model_ref : Seq(STRING)]
    <2>1. PICK S : S = [provider_id : Seq(STRING), api : Seq(STRING), model_id : Seq(STRING),
                        lifecycle : STRING, model_ref : Seq(STRING)]
      OBVIOUS
    <2>2. entries \in Seq(S) BY <2>1, CatalogsAssumption
    <2>3. model \in S BY <2>2
    <2> QED BY <2>1, <2>3
  <1>2. /\ {model.provider_id, model.api, model.model_id} \subseteq Seq(STRING)
        /\ IsSegment(model.provider_id) /\ IsSegment(model.api)
        /\ model.model_id # <<>> /\ ToSet(model.model_id) \cap Escapes = {}
        /\ SplitModelRef(model.model_ref) \in {<<>>, names}
    BY <1>1, CatalogsAssumption
  <1>3. CASE model.model_ref # <<>> BY <1>2, <1>3 DEF WithRef
  <1>4. CASE model.model_ref = <<>>
    <2>1. PICK ref : ref = FormatModelRef(model.provider_id, model.api, model.model_id) OBVIOUS
    <2>2. shown = [model EXCEPT !.model_ref = ref] BY <1>4, <2>1 DEF WithRef
    <2>3. shown.provider_id = model.provider_id /\ shown.api = model.api
          /\ shown.model_id = model.model_id
      BY <1>1, <2>2
    <2>4. IsSeq(model.provider_id) /\ IsSeq(model.api) /\ IsSeq(model.model_id)
      BY <1>2, SeqIn
    <2>5. SplitModelRef(ref) = names BY <1>2, <2>1, <2>4, SplitOfFormat
    <2>6. shown.model_ref = ref BY <1>1, <2>2
    <2> QED BY <2>3, <2>5, <2>6
  <1> QED BY <1>3, <1>4

\* The entries a request asks for are those shown to it.
LEMMA WantedIs ==
  ASSUME NEW request, catalog \in Catalogs
  PROVE  /\ Filtered(request) = [i \in Wanted(request) |-> WithRef(catalog[i])]
         /\ IsFiniteSet(Wanted(request))
         /\ Wanted(request) = {} => Cardinality(Wanted(request)) = 0
         /\ Cardinality(Wanted(request)) = 1 => \E i : Wanted(request) = {i}
  <1>1. Wanted(request) = {i \in DOMAIN catalog : Matches(request, catalog[i])}
    BY DEF Wanted, Matches
  <1>2. Filtered(request) = [i \in Wanted(request) |-> WithRef(catalog[i])]
    BY <1>1 DEF Filtered
  <1>3. PICK W : W = Wanted(request) OBVIOUS
  <1>4. IsFiniteSet(DOMAIN catalog)
    <2>1. PICK S : S = [provider_id : Seq(STRING), api : Seq(STRING), model_id : Seq(STRING),
                        lifecycle : STRING, model_ref : Seq(STRING)]
      OBVIOUS
    <2>2. catalog \in Seq(S) BY <2>1, CatalogsAssumption
    <2>3. DOMAIN catalog = 1..Len(catalog) /\ Len(catalog) \in Nat BY <2>2
    <2>4. IsFiniteSet(1..Len(catalog)) BY <2>3, FS_Interval
    <2> QED BY <2>3, <2>4
  <1>5. W \subseteq DOMAIN catalog BY <1>1, <1>3
  <1>6. IsFiniteSet(W) BY <1>4, <1>5, FS_Subset
  <1>7. W = {} => Cardinality(W) = 0 BY FS_EmptySet
  <1>8. Cardinality(W) = 1 => \E i : W = {i} BY <1>6, FS_Singleton
  <1> QED BY <1>2, <1>3, <1>6, <1>7, <1>8

\* The inductive invariant of the catalogue: the reply is the one to the request.
CatalogInv ==
  /\ catalog \in Catalogs
  /\ resolving.pc = "answered" => resolving.reply = ModelsReply(resolving.request)
  /\ ResolvedIsOnly

\* No entry has an empty name.
LEMMA NamedNothing ==
  ASSUME NEW request, catalog \in Catalogs, request.provider_id = <<>> \/ request.model_id = <<>>
  PROVE  Cardinality(Wanted(request)) # 1
  <1>1. ASSUME NEW i \in Wanted(request) PROVE FALSE
    <2>1. i \in DOMAIN catalog /\ catalog[i].provider_id = request.provider_id
          /\ catalog[i].model_id = request.model_id
      BY <1>1 DEF Wanted
    <2>2. catalog[i].provider_id # <<>> /\ catalog[i].model_id # <<>>
      BY <2>1, CatalogsAssumption DEF IsSegment
    <2> QED BY <2>1, <2>2
  <1>2. Wanted(request) = {} BY <1>1
  <1>3. Cardinality(Wanted(request)) = 0 BY <1>2, WantedIs
  <1> QED BY <1>3

\* What is raised with invalid_request is raised because it is not one entry.
LEMMA RaisedOK ==
  ASSUME NEW code, NEW request, catalog' = catalog, catalog \in Catalogs,
         resolving' = RaisedError(code, request),
         code = "invalid_request" => Cardinality(Wanted(request)) # 1
  PROVE  CatalogInv'
  <1>1. resolving'.pc = "raised" /\ resolving'.code = code /\ resolving'.request = request
    BY DEF RaisedError
  <1>2. Wanted(request)' = Wanted(request) BY DEF Wanted
  <1>3. ResolvedIsOnly' BY <1>1, <1>2 DEF ResolvedIsOnly, Wanted
  <1> QED BY <1>1, <1>3 DEF CatalogInv

\* The client that reads the reply returns the one entry, or raises.
LEMMA ReadsReply ==
  ASSUME CatalogInv, DispatchReads
  PROVE  CatalogInv'
  <1>1. PICK request, answer : request = resolving.request /\ answer = resolving.reply OBVIOUS
  <1>2. catalog \in Catalogs /\ catalog' = catalog /\ answer = ModelsReply(request)
    BY <1>1 DEF CatalogInv, DispatchReads
  <1>3. PICK models : models = Filtered(request) OBVIOUS
  <1>4. resolving' = IF answer.kind = "nack" THEN RaisedError(answer.code, request)
                     ELSE IF Malformed(answer.models) THEN RaisedError("malformed_response", request)
                     ELSE Resolved(request, answer.models)
    BY <1>1 DEF DispatchReads
  <1>5. PICK W : W = Wanted(request) OBVIOUS
  <1>6. /\ IsFiniteSet(W) /\ (W = {} => Cardinality(W) = 0)
        /\ Cardinality(W) = 1 => \E i : W = {i}
        /\ models = [i \in W |-> WithRef(catalog[i])] /\ DOMAIN models = W
    BY <1>2, <1>3, <1>5, WantedIs
  <1>7. CASE W = {} \/ (request.api = <<>> /\ Cardinality(W) > 1)
    <2>1. answer = Nacked("invalid_request") BY <1>2, <1>3, <1>6, <1>7 DEF ModelsReply
    <2>2. resolving' = RaisedError("invalid_request", request) BY <1>4, <2>1 DEF Nacked
    <2>3. Cardinality(W) # 1
      <3>1. Cardinality(W) \in Nat BY <1>6, FS_CardinalityType
      <3> QED BY <1>6, <1>7, <3>1
    <2> QED BY <1>2, <1>5, <2>2, <2>3, RaisedOK
  <1>8. CASE ~(W = {} \/ (request.api = <<>> /\ Cardinality(W) > 1))
    <2>1. answer = [kind |-> "models", models |-> models]
      BY <1>2, <1>3, <1>6, <1>8 DEF ModelsReply
    <2>2. answer.kind # "nack" /\ answer.models = models BY <2>1
    <2>3. CASE Malformed(models)
      <3>1. resolving' = RaisedError("malformed_response", request) BY <1>4, <2>2, <2>3
      <3> QED BY <1>2, <3>1, RaisedOK
    <2>4. CASE ~Malformed(models)
      <3>1. resolving' = Resolved(request, models) BY <1>4, <2>2, <2>4
      <3>2. CASE Cardinality(W) # 1
        <4>1. resolving' = RaisedError("invalid_request", request)
          BY <1>6, <3>1, <3>2 DEF Resolved
        <4> QED BY <1>2, <1>5, <3>2, <4>1, RaisedOK
      <3>3. CASE Cardinality(W) = 1
        <4>1. PICK i : W = {i} BY <1>6, <3>3
        <4>2. PICK model, entry : model = WithRef(entry) /\ entry = catalog[i] OBVIOUS
        <4>3. models[CHOOSE j \in DOMAIN models : TRUE] = model
          <5>1. (CHOOSE j \in W : TRUE) = i BY <4>1
          <5> QED BY <1>6, <4>1, <4>2, <5>1
        <4>4. /\ i \in DOMAIN catalog /\ entry.provider_id = request.provider_id
              /\ entry.model_id = request.model_id /\ request.api \in {<<>>, entry.api}
          BY <1>5, <4>1, <4>2 DEF Wanted
        <4>5. /\ model.provider_id = entry.provider_id /\ model.api = entry.api
              /\ model.model_id = entry.model_id
              /\ SplitModelRef(model.model_ref) \in
                   {<<>>, <<entry.provider_id, entry.api, entry.model_id>>}
          BY <1>2, <4>2, <4>4, WithRefKeeps
        <4>6. resolving' = [pc |-> "resolved", request |-> request, model |-> model]
          BY <1>6, <3>1, <3>3, <4>3, <4>4, <4>5 DEF Resolved
        <4>7. resolving'.pc = "resolved" /\ resolving'.request = request
              /\ resolving'.model = model
          BY <4>6
        <4>8. Wanted(request)' = W /\ catalog' = catalog BY <1>2, <1>5 DEF Wanted
        <4>9. /\ Cardinality(Wanted(request)') = 1
              /\ \A j \in Wanted(request)' : WithRef(catalog'[j]) = model
          BY <3>3, <4>1, <4>2, <4>8
        <4>10. SplitModelRef(model.model_ref) # <<>> =>
                 ModelFromRef(model.model_ref) =
                   [id |-> model.model_id, api |-> model.api, provider |-> model.provider_id]
          BY <4>5 DEF ModelFromRef
        <4>11. ResolvedIsOnly' BY <4>7, <4>9, <4>10 DEF ResolvedIsOnly, Wanted
        <4> QED BY <1>2, <4>7, <4>11 DEF CatalogInv
      <3> QED BY <3>2, <3>3
    <2> QED BY <2>3, <2>4
  <1> QED BY <1>7, <1>8

\* A run leaves the catalogue alone.
LEMMA RunKeepsCatalog ==
  ASSUME LoopNext \/ ClientNext
  PROVE  UNCHANGED catalogVars
  <1>1. CASE LoopNext
    BY <1>1 DEF LoopNext, Prompted, TurnBegins, ProviderStarts, Text, Thinking, ToolStarts,
      ToolGrows, ToolCloses, ProviderDone, ProviderFails, ProviderBreaks, ProviderCutOff,
      ToolBegins, ToolEnds, ToolsDone, Settles, RunFails, LoopStep, Running
  <1>2. CASE ClientNext
    BY <1>2 DEF ClientNext, ReadsToolExecute, ReadsResult, ReadsError, ReadsEvent, Reads, Running
  <1> QED BY <1>1, <1>2

\* What leaves it alone keeps its invariant.
LEMMA CatalogKept ==
  ASSUME CatalogInv, UNCHANGED catalogVars
  PROVE  CatalogInv'
  BY DEF CatalogInv, catalogVars, ResolvedIsOnly, Wanted, ModelsReply, Filtered

\* A model that resolve returns is the one catalogue entry that matches all
\* that was asked for, and an invalid_request is raised only when there is not
\* exactly one (models.resolve).
THEOREM ResolvedIsOnlyHolds == Spec => []ResolvedIsOnly
  <1>1. Init => CatalogInv
    <2>1. Init => catalog \in Catalogs /\ resolving = [pc |-> "idle"]
      <3>1. Init => CatalogInit BY DEF Init
      <3> QED BY <3>1 DEF CatalogInit
    <2>2. Init => catalog \in Catalogs /\ resolving.pc = "idle" BY <2>1
    <2> QED BY <2>2 DEF CatalogInv, ResolvedIsOnly
  <1>2. ASSUME CatalogInv, [Next]_vars PROVE CatalogInv'
    <2>1. CASE UNCHANGED vars BY <1>2, <2>1, CatalogKept DEF vars
    <2>2. CASE LoopNext \/ ClientNext BY <1>2, <2>2, RunKeepsCatalog, CatalogKept
    <2>3. ASSUME NEW request \in Requests, Resolve(request) PROVE CatalogInv'
      <3>1. CASE request.provider_id = <<>> \/ request.model_id = <<>>
        <4>1. resolving' = RaisedError("invalid_request", request) /\ catalog' = catalog
          BY <2>3, <3>1 DEF Resolve
        <4>2. catalog \in Catalogs BY <1>2 DEF CatalogInv
        <4> QED BY <3>1, <4>1, <4>2, NamedNothing, RaisedOK
      <3>2. CASE ~(request.provider_id = <<>> \/ request.model_id = <<>>)
        <4>1. resolving'.pc = "asked" /\ catalog' = catalog BY <2>3, <3>2 DEF Resolve
        <4> QED BY <1>2, <4>1 DEF CatalogInv, ResolvedIsOnly
      <3> QED BY <3>1, <3>2
    <2>4. CASE HandleModelsRequest
      <3>1. /\ catalog' = catalog
            /\ resolving' = [pc |-> "answered", request |-> resolving.request,
                             reply |-> ModelsReply(resolving.request)]
        BY <2>4 DEF HandleModelsRequest
      <3>2. /\ resolving'.pc = "answered" /\ resolving'.request = resolving.request
            /\ resolving'.reply = ModelsReply(resolving.request)
        BY <3>1
      <3>3. \A r : ModelsReply(r)' = ModelsReply(r) BY <3>1 DEF ModelsReply, Filtered
      <3> QED BY <1>2, <3>1, <3>2, <3>3 DEF CatalogInv, ResolvedIsOnly
    <2>5. CASE DispatchReads BY <1>2, <2>5, ReadsReply
    <2>6. CASE DispatchTimesOut
      <3>1. resolving' = RaisedError("timeout", resolving.request) /\ catalog' = catalog
        BY <2>6 DEF DispatchTimesOut
      <3> QED BY <1>2, <3>1, RaisedOK DEF CatalogInv
    <2> QED BY <1>2, <2>1, <2>2, <2>3, <2>4, <2>5, <2>6 DEF Next
  <1>3. CatalogInv => ResolvedIsOnly BY DEF CatalogInv
  <1> QED BY <1>1, <1>2, <1>3, PTL DEF Spec

=============================================================================
