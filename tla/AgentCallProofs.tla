--------------------------- MODULE AgentCallProofs ---------------------------
(***************************************************************************)
(* Proofs about AgentCall for every value of its constants.                *)
(***************************************************************************)
EXTENDS AgentCall, SequenceTheorems, TLAPS

(***************************************************************************)
(* The shape of the state.                                                 *)
(***************************************************************************)
Places == {"idle", "starting", "reading", "tool", "leaving", "probing", "draining",
           "login", "ended"}

Locals == [pc : Places, session : Sessions \union {None}, attempt : 0..2,
           exclusive : BOOLEAN, minted : BOOLEAN, accepted : BOOLEAN,
           messageAccepted : BOOLEAN, rejected : BOOLEAN, stop : {0, MessageSeq, StopSeq},
           second : BOOLEAN, hurried : BOOLEAN, barred : BOOLEAN, auth : BOOLEAN]

Entries == [status : {"absent", "ready", "processing", "error"}, gen : 0..MaxGen, next : 0..StopSeq]

Frames == [type : {"agent_started", "agent_stopped", "agent_error", "agent_event",
                   "tool_execute", "agent_result", "agent_end"},
           session : Sessions, gen : 0..MaxGen, re : MessageIds \union {None},
           code : {"none", "invalid_request", "agent_busy", "agent_not_found",
                   "internal_error", "tool_execution_error"}]

Sent == {r \in [type : RequestTypes, session : Sessions, payload : Sessions, seq : 0..3,
                id : MessageIds] :
           /\ r.payload = r.session /\ r.id[3] = r.type /\ r.id[4] = r.seq
           /\ r.type = "agent_start" => r.seq = StartSeq
           /\ r.type = "agent_message" => r.seq = MessageSeq
           /\ r.type = "agent_stop" => r.seq \in {MessageSeq, StopSeq}}

\* The attempt an id, or a request, is of.
Author(id) == <<id[1], id[2]>>

Shape ==
  /\ registry \in [Sessions -> Entries] /\ made \in 0..MaxGen /\ shown \in 0..MaxShown
  /\ call \in [Calls -> Locals] /\ unused \subseteq Sessions \ Supplied
  /\ wire \in Seq(Frames) /\ queue \in [Calls -> Seq(Frames)] /\ inbox \in Seq(Sent)
  /\ maker \in [1..MaxGen -> {<<>>} \union (Calls \X (1..2))]
  /\ got \in [Calls -> SUBSET (1..MaxGen)] /\ ran \in [Calls -> SUBSET {1, 2}]

(***************************************************************************)
(* Registrations: each has one session and one maker.                      *)
(***************************************************************************)
Made(m, a) == \E g \in 1..MaxGen : m[g] = a

TableInv ==
  /\ \A s \in Sessions : Held(s) => registry[s].gen \in 1..made /\ registry[s].next \in {2, 3}
  /\ \A s, t \in Sessions : Held(s) /\ Held(t) /\ registry[s].gen = registry[t].gen => s = t
  /\ \A g \in 1..MaxGen : g > made => maker[g] = <<>>

(***************************************************************************)
(* Attempts: what exists of an attempt is of a call that has come so far,  *)
(* for the session it was given.  Its route is its own.                    *)
(***************************************************************************)
RouteInv ==
  \A c \in Calls :
    /\ RouteOpen(c) => call[c].session \in Sessions \ unused
    /\ \A d \in Calls : RouteOpen(c) /\ RouteOpen(d) /\ call[c].session = call[d].session => c = d
    /\ ~RouteOpen(c) => queue[c] = <<>>
    /\ \A i \in 1..Len(queue[c]) : queue[c][i].session = call[c].session
    /\ call[c].pc # "idle" <=> call[c].attempt # 0
    /\ call[c].pc = "idle" => got[c] = {} /\ ran[c] = {}

\* The id is of an attempt call c, whose locals are l, has begun; before the
\* call has written its start, of an earlier one.
Past(id, c, l) ==
  /\ id[1] = c => id[2] <= l.attempt
  /\ l.pc = "starting" => Author(id) # <<c, l.attempt>>

AttemptInv ==
  \A c \in Calls :
    /\ \A i \in 1..Len(inbox) :
         /\ Past(inbox[i].id, c, call[c])
         /\ Author(inbox[i].id) = Attempt(c) => inbox[i].session = call[c].session
    /\ \A g \in 1..MaxGen : maker[g] # <<>> => Past(maker[g], c, call[c])
    /\ \A s \in Sessions :
         Held(s) /\ maker[registry[s].gen] = Attempt(c) => s = call[c].session
    /\ \A i \in 1..Len(wire) : wire[i].re # None =>
         /\ Past(wire[i].re, c, call[c])
         /\ Author(wire[i].re) = Attempt(c) => wire[i].session = call[c].session
    /\ \A d \in Calls : \A i \in 1..Len(queue[d]) :
         queue[d][i].re # None => Past(queue[d][i].re, c, call[c])

\* An id nobody has drawn occurs nowhere.
UnusedInv ==
  \A s \in unused :
    /\ ~Held(s)
    /\ \A i \in 1..Len(inbox) : inbox[i].session # s
    /\ \A i \in 1..Len(wire) : wire[i].session # s

(***************************************************************************)
(* Starts: an attempt writes one, and its registration follows from it.    *)
(* Once it is read, or if the id was minted for the attempt, everything    *)
(* that is left of the session is of the attempt while its route is open.  *)
(***************************************************************************)
IsStart(r) == r.type = "agent_start"

StartInv ==
  \A i \in 1..Len(inbox) :
    IsStart(inbox[i]) =>
      /\ ~Made(maker, Author(inbox[i].id))
      /\ \A j \in 1..Len(inbox) :
           IsStart(inbox[j]) /\ Author(inbox[j].id) = Author(inbox[i].id) => i = j

\* Requests of q for session s behind position n are of attempt a.
OwnBehind(q, n, s, a) ==
  \A i \in 1..Len(q) : i > n /\ q[i].session = s => Author(q[i].id) = a

OwnerInv ==
  \A c \in Calls : RouteOpen(c) =>
    /\ Made(maker, Attempt(c)) \/ call[c].exclusive =>
         /\ OwnBehind(inbox, 0, call[c].session, Attempt(c))
         /\ Held(call[c].session) => maker[registry[call[c].session].gen] = Attempt(c)
    /\ \A i \in 1..Len(inbox) :
         IsStart(inbox[i]) /\ Author(inbox[i].id) = Attempt(c) => OwnBehind(inbox, i,
         call[c].session, Attempt(c))

\* What an accepted stop ends is of the attempt that wrote it.
StopInv ==
  \A i \in 1..Len(inbox) : inbox[i].type = "agent_stop" =>
    /\ \A k \in 1..Len(inbox) :
         k < i /\ IsStart(inbox[k]) /\ inbox[k].session = inbox[i].session =>
           Author(inbox[k].id) = Author(inbox[i].id)
    /\ Held(inbox[i].session) =>
         maker[registry[inbox[i].session].gen] = Author(inbox[i].id)

(***************************************************************************)
(* Frames: the reply to a start tells whether it made a registration, and  *)
(* output behind the reply an attempt waits for is of its registration.    *)
(***************************************************************************)
StartIdOf(a) == <<a[1], a[2], "agent_start", StartSeq>>

FrameInOrder(f, m, q) ==
  /\ IsOutput(f) => f.gen \in 1..MaxGen
  /\ f.type = "agent_started" => f.re # None /\ f.gen \in 1..MaxGen /\ m[f.gen] = Author(f.re)
  /\ f.type = "agent_error" /\ f.re # None /\ f.re = StartIdOf(f.re) =>
         /\ ~Made(m, Author(f.re))
         /\ \A i \in 1..Len(q) : IsStart(q[i]) => Author(q[i].id) # Author(f.re)

FrameInv ==
  /\ \A i \in 1..Len(wire) : FrameInOrder(wire[i], maker, inbox)
  /\ \A c \in Calls : \A i \in 1..Len(queue[c]) : FrameInOrder(queue[c][i], maker, inbox)

\* In what is read from q, then from w, whatever follows an element of A is in B.
Follows(q, w, A, B) ==
  /\ \A i, j \in 1..Len(q) : i < j /\ q[i] \in A => q[j] \in B
  /\ \A i \in 1..Len(q), j \in 1..Len(w) : q[i] \in A => w[j] \in B
  /\ \A i, j \in 1..Len(w) : i < j /\ w[i] \in A => w[j] \in B

\* In what is read from q, then from w, an element of A precedes each of B.
Precedes(q, w, A, B) ==
  /\ \A j \in 1..Len(q) : q[j] \in B => \E i \in 1..Len(q) : i < j /\ q[i] \in A
  /\ \A j \in 1..Len(w) : w[j] \in B =>
       \/ \E i \in 1..Len(q) : q[i] \in A
       \/ \E i \in 1..Len(w) : i < j /\ w[i] \in A

Within(q, B) == \A i \in 1..Len(q) : q[i] \in B
Occurs(q, A) == \E i \in 1..Len(q) : q[i] \in A

\* The replies that confirm attempt a, the output on session s that is of its
\* registration, and the frames on s that answer nothing.
Confirmations(a) == {f \in Frames : f.type = "agent_started" /\ f.re = StartIdOf(a)}
OwnOutput(s, a, m) ==
  {f \in Frames : IsOutput(f) /\ f.session = s => f.gen \in 1..MaxGen /\ m[f.gen] = a}
Unasked(s) == {f \in Frames : f.session = s /\ f.re = None}

OutputInv ==
  \A c \in Calls :
    /\ \A g \in got[c] : maker[g] = Attempt(c)
    /\ RouteOpen(c) =>
         LET own == OwnOutput(call[c].session, Attempt(c), maker)
         IN /\ Follows(queue[c], wire, Confirmations(Attempt(c)), own)
            /\ call[c].accepted =>
                 Made(maker, Attempt(c)) /\ Within(queue[c], own) /\ Within(wire, own)

\* The session of an exclusive id is silent before its start is confirmed.
SilenceInv ==
  \A c \in Calls : call[c].pc \in {"starting", "reading"} /\ call[c].exclusive /\ ~call[c].accepted =>
    LET confirmed == Confirmations(Attempt(c))
    IN /\ Made(maker, Attempt(c)) => Occurs(queue[c], confirmed) \/ Occurs(wire, confirmed)
       /\ Precedes(queue[c], wire, confirmed, Unasked(call[c].session))

(***************************************************************************)
(* Leaving: where a call is with its stop, and what the answers tell.      *)
(***************************************************************************)
StopId(c) == RequestOf(c, "agent_stop", call[c].stop).id

NoneOf(c) == \A i \in 1..Len(inbox) : Author(inbox[i].id) # Attempt(c)
NoStartOf(c) == \A i \in 1..Len(inbox) : IsStart(inbox[i]) => Author(inbox[i].id) # Attempt(c)

\* A stop whose id is of attempt a is one the call, whose locals are l, tried.
Tried(id, a, l) ==
  Author(id) = a /\ id[3] = "agent_stop" =>
    /\ l.stop # 0
    /\ id[4] = l.stop \/ (l.second /\ id[4] = Alternate(l.stop))

TriedInv ==
  \A c \in Calls :
    /\ \A i \in 1..Len(inbox) : Tried(inbox[i].id, Attempt(c), call[c])
    /\ \A i \in 1..Len(wire) : wire[i].re # None => Tried(wire[i].re, Attempt(c), call[c])
    /\ \A i \in 1..Len(queue[c]) : queue[c][i].re # None => Tried(queue[c][i].re, Attempt(c), call[c])

\* An answer to the stop c waits for.
Answered(c, f) ==
  f.re = StopId(c) =>
    /\ NoneOf(c)
    /\ Holds(c) => /\ f.code = "invalid_request" /\ ~call[c].second
                   /\ registry[call[c].session].next = Alternate(call[c].stop)

ProbeInv ==
  \A c \in Calls : call[c].pc = "probing" =>
    /\ call[c].stop # 0 /\ (call[c].accepted \/ call[c].exclusive) /\ ~call[c].rejected
    /\ \A i \in 1..Len(inbox) : inbox[i].id = StopId(c) =>
         /\ \A j \in 1..Len(inbox) : j > i => Author(inbox[j].id) # Attempt(c)
         /\ call[c].second =>
              /\ \A j \in 1..Len(inbox) : j < i => Author(inbox[j].id) # Attempt(c)
              /\ Holds(c) => registry[call[c].session].next = call[c].stop
         /\ \A j \in 1..Len(wire) : wire[j].re # StopId(c)
         /\ \A j \in 1..Len(queue[c]) : queue[c][j].re # StopId(c)
    /\ \A i \in 1..Len(wire) : Answered(c, wire[i])
    /\ \A i \in 1..Len(queue[c]) : Answered(c, queue[c][i])

LeaveInv ==
  \A c \in Calls :
    /\ call[c].pc \in {"idle", "starting", "reading", "tool", "leaving"} =>
         call[c].stop = 0 /\ ~call[c].second
    /\ call[c].rejected => ~call[c].accepted /\ call[c].pc \notin {"idle", "starting", "reading", "tool"}
    /\ call[c].pc = "starting" => ~call[c].accepted
    /\ call[c].pc = "tool" => call[c].accepted
    /\ call[c].rejected /\ call[c].exclusive => ~Made(maker, Attempt(c)) /\ NoStartOf(c)
    /\ /\ call[c].pc \in {"draining", "login", "ended"} /\ ~call[c].hurried
       /\ call[c].exclusive \/ call[c].accepted
       => ~Holds(c) /\ NoStartOf(c)

(***************************************************************************)
(* Tools: a call that may be tried again has run none.                     *)
(***************************************************************************)
ToolInv ==
  \A c \in Calls :
    /\ call[c].attempt = 1 /\ 1 \in ran[c] =>
         call[c].barred \/ (~call[c].auth /\ call[c].pc \notin {"starting", "reading", "tool"})
    /\ call[c].auth => call[c].pc \notin {"starting", "reading", "tool"}
    /\ call[c].pc = "login" => MayRetry(c)
    /\ call[c].attempt = 2 => 1 \notin ran[c]

CallInv ==
  /\ Shape /\ TableInv /\ RouteInv /\ AttemptInv /\ UnusedInv /\ StartInv /\ OwnerInv /\ StopInv
  /\ FrameInv /\ OutputInv /\ SilenceInv /\ TriedInv /\ ProbeInv /\ LeaveInv /\ ToolInv

-----------------------------------------------------------------------------
(***************************************************************************)
(* Sequences.                                                              *)
(***************************************************************************)
LEMMA TailSeq ==
  ASSUME NEW S, NEW q \in Seq(S), q # <<>>
  PROVE  /\ Tail(q) \in Seq(S) /\ Head(q) \in S /\ Head(q) = q[1]
         /\ Len(q) \in Nat \ {0} /\ Len(Tail(q)) = Len(q) - 1
         /\ \A i \in 1..Len(Tail(q)) : i + 1 \in 1..Len(q) /\ Tail(q)[i] = q[i + 1]
  OBVIOUS

LEMMA AppendSeq ==
  ASSUME NEW S, NEW q \in Seq(S), NEW e \in S
  PROVE  /\ Append(q, e) \in Seq(S) /\ Len(q) \in Nat
         /\ Len(Append(q, e)) = Len(q) + 1 /\ Append(q, e)[Len(q) + 1] = e
         /\ \A i \in 1..Len(q) : Append(q, e)[i] = q[i]
         /\ \A i \in 1..Len(Append(q, e)) :
              \/ i \in 1..Len(q) /\ Append(q, e)[i] = q[i]
              \/ i = Len(q) + 1 /\ Append(q, e)[i] = e
  OBVIOUS

\* v is w with frames of F written behind it.
Extends(w, v, F) ==
  /\ v \in Seq(Frames) /\ Len(w) <= Len(v)
  /\ \A i \in 1..Len(w) : v[i] = w[i]
  /\ \A i \in 1..Len(v) : i > Len(w) => v[i] \in F

LEMMA ExtendsSelf ==
  ASSUME NEW w \in Seq(Frames), NEW F
  PROVE  Extends(w, w, F)
  BY DEF Extends

LEMMA ExtendsOne ==
  ASSUME NEW w \in Seq(Frames), NEW F, NEW f \in Frames, f \in F
  PROVE  Extends(w, Append(w, f), F)
  BY AppendSeq DEF Extends

LEMMA ConcatOne ==
  ASSUME NEW S, NEW w \in Seq(S), NEW f \in S
  PROVE  w \o <<f>> = Append(w, f)
  OBVIOUS

LEMMA ConcatTwo ==
  ASSUME NEW S, NEW w \in Seq(S), NEW f \in S, NEW g \in S
  PROVE  w \o <<f, g>> = Append(Append(w, f), g)
  OBVIOUS

LEMMA ExtendsTwo ==
  ASSUME NEW w \in Seq(Frames), NEW F, NEW f \in Frames, NEW g \in Frames, f \in F, g \in F
  PROVE  Extends(w, Append(Append(w, f), g), F)
<1>1. Append(w, f) \in Seq(Frames) BY AppendSeq
<1> QED BY <1>1, AppendSeq DEF Extends

LEMMA ExtendsPair ==
  ASSUME NEW w \in Seq(Frames), NEW F, NEW f \in Frames, NEW g \in Frames, f \in F, g \in F
  PROVE  Extends(w, w \o <<f, g>>, F)
<1>1. w \o <<f, g>> = Append(Append(w, f), g) BY ConcatTwo
<1> QED BY <1>1, ExtendsTwo

LEMMA ReadOne ==
  ASSUME NEW S, NEW w \in Seq(S), w # <<>>
  PROVE  SubSeq(w, 1 + 1, Len(w)) = Tail(w)
  OBVIOUS

-----------------------------------------------------------------------------
(***************************************************************************)
(* What each kind of step does.                                            *)
(***************************************************************************)
HostRefuses(f) ==
  /\ UNCHANGED <<registry, made, maker>>
  /\ \E g \in Frames :
       /\ wire' = Append(wire, g)
       /\ g.type = "agent_error" /\ g.re = f.id /\ g.session = f.session
       /\ f.type = "agent_stop" /\ Held(f.session) =>
            g.code = "invalid_request" /\ f.seq # registry[f.session].next

HostStarts(f) ==
  /\ IsStart(f) /\ ~Held(f.session) /\ made < MaxGen /\ made' = made + 1
  /\ registry' = [registry EXCEPT ![f.session] = [status |-> "ready", gen |-> made + 1, next |-> 2]]
  /\ maker' = [maker EXCEPT ![made + 1] = Author(f.id)]
  /\ \E g \in Frames :
       /\ wire' = Append(wire, g)
       /\ g.type = "agent_started" /\ g.re = f.id /\ g.session = f.session /\ g.gen = made + 1

HostTakes(f) ==
  /\ f.type = "agent_message" /\ Held(f.session)
  /\ \E n \in Entries :
       /\ registry' = [registry EXCEPT ![f.session] = n]
       /\ n.status = "processing" /\ n.gen = registry[f.session].gen /\ n.next = 3
  /\ UNCHANGED <<made, maker, wire>>

HostStops(f) ==
  /\ f.type = "agent_stop" /\ Held(f.session)
  /\ registry' = [registry EXCEPT ![f.session] = Absent]
  /\ UNCHANGED <<made, maker>>
  /\ \E g \in Frames :
       /\ wire' = Append(wire, g)
       /\ g.type = "agent_stopped" /\ g.re = f.id /\ g.session = f.session /\ g.code = "none"

HostSkips(f) == f.type = "tool_result" /\ UNCHANGED <<registry, made, maker, wire>>

Reads(f) ==
  /\ inbox # <<>> /\ inbox' = Tail(inbox) /\ f = inbox[1]
  /\ UNCHANGED <<callVars, shown, got, ran>>
  /\ HostRefuses(f) \/ HostStarts(f) \/ HostTakes(f) \/ HostStops(f) \/ HostSkips(f)

LEMMA EntryAt ==
  ASSUME Shape, NEW s \in Sessions
  PROVE  registry[s] \in Entries
  BY DEF Shape

LEMMA Processing ==
  ASSUME NEW e \in Entries, e.next = 2
  PROVE  LET n == [e EXCEPT !.status = "processing", !.next = @ + 1]
         IN n \in Entries /\ n.status = "processing" /\ n.gen = e.gen /\ n.next = 3
<1> DEFINE n == [e EXCEPT !.status = "processing", !.next = @ + 1]
<1>1. n.status = "processing" BY DEF Entries
<1>2. n.gen = e.gen BY DEF Entries
<1>3. n.next = 3 BY DEF Entries, StopSeq
<1>4. n \in [status : {"absent", "ready", "processing", "error"}, gen : 0..MaxGen, next : {3}]
  BY <1>3 DEF Entries
<1>5. n \in Entries BY <1>4, <1>3 DEF Entries, StopSeq
<1> QED BY <1>1, <1>2, <1>3, <1>5

LEMMA HostReadsIs ==
  ASSUME Shape, TableInv, HostReads
  PROVE  \E f \in Sent : Reads(f)
<1> DEFINE f == Head(inbox)
<1>1. f \in Sent /\ f = inbox[1] BY TailSeq DEF Shape, HostReads
<1>2. PICK h \in Sent : h = f BY <1>1
<1> DEFINE e == registry[h.session]
           mk == IF made' = made THEN maker ELSE [maker EXCEPT ![made'] = <<h.id[1], h.id[2]>>]
<1>3. /\ inbox # <<>> /\ inbox' = Tail(inbox) /\ UNCHANGED <<callVars, shown, got, ran>>
      /\ maker' = mk
      /\ AcceptStart(h) \/ AcceptMessage(h) \/ AcceptStop(h) \/ (h.type = "tool_result" /\ UNCHANGED serverVars)
  BY <1>2 DEF HostReads
<1>4. /\ h.session \in Sessions /\ h.payload = h.session /\ e \in Entries /\ h.id \in MessageIds
      /\ h.type = "agent_start" => h.seq = 1
      /\ h.type = "agent_message" => h.seq = 2
      /\ h.type = "agent_stop" => h.seq \in {2, 3}
  BY EntryAt DEF Sent, StartSeq, MessageSeq, StopSeq
<1>5. made \in Nat BY DEF Shape
<1>6. ASSUME NEW code \in {"none", "invalid_request", "agent_busy", "agent_not_found",
                   "internal_error", "tool_execution_error"}, NEW ty \in {"agent_error", "agent_stopped"}
      PROVE SentFrame(ty, h.session, e.gen, h.id, code) \in Frames
  BY <1>4 DEF SentFrame, Frames, Entries
<1>7. ASSUME NEW code \in {"invalid_request", "agent_busy", "agent_not_found"},
             Decline(h, code),
             h.type = "agent_stop" /\ Held(h.session) =>
               code = "invalid_request" /\ h.seq # registry[h.session].next
      PROVE  HostRefuses(h)
  <2> DEFINE g == SentFrame("agent_error", h.session, e.gen, h.id, code)
  <2>1. g \in Frames BY <1>6
  <2>2. wire' = Append(wire, g) /\ UNCHANGED <<registry, made>> BY <1>7 DEF Decline, Answer
  <2>3. g.type = "agent_error" /\ g.re = h.id /\ g.session = h.session /\ g.code = code BY DEF SentFrame
  <2>4. maker' = maker BY <1>3, <2>2
  <2> HIDE DEF g
  <2> QED BY <1>7, <2>1, <2>2, <2>3, <2>4 DEF HostRefuses
<1> SUFFICES HostRefuses(h) \/ HostStarts(h) \/ HostTakes(h) \/ HostStops(h) \/ HostSkips(h)
  BY <1>1, <1>2, <1>3 DEF Reads
<1>8. CASE AcceptStart(h)
  <2>1. CASE made < MaxGen /\ made' = made + 1 /\ ~Held(h.session)
           /\ registry' = [registry EXCEPT ![h.session] =
                          [status |-> "ready", gen |-> made + 1, next |-> 2]]
           /\ Answer(h, "agent_started", made + 1, "none")
    <3> DEFINE g == SentFrame("agent_started", h.session, made + 1, h.id, "none")
    <3>1. made + 1 \in 0..MaxGen BY <1>5, <2>1, CallAssumption
    <3>2. g \in Frames BY <1>4, <3>1 DEF SentFrame, Frames
    <3>3. wire' = Append(wire, g) BY <2>1 DEF Answer
    <3>4. g.type = "agent_started" /\ g.re = h.id /\ g.session = h.session /\ g.gen = made + 1
      BY DEF SentFrame
    <3>5. maker' = [maker EXCEPT ![made + 1] = Author(h.id)] BY <1>3, <1>5, <2>1 DEF Author
    <3> HIDE DEF g
    <3>6. IsStart(h) BY <1>8 DEF AcceptStart, IsStart
    <3>7. HostStarts(h) BY <2>1, <3>2, <3>3, <3>4, <3>5, <3>6 DEF HostStarts
    <3> QED BY <3>7
  <2>2. CASE Decline(h, "invalid_request") /\ h.type = "agent_start"
    <3>1. HostRefuses(h) BY <1>7, <2>2
    <3> QED BY <3>1
  <2>3. CASE Decline(h, "agent_busy") /\ h.type = "agent_start"
    <3>1. HostRefuses(h) BY <1>7, <2>3
    <3> QED BY <3>1
  <2> QED BY <1>8, <2>1, <2>2, <2>3 DEF AcceptStart
<1>9. CASE AcceptMessage(h)
  <2>0. h.type = "agent_message" /\ h.seq = 2 BY <1>9, <1>4 DEF AcceptMessage
  <2>1. CASE Objection(h) # "none" /\ Decline(h, Objection(h))
    <3>1. Objection(h) \in {"invalid_request", "agent_busy", "agent_not_found"}
      BY <2>1, <2>0, <1>4 DEF Objection
    <3>2. PICK code \in {"invalid_request", "agent_busy", "agent_not_found"} : code = Objection(h)
      BY <3>1
    <3>3. HostRefuses(h) BY <1>7, <2>0, <2>1, <3>2
    <3> QED BY <3>3
  <2>2. CASE /\ Objection(h) = "none"
             /\ registry' = [registry EXCEPT ![h.session].status = "processing",
                                        ![h.session].next = @ + 1]
             /\ UNCHANGED <<made, wire>>
    <3>1. Held(h.session) /\ e.next = 2 BY <2>2, <2>0, <1>4 DEF Objection
    <3> DEFINE n == [e EXCEPT !.status = "processing", !.next = @ + 1]
    <3>2. n \in Entries /\ n.status = "processing" /\ n.gen = e.gen /\ n.next = 3
      BY <1>4, <3>1, Processing
    <3>3. registry' = [registry EXCEPT ![h.session] = [e EXCEPT !.status = "processing", !.next = @ + 1]]
      BY <2>2, <1>4 DEF Shape
    <3>4. registry' = [registry EXCEPT ![h.session] = n] BY <3>3
    <3> HIDE DEF n
    <3>5. maker' = maker BY <1>3, <2>2
    <3>6. HostTakes(h) BY <2>0, <2>2, <3>1, <3>2, <3>4, <3>5 DEF HostTakes
    <3> QED BY <3>6
  <2> QED BY <1>9, <2>1, <2>2 DEF AcceptMessage
<1>10. CASE AcceptStop(h)
  <2>0. h.type = "agent_stop" /\ h.seq \in {2, 3} BY <1>10, <1>4 DEF AcceptStop
  <2>1. CASE Objection(h) # "none" /\ Decline(h, Objection(h))
    <3>1. Objection(h) \in {"invalid_request", "agent_not_found"}
          /\ (Held(h.session) => Objection(h) = "invalid_request" /\ h.seq # e.next)
      BY <2>1, <2>0, <1>4 DEF Objection
    <3>2. PICK code \in {"invalid_request", "agent_busy", "agent_not_found"} : code = Objection(h)
      BY <3>1
    <3>3. HostRefuses(h) BY <1>7, <2>0, <2>1, <3>1, <3>2
    <3> QED BY <3>3
  <2>2. CASE /\ Objection(h) = "none"
             /\ Answer(h, "agent_stopped", registry[h.session].gen, "none")
             /\ registry' = [registry EXCEPT ![h.session] = Absent]
             /\ UNCHANGED made
    <3>1. Held(h.session) BY <2>2, <1>4 DEF Objection
    <3> DEFINE g == SentFrame("agent_stopped", h.session, e.gen, h.id, "none")
    <3>2. g \in Frames BY <1>6
    <3>3. wire' = Append(wire, g) BY <2>2 DEF Answer
    <3>4. g.type = "agent_stopped" /\ g.re = h.id /\ g.session = h.session /\ g.code = "none"
      BY DEF SentFrame
    <3>5. maker' = maker BY <1>3, <2>2
    <3> HIDE DEF g
    <3>6. HostStops(h) BY <2>0, <2>2, <3>1, <3>2, <3>3, <3>4, <3>5 DEF HostStops
    <3> QED BY <3>6
  <2> QED BY <1>10, <2>1, <2>2 DEF AcceptStop
<1>11. CASE h.type = "tool_result" /\ UNCHANGED serverVars
  BY <1>3, <1>11 DEF HostSkips, serverVars
<1> QED BY <1>3, <1>8, <1>9, <1>10, <1>11

\* A frame a run sends without being asked.
Shows(s) ==
  {f \in Frames : /\ f.session = s /\ f.re = None /\ f.gen = registry[s].gen
                  /\ f.type \in {"agent_event", "tool_execute", "agent_result", "agent_end", "agent_error"}}

Runs(s) ==
  /\ Held(s) /\ UNCHANGED <<callVars, inbox, historyVars, made>> /\ shown' \in 0..MaxShown
  /\ registry' \in [Sessions -> Entries]
  /\ \A t \in Sessions : Held(t)' =>
       Held(t) /\ registry'[t].gen = registry[t].gen /\ registry'[t].next = registry[t].next
  /\ Extends(wire, wire', Shows(s))

LEMMA HostRunsIs ==
  ASSUME Shape, HostRuns
  PROVE  \E s \in Sessions : Runs(s)
<1>0. /\ UNCHANGED <<callVars, inbox, historyVars>> /\ wire \in Seq(Frames) /\ shown \in 0..MaxShown
      /\ registry \in [Sessions -> Entries]
  BY DEF HostRuns, Shape
<1>1. ASSUME NEW s \in Sessions, NEW ty \in {"agent_event", "tool_execute", "agent_result", "agent_end", "agent_error"},
             NEW code \in {"none", "internal_error", "tool_execution_error"}
      PROVE  RunSends(s, ty, code) \in Frames /\ RunSends(s, ty, code) \in Shows(s)
  <2>1. registry[s] \in Entries BY EntryAt
  <2> QED BY <2>1, CallAssumption DEF RunSends, SentFrame, Frames, Shows, Entries
<1>2. ASSUME NEW s \in Sessions, Show(s), shown' = shown + 1, shown < MaxShown PROVE Runs(s)
  <2>1. PICK ty \in {"agent_event", "tool_execute"} : wire' = Append(wire, RunSends(s, ty, "none"))
    BY <1>2 DEF Show
  <2>2. Extends(wire, wire', Shows(s)) BY <1>0, <1>1, <2>1, ExtendsOne
  <2>3. shown' \in 0..MaxShown BY <1>0, <1>2, CallAssumption
  <2> QED BY <1>0, <1>2, <2>2, <2>3 DEF Show, Runs, Held
<1>3. ASSUME NEW s \in Sessions, Settle(s), shown' = shown PROVE Runs(s)
  <2>1. PICK st \in {"ready", "error"} : registry' = [registry EXCEPT ![s].status = st]
    BY <1>3 DEF Settle
  <2>2. registry[s] \in Entries BY EntryAt
  <2>3. [registry[s] EXCEPT !.status = st] \in Entries BY <2>2 DEF Entries
  <2>4. registry' = [registry EXCEPT ![s] = [registry[s] EXCEPT !.status = st]] BY <1>0, <2>1
  <2>5. registry' \in [Sessions -> Entries] BY <1>0, <2>3, <2>4
  <2>6. ASSUME NEW t \in Sessions
        PROVE registry'[t].gen = registry[t].gen /\ registry'[t].next = registry[t].next
    BY <1>0, <2>2, <2>4 DEF Entries
  <2>7. Held(s) BY <1>3 DEF Settle, Held
  <2>8. ASSUME NEW t \in Sessions, Held(t)' PROVE Held(t)
    BY <1>0, <2>1, <2>7, <2>8 DEF Held
  <2>9. Extends(wire, wire', Shows(s))
    <3> DEFINE a == RunSends(s, "agent_result", "none")
               b == RunSends(s, "agent_end", "none")
               d(code) == RunSends(s, "agent_event", code)
               e(code) == RunSends(s, "agent_error", code)
    <3>1. \/ wire' = wire \o <<a>> \/ wire' = wire \o <<a, b>>
          \/ \E code \in {"internal_error", "tool_execution_error"} : wire' = wire \o <<d(code), e(code)>>
      BY <1>3 DEF Settle
    <3>2. a \in Frames /\ b \in Frames /\ a \in Shows(s) /\ b \in Shows(s) BY <1>1
    <3>3. \A code \in {"internal_error", "tool_execution_error"} :
            d(code) \in Frames /\ e(code) \in Frames /\ d(code) \in Shows(s) /\ e(code) \in Shows(s)
      BY <1>1
    <3> HIDE DEF a, b, d, e
    <3>4. CASE wire' = wire \o <<a>> BY <1>0, <3>2, <3>4, ConcatOne, ExtendsOne
    <3>5. CASE wire' = wire \o <<a, b>> BY <1>0, <3>2, <3>5, ExtendsPair
    <3>6. CASE \E code \in {"internal_error", "tool_execution_error"} : wire' = wire \o <<d(code), e(code)>>
      <4>1. PICK x \in Frames, y \in Frames : wire' = wire \o <<x, y>> /\ x \in Shows(s) /\ y \in Shows(s)
        BY <3>3, <3>6
      <4> QED BY <1>0, <4>1, ExtendsPair
    <3> QED BY <3>1, <3>4, <3>5, <3>6
  <2>10. UNCHANGED made BY <1>3 DEF Settle
  <2> QED BY <1>0, <1>3, <2>5, <2>6, <2>7, <2>8, <2>9, <2>10 DEF Runs
<1>4. ASSUME NEW s \in Sessions, Evict({s}), shown' = shown PROVE Runs(s)
  <2>1. registry' = [t \in Sessions |-> IF t \in {s} THEN Absent ELSE registry[t]] /\ UNCHANGED <<made, wire>>
    BY <1>4 DEF Evict
  <2>2. Held(s) BY <1>4 DEF Evict, Held
  <2>3. Absent \in Entries BY CallAssumption DEF Absent, Entries, StopSeq
  <2>4. registry' \in [Sessions -> Entries] BY <1>0, <2>1, <2>3
  <2>5. \A t \in Sessions : Held(t)' => Held(t) /\ registry'[t].gen = registry[t].gen /\ registry'[t].next = registry[t].next
    BY <2>1 DEF Held, Absent
  <2>6. Extends(wire, wire', Shows(s)) BY <1>0, <2>1, ExtendsSelf
  <2> QED BY <1>0, <1>4, <2>1, <2>2, <2>4, <2>5, <2>6 DEF Runs
<1> QED BY <1>2, <1>3, <1>4 DEF HostRuns

\* A step of a call whose route is open and stays so.
Goes(c) ==
  /\ RouteOpen(c) /\ UNCHANGED <<serverVars, unused, shown, maker>>
  /\ \E l \in Locals :
       /\ call' = [call EXCEPT ![c] = l]
       /\ l.session = call[c].session /\ l.attempt = call[c].attempt /\ l.exclusive = call[c].exclusive
       /\ l.pc \in {"reading", "tool", "leaving", "probing", "draining"}
  /\ \/ queue' = queue
     \/ queue[c] # <<>> /\ queue' = [queue EXCEPT ![c] = Tail(queue[c])]
  /\ \/ inbox' = inbox
     \/ \E r \in Sent :
          /\ inbox' = Append(inbox, r)
          /\ Author(r.id) = Attempt(c) /\ r.session = call[c].session
          /\ IsStart(r) => call[c].pc = "starting"
          /\ r.type = "agent_stop" =>
               /\ call[c].pc = "probing" \/ (call[c].pc = "leaving" /\ OwesStop(c))
               /\ r.seq = call'[c].stop

LEMMA LocalsAt ==
  ASSUME Shape, NEW c \in Calls
  PROVE  /\ call[c] \in Locals /\ queue[c] \in Seq(Frames)
         /\ got[c] \in SUBSET (1..MaxGen) /\ ran[c] \in SUBSET {1, 2}
  BY DEF Shape

LEMMA UpdateIs ==
  ASSUME Shape, NEW c \in Calls, NEW l, call' = [call EXCEPT ![c] = l]
  PROVE  call'[c] = l /\ \A d \in Calls : d # c => call'[d] = call[d]
  BY DEF Shape

LEMMA RequestIsSent ==
  ASSUME Shape, RouteInv, NEW c \in Calls, RouteOpen(c), NEW type \in RequestTypes,
  NEW seq \in 0..3,
         type = "agent_start" => seq = StartSeq,
         type = "agent_message" => seq = MessageSeq,
         type = "agent_stop" => seq \in {MessageSeq, StopSeq}
  PROVE  LET r == RequestOf(c, type, seq)
         IN /\ r \in Sent /\ Author(r.id) = Attempt(c) /\ r.session = call[c].session
            /\ r.type = type /\ r.seq = seq
<1>1. call[c] \in Locals BY LocalsAt
<1>2. call[c].session \in Sessions /\ call[c].attempt \in 1..2
  BY <1>1 DEF RouteInv, RouteOpen, Locals
<1>3. <<c, call[c].attempt, type, seq>> \in MessageIds BY <1>2 DEF MessageIds
<1> DEFINE r == RequestOf(c, type, seq)
<1>4. r \in [type : RequestTypes, session : Sessions, payload : Sessions, seq : 0..3, id : MessageIds]
  BY <1>2, <1>3 DEF RequestOf
<1>5. r.payload = r.session /\ r.id[3] = r.type /\ r.id[4] = r.seq /\ r.type = type /\ r.seq = seq
      /\ r.id[1] = c /\ r.id[2] = call[c].attempt /\ r.session = call[c].session
  BY DEF RequestOf
<1>6. r \in Sent BY <1>4, <1>5 DEF Sent
<1>7. Author(r.id) = Attempt(c) BY <1>5 DEF Author, Attempt
<1> QED BY <1>5, <1>6, <1>7

Moves(c, l) ==
  /\ l \in Locals /\ l.session = call[c].session /\ l.attempt = call[c].attempt
  /\ l.exclusive = call[c].exclusive

LEMMA SendStartGoes ==
  ASSUME Shape, RouteInv, NEW c \in Calls, SendStart(c)
  PROVE  /\ Goes(c)
         /\ \E r \in Sent : inbox' = Append(inbox, r) /\ IsStart(r) /\ Author(r.id) = Attempt(c)
<1> DEFINE l == [call[c] EXCEPT !.pc = "reading"]
<1>0. call[c] \in Locals /\ RouteOpen(c) BY LocalsAt DEF SendStart, RouteOpen
<1>1. Moves(c, l) /\ l.pc = "reading" BY <1>0 DEF Locals, Places, Moves
<1>2. call' = [call EXCEPT ![c] = l] BY DEF SendStart, Shape
<1> HIDE DEF l
<1>3. PICK r \in Sent : r = RequestOf(c, "agent_start", StartSeq) /\ Author(r.id) = Attempt(c)
                        /\ r.session = call[c].session /\ r.type = "agent_start"
  BY <1>0, RequestIsSent DEF RequestTypes, StartSeq
<1>4. inbox' = Append(inbox, r) BY <1>3 DEF SendStart, Send
<1> QED BY <1>0, <1>1, <1>2, <1>3, <1>4 DEF Goes, historyVars, Moves, SendStart, IsStart

LEMMA SkipFrameGoes ==
  ASSUME Shape, RouteInv, NEW c \in Calls, SkipFrame(c)
  PROVE  Goes(c)
<1>0. call[c] \in Locals /\ RouteOpen(c) /\ call[c].pc = "reading" BY LocalsAt DEF SkipFrame, RouteOpen
<1>1. call' = [call EXCEPT ![c] = call[c]] BY DEF SkipFrame, Shape
<1>2. queue[c] # <<>> /\ queue' = [queue EXCEPT ![c] = Tail(queue[c])] BY DEF SkipFrame, Take, Shape
<1> QED BY <1>0, <1>1, <1>2 DEF Goes, historyVars, SkipFrame

LEMMA ReadNextGoes ==
  ASSUME Shape, RouteInv, NEW c \in Calls, ReadNext(c)
  PROVE  Goes(c)
<1>0. call[c] \in Locals /\ RouteOpen(c) /\ call[c].pc = "reading" BY LocalsAt DEF ReadNext, RouteOpen
<1>1. queue[c] # <<>> /\ queue' = [queue EXCEPT ![c] = Tail(queue[c])] BY DEF ReadNext, Take, Shape
<1>2. UNCHANGED <<serverVars, unused, shown, maker>> BY DEF ReadNext
<1> DEFINE f == Head(queue[c])
<1>3. CASE Raise(c, f)
  <2>1. PICK auth \in BOOLEAN :
         call' = [call EXCEPT ![c].pc = "leaving", ![c].rejected = ~call[c].accepted, ![c].auth = auth]
    BY <1>3 DEF Raise
  <2> DEFINE l == [call[c] EXCEPT !.pc = "leaving", !.rejected = ~call[c].accepted, !.auth = auth]
  <2>2. Moves(c, l) /\ l.pc = "leaving" BY <1>0 DEF Locals, Places, Moves
  <2>3. call' = [call EXCEPT ![c] = l] BY <2>1 DEF Shape
  <2> HIDE DEF l
  <2> QED BY <1>0, <1>1, <1>2, <1>3, <2>2, <2>3 DEF Goes, historyVars, Moves, Raise
<1>4. CASE Started(c, f)
  <2> DEFINE l == [call[c] EXCEPT !.accepted = TRUE]
  <2>2. Moves(c, l) /\ l.pc = "reading" BY <1>0 DEF Locals, Places, Moves
  <2>3. call' = [call EXCEPT ![c] = l] BY <1>4 DEF Shape, Started
  <2> HIDE DEF l
  <2>4. PICK r \in Sent : r = RequestOf(c, "agent_message", MessageSeq) /\ Author(r.id) = Attempt(c)
                          /\ r.session = call[c].session /\ r.type = "agent_message"
    BY <1>0, RequestIsSent DEF RequestTypes, MessageSeq
  <2>5. inbox' = Append(inbox, r) BY <1>4, <2>4 DEF Started, Send
  <2> QED BY <1>0, <1>1, <1>2, <2>2, <2>3, <2>4, <2>5 DEF Goes, historyVars, Moves, IsStart
<1>5. CASE Output(c, f)
  <2>0. inbox' = inbox BY <1>5 DEF Output
  <2>1. CASE call' = [call EXCEPT ![c].pc = "tool", ![c].messageAccepted = TRUE]
    <3> DEFINE l == [call[c] EXCEPT !.pc = "tool", !.messageAccepted = TRUE]
    <3>2. Moves(c, l) /\ l.pc = "tool" BY <1>0 DEF Locals, Places, Moves
    <3>3. call' = [call EXCEPT ![c] = l] BY <2>1 DEF Shape
    <3> HIDE DEF l
    <3> QED BY <1>0, <1>1, <1>2, <2>0, <3>2, <3>3 DEF Goes, historyVars, Moves
  <2>2. CASE \E barred \in {call[c].barred, TRUE} :
             call' = [call EXCEPT ![c].messageAccepted = TRUE, ![c].barred = barred]
    <3>1. PICK barred \in {call[c].barred, TRUE} :
             call' = [call EXCEPT ![c].messageAccepted = TRUE, ![c].barred = barred]
      BY <2>2
    <3> DEFINE l == [call[c] EXCEPT !.messageAccepted = TRUE, !.barred = barred]
    <3>2. barred \in BOOLEAN BY <1>0 DEF Locals
    <3>3. Moves(c, l) /\ l.pc = "reading" BY <1>0, <3>2 DEF Locals, Places, Moves
    <3>4. call' = [call EXCEPT ![c] = l] BY <3>1 DEF Shape
    <3> HIDE DEF l
    <3> QED BY <1>0, <1>1, <1>2, <2>0, <3>3, <3>4 DEF Goes, historyVars, Moves
  <2>3. CASE \E auth \in BOOLEAN :
             call' = [call EXCEPT ![c].pc = "leaving", ![c].messageAccepted = TRUE, ![c].auth = auth]
    <3>1. PICK auth \in BOOLEAN :
             call' = [call EXCEPT ![c].pc = "leaving", ![c].messageAccepted = TRUE, ![c].auth = auth]
      BY <2>3
    <3> DEFINE l == [call[c] EXCEPT !.pc = "leaving", !.messageAccepted = TRUE, !.auth = auth]
    <3>3. Moves(c, l) /\ l.pc = "leaving" BY <1>0 DEF Locals, Places, Moves
    <3>4. call' = [call EXCEPT ![c] = l] BY <3>1 DEF Shape
    <3> HIDE DEF l
    <3> QED BY <1>0, <1>1, <1>2, <2>0, <3>3, <3>4 DEF Goes, historyVars, Moves
  <2> QED BY <1>5, <2>1, <2>2, <2>3 DEF Output
<1> QED BY <1>3, <1>4, <1>5 DEF ReadNext

LEMMA ToolEndsGoes ==
  ASSUME Shape, RouteInv, NEW c \in Calls, ToolEnds(c)
  PROVE  Goes(c)
<1> DEFINE l == [call[c] EXCEPT !.pc = "reading", !.barred = TRUE]
<1>0. call[c] \in Locals /\ RouteOpen(c) BY LocalsAt DEF ToolEnds, RouteOpen
<1>1. Moves(c, l) /\ l.pc = "reading" BY <1>0 DEF Locals, Places, Moves
<1>2. call' = [call EXCEPT ![c] = l] BY DEF ToolEnds, Shape
<1> HIDE DEF l
<1>3. PICK r \in Sent : r = RequestOf(c, "tool_result", 0) /\ Author(r.id) = Attempt(c)
                        /\ r.session = call[c].session /\ r.type = "tool_result"
  BY <1>0, RequestIsSent DEF RequestTypes
<1>4. inbox' = Append(inbox, r) BY <1>3 DEF ToolEnds, Send
<1> QED BY <1>0, <1>1, <1>2, <1>3, <1>4 DEF Goes, historyVars, Moves, ToolEnds, IsStart

LEMMA LeaveGoes ==
  ASSUME Shape, RouteInv, NEW c \in Calls, Leave(c)
  PROVE  Goes(c)
<1> DEFINE l == [call[c] EXCEPT !.pc = "leaving"]
<1>0. call[c] \in Locals /\ RouteOpen(c) BY LocalsAt DEF Leave, RouteOpen
<1>1. Moves(c, l) /\ l.pc = "leaving" BY <1>0 DEF Locals, Places, Moves
<1>2. call' = [call EXCEPT ![c] = l] BY DEF Leave, Shape
<1> HIDE DEF l
<1> QED BY <1>0, <1>1, <1>2 DEF Goes, historyVars, Moves, Leave

LEMMA StopGoes ==
  ASSUME Shape, RouteInv, NEW c \in Calls, Stop(c)
  PROVE  /\ Goes(c) /\ UNCHANGED <<queue, historyVars>>
         /\ \/ /\ OwesStop(c)
               /\ \E n \in {MessageSeq, StopSeq} :
                    /\ call' = [call EXCEPT ![c] = [call[c] EXCEPT !.pc = "probing", !.stop = n]]
                    /\ inbox' = Append(inbox, RequestOf(c, "agent_stop", n))
            \/ /\ ~OwesStop(c) /\ inbox' = inbox
               /\ call' = [call EXCEPT ![c] = [call[c] EXCEPT !.pc = "draining"]]
<1>0. call[c] \in Locals /\ RouteOpen(c) /\ call[c].pc = "leaving" BY LocalsAt DEF Stop, RouteOpen
<1>1. UNCHANGED <<serverVars, queue, unused, shown, historyVars>> BY DEF Stop
<1>2. CASE OwesStop(c)
  <2>1. PICK n \in {MessageSeq, StopSeq} :
          /\ inbox' = Append(inbox, RequestOf(c, "agent_stop", n))
          /\ call' = [call EXCEPT ![c].pc = "probing", ![c].stop = n]
    BY <1>2 DEF Stop, Send
  <2> DEFINE l == [call[c] EXCEPT !.pc = "probing", !.stop = n]
  <2>2. Moves(c, l) /\ l.pc = "probing" /\ l.stop = n BY <1>0 DEF Locals, Places, Moves
  <2>3. call' = [call EXCEPT ![c] = l] BY <2>1 DEF Shape
  <2>4. PICK r \in Sent : r = RequestOf(c, "agent_stop", n) /\ Author(r.id) = Attempt(c)
                          /\ r.session = call[c].session /\ r.type = "agent_stop" /\ r.seq = n
    BY <1>0, RequestIsSent DEF RequestTypes, MessageSeq, StopSeq
  <2>5. call'[c].stop = n BY <2>2, <2>3, UpdateIs
  <2>6. Goes(c)
    <3> HIDE DEF l
    <3> QED BY <1>0, <1>1, <1>2, <2>1, <2>2, <2>3, <2>4, <2>5 DEF Goes, historyVars, Moves, IsStart
  <2> QED BY <1>1, <1>2, <2>1, <2>3, <2>6
<1>3. CASE ~OwesStop(c)
  <2>1. call' = [call EXCEPT ![c].pc = "draining"] /\ inbox' = inbox BY <1>3 DEF Stop
  <2> DEFINE l == [call[c] EXCEPT !.pc = "draining"]
  <2>2. Moves(c, l) /\ l.pc = "draining" BY <1>0 DEF Locals, Places, Moves
  <2>3. call' = [call EXCEPT ![c] = l] BY <2>1 DEF Shape
  <2>4. Goes(c)
    <3> HIDE DEF l
    <3> QED BY <1>0, <1>1, <2>1, <2>2, <2>3 DEF Goes, historyVars, Moves
  <2> QED BY <1>1, <1>3, <2>1, <2>3, <2>4
<1> QED BY <1>2, <1>3

LEMMA ProbeGoes ==
  ASSUME Shape, RouteInv, ProbeInv, NEW c \in Calls, Probe(c)
  PROVE  /\ Goes(c) /\ UNCHANGED historyVars
         /\ LET f == Head(queue[c])
                again == f.re = StopId(c) /\ f.code = "invalid_request" /\ ~call[c].second
            IN \/ f.re # StopId(c) /\ UNCHANGED <<call, inbox>>
               \/ /\ again
                  /\ call' = [call EXCEPT ![c] = [call[c] EXCEPT !.stop = Alternate(call[c].stop),
                                                                 !.second = TRUE]]
                  /\ inbox' = Append(inbox, RequestOf(c, "agent_stop", Alternate(call[c].stop)))
               \/ /\ f.re = StopId(c) /\ ~again /\ inbox' = inbox
                  /\ call' = [call EXCEPT ![c] = [call[c] EXCEPT !.pc = "draining"]]
<1>0. call[c] \in Locals /\ RouteOpen(c) /\ call[c].pc = "probing" BY LocalsAt DEF Probe, RouteOpen
<1>1. UNCHANGED <<serverVars, unused, shown, historyVars>> BY DEF Probe
<1>2. queue[c] # <<>> /\ queue' = [queue EXCEPT ![c] = Tail(queue[c])] BY DEF Probe, Take, Shape
<1> DEFINE f == Head(queue[c])
           again == f.re = StopId(c) /\ f.code = "invalid_request" /\ ~call[c].second
<1>3. CASE f.re # StopId(c) /\ UNCHANGED <<call, inbox>>
  <2>1. call' = [call EXCEPT ![c] = call[c]] BY <1>3 DEF Shape
  <2>2. Goes(c) BY <1>0, <1>1, <1>2, <1>3, <2>1 DEF Goes, historyVars
  <2> QED BY <1>1, <1>3, <2>2
<1>4. CASE /\ again
           /\ Send(c, "agent_stop", Alternate(call[c].stop))
           /\ call' = [call EXCEPT ![c].stop = Alternate(@), ![c].second = TRUE]
  <2>1. Alternate(call[c].stop) \in {MessageSeq, StopSeq} BY DEF Alternate
  <2>2. PICK n \in {MessageSeq, StopSeq} : n = Alternate(call[c].stop) BY <2>1
  <2> DEFINE l == [call[c] EXCEPT !.stop = n, !.second = TRUE]
  <2>3. Moves(c, l) /\ l.pc = "probing" /\ l.stop = n BY <1>0 DEF Locals, Places, Moves
  <2>4. call' = [call EXCEPT ![c] = l] BY <1>4, <2>2 DEF Shape
  <2>5. PICK r \in Sent : r = RequestOf(c, "agent_stop", n) /\ Author(r.id) = Attempt(c)
                          /\ r.session = call[c].session /\ r.type = "agent_stop" /\ r.seq = n
    BY <1>0, RequestIsSent DEF RequestTypes, MessageSeq, StopSeq
  <2>6. call'[c].stop = n BY <2>3, <2>4, UpdateIs
  <2>7. inbox' = Append(inbox, r) BY <1>4, <2>2, <2>5 DEF Send
  <2>8. Goes(c)
    <3> HIDE DEF l
    <3> QED BY <1>0, <1>1, <1>2, <2>3, <2>4, <2>5, <2>6, <2>7 DEF Goes, historyVars, Moves, IsStart
  <2> QED BY <1>1, <1>4, <2>2, <2>4, <2>5, <2>7, <2>8
<1>5. CASE f.re = StopId(c) /\ ~again /\ inbox' = inbox /\ call' = [call EXCEPT ![c].pc = "draining"]
  <2> DEFINE l == [call[c] EXCEPT !.pc = "draining"]
  <2>2. Moves(c, l) /\ l.pc = "draining" BY <1>0 DEF Locals, Places, Moves
  <2>3. call' = [call EXCEPT ![c] = l] BY <1>5 DEF Shape
  <2>4. Goes(c)
    <3> HIDE DEF l
    <3> QED BY <1>0, <1>1, <1>2, <1>5, <2>2, <2>3 DEF Goes, historyVars, Moves
  <2> QED BY <1>1, <1>5, <2>3, <2>4
<1>6. \/ f.re # StopId(c) /\ UNCHANGED <<call, inbox>>
      \/ /\ again
         /\ Send(c, "agent_stop", Alternate(call[c].stop))
         /\ call' = [call EXCEPT ![c].stop = Alternate(@), ![c].second = TRUE]
      \/ f.re = StopId(c) /\ ~again /\ inbox' = inbox /\ call' = [call EXCEPT ![c].pc = "draining"]
  BY DEF Probe, StopId
<1> QED BY <1>3, <1>4, <1>5, <1>6

LEMMA ProbeAbandonedGoes ==
  ASSUME Shape, RouteInv, NEW c \in Calls, ProbeAbandoned(c)
  PROVE  Goes(c)
<1> DEFINE l == [call[c] EXCEPT !.pc = "draining", !.hurried = TRUE]
<1>0. call[c] \in Locals /\ RouteOpen(c) BY LocalsAt DEF ProbeAbandoned, RouteOpen
<1>1. Moves(c, l) /\ l.pc = "draining" BY <1>0 DEF Locals, Places, Moves
<1>2. call' = [call EXCEPT ![c] = l] BY DEF ProbeAbandoned, Shape
<1> HIDE DEF l
<1> QED BY <1>0, <1>1, <1>2 DEF Goes, historyVars, Moves, ProbeAbandoned

\* A call starts an attempt, on an id it is given or draws.
Begins(c, s, n, exclusive) ==
  /\ call[c].pc \in {"idle", "login"} /\ s \in Sessions /\ n \in 1..2 /\ n = call[c].attempt + 1
  /\ exclusive \in BOOLEAN
  /\ call' = [call EXCEPT ![c] = NewAttempt(s, n, exclusive)]
  /\ unused' \subseteq unused /\ s \notin unused' /\ RouteOf(s) = {}
  /\ exclusive => s \in unused
  /\ got' = [got EXCEPT ![c] = {}]
  /\ UNCHANGED <<serverVars, queue, inbox, shown, maker, ran>>

LEMMA BeginIs ==
  ASSUME Shape, RouteInv, NEW c \in Calls, Begin(c)
  PROVE  \E s \in Sessions, exclusive \in BOOLEAN : Begins(c, s, 1, exclusive)
<1>1. call[c] \in Locals /\ call[c].pc = "idle" /\ call[c].attempt = 0 /\ got[c] = {}
  BY LocalsAt DEF Begin, RouteInv
<1>2. UNCHANGED <<serverVars, queue, inbox, shown, maker, ran, got>> BY DEF Begin, historyVars
<1>3. got' = [got EXCEPT ![c] = {}] BY <1>1, <1>2 DEF Shape
<1>4. CASE (\E s \in Supplied : RouteOf(s) = {} /\ call' = [call EXCEPT ![c] = NewAttempt(s, 1, FALSE)])
           /\ UNCHANGED unused
  <2>1. PICK s \in Supplied : RouteOf(s) = {} /\ call' = [call EXCEPT ![c] = NewAttempt(s, 1, FALSE)]
    BY <1>4
  <2>2. s \in Sessions /\ s \notin unused' BY <1>4, CallAssumption DEF Shape
  <2>3. 1 \in 1..2 /\ 1 = call[c].attempt + 1 BY <1>1
  <2>4. Begins(c, s, 1, FALSE) BY <1>1, <1>2, <1>3, <1>4, <2>1, <2>2, <2>3 DEF Begins
  <2> QED BY <2>2, <2>4
<1>5. CASE \E s \in unused : call' = [call EXCEPT ![c] = NewAttempt(s, 1, TRUE)] /\ unused' = unused \ {s}
  <2>1. PICK s \in unused : call' = [call EXCEPT ![c] = NewAttempt(s, 1, TRUE)] /\ unused' = unused \ {s}
    BY <1>5
  <2>2. s \in Sessions BY DEF Shape
  <2>3. RouteOf(s) = {} BY DEF RouteInv, RouteOf
  <2>4. 1 \in 1..2 /\ 1 = call[c].attempt + 1 BY <1>1
  <2>5. unused' \subseteq unused /\ s \notin unused' BY <2>1
  <2>6. Begins(c, s, 1, TRUE) BY <1>1, <1>2, <1>3, <2>1, <2>2, <2>3, <2>4, <2>5 DEF Begins
  <2> QED BY <2>2, <2>6
<1> QED BY <1>4, <1>5 DEF Begin

LEMMA RetryIs ==
  ASSUME Shape, RouteInv, ToolInv, NEW c \in Calls, Retry(c)
  PROVE  call[c].pc = "login" /\ \E s \in Sessions : Begins(c, s, 2, FALSE)
<1>1. call[c].pc = "login" /\ call[c].attempt = 1 BY DEF Retry, ToolInv, MayRetry
<1>2. PICK s \in unused : call' = [call EXCEPT ![c] = NewAttempt(s, 2, FALSE)] /\ unused' = unused \ {s}
  BY DEF Retry
<1>3. s \in Sessions BY DEF Shape
<1>4. RouteOf(s) = {} BY DEF RouteInv, RouteOf
<1>5. 2 \in 1..2 /\ 2 = call[c].attempt + 1 BY <1>1
<1>6. unused' \subseteq unused /\ s \notin unused' BY <1>2
<1>7. Begins(c, s, 2, FALSE) BY <1>1, <1>2, <1>3, <1>4, <1>5, <1>6 DEF Begins, Retry
<1> QED BY <1>1, <1>3, <1>7

\* A call whose route is closed, or was.
Closes(c) ==
  /\ \E l \in Locals :
       /\ call' = [call EXCEPT ![c] = l]
       /\ l \in {[call[c] EXCEPT !.pc = "login"], [call[c] EXCEPT !.pc = "ended"]}
       /\ l.pc = "login" => MayRetry(c)
  /\ call[c].pc \in {"draining", "login"}
  /\ queue' = [queue EXCEPT ![c] = <<>>]
  /\ UNCHANGED <<serverVars, unused, inbox, shown, historyVars>>

LEMMA CloseIs ==
  ASSUME Shape, RouteInv, NEW c \in Calls, Close(c)
  PROVE  Closes(c)
<1> DEFINE at(p) == [call[c] EXCEPT !.pc = p]
<1>0. call[c] \in Locals BY LocalsAt
<1>1. at("login") \in Locals /\ at("ended") \in Locals /\ at("ended").pc = "ended" BY <1>0 DEF Locals, Places
<1>2. PICK l \in Locals : call' = [call EXCEPT ![c] = l] /\ l \in {at("login"), at("ended")}
                          /\ (l.pc = "login" => MayRetry(c))
  <2>1. CASE MayRetry(c)
    <3>1. call' = [call EXCEPT ![c] = at("login")] BY <2>1 DEF Close, Shape
    <3> HIDE DEF at
    <3> QED BY <1>1, <2>1, <3>1
  <2>2. CASE ~MayRetry(c)
    <3>1. call' = [call EXCEPT ![c] = at("ended")] BY <2>2 DEF Close, Shape
    <3> HIDE DEF at
    <3> QED BY <1>1, <2>2, <3>1
  <2> QED BY <2>1, <2>2
<1> QED BY <1>2 DEF Closes, Close

LEMMA LoginFailsIs ==
  ASSUME Shape, RouteInv, NEW c \in Calls, LoginFails(c)
  PROVE  Closes(c)
<1> DEFINE l == [call[c] EXCEPT !.pc = "ended"]
<1>0. call[c] \in Locals /\ call[c].pc = "login" /\ queue[c] = <<>>
  BY LocalsAt DEF LoginFails, RouteInv, RouteOpen
<1>1. l \in Locals /\ l.pc = "ended" BY <1>0 DEF Locals, Places
<1>2. call' = [call EXCEPT ![c] = l] BY DEF LoginFails, Shape
<1>3. queue' = [queue EXCEPT ![c] = <<>>] BY <1>0 DEF LoginFails, Shape
<1> QED BY <1>0, <1>1, <1>2, <1>3 DEF Closes, LoginFails

\* The reader passes f to the route of its session.
Passes(f) ==
  /\ wire # <<>> /\ f = wire[1] /\ wire' = Tail(wire)
  /\ queue' \in [Calls -> Seq(Frames)]
  /\ \A c \in Calls : queue'[c] = IF RouteOpen(c) /\ call[c].session = f.session
                                  THEN Append(queue[c], f) ELSE queue[c]
  /\ UNCHANGED <<registry, made, call, unused, inbox, shown, historyVars>>

LEMMA ReadFrameIs ==
  ASSUME Shape, ReadFrame
  PROVE  \E f \in Frames : Passes(f)
<1> DEFINE h == Head(wire)
<1>1. wire # <<>> /\ wire \in Seq(Frames) BY DEF ReadFrame, Shape
<1>2. h \in Frames /\ h = wire[1] BY <1>1, TailSeq
<1>3. PICK f \in Frames : f = h BY <1>2
<1>4. wire' = Tail(wire) BY <1>1, ReadOne DEF ReadFrame, Deliver
<1>5. queue' = [c \in Calls |-> IF c \in RouteOf(f.session) THEN Append(queue[c], f) ELSE queue[c]]
  BY <1>3 DEF ReadFrame
<1>6. \A c \in Calls : Append(queue[c], f) \in Seq(Frames) /\ queue[c] \in Seq(Frames)
  BY AppendSeq, LocalsAt
<1>7. queue' \in [Calls -> Seq(Frames)] BY <1>5, <1>6
<1>8. \A c \in Calls : queue'[c] = IF RouteOpen(c) /\ call[c].session = f.session
                                  THEN Append(queue[c], f) ELSE queue[c]
  BY <1>5 DEF RouteOf
<1>9. UNCHANGED <<registry, made, call, unused, inbox, shown, historyVars>> BY DEF ReadFrame, Deliver
<1> QED BY <1>1, <1>2, <1>3, <1>4, <1>7, <1>8, <1>9 DEF Passes

-----------------------------------------------------------------------------
(***************************************************************************)
(* Shape.                                                                  *)
(***************************************************************************)
LEMMA ReadsShape ==
  ASSUME Shape, NEW f \in Sent, Reads(f)
  PROVE  Shape'
<1>1. inbox' \in Seq(Sent) BY TailSeq DEF Shape, Reads
<1>2. UNCHANGED <<call, queue, unused, shown, got, ran>> BY DEF Reads, callVars
<1>3. f.session \in Sessions /\ Author(f.id) \in Calls \X (1..2) BY DEF Sent, Author, MessageIds
<1>4. CASE HostRefuses(f) BY <1>1, <1>2, <1>4, AppendSeq DEF Shape, HostRefuses
<1>5. CASE HostStarts(f)
  <2>1. wire' \in Seq(Frames) BY <1>5, AppendSeq DEF Shape, HostStarts
  <2>2. made' \in 0..MaxGen /\ made + 1 \in 1..MaxGen BY <1>5, CallAssumption DEF Shape, HostStarts
  <2> DEFINE e == [status |-> "ready", gen |-> made + 1, next |-> 2]
  <2>3. e \in Entries BY <2>2 DEF Entries, StopSeq
  <2>4. registry' = [registry EXCEPT ![f.session] = e] BY <1>5 DEF HostStarts
  <2> HIDE DEF e
  <2>5. registry' \in [Sessions -> Entries] BY <1>3, <2>3, <2>4 DEF Shape
  <2>6. maker' \in [1..MaxGen -> {<<>>} \union (Calls \X (1..2))] BY <1>3, <1>5, <2>2 DEF Shape, HostStarts
  <2> QED BY <1>1, <1>2, <2>1, <2>2, <2>5, <2>6 DEF Shape
<1>6. CASE HostTakes(f) BY <1>1, <1>2, <1>3, <1>6 DEF Shape, HostTakes
<1>7. CASE HostStops(f)
  <2>1. Absent \in Entries BY CallAssumption DEF Absent, Entries, StopSeq
  <2> QED BY <1>1, <1>2, <1>3, <1>7, <2>1, AppendSeq DEF Shape, HostStops
<1>8. CASE HostSkips(f) BY <1>1, <1>2, <1>8 DEF Shape, HostSkips
<1> QED BY <1>4, <1>5, <1>6, <1>7, <1>8 DEF Reads

LEMMA RunsShape ==
  ASSUME Shape, NEW s \in Sessions, Runs(s)
  PROVE  Shape'
  BY DEF Shape, Runs, Extends, callVars, historyVars

LEMMA PassesShape ==
  ASSUME Shape, NEW f \in Frames, Passes(f)
  PROVE  Shape'
  BY TailSeq DEF Shape, Passes, historyVars

LEMMA GoesShape ==
  ASSUME Shape, NEW c \in Calls, Goes(c),
         got' \in [Calls -> SUBSET (1..MaxGen)], ran' \in [Calls -> SUBSET {1, 2}]
  PROVE  Shape'
<1>0. queue[c] \in Seq(Frames) /\ inbox \in Seq(Sent) BY LocalsAt DEF Shape
<1>1. queue' \in [Calls -> Seq(Frames)]
  <2>1. CASE queue' = queue BY <2>1 DEF Shape
  <2>2. CASE queue[c] # <<>> /\ queue' = [queue EXCEPT ![c] = Tail(queue[c])]
    <3>1. Tail(queue[c]) \in Seq(Frames) BY <1>0, <2>2, TailSeq
    <3> QED BY <2>2, <3>1 DEF Shape
  <2> QED BY <2>1, <2>2 DEF Goes
<1>2. inbox' \in Seq(Sent)
  <2>1. \A r \in Sent : Append(inbox, r) \in Seq(Sent) BY <1>0, AppendSeq
  <2> QED BY <1>0, <2>1 DEF Goes
<1>3. call' \in [Calls -> Locals] BY DEF Shape, Goes
<1> QED BY <1>1, <1>2, <1>3 DEF Shape, Goes, serverVars

LEMMA BeginsShape ==
  ASSUME Shape, NEW c \in Calls, NEW s, NEW n, NEW x, Begins(c, s, n, x)
  PROVE  Shape'
<1>1. NewAttempt(s, n, x) \in Locals BY DEF Begins, NewAttempt, Locals, Places
<1>2. call' \in [Calls -> Locals] BY <1>1 DEF Begins, Shape
<1> QED BY <1>2 DEF Begins, Shape, serverVars

LEMMA ClosesShape ==
  ASSUME Shape, NEW c \in Calls, Closes(c)
  PROVE  Shape'
<1>1. call' \in [Calls -> Locals] BY DEF Shape, Closes
<1>2. <<>> \in Seq(Frames) OBVIOUS
<1> QED BY <1>1, <1>2 DEF Shape, Closes, serverVars, historyVars

-----------------------------------------------------------------------------
(***************************************************************************)
(* The facts the invariants need of a request the host reads.              *)
(***************************************************************************)
Replies(f) ==
  {g \in Frames : /\ g.re = f.id /\ g.session = f.session
                  /\ g.type \in {"agent_error", "agent_started", "agent_stopped"}}

LEMMA ReadsQueues ==
  ASSUME Shape, NEW f \in Sent, Reads(f)
  PROVE  /\ Len(inbox) \in Nat \ {0} /\ Len(inbox') = Len(inbox) - 1
         /\ 1 \in 1..Len(inbox) /\ f = inbox[1]
         /\ \A i \in 1..Len(inbox') : i + 1 \in 1..Len(inbox) /\ inbox'[i] = inbox[i + 1]
         /\ Extends(wire, wire', Replies(f))
         /\ UNCHANGED <<call, queue, unused, shown, got, ran>>
<1>1. inbox \in Seq(Sent) /\ wire \in Seq(Frames) /\ inbox # <<>> /\ inbox' = Tail(inbox) /\ f = inbox[1]
  BY DEF Shape, Reads
<1>2. Extends(wire, wire', Replies(f))
  <2>1. CASE wire' = wire BY <1>1, <2>1, ExtendsSelf
  <2>2. CASE \E g \in Replies(f) : wire' = Append(wire, g)
    <3>1. PICK g \in Replies(f) : wire' = Append(wire, g) BY <2>2
    <3>2. g \in Frames BY DEF Replies
    <3> QED BY <1>1, <3>1, <3>2, ExtendsOne
  <2> QED BY <2>1, <2>2 DEF Reads, HostRefuses, HostStarts, HostTakes, HostStops, HostSkips, Replies
<1>3. UNCHANGED <<call, queue, unused, shown, got, ran>> BY DEF Reads, callVars
<1> QED BY <1>1, <1>2, <1>3, TailSeq

LEMMA ReadsTable ==
  ASSUME Shape, TableInv, NEW f \in Sent, Reads(f)
  PROVE  /\ \/ UNCHANGED <<made, maker>>
            \/ /\ IsStart(f) /\ ~Held(f.session) /\ made \in Nat /\ made < MaxGen /\ made' = made + 1
               /\ maker' = [maker EXCEPT ![made + 1] = Author(f.id)] /\ maker[made + 1] = <<>>
         /\ \A s \in Sessions : Held(s)' =>
              \/ Held(s) /\ registry'[s].gen = registry[s].gen
              \/ /\ IsStart(f) /\ s = f.session /\ ~Held(s) /\ registry'[s].gen = made' /\ made' = made + 1
                 /\ maker' = [maker EXCEPT ![made + 1] = Author(f.id)]
         /\ \A s \in Sessions : Held(s)' => registry'[s].next = registry[s].next
              \/ (s = f.session /\ registry'[s].next \in {2, 3})
         /\ \A s \in Sessions : s # f.session => registry'[s] = registry[s]
<1>1. f.session \in Sessions /\ registry \in [Sessions -> Entries] /\ made \in Nat BY DEF Sent, Shape
<1>2. CASE HostRefuses(f) BY <1>1, <1>2 DEF HostRefuses, Held
<1>3. CASE HostStarts(f)
  <2>1. made + 1 \in 1..MaxGen /\ made + 1 > made BY <1>1, <1>3, CallAssumption DEF HostStarts
  <2>2. maker[made + 1] = <<>> BY <2>1 DEF TableInv
  <2>3. \A s \in Sessions : s # f.session => registry'[s] = registry[s] BY <1>1, <1>3 DEF HostStarts
  <2>4. registry'[f.session].gen = made + 1 /\ registry'[f.session].next = 2 BY <1>1, <1>3 DEF HostStarts
  <2> QED BY <1>1, <1>3, <2>2, <2>3, <2>4 DEF HostStarts, Held
<1>4. CASE HostTakes(f)
  <2>1. PICK n \in Entries : registry' = [registry EXCEPT ![f.session] = n]
                             /\ n.gen = registry[f.session].gen /\ n.next = 3 /\ Held(f.session)
    BY <1>4 DEF HostTakes
  <2> QED BY <1>1, <1>4, <2>1 DEF HostTakes, Held
<1>5. CASE HostStops(f)
  <2>1. \A s \in Sessions : s # f.session => registry'[s] = registry[s] BY <1>1, <1>5 DEF HostStops
  <2>2. ~Held(f.session)' BY <1>1, <1>5 DEF HostStops, Held, Absent
  <2> QED BY <1>1, <1>5, <2>1, <2>2 DEF HostStops, Held
<1>6. CASE HostSkips(f) BY <1>1, <1>6 DEF HostSkips, Held
<1> QED BY <1>2, <1>3, <1>4, <1>5, <1>6 DEF Reads

LEMMA ReadsMakers ==
  ASSUME Shape, TableInv, NEW f \in Sent, Reads(f)
  PROVE  /\ \A g \in 1..MaxGen : maker[g] # <<>> => maker'[g] = maker[g]
         /\ \A g \in 1..MaxGen : maker'[g] # maker[g] =>
              IsStart(f) /\ maker'[g] = Author(f.id) /\ maker[g] = <<>>
         /\ \A a \in Calls \X (1..2) :
              /\ Made(maker, a) => Made(maker', a)
              /\ Made(maker', a) => Made(maker, a) \/ (IsStart(f) /\ a = Author(f.id))
<1>1. \/ maker' = maker
      \/ /\ IsStart(f) /\ maker' = [maker EXCEPT ![made + 1] = Author(f.id)] /\ maker[made + 1] = <<>>
  BY ReadsTable
<1>2. \A g \in 1..MaxGen : maker'[g] # maker[g] =>
              IsStart(f) /\ maker'[g] = Author(f.id) /\ maker[g] = <<>>
  BY <1>1 DEF Shape
<1>3. \A a \in Calls \X (1..2) : a # <<>> OBVIOUS
<1> QED BY <1>2, <1>3 DEF Made

LEMMA ExtendsAt ==
  ASSUME NEW w \in Seq(Frames), NEW v, NEW F, Extends(w, v, F)
  PROVE  \A i \in 1..Len(v) : (i \in 1..Len(w) /\ v[i] = w[i]) \/ (i > Len(w) /\ v[i] \in F)
  BY DEF Extends

LEMMA GoesQueues ==
  ASSUME Shape, NEW c \in Calls, Goes(c)
  PROVE  /\ \A d \in Calls : /\ RouteOpen(d)' <=> RouteOpen(d)
                             /\ call'[d].session = call[d].session /\ call'[d].attempt = call[d].attempt
                             /\ call'[d].exclusive = call[d].exclusive
                             /\ Attempt(d)' = Attempt(d)
                             /\ d # c => call'[d] = call[d] /\ queue'[d] = queue[d]
                             /\ \A i \in 1..Len(queue'[d]) : \E k \in 1..Len(queue[d]) : queue'[d][i] = queue[d][k]
         /\ RouteOpen(c) /\ call'[c].pc \in {"reading", "tool", "leaving", "probing", "draining"}
         /\ call'[c] \in Locals
         /\ UNCHANGED <<registry, made, wire, maker, unused>>
<1>1. PICK l \in Locals :
        /\ call' = [call EXCEPT ![c] = l]
        /\ l.session = call[c].session /\ l.attempt = call[c].attempt /\ l.exclusive = call[c].exclusive
        /\ l.pc \in {"reading", "tool", "leaving", "probing", "draining"}
  BY DEF Goes
<1>2. call'[c] = l /\ \A d \in Calls : d # c => call'[d] = call[d] BY <1>1 DEF Shape
<1>3. RouteOpen(c) BY DEF Goes
<1>4. ASSUME NEW d \in Calls
      PROVE  \A i \in 1..Len(queue'[d]) : \E k \in 1..Len(queue[d]) : queue'[d][i] = queue[d][k]
  <2>1. CASE queue'[d] = queue[d] BY <2>1
  <2>2. CASE queue[d] # <<>> /\ queue'[d] = Tail(queue[d])
    <3>1. queue[d] \in Seq(Frames) BY LocalsAt
    <3> QED BY <2>2, <3>1, TailSeq
  <2> QED BY <2>1, <2>2 DEF Goes, Shape
<1>5. \A d \in Calls : d # c => queue'[d] = queue[d] BY DEF Goes, Shape
<1> QED BY <1>1, <1>2, <1>3, <1>4, <1>5 DEF RouteOpen, Attempt, Goes, serverVars

LEMMA GoesInbox ==
  ASSUME Shape, NEW c \in Calls, Goes(c)
  PROVE  \/ inbox' = inbox
         \/ \E r \in Sent :
              /\ inbox' = Append(inbox, r) /\ Len(inbox) \in Nat /\ Len(inbox') = Len(inbox) + 1
              /\ inbox'[Len(inbox) + 1] = r
              /\ \A i \in 1..Len(inbox) : inbox'[i] = inbox[i]
              /\ \A i \in 1..Len(inbox') : \/ i \in 1..Len(inbox) /\ inbox'[i] = inbox[i]
                                           \/ i = Len(inbox) + 1 /\ inbox'[i] = r
              /\ Author(r.id) = Attempt(c) /\ r.session = call[c].session
              /\ IsStart(r) => call[c].pc = "starting"
              /\ r.type = "agent_stop" =>
                   /\ call[c].pc = "probing" \/ (call[c].pc = "leaving" /\ OwesStop(c))
                   /\ r.seq = call'[c].stop
<1>1. inbox \in Seq(Sent) BY DEF Shape
<1>2. CASE inbox' = inbox BY <1>2
<1>3. CASE inbox' # inbox
  <2>1. PICK r \in Sent :
          /\ inbox' = Append(inbox, r)
          /\ Author(r.id) = Attempt(c) /\ r.session = call[c].session
          /\ IsStart(r) => call[c].pc = "starting"
          /\ r.type = "agent_stop" =>
               /\ call[c].pc = "probing" \/ (call[c].pc = "leaving" /\ OwesStop(c))
               /\ r.seq = call'[c].stop
    BY <1>3 DEF Goes
  <2> QED BY <1>1, <2>1, AppendSeq
<1> QED BY <1>2, <1>3

LEMMA BeginsFacts ==
  ASSUME Shape, RouteInv, NEW c \in Calls, NEW s, NEW n, NEW x, Begins(c, s, n, x)
  PROVE  /\ \A d \in Calls : d # c => call'[d] = call[d] /\ got'[d] = got[d]
         /\ call'[c] = NewAttempt(s, n, x) /\ got'[c] = {} /\ ~RouteOpen(c) /\ RouteOpen(c)'
         /\ \A d \in Calls : d # c => /\ RouteOpen(d)' <=> RouteOpen(d)
                                      /\ Attempt(d)' = Attempt(d)
         /\ \A d \in Calls : RouteOpen(d) => call[d].session # s
         /\ queue[c] = <<>> /\ Attempt(c)' = <<c, n>> /\ n \in Nat /\ call[c].attempt < n
         /\ UNCHANGED <<registry, made, wire, queue, inbox, shown, maker, ran>>
<1>1. call'[c] = NewAttempt(s, n, x) /\ \A d \in Calls : d # c => call'[d] = call[d]
  BY DEF Begins, Shape
<1>2. got'[c] = {} /\ \A d \in Calls : d # c => got'[d] = got[d] BY DEF Begins, Shape
<1>3. ~RouteOpen(c) /\ call[c].attempt \in Nat BY LocalsAt DEF Begins, RouteOpen, Locals
<1>4. \A d \in Calls : RouteOpen(d) => call[d].session # s BY DEF Begins, RouteOf
<1>5. queue[c] = <<>> BY <1>3 DEF RouteInv
<1> QED BY <1>1, <1>2, <1>3, <1>4, <1>5 DEF Begins, RouteOpen, Attempt, NewAttempt, serverVars

LEMMA ClosesFacts ==
  ASSUME Shape, NEW c \in Calls, Closes(c)
  PROVE  /\ \A d \in Calls : d # c => call'[d] = call[d] /\ queue'[d] = queue[d]
         /\ call'[c].pc \in {"login", "ended"} /\ queue'[c] = <<>> /\ ~RouteOpen(c)'
         /\ call'[c].pc = "login" => MayRetry(c)
         /\ \A d \in Calls : d # c => (RouteOpen(d)' <=> RouteOpen(d))
         /\ \A d \in Calls :
              /\ Attempt(d)' = Attempt(d) /\ call'[d].session = call[d].session
              /\ call'[d].attempt = call[d].attempt /\ call'[d].exclusive = call[d].exclusive
              /\ call'[d].accepted = call[d].accepted /\ call'[d].rejected = call[d].rejected
              /\ call'[d].stop = call[d].stop /\ call'[d].second = call[d].second
              /\ call'[d].hurried = call[d].hurried /\ call'[d].auth = call[d].auth
              /\ call'[d].barred = call[d].barred
         /\ call[c].pc \in {"draining", "login"}
         /\ UNCHANGED <<registry, made, wire, unused, inbox, maker, got, ran>>
<1>1. PICK l \in Locals :
        /\ call' = [call EXCEPT ![c] = l]
        /\ l \in {[call[c] EXCEPT !.pc = "login"], [call[c] EXCEPT !.pc = "ended"]}
        /\ l.pc = "login" => MayRetry(c)
  BY DEF Closes
<1>2. call[c] \in Locals BY LocalsAt
<1>3. call'[c] = l /\ \A d \in Calls : d # c => call'[d] = call[d] BY <1>1 DEF Shape
<1>4. /\ l.pc \in {"login", "ended"} /\ l.session = call[c].session
      /\ l.attempt = call[c].attempt /\ l.exclusive = call[c].exclusive
      /\ l.accepted = call[c].accepted /\ l.rejected = call[c].rejected
      /\ l.stop = call[c].stop /\ l.second = call[c].second
      /\ l.hurried = call[c].hurried /\ l.auth = call[c].auth /\ l.barred = call[c].barred
  BY <1>1, <1>2 DEF Locals
<1>5. queue'[c] = <<>> /\ \A d \in Calls : d # c => queue'[d] = queue[d] BY DEF Closes, Shape
<1> QED BY <1>1, <1>3, <1>4, <1>5 DEF Closes, RouteOpen, Attempt, serverVars, historyVars

-----------------------------------------------------------------------------
(***************************************************************************)
(* Registrations.                                                          *)
(***************************************************************************)
LEMMA ReadsTableInv ==
  ASSUME Shape, TableInv, NEW f \in Sent, Reads(f)
  PROVE  TableInv'
<1>0. made \in Nat /\ f.session \in Sessions BY DEF Shape, Sent
<1>1. \/ made' = made /\ maker' = maker
      \/ /\ made' = made + 1 /\ made + 1 \in 1..MaxGen
         /\ maker' = [maker EXCEPT ![made + 1] = Author(f.id)]
  <2>1. made < MaxGen => made + 1 \in 1..MaxGen BY <1>0, CallAssumption
  <2> QED BY <2>1, ReadsTable
<1>2. made' \in Nat /\ made <= made' BY <1>0, <1>1
<1>3. ASSUME NEW s \in Sessions, Held(s)' PROVE registry'[s].gen \in 1..made' /\ registry'[s].next \in {2, 3}
  <2>1. CASE Held(s) /\ registry'[s].gen = registry[s].gen
    <3>1. registry[s].gen \in 1..made /\ registry[s].next \in {2, 3} BY <2>1 DEF TableInv
    <3>2. registry'[s].next \in {2, 3} BY <1>3, <3>1, ReadsTable
    <3> QED BY <1>0, <1>2, <2>1, <3>1, <3>2
  <2>2. CASE ~Held(s) /\ s = f.session /\ registry'[s].gen = made' /\ made' = made + 1
    <3>1. registry'[s].next \in {2, 3}
      <4>1. CASE HostStarts(f) BY <1>0, <2>2, <4>1 DEF HostStarts, Shape
      <4>2. CASE ~HostStarts(f) BY <1>0, <2>2, <4>2 DEF Reads, HostRefuses, HostTakes, HostStops, HostSkips
      <4> QED BY <4>1, <4>2
    <3> QED BY <1>0, <2>2, <3>1
  <2> QED BY <1>3, <2>1, <2>2, ReadsTable
<1>4. ASSUME NEW s \in Sessions, NEW t \in Sessions, Held(s)', Held(t)', registry'[s].gen = registry'[t].gen
      PROVE  s = t
  <2>1. \A u \in Sessions : Held(u) => registry[u].gen \in 1..made BY DEF TableInv
  <2>2. \A u \in Sessions : Held(u)' => \/ Held(u) /\ registry'[u].gen = registry[u].gen
                                        \/ u = f.session /\ registry'[u].gen = made + 1
    BY ReadsTable
  <2>3. \A u \in 1..made : u # made + 1 BY <1>0
  <2> QED BY <1>4, <2>1, <2>2, <2>3 DEF TableInv
<1>5. ASSUME NEW g \in 1..MaxGen, g > made' PROVE maker'[g] = <<>>
  <2>1. g > made /\ g # made' BY <1>0, <1>2, <1>5
  <2>2. maker[g] = <<>> BY <2>1 DEF TableInv
  <2> QED BY <1>1, <2>1, <2>2 DEF Shape
<1> QED BY <1>3, <1>4, <1>5 DEF TableInv

LEMMA RunsTableInv ==
  ASSUME Shape, TableInv, NEW s \in Sessions, Runs(s)
  PROVE  TableInv'
<1>1. UNCHANGED <<made, maker>> BY DEF Runs, historyVars
<1>2. \A t \in Sessions : Held(t)' =>
       Held(t) /\ registry'[t].gen = registry[t].gen /\ registry'[t].next = registry[t].next
  BY DEF Runs
<1> QED BY <1>1, <1>2 DEF TableInv

LEMMA SameTableInv ==
  ASSUME TableInv, UNCHANGED <<registry, made, maker>>
  PROVE  TableInv'
  BY DEF TableInv, Held

-----------------------------------------------------------------------------
(***************************************************************************)
(* Routes.                                                                 *)
(***************************************************************************)
LEMMA SameRouteInv ==
  ASSUME RouteInv, UNCHANGED <<call, queue, unused, got, ran>>
  PROVE  RouteInv'
  BY DEF RouteInv, RouteOpen

LEMMA PassesRouteInv ==
  ASSUME Shape, RouteInv, NEW f \in Frames, Passes(f)
  PROVE  RouteInv'
<1>1. UNCHANGED <<call, unused, got, ran>> BY DEF Passes, historyVars
<1>2. ASSUME NEW c \in Calls
      PROVE  /\ ~RouteOpen(c) => queue'[c] = <<>>
             /\ \A i \in 1..Len(queue'[c]) : queue'[c][i].session = call[c].session
  <2>1. queue[c] \in Seq(Frames) BY LocalsAt
  <2>2. CASE RouteOpen(c) /\ call[c].session = f.session
    <3>1. queue'[c] = Append(queue[c], f) BY <2>2 DEF Passes
    <3>2. \A i \in 1..Len(queue'[c]) : queue'[c][i].session = call[c].session
      BY <2>1, <2>2, <3>1, AppendSeq DEF RouteInv
    <3> QED BY <2>2, <3>2
  <2>3. CASE ~(RouteOpen(c) /\ call[c].session = f.session)
    <3>1. queue'[c] = queue[c] BY <2>3 DEF Passes
    <3> QED BY <3>1 DEF RouteInv
  <2> QED BY <2>2, <2>3
<1> QED BY <1>1, <1>2 DEF RouteInv, RouteOpen

LEMMA GoesRouteInv ==
  ASSUME Shape, RouteInv, NEW c \in Calls, Goes(c),
         \A d \in Calls : d # c => got'[d] = got[d] /\ ran'[d] = ran[d]
  PROVE  RouteInv'
<1>1. /\ \A d \in Calls : /\ RouteOpen(d)' <=> RouteOpen(d)
                          /\ call'[d].session = call[d].session /\ call'[d].attempt = call[d].attempt
                          /\ d # c => call'[d] = call[d] /\ queue'[d] = queue[d]
      /\ RouteOpen(c) /\ call'[c].pc \in {"reading", "tool", "leaving", "probing", "draining"}
      /\ UNCHANGED unused
  BY GoesQueues
<1>2. ASSUME NEW d \in Calls, NEW i \in 1..Len(queue'[d]) PROVE queue'[d][i].session = call'[d].session
  <2>1. PICK k \in 1..Len(queue[d]) : queue'[d][i] = queue[d][k] BY GoesQueues
  <2> QED BY <1>1, <2>1 DEF RouteInv
<1>3. call[c].attempt # 0 BY <1>1 DEF RouteInv, RouteOpen
<1>4. ASSUME NEW d \in Calls
      PROVE  /\ RouteOpen(d)' => call'[d].session \in Sessions \ unused'
             /\ \A e \in Calls : RouteOpen(d)' /\ RouteOpen(e)' /\ call'[d].session = call'[e].session => d = e
             /\ ~RouteOpen(d)' => queue'[d] = <<>>
             /\ call'[d].pc # "idle" <=> call'[d].attempt # 0
             /\ call'[d].pc = "idle" => got'[d] = {} /\ ran'[d] = {}
  BY <1>1, <1>3 DEF RouteInv
<1> QED BY <1>2, <1>4 DEF RouteInv

LEMMA BeginsRouteInv ==
  ASSUME Shape, RouteInv, NEW c \in Calls, NEW s, NEW n, NEW x, Begins(c, s, n, x)
  PROVE  RouteInv'
<1>1. /\ \A d \in Calls : d # c => call'[d] = call[d] /\ got'[d] = got[d] /\ (RouteOpen(d)' <=> RouteOpen(d))
      /\ call'[c] = NewAttempt(s, n, x) /\ RouteOpen(c)' /\ queue[c] = <<>>
      /\ \A d \in Calls : RouteOpen(d) => call[d].session # s
      /\ UNCHANGED <<queue, ran>>
  BY BeginsFacts
<1>2. n # 0 /\ s \in Sessions /\ s \notin unused' /\ unused' \subseteq unused BY DEF Begins
<1>3. call'[c].pc = "starting" /\ call'[c].session = s /\ call'[c].attempt = n BY <1>1 DEF NewAttempt
<1>4. ASSUME NEW d \in Calls, d # c
      PROVE  /\ RouteOpen(d)' => call'[d].session \in Sessions \ unused' /\ call'[d].session # s
             /\ \A e \in Calls : e # c /\ RouteOpen(d)' /\ RouteOpen(e)' /\ call'[d].session = call'[e].session => d = e
             /\ ~RouteOpen(d)' => queue'[d] = <<>>
             /\ \A i \in 1..Len(queue'[d]) : queue'[d][i].session = call'[d].session
             /\ call'[d].pc # "idle" <=> call'[d].attempt # 0
             /\ call'[d].pc = "idle" => got'[d] = {} /\ ran'[d] = {}
  BY <1>1, <1>2, <1>4 DEF RouteInv
<1>5. \A i \in 1..Len(queue'[c]) : queue'[c][i].session = call'[c].session BY <1>1
<1> QED BY <1>1, <1>2, <1>3, <1>4, <1>5 DEF RouteInv

LEMMA ClosesRouteInv ==
  ASSUME Shape, RouteInv, NEW c \in Calls, Closes(c)
  PROVE  RouteInv'
<1>1. /\ \A d \in Calls : d # c => call'[d] = call[d] /\ queue'[d] = queue[d] /\ (RouteOpen(d)' <=> RouteOpen(d))
      /\ call'[c].pc \in {"login", "ended"} /\ queue'[c] = <<>> /\ ~RouteOpen(c)'
      /\ call'[c].attempt = call[c].attempt /\ call[c].pc \in {"draining", "login"}
      /\ UNCHANGED <<unused, got, ran>>
  BY ClosesFacts
<1>2. call[c].attempt # 0 BY <1>1 DEF RouteInv
<1>3. \A i \in 1..Len(queue'[c]) : queue'[c][i].session = call'[c].session BY <1>1
<1>4. ASSUME NEW d \in Calls
      PROVE  /\ RouteOpen(d)' => call'[d].session \in Sessions \ unused'
             /\ \A e \in Calls : RouteOpen(d)' /\ RouteOpen(e)' /\ call'[d].session = call'[e].session => d = e
             /\ ~RouteOpen(d)' => queue'[d] = <<>>
             /\ \A i \in 1..Len(queue'[d]) : queue'[d][i].session = call'[d].session
             /\ call'[d].pc # "idle" <=> call'[d].attempt # 0
             /\ call'[d].pc = "idle" => got'[d] = {} /\ ran'[d] = {}
  BY <1>1, <1>2, <1>3 DEF RouteInv
<1> QED BY <1>4 DEF RouteInv

-----------------------------------------------------------------------------
(***************************************************************************)
(* Ids nobody has drawn.                                                   *)
(***************************************************************************)
LEMMA ReadsUnusedInv ==
  ASSUME Shape, TableInv, UnusedInv, NEW f \in Sent, Reads(f)
  PROVE  UnusedInv'
<1>1. f.session \notin unused BY ReadsQueues DEF UnusedInv
<1>2. ASSUME NEW s \in unused PROVE ~Held(s)'
  <2>1. s \in Sessions /\ s # f.session BY <1>1 DEF Shape
  <2> QED BY <2>1, ReadsTable DEF UnusedInv
<1>3. ASSUME NEW s \in unused, NEW i \in 1..Len(inbox') PROVE inbox'[i].session # s
  BY ReadsQueues DEF UnusedInv
<1>4. ASSUME NEW s \in unused, NEW i \in 1..Len(wire') PROVE wire'[i].session # s
  <2>1. Extends(wire, wire', Replies(f)) /\ wire \in Seq(Frames) BY ReadsQueues DEF Shape
  <2>2. CASE i \in 1..Len(wire) /\ wire'[i] = wire[i] BY <2>2 DEF UnusedInv
  <2>3. CASE wire'[i] \in Replies(f) BY <1>1, <2>3 DEF Replies
  <2> QED BY <2>1, <2>2, <2>3, ExtendsAt
<1>5. unused' = unused BY ReadsQueues
<1> QED BY <1>2, <1>3, <1>4, <1>5 DEF UnusedInv

LEMMA RunsUnusedInv ==
  ASSUME Shape, UnusedInv, NEW r \in Sessions, Runs(r)
  PROVE  UnusedInv'
<1>1. r \notin unused /\ UNCHANGED <<unused, inbox>> BY DEF UnusedInv, Runs, callVars
<1>2. ASSUME NEW s \in unused PROVE ~Held(s)' BY DEF Runs, UnusedInv, Shape
<1>4. ASSUME NEW s \in unused, NEW i \in 1..Len(wire') PROVE wire'[i].session # s
  <2>1. Extends(wire, wire', Shows(r)) /\ wire \in Seq(Frames) BY DEF Shape, Runs
  <2>2. CASE i \in 1..Len(wire) /\ wire'[i] = wire[i] BY <2>2 DEF UnusedInv
  <2>3. CASE wire'[i] \in Shows(r) BY <1>1, <2>3 DEF Shows
  <2> QED BY <2>1, <2>2, <2>3, ExtendsAt
<1> QED BY <1>1, <1>2, <1>4 DEF UnusedInv

LEMMA PassesUnusedInv ==
  ASSUME Shape, UnusedInv, NEW f \in Frames, Passes(f)
  PROVE  UnusedInv'
<1>1. \A i \in 1..Len(wire') : \E k \in 1..Len(wire) : wire'[i] = wire[k]
  BY TailSeq DEF Passes, Shape
<1> QED BY <1>1 DEF UnusedInv, Passes, Held

LEMMA GoesUnusedInv ==
  ASSUME Shape, RouteInv, UnusedInv, NEW c \in Calls, Goes(c)
  PROVE  UnusedInv'
<1>1. RouteOpen(c) /\ UNCHANGED <<registry, wire, unused>> BY GoesQueues
<1>2. call[c].session \notin unused BY <1>1 DEF RouteInv
<1>3. ASSUME NEW s \in unused, NEW i \in 1..Len(inbox') PROVE inbox'[i].session # s
  BY <1>2, GoesInbox DEF UnusedInv
<1> QED BY <1>1, <1>3 DEF UnusedInv, Held

LEMMA SameUnusedInv ==
  ASSUME UnusedInv, unused' \subseteq unused, UNCHANGED <<registry, inbox, wire>>
  PROVE  UnusedInv'
  BY DEF UnusedInv, Held

-----------------------------------------------------------------------------
(***************************************************************************)
(* Attempts.                                                               *)
(***************************************************************************)
LEMMA AuthorIsPair ==
  ASSUME NEW id \in MessageIds
  PROVE  /\ Author(id) \in Calls \X (1..2) /\ Author(id)[1] = id[1] /\ Author(id)[2] = id[2]
         /\ Author(Author(id)) = Author(id) /\ Author(id) # <<>>
  BY DEF Author, MessageIds

LEMMA HeldGen ==
  ASSUME Shape, TableInv
  PROVE  \A s \in Sessions : Held(s) => registry[s].gen \in 1..MaxGen /\ registry[s].gen \in 1..made
<1>1. made \in 0..MaxGen BY DEF Shape
<1>2. \A g \in 1..made : g \in 1..MaxGen BY <1>1, CallAssumption
<1> QED BY <1>2 DEF TableInv

LEMMA WireAt ==
  ASSUME Shape
  PROVE  /\ \A i \in 1..Len(wire) : wire[i] \in Frames
         /\ \A c \in Calls : \A i \in 1..Len(queue[c]) : queue[c][i] \in Frames
         /\ \A i \in 1..Len(inbox) : inbox[i] \in Sent
<1>1. wire \in Seq(Frames) /\ inbox \in Seq(Sent) /\ \A c \in Calls : queue[c] \in Seq(Frames)
  BY DEF Shape
<1> QED BY <1>1

LEMMA ReadsAttemptInv ==
  ASSUME Shape, TableInv, AttemptInv, NEW f \in Sent, Reads(f)
  PROVE  AttemptInv'
<1> SUFFICES ASSUME NEW c \in Calls
    PROVE  /\ \A i \in 1..Len(inbox') :
                /\ Past(inbox'[i].id, c, call[c])
                /\ Author(inbox'[i].id) = Attempt(c) => inbox'[i].session = call[c].session
           /\ \A g \in 1..MaxGen : maker'[g] # <<>> => Past(maker'[g], c, call[c])
           /\ \A s \in Sessions :
                Held(s)' /\ maker'[registry'[s].gen] = Attempt(c) => s = call[c].session
           /\ \A i \in 1..Len(wire') : wire'[i].re # None =>
                /\ Past(wire'[i].re, c, call[c])
                /\ Author(wire'[i].re) = Attempt(c) => wire'[i].session = call[c].session
           /\ \A d \in Calls : \A i \in 1..Len(queue[d]) :
                queue[d][i].re # None => Past(queue[d][i].re, c, call[c])
  <2>1. UNCHANGED <<call, queue>> BY ReadsQueues
  <2> QED BY <2>1 DEF AttemptInv, Attempt
<1>1. /\ Past(f.id, c, call[c])
      /\ Author(f.id) = Attempt(c) => f.session = call[c].session
      /\ f.id \in MessageIds
  BY ReadsQueues DEF AttemptInv, Sent
<1>2. Past(Author(f.id), c, call[c]) BY <1>1, AuthorIsPair DEF Past
<1>3. \A i \in 1..Len(inbox') :
        /\ Past(inbox'[i].id, c, call[c])
        /\ Author(inbox'[i].id) = Attempt(c) => inbox'[i].session = call[c].session
  BY ReadsQueues DEF AttemptInv
<1>4. \A g \in 1..MaxGen : maker'[g] # <<>> => Past(maker'[g], c, call[c])
  BY <1>2, ReadsMakers DEF AttemptInv
<1>5. ASSUME NEW s \in Sessions, Held(s)', maker'[registry'[s].gen] = Attempt(c) PROVE s = call[c].session
  <2>1. CASE Held(s) /\ registry'[s].gen = registry[s].gen
    <3>1. registry[s].gen \in 1..made /\ made <= MaxGen /\ made \in Nat BY <2>1 DEF TableInv, Shape
    <3>2. registry[s].gen \in 1..MaxGen /\ registry[s].gen # made + 1 BY <3>1, CallAssumption
    <3>3. maker'[registry[s].gen] = maker[registry[s].gen] BY <3>2, ReadsTable DEF Shape
    <3> QED BY <1>5, <2>1, <3>3 DEF AttemptInv
  <2>2. CASE s = f.session /\ registry'[s].gen = made' /\ made' = made + 1
             /\ maker' = [maker EXCEPT ![made + 1] = Author(f.id)]
    <3>0. made \in 0..MaxGen /\ made' # made BY <2>2 DEF Shape
    <3>1. made' \in 1..MaxGen BY <2>2, <3>0, ReadsTable, CallAssumption
    <3>2. maker'[registry'[s].gen] = Author(f.id) BY <2>2, <3>1 DEF Shape
    <3> QED BY <1>1, <1>5, <2>2, <3>2
  <2> QED BY <1>5, <2>1, <2>2, ReadsTable
<1>6. ASSUME NEW i \in 1..Len(wire'), wire'[i].re # None
      PROVE  /\ Past(wire'[i].re, c, call[c])
             /\ Author(wire'[i].re) = Attempt(c) => wire'[i].session = call[c].session
  <2>1. Extends(wire, wire', Replies(f)) /\ wire \in Seq(Frames) BY ReadsQueues DEF Shape
  <2>2. CASE i \in 1..Len(wire) /\ wire'[i] = wire[i] BY <1>6, <2>2 DEF AttemptInv
  <2>3. CASE wire'[i] \in Replies(f) BY <1>1, <2>3 DEF Replies
  <2> QED BY <2>1, <2>2, <2>3, ExtendsAt
<1>7. \A d \in Calls : \A i \in 1..Len(queue[d]) :
        queue[d][i].re # None => Past(queue[d][i].re, c, call[c])
  BY DEF AttemptInv
<1> QED BY <1>3, <1>4, <1>5, <1>6, <1>7

LEMMA RunsAttemptInv ==
  ASSUME Shape, AttemptInv, NEW r \in Sessions, Runs(r)
  PROVE  AttemptInv'
<1>1. UNCHANGED <<call, queue, inbox, maker>> BY DEF Runs, callVars, historyVars
<1>2. ASSUME NEW c \in Calls, NEW i \in 1..Len(wire'), wire'[i].re # None
      PROVE  /\ Past(wire'[i].re, c, call[c])
             /\ Author(wire'[i].re) = Attempt(c) => wire'[i].session = call[c].session
  <2>1. Extends(wire, wire', Shows(r)) /\ wire \in Seq(Frames) BY DEF Shape, Runs
  <2>2. CASE i \in 1..Len(wire) /\ wire'[i] = wire[i] BY <1>1, <1>2, <2>2 DEF AttemptInv
  <2>3. CASE wire'[i] \in Shows(r) BY <1>2, <2>3 DEF Shows
  <2> QED BY <2>1, <2>2, <2>3, ExtendsAt
<1>3. ASSUME NEW c \in Calls, NEW s \in Sessions, Held(s)', maker'[registry'[s].gen] = Attempt(c)
      PROVE s = call[c].session
  <2>1. Held(s) /\ registry'[s].gen = registry[s].gen BY <1>3 DEF Runs
  <2> QED BY <1>1, <1>3, <2>1 DEF AttemptInv
<1> QED BY <1>1, <1>2, <1>3 DEF AttemptInv, Attempt

LEMMA PassesAttemptInv ==
  ASSUME Shape, AttemptInv, NEW f \in Frames, Passes(f)
  PROVE  AttemptInv'
<1>1. UNCHANGED <<call, registry, inbox, maker>> BY DEF Passes, historyVars
<1>2. \A i \in 1..Len(wire') : \E k \in 1..Len(wire) : wire'[i] = wire[k]
  BY TailSeq DEF Passes, Shape
<1>3. ASSUME NEW c \in Calls, NEW d \in Calls, NEW i \in 1..Len(queue'[d]), queue'[d][i].re # None
      PROVE  Past(queue'[d][i].re, c, call[c])
  <2>1. queue[d] \in Seq(Frames) BY LocalsAt
  <2>2. f = wire[1] /\ 1 \in 1..Len(wire) BY TailSeq DEF Passes, Shape
  <2>3. \/ i \in 1..Len(queue[d]) /\ queue'[d][i] = queue[d][i]
        \/ queue'[d][i] = f
    <3>1. CASE queue'[d] = queue[d] BY <3>1
    <3>2. CASE queue'[d] = Append(queue[d], f) BY <2>1, <3>2, AppendSeq
    <3> QED BY <3>1, <3>2 DEF Passes
  <2> QED BY <1>3, <2>2, <2>3 DEF AttemptInv
<1> QED BY <1>1, <1>2, <1>3 DEF AttemptInv, Attempt, Held

LEMMA GoesAttemptInv ==
  ASSUME Shape, RouteInv, AttemptInv, NEW c \in Calls, Goes(c)
  PROVE  AttemptInv'
<1>1. /\ \A d \in Calls : /\ call'[d].session = call[d].session /\ call'[d].attempt = call[d].attempt
                          /\ Attempt(d)' = Attempt(d)
                          /\ d # c => call'[d] = call[d]
                          /\ \A i \in 1..Len(queue'[d]) : \E k \in 1..Len(queue[d]) : queue'[d][i] = queue[d][k]
      /\ call'[c].pc # "starting"
      /\ UNCHANGED <<registry, wire, maker>>
  BY GoesQueues
<1>2. ASSUME NEW id, NEW d \in Calls
      PROVE  Past(id, d, call[d]) => Past(id, d, call'[d])
  BY <1>1 DEF Past
<1>3. ASSUME NEW d \in Calls, NEW i \in 1..Len(inbox')
      PROVE  /\ Past(inbox'[i].id, d, call'[d])
             /\ Author(inbox'[i].id) = Attempt(d) => inbox'[i].session = call[d].session
  <2>1. CASE i \in 1..Len(inbox) /\ inbox'[i] = inbox[i] BY <1>2, <2>1 DEF AttemptInv
  <2>2. CASE ~(i \in 1..Len(inbox) /\ inbox'[i] = inbox[i])
    <3>1. PICK r \in Sent : inbox'[i] = r /\ Author(r.id) = Attempt(c) /\ r.session = call[c].session
      BY <2>2, GoesInbox
    <3>2. r.id[1] = c /\ r.id[2] = call[c].attempt BY <3>1, AuthorIsPair DEF Attempt, Author, Sent
    <3>3. call[c].attempt \in Nat BY LocalsAt DEF Locals
    <3>4. d = c => Past(r.id, d, call'[d]) BY <1>1, <3>2, <3>3 DEF Past
    <3>5. d # c => Past(r.id, d, call'[d]) BY <3>2 DEF Past, Author
    <3>6. Author(r.id) = Attempt(d) => r.session = call[d].session BY <3>1 DEF Attempt
    <3> QED BY <3>1, <3>4, <3>5, <3>6
  <2> QED BY <2>1, <2>2
<1>4. ASSUME NEW d \in Calls, NEW e \in Calls, NEW i \in 1..Len(queue'[e]), queue'[e][i].re # None
      PROVE  Past(queue'[e][i].re, d, call'[d])
  <2>1. PICK k \in 1..Len(queue[e]) : queue'[e][i] = queue[e][k] BY <1>1
  <2>2. Past(queue[e][k].re, d, call[d]) BY <1>4, <2>1 DEF AttemptInv
  <2> QED BY <1>2, <2>1, <2>2
<1>5. ASSUME NEW d \in Calls
      PROVE  /\ \A g \in 1..MaxGen : maker'[g] # <<>> => Past(maker'[g], d, call'[d])
             /\ \A s \in Sessions : Held(s)' /\ maker'[registry'[s].gen] = Attempt(d)' => s = call'[d].session
             /\ \A i \in 1..Len(wire') : wire'[i].re # None =>
                  /\ Past(wire'[i].re, d, call'[d])
                  /\ Author(wire'[i].re) = Attempt(d)' => wire'[i].session = call'[d].session
  <2>1. Attempt(d)' = Attempt(d) /\ call'[d].session = call[d].session
        /\ UNCHANGED <<registry, wire, maker>>
    BY <1>1
  <2>2. \A t \in Sessions : Held(t)' <=> Held(t) BY <2>1 DEF Held
  <2> QED BY <1>2, <2>1, <2>2 DEF AttemptInv
<1> QED BY <1>1, <1>3, <1>4, <1>5 DEF AttemptInv

LEMMA BeginsAttemptInv ==
  ASSUME Shape, TableInv, RouteInv, AttemptInv, NEW c \in Calls, NEW s, NEW n, NEW x,
         Begins(c, s, n, x)
  PROVE  AttemptInv'
<1>1. /\ \A d \in Calls : d # c => call'[d] = call[d] /\ Attempt(d)' = Attempt(d)
      /\ call'[c] = NewAttempt(s, n, x)
      /\ queue[c] = <<>> /\ Attempt(c)' = <<c, n>> /\ n \in Nat /\ call[c].attempt < n
      /\ UNCHANGED <<registry, made, wire, queue, inbox, maker>>
  BY BeginsFacts
<1>2. call[c].attempt \in Nat /\ call'[c].attempt = n BY <1>1, LocalsAt DEF Locals, NewAttempt
<1>3. ASSUME NEW id, id \in MessageIds \/ id \in Calls \X (1..2), Past(id, c, call[c])
      PROVE  Past(id, c, call'[c]) /\ Author(id) # Attempt(c)'
  <2>1. Author(id)[1] = id[1] /\ Author(id)[2] = id[2] /\ id[2] \in 1..2 BY <1>3 DEF Author, MessageIds
  <2>2. id[1] = c => id[2] <= call[c].attempt BY <1>3 DEF Past
  <2>3. id[1] = c => id[2] < n BY <1>1, <1>2, <2>1, <2>2
  <2>4. Author(id) # <<c, n>> BY <1>1, <2>1, <2>3
  <2> QED BY <1>1, <1>2, <2>1, <2>3, <2>4 DEF Past
<1>4. ASSUME NEW i \in 1..Len(inbox) PROVE Past(inbox[i].id, c, call'[c]) /\ Author(inbox[i].id) # Attempt(c)'
  <2>1. inbox[i].id \in MessageIds /\ Past(inbox[i].id, c, call[c]) BY DEF AttemptInv, Shape, Sent
  <2> QED BY <1>3, <2>1
<1>5. ASSUME NEW g \in 1..MaxGen, maker[g] # <<>> PROVE Past(maker[g], c, call'[c]) /\ Author(maker[g]) # Attempt(c)'
  <2>1. maker[g] \in Calls \X (1..2) /\ Past(maker[g], c, call[c]) BY <1>5 DEF AttemptInv, Shape
  <2> QED BY <1>3, <2>1
<1>6. ASSUME NEW i \in 1..Len(wire), wire[i].re # None
      PROVE Past(wire[i].re, c, call'[c]) /\ Author(wire[i].re) # Attempt(c)'
  <2>0. wire[i] \in Frames BY WireAt
  <2>1. wire[i].re \in MessageIds /\ Past(wire[i].re, c, call[c]) BY <1>6, <2>0 DEF AttemptInv, Frames
  <2> QED BY <1>3, <2>1
<1>10. ASSUME NEW e \in Calls, NEW i \in 1..Len(queue[e]), queue[e][i].re # None
      PROVE Past(queue[e][i].re, c, call'[c]) /\ Author(queue[e][i].re) # Attempt(c)'
  <2>0. queue[e][i] \in Frames BY WireAt
  <2>1. queue[e][i].re \in MessageIds /\ Past(queue[e][i].re, c, call[c]) BY <1>10, <2>0 DEF AttemptInv, Frames
  <2> QED BY <1>3, <2>1
<1>7. ASSUME NEW t \in Sessions, Held(t) PROVE maker[registry[t].gen] # Attempt(c)'
  <2>1. registry[t].gen \in 1..MaxGen BY <1>7, HeldGen
  <2>2. CASE maker[registry[t].gen] = <<>> BY <1>1, <2>2
  <2>3. CASE maker[registry[t].gen] # <<>>
    <3>1. maker[registry[t].gen] \in Calls \X (1..2) BY <2>1, <2>3 DEF Shape
    <3>2. Author(maker[registry[t].gen]) = maker[registry[t].gen] BY <3>1 DEF Author
    <3> QED BY <1>5, <2>1, <2>3, <3>2
  <2> QED BY <2>2, <2>3
<1>8. ASSUME NEW d \in Calls, d # c
      PROVE  /\ \A i \in 1..Len(inbox') :
                  /\ Past(inbox'[i].id, d, call'[d])
                  /\ Author(inbox'[i].id) = Attempt(d)' => inbox'[i].session = call'[d].session
             /\ \A g \in 1..MaxGen : maker'[g] # <<>> => Past(maker'[g], d, call'[d])
             /\ \A t \in Sessions : Held(t)' /\ maker'[registry'[t].gen] = Attempt(d)' => t = call'[d].session
             /\ \A i \in 1..Len(wire') : wire'[i].re # None =>
                  /\ Past(wire'[i].re, d, call'[d])
                  /\ Author(wire'[i].re) = Attempt(d)' => wire'[i].session = call'[d].session
             /\ \A e \in Calls : \A i \in 1..Len(queue'[e]) :
                  queue'[e][i].re # None => Past(queue'[e][i].re, d, call'[d])
  BY <1>1, <1>8 DEF AttemptInv, Held
<1>9.        /\ \A i \in 1..Len(inbox') :
                  /\ Past(inbox'[i].id, c, call'[c])
                  /\ Author(inbox'[i].id) = Attempt(c)' => inbox'[i].session = call'[c].session
             /\ \A g \in 1..MaxGen : maker'[g] # <<>> => Past(maker'[g], c, call'[c])
             /\ \A t \in Sessions : Held(t)' /\ maker'[registry'[t].gen] = Attempt(c)' => t = call'[c].session
             /\ \A i \in 1..Len(wire') : wire'[i].re # None =>
                  /\ Past(wire'[i].re, c, call'[c])
                  /\ Author(wire'[i].re) = Attempt(c)' => wire'[i].session = call'[c].session
             /\ \A e \in Calls : \A i \in 1..Len(queue'[e]) :
                  queue'[e][i].re # None => Past(queue'[e][i].re, c, call'[c])
  BY <1>1, <1>4, <1>5, <1>6, <1>7, <1>10 DEF Past, Held
<1> QED BY <1>8, <1>9 DEF AttemptInv

LEMMA ClosesAttemptInv ==
  ASSUME Shape, AttemptInv, NEW c \in Calls, Closes(c)
  PROVE  AttemptInv'
<1>1. /\ \A d \in Calls : d # c => call'[d] = call[d] /\ queue'[d] = queue[d]
      /\ call'[c].pc \in {"login", "ended"} /\ queue'[c] = <<>>
      /\ \A d \in Calls :
           /\ Attempt(d)' = Attempt(d) /\ call'[d].session = call[d].session
           /\ call'[d].attempt = call[d].attempt
      /\ UNCHANGED <<registry, made, wire, inbox, maker>>
  BY ClosesFacts
<1>2. ASSUME NEW id, NEW d \in Calls
      PROVE  Past(id, d, call[d]) => Past(id, d, call'[d])
  BY <1>1 DEF Past
<1>3. ASSUME NEW d \in Calls, NEW e \in Calls, NEW i \in 1..Len(queue'[e]), queue'[e][i].re # None
      PROVE  Past(queue'[e][i].re, d, call'[d])
  <2>1. e # c BY <1>1, <1>3
  <2>2. Past(queue[e][i].re, d, call[d]) BY <1>1, <1>3, <2>1 DEF AttemptInv
  <2> QED BY <1>1, <1>2, <2>1, <2>2
<1>4. ASSUME NEW d \in Calls
      PROVE  /\ \A i \in 1..Len(inbox') :
                  /\ Past(inbox'[i].id, d, call'[d])
                  /\ Author(inbox'[i].id) = Attempt(d)' => inbox'[i].session = call'[d].session
             /\ \A g \in 1..MaxGen : maker'[g] # <<>> => Past(maker'[g], d, call'[d])
             /\ \A t \in Sessions : Held(t)' /\ maker'[registry'[t].gen] = Attempt(d)' => t = call'[d].session
             /\ \A i \in 1..Len(wire') : wire'[i].re # None =>
                  /\ Past(wire'[i].re, d, call'[d])
                  /\ Author(wire'[i].re) = Attempt(d)' => wire'[i].session = call'[d].session
  <2>1. Attempt(d)' = Attempt(d) /\ call'[d].session = call[d].session
        /\ UNCHANGED <<registry, wire, inbox, maker>>
    BY <1>1
  <2>2. \A t \in Sessions : Held(t)' <=> Held(t) BY <2>1 DEF Held
  <2> QED BY <1>2, <2>1, <2>2 DEF AttemptInv
<1> QED BY <1>3, <1>4 DEF AttemptInv

-----------------------------------------------------------------------------
(***************************************************************************)
(* Starts.                                                                 *)
(***************************************************************************)
LEMMA AttemptIsPair ==
  ASSUME Shape, RouteInv, NEW c \in Calls, call[c].pc # "idle"
  PROVE  Attempt(c) \in Calls \X (1..2) /\ Attempt(c) # <<>>
<1>1. call[c].attempt \in 1..2 BY LocalsAt DEF RouteInv, Locals
<1> QED BY <1>1 DEF Attempt

LEMMA RequestAt ==
  ASSUME Shape, NEW i \in 1..Len(inbox)
  PROVE  /\ inbox[i] \in Sent /\ inbox[i].id \in MessageIds /\ inbox[i].session \in Sessions
         /\ Author(inbox[i].id) \in Calls \X (1..2)
<1>1. inbox[i] \in Sent BY WireAt
<1>2. inbox[i].id \in MessageIds /\ inbox[i].session \in Sessions BY <1>1 DEF Sent
<1> QED BY <1>1, <1>2, AuthorIsPair

\* Before it writes its start, nothing is of an attempt.
LEMMA FreshStart ==
  ASSUME Shape, RouteInv, AttemptInv, NEW c \in Calls, call[c].pc = "starting"
  PROVE  /\ ~Made(maker, Attempt(c))
         /\ \A i \in 1..Len(inbox) : Author(inbox[i].id) # Attempt(c)
         /\ \A i \in 1..Len(wire) : wire[i].re # None => Author(wire[i].re) # Attempt(c)
         /\ \A d \in Calls : \A i \in 1..Len(queue[d]) :
              queue[d][i].re # None => Author(queue[d][i].re) # Attempt(c)
<1>1. Attempt(c) # <<>> BY AttemptIsPair
<1>2. ASSUME NEW g \in 1..MaxGen, maker[g] = Attempt(c) PROVE FALSE
  <2>1. Author(maker[g]) # Attempt(c) BY <1>1, <1>2 DEF AttemptInv, Past, Attempt
  <2> QED BY <1>2, <2>1 DEF Author, Attempt
<1> QED BY <1>2 DEF AttemptInv, Past, Attempt, Made

LEMMA ReadsStartInv ==
  ASSUME Shape, TableInv, StartInv, NEW f \in Sent, Reads(f)
  PROVE  StartInv'
<1>1. /\ Len(inbox) \in Nat \ {0} /\ 1 \in 1..Len(inbox) /\ f = inbox[1]
      /\ \A i \in 1..Len(inbox') : i + 1 \in 1..Len(inbox) /\ inbox'[i] = inbox[i + 1]
  BY ReadsQueues
<1>2. ASSUME NEW i \in 1..Len(inbox'), IsStart(inbox'[i]) PROVE ~Made(maker', Author(inbox'[i].id))
  <2>1. i + 1 \in 1..Len(inbox) /\ inbox'[i] = inbox[i + 1] /\ i + 1 # 1 BY <1>1
  <2>2. PICK a \in Calls \X (1..2) : a = Author(inbox[i + 1].id) BY <2>1, RequestAt
  <2>3. ~Made(maker, a) BY <1>2, <2>1, <2>2 DEF StartInv
  <2>4. IsStart(f) => Author(f.id) # a BY <1>1, <1>2, <2>1, <2>2 DEF StartInv
  <2>5. ~Made(maker', a) BY <2>3, <2>4, ReadsMakers
  <2> QED BY <2>1, <2>2, <2>5
<1>3. ASSUME NEW i \in 1..Len(inbox'), NEW j \in 1..Len(inbox'), IsStart(inbox'[i]), IsStart(inbox'[j]),
             Author(inbox'[j].id) = Author(inbox'[i].id)
      PROVE  i = j
  <2>1. i + 1 = j + 1 BY <1>1, <1>3 DEF StartInv
  <2> QED BY <2>1
<1> QED BY <1>2, <1>3 DEF StartInv

LEMMA GoesStartInv ==
  ASSUME Shape, RouteInv, AttemptInv, StartInv, NEW c \in Calls, Goes(c)
  PROVE  StartInv'
<1>1. maker' = maker BY GoesQueues
<1>2. CASE inbox' = inbox BY <1>1, <1>2 DEF StartInv
<1>3. CASE inbox' # inbox
  <2>1. PICK r \in Sent :
          /\ Len(inbox) \in Nat
          /\ \A i \in 1..Len(inbox') : \/ i \in 1..Len(inbox) /\ inbox'[i] = inbox[i]
                                       \/ i = Len(inbox) + 1 /\ inbox'[i] = r
          /\ Author(r.id) = Attempt(c)
          /\ IsStart(r) => call[c].pc = "starting"
    BY <1>3, GoesInbox
  <2>2. IsStart(r) => /\ ~Made(maker, Author(r.id))
                      /\ \A i \in 1..Len(inbox) : Author(inbox[i].id) # Author(r.id)
    BY <2>1, FreshStart
  <2>3. ASSUME NEW i \in 1..Len(inbox'), IsStart(inbox'[i]) PROVE ~Made(maker', Author(inbox'[i].id))
    BY <1>1, <2>1, <2>2, <2>3 DEF StartInv
  <2>4. ASSUME NEW i \in 1..Len(inbox'), NEW j \in 1..Len(inbox'), IsStart(inbox'[i]), IsStart(inbox'[j]),
               Author(inbox'[j].id) = Author(inbox'[i].id)
        PROVE  i = j
    BY <2>1, <2>2, <2>4 DEF StartInv
  <2> QED BY <2>3, <2>4 DEF StartInv
<1> QED BY <1>2, <1>3

LEMMA SameStartInv ==
  ASSUME StartInv, UNCHANGED <<inbox, maker>>
  PROVE  StartInv'
  BY DEF StartInv

-----------------------------------------------------------------------------
(***************************************************************************)
(* The owner of a session.                                                 *)
(***************************************************************************)
LEMMA ReadsMade ==
  ASSUME Shape, TableInv, RouteInv, NEW f \in Sent, Reads(f), NEW c \in Calls, call[c].pc # "idle"
  PROVE  /\ Made(maker, Attempt(c)) => Made(maker', Attempt(c))
         /\ Made(maker', Attempt(c)) => Made(maker, Attempt(c)) \/ (IsStart(f) /\ Attempt(c) = Author(f.id))
<1>1. PICK a \in Calls \X (1..2) : a = Attempt(c) BY AttemptIsPair
<1> QED BY <1>1, ReadsMakers

LEMMA ReadsHeld ==
  ASSUME Shape, TableInv, NEW f \in Sent, Reads(f), NEW s \in Sessions, Held(s)'
  PROVE  \/ Held(s) /\ registry'[s].gen = registry[s].gen /\ maker'[registry'[s].gen] = maker[registry[s].gen]
         \/ IsStart(f) /\ s = f.session /\ ~Held(s) /\ maker'[registry'[s].gen] = Author(f.id)
<1>1. CASE Held(s) /\ registry'[s].gen = registry[s].gen
  <2>1. registry[s].gen \in 1..MaxGen /\ registry[s].gen \in 1..made BY <1>1, HeldGen
  <2>2. made \in Nat BY DEF Shape
  <2>3. registry[s].gen # made + 1 BY <2>1, <2>2
  <2>4. maker'[registry[s].gen] = maker[registry[s].gen] BY <2>1, <2>3, ReadsTable DEF Shape
  <2> QED BY <1>1, <2>4
<1>2. CASE IsStart(f) /\ s = f.session /\ ~Held(s) /\ registry'[s].gen = made' /\ made' = made + 1
           /\ maker' = [maker EXCEPT ![made + 1] = Author(f.id)]
  <2>0. made \in 0..MaxGen /\ made' # made BY <1>2 DEF Shape
  <2>1. made + 1 \in 1..MaxGen BY <1>2, <2>0, ReadsTable, CallAssumption
  <2>2. maker'[registry'[s].gen] = Author(f.id) BY <1>2, <2>1 DEF Shape
  <2> QED BY <1>2, <2>2
<1> QED BY <1>1, <1>2, ReadsTable

LEMMA ReadsOwnerInv ==
  ASSUME Shape, TableInv, RouteInv, AttemptInv, OwnerInv, NEW f \in Sent, Reads(f)
  PROVE  OwnerInv'
<1>1. /\ Len(inbox) \in Nat \ {0} /\ 1 \in 1..Len(inbox) /\ f = inbox[1]
      /\ \A i \in 1..Len(inbox') : i + 1 \in 1..Len(inbox) /\ inbox'[i] = inbox[i + 1]
      /\ call' = call
  BY ReadsQueues
<1> SUFFICES ASSUME NEW c \in Calls, RouteOpen(c)
    PROVE  /\ Made(maker', Attempt(c)) \/ call[c].exclusive =>
                /\ OwnBehind(inbox', 0, call[c].session, Attempt(c))
                /\ Held(call[c].session)' => maker'[registry'[call[c].session].gen] = Attempt(c)
           /\ \A i \in 1..Len(inbox') :
                IsStart(inbox'[i]) /\ Author(inbox'[i].id) = Attempt(c) =>
                  OwnBehind(inbox', i, call[c].session, Attempt(c))
  <2>1. \A d \in Calls : Attempt(d)' = Attempt(d) /\ (RouteOpen(d)' <=> RouteOpen(d))
    BY <1>1 DEF Attempt, RouteOpen
  <2> QED BY <1>1, <2>1 DEF OwnerInv, Held
<1> DEFINE s == call[c].session
           a == Attempt(c)
<1>2. s \in Sessions /\ call[c].pc # "idle" BY DEF RouteInv, RouteOpen
<1>3. PICK t \in Sessions : t = s BY <1>2
<1>4. ASSUME NEW n \in Nat, OwnBehind(inbox, n + 1, s, a) PROVE OwnBehind(inbox', n, s, a)
  BY <1>1, <1>4 DEF OwnBehind
<1>5. \A i \in 1..Len(inbox) : IsStart(inbox[i]) /\ Author(inbox[i].id) = a => OwnBehind(inbox, i, s, a)
  BY DEF OwnerInv
<1>6. ASSUME NEW i \in 1..Len(inbox'), IsStart(inbox'[i]), Author(inbox'[i].id) = a
      PROVE  OwnBehind(inbox', i, s, a)
  <2>1. i + 1 \in 1..Len(inbox) /\ inbox'[i] = inbox[i + 1] /\ i \in Nat BY <1>1
  <2>2. OwnBehind(inbox, i + 1, s, a) BY <1>5, <1>6, <2>1
  <2> QED BY <1>4, <2>1, <2>2
<1>7. CASE Made(maker, a) \/ call[c].exclusive
  <2>1. OwnBehind(inbox, 0, s, a) /\ (Held(s) => maker[registry[s].gen] = a) BY <1>7 DEF OwnerInv
  <2>2. OwnBehind(inbox, 0 + 1, s, a) BY <2>1 DEF OwnBehind
  <2>3. OwnBehind(inbox', 0, s, a) BY <1>4, <2>2
  <2>4. f.session = s => Author(f.id) = a BY <1>1, <2>1 DEF OwnBehind
  <2>5. Held(t)' => maker'[registry'[t].gen] = a
    BY <1>3, <2>1, <2>4, ReadsHeld
  <2>6. Held(s)' => maker'[registry'[s].gen] = a BY <1>1, <1>3, <2>5 DEF Held
  <2> QED BY <1>6, <2>3, <2>6
<1>8. CASE IsStart(f) /\ a = Author(f.id)
  <2>1. OwnBehind(inbox, 0 + 1, s, a) BY <1>1, <1>5, <1>8
  <2>2. OwnBehind(inbox', 0, s, a) BY <1>4, <2>1
  <2>3. CASE Made(maker', a)
    <3>1. CASE Made(maker, a) BY <1>7, <3>1
    <3>2. CASE ~Made(maker, a)
      <4>1. ~Made(maker, a) => maker' # maker BY <2>3
      <4>2. made' # made BY <3>2, <4>1, ReadsTable
      <4>3. HostStarts(f) BY <4>2 DEF Reads, HostRefuses, HostTakes, HostStops, HostSkips
      <4>4. Held(t)' => maker'[registry'[t].gen] = a
        <5>1. f.session = t BY <1>1, <1>3, <1>8 DEF AttemptInv
        <5>2. ~Held(t) BY <4>3, <5>1 DEF HostStarts
        <5> QED BY <1>8, <5>2, ReadsHeld
      <4>5. Held(s)' => maker'[registry'[s].gen] = a BY <1>1, <1>3, <4>4 DEF Held
      <4> QED BY <1>6, <2>2, <4>5
    <3> QED BY <3>1, <3>2
  <2>4. CASE ~Made(maker', a)
    <3>1. CASE call[c].exclusive BY <1>7, <3>1
    <3>2. CASE ~call[c].exclusive BY <1>6, <2>4, <3>2
    <3> QED BY <3>1, <3>2
  <2> QED BY <2>3, <2>4
<1>9. CASE ~(Made(maker, a) \/ call[c].exclusive) /\ ~(IsStart(f) /\ a = Author(f.id))
  <2>1. ~Made(maker', a) BY <1>2, <1>9, ReadsMade
  <2> QED BY <1>6, <1>9, <2>1
<1> QED BY <1>7, <1>8, <1>9

LEMMA RunsOwnerInv ==
  ASSUME Shape, RouteInv, OwnerInv, NEW s \in Sessions, Runs(s)
  PROVE  OwnerInv'
<1>1. UNCHANGED <<call, inbox, maker>> BY DEF Runs, callVars, historyVars
<1>2. \A t \in Sessions : Held(t)' => Held(t) /\ registry'[t].gen = registry[t].gen BY DEF Runs
<1>3. \A c \in Calls : RouteOpen(c) => call[c].session \in Sessions BY DEF RouteInv
<1>4. \A c \in Calls : Attempt(c)' = Attempt(c) /\ (RouteOpen(c)' <=> RouteOpen(c))
  BY <1>1 DEF Attempt, RouteOpen
<1> QED BY <1>1, <1>2, <1>3, <1>4 DEF OwnerInv, Held

LEMMA PassesOwnerInv ==
  ASSUME OwnerInv, NEW f \in Frames, Passes(f)
  PROVE  OwnerInv'
<1>1. UNCHANGED <<registry, call, inbox, maker>> BY DEF Passes, historyVars
<1> QED BY <1>1 DEF OwnerInv, Attempt, RouteOpen, Held

LEMMA GoesOwnerInv ==
  ASSUME Shape, RouteInv, OwnerInv, NEW c \in Calls, Goes(c)
  PROVE  OwnerInv'
<1>1. /\ \A d \in Calls : /\ RouteOpen(d)' <=> RouteOpen(d)
                          /\ call'[d].session = call[d].session /\ call'[d].exclusive = call[d].exclusive
                          /\ Attempt(d)' = Attempt(d)
      /\ RouteOpen(c) /\ UNCHANGED <<registry, maker>>
  BY GoesQueues
<1>2. ASSUME NEW d \in Calls, RouteOpen(d), NEW n \in Nat,
             OwnBehind(inbox, n, call[d].session, Attempt(d))
      PROVE  OwnBehind(inbox', n, call[d].session, Attempt(d))
  <2>1. CASE inbox' = inbox BY <1>2, <2>1
  <2>2. CASE inbox' # inbox
    <3>1. PICK r \in Sent :
            /\ \A i \in 1..Len(inbox') : \/ i \in 1..Len(inbox) /\ inbox'[i] = inbox[i]
                                         \/ i = Len(inbox) + 1 /\ inbox'[i] = r
            /\ Author(r.id) = Attempt(c) /\ r.session = call[c].session
      BY <2>2, GoesInbox
    <3>2. r.session = call[d].session => Author(r.id) = Attempt(d)
      BY <1>1, <1>2, <3>1 DEF RouteInv
    <3> QED BY <1>2, <3>1, <3>2 DEF OwnBehind
  <2> QED BY <2>1, <2>2
<1>3. ASSUME NEW d \in Calls, RouteOpen(d), NEW i \in 1..Len(inbox'),
             IsStart(inbox'[i]), Author(inbox'[i].id) = Attempt(d)
      PROVE  OwnBehind(inbox', i, call[d].session, Attempt(d))
  <2>1. CASE i \in 1..Len(inbox) /\ inbox'[i] = inbox[i]
    <3>1. OwnBehind(inbox, i, call[d].session, Attempt(d)) BY <1>3, <2>1 DEF OwnerInv
    <3> QED BY <1>2, <1>3, <2>1, <3>1
  <2>2. CASE ~(i \in 1..Len(inbox) /\ inbox'[i] = inbox[i])
    <3>1. i = Len(inbox) + 1 /\ Len(inbox') = Len(inbox) + 1 /\ Len(inbox) \in Nat BY <2>2, GoesInbox
    <3> QED BY <3>1 DEF OwnBehind
  <2> QED BY <2>1, <2>2
<1>4. ASSUME NEW d \in Calls, RouteOpen(d), Made(maker, Attempt(d)) \/ call[d].exclusive
      PROVE  /\ OwnBehind(inbox', 0, call[d].session, Attempt(d))
             /\ Held(call[d].session) => maker[registry[call[d].session].gen] = Attempt(d)
  BY <1>2, <1>4 DEF OwnerInv
<1> QED BY <1>1, <1>3, <1>4 DEF OwnerInv, Held

LEMMA BeginsOwnerInv ==
  ASSUME Shape, TableInv, RouteInv, AttemptInv, UnusedInv, OwnerInv, NEW c \in Calls, NEW s,
  NEW n, NEW x, Begins(c, s, n, x),
         RouteInv', AttemptInv', Shape'
  PROVE  OwnerInv'
<1>1. /\ \A d \in Calls : d # c => /\ call'[d] = call[d] /\ Attempt(d)' = Attempt(d)
                                   /\ (RouteOpen(d)' <=> RouteOpen(d))
      /\ call'[c] = NewAttempt(s, n, x)
      /\ UNCHANGED <<registry, inbox, maker>>
  BY BeginsFacts
<1>2. call'[c].pc = "starting" /\ call'[c].session = s /\ call'[c].exclusive = x BY <1>1 DEF NewAttempt
<1>3. ~Made(maker', Attempt(c)') /\ \A i \in 1..Len(inbox') : Author(inbox'[i].id) # Attempt(c)'
  <2>1. /\ \A g \in 1..MaxGen : maker'[g] # <<>> => Past(maker'[g], c, call'[c])
        /\ \A i \in 1..Len(inbox') : Past(inbox'[i].id, c, call'[c])
    BY DEF AttemptInv
  <2>2. Attempt(c)' = <<c, call'[c].attempt>> BY DEF Attempt
  <2>3. \A i \in 1..Len(inbox') : Author(inbox'[i].id) # Attempt(c)' BY <1>2, <2>1, <2>2 DEF Past
  <2>4. ASSUME NEW g \in 1..MaxGen, maker'[g] = Attempt(c)' PROVE FALSE
    <3>1. maker'[g] # <<>> BY <2>2, <2>4
    <3>2. Author(maker'[g]) # <<c, call'[c].attempt>> BY <1>2, <2>1, <3>1 DEF Past
    <3> QED BY <2>2, <2>4, <3>2 DEF Author
  <2> QED BY <2>3, <2>4 DEF Made
<1>4. x => /\ ~Held(s)' /\ \A i \in 1..Len(inbox') : inbox'[i].session # s
  <2>1. x => s \in unused BY DEF Begins
  <2> QED BY <1>1, <2>1 DEF UnusedInv, Held
<1>5. ASSUME NEW d \in Calls, d # c, RouteOpen(d)'
      PROVE    /\ Made(maker', Attempt(d)') \/ call'[d].exclusive =>
                    /\ OwnBehind(inbox', 0, call'[d].session, Attempt(d)')
                    /\ Held(call[d].session) => maker'[registry'[call'[d].session].gen] = Attempt(d)'
               /\ \A i \in 1..Len(inbox') :
                    IsStart(inbox'[i]) /\ Author(inbox'[i].id) = Attempt(d)' =>
                      OwnBehind(inbox', i, call'[d].session, Attempt(d)')
  BY <1>1, <1>5 DEF OwnerInv
<1>6. \A d \in Calls : d # c => (Held(call[d].session)' <=> Held(call[d].session))
  BY <1>1 DEF Held
<1>7. x => OwnBehind(inbox', 0, s, Attempt(c)') BY <1>4 DEF OwnBehind
<1> QED BY <1>1, <1>2, <1>3, <1>4, <1>5, <1>6, <1>7 DEF OwnerInv, Held

LEMMA ClosesOwnerInv ==
  ASSUME Shape, OwnerInv, NEW c \in Calls, Closes(c)
  PROVE  OwnerInv'
<1>1. /\ \A d \in Calls : d # c => call'[d] = call[d] /\ (RouteOpen(d)' <=> RouteOpen(d))
      /\ ~RouteOpen(c)' /\ \A d \in Calls : Attempt(d)' = Attempt(d)
      /\ UNCHANGED <<registry, inbox, maker>>
  BY ClosesFacts
<1> QED BY <1>1 DEF OwnerInv, Held

-----------------------------------------------------------------------------
(***************************************************************************)
(* Stops.                                                                  *)
(***************************************************************************)
LEMMA ReadsStopInv ==
  ASSUME Shape, TableInv, StopInv, NEW f \in Sent, Reads(f)
  PROVE  StopInv'
<1>1. /\ Len(inbox) \in Nat \ {0} /\ 1 \in 1..Len(inbox) /\ f = inbox[1]
      /\ \A i \in 1..Len(inbox') : i + 1 \in 1..Len(inbox) /\ inbox'[i] = inbox[i + 1]
  BY ReadsQueues
<1>2. ASSUME NEW i \in 1..Len(inbox'), inbox'[i].type = "agent_stop",
             NEW k \in 1..Len(inbox'), k < i, IsStart(inbox'[k]),
             inbox'[k].session = inbox'[i].session
      PROVE  Author(inbox'[k].id) = Author(inbox'[i].id)
  <2>1. k + 1 < i + 1 BY <1>2
  <2>2. /\ i + 1 \in 1..Len(inbox) /\ inbox'[i] = inbox[i + 1]
        /\ k + 1 \in 1..Len(inbox) /\ inbox'[k] = inbox[k + 1]
    BY <1>1
  <2> QED BY <1>2, <2>1, <2>2 DEF StopInv
<1>3. ASSUME NEW i \in 1..Len(inbox'), inbox'[i].type = "agent_stop",
             NEW s \in Sessions, s = inbox'[i].session, Held(s)'
      PROVE  maker'[registry'[s].gen] = Author(inbox'[i].id)
  <2>1. i + 1 \in 1..Len(inbox) /\ inbox'[i] = inbox[i + 1] /\ 1 < i + 1 BY <1>1
  <2>2. CASE Held(s) /\ maker'[registry'[s].gen] = maker[registry[s].gen]
    BY <1>3, <2>1, <2>2 DEF StopInv
  <2>3. CASE IsStart(f) /\ s = f.session /\ maker'[registry'[s].gen] = Author(f.id)
    BY <1>1, <1>3, <2>1, <2>3 DEF StopInv
  <2> QED BY <1>3, <2>2, <2>3, ReadsHeld
<1>4. \A i \in 1..Len(inbox') : inbox'[i].session \in Sessions BY <1>1, RequestAt
<1> QED BY <1>2, <1>3, <1>4 DEF StopInv, Held

LEMMA RunsStopInv ==
  ASSUME Shape, StopInv, NEW s \in Sessions, Runs(s)
  PROVE  StopInv'
<1>1. UNCHANGED <<inbox, maker>> BY DEF Runs, callVars, historyVars
<1>2. \A t \in Sessions : Held(t)' => Held(t) /\ registry'[t].gen = registry[t].gen BY DEF Runs
<1>3. \A i \in 1..Len(inbox) : inbox[i].session \in Sessions BY RequestAt
<1> QED BY <1>1, <1>2, <1>3 DEF StopInv, Held

LEMMA SameStopInv ==
  ASSUME StopInv, UNCHANGED <<inbox, maker, registry>>
  PROVE  StopInv'
  BY DEF StopInv, Held

LEMMA GoesStopInv ==
  ASSUME Shape, RouteInv, OwnerInv, StopInv, OutputInv, ProbeInv, NEW c \in Calls, Goes(c)
  PROVE  StopInv'
<1>1. RouteOpen(c) /\ UNCHANGED <<registry, maker>> BY GoesQueues
<1>2. CASE inbox' = inbox BY <1>1, <1>2, SameStopInv
<1>3. CASE inbox' # inbox
  <2>1. PICK r \in Sent :
          /\ Len(inbox) \in Nat
          /\ \A i \in 1..Len(inbox') : \/ i \in 1..Len(inbox) /\ inbox'[i] = inbox[i]
                                       \/ i = Len(inbox) + 1 /\ inbox'[i] = r
          /\ Author(r.id) = Attempt(c) /\ r.session = call[c].session
          /\ r.type = "agent_stop" => call[c].pc = "probing" \/ (call[c].pc = "leaving" /\ OwesStop(c))
    BY <1>3, GoesInbox
  <2>2. ASSUME r.type = "agent_stop"
        PROVE  /\ \A k \in 1..Len(inbox) : inbox[k].session = r.session => Author(inbox[k].id) = Author(r.id)
               /\ Held(r.session) => maker[registry[r.session].gen] = Author(r.id)
    <3>1. call[c].accepted \/ call[c].exclusive BY <2>1, <2>2 DEF ProbeInv, OwesStop
    <3>2. Made(maker, Attempt(c)) \/ call[c].exclusive BY <1>1, <3>1 DEF OutputInv
    <3>3. /\ OwnBehind(inbox, 0, call[c].session, Attempt(c))
          /\ Held(call[c].session) => maker[registry[call[c].session].gen] = Attempt(c)
      BY <1>1, <3>2 DEF OwnerInv
    <3> QED BY <2>1, <3>3 DEF OwnBehind
  <2>3. ASSUME NEW i \in 1..Len(inbox'), inbox'[i].type = "agent_stop"
        PROVE  /\ \A k \in 1..Len(inbox') :
                    k < i /\ IsStart(inbox'[k]) /\ inbox'[k].session = inbox'[i].session =>
                      Author(inbox'[k].id) = Author(inbox'[i].id)
               /\ Held(inbox'[i].session) =>
                    maker'[registry'[inbox'[i].session].gen] = Author(inbox'[i].id)
    <3>1. CASE i \in 1..Len(inbox) /\ inbox'[i] = inbox[i]
      <4>1. ASSUME NEW k \in 1..Len(inbox'), k < i PROVE k \in 1..Len(inbox) /\ inbox'[k] = inbox[k]
        BY <2>1, <3>1, <4>1
      <4> QED BY <1>1, <2>3, <3>1, <4>1 DEF StopInv
    <3>2. CASE i = Len(inbox) + 1 /\ inbox'[i] = r
      <4>1. ASSUME NEW k \in 1..Len(inbox'), k < i PROVE k \in 1..Len(inbox) /\ inbox'[k] = inbox[k]
        BY <2>1, <3>2, <4>1
      <4> QED BY <1>1, <2>2, <2>3, <3>2, <4>1
    <3> QED BY <2>1, <3>1, <3>2
  <2>4. \A t : Held(t)' <=> Held(t) BY <1>1 DEF Held
  <2> QED BY <1>1, <2>3, <2>4 DEF StopInv, Held
<1> QED BY <1>2, <1>3

-----------------------------------------------------------------------------
(***************************************************************************)
(* Frames.                                                                 *)
(***************************************************************************)

\* A frame stays in order when registrations are added of other attempts, and
\* no start of its attempt is written.
LEMMA FrameStays ==
  ASSUME NEW f, NEW m, NEW n, NEW q, NEW p, FrameInOrder(f, m, q),
         \A g \in 1..MaxGen : m[g] # <<>> => n[g] = m[g],
         f.re # None /\ f.re = StartIdOf(f.re) /\ ~Made(m, Author(f.re)) => ~Made(n, Author(f.re))
           \/ \E i \in 1..Len(q) : IsStart(q[i]) /\ Author(q[i].id) = Author(f.re),
         \A i \in 1..Len(p) : \/ \E k \in 1..Len(q) : p[i] = q[k]
                              \/ IsStart(p[i]) /\ f.re # None => Author(p[i].id) # Author(f.re)
  PROVE  FrameInOrder(f, n, p)
<1>1. Author(f.re) # <<>> BY DEF Author
<1>2. f.type = "agent_started" => n[f.gen] = Author(f.re) BY <1>1 DEF FrameInOrder
<1> QED BY <1>2 DEF FrameInOrder

LEMMA ReadsFrameInv ==
  ASSUME Shape, TableInv, AttemptInv, StartInv, FrameInv, NEW f \in Sent, Reads(f)
  PROVE  FrameInv'
<1>1. /\ Len(inbox) \in Nat \ {0} /\ 1 \in 1..Len(inbox) /\ f = inbox[1]
      /\ \A i \in 1..Len(inbox') : i + 1 \in 1..Len(inbox) /\ inbox'[i] = inbox[i + 1]
      /\ Extends(wire, wire', Replies(f)) /\ queue' = queue /\ wire \in Seq(Frames)
  BY ReadsQueues DEF Shape
<1>2. \A g \in 1..MaxGen : maker[g] # <<>> => maker'[g] = maker[g] BY ReadsMakers
<1>3. ASSUME NEW g \in Frames, FrameInOrder(g, maker, inbox) PROVE FrameInOrder(g, maker', inbox')
  <2>1. \A i \in 1..Len(inbox') : \E k \in 1..Len(inbox) : inbox'[i] = inbox[k] BY <1>1
  <2>2. ASSUME g.re # None, ~Made(maker, Author(g.re)), Made(maker', Author(g.re))
        PROVE  \E i \in 1..Len(inbox) : IsStart(inbox[i]) /\ Author(inbox[i].id) = Author(g.re)
    <3>1. g.re \in MessageIds BY <2>2 DEF Frames
    <3>2. IsStart(f) /\ Author(g.re) = Author(f.id) BY <2>2, <3>1, AuthorIsPair, ReadsMakers
    <3> QED BY <1>1, <3>2
  <2> QED BY <1>2, <1>3, <2>1, <2>2, FrameStays
<1>4. ASSUME NEW g \in Frames, wire' = Append(wire, g),
             g.type = "agent_error", g.re = f.id, UNCHANGED maker
      PROVE  FrameInOrder(g, maker', inbox')
  <2>1. CASE IsStart(f)
    <3>1. ~Made(maker, Author(f.id)) BY <1>1, <2>1 DEF StartInv
    <3>2. ASSUME NEW i \in 1..Len(inbox'), IsStart(inbox'[i]) PROVE Author(inbox'[i].id) # Author(f.id)
      <4>1. i + 1 # 1 BY <1>1
      <4> QED BY <1>1, <2>1, <3>2, <4>1 DEF StartInv
    <3> QED BY <1>4, <3>1, <3>2 DEF FrameInOrder, IsOutput
  <2>2. CASE ~IsStart(f)
    <3>1. f.id[3] # "agent_start" BY <2>2 DEF IsStart, Sent
    <3>2. f.id # StartIdOf(f.id) BY <3>1 DEF StartIdOf
    <3> QED BY <1>4, <3>2 DEF FrameInOrder, IsOutput
  <2> QED BY <2>1, <2>2
<1>5. ASSUME NEW g \in Frames, HostStarts(f), g.type = "agent_started", g.re = f.id, g.gen = made + 1
      PROVE  FrameInOrder(g, maker', inbox')
  <2>0. made \in 0..MaxGen BY DEF Shape
  <2>1. made + 1 \in 1..MaxGen BY <1>5, <2>0, CallAssumption DEF HostStarts
  <2>2. maker'[made + 1] = Author(f.id) BY <1>5, <2>1 DEF HostStarts, Shape
  <2>3. f.id # None BY CallAssumption DEF Sent
  <2> QED BY <1>5, <2>1, <2>2, <2>3 DEF FrameInOrder, IsOutput
<1>6. \A i \in 1..Len(wire) : wire[i] \in Frames /\ FrameInOrder(wire[i], maker', inbox')
  BY <1>3, WireAt DEF FrameInv
<1>7. \A c \in Calls : \A i \in 1..Len(queue[c]) : FrameInOrder(queue[c][i], maker', inbox')
  BY <1>3, WireAt DEF FrameInv
<1>8. ASSUME NEW i \in 1..Len(wire') PROVE FrameInOrder(wire'[i], maker', inbox')
  <2>1. ASSUME NEW g \in Frames, wire' = Append(wire, g), FrameInOrder(g, maker', inbox')
        PROVE  FrameInOrder(wire'[i], maker', inbox')
    BY <1>1, <1>6, <2>1, AppendSeq
  <2>2. CASE HostRefuses(f) BY <1>4, <2>1, <2>2 DEF HostRefuses
  <2>3. CASE HostStarts(f)
    <3>1. PICK g \in Frames : wire' = Append(wire, g) /\ g.type = "agent_started" /\ g.re = f.id /\ g.gen = made + 1
      BY <2>3 DEF HostStarts
    <3> QED BY <1>5, <2>1, <2>3, <3>1
  <2>4. CASE HostTakes(f) BY <1>6, <2>4 DEF HostTakes
  <2>5. CASE HostStops(f)
    <3>1. PICK g \in Frames : wire' = Append(wire, g) /\ g.type = "agent_stopped" BY <2>5 DEF HostStops
    <3>2. FrameInOrder(g, maker', inbox') BY <3>1 DEF FrameInOrder, IsOutput
    <3> QED BY <2>1, <3>1, <3>2
  <2>6. CASE HostSkips(f) BY <1>6, <2>6 DEF HostSkips
  <2> QED BY <2>2, <2>3, <2>4, <2>5, <2>6 DEF Reads
<1> QED BY <1>1, <1>7, <1>8 DEF FrameInv

LEMMA RunsFrameInv ==
  ASSUME Shape, TableInv, FrameInv, NEW s \in Sessions, Runs(s)
  PROVE  FrameInv'
<1>1. UNCHANGED <<queue, inbox, maker>> /\ Extends(wire, wire', Shows(s)) /\ wire \in Seq(Frames) /\ Held(s)
  BY DEF Runs, callVars, historyVars, Shape
<1>2. registry[s].gen \in 1..MaxGen BY <1>1, HeldGen
<1>3. \A g \in Shows(s) : FrameInOrder(g, maker, inbox) BY <1>2 DEF Shows, FrameInOrder
<1>4. \A i \in 1..Len(wire') : FrameInOrder(wire'[i], maker, inbox) BY <1>1, <1>3, ExtendsAt DEF FrameInv
<1> QED BY <1>1, <1>4 DEF FrameInv

LEMMA PassesFrameInv ==
  ASSUME Shape, FrameInv, NEW f \in Frames, Passes(f)
  PROVE  FrameInv'
<1>1. UNCHANGED <<inbox, maker>> BY DEF Passes, historyVars
<1>2. \A i \in 1..Len(wire') : \E k \in 1..Len(wire) : wire'[i] = wire[k]
  BY TailSeq DEF Passes, Shape
<1>3. FrameInOrder(f, maker, inbox)
  <2>1. f = wire[1] /\ 1 \in 1..Len(wire) BY TailSeq DEF Passes, Shape
  <2> QED BY <2>1 DEF FrameInv
<1>4. ASSUME NEW c \in Calls, NEW i \in 1..Len(queue'[c]) PROVE FrameInOrder(queue'[c][i], maker, inbox)
  <2>1. queue[c] \in Seq(Frames) BY LocalsAt
  <2>2. CASE queue'[c] = queue[c] BY <2>2 DEF FrameInv
  <2>3. CASE queue'[c] = Append(queue[c], f) BY <1>3, <2>1, <2>3, AppendSeq DEF FrameInv
  <2> QED BY <2>2, <2>3 DEF Passes
<1> QED BY <1>1, <1>2, <1>4 DEF FrameInv

\* The frames of a call that is not starting, and of no call, do not answer
\* the start it is about to write.
LEMMA GoesFrameInv ==
  ASSUME Shape, RouteInv, AttemptInv, FrameInv, NEW c \in Calls, Goes(c)
  PROVE  FrameInv'
<1>1. /\ \A d \in Calls : \A i \in 1..Len(queue'[d]) : \E k \in 1..Len(queue[d]) : queue'[d][i] = queue[d][k]
      /\ UNCHANGED <<wire, maker>>
  BY GoesQueues
<1>2. \A i \in 1..Len(inbox') : \/ \E k \in 1..Len(inbox) : inbox'[i] = inbox[k]
                                \/ /\ Author(inbox'[i].id) = Attempt(c)
                                   /\ IsStart(inbox'[i]) => call[c].pc = "starting"
  BY GoesInbox
<1>3. ASSUME NEW f, FrameInOrder(f, maker, inbox), call[c].pc = "starting" /\ f.re # None => Author(f.re) # Attempt(c)
      PROVE  FrameInOrder(f, maker, inbox')
  BY <1>2, <1>3, FrameStays
<1>4. \A i \in 1..Len(wire) : FrameInOrder(wire[i], maker, inbox')
  BY <1>3, FreshStart DEF FrameInv
<1>5. ASSUME NEW d \in Calls, NEW i \in 1..Len(queue[d]) PROVE FrameInOrder(queue[d][i], maker, inbox')
  <2>1. FrameInOrder(queue[d][i], maker, inbox) BY DEF FrameInv
  <2>2. ASSUME call[c].pc = "starting", queue[d][i].re # None PROVE Author(queue[d][i].re) # Attempt(c)
    BY <2>2, FreshStart
  <2> QED BY <1>3, <2>1, <2>2
<1> QED BY <1>1, <1>4, <1>5 DEF FrameInv

LEMMA SameFrameInv ==
  ASSUME FrameInv, \A c \in Calls : queue'[c] = queue[c] \/ queue'[c] = <<>>,
         UNCHANGED <<wire, inbox, maker>>
  PROVE  FrameInv'
<1>1. \A c \in Calls : \A i \in 1..Len(queue'[c]) : FrameInOrder(queue'[c][i], maker, inbox) BY DEF FrameInv
<1> QED BY <1>1 DEF FrameInv

-----------------------------------------------------------------------------
(***************************************************************************)
(* What is read from a route, then from the wire.                          *)
(***************************************************************************)
LEMMA FollowsMore ==
  ASSUME NEW q, NEW w, NEW A, NEW B, NEW C, Follows(q, w, A, B), B \subseteq C
  PROVE  Follows(q, w, A, C)
  BY DEF Follows

LEMMA FollowsExtend ==
  ASSUME NEW q \in Seq(Frames), NEW w \in Seq(Frames), NEW v, NEW A, NEW B, NEW F,
         Follows(q, w, A, B), Extends(w, v, F),
         Occurs(q, A) \/ Occurs(w, A) => F \subseteq B,
         F \cap A = {} \/ F \subseteq B
  PROVE  Follows(q, v, A, B)
<1>1. \A i \in 1..Len(v) : (i \in 1..Len(w) /\ v[i] = w[i]) \/ (i > Len(w) /\ v[i] \in F) BY ExtendsAt
<1>2. ASSUME NEW i \in 1..Len(q), NEW j \in 1..Len(v), q[i] \in A PROVE v[j] \in B
  <2>1. Occurs(q, A) BY <1>2 DEF Occurs
  <2> QED BY <1>1, <1>2, <2>1 DEF Follows
<1>3. ASSUME NEW i \in 1..Len(v), NEW j \in 1..Len(v), i < j, v[i] \in A PROVE v[j] \in B
  <2>0. Len(w) \in Nat OBVIOUS
  <2>1. CASE i \in 1..Len(w) /\ v[i] = w[i]
    <3>1. Occurs(w, A) BY <1>3, <2>1 DEF Occurs
    <3> QED BY <1>1, <1>3, <2>1, <3>1 DEF Follows
  <2>2. CASE i > Len(w) /\ v[i] \in F
    <3>1. F \subseteq B BY <1>3, <2>2
    <3>2. j > Len(w) BY <1>3, <2>0, <2>2
    <3>3. v[j] \in F BY <1>1, <2>0, <3>2
    <3> QED BY <3>1, <3>3
  <2> QED BY <1>1, <2>1, <2>2
<1> QED BY <1>2, <1>3 DEF Follows

LEMMA FollowsTail ==
  ASSUME NEW q \in Seq(Frames), q # <<>>, NEW w, NEW A, NEW B, Follows(q, w, A, B)
  PROVE  Follows(Tail(q), w, A, B)
<1>1. \A i \in 1..Len(Tail(q)) : i + 1 \in 1..Len(q) /\ Tail(q)[i] = q[i + 1] BY TailSeq
<1>2. \A i, j \in 1..Len(Tail(q)) : i < j => i + 1 < j + 1 OBVIOUS
<1> QED BY <1>1, <1>2 DEF Follows

LEMMA FollowsDrop ==
  ASSUME NEW w \in Seq(Frames), w # <<>>, NEW q, NEW A, NEW B, Follows(q, w, A, B)
  PROVE  Follows(q, Tail(w), A, B)
<1>1. \A i \in 1..Len(Tail(w)) : i + 1 \in 1..Len(w) /\ Tail(w)[i] = w[i + 1] BY TailSeq
<1>2. \A i, j \in 1..Len(Tail(w)) : i < j => i + 1 < j + 1 OBVIOUS
<1> QED BY <1>1, <1>2 DEF Follows

LEMMA FollowsPass ==
  ASSUME NEW q \in Seq(Frames), NEW w \in Seq(Frames), w # <<>>, NEW A, NEW B, Follows(q, w, A, B)
  PROVE  Follows(Append(q, w[1]), Tail(w), A, B)
<1>1. /\ \A i \in 1..Len(Tail(w)) : i + 1 \in 1..Len(w) /\ Tail(w)[i] = w[i + 1]
      /\ Len(w) \in Nat \ {0} /\ w[1] \in Frames /\ 1 \in 1..Len(w)
  BY TailSeq
<1> DEFINE p == Append(q, w[1])
<1>2. \A i \in 1..Len(p) : \/ i \in 1..Len(q) /\ p[i] = q[i]
                           \/ i = Len(q) + 1 /\ p[i] = w[1]
  BY <1>1, AppendSeq
<1>3. Len(q) \in Nat OBVIOUS
<1> HIDE DEF p
<1>4. ASSUME NEW i \in 1..Len(p), NEW j \in 1..Len(p), i < j, p[i] \in A PROVE p[j] \in B
  <2>1. i \in 1..Len(q) /\ p[i] = q[i] BY <1>2, <1>3, <1>4
  <2> QED BY <1>1, <1>2, <1>4, <2>1 DEF Follows
<1>5. ASSUME NEW i \in 1..Len(p), NEW j \in 1..Len(Tail(w)), p[i] \in A PROVE Tail(w)[j] \in B
  <2>1. j + 1 \in 1..Len(w) /\ Tail(w)[j] = w[j + 1] /\ 1 < j + 1 BY <1>1
  <2> QED BY <1>1, <1>2, <1>5, <2>1 DEF Follows
<1>6. Follows(q, Tail(w), A, B) BY FollowsDrop, <1>1
<1> QED BY <1>4, <1>5, <1>6 DEF Follows, p

LEMMA PrecedesExtend ==
  ASSUME NEW q \in Seq(Frames), NEW w \in Seq(Frames), NEW v, NEW A, NEW B, NEW F,
         Precedes(q, w, A, B), Extends(w, v, F),
         F \cap B = {} \/ Occurs(q, A) \/ Occurs(w, A)
  PROVE  Precedes(q, v, A, B)
<1>1. \A i \in 1..Len(v) : (i \in 1..Len(w) /\ v[i] = w[i]) \/ (i > Len(w) /\ v[i] \in F) BY ExtendsAt
<1>2. \A i \in 1..Len(w) : i \in 1..Len(v) /\ v[i] = w[i] BY DEF Extends
<1>3. ASSUME NEW j \in 1..Len(v), v[j] \in B
      PROVE  Occurs(q, A) \/ \E i \in 1..Len(v) : i < j /\ v[i] \in A
  <2>0. Len(w) \in Nat OBVIOUS
  <2>1. CASE j \in 1..Len(w) /\ v[j] = w[j]
    <3>1. Occurs(q, A) \/ \E i \in 1..Len(w) : i < j /\ w[i] \in A BY <1>3, <2>1 DEF Precedes, Occurs
    <3> QED BY <1>2, <3>1
  <2>2. CASE j > Len(w) /\ v[j] \in F
    <3>1. Occurs(q, A) \/ \E i \in 1..Len(w) : w[i] \in A BY <1>3, <2>2 DEF Occurs
    <3> QED BY <1>2, <2>0, <2>2, <3>1
  <2> QED BY <1>1, <2>1, <2>2
<1> QED BY <1>3 DEF Precedes, Occurs

LEMMA PrecedesTail ==
  ASSUME NEW q \in Seq(Frames), q # <<>>, NEW w, NEW A, NEW B, Precedes(q, w, A, B), q[1] \notin A
  PROVE  Precedes(Tail(q), w, A, B)
<1>1. /\ \A i \in 1..Len(Tail(q)) : i + 1 \in 1..Len(q) /\ Tail(q)[i] = q[i + 1]
      /\ Len(q) \in Nat \ {0} /\ Len(Tail(q)) = Len(q) - 1
  BY TailSeq
<1>2. ASSUME NEW i \in 1..Len(q), q[i] \in A PROVE i - 1 \in 1..Len(Tail(q)) /\ Tail(q)[i - 1] = q[i]
  <2>1. i # 1 BY <1>2
  <2>2. i - 1 \in 1..Len(Tail(q)) /\ (i - 1) + 1 = i BY <1>1, <2>1
  <2> QED BY <1>1, <2>2
<1>3. ASSUME NEW j \in 1..Len(Tail(q)), Tail(q)[j] \in B
      PROVE  \E i \in 1..Len(Tail(q)) : i < j /\ Tail(q)[i] \in A
  <2>1. PICK i \in 1..Len(q) : i < j + 1 /\ q[i] \in A BY <1>1, <1>3 DEF Precedes
  <2>2. i - 1 < j BY <2>1
  <2> QED BY <1>2, <2>1, <2>2
<1> QED BY <1>2, <1>3 DEF Precedes

LEMMA PrecedesDrop ==
  ASSUME NEW w \in Seq(Frames), w # <<>>, NEW q, NEW A, NEW B, Precedes(q, w, A, B), w[1] \notin A
  PROVE  Precedes(q, Tail(w), A, B)
<1>1. /\ \A i \in 1..Len(Tail(w)) : i + 1 \in 1..Len(w) /\ Tail(w)[i] = w[i + 1]
      /\ Len(w) \in Nat \ {0} /\ Len(Tail(w)) = Len(w) - 1
  BY TailSeq
<1>2. ASSUME NEW i \in 1..Len(w), w[i] \in A PROVE i - 1 \in 1..Len(Tail(w)) /\ Tail(w)[i - 1] = w[i]
  <2>1. i # 1 BY <1>2
  <2>2. i - 1 \in 1..Len(Tail(w)) /\ (i - 1) + 1 = i BY <1>1, <2>1
  <2> QED BY <1>1, <2>2
<1>3. ASSUME NEW j \in 1..Len(Tail(w)), Tail(w)[j] \in B, ~Occurs(q, A)
      PROVE  \E i \in 1..Len(Tail(w)) : i < j /\ Tail(w)[i] \in A
  <2>1. PICK i \in 1..Len(w) : i < j + 1 /\ w[i] \in A BY <1>1, <1>3 DEF Precedes, Occurs
  <2>2. i - 1 < j BY <2>1
  <2> QED BY <1>2, <2>1, <2>2
<1> QED BY <1>3 DEF Precedes, Occurs

LEMMA PrecedesPass ==
  ASSUME NEW q \in Seq(Frames), NEW w \in Seq(Frames), w # <<>>, NEW A, NEW B, Precedes(q, w, A,
  B)
  PROVE  Precedes(Append(q, w[1]), Tail(w), A, B)
<1>1. /\ \A i \in 1..Len(Tail(w)) : i + 1 \in 1..Len(w) /\ Tail(w)[i] = w[i + 1]
      /\ Len(w) \in Nat \ {0} /\ Len(Tail(w)) = Len(w) - 1 /\ w[1] \in Frames /\ 1 \in 1..Len(w)
  BY TailSeq
<1> DEFINE p == Append(q, w[1])
<1>2. /\ \A i \in 1..Len(p) : (i \in 1..Len(q) /\ p[i] = q[i]) \/ (i = Len(q) + 1 /\ p[i] = w[1])
      /\ \A i \in 1..Len(q) : i \in 1..Len(p) /\ p[i] = q[i]
      /\ Len(q) + 1 \in 1..Len(p) /\ p[Len(q) + 1] = w[1] /\ Len(q) \in Nat
  BY <1>1, AppendSeq
<1> HIDE DEF p
<1>3. Occurs(q, A) \/ w[1] \in A => Occurs(p, A) BY <1>2 DEF Occurs
<1>4. ASSUME NEW j \in 1..Len(p), p[j] \in B PROVE \E i \in 1..Len(p) : i < j /\ p[i] \in A
  <2>1. CASE j \in 1..Len(q) /\ p[j] = q[j] BY <1>2, <1>4, <2>1 DEF Precedes
  <2>2. CASE j = Len(q) + 1 /\ p[j] = w[1]
    <3>1. PICK i \in 1..Len(q) : q[i] \in A BY <1>1, <1>4, <2>2 DEF Precedes
    <3> QED BY <1>2, <2>2, <3>1
  <2> QED BY <1>2, <2>1, <2>2
<1>5. ASSUME NEW j \in 1..Len(Tail(w)), Tail(w)[j] \in B, ~Occurs(p, A)
      PROVE  \E i \in 1..Len(Tail(w)) : i < j /\ Tail(w)[i] \in A
  <2>1. PICK i \in 1..Len(w) : i < j + 1 /\ w[i] \in A BY <1>1, <1>3, <1>5 DEF Precedes, Occurs
  <2>2. i # 1 BY <1>3, <1>5, <2>1
  <2>3. i - 1 \in 1..Len(Tail(w)) /\ (i - 1) + 1 = i /\ i - 1 < j BY <1>1, <2>1, <2>2
  <2> QED BY <1>1, <2>1, <2>3
<1> QED BY <1>4, <1>5 DEF Precedes, Occurs, p

LEMMA WithinTail ==
  ASSUME NEW q \in Seq(Frames), q # <<>>, NEW B, Within(q, B)
  PROVE  Within(Tail(q), B)
  BY TailSeq DEF Within

LEMMA OccursExtend ==
  ASSUME NEW w, NEW v, NEW A, NEW F, Extends(w, v, F), Occurs(w, A)
  PROVE  Occurs(v, A)
<1>1. PICK i \in 1..Len(w) : w[i] \in A BY DEF Occurs
<1>2. i \in 1..Len(v) /\ v[i] = w[i] BY DEF Extends
<1> QED BY <1>1, <1>2 DEF Occurs

LEMMA OccursTail ==
  ASSUME NEW w \in Seq(Frames), w # <<>>, NEW A, Occurs(w, A), w[1] \notin A
  PROVE  Occurs(Tail(w), A)
<1>1. PICK i \in 1..Len(w) : w[i] \in A BY DEF Occurs
<1>2. i - 1 \in 1..Len(Tail(w)) /\ (i - 1) + 1 = i BY <1>1, TailSeq
<1>3. Tail(w)[i - 1] = w[i] BY <1>2, TailSeq
<1> QED BY <1>1, <1>2, <1>3 DEF Occurs

LEMMA OccursAppend ==
  ASSUME NEW q \in Seq(Frames), NEW f \in Frames, NEW A, Occurs(q, A) \/ f \in A
  PROVE  Occurs(Append(q, f), A)
<1>1. /\ Len(Append(q, f)) = Len(q) + 1 /\ Len(q) \in Nat /\ Append(q, f)[Len(q) + 1] = f
      /\ \A i \in 1..Len(q) : Append(q, f)[i] = q[i]
  BY AppendSeq
<1>2. Len(q) + 1 \in 1..Len(Append(q, f)) /\ \A i \in 1..Len(q) : i \in 1..Len(Append(q, f)) BY <1>1
<1> QED BY <1>1, <1>2 DEF Occurs

-----------------------------------------------------------------------------
(***************************************************************************)
(* Output is of the attempt that reads it.                                 *)
(***************************************************************************)

\* The part of OutputInv that is about a call whose route is open.
Reading(c, l, q, w, m) ==
  LET own == OwnOutput(l.session, <<c, l.attempt>>, m)
  IN /\ Follows(q, w, Confirmations(<<c, l.attempt>>), own)
     /\ l.accepted => Made(m, <<c, l.attempt>>) /\ Within(q, own) /\ Within(w, own)

LEMMA OutputInvIs ==
  OutputInv <=> \A c \in Calls : /\ \A g \in got[c] : maker[g] = Attempt(c)
                                 /\ RouteOpen(c) => Reading(c, call[c], queue[c], wire, maker)
  BY DEF OutputInv, Reading, Attempt

LEMMA ConfirmedIsMade ==
  ASSUME FrameInv, NEW c \in Calls, NEW a \in Calls \X (1..2),
         Occurs(queue[c], Confirmations(a)) \/ Occurs(wire, Confirmations(a))
  PROVE  Made(maker, a)
<1>1. PICK f \in Confirmations(a) : FrameInOrder(f, maker, inbox) BY DEF Occurs, FrameInv
<1>2. Author(StartIdOf(a)) = a BY DEF Author, StartIdOf
<1> QED BY <1>1, <1>2 DEF Confirmations, FrameInOrder, Made

LEMMA OwnGrows ==
  ASSUME NEW s, NEW a, NEW m, NEW n, \A g \in 1..MaxGen : m[g] = a => n[g] = a
  PROVE  OwnOutput(s, a, m) \subseteq OwnOutput(s, a, n)
  BY DEF OwnOutput

LEMMA ReadsOutputInv ==
  ASSUME Shape, TableInv, RouteInv, OutputInv, NEW f \in Sent, Reads(f)
  PROVE  OutputInv'
<1>1. /\ Extends(wire, wire', Replies(f)) /\ UNCHANGED <<call, queue, got>> /\ wire \in Seq(Frames)
  BY ReadsQueues DEF Shape
<1>2. \A g \in 1..MaxGen : maker[g] # <<>> => maker'[g] = maker[g] BY ReadsMakers
<1>0. \A x, y : <<x, y>> # <<>> OBVIOUS
<1>3. ASSUME NEW c \in Calls, NEW g \in got[c] PROVE maker'[g] = Attempt(c)
  <2>1. maker[g] = Attempt(c) /\ g \in 1..MaxGen BY LocalsAt DEF OutputInv
  <2> QED BY <1>0, <1>2, <2>1 DEF Attempt
<1>4. ASSUME NEW c \in Calls, RouteOpen(c) PROVE Reading(c, call[c], queue[c], wire', maker')
  <2> DEFINE a == <<c, call[c].attempt>>
             s == call[c].session
             own == OwnOutput(s, a, maker)
             new == OwnOutput(s, a, maker')
  <2>1. own \subseteq new BY <1>2, OwnGrows
  <2>2. Replies(f) \subseteq new BY DEF Replies, OwnOutput, IsOutput
  <2>3. Reading(c, call[c], queue[c], wire, maker) BY <1>4, OutputInvIs
  <2>4. queue[c] \in Seq(Frames) BY LocalsAt
  <2>5. Follows(queue[c], wire, Confirmations(a), new) BY <2>1, <2>3, FollowsMore DEF Reading
  <2>6. Follows(queue[c], wire', Confirmations(a), new) BY <1>1, <2>2, <2>4, <2>5, FollowsExtend
  <2>7. ASSUME call[c].accepted PROVE Made(maker', a) /\ Within(queue[c], new) /\ Within(wire', new)
    <3>1. Made(maker, a) /\ Within(queue[c], own) /\ Within(wire, own) BY <2>3, <2>7 DEF Reading
    <3>2. Made(maker', a) BY <1>0, <1>2, <3>1 DEF Made
    <3>3. Within(queue[c], new) BY <2>1, <3>1 DEF Within
    <3>4. Within(wire', new) BY <1>1, <2>1, <2>2, <3>1, ExtendsAt DEF Within
    <3> QED BY <3>2, <3>3, <3>4
  <2> QED BY <2>6, <2>7 DEF Reading
<1>5. \A c \in Calls : Attempt(c)' = Attempt(c) /\ (RouteOpen(c)' <=> RouteOpen(c))
  BY <1>1 DEF Attempt, RouteOpen
<1>6. \A c \in Calls : /\ \A g \in got'[c] : maker'[g] = Attempt(c)'
                       /\ RouteOpen(c)' => Reading(c, call'[c], queue'[c], wire', maker')
  BY <1>1, <1>3, <1>4, <1>5
<1> QED BY <1>6 DEF OutputInv, Reading, Attempt

LEMMA RunsOutputInv ==
  ASSUME Shape, TableInv, RouteInv, OwnerInv, FrameInv, OutputInv, NEW r \in Sessions, Runs(r)
  PROVE  OutputInv'
<1>1. Extends(wire, wire', Shows(r)) /\ UNCHANGED <<call, queue, got, maker>> /\ wire \in Seq(Frames) /\ Held(r)
  BY DEF Runs, callVars, historyVars, Shape
<1>4. ASSUME NEW c \in Calls, RouteOpen(c) PROVE Reading(c, call[c], queue[c], wire', maker)
  <2> DEFINE a == <<c, call[c].attempt>>
             s == call[c].session
             own == OwnOutput(s, a, maker)
  <2>1. a = Attempt(c) /\ a \in Calls \X (1..2)
    <3>1. call[c].pc # "idle" BY <1>4 DEF RouteOpen
    <3> QED BY <3>1, AttemptIsPair DEF Attempt
  <2>2. Made(maker, a) => Shows(r) \subseteq own
    <3>1. ASSUME Made(maker, a), r = s PROVE maker[registry[r].gen] = a /\ registry[r].gen \in 1..MaxGen
      BY <1>1, <1>4, <2>1, <3>1, HeldGen DEF OwnerInv
    <3> QED BY <3>1 DEF Shows, OwnOutput
  <2>3. Reading(c, call[c], queue[c], wire, maker) BY <1>4, OutputInvIs
  <2>4. queue[c] \in Seq(Frames) BY LocalsAt
  <2>5. Occurs(queue[c], Confirmations(a)) \/ Occurs(wire, Confirmations(a)) => Shows(r) \subseteq own
    BY <2>1, <2>2, ConfirmedIsMade
  <2>6. Shows(r) \cap Confirmations(a) = {} BY DEF Shows, Confirmations
  <2>7. Follows(queue[c], wire, Confirmations(a), own) BY <2>3 DEF Reading
  <2>8. Follows(queue[c], wire', Confirmations(a), own)
    <3> HIDE DEF a, own
    <3> QED BY <1>1, <2>4, <2>5, <2>6, <2>7, FollowsExtend
  <2>9. ASSUME call[c].accepted PROVE Made(maker, a) /\ Within(queue[c], own) /\ Within(wire', own)
    <3>1. Made(maker, a) /\ Within(queue[c], own) /\ Within(wire, own) BY <2>3, <2>9 DEF Reading
    <3>4. Within(wire', own) BY <1>1, <2>2, <3>1, ExtendsAt DEF Within
    <3> QED BY <3>1, <3>4
  <2> QED BY <2>8, <2>9 DEF Reading
<1>5. \A c \in Calls : Attempt(c)' = Attempt(c) /\ (RouteOpen(c)' <=> RouteOpen(c))
  BY <1>1 DEF Attempt, RouteOpen
<1>6. \A c \in Calls : /\ \A g \in got'[c] : maker'[g] = Attempt(c)'
                       /\ RouteOpen(c)' => Reading(c, call'[c], queue'[c], wire', maker')
  BY <1>1, <1>4, <1>5 DEF OutputInv
<1> QED BY <1>6 DEF OutputInv, Reading, Attempt

LEMMA PassesOutputInv ==
  ASSUME Shape, OutputInv, NEW f \in Frames, Passes(f)
  PROVE  OutputInv'
<1>1. /\ UNCHANGED <<call, got, maker>> /\ wire \in Seq(Frames) /\ wire # <<>>
      /\ wire' = Tail(wire) /\ f = wire[1]
  BY DEF Passes, historyVars, Shape
<1>2. /\ \A i \in 1..Len(Tail(wire)) : i + 1 \in 1..Len(wire) /\ Tail(wire)[i] = wire[i + 1]
      /\ 1 \in 1..Len(wire)
  BY <1>1, TailSeq
<1>4. ASSUME NEW c \in Calls, RouteOpen(c) PROVE Reading(c, call[c], queue'[c], wire', maker)
  <2> DEFINE a == <<c, call[c].attempt>>
             own == OwnOutput(call[c].session, a, maker)
  <2>1. Reading(c, call[c], queue[c], wire, maker) BY <1>4, OutputInvIs
  <2>2. queue[c] \in Seq(Frames) BY LocalsAt
  <2>3. Within(wire, own) => Within(Tail(wire), own) /\ f \in own BY <1>1, <1>2 DEF Within
  <2>4. CASE queue'[c] = queue[c]
    <3>1. Follows(queue[c], Tail(wire), Confirmations(a), own) BY <1>1, <2>1, FollowsDrop DEF Reading
    <3> QED BY <1>1, <2>1, <2>3, <2>4, <3>1 DEF Reading
  <2>5. CASE queue'[c] = Append(queue[c], f)
    <3>1. Follows(Append(queue[c], wire[1]), Tail(wire), Confirmations(a), own)
      BY <1>1, <2>1, <2>2, FollowsPass DEF Reading
    <3>2. Within(queue[c], own) /\ f \in own => Within(Append(queue[c], f), own)
      BY <2>2, AppendSeq DEF Within
    <3> QED BY <1>1, <2>1, <2>3, <2>5, <3>1, <3>2 DEF Reading
  <2> QED BY <2>4, <2>5 DEF Passes
<1>5. \A c \in Calls : Attempt(c)' = Attempt(c) /\ (RouteOpen(c)' <=> RouteOpen(c))
  BY <1>1 DEF Attempt, RouteOpen
<1>6. \A c \in Calls : /\ \A g \in got'[c] : maker'[g] = Attempt(c)'
                       /\ RouteOpen(c)' => Reading(c, call'[c], queue'[c], wire', maker')
  BY <1>1, <1>4, <1>5 DEF OutputInv
<1> QED BY <1>6 DEF OutputInv, Reading, Attempt

\* What a step of call c has to show: what it has read is its own, and it is
\* confirmed when it reads the confirmation.
LEMMA GoesOutputInv ==
  ASSUME Shape, RouteInv, FrameInv, OutputInv, NEW c \in Calls, Goes(c),
         \A d \in Calls : d # c => got'[d] = got[d],
         \A g \in got'[c] : maker[g] = Attempt(c),
         call'[c].accepted => \/ call[c].accepted
                              \/ /\ queue[c] # <<>> /\ queue'[c] = Tail(queue[c])
                                 /\ queue[c][1] \in Confirmations(Attempt(c))
  PROVE  OutputInv'
<1>1. /\ \A d \in Calls : /\ RouteOpen(d)' <=> RouteOpen(d)
                          /\ call'[d].session = call[d].session /\ call'[d].attempt = call[d].attempt
                          /\ Attempt(d)' = Attempt(d)
                          /\ d # c => call'[d] = call[d] /\ queue'[d] = queue[d]
      /\ RouteOpen(c) /\ UNCHANGED <<wire, maker>>
  BY GoesQueues
<1> DEFINE a == <<c, call[c].attempt>>
           own == OwnOutput(call[c].session, a, maker)
<1>2. queue[c] \in Seq(Frames) /\ wire \in Seq(Frames) BY LocalsAt DEF Shape
<1>3. Reading(c, call[c], queue[c], wire, maker) BY <1>1, OutputInvIs
<1>4. queue'[c] = queue[c] \/ (queue[c] # <<>> /\ queue'[c] = Tail(queue[c])) BY DEF Goes, Shape
<1>5. Follows(queue'[c], wire, Confirmations(a), own) BY <1>2, <1>3, <1>4, FollowsTail DEF Reading
<1>6. a = Attempt(c) /\ a \in Calls \X (1..2)
  <2>1. call[c].pc # "idle" BY <1>1 DEF RouteOpen
  <2> QED BY <2>1, AttemptIsPair DEF Attempt
<1>7. ASSUME call'[c].accepted PROVE Made(maker, a) /\ Within(queue'[c], own) /\ Within(wire, own)
  <2>1. CASE call[c].accepted
    <3>1. Made(maker, a) /\ Within(queue[c], own) /\ Within(wire, own) BY <1>3, <2>1 DEF Reading
    <3>2. Within(queue'[c], own)
      <4> HIDE DEF own
      <4> QED BY <1>2, <1>4, <3>1, WithinTail
    <3> QED BY <3>1, <3>2
  <2>2. CASE /\ queue[c] # <<>> /\ queue'[c] = Tail(queue[c])
             /\ queue[c][1] \in Confirmations(a)
    <3>1. /\ \A i \in 1..Len(Tail(queue[c])) : i + 1 \in 1..Len(queue[c]) /\ Tail(queue[c])[i] = queue[c][i + 1]
                                               /\ 1 < i + 1
          /\ 1 \in 1..Len(queue[c])
      BY <1>2, <2>2, TailSeq
    <3>2. Made(maker, a) BY <1>6, <2>2, <3>1, ConfirmedIsMade DEF Occurs
    <3>3. Follows(queue[c], wire, Confirmations(a), own) BY <1>3 DEF Reading
    <3>4. Within(queue'[c], own)
      <4> HIDE DEF a, own
      <4> QED BY <2>2, <3>1, <3>3 DEF Follows, Within
    <3>5. Within(wire, own)
      <4> HIDE DEF a, own
      <4> QED BY <2>2, <3>1, <3>3 DEF Follows, Within
    <3> QED BY <3>2, <3>4, <3>5
  <2> QED BY <1>6, <1>7, <2>1, <2>2
<1>8. Reading(c, call'[c], queue'[c], wire, maker) BY <1>1, <1>5, <1>7 DEF Reading
<1>9. \A d \in Calls : d # c /\ RouteOpen(d) => Reading(d, call[d], queue[d], wire, maker) BY OutputInvIs
<1>10. \A d \in Calls : /\ \A g \in got'[d] : maker'[g] = Attempt(d)'
                        /\ RouteOpen(d)' => Reading(d, call'[d], queue'[d], wire', maker')
  BY <1>1, <1>8, <1>9 DEF OutputInv
<1> QED BY <1>10 DEF OutputInv, Reading, Attempt

LEMMA BeginsOutputInv ==
  ASSUME Shape, RouteInv, OutputInv, NEW c \in Calls, NEW s, NEW n, NEW x, Begins(c, s, n, x),
         AttemptInv'
  PROVE  OutputInv'
<1>1. /\ \A d \in Calls : d # c => /\ call'[d] = call[d] /\ got'[d] = got[d]
                                   /\ (RouteOpen(d)' <=> RouteOpen(d)) /\ Attempt(d)' = Attempt(d)
      /\ call'[c] = NewAttempt(s, n, x) /\ got'[c] = {} /\ queue[c] = <<>>
      /\ UNCHANGED <<wire, queue, maker>>
  BY BeginsFacts
<1>2. call'[c].pc = "starting" /\ call'[c].accepted = FALSE BY <1>1 DEF NewAttempt
<1> DEFINE a == <<c, call'[c].attempt>>
<1>3. ASSUME NEW i \in 1..Len(wire), wire[i] \in Confirmations(a) PROVE FALSE
  <2>1. wire[i].re = StartIdOf(a) BY <1>3 DEF Confirmations
  <2>2. wire[i].re \in MessageIds /\ wire[i].re # None
    <3>1. wire[i] \in Frames BY WireAt
    <3>2. call'[c].attempt = n /\ n \in 1..2 BY <1>1 DEF NewAttempt, Begins
    <3>3. StartIdOf(a) \in MessageIds BY <3>2 DEF StartIdOf, MessageIds, RequestTypes, StartSeq
    <3> QED BY <2>1, <3>3, CallAssumption
  <2>3. Past(wire[i].re, c, call'[c]) BY <1>1, <2>2 DEF AttemptInv
  <2>4. Author(wire[i].re) = a BY <2>1 DEF StartIdOf, Author
  <2> QED BY <1>2, <2>3, <2>4 DEF Past
<1>4. \A i \in 1..Len(queue[c]) : FALSE BY <1>1
<1>5. ASSUME NEW B PROVE Follows(queue[c], wire, Confirmations(a), B)
  <2> HIDE DEF a
  <2> QED BY <1>3, <1>4 DEF Follows
<1>6. Reading(c, call'[c], queue[c], wire, maker) BY <1>2, <1>5 DEF Reading
<1>7. \A d \in Calls : d # c /\ RouteOpen(d) => Reading(d, call[d], queue[d], wire, maker) BY OutputInvIs
<1>8. \A d \in Calls : /\ \A g \in got'[d] : maker'[g] = Attempt(d)'
                       /\ RouteOpen(d)' => Reading(d, call'[d], queue'[d], wire', maker')
  BY <1>1, <1>6, <1>7 DEF OutputInv
<1> QED BY <1>8 DEF OutputInv, Reading, Attempt

LEMMA ClosesOutputInv ==
  ASSUME Shape, OutputInv, NEW c \in Calls, Closes(c)
  PROVE  OutputInv'
<1>1. /\ \A d \in Calls : d # c => call'[d] = call[d] /\ queue'[d] = queue[d] /\ (RouteOpen(d)' <=> RouteOpen(d))
      /\ ~RouteOpen(c)' /\ \A d \in Calls : Attempt(d)' = Attempt(d)
      /\ UNCHANGED <<wire, maker, got>>
  BY ClosesFacts
<1>2. \A d \in Calls : d # c /\ RouteOpen(d) => Reading(d, call[d], queue[d], wire, maker) BY OutputInvIs
<1>3. \A d \in Calls : /\ \A g \in got'[d] : maker'[g] = Attempt(d)'
                       /\ RouteOpen(d)' => Reading(d, call'[d], queue'[d], wire', maker')
  BY <1>1, <1>2 DEF OutputInv
<1> QED BY <1>3 DEF OutputInv, Reading, Attempt

-----------------------------------------------------------------------------
(***************************************************************************)
(* Silence before the confirmation.                                        *)
(***************************************************************************)
Waits(l) == l.pc \in {"starting", "reading"} /\ l.exclusive /\ ~l.accepted

Silent(c, l, q, w, m) ==
  LET confirmed == Confirmations(<<c, l.attempt>>)
  IN /\ Made(m, <<c, l.attempt>>) => Occurs(q, confirmed) \/ Occurs(w, confirmed)
     /\ Precedes(q, w, confirmed, Unasked(l.session))

LEMMA SilenceInvIs ==
  SilenceInv <=> \A c \in Calls : Waits(call[c]) => Silent(c, call[c], queue[c], wire, maker)
  BY DEF SilenceInv, Waits, Silent, Attempt

LEMMA ReadsSilenceInv ==
  ASSUME Shape, TableInv, RouteInv, SilenceInv, NEW f \in Sent, Reads(f)
  PROVE  SilenceInv'
<1>1. /\ Extends(wire, wire', Replies(f)) /\ UNCHANGED <<call, queue>> /\ wire \in Seq(Frames)
  BY ReadsQueues DEF Shape
<1>2. ASSUME NEW c \in Calls, Waits(call[c]) PROVE Silent(c, call[c], queue[c], wire', maker')
  <2> DEFINE a == <<c, call[c].attempt>>
             A == Confirmations(a)
             B == Unasked(call[c].session)
  <2>1. Silent(c, call[c], queue[c], wire, maker) BY <1>2, SilenceInvIs
  <2>2. queue[c] \in Seq(Frames) BY LocalsAt
  <2>3. f.id # None BY CallAssumption DEF Sent
  <2>4. Replies(f) \cap B = {} BY <2>3 DEF Replies, Unasked
  <2>5. Precedes(queue[c], wire', A, B)
    <3>1. Precedes(queue[c], wire, A, B) BY <2>1 DEF Silent
    <3> HIDE DEF A, B
    <3> QED BY <1>1, <2>2, <2>4, <3>1, PrecedesExtend
  <2>6. ASSUME Made(maker', a) PROVE Occurs(queue[c], A) \/ Occurs(wire', A)
    <3>1. call[c].pc # "idle" /\ a = Attempt(c) BY <1>2 DEF Waits, Attempt
    <3>2. CASE Made(maker, a)
      <4>1. Occurs(queue[c], A) \/ Occurs(wire, A) BY <2>1, <3>2 DEF Silent
      <4> HIDE DEF A
      <4> QED BY <1>1, <4>1, OccursExtend
    <3>3. CASE ~Made(maker, a)
      <4>1. maker' # maker BY <2>6, <3>3
      <4>2. HostStarts(f) BY <4>1 DEF Reads, HostRefuses, HostTakes, HostStops, HostSkips
      <4>3. a = Author(f.id) BY <2>6, <3>1, <3>3, ReadsMade
      <4>4. PICK g \in Frames : wire' = Append(wire, g) /\ g.type = "agent_started" /\ g.re = f.id
        BY <4>2 DEF HostStarts
      <4>5. f.id = StartIdOf(a)
        <5>1. f.type = "agent_start" /\ f.seq = StartSeq BY <4>2 DEF HostStarts, IsStart, Sent
        <5>2. f.id \in MessageIds /\ f.id[3] = "agent_start" /\ f.id[4] = StartSeq BY <5>1 DEF Sent
        <5>3. f.id = <<f.id[1], f.id[2], f.id[3], f.id[4]>> BY <5>2 DEF MessageIds
        <5> QED BY <4>3, <5>2, <5>3 DEF StartIdOf, Author
      <4>6. g \in A BY <4>4, <4>5 DEF Confirmations
      <4> HIDE DEF A
      <4> QED BY <1>1, <4>4, <4>6, OccursAppend
    <3> QED BY <3>2, <3>3
  <2> QED BY <2>5, <2>6 DEF Silent
<1>3. \A c \in Calls : Waits(call'[c]) => Silent(c, call'[c], queue'[c], wire', maker')
  BY <1>1, <1>2
<1> QED BY <1>3 DEF SilenceInv, Waits, Silent, Attempt

LEMMA RunsSilenceInv ==
  ASSUME Shape, RouteInv, OwnerInv, TableInv, SilenceInv, NEW r \in Sessions, Runs(r)
  PROVE  SilenceInv'
<1>1. Extends(wire, wire', Shows(r)) /\ UNCHANGED <<call, queue, maker>> /\ wire \in Seq(Frames) /\ Held(r)
  BY DEF Runs, callVars, historyVars, Shape
<1>2. ASSUME NEW c \in Calls, Waits(call[c]) PROVE Silent(c, call[c], queue[c], wire', maker)
  <2> DEFINE a == <<c, call[c].attempt>>
             A == Confirmations(a)
             B == Unasked(call[c].session)
  <2>1. Silent(c, call[c], queue[c], wire, maker) BY <1>2, SilenceInvIs
  <2>2. queue[c] \in Seq(Frames) BY LocalsAt
  <2>3. r = call[c].session => Made(maker, a)
    <3>1. RouteOpen(c) /\ call[c].exclusive BY <1>2 DEF Waits, RouteOpen
    <3>2. r = call[c].session => maker[registry[r].gen] = Attempt(c) BY <1>1, <3>1 DEF OwnerInv
    <3> QED BY <1>1, <3>2, HeldGen DEF Made, Attempt
  <2>4. Shows(r) \cap B = {} \/ Occurs(queue[c], A) \/ Occurs(wire, A)
    <3>1. r # call[c].session => Shows(r) \cap B = {} BY DEF Shows, Unasked
    <3> QED BY <2>1, <2>3, <3>1 DEF Silent
  <2>5. Precedes(queue[c], wire', A, B)
    <3>1. Precedes(queue[c], wire, A, B) BY <2>1 DEF Silent
    <3> HIDE DEF A, B
    <3> QED BY <1>1, <2>2, <2>4, <3>1, PrecedesExtend
  <2>6. Made(maker, a) => Occurs(queue[c], A) \/ Occurs(wire', A)
    <3>1. Made(maker, a) => Occurs(queue[c], A) \/ Occurs(wire, A) BY <2>1 DEF Silent
    <3> HIDE DEF A, a
    <3> QED BY <1>1, <3>1, OccursExtend
  <2> QED BY <2>5, <2>6 DEF Silent
<1>3. \A c \in Calls : Waits(call'[c]) => Silent(c, call'[c], queue'[c], wire', maker')
  BY <1>1, <1>2
<1> QED BY <1>3 DEF SilenceInv, Waits, Silent, Attempt

LEMMA PassesSilenceInv ==
  ASSUME Shape, RouteInv, AttemptInv, SilenceInv, NEW f \in Frames, Passes(f)
  PROVE  SilenceInv'
<1>1. /\ UNCHANGED <<call, maker>> /\ wire \in Seq(Frames) /\ wire # <<>>
      /\ wire' = Tail(wire) /\ f = wire[1] /\ 1 \in 1..Len(wire)
  BY TailSeq DEF Passes, historyVars, Shape
<1>2. ASSUME NEW c \in Calls, Waits(call[c]) PROVE Silent(c, call[c], queue'[c], wire', maker)
  <2> DEFINE a == <<c, call[c].attempt>>
             A == Confirmations(a)
             B == Unasked(call[c].session)
  <2>1. Silent(c, call[c], queue[c], wire, maker) BY <1>2, SilenceInvIs
  <2>2. queue[c] \in Seq(Frames) /\ RouteOpen(c) BY <1>2, LocalsAt DEF Waits, RouteOpen
  <2>3. /\ Precedes(queue[c], wire, A, B)
        /\ Made(maker, a) => Occurs(queue[c], A) \/ Occurs(wire, A)
    BY <2>1 DEF Silent
  <2>4. CASE call[c].session = f.session
    <3>1. queue'[c] = Append(queue[c], wire[1]) BY <1>1, <2>2, <2>4 DEF Passes
    <3>2. Precedes(Append(queue[c], wire[1]), Tail(wire), A, B)
      <4> HIDE DEF A, B
      <4> QED BY <1>1, <2>2, <2>3, PrecedesPass
    <3>3. Made(maker, a) => Occurs(Append(queue[c], wire[1]), A) \/ Occurs(Tail(wire), A)
      <4> HIDE DEF A, a
      <4> QED BY <1>1, <2>2, <2>3, OccursAppend, OccursTail
    <3> QED BY <1>1, <3>1, <3>2, <3>3 DEF Silent
  <2>5. CASE call[c].session # f.session
    <3>1. queue'[c] = queue[c] BY <2>5 DEF Passes
    <3>2. wire[1] \notin A
      <4>1. SUFFICES ASSUME wire[1].re = StartIdOf(a) PROVE FALSE BY DEF Confirmations
      <4>2. call[c].attempt \in 1..2 BY <1>2, LocalsAt DEF Waits, RouteInv, Locals
      <4>3. StartIdOf(a) \in MessageIds BY <4>2 DEF StartIdOf, MessageIds, RequestTypes, StartSeq
      <4>4. wire[1].re # None /\ Author(wire[1].re) = Attempt(c)
        BY <4>1, <4>3, CallAssumption DEF StartIdOf, Author, Attempt
      <4> QED BY <1>1, <2>5, <4>4 DEF AttemptInv
    <3>3. Precedes(queue[c], Tail(wire), A, B)
      <4> HIDE DEF A, B
      <4> QED BY <1>1, <2>2, <2>3, <3>2, PrecedesDrop
    <3>4. Made(maker, a) => Occurs(queue[c], A) \/ Occurs(Tail(wire), A)
      <4> HIDE DEF A, a
      <4> QED BY <1>1, <2>3, <3>2, OccursTail
    <3> QED BY <1>1, <3>1, <3>3, <3>4 DEF Silent
  <2> QED BY <2>4, <2>5
<1>3. \A c \in Calls : Waits(call'[c]) => Silent(c, call'[c], queue'[c], wire', maker')
  BY <1>1, <1>2
<1> QED BY <1>3 DEF SilenceInv, Waits, Silent, Attempt

\* What a step of call c has to show: it waited before, and what it has read
\* is not the confirmation.
LEMMA GoesSilenceInv ==
  ASSUME Shape, SilenceInv, NEW c \in Calls, Goes(c),
         Waits(call'[c]) => /\ Waits(call[c])
                            /\ \/ queue'[c] = queue[c]
                               \/ /\ queue[c] # <<>> /\ queue'[c] = Tail(queue[c])
                                  /\ queue[c][1] \notin Confirmations(Attempt(c))
  PROVE  SilenceInv'
<1>1. /\ \A d \in Calls : /\ call'[d].session = call[d].session /\ call'[d].attempt = call[d].attempt
                          /\ d # c => call'[d] = call[d] /\ queue'[d] = queue[d]
      /\ UNCHANGED <<wire, maker>>
  BY GoesQueues
<1>2. ASSUME Waits(call'[c]) PROVE Silent(c, call'[c], queue'[c], wire, maker)
  <2> DEFINE a == <<c, call[c].attempt>>
             A == Confirmations(a)
             B == Unasked(call[c].session)
  <2>1. /\ Precedes(queue[c], wire, A, B)
        /\ Made(maker, a) => Occurs(queue[c], A) \/ Occurs(wire, A)
    BY <1>2, SilenceInvIs DEF Silent
  <2>2. queue[c] \in Seq(Frames) BY LocalsAt
  <2>3. CASE queue'[c] = queue[c] BY <1>1, <2>1, <2>3 DEF Silent
  <2>4. CASE /\ queue[c] # <<>> /\ queue'[c] = Tail(queue[c]) /\ queue[c][1] \notin A
    <3>1. Precedes(Tail(queue[c]), wire, A, B)
      <4> HIDE DEF A, B
      <4> QED BY <2>1, <2>2, <2>4, PrecedesTail
    <3>2. Made(maker, a) => Occurs(Tail(queue[c]), A) \/ Occurs(wire, A)
      <4> HIDE DEF A, a
      <4> QED BY <2>1, <2>2, <2>4, OccursTail
    <3> QED BY <1>1, <2>4, <3>1, <3>2 DEF Silent
  <2> QED BY <1>2, <2>3, <2>4 DEF Attempt
<1>3. \A d \in Calls : Waits(call'[d]) => Silent(d, call'[d], queue'[d], wire', maker')
  BY <1>1, <1>2, SilenceInvIs
<1> QED BY <1>3 DEF SilenceInv, Waits, Silent, Attempt

LEMMA BeginsSilenceInv ==
  ASSUME Shape, RouteInv, UnusedInv, SilenceInv, NEW c \in Calls, NEW s, NEW n, NEW x,
         Begins(c, s, n, x),
         AttemptInv', RouteInv', Shape'
  PROVE  SilenceInv'
<1>1. /\ \A d \in Calls : d # c => call'[d] = call[d]
      /\ call'[c] = NewAttempt(s, n, x) /\ queue[c] = <<>> /\ Attempt(c)' = <<c, n>>
      /\ UNCHANGED <<wire, queue, maker>>
  BY BeginsFacts
<1>2. /\ call'[c].pc = "starting" /\ call'[c].session = s /\ call'[c].attempt = n /\ call'[c].exclusive = x
  BY <1>1 DEF NewAttempt
<1>3. ~Made(maker, <<c, n>>)
  <2>1. \A g \in 1..MaxGen : maker'[g] # <<>> => Past(maker'[g], c, call'[c]) BY DEF AttemptInv
  <2>2. ASSUME NEW g \in 1..MaxGen, maker[g] = <<c, n>> PROVE FALSE
    <3>1. Past(maker[g], c, call'[c]) BY <1>1, <2>1, <2>2
    <3> QED BY <1>2, <2>2, <3>1 DEF Past, Author
  <2> QED BY <2>2 DEF Made
<1>4. ASSUME x PROVE Silent(c, call'[c], queue[c], wire, maker)
  <2>1. s \in unused BY <1>4 DEF Begins
  <2>2. \A i \in 1..Len(wire) : wire[i] \notin Unasked(s) BY <2>1 DEF UnusedInv, Unasked
  <2>3. \A i \in 1..Len(queue[c]) : FALSE BY <1>1
  <2> QED BY <1>2, <1>3, <2>2, <2>3 DEF Silent, Precedes
<1>5. \A d \in Calls : Waits(call'[d]) => Silent(d, call'[d], queue'[d], wire', maker')
  BY <1>1, <1>2, <1>4, SilenceInvIs DEF Waits
<1> QED BY <1>5 DEF SilenceInv, Waits, Silent, Attempt

LEMMA ClosesSilenceInv ==
  ASSUME Shape, SilenceInv, NEW c \in Calls, Closes(c)
  PROVE  SilenceInv'
<1>1. /\ \A d \in Calls : d # c => call'[d] = call[d] /\ queue'[d] = queue[d]
      /\ call'[c].pc \in {"login", "ended"} /\ UNCHANGED <<wire, maker>>
  BY ClosesFacts
<1>2. \A d \in Calls : Waits(call'[d]) => Silent(d, call'[d], queue'[d], wire', maker')
  BY <1>1, SilenceInvIs DEF Waits
<1> QED BY <1>2 DEF SilenceInv, Waits, Silent, Attempt


-----------------------------------------------------------------------------
(***************************************************************************)
(* The stops a call has tried.                                             *)
(***************************************************************************)
Around(id, b, w, q) ==
  \/ \E i \in 1..Len(b) : b[i].id = id
  \/ \E i \in 1..Len(w) : w[i].re = id
  \/ \E i \in 1..Len(q) : q[i].re = id

TriedAt(c, l, b, w, q) ==
  LET a == <<c, l.attempt>>
  IN /\ \A i \in 1..Len(b) : Tried(b[i].id, a, l)
     /\ \A i \in 1..Len(w) : w[i].re # None => Tried(w[i].re, a, l)
     /\ \A i \in 1..Len(q) : q[i].re # None => Tried(q[i].re, a, l)

LEMMA TriedInvIs ==
  TriedInv <=> \A c \in Calls : TriedAt(c, call[c], inbox, wire, queue[c])
  BY DEF TriedInv, TriedAt, Attempt

\* Every id that is around was around before, or is of a stop that is tried now.
LEMMA TriedStays ==
  ASSUME NEW c, NEW l, NEW b, NEW w, NEW q, TriedAt(c, l, b, w, q),
         NEW k, NEW d, NEW v, NEW p,
         \A i \in 1..Len(d) : d[i].id # None,
         \A id : Around(id, d, v, p) /\ id # None =>
                   Around(id, b, w, q) \/ Tried(id, <<c, k.attempt>>, k),
         \A id : Tried(id, <<c, l.attempt>>, l) => Tried(id, <<c, k.attempt>>, k)
  PROVE  TriedAt(c, k, d, v, p)
<1>1. \A id : Around(id, b, w, q) /\ id # None => Tried(id, <<c, l.attempt>>, l) BY DEF Around, TriedAt
<1>2. \A id : Around(id, d, v, p) /\ id # None => Tried(id, <<c, k.attempt>>, k) BY <1>1
<1> QED BY <1>2 DEF Around, TriedAt

LEMMA InboxIds ==
  ASSUME Shape
  PROVE  \A i \in 1..Len(inbox) : inbox[i].id # None /\ inbox[i].id \in MessageIds
  BY RequestAt, CallAssumption

LEMMA ReadsTriedInv ==
  ASSUME Shape, TriedInv, NEW f \in Sent, Reads(f)
  PROVE  TriedInv'
<1>1. /\ \A i \in 1..Len(inbox') : i + 1 \in 1..Len(inbox) /\ inbox'[i] = inbox[i + 1]
      /\ 1 \in 1..Len(inbox) /\ f = inbox[1]
      /\ Extends(wire, wire', Replies(f)) /\ UNCHANGED <<call, queue>> /\ wire \in Seq(Frames)
  BY ReadsQueues DEF Shape
<1>2. ASSUME NEW c \in Calls, NEW id, Around(id, inbox', wire', queue[c]) PROVE Around(id, inbox, wire, queue[c])
  <2>1. \A i \in 1..Len(wire') : \/ i \in 1..Len(wire) /\ wire'[i] = wire[i]
                                 \/ wire'[i].re = inbox[1].id
    BY <1>1, ExtendsAt DEF Replies
  <2> QED BY <1>1, <1>2, <2>1 DEF Around
<1>3. \A i \in 1..Len(inbox') : inbox'[i].id # None BY <1>1, InboxIds
<1>4. \A c \in Calls : TriedAt(c, call[c], inbox', wire', queue[c]) BY <1>2, <1>3, TriedStays, TriedInvIs
<1> QED BY <1>1, <1>4 DEF TriedInv, TriedAt, Attempt

LEMMA RunsTriedInv ==
  ASSUME Shape, TriedInv, NEW s \in Sessions, Runs(s)
  PROVE  TriedInv'
<1>1. /\ Extends(wire, wire', Shows(s)) /\ UNCHANGED <<call, queue, inbox>> /\ wire \in Seq(Frames)
  BY DEF Runs, callVars, Shape
<1>2. ASSUME NEW c \in Calls, NEW id, id # None, Around(id, inbox, wire', queue[c])
      PROVE  Around(id, inbox, wire, queue[c])
  <2>1. \A i \in 1..Len(wire') : \/ i \in 1..Len(wire) /\ wire'[i] = wire[i]
                                 \/ wire'[i].re = None
    BY <1>1, ExtendsAt DEF Shows
  <2> QED BY <1>2, <2>1 DEF Around
<1>4. \A c \in Calls : TriedAt(c, call[c], inbox, wire', queue[c]) BY <1>2, InboxIds, TriedStays, TriedInvIs
<1> QED BY <1>1, <1>4 DEF TriedInv, TriedAt, Attempt

LEMMA PassesTriedInv ==
  ASSUME Shape, TriedInv, NEW f \in Frames, Passes(f)
  PROVE  TriedInv'
<1>1. /\ UNCHANGED <<call, inbox>> /\ wire \in Seq(Frames) /\ wire # <<>> /\ wire' = Tail(wire)
      /\ f = wire[1] /\ 1 \in 1..Len(wire)
      /\ \A i \in 1..Len(Tail(wire)) : i + 1 \in 1..Len(wire) /\ Tail(wire)[i] = wire[i + 1]
  BY TailSeq DEF Passes, Shape
<1>2. ASSUME NEW c \in Calls, NEW id, Around(id, inbox, wire', queue'[c])
      PROVE  Around(id, inbox, wire, queue[c])
  <2>1. queue[c] \in Seq(Frames) BY LocalsAt
  <2>2. \A i \in 1..Len(queue'[c]) : \/ i \in 1..Len(queue[c]) /\ queue'[c][i] = queue[c][i]
                                     \/ queue'[c][i] = wire[1]
    <3>1. CASE queue'[c] = queue[c] BY <3>1
    <3>2. CASE queue'[c] = Append(queue[c], f) BY <1>1, <2>1, <3>2, AppendSeq
    <3> QED BY <3>1, <3>2 DEF Passes
  <2> QED BY <1>1, <1>2, <2>2 DEF Around
<1>4. \A c \in Calls : TriedAt(c, call[c], inbox, wire', queue'[c]) BY <1>2, InboxIds, TriedStays, TriedInvIs
<1> QED BY <1>1, <1>4 DEF TriedInv, TriedAt, Attempt

LEMMA Alternates ==
  ASSUME NEW n \in {MessageSeq, StopSeq}
  PROVE  /\ Alternate(n) \in {MessageSeq, StopSeq} /\ Alternate(n) # n /\ Alternate(Alternate(n)) = n
         /\ n # 0 /\ Alternate(n) # 0
  BY DEF Alternate, MessageSeq, StopSeq

\* What a step of call c has to show: its stop is the one it had, the first
\* one, or the other one.
LEMMA GoesTriedInv ==
  ASSUME Shape, TriedInv, NEW c \in Calls, Goes(c),
         \/ call'[c].stop = call[c].stop /\ call'[c].second = call[c].second
         \/ call[c].stop = 0
         \/ /\ call[c].stop # 0 /\ ~call[c].second
            /\ call'[c].stop = Alternate(call[c].stop) /\ call'[c].second
  PROVE  TriedInv'
<1>1. /\ \A d \in Calls : /\ call'[d].attempt = call[d].attempt
                          /\ d # c => call'[d] = call[d]
                          /\ \A i \in 1..Len(queue'[d]) : \E k \in 1..Len(queue[d]) : queue'[d][i] = queue[d][k]
      /\ UNCHANGED wire /\ call[c] \in Locals
  BY GoesQueues, LocalsAt
<1>2. \A i \in 1..Len(inbox') :
        \/ \E k \in 1..Len(inbox) : inbox'[i] = inbox[k]
        \/ /\ inbox'[i] \in Sent /\ Author(inbox'[i].id) = Attempt(c)
           /\ inbox'[i].type = "agent_stop" => inbox'[i].seq = call'[c].stop
  BY GoesInbox
<1>3. \A i \in 1..Len(inbox') : inbox'[i].id # None
  BY <1>2, InboxIds, CallAssumption DEF Sent
<1>4. ASSUME NEW r \in Sent, Author(r.id) = Attempt(c), r.type = "agent_stop" => r.seq = call'[c].stop,
             NEW d \in Calls
      PROVE  Tried(r.id, <<d, call'[d].attempt>>, call'[d])
  <2>1. r.id[3] = r.type /\ r.id[4] = r.seq /\ (r.type = "agent_stop" => r.seq \in {2, 3})
    BY DEF Sent, MessageSeq, StopSeq
  <2>2. CASE d = c BY <1>4, <2>1, <2>2 DEF Tried
  <2>3. CASE d # c
    <3>1. Author(r.id) # <<d, call'[d].attempt>> BY <1>4, <2>3 DEF Attempt
    <3> QED BY <3>1 DEF Tried
  <2> QED BY <2>2, <2>3
<1>5. ASSUME NEW d \in Calls, NEW id, Around(id, inbox', wire', queue'[d])
      PROVE  Around(id, inbox, wire, queue[d]) \/ Tried(id, <<d, call'[d].attempt>>, call'[d])
  BY <1>1, <1>2, <1>4, <1>5 DEF Around
<1>6. ASSUME NEW d \in Calls, NEW id, Tried(id, <<d, call[d].attempt>>, call[d])
      PROVE  Tried(id, <<d, call'[d].attempt>>, call'[d])
  <2>1. CASE d # c BY <1>1, <1>6, <2>1
  <2>2. CASE d = c
    <3>1. CASE call'[c].stop = call[c].stop /\ call'[c].second = call[c].second
      BY <1>1, <1>6, <2>2, <3>1 DEF Tried
    <3>2. CASE call[c].stop = 0 BY <1>1, <1>6, <2>2, <3>2 DEF Tried
    <3>3. CASE /\ call[c].stop # 0 /\ ~call[c].second
               /\ call'[c].stop = Alternate(call[c].stop) /\ call'[c].second
      <4>1. call[c].stop \in {MessageSeq, StopSeq} BY <1>1, <3>3 DEF Locals
      <4> QED BY <1>1, <1>6, <2>2, <3>3, <4>1, Alternates DEF Tried
    <3> QED BY <3>1, <3>2, <3>3
  <2> QED BY <2>1, <2>2
<1>7. \A d \in Calls : TriedAt(d, call[d], inbox, wire, queue[d]) BY TriedInvIs
<1>8. \A d \in Calls : TriedAt(d, call'[d], inbox', wire', queue'[d])
  BY <1>3, <1>5, <1>6, <1>7, TriedStays
<1> QED BY <1>8 DEF TriedInv, TriedAt, Attempt

LEMMA BeginsTriedInv ==
  ASSUME Shape, RouteInv, TriedInv, NEW c \in Calls, NEW s, NEW n, NEW x, Begins(c, s, n, x),
  AttemptInv'
  PROVE  TriedInv'
<1>1. /\ \A d \in Calls : d # c => call'[d] = call[d]
      /\ call'[c] = NewAttempt(s, n, x) /\ queue[c] = <<>> /\ Attempt(c)' = <<c, n>>
      /\ UNCHANGED <<wire, queue, inbox>>
  BY BeginsFacts
<1>2. call'[c].pc = "starting" /\ call'[c].attempt = n BY <1>1 DEF NewAttempt
<1>3. /\ \A i \in 1..Len(inbox) : Past(inbox[i].id, c, call'[c])
      /\ \A i \in 1..Len(wire) : wire[i].re # None => Past(wire[i].re, c, call'[c])
  BY <1>1 DEF AttemptInv
<1>4. TriedAt(c, call'[c], inbox, wire, queue[c]) BY <1>1, <1>2, <1>3 DEF TriedAt, Tried, Past
<1>5. \A d \in Calls : TriedAt(d, call'[d], inbox', wire', queue'[d]) BY <1>1, <1>4, TriedInvIs
<1> QED BY <1>5 DEF TriedInv, TriedAt, Attempt

LEMMA ClosesTriedInv ==
  ASSUME Shape, TriedInv, NEW c \in Calls, Closes(c)
  PROVE  TriedInv'
<1>1. /\ \A d \in Calls : d # c => call'[d] = call[d] /\ queue'[d] = queue[d]
      /\ \A d \in Calls : /\ call'[d].attempt = call[d].attempt
                          /\ call'[d].stop = call[d].stop /\ call'[d].second = call[d].second
      /\ queue'[c] = <<>> /\ UNCHANGED <<wire, inbox>>
  BY ClosesFacts
<1>2. \A d \in Calls : TriedAt(d, call[d], inbox, wire, queue[d]) BY TriedInvIs
<1>3. ASSUME NEW d \in Calls PROVE TriedAt(d, call'[d], inbox', wire', queue'[d])
  <2>1. \A id, a : Tried(id, a, call[d]) => Tried(id, a, call'[d]) BY <1>1 DEF Tried
  <2>2. TriedAt(d, call[d], inbox, wire, queue[d]) /\ call'[d].attempt = call[d].attempt BY <1>1, <1>2
  <2>3. CASE queue'[d] = queue[d]
    <3>1. TriedAt(d, call'[d], inbox, wire, queue[d]) BY <2>1, <2>2 DEF TriedAt
    <3> QED BY <1>1, <2>3, <3>1
  <2>4. CASE queue'[d] = <<>>
    <3>1. TriedAt(d, call'[d], inbox, wire, <<>>) BY <2>1, <2>2 DEF TriedAt
    <3> QED BY <1>1, <2>4, <3>1
  <2> QED BY <1>1, <2>3, <2>4
<1> QED BY <1>3 DEF TriedInv, TriedAt, Attempt

-----------------------------------------------------------------------------
(***************************************************************************)
(* Leaving.                                                                *)
(***************************************************************************)
NoStart(b, a) == \A i \in 1..Len(b) : IsStart(b[i]) => Author(b[i].id) # a
NoneIn(b, a) == \A i \in 1..Len(b) : Author(b[i].id) # a
HeldBy(reg, m, a) == \E s \in Sessions : reg[s].status # "absent" /\ m[reg[s].gen] = a

LeaveAt(c, l, reg, m, b) ==
  LET a == <<c, l.attempt>>
  IN /\ l.pc \in {"idle", "starting", "reading", "tool", "leaving"} => l.stop = 0 /\ ~l.second
     /\ l.rejected => ~l.accepted /\ l.pc \notin {"idle", "starting", "reading", "tool"}
     /\ l.pc = "starting" => ~l.accepted
     /\ l.pc = "tool" => l.accepted
     /\ l.rejected /\ l.exclusive => ~Made(m, a) /\ NoStart(b, a)
     /\ l.pc \in {"draining", "login", "ended"} /\ ~l.hurried /\ (l.exclusive \/ l.accepted) =>
          ~HeldBy(reg, m, a) /\ NoStart(b, a)

LEMMA LeaveInvIs ==
  LeaveInv <=> \A c \in Calls : LeaveAt(c, call[c], registry, maker, inbox)
  BY DEF LeaveInv, LeaveAt, Attempt, NoStart, HeldBy, NoStartOf, Holds, Held

\* Registrations and starts of an attempt come from its start.
LEMMA LeaveStays ==
  ASSUME NEW c, NEW l, NEW reg, NEW m, NEW b, LeaveAt(c, l, reg, m, b),
         NEW rg, NEW n, NEW d,
         NoStart(b, <<c, l.attempt>>) => NoStart(d, <<c, l.attempt>>),
         Made(n, <<c, l.attempt>>) => Made(m, <<c, l.attempt>>) \/ ~NoStart(b, <<c, l.attempt>>),
         HeldBy(rg, n, <<c, l.attempt>>) => HeldBy(reg, m, <<c, l.attempt>>) \/ ~NoStart(b, <<c,
         l.attempt>>)
  PROVE  LeaveAt(c, l, rg, n, d)
  BY DEF LeaveAt

LEMMA ReadsHeldBy ==
  ASSUME Shape, TableInv, NEW f \in Sent, Reads(f), NEW a, HeldBy(registry', maker', a)
  PROVE  HeldBy(registry, maker, a) \/ (IsStart(f) /\ Author(f.id) = a)
<1>1. PICK s \in Sessions : registry'[s].status # "absent" /\ maker'[registry'[s].gen] = a BY DEF HeldBy
<1>2. Held(s)' BY <1>1 DEF Held
<1> QED BY <1>1, <1>2, ReadsHeld DEF HeldBy, Held

LEMMA RunsHeldBy ==
  ASSUME NEW s \in Sessions, Runs(s), NEW a, HeldBy(registry', maker', a)
  PROVE  HeldBy(registry, maker, a)
  BY DEF Runs, HeldBy, Held, historyVars

\* What an attempt holds it has made, and holds under its session.
LEMMA HeldByIs ==
  ASSUME Shape, TableInv, AttemptInv, NEW c \in Calls
  PROVE  /\ HeldBy(registry, maker, Attempt(c)) => Made(maker, Attempt(c))
         /\ \A s \in Sessions : Held(s) /\ maker[registry[s].gen] = Attempt(c) => s = call[c].session
         /\ HeldBy(registry, maker, Attempt(c)) =>
              /\ call[c].session \in Sessions /\ Held(call[c].session)
              /\ maker[registry[call[c].session].gen] = Attempt(c)
<1>1. \A s \in Sessions : Held(s) /\ maker[registry[s].gen] = Attempt(c) => s = call[c].session BY DEF AttemptInv
<1>2. \A s \in Sessions : Held(s) => registry[s].gen \in 1..MaxGen BY HeldGen
<1> QED BY <1>1, <1>2 DEF HeldBy, Made, Held

LEMMA ReadsLeaveInv ==
  ASSUME Shape, TableInv, RouteInv, LeaveInv, NEW f \in Sent, Reads(f)
  PROVE  LeaveInv'
<1>1. /\ \A i \in 1..Len(inbox') : i + 1 \in 1..Len(inbox) /\ inbox'[i] = inbox[i + 1]
      /\ 1 \in 1..Len(inbox) /\ f = inbox[1] /\ UNCHANGED call
  BY ReadsQueues
<1>2. ASSUME NEW c \in Calls PROVE LeaveAt(c, call[c], registry', maker', inbox')
  <2> DEFINE a == <<c, call[c].attempt>>
  <2>1. LeaveAt(c, call[c], registry, maker, inbox) BY LeaveInvIs
  <2>2. NoStart(inbox, a) => NoStart(inbox', a)
    <3> HIDE DEF a
    <3> QED BY <1>1 DEF NoStart
  <2>3. IsStart(f) /\ Author(f.id) = a => ~NoStart(inbox, a)
    <3> HIDE DEF a
    <3> QED BY <1>1 DEF NoStart
  <2>4. HeldBy(registry', maker', a) => HeldBy(registry, maker, a) \/ ~NoStart(inbox, a)
    BY <2>3, ReadsHeldBy
  <2>5. CASE call[c].pc # "idle"
    <3>1. Made(maker', a) => Made(maker, a) \/ ~NoStart(inbox, a) BY <2>3, <2>5, ReadsMade DEF Attempt
    <3> QED BY <2>1, <2>2, <2>4, <3>1, LeaveStays
  <2>6. CASE call[c].pc = "idle" BY <2>1, <2>6 DEF LeaveAt
  <2> QED BY <2>5, <2>6
<1>3. \A c \in Calls : LeaveAt(c, call'[c], registry', maker', inbox') BY <1>1, <1>2
<1> QED BY <1>3 DEF LeaveInv, LeaveAt, Attempt, NoStart, HeldBy, NoStartOf, Holds, Held

LEMMA RunsLeaveInv ==
  ASSUME LeaveInv, NEW s \in Sessions, Runs(s)
  PROVE  LeaveInv'
<1>1. UNCHANGED <<call, inbox, maker>> BY DEF Runs, callVars, historyVars
<1>2. \A c \in Calls : LeaveAt(c, call[c], registry', maker', inbox)
  BY <1>1, LeaveInvIs, LeaveStays, RunsHeldBy
<1>3. \A c \in Calls : LeaveAt(c, call'[c], registry', maker', inbox') BY <1>1, <1>2
<1> QED BY <1>3 DEF LeaveInv, LeaveAt, Attempt, NoStart, HeldBy, NoStartOf, Holds, Held

LEMMA SameLeaveInv ==
  ASSUME LeaveInv, UNCHANGED <<call, inbox, maker, registry>>
  PROVE  LeaveInv'
  BY DEF LeaveInv, Attempt, NoStartOf, Holds, Held

\* What a step of call c has to show is about c alone.
LEMMA GoesLeaveInv ==
  ASSUME Shape, LeaveInv, NEW c \in Calls, Goes(c),
         LeaveAt(c, call'[c], registry, maker, inbox')
  PROVE  LeaveInv'
<1>1. /\ \A d \in Calls : d # c => call'[d] = call[d]
      /\ UNCHANGED <<registry, maker>>
  BY GoesQueues
<1>2. \A i \in 1..Len(inbox') : \/ \E k \in 1..Len(inbox) : inbox'[i] = inbox[k]
                                \/ Author(inbox'[i].id) = <<c, call[c].attempt>>
  BY GoesInbox DEF Attempt
<1>3. ASSUME NEW d \in Calls, d # c PROVE LeaveAt(d, call[d], registry, maker, inbox')
  <2>1. NoStart(inbox, <<d, call[d].attempt>>) => NoStart(inbox', <<d, call[d].attempt>>)
    BY <1>2, <1>3 DEF NoStart
  <2> QED BY <2>1, LeaveInvIs, LeaveStays
<1>4. \A d \in Calls : LeaveAt(d, call'[d], registry', maker', inbox') BY <1>1, <1>3
<1> QED BY <1>4 DEF LeaveInv, LeaveAt, Attempt, NoStart, HeldBy, NoStartOf, Holds, Held

LEMMA BeginsLeaveInv ==
  ASSUME Shape, RouteInv, LeaveInv, NEW c \in Calls, NEW s, NEW n, NEW x, Begins(c, s, n, x)
  PROVE  LeaveInv'
<1>1. /\ \A d \in Calls : d # c => call'[d] = call[d]
      /\ call'[c] = NewAttempt(s, n, x) /\ UNCHANGED <<registry, maker, inbox>>
  BY BeginsFacts
<1>2. LeaveAt(c, call'[c], registry, maker, inbox) BY <1>1 DEF LeaveAt, NewAttempt
<1>3. \A d \in Calls : LeaveAt(d, call'[d], registry', maker', inbox') BY <1>1, <1>2, LeaveInvIs
<1> QED BY <1>3 DEF LeaveInv, LeaveAt, Attempt, NoStart, HeldBy, NoStartOf, Holds, Held

LEMMA ClosesLeaveInv ==
  ASSUME Shape, LeaveInv, NEW c \in Calls, Closes(c)
  PROVE  LeaveInv'
<1>1. /\ \A d \in Calls : d # c => call'[d] = call[d]
      /\ call'[c].pc \in {"login", "ended"} /\ call[c].pc \in {"draining", "login"}
      /\ call'[c].attempt = call[c].attempt /\ call'[c].exclusive = call[c].exclusive
      /\ call'[c].accepted = call[c].accepted /\ call'[c].rejected = call[c].rejected
      /\ call'[c].hurried = call[c].hurried
      /\ UNCHANGED <<registry, maker, inbox>>
  BY ClosesFacts
<1>2. LeaveAt(c, call'[c], registry, maker, inbox) BY <1>1, LeaveInvIs DEF LeaveAt
<1>3. \A d \in Calls : LeaveAt(d, call'[d], registry', maker', inbox') BY <1>1, <1>2, LeaveInvIs
<1> QED BY <1>3 DEF LeaveInv, LeaveAt, Attempt, NoStart, HeldBy, NoStartOf, Holds, Held

-----------------------------------------------------------------------------
(***************************************************************************)
(* Tools.                                                                  *)
(***************************************************************************)
ToolAt(l, R) ==
  /\ l.attempt = 1 /\ 1 \in R =>
       l.barred \/ (~l.auth /\ l.pc \notin {"starting", "reading", "tool"})
  /\ l.auth => l.pc \notin {"starting", "reading", "tool"}
  /\ l.pc = "login" => l.auth /\ ~l.barred /\ l.attempt = 1
  /\ l.attempt = 2 => 1 \notin R

LEMMA ToolInvIs ==
  ToolInv <=> \A c \in Calls : ToolAt(call[c], ran[c])
  BY DEF ToolInv, ToolAt, MayRetry

LEMMA SameToolInv ==
  ASSUME ToolInv, UNCHANGED <<call, ran>>
  PROVE  ToolInv'
  BY DEF ToolInv, MayRetry

LEMMA GoesToolInv ==
  ASSUME Shape, ToolInv, NEW c \in Calls, Goes(c), \A d \in Calls : d # c => ran'[d] = ran[d],
         ToolAt(call'[c], ran'[c])
  PROVE  ToolInv'
<1>1. \A d \in Calls : d # c => call'[d] = call[d] BY GoesQueues
<1>2. \A d \in Calls : ToolAt(call'[d], ran'[d]) BY <1>1, ToolInvIs
<1> QED BY <1>2 DEF ToolInv, ToolAt, MayRetry

LEMMA BeginsToolInv ==
  ASSUME Shape, RouteInv, ToolInv, NEW c \in Calls, NEW s, NEW n, NEW x, Begins(c, s, n, x)
  PROVE  ToolInv'
<1>1. /\ \A d \in Calls : d # c => call'[d] = call[d]
      /\ call'[c] = NewAttempt(s, n, x) /\ UNCHANGED ran
  BY BeginsFacts
<1>2. call[c].pc \in {"idle", "login"} /\ n = call[c].attempt + 1 BY DEF Begins
<1>3. ToolAt(call'[c], ran[c])
  <2>1. 1 \notin ran[c]
    <3>1. CASE call[c].pc = "idle" BY <3>1 DEF RouteInv
    <3>2. CASE call[c].pc = "login" BY <3>2, ToolInvIs DEF ToolAt
    <3> QED BY <1>2, <3>1, <3>2
  <2>2. /\ call'[c].pc = "starting" /\ call'[c].auth = FALSE BY <1>1 DEF NewAttempt
  <2> QED BY <2>1, <2>2 DEF ToolAt
<1>4. \A d \in Calls : ToolAt(call'[d], ran'[d]) BY <1>1, <1>3, ToolInvIs
<1> QED BY <1>4 DEF ToolInv, ToolAt, MayRetry

LEMMA ClosesToolInv ==
  ASSUME Shape, ToolInv, NEW c \in Calls, Closes(c)
  PROVE  ToolInv'
<1>1. /\ \A d \in Calls : d # c => call'[d] = call[d]
      /\ call'[c].pc \in {"login", "ended"} /\ call[c].pc \in {"draining", "login"}
      /\ call'[c].pc = "login" => MayRetry(c)
      /\ call'[c].attempt = call[c].attempt /\ call'[c].auth = call[c].auth
      /\ call'[c].barred = call[c].barred
      /\ UNCHANGED ran
  BY ClosesFacts
<1>2. ToolAt(call[c], ran[c]) BY ToolInvIs
<1>3. ToolAt(call'[c], ran'[c]) BY <1>1, <1>2 DEF ToolAt, MayRetry
<1>4. \A d \in Calls : ToolAt(call'[d], ran'[d]) BY <1>1, <1>3, ToolInvIs
<1> QED BY <1>4 DEF ToolInv, ToolAt, MayRetry

-----------------------------------------------------------------------------
(***************************************************************************)
(* Probing.                                                                *)
(***************************************************************************)
StopIdOf(c, l) == <<c, l.attempt, "agent_stop", l.stop>>

AnsweredAt(c, l, reg, m, b, f) ==
  f.re = StopIdOf(c, l) =>
    /\ NoneIn(b, <<c, l.attempt>>)
    /\ HeldBy(reg, m, <<c, l.attempt>>) =>
         f.code = "invalid_request" /\ ~l.second /\ reg[l.session].next = Alternate(l.stop)

PendingAt(c, l, reg, m, b, w, q) ==
  \A i \in 1..Len(b) : b[i].id = StopIdOf(c, l) =>
    /\ \A j \in 1..Len(b) : j > i => Author(b[j].id) # <<c, l.attempt>>
    /\ l.second => /\ \A j \in 1..Len(b) : j < i => Author(b[j].id) # <<c, l.attempt>>
                   /\ HeldBy(reg, m, <<c, l.attempt>>) => reg[l.session].next = l.stop
    /\ \A j \in 1..Len(w) : w[j].re # StopIdOf(c, l)
    /\ \A j \in 1..Len(q) : q[j].re # StopIdOf(c, l)

ProbeAt(c, l, reg, m, b, w, q) ==
  l.pc = "probing" =>
    /\ l.stop # 0 /\ (l.accepted \/ l.exclusive) /\ ~l.rejected
    /\ PendingAt(c, l, reg, m, b, w, q)
    /\ \A i \in 1..Len(w) : AnsweredAt(c, l, reg, m, b, w[i])
    /\ \A i \in 1..Len(q) : AnsweredAt(c, l, reg, m, b, q[i])

LEMMA ProbeInvIs ==
  ProbeInv <=> \A c \in Calls : ProbeAt(c, call[c], registry, maker, inbox, wire, queue[c])
<1>1. \A c \in Calls : StopId(c) = StopIdOf(c, call[c]) BY DEF StopId, StopIdOf, RequestOf
<1>2. \A c \in Calls : \A f : Answered(c, f) <=> AnsweredAt(c, call[c], registry, maker, inbox, f)
  BY <1>1 DEF Answered, AnsweredAt, NoneOf, NoneIn, Holds, HeldBy, Held, Attempt
<1>3. \A c \in Calls : Holds(c) <=> HeldBy(registry, maker, <<c, call[c].attempt>>)
  BY DEF Holds, HeldBy, Held, Attempt
<1> QED BY <1>1, <1>2, <1>3 DEF ProbeInv, ProbeAt, PendingAt, Attempt

\* The invariant of the next state, call by call.
LEMMA ProbeInvNext ==
  ASSUME \A c \in Calls : ProbeAt(c, call'[c], registry', maker', inbox', wire', queue'[c])
  PROVE  ProbeInv'
<1>1. \A c \in Calls : StopId(c)' = StopIdOf(c, call'[c]) BY DEF StopId, StopIdOf, RequestOf
<1>2. \A c \in Calls : Holds(c)' <=> HeldBy(registry', maker', <<c, call'[c].attempt>>)
  BY DEF Holds, HeldBy, Held, Attempt
<1>3. ASSUME NEW c \in Calls, call'[c].pc = "probing"
      PROVE  /\ \A i \in 1..Len(wire') : Answered(c, wire[i])'
             /\ \A i \in 1..Len(queue'[c]) : Answered(c, queue[c][i])'
  <2>1. /\ \A i \in 1..Len(wire') : AnsweredAt(c, call'[c], registry', maker', inbox', wire'[i])
        /\ \A i \in 1..Len(queue'[c]) : AnsweredAt(c, call'[c], registry', maker', inbox', queue'[c][i])
    BY <1>3 DEF ProbeAt
  <2> QED BY <1>1, <1>2, <2>1 DEF Answered, AnsweredAt, NoneOf, NoneIn, Attempt
<1> QED BY <1>1, <1>2, <1>3 DEF ProbeInv, ProbeAt, PendingAt, Attempt

\* Nothing but the attempt's own requests touches what it holds while it probes.
LEMMA ReadsProbed ==
  ASSUME Shape, TableInv, RouteInv, AttemptInv, OwnerInv, NEW f \in Sent, Reads(f),
         NEW c \in Calls, RouteOpen(c), Author(f.id) # Attempt(c),
         HeldBy(registry', maker', Attempt(c))
  PROVE  /\ HeldBy(registry, maker, Attempt(c))
         /\ registry'[call[c].session] = registry[call[c].session]
<1>1. HeldBy(registry, maker, Attempt(c)) BY ReadsHeldBy
<1>2. call[c].session \in Sessions /\ Made(maker, Attempt(c)) BY <1>1, HeldByIs
<1>3. OwnBehind(inbox, 0, call[c].session, Attempt(c)) BY <1>2 DEF OwnerInv
<1>4. f.session # call[c].session BY <1>3, ReadsQueues DEF OwnBehind
<1> QED BY <1>1, <1>2, <1>4, ReadsTable

\* The host reads the stop that is waited for.
LEMMA ReadsStop ==
  ASSUME Shape, TableInv, RouteInv, AttemptInv, ProbeInv, NEW f \in Sent, Reads(f),
         NEW c \in Calls, call[c].pc = "probing", f.id = StopIdOf(c, call[c])
  PROVE  /\ NoneIn(inbox', Attempt(c))
         /\ \E g \in Frames :
              /\ wire' = Append(wire, g)
              /\ HeldBy(registry', maker', Attempt(c)) =>
                   /\ g.code = "invalid_request" /\ ~call[c].second
                   /\ registry'[call[c].session].next = Alternate(call[c].stop)
<1> DEFINE l == call[c]
<1>0. ProbeAt(c, l, registry, maker, inbox, wire, queue[c]) BY ProbeInvIs
<1>1. /\ \A i \in 1..Len(inbox') : i + 1 \in 1..Len(inbox) /\ inbox'[i] = inbox[i + 1] /\ i + 1 > 1
      /\ 1 \in 1..Len(inbox) /\ f = inbox[1] /\ UNCHANGED call
  BY ReadsQueues
<1>2. PendingAt(c, l, registry, maker, inbox, wire, queue[c]) BY <1>0 DEF ProbeAt
<1>3. NoneIn(inbox', Attempt(c))
  <2>1. \A j \in 1..Len(inbox) : j > 1 => Author(inbox[j].id) # Attempt(c) BY <1>1, <1>2 DEF PendingAt, Attempt
  <2> QED BY <1>1, <2>1 DEF NoneIn
<1>4. /\ f.type = "agent_stop" /\ f.seq = l.stop /\ Author(f.id) = Attempt(c) /\ f.session = l.session
      /\ f.session \in Sessions
  <2>1. f.id[3] = f.type /\ f.id[4] = f.seq /\ f.session \in Sessions BY DEF Sent
  <2>2. f.id[3] = "agent_stop" /\ f.id[4] = l.stop /\ Author(f.id) = Attempt(c)
    BY DEF StopIdOf, Author, Attempt
  <2> QED BY <1>1, <2>1, <2>2 DEF AttemptInv
<1>5. l.stop \in {MessageSeq, StopSeq} BY <1>0, LocalsAt DEF ProbeAt, Locals
<1>6. CASE HostRefuses(f)
  <2>1. PICK g \in Frames : wire' = Append(wire, g) /\ (Held(f.session) =>
            g.code = "invalid_request" /\ f.seq # registry[f.session].next)
    BY <1>4, <1>6 DEF HostRefuses
  <2>2. UNCHANGED <<registry, maker>> BY <1>6 DEF HostRefuses
  <2>3. ASSUME HeldBy(registry, maker, Attempt(c))
        PROVE  g.code = "invalid_request" /\ ~l.second /\ registry[l.session].next = Alternate(l.stop)
    <3>1. Held(l.session) /\ registry[l.session].next \in {2, 3} BY <2>3, HeldByIs DEF TableInv
    <3>2. g.code = "invalid_request" /\ l.stop # registry[l.session].next BY <1>4, <2>1, <3>1
    <3>3. ~l.second BY <1>1, <1>2, <2>3, <3>2 DEF PendingAt, Attempt
    <3> QED BY <1>5, <3>1, <3>2, <3>3 DEF Alternate, MessageSeq, StopSeq
  <2> QED BY <1>3, <2>1, <2>2, <2>3
<1>7. CASE HostStops(f)
  <2>1. PICK g \in Frames : wire' = Append(wire, g) BY <1>7 DEF HostStops
  <2>2. /\ registry' = [registry EXCEPT ![f.session] = Absent] /\ UNCHANGED maker
        /\ registry \in [Sessions -> Entries]
    BY <1>7 DEF HostStops, Shape
  <2>3. ASSUME NEW t \in Sessions, registry'[t].status # "absent", maker'[registry'[t].gen] = Attempt(c)
        PROVE  FALSE
    <3>1. t # f.session BY <1>4, <2>2, <2>3 DEF Absent
    <3>2. registry'[t] = registry[t] BY <2>2, <3>1
    <3> QED BY <1>4, <2>2, <2>3, <3>1, <3>2, HeldByIs DEF Held
  <2>4. ~HeldBy(registry', maker', Attempt(c)) BY <2>3 DEF HeldBy
  <2> QED BY <1>3, <2>1, <2>4
<1> QED BY <1>4, <1>6, <1>7 DEF Reads, HostStarts, IsStart, HostTakes, HostSkips

LEMMA ReadsProbeInv ==
  ASSUME Shape, TableInv, RouteInv, AttemptInv, OwnerInv, ProbeInv, NEW f \in Sent, Reads(f)
  PROVE  ProbeInv'
<1>1. /\ \A i \in 1..Len(inbox') : i + 1 \in 1..Len(inbox) /\ inbox'[i] = inbox[i + 1]
      /\ 1 \in 1..Len(inbox) /\ f = inbox[1]
      /\ Extends(wire, wire', Replies(f)) /\ UNCHANGED <<call, queue>> /\ wire \in Seq(Frames)
  BY ReadsQueues DEF Shape
<1>2. ASSUME NEW c \in Calls, call[c].pc = "probing"
      PROVE  ProbeAt(c, call[c], registry', maker', inbox', wire', queue[c])
  <2> DEFINE l == call[c]
  <2>0. RouteOpen(c) /\ Attempt(c) = <<c, l.attempt>> BY <1>2 DEF RouteOpen, Attempt
  <2>1. /\ l.stop # 0 /\ (l.accepted \/ l.exclusive) /\ ~l.rejected
        /\ PendingAt(c, l, registry, maker, inbox, wire, queue[c])
        /\ \A i \in 1..Len(wire) : AnsweredAt(c, l, registry, maker, inbox, wire[i])
        /\ \A i \in 1..Len(queue[c]) : AnsweredAt(c, l, registry, maker, inbox, queue[c][i])
    BY <1>2, ProbeInvIs DEF ProbeAt
  <2>2. CASE f.id = StopIdOf(c, l)
    <3>1. PICK g \in Frames :
            /\ wire' = Append(wire, g)
            /\ HeldBy(registry', maker', Attempt(c)) =>
                 g.code = "invalid_request" /\ ~l.second /\ registry'[l.session].next = Alternate(l.stop)
      BY <1>2, <2>2, ReadsStop
    <3>2. NoneIn(inbox', Attempt(c)) BY <1>2, <2>2, ReadsStop
    <3>3. PendingAt(c, l, registry', maker', inbox', wire', queue[c])
      BY <2>0, <3>2 DEF PendingAt, NoneIn, StopIdOf, Author
    <3>4. /\ \A j \in 1..Len(wire) : wire[j].re # StopIdOf(c, l)
          /\ \A j \in 1..Len(queue[c]) : queue[c][j].re # StopIdOf(c, l)
      BY <1>1, <2>1, <2>2 DEF PendingAt
    <3>5. \A j \in 1..Len(wire') : wire'[j] = g \/ wire'[j].re # StopIdOf(c, l)
      BY <1>1, <3>1, <3>4, AppendSeq
    <3>6. AnsweredAt(c, l, registry', maker', inbox', g) BY <2>0, <3>1, <3>2 DEF AnsweredAt
    <3>7. \A i \in 1..Len(wire') : AnsweredAt(c, l, registry', maker', inbox', wire'[i])
      BY <3>5, <3>6 DEF AnsweredAt
    <3>8. \A i \in 1..Len(queue[c]) : AnsweredAt(c, l, registry', maker', inbox', queue[c][i])
      BY <3>4 DEF AnsweredAt
    <3> QED BY <2>1, <3>3, <3>7, <3>8 DEF ProbeAt
  <2>3. CASE f.id # StopIdOf(c, l)
    <3>1. \A j \in 1..Len(wire') : \/ j \in 1..Len(wire) /\ wire'[j] = wire[j]
                                   \/ wire'[j].re # StopIdOf(c, l)
      BY <1>1, <2>3, ExtendsAt DEF Replies
    <3>2. ASSUME NoneIn(inbox, Attempt(c)) PROVE Author(f.id) # Attempt(c) /\ NoneIn(inbox', Attempt(c))
      BY <1>1, <3>2 DEF NoneIn
    <3>3. ASSUME NEW g, AnsweredAt(c, l, registry, maker, inbox, g)
          PROVE  AnsweredAt(c, l, registry', maker', inbox', g)
      BY <2>0, <3>2, <3>3, ReadsProbed DEF AnsweredAt
    <3>4. PendingAt(c, l, registry', maker', inbox', wire', queue[c])
      <4>1. SUFFICES ASSUME NEW i \in 1..Len(inbox'), inbox'[i].id = StopIdOf(c, l)
            PROVE  /\ \A j \in 1..Len(inbox') : j > i => Author(inbox'[j].id) # Attempt(c)
                   /\ l.second =>
                        /\ \A j \in 1..Len(inbox') : j < i => Author(inbox'[j].id) # Attempt(c)
                        /\ HeldBy(registry', maker', Attempt(c)) => registry'[l.session].next = l.stop
                   /\ \A j \in 1..Len(wire') : wire'[j].re # StopIdOf(c, l)
                   /\ \A j \in 1..Len(queue[c]) : queue[c][j].re # StopIdOf(c, l)
        BY <2>0 DEF PendingAt
      <4>2. PICK k \in 1..Len(inbox) : k = i + 1 /\ inbox[k].id = StopIdOf(c, l) BY <1>1, <4>1
      <4>3. /\ \A j \in 1..Len(inbox) : j > k => Author(inbox[j].id) # Attempt(c)
            /\ l.second => /\ \A j \in 1..Len(inbox) : j < k => Author(inbox[j].id) # Attempt(c)
                           /\ HeldBy(registry, maker, Attempt(c)) => registry[l.session].next = l.stop
            /\ \A j \in 1..Len(wire) : wire[j].re # StopIdOf(c, l)
            /\ \A j \in 1..Len(queue[c]) : queue[c][j].re # StopIdOf(c, l)
        <5> HIDE DEF l
        <5> QED BY <2>0, <2>1, <4>2 DEF PendingAt
      <4>4. ASSUME NEW j \in 1..Len(inbox'), j > i PROVE Author(inbox'[j].id) # Attempt(c)
        <5>1. PICK n \in 1..Len(inbox) : n = j + 1 /\ inbox'[j] = inbox[n] BY <1>1
        <5>2. n > k BY <4>2, <4>4, <5>1
        <5> QED BY <4>3, <5>1, <5>2
      <4>5. ASSUME l.second
            PROVE  /\ \A j \in 1..Len(inbox') : j < i => Author(inbox'[j].id) # Attempt(c)
                   /\ HeldBy(registry', maker', Attempt(c)) => registry'[l.session].next = l.stop
        <5>1. ASSUME NEW j \in 1..Len(inbox'), j < i PROVE Author(inbox'[j].id) # Attempt(c)
          <6>1. PICK n \in 1..Len(inbox) : n = j + 1 /\ inbox'[j] = inbox[n] BY <1>1
          <6>2. n < k BY <4>2, <5>1, <6>1
          <6> QED BY <4>3, <4>5, <6>1, <6>2
        <5>2. Author(f.id) # Attempt(c)
          <6>1. 1 < k BY <4>2
          <6> QED BY <1>1, <4>3, <4>5, <6>1
        <5> QED BY <2>0, <4>3, <4>5, <5>1, <5>2, ReadsProbed
      <4>6. \A j \in 1..Len(wire') : wire'[j].re # StopIdOf(c, l) BY <3>1, <4>3
      <4> QED BY <4>3, <4>4, <4>5, <4>6
    <3>5. \A i \in 1..Len(wire') : AnsweredAt(c, l, registry', maker', inbox', wire'[i])
      <4>1. \A g : g.re # StopIdOf(c, l) => AnsweredAt(c, l, registry', maker', inbox', g) BY DEF AnsweredAt
      <4> QED BY <2>1, <3>1, <3>3, <4>1
    <3> QED BY <2>1, <3>3, <3>4, <3>5 DEF ProbeAt
  <2> QED BY <2>2, <2>3
<1>3. \A c \in Calls : ProbeAt(c, call'[c], registry', maker', inbox', wire', queue'[c])
  BY <1>1, <1>2 DEF ProbeAt
<1> QED BY <1>3, ProbeInvNext

LEMMA StopIdIsNoNone ==
  ASSUME Shape, RouteInv, NEW c \in Calls, call[c].pc = "probing"
  PROVE  StopIdOf(c, call[c]) # None /\ Author(StopIdOf(c, call[c])) = Attempt(c)
<1>1. call[c] \in Locals /\ call[c].attempt \in 1..2 BY LocalsAt DEF RouteInv, Locals
<1>2. StopIdOf(c, call[c]) \in MessageIds
  BY <1>1 DEF StopIdOf, MessageIds, RequestTypes, Locals, MessageSeq, StopSeq
<1> QED BY <1>2, CallAssumption DEF StopIdOf, Author, Attempt

LEMMA RunsProbeInv ==
  ASSUME Shape, TableInv, RouteInv, AttemptInv, ProbeInv, NEW s \in Sessions, Runs(s)
  PROVE  ProbeInv'
<1>1. /\ Extends(wire, wire', Shows(s)) /\ UNCHANGED <<call, queue, inbox, maker>> /\ wire \in Seq(Frames)
  BY DEF Runs, callVars, historyVars, Shape
<1>2. ASSUME NEW c \in Calls, call[c].pc = "probing"
      PROVE  ProbeAt(c, call[c], registry', maker', inbox, wire', queue[c])
  <2> DEFINE l == call[c]
  <2>0. Attempt(c) = <<c, l.attempt>> BY DEF Attempt
  <2>1. /\ l.stop # 0 /\ (l.accepted \/ l.exclusive) /\ ~l.rejected
        /\ PendingAt(c, l, registry, maker, inbox, wire, queue[c])
        /\ \A i \in 1..Len(wire) : AnsweredAt(c, l, registry, maker, inbox, wire[i])
        /\ \A i \in 1..Len(queue[c]) : AnsweredAt(c, l, registry, maker, inbox, queue[c][i])
    BY <1>2, ProbeInvIs DEF ProbeAt
  <2>2. ASSUME HeldBy(registry', maker', Attempt(c))
        PROVE  /\ HeldBy(registry, maker, Attempt(c))
               /\ registry'[l.session].next = registry[l.session].next
    <3>1. PICK t \in Sessions : registry'[t].status # "absent" /\ maker[registry'[t].gen] = Attempt(c)
      BY <1>1, <2>2 DEF HeldBy
    <3>2. Held(t) /\ registry'[t].gen = registry[t].gen /\ registry'[t].next = registry[t].next
      BY <3>1 DEF Runs, Held
    <3>3. t = l.session BY <3>1, <3>2, HeldByIs
    <3> QED BY <3>1, <3>2, <3>3 DEF HeldBy, Held
  <2>3. \A j \in 1..Len(wire') : \/ j \in 1..Len(wire) /\ wire'[j] = wire[j]
                                 \/ wire'[j].re # StopIdOf(c, l)
    <3>1. StopIdOf(c, l) # None BY <1>2, StopIdIsNoNone
    <3> QED BY <1>1, <3>1, ExtendsAt DEF Shows
  <2>4. \A g : AnsweredAt(c, l, registry, maker, inbox, g) \/ g.re # StopIdOf(c, l) =>
                 AnsweredAt(c, l, registry', maker', inbox, g)
    BY <2>0, <2>2 DEF AnsweredAt
  <2>5. PendingAt(c, l, registry', maker', inbox, wire', queue[c])
    BY <2>0, <2>1, <2>2, <2>3 DEF PendingAt
  <2> QED BY <2>1, <2>3, <2>4, <2>5 DEF ProbeAt
<1>3. \A c \in Calls : ProbeAt(c, call'[c], registry', maker', inbox', wire', queue'[c])
  BY <1>1, <1>2 DEF ProbeAt
<1> QED BY <1>3, ProbeInvNext

\* Fewer frames and the same table: nothing is disturbed.
LEMMA ProbeFewer ==
  ASSUME NEW c, NEW l, NEW reg, NEW m, NEW b, NEW w, NEW q, ProbeAt(c, l, reg, m, b, w, q),
         NEW v, NEW p,
         \A i \in 1..Len(v) : \E k \in 1..Len(w) : v[i] = w[k],
         \A i \in 1..Len(p) : \/ \E k \in 1..Len(w) : p[i] = w[k]
                              \/ \E k \in 1..Len(q) : p[i] = q[k]
  PROVE  ProbeAt(c, l, reg, m, b, v, p)
<1> SUFFICES ASSUME l.pc = "probing" PROVE ProbeAt(c, l, reg, m, b, v, p) BY DEF ProbeAt
<1>1. /\ l.stop # 0 /\ (l.accepted \/ l.exclusive) /\ ~l.rejected
      /\ PendingAt(c, l, reg, m, b, w, q)
      /\ \A i \in 1..Len(w) : AnsweredAt(c, l, reg, m, b, w[i])
      /\ \A i \in 1..Len(q) : AnsweredAt(c, l, reg, m, b, q[i])
  BY DEF ProbeAt
<1>2. PendingAt(c, l, reg, m, b, v, p) BY <1>1 DEF PendingAt
<1>3. /\ \A i \in 1..Len(v) : AnsweredAt(c, l, reg, m, b, v[i])
      /\ \A i \in 1..Len(p) : AnsweredAt(c, l, reg, m, b, p[i])
  BY <1>1
<1> QED BY <1>1, <1>2, <1>3 DEF ProbeAt

LEMMA PassesProbeInv ==
  ASSUME Shape, ProbeInv, NEW f \in Frames, Passes(f)
  PROVE  ProbeInv'
<1>1. /\ UNCHANGED <<call, inbox, registry, maker>> /\ wire \in Seq(Frames) /\ wire # <<>> /\ wire' = Tail(wire)
      /\ f = wire[1] /\ 1 \in 1..Len(wire)
      /\ \A i \in 1..Len(Tail(wire)) : i + 1 \in 1..Len(wire) /\ Tail(wire)[i] = wire[i + 1]
  BY TailSeq DEF Passes, Shape, historyVars
<1>2. ASSUME NEW c \in Calls
      PROVE  ProbeAt(c, call[c], registry, maker, inbox, wire', queue'[c])
  <2>1. queue[c] \in Seq(Frames) BY LocalsAt
  <2>2. \A i \in 1..Len(queue'[c]) : \/ \E k \in 1..Len(wire) : queue'[c][i] = wire[k]
                                     \/ \E k \in 1..Len(queue[c]) : queue'[c][i] = queue[c][k]
    <3>1. CASE queue'[c] = queue[c] BY <3>1
    <3>2. CASE queue'[c] = Append(queue[c], f) BY <1>1, <2>1, <3>2, AppendSeq
    <3> QED BY <3>1, <3>2 DEF Passes
  <2>3. \A i \in 1..Len(wire') : \E k \in 1..Len(wire) : wire'[i] = wire[k] BY <1>1
  <2> QED BY <2>2, <2>3, ProbeInvIs, ProbeFewer
<1>3. \A c \in Calls : ProbeAt(c, call'[c], registry', maker', inbox', wire', queue'[c]) BY <1>1, <1>2
<1> QED BY <1>3, ProbeInvNext

\* What a step of call c has to show is about c alone.
LEMMA GoesProbeInv ==
  ASSUME Shape, RouteInv, ProbeInv, NEW c \in Calls, Goes(c),
         ProbeAt(c, call'[c], registry, maker, inbox', wire, queue'[c])
  PROVE  ProbeInv'
<1>1. /\ \A d \in Calls : d # c => call'[d] = call[d] /\ queue'[d] = queue[d]
      /\ UNCHANGED <<registry, maker, wire>>
  BY GoesQueues
<1>2. \/ inbox' = inbox
      \/ /\ Len(inbox) \in Nat
         /\ \A i \in 1..Len(inbox) : inbox'[i] = inbox[i]
         /\ \A i \in 1..Len(inbox') : \/ i \in 1..Len(inbox) /\ inbox'[i] = inbox[i]
                                      \/ i = Len(inbox) + 1 /\ Author(inbox'[i].id) = <<c, call[c].attempt>>
  BY GoesInbox DEF Attempt
<1>3. ASSUME NEW d \in Calls, d # c, call[d].pc = "probing"
      PROVE  ProbeAt(d, call[d], registry, maker, inbox', wire, queue[d])
  <2> DEFINE l == call[d]
             a == <<d, l.attempt>>
  <2>1. /\ l.stop # 0 /\ (l.accepted \/ l.exclusive) /\ ~l.rejected
        /\ PendingAt(d, l, registry, maker, inbox, wire, queue[d])
        /\ \A i \in 1..Len(wire) : AnsweredAt(d, l, registry, maker, inbox, wire[i])
        /\ \A i \in 1..Len(queue[d]) : AnsweredAt(d, l, registry, maker, inbox, queue[d][i])
    BY <1>3, ProbeInvIs DEF ProbeAt
  <2>2. \A i \in 1..Len(inbox') : \/ i \in 1..Len(inbox) /\ inbox'[i] = inbox[i]
                                  \/ i = Len(inbox) + 1 /\ Author(inbox'[i].id) # a
    BY <1>2, <1>3
  <2>3. NoneIn(inbox, a) => NoneIn(inbox', a) BY <2>2 DEF NoneIn
  <2>4. \A g : AnsweredAt(d, l, registry, maker, inbox, g) => AnsweredAt(d, l, registry, maker, inbox', g)
    BY <2>3 DEF AnsweredAt
  <2>5. PendingAt(d, l, registry, maker, inbox', wire, queue[d])
    <3>1. Author(StopIdOf(d, l)) = a BY DEF StopIdOf, Author
    <3>2. \A i \in 1..Len(inbox') : inbox'[i].id = StopIdOf(d, l) => i \in 1..Len(inbox) /\ inbox'[i] = inbox[i]
      BY <2>2, <3>1
    <3> HIDE DEF l
    <3> QED BY <2>1, <2>2, <3>2 DEF PendingAt
  <2> QED BY <2>1, <2>4, <2>5 DEF ProbeAt
<1>4. \A d \in Calls : ProbeAt(d, call'[d], registry', maker', inbox', wire', queue'[d])
  BY <1>1, <1>3 DEF ProbeAt
<1> QED BY <1>4, ProbeInvNext

LEMMA BeginsProbeInv ==
  ASSUME Shape, RouteInv, ProbeInv, NEW c \in Calls, NEW s, NEW n, NEW x, Begins(c, s, n, x)
  PROVE  ProbeInv'
<1>1. /\ \A d \in Calls : d # c => call'[d] = call[d]
      /\ call'[c] = NewAttempt(s, n, x) /\ UNCHANGED <<registry, maker, inbox, wire, queue>>
  BY BeginsFacts
<1>2. call'[c].pc = "starting" BY <1>1 DEF NewAttempt
<1>3. ProbeAt(c, call'[c], registry', maker', inbox', wire', queue'[c]) BY <1>2 DEF ProbeAt
<1>4. \A d \in Calls : ProbeAt(d, call'[d], registry', maker', inbox', wire', queue'[d])
  BY <1>1, <1>3, ProbeInvIs
<1> QED BY <1>4, ProbeInvNext

LEMMA ClosesProbeInv ==
  ASSUME Shape, ProbeInv, NEW c \in Calls, Closes(c)
  PROVE  ProbeInv'
<1>1. /\ \A d \in Calls : d # c => call'[d] = call[d] /\ queue'[d] = queue[d]
      /\ call'[c].pc \in {"login", "ended"} /\ UNCHANGED <<registry, maker, inbox, wire>>
  BY ClosesFacts
<1>3. ProbeAt(c, call'[c], registry', maker', inbox', wire', queue'[c]) BY <1>1 DEF ProbeAt
<1>4. \A d \in Calls : ProbeAt(d, call'[d], registry', maker', inbox', wire', queue'[d])
  BY <1>1, <1>3, ProbeInvIs
<1> QED BY <1>4, ProbeInvNext

-----------------------------------------------------------------------------
(***************************************************************************)
(* The steps of a call while its route is open.                            *)
(***************************************************************************)

\* What such a step has to show beyond what it has in common with the others.
ActsWell(c) ==
  /\ got' \in [Calls -> SUBSET (1..MaxGen)] /\ ran' \in [Calls -> SUBSET {1, 2}]
  /\ \A d \in Calls : d # c => got'[d] = got[d] /\ ran'[d] = ran[d]
  /\ \A g \in got'[c] : maker[g] = Attempt(c)
  /\ call'[c].accepted => \/ call[c].accepted
                          \/ /\ queue[c] # <<>> /\ queue'[c] = Tail(queue[c])
                             /\ queue[c][1] \in Confirmations(Attempt(c))
  /\ Waits(call'[c]) => /\ Waits(call[c])
                        /\ \/ queue'[c] = queue[c]
                           \/ /\ queue[c] # <<>> /\ queue'[c] = Tail(queue[c])
                              /\ queue[c][1] \notin Confirmations(Attempt(c))
  /\ \/ call'[c].stop = call[c].stop /\ call'[c].second = call[c].second
     \/ call[c].stop = 0
     \/ /\ call[c].stop # 0 /\ ~call[c].second
        /\ call'[c].stop = Alternate(call[c].stop) /\ call'[c].second
  /\ LeaveAt(c, call'[c], registry, maker, inbox')
  /\ ProbeAt(c, call'[c], registry, maker, inbox', wire, queue'[c])
  /\ ToolAt(call'[c], ran'[c])

LEMMA GoesCallInv ==
  ASSUME CallInv, NEW c \in Calls, Goes(c), ActsWell(c)
  PROVE  CallInv'
<1>1. /\ Shape /\ TableInv /\ RouteInv /\ AttemptInv /\ UnusedInv /\ StartInv /\ OwnerInv /\ StopInv
      /\ FrameInv /\ OutputInv /\ SilenceInv /\ TriedInv /\ ProbeInv /\ LeaveInv /\ ToolInv
  BY DEF CallInv
<1>2. Shape' BY <1>1, GoesShape DEF ActsWell
<1>3. TableInv'
  <2>1. UNCHANGED <<registry, made, maker>> BY DEF Goes, serverVars
  <2> QED BY <1>1, <2>1, SameTableInv
<1>4. RouteInv' BY <1>1, GoesRouteInv DEF ActsWell
<1>5. AttemptInv' /\ UnusedInv' /\ StartInv' BY <1>1, GoesAttemptInv, GoesUnusedInv, GoesStartInv
<1>6. OwnerInv' /\ StopInv' /\ FrameInv' BY <1>1, GoesOwnerInv, GoesStopInv, GoesFrameInv
<1>7. OutputInv' BY <1>1, GoesOutputInv DEF ActsWell
<1>8. SilenceInv' BY <1>1, GoesSilenceInv DEF ActsWell
<1>9. TriedInv' BY <1>1, GoesTriedInv DEF ActsWell
<1>10. ProbeInv' BY <1>1, GoesProbeInv DEF ActsWell
<1>11. LeaveInv' BY <1>1, GoesLeaveInv DEF ActsWell
<1>12. ToolInv' BY <1>1, GoesToolInv DEF ActsWell
<1> QED BY <1>2, <1>3, <1>4, <1>5, <1>6, <1>7, <1>8, <1>9, <1>10, <1>11, <1>12 DEF CallInv

LEMMA SameSeen ==
  ASSUME Shape, OutputInv, NEW c \in Calls, UNCHANGED <<got, ran>>
  PROVE  /\ got' \in [Calls -> SUBSET (1..MaxGen)] /\ ran' \in [Calls -> SUBSET {1, 2}]
         /\ \A d \in Calls : d # c => got'[d] = got[d] /\ ran'[d] = ran[d]
         /\ \A g \in got'[c] : maker[g] = Attempt(c)
  BY DEF Shape, OutputInv

LEMMA CallInvAt ==
  ASSUME CallInv, NEW c \in Calls
  PROVE  /\ call[c] \in Locals /\ queue[c] \in Seq(Frames)
         /\ LeaveAt(c, call[c], registry, maker, inbox) /\ ToolAt(call[c], ran[c])
         /\ ProbeAt(c, call[c], registry, maker, inbox, wire, queue[c])
         /\ TriedAt(c, call[c], inbox, wire, queue[c])
  BY LocalsAt, LeaveInvIs, ToolInvIs, ProbeInvIs, TriedInvIs DEF CallInv

LEMMA SendStartActs ==
  ASSUME CallInv, NEW c \in Calls, SendStart(c)
  PROVE  CallInv'
<1>0. Shape /\ RouteInv /\ OutputInv BY DEF CallInv
<1>1. call[c].pc = "starting" /\ UNCHANGED <<queue, got, ran>> BY DEF SendStart, historyVars
<1> DEFINE l == [call[c] EXCEPT !.pc = "reading"]
<1>2. call' = [call EXCEPT ![c] = l] BY <1>0 DEF SendStart, Shape
<1>3. call'[c] = l BY <1>0, <1>2, UpdateIs
<1>4. /\ l.pc = "reading" /\ l.accepted = call[c].accepted /\ l.exclusive = call[c].exclusive
      /\ l.stop = call[c].stop /\ l.second = call[c].second /\ l.rejected = call[c].rejected
      /\ l.attempt = call[c].attempt /\ l.auth = call[c].auth /\ l.barred = call[c].barred
  BY CallInvAt DEF Locals
<1> HIDE DEF l
<1>5. LeaveAt(c, l, registry, maker, inbox') BY <1>1, <1>4, CallInvAt DEF LeaveAt
<1>6. ToolAt(l, ran'[c]) BY <1>1, <1>4, CallInvAt DEF ToolAt
<1>7. ProbeAt(c, l, registry, maker, inbox', wire, queue'[c]) BY <1>4 DEF ProbeAt
<1>8. Waits(l) => Waits(call[c]) BY <1>1, <1>4 DEF Waits
<1>9. ActsWell(c) BY <1>0, <1>1, <1>3, <1>4, <1>5, <1>6, <1>7, <1>8, SameSeen DEF ActsWell
<1> QED BY <1>0, <1>9, SendStartGoes, GoesCallInv

LEMMA SkipFrameActs ==
  ASSUME CallInv, NEW c \in Calls, SkipFrame(c)
  PROVE  CallInv'
<1>0. Shape /\ RouteInv /\ OutputInv BY DEF CallInv
<1>1. /\ call[c].pc = "reading" /\ UNCHANGED <<call, inbox, got, ran>>
      /\ queue[c] # <<>> /\ queue'[c] = Tail(queue[c]) /\ Ignored(c, Head(queue[c]))
  BY <1>0 DEF SkipFrame, historyVars, Take, Shape
<1>2. Head(queue[c]) = queue[c][1] BY <1>1, CallInvAt, TailSeq
<1>3. StartId(c) = StartIdOf(Attempt(c)) BY DEF StartId, RequestOf, StartIdOf, Attempt
<1>4. queue[c][1] \notin Confirmations(Attempt(c)) BY <1>1, <1>2, <1>3 DEF Confirmations, Ignored
<1>5. ProbeAt(c, call[c], registry, maker, inbox', wire, queue'[c]) BY <1>1 DEF ProbeAt
<1>6. ActsWell(c) BY <1>0, <1>1, <1>4, <1>5, SameSeen, CallInvAt DEF ActsWell
<1> QED BY <1>0, <1>6, SkipFrameGoes, GoesCallInv

\* A refused start of an exclusive id has left nothing.
LEMMA RefusedStart ==
  ASSUME CallInv, NEW c \in Calls, call[c].pc = "reading", ~call[c].accepted, call[c].exclusive,
         queue[c] # <<>>, ~Ignored(c, queue[c][1]), queue[c][1].type \in {"agent_error", "nack"}
  PROVE  ~Made(maker, Attempt(c)) /\ NoStart(inbox, Attempt(c))
<1> DEFINE f == queue[c][1]
<1>0. Shape /\ RouteInv /\ FrameInv /\ SilenceInv BY DEF CallInv
<1>1. 1 \in 1..Len(queue[c]) BY CallInvAt, TailSeq
<1>2. f \in Frames /\ f.session = call[c].session /\ FrameInOrder(f, maker, inbox)
  BY <1>0, <1>1, WireAt DEF RouteInv, FrameInv
<1>3. f.type = "agent_error" BY <1>2 DEF Frames
<1>4. f.re # None
  <2>1. SUFFICES ASSUME f.re = None PROVE FALSE OBVIOUS
  <2>2. f \in Unasked(call[c].session) BY <1>2, <2>1 DEF Unasked
  <2>3. Precedes(queue[c], wire, Confirmations(Attempt(c)), Unasked(call[c].session))
    BY <1>0 DEF SilenceInv
  <2> QED BY <1>1, <2>2, <2>3 DEF Precedes
<1>5. f.re = StartIdOf(Attempt(c)) BY <1>3, <1>4 DEF Ignored, StartId, RequestOf, StartIdOf, Attempt
<1>6. Author(f.re) = Attempt(c) /\ f.re = StartIdOf(f.re) BY <1>5 DEF Author, StartIdOf, Attempt
<1> QED BY <1>2, <1>3, <1>4, <1>6 DEF FrameInOrder, NoStart

LEMMA ReadNextActs ==
  ASSUME CallInv, NEW c \in Calls, ReadNext(c)
  PROVE  CallInv'
<1>0. Shape /\ RouteInv /\ OutputInv /\ FrameInv BY DEF CallInv
<1> DEFINE f == queue[c][1]
<1>1. /\ call[c].pc = "reading" /\ UNCHANGED ran
      /\ queue[c] # <<>> /\ queue'[c] = Tail(queue[c])
  BY <1>0 DEF ReadNext, Take, Shape
<1>2. Head(queue[c]) = f /\ 1 \in 1..Len(queue[c]) BY <1>1, CallInvAt, TailSeq
<1>3. ~Ignored(c, f) /\ (Raise(c, f) \/ Started(c, f) \/ Output(c, f)) BY <1>2 DEF ReadNext
<1>4. /\ LeaveAt(c, call[c], registry, maker, inbox) /\ ToolAt(call[c], ran[c]) /\ call[c] \in Locals
      /\ f \in Frames /\ f.session = call[c].session /\ FrameInOrder(f, maker, inbox)
  BY <1>0, <1>2, CallInvAt, WireAt DEF RouteInv, FrameInv
<1>5. CASE Raise(c, f)
  <2>1. PICK auth \in BOOLEAN :
         call' = [call EXCEPT ![c].pc = "leaving", ![c].rejected = ~call[c].accepted, ![c].auth = auth]
    BY <1>5 DEF Raise
  <2> DEFINE l == [call[c] EXCEPT !.pc = "leaving", !.rejected = ~call[c].accepted, !.auth = auth]
  <2>2. call' = [call EXCEPT ![c] = l] BY <1>0, <2>1 DEF Shape
  <2>3. call'[c] = l BY <1>0, <2>2, UpdateIs
  <2>4. /\ l.pc = "leaving" /\ l.accepted = call[c].accepted /\ l.exclusive = call[c].exclusive
        /\ l.stop = call[c].stop /\ l.second = call[c].second /\ l.rejected = ~call[c].accepted
        /\ l.attempt = call[c].attempt /\ l.barred = call[c].barred
    BY <1>4 DEF Locals
  <2> HIDE DEF l
  <2>5. UNCHANGED <<inbox, got, ran>> /\ f.type \in {"agent_error", "nack"} BY <1>1, <1>5 DEF Raise
  <2>6. l.rejected /\ l.exclusive => ~Made(maker, Attempt(c)) /\ NoStart(inbox, Attempt(c))
    BY <1>1, <1>3, <2>4, <2>5, RefusedStart
  <2>7. LeaveAt(c, l, registry, maker, inbox') BY <1>1, <1>4, <2>4, <2>5, <2>6 DEF LeaveAt, Attempt
  <2>8. ToolAt(l, ran'[c]) BY <1>1, <1>4, <2>4 DEF ToolAt
  <2>9. ProbeAt(c, l, registry, maker, inbox', wire, queue'[c]) /\ ~Waits(l) BY <2>4 DEF ProbeAt, Waits
  <2>10. ActsWell(c) BY <1>0, <2>3, <2>4, <2>5, <2>7, <2>8, <2>9, SameSeen DEF ActsWell
  <2> QED BY <1>0, <2>10, ReadNextGoes, GoesCallInv
<1>6. CASE Started(c, f)
  <2> DEFINE l == [call[c] EXCEPT !.accepted = TRUE]
  <2>2. call' = [call EXCEPT ![c] = l] BY <1>0, <1>6 DEF Shape, Started
  <2>3. call'[c] = l BY <1>0, <2>2, UpdateIs
  <2>4. /\ l.pc = "reading" /\ l.accepted = TRUE /\ l.exclusive = call[c].exclusive
        /\ l.stop = call[c].stop /\ l.second = call[c].second /\ l.rejected = call[c].rejected
        /\ l.attempt = call[c].attempt /\ l.barred = call[c].barred /\ l.auth = call[c].auth
    BY <1>1, <1>4 DEF Locals
  <2> HIDE DEF l
  <2>5. UNCHANGED <<got, ran>> /\ f.type = "agent_started" BY <1>1, <1>6 DEF Started
  <2>6. f \in Confirmations(Attempt(c))
    <3>1. f.re # None BY <1>4, <2>5 DEF FrameInOrder
    <3>2. f.re = StartIdOf(Attempt(c))
      BY <1>3, <2>5, <3>1 DEF Ignored, StartId, RequestOf, StartIdOf, Attempt
    <3> QED BY <1>4, <2>5, <3>2 DEF Confirmations
  <2>7. LeaveAt(c, l, registry, maker, inbox') BY <1>1, <1>4, <2>4 DEF LeaveAt
  <2>8. ToolAt(l, ran'[c]) BY <1>1, <1>4, <2>4 DEF ToolAt
  <2>9. ProbeAt(c, l, registry, maker, inbox', wire, queue'[c]) /\ ~Waits(l) BY <2>4 DEF ProbeAt, Waits
  <2>10. ActsWell(c) BY <1>0, <1>1, <2>3, <2>4, <2>5, <2>6, <2>7, <2>8, <2>9, SameSeen DEF ActsWell
  <2> QED BY <1>0, <2>10, ReadNextGoes, GoesCallInv
<1>7. CASE Output(c, f)
  <2>0. IsOutput(f) /\ inbox' = inbox /\ call[c].accepted BY <1>3, <1>7 DEF Output, IsOutput, Ignored
  <2>1. PICK l \in Locals :
          /\ call'[c] = l
          /\ l.pc \in {"reading", "tool", "leaving"} /\ l.accepted = call[c].accepted
          /\ l.exclusive = call[c].exclusive
          /\ l.stop = call[c].stop /\ l.second = call[c].second /\ l.rejected = call[c].rejected
          /\ l.attempt = call[c].attempt
          /\ call[c].barred => l.barred
          /\ l.auth => call[c].auth \/ l.pc = "leaving"
    <3>1. CASE call' = [call EXCEPT ![c].pc = "tool", ![c].messageAccepted = TRUE]
      <4> DEFINE l == [call[c] EXCEPT !.pc = "tool", !.messageAccepted = TRUE]
      <4>1. call' = [call EXCEPT ![c] = l] BY <1>0, <3>1 DEF Shape
      <4>2. call'[c] = l BY <1>0, <4>1, UpdateIs
      <4> QED BY <1>1, <1>4, <4>2 DEF Locals, Places
    <3>2. CASE \E barred \in {call[c].barred, TRUE} :
             call' = [call EXCEPT ![c].messageAccepted = TRUE, ![c].barred = barred]
      <4>0. PICK barred \in {call[c].barred, TRUE} :
             call' = [call EXCEPT ![c].messageAccepted = TRUE, ![c].barred = barred]
        BY <3>2
      <4> DEFINE l == [call[c] EXCEPT !.messageAccepted = TRUE, !.barred = barred]
      <4>1. call' = [call EXCEPT ![c] = l] BY <1>0, <4>0 DEF Shape
      <4>2. call'[c] = l BY <1>0, <4>1, UpdateIs
      <4>3. barred \in BOOLEAN BY <1>4 DEF Locals
      <4>4. /\ l \in Locals /\ l.pc = "reading" /\ l.accepted = call[c].accepted
            /\ l.exclusive = call[c].exclusive
            /\ l.stop = call[c].stop /\ l.second = call[c].second /\ l.rejected = call[c].rejected
            /\ l.attempt = call[c].attempt
            /\ l.barred = barred /\ l.auth = call[c].auth
        BY <1>1, <1>4, <4>3 DEF Locals
      <4> HIDE DEF l
      <4> QED BY <4>0, <4>2, <4>4
    <3>3. CASE \E auth \in BOOLEAN :
             call' = [call EXCEPT ![c].pc = "leaving", ![c].messageAccepted = TRUE, ![c].auth = auth]
      <4>0. PICK auth \in BOOLEAN :
             call' = [call EXCEPT ![c].pc = "leaving", ![c].messageAccepted = TRUE, ![c].auth = auth]
        BY <3>3
      <4> DEFINE l == [call[c] EXCEPT !.pc = "leaving", !.messageAccepted = TRUE, !.auth = auth]
      <4>1. call' = [call EXCEPT ![c] = l] BY <1>0, <4>0 DEF Shape
      <4>2. call'[c] = l BY <1>0, <4>1, UpdateIs
      <4>3. /\ l \in Locals /\ l.pc = "leaving" /\ l.accepted = call[c].accepted
            /\ l.exclusive = call[c].exclusive
            /\ l.stop = call[c].stop /\ l.second = call[c].second /\ l.rejected = call[c].rejected
            /\ l.attempt = call[c].attempt
            /\ l.barred = call[c].barred
        BY <1>4 DEF Locals, Places
      <4> HIDE DEF l
      <4> QED BY <4>2, <4>3
    <3> QED BY <1>7, <3>1, <3>2, <3>3 DEF Output
  <2>2. f.gen \in 1..MaxGen /\ maker[f.gen] = Attempt(c)
    <3>1. RouteOpen(c) BY <1>1 DEF RouteOpen
    <3>2. f \in OwnOutput(call[c].session, Attempt(c), maker) BY <1>0, <1>2, <2>0, <3>1 DEF OutputInv, Within
    <3> QED BY <1>4, <2>0, <3>2 DEF OwnOutput
  <2>3. got' = [got EXCEPT ![c] = got[c] \union {f.gen}] BY <1>0, <1>7 DEF Output, Shape
  <2>4. /\ got' \in [Calls -> SUBSET (1..MaxGen)] /\ ran' \in [Calls -> SUBSET {1, 2}]
        /\ \A d \in Calls : d # c => got'[d] = got[d] /\ ran'[d] = ran[d]
        /\ \A g \in got'[c] : maker[g] = Attempt(c)
    <3>1. \A g \in got[c] : maker[g] = Attempt(c) BY <1>0 DEF OutputInv
    <3> QED BY <1>0, <1>1, <2>2, <2>3, <3>1 DEF Shape
  <2>5. LeaveAt(c, l, registry, maker, inbox') BY <1>1, <1>4, <2>0, <2>1 DEF LeaveAt
  <2>6. ToolAt(l, ran'[c]) BY <1>1, <1>4, <2>1 DEF ToolAt
  <2>7. ProbeAt(c, l, registry, maker, inbox', wire, queue'[c]) /\ ~Waits(l)
    BY <2>0, <2>1 DEF ProbeAt, Waits
  <2>8. ActsWell(c) BY <2>0, <2>1, <2>4, <2>5, <2>6, <2>7 DEF ActsWell
  <2> QED BY <1>0, <2>8, ReadNextGoes, GoesCallInv
<1> QED BY <1>3, <1>5, <1>6, <1>7

LEMMA ToolEndsActs ==
  ASSUME CallInv, NEW c \in Calls, ToolEnds(c)
  PROVE  CallInv'
<1>0. Shape /\ RouteInv /\ OutputInv BY DEF CallInv
<1>1. /\ call[c].pc = "tool" /\ UNCHANGED <<queue, got>>
      /\ ran' = [ran EXCEPT ![c] = ran[c] \union {call[c].attempt}]
  BY <1>0 DEF ToolEnds, Shape
<1> DEFINE l == [call[c] EXCEPT !.pc = "reading", !.barred = TRUE]
<1>2. call' = [call EXCEPT ![c] = l] BY <1>0 DEF ToolEnds, Shape
<1>3. call'[c] = l BY <1>0, <1>2, UpdateIs
<1>4. /\ l.pc = "reading" /\ l.accepted = call[c].accepted /\ l.exclusive = call[c].exclusive
      /\ l.stop = call[c].stop /\ l.second = call[c].second /\ l.rejected = call[c].rejected
      /\ l.attempt = call[c].attempt /\ l.auth = call[c].auth /\ l.barred = TRUE
  BY CallInvAt DEF Locals
<1> HIDE DEF l
<1>5. LeaveAt(c, call[c], registry, maker, inbox) /\ ToolAt(call[c], ran[c]) BY CallInvAt
<1>6. LeaveAt(c, l, registry, maker, inbox') BY <1>1, <1>4, <1>5 DEF LeaveAt
<1>7. /\ ran' \in [Calls -> SUBSET {1, 2}] /\ ran'[c] = ran[c] \union {call[c].attempt}
      /\ \A d \in Calls : d # c => ran'[d] = ran[d]
  <2>1. call[c].attempt \in {1, 2} BY <1>0, <1>1, LocalsAt DEF RouteInv, Locals
  <2> QED BY <1>0, <1>1, <2>1 DEF Shape
<1>8. ToolAt(l, ran'[c]) BY <1>1, <1>4, <1>5, <1>7 DEF ToolAt
<1>9. ProbeAt(c, l, registry, maker, inbox', wire, queue'[c]) BY <1>4 DEF ProbeAt
<1>10. ~Waits(l) BY <1>1, <1>4, <1>5 DEF Waits, LeaveAt
<1>11. got' \in [Calls -> SUBSET (1..MaxGen)] /\ \A g \in got'[c] : maker[g] = Attempt(c)
  BY <1>0, <1>1 DEF Shape, OutputInv
<1>12. ActsWell(c) BY <1>1, <1>3, <1>4, <1>6, <1>7, <1>8, <1>9, <1>10, <1>11 DEF ActsWell
<1> QED BY <1>0, <1>12, ToolEndsGoes, GoesCallInv

LEMMA LeaveActs ==
  ASSUME CallInv, NEW c \in Calls, Leave(c)
  PROVE  CallInv'
<1>0. Shape /\ RouteInv /\ OutputInv BY DEF CallInv
<1>1. /\ call[c].pc \in {"starting", "reading", "tool"} /\ UNCHANGED <<queue, got, inbox>>
      /\ ran' = IF call[c].pc = "tool" THEN [ran EXCEPT ![c] = ran[c] \union {call[c].attempt}] ELSE ran
  BY <1>0 DEF Leave, Shape
<1> DEFINE l == [call[c] EXCEPT !.pc = "leaving"]
<1>2. call' = [call EXCEPT ![c] = l] BY <1>0 DEF Leave, Shape
<1>3. call'[c] = l BY <1>0, <1>2, UpdateIs
<1>4. /\ l.pc = "leaving" /\ l.accepted = call[c].accepted /\ l.exclusive = call[c].exclusive
      /\ l.stop = call[c].stop /\ l.second = call[c].second /\ l.rejected = call[c].rejected
      /\ l.attempt = call[c].attempt /\ l.auth = call[c].auth /\ l.barred = call[c].barred
  BY CallInvAt DEF Locals
<1> HIDE DEF l
<1>5. LeaveAt(c, call[c], registry, maker, inbox) /\ ToolAt(call[c], ran[c]) BY CallInvAt
<1>6. LeaveAt(c, l, registry, maker, inbox') BY <1>1, <1>4, <1>5 DEF LeaveAt
<1>7. /\ ran' \in [Calls -> SUBSET {1, 2}]
      /\ ran'[c] = ran[c] \/ (call[c].pc = "tool" /\ ran'[c] = ran[c] \union {call[c].attempt})
      /\ \A d \in Calls : d # c => ran'[d] = ran[d]
  <2>1. call[c].attempt \in {1, 2} BY <1>0, <1>1, LocalsAt DEF RouteInv, Locals
  <2> QED BY <1>0, <1>1, <2>1 DEF Shape
<1>8. ToolAt(l, ran'[c]) BY <1>1, <1>4, <1>5, <1>7 DEF ToolAt
<1>9. ProbeAt(c, l, registry, maker, inbox', wire, queue'[c]) /\ ~Waits(l) BY <1>4 DEF ProbeAt, Waits
<1>10. got' \in [Calls -> SUBSET (1..MaxGen)] /\ \A g \in got'[c] : maker[g] = Attempt(c)
  BY <1>0, <1>1 DEF Shape, OutputInv
<1>11. ActsWell(c) BY <1>1, <1>3, <1>4, <1>6, <1>7, <1>8, <1>9, <1>10 DEF ActsWell
<1> QED BY <1>0, <1>11, LeaveGoes, GoesCallInv

LEMMA StopActs ==
  ASSUME CallInv, NEW c \in Calls, Stop(c)
  PROVE  CallInv'
<1>0. /\ Shape /\ TableInv /\ RouteInv /\ AttemptInv /\ OutputInv
      /\ Goes(c) /\ UNCHANGED <<queue, got, ran>> /\ call[c].pc = "leaving"
  BY StopGoes DEF CallInv, Stop, historyVars
<1>1. /\ LeaveAt(c, call[c], registry, maker, inbox) /\ ToolAt(call[c], ran[c])
      /\ TriedAt(c, call[c], inbox, wire, queue[c]) /\ call[c] \in Locals
      /\ Attempt(c) = <<c, call[c].attempt>>
  BY CallInvAt DEF Attempt
<1>2. call[c].stop = 0 /\ ~call[c].second BY <1>0, <1>1 DEF LeaveAt
<1>3. ASSUME OwesStop(c), NEW n \in {MessageSeq, StopSeq},
             call' = [call EXCEPT ![c] = [call[c] EXCEPT !.pc = "probing", !.stop = n]],
             inbox' = Append(inbox, RequestOf(c, "agent_stop", n))
      PROVE  CallInv'
  <2> DEFINE l == [call[c] EXCEPT !.pc = "probing", !.stop = n]
  <2>1. call'[c] = l BY <1>0, <1>3, UpdateIs
  <2>2. /\ l.pc = "probing" /\ l.accepted = call[c].accepted /\ l.exclusive = call[c].exclusive
        /\ l.stop = n /\ l.second = call[c].second /\ l.rejected = call[c].rejected
        /\ l.attempt = call[c].attempt /\ l.auth = call[c].auth /\ l.barred = call[c].barred
    BY <1>1 DEF Locals
  <2> HIDE DEF l
  <2>3. n # 0 BY DEF MessageSeq, StopSeq
  <2>4. Author(StopIdOf(c, l)) = Attempt(c) /\ StopIdOf(c, l)[3] = "agent_stop" /\ StopIdOf(c, l) # None
    <3>1. n \in 0..3 /\ call[c].attempt \in 1..2
      BY <1>0, <1>1 DEF RouteInv, Locals, MessageSeq, StopSeq
    <3>2. StopIdOf(c, l) \in MessageIds BY <2>2, <3>1 DEF StopIdOf, MessageIds, RequestTypes
    <3> QED BY <1>1, <2>2, <3>2, CallAssumption DEF StopIdOf, Author
  <2>5. \A id : id = StopIdOf(c, l) => ~Tried(id, Attempt(c), call[c]) BY <1>2, <2>4 DEF Tried
  <2>6. /\ \A i \in 1..Len(inbox) : inbox[i].id # StopIdOf(c, l)
        /\ \A i \in 1..Len(wire) : wire[i].re # StopIdOf(c, l)
        /\ \A i \in 1..Len(queue[c]) : queue[c][i].re # StopIdOf(c, l)
    BY <1>1, <2>4, <2>5 DEF TriedAt
  <2>7. PICK r \in Sent : r = RequestOf(c, "agent_stop", n) /\ r.type = "agent_stop"
    BY <1>0, RequestIsSent DEF Goes, RequestTypes, MessageSeq, StopSeq
  <2>8. /\ Len(inbox) \in Nat /\ Len(inbox') = Len(inbox) + 1
        /\ \A i \in 1..Len(inbox') : \/ i \in 1..Len(inbox) /\ inbox'[i] = inbox[i]
                                     \/ i = Len(inbox) + 1 /\ inbox'[i] = r
    BY <1>0, <1>3, <2>7, AppendSeq DEF Shape
  <2>9. PendingAt(c, l, registry, maker, inbox', wire, queue[c])
    <3>1. \A i \in 1..Len(inbox') : inbox'[i].id = StopIdOf(c, l) => i = Len(inbox') BY <2>6, <2>8
    <3>2. \A j \in 1..Len(inbox') : ~(j > Len(inbox')) BY <2>8
    <3> QED BY <1>2, <2>2, <2>6, <3>1, <3>2 DEF PendingAt
  <2>10. ProbeAt(c, l, registry, maker, inbox', wire, queue'[c])
    BY <1>0, <1>3, <2>2, <2>3, <2>6, <2>9 DEF ProbeAt, AnsweredAt, OwesStop
  <2>11. LeaveAt(c, l, registry, maker, inbox')
    BY <1>1, <1>3, <2>2 DEF LeaveAt, OwesStop
  <2>12. ToolAt(l, ran'[c]) BY <1>0, <1>1, <2>2 DEF ToolAt
  <2>13. ~Waits(l) BY <2>2 DEF Waits
  <2>14. ActsWell(c) BY <1>0, <1>1, <1>2, <2>1, <2>2, <2>10, <2>11, <2>12, <2>13, SameSeen DEF ActsWell, ToolAt
  <2> QED BY <1>0, <2>14, GoesCallInv
<1>4. ASSUME ~OwesStop(c), inbox' = inbox,
             call' = [call EXCEPT ![c] = [call[c] EXCEPT !.pc = "draining"]]
      PROVE  CallInv'
  <2> DEFINE l == [call[c] EXCEPT !.pc = "draining"]
  <2>1. call'[c] = l BY <1>0, <1>4, UpdateIs
  <2>2. /\ l.pc = "draining" /\ l.accepted = call[c].accepted /\ l.exclusive = call[c].exclusive
        /\ l.stop = call[c].stop /\ l.second = call[c].second /\ l.rejected = call[c].rejected
        /\ l.attempt = call[c].attempt /\ l.auth = call[c].auth /\ l.barred = call[c].barred
    BY <1>1 DEF Locals
  <2> HIDE DEF l
  <2>3. HeldBy(registry, maker, Attempt(c)) => Made(maker, Attempt(c)) BY <1>0, HeldByIs
  <2>4. LeaveAt(c, l, registry, maker, inbox')
    BY <1>1, <1>4, <2>2, <2>3 DEF LeaveAt, OwesStop
  <2>5. ToolAt(l, ran'[c]) BY <1>0, <1>1, <2>2 DEF ToolAt
  <2>6. ProbeAt(c, l, registry, maker, inbox', wire, queue'[c]) /\ ~Waits(l) BY <2>2 DEF ProbeAt, Waits
  <2>7. ActsWell(c) BY <1>0, <1>1, <2>1, <2>2, <2>4, <2>5, <2>6, SameSeen DEF ActsWell, ToolAt
  <2> QED BY <1>0, <2>7, GoesCallInv
<1> QED BY <1>0, <1>3, <1>4, StopGoes

\* The stop has been answered with what ends the probe.
LEMMA ProbeEnds ==
  ASSUME CallInv, NEW c \in Calls, Goes(c), UNCHANGED historyVars, call[c].pc = "probing",
  inbox' = inbox,
         queue[c] # <<>>, Head(queue[c]).re = StopId(c),
         ~(Head(queue[c]).code = "invalid_request" /\ ~call[c].second),
         call' = [call EXCEPT ![c] = [call[c] EXCEPT !.pc = "draining"]]
  PROVE  CallInv'
<1>0. Shape /\ RouteInv /\ OutputInv /\ UNCHANGED <<got, ran>> BY DEF CallInv, historyVars
<1>1. /\ LeaveAt(c, call[c], registry, maker, inbox) /\ ToolAt(call[c], ran[c])
      /\ ProbeAt(c, call[c], registry, maker, inbox, wire, queue[c]) /\ call[c] \in Locals
      /\ Attempt(c) = <<c, call[c].attempt>>
  BY CallInvAt DEF Attempt
<1> DEFINE l == [call[c] EXCEPT !.pc = "draining"]
<1>2. call'[c] = l BY <1>0, UpdateIs
<1>3. /\ l.pc = "draining" /\ l.accepted = call[c].accepted /\ l.exclusive = call[c].exclusive
      /\ l.stop = call[c].stop /\ l.second = call[c].second /\ l.rejected = call[c].rejected
      /\ l.attempt = call[c].attempt /\ l.auth = call[c].auth /\ l.barred = call[c].barred
  BY <1>1 DEF Locals
<1> HIDE DEF l
<1>4. Head(queue[c]) = queue[c][1] /\ 1 \in 1..Len(queue[c]) BY CallInvAt, TailSeq
<1>5. AnsweredAt(c, call[c], registry, maker, inbox, queue[c][1]) /\ ~call[c].rejected
  BY <1>1, <1>4 DEF ProbeAt
<1>6. NoneIn(inbox, Attempt(c)) /\ ~HeldBy(registry, maker, Attempt(c))
  BY <1>1, <1>4, <1>5 DEF AnsweredAt, StopId, RequestOf, StopIdOf
<1>7. LeaveAt(c, l, registry, maker, inbox')
  BY <1>1, <1>3, <1>5, <1>6 DEF LeaveAt, NoneIn, NoStart
<1>8. ToolAt(l, ran'[c]) BY <1>0, <1>1, <1>3 DEF ToolAt
<1>9. ProbeAt(c, l, registry, maker, inbox', wire, queue'[c]) /\ ~Waits(l) BY <1>3 DEF ProbeAt, Waits
<1>10. ActsWell(c) BY <1>0, <1>2, <1>3, <1>7, <1>8, <1>9, SameSeen DEF ActsWell
<1> QED BY <1>10, GoesCallInv

\* The stop was refused for its sequence: the other one is tried.
LEMMA ProbesAgain ==
  ASSUME CallInv, NEW c \in Calls, Goes(c), UNCHANGED historyVars, call[c].pc = "probing",
         queue[c] # <<>>, Head(queue[c]).re = StopId(c), ~call[c].second,
         call' = [call EXCEPT ![c] = [call[c] EXCEPT !.stop = Alternate(call[c].stop), !.second = TRUE]],
         inbox' = Append(inbox, RequestOf(c, "agent_stop", Alternate(call[c].stop)))
  PROVE  CallInv'
<1>0. Shape /\ RouteInv /\ OutputInv /\ UNCHANGED <<got, ran>> /\ RouteOpen(c)
  BY DEF CallInv, historyVars, RouteOpen
<1>1. /\ LeaveAt(c, call[c], registry, maker, inbox) /\ ToolAt(call[c], ran[c])
      /\ TriedAt(c, call[c], inbox, wire, queue[c])
      /\ ProbeAt(c, call[c], registry, maker, inbox, wire, queue[c]) /\ call[c] \in Locals
      /\ Attempt(c) = <<c, call[c].attempt>>
  BY CallInvAt DEF Attempt
<1>2. call[c].stop # 0 /\ (call[c].accepted \/ call[c].exclusive) /\ ~call[c].rejected BY <1>1 DEF ProbeAt
<1>3. call[c].stop \in {MessageSeq, StopSeq} BY <1>1, <1>2 DEF Locals
<1>4. PICK n \in {MessageSeq, StopSeq} : n = Alternate(call[c].stop) /\ n # 0 /\ n # call[c].stop
  BY <1>3, Alternates
<1> DEFINE l == [call[c] EXCEPT !.stop = n, !.second = TRUE]
<1>5. call'[c] = l BY <1>0, <1>4, UpdateIs
<1>6. /\ l.pc = "probing" /\ l.accepted = call[c].accepted /\ l.exclusive = call[c].exclusive
      /\ l.stop = n /\ l.second = TRUE /\ l.rejected = call[c].rejected /\ l.session = call[c].session
      /\ l.attempt = call[c].attempt /\ l.auth = call[c].auth /\ l.barred = call[c].barred
  BY <1>1 DEF Locals
<1> HIDE DEF l
<1>7. Head(queue[c]) = queue[c][1] /\ 1 \in 1..Len(queue[c]) BY CallInvAt, TailSeq
<1>8. NoneIn(inbox, Attempt(c)) /\ (HeldBy(registry, maker, Attempt(c)) => registry[l.session].next = n)
  <2>1. AnsweredAt(c, call[c], registry, maker, inbox, queue[c][1]) BY <1>1, <1>7 DEF ProbeAt
  <2>2. queue[c][1].re = StopIdOf(c, call[c]) BY <1>7 DEF StopId, RequestOf, StopIdOf
  <2> QED BY <1>1, <1>4, <1>6, <2>1, <2>2 DEF AnsweredAt
<1>9. /\ Author(StopIdOf(c, l)) = Attempt(c) /\ StopIdOf(c, l)[3] = "agent_stop" /\ StopIdOf(c, l)[4] = n
      /\ StopIdOf(c, l) # None
  <2>1. n \in 0..3 /\ call[c].attempt \in 1..2 BY <1>0, <1>1 DEF RouteInv, Locals, MessageSeq, StopSeq
  <2>2. StopIdOf(c, l) \in MessageIds BY <1>6, <2>1 DEF StopIdOf, MessageIds, RequestTypes
  <2> QED BY <1>1, <1>6, <2>2, CallAssumption DEF StopIdOf, Author
<1>10. \A id : id = StopIdOf(c, l) => ~Tried(id, Attempt(c), call[c]) BY <1>4, <1>9 DEF Tried
<1>11. /\ \A i \in 1..Len(wire) : wire[i].re # StopIdOf(c, l)
       /\ \A i \in 1..Len(queue[c]) : queue[c][i].re # StopIdOf(c, l)
  BY <1>1, <1>9, <1>10 DEF TriedAt
<1>12. \A i \in 1..Len(queue'[c]) : queue'[c][i].re # StopIdOf(c, l)
  BY <1>0, <1>11, GoesQueues
<1>13. PICK r \in Sent : r = RequestOf(c, "agent_stop", n)
  BY <1>0, RequestIsSent DEF RequestTypes, MessageSeq, StopSeq
<1>14. /\ Len(inbox) \in Nat /\ Len(inbox') = Len(inbox) + 1
       /\ \A i \in 1..Len(inbox') : \/ i \in 1..Len(inbox) /\ inbox'[i] = inbox[i]
                                    \/ i = Len(inbox) + 1 /\ inbox'[i] = r
  BY <1>0, <1>4, <1>13, AppendSeq DEF Shape
<1>15. PendingAt(c, l, registry, maker, inbox', wire, queue'[c])
  <2>1. \A i \in 1..Len(inbox') : i < Len(inbox') => Author(inbox'[i].id) # Attempt(c)
    BY <1>8, <1>14 DEF NoneIn
  <2>2. \A i \in 1..Len(inbox') : inbox'[i].id = StopIdOf(c, l) => i = Len(inbox') BY <1>9, <1>14, <2>1
  <2>3. \A j \in 1..Len(inbox') : ~(j > Len(inbox')) BY <1>14
  <2> QED BY <1>1, <1>6, <1>8, <1>11, <1>12, <2>1, <2>2, <2>3 DEF PendingAt
<1>16. ProbeAt(c, l, registry, maker, inbox', wire, queue'[c])
  BY <1>2, <1>4, <1>6, <1>11, <1>12, <1>15 DEF ProbeAt, AnsweredAt
<1>17. LeaveAt(c, l, registry, maker, inbox') BY <1>2, <1>6 DEF LeaveAt
<1>18. ToolAt(l, ran'[c]) BY <1>0, <1>1, <1>6 DEF ToolAt
<1>19. ~Waits(l) BY <1>6 DEF Waits
<1>20. ActsWell(c) BY <1>0, <1>2, <1>4, <1>5, <1>6, <1>16, <1>17, <1>18, <1>19, SameSeen DEF ActsWell
<1> QED BY <1>20, GoesCallInv

LEMMA ProbeActs ==
  ASSUME CallInv, NEW c \in Calls, Probe(c)
  PROVE  CallInv'
<1>0. Shape /\ RouteInv /\ ProbeInv /\ OutputInv BY DEF CallInv
<1>1. call[c].pc = "probing" /\ queue[c] # <<>> /\ queue'[c] = Tail(queue[c])
  BY <1>0 DEF Probe, Take, Shape
<1>2. Goes(c) /\ UNCHANGED historyVars BY <1>0, ProbeGoes
<1>3. CASE UNCHANGED <<call, inbox>>
  <2>1. \A i \in 1..Len(queue'[c]) : \E k \in 1..Len(queue[c]) : queue'[c][i] = queue[c][k]
    BY <1>0, <1>2, GoesQueues
  <2>2. ProbeAt(c, call[c], registry, maker, inbox, wire, queue'[c]) BY <2>1, CallInvAt, ProbeFewer
  <2>3. UNCHANGED <<got, ran>> BY <1>2 DEF historyVars
  <2>4. ~Waits(call[c]) BY <1>1 DEF Waits
  <2>5. ActsWell(c) BY <1>0, <1>3, <2>2, <2>3, <2>4, SameSeen, CallInvAt DEF ActsWell
  <2> QED BY <1>2, <2>5, GoesCallInv
<1>4. CASE ~UNCHANGED <<call, inbox>>
  BY <1>0, <1>1, <1>2, <1>4, ProbeGoes, ProbeEnds, ProbesAgain
<1> QED BY <1>3, <1>4

LEMMA ProbeAbandonedActs ==
  ASSUME CallInv, NEW c \in Calls, ProbeAbandoned(c)
  PROVE  CallInv'
<1>0. Shape /\ RouteInv /\ OutputInv BY DEF CallInv
<1>1. call[c].pc \in {"leaving", "probing"} /\ UNCHANGED <<queue, got, ran, inbox>>
  BY DEF ProbeAbandoned, historyVars
<1> DEFINE l == [call[c] EXCEPT !.pc = "draining", !.hurried = TRUE]
<1>2. call' = [call EXCEPT ![c] = l] BY <1>0 DEF ProbeAbandoned, Shape
<1>3. call'[c] = l BY <1>0, <1>2, UpdateIs
<1>4. /\ l.pc = "draining" /\ l.accepted = call[c].accepted /\ l.exclusive = call[c].exclusive
      /\ l.stop = call[c].stop /\ l.second = call[c].second /\ l.rejected = call[c].rejected
      /\ l.attempt = call[c].attempt /\ l.auth = call[c].auth /\ l.barred = call[c].barred
      /\ l.hurried = TRUE
  BY CallInvAt DEF Locals
<1> HIDE DEF l
<1>5. LeaveAt(c, l, registry, maker, inbox') BY <1>1, <1>4, CallInvAt DEF LeaveAt
<1>6. ToolAt(l, ran'[c]) BY <1>1, <1>4, CallInvAt DEF ToolAt
<1>7. ProbeAt(c, l, registry, maker, inbox', wire, queue'[c]) /\ ~Waits(l) BY <1>4 DEF ProbeAt, Waits
<1>8. ActsWell(c) BY <1>0, <1>1, <1>3, <1>4, <1>5, <1>6, <1>7, SameSeen DEF ActsWell
<1> QED BY <1>0, <1>8, ProbeAbandonedGoes, GoesCallInv

-----------------------------------------------------------------------------
(***************************************************************************)
(* Every step keeps the invariant.                                         *)
(***************************************************************************)
LEMMA ReadsCallInv ==
  ASSUME CallInv, NEW f \in Sent, Reads(f)
  PROVE  CallInv'
<1>1. /\ Shape /\ TableInv /\ RouteInv /\ AttemptInv /\ UnusedInv /\ StartInv /\ OwnerInv /\ StopInv
      /\ FrameInv /\ OutputInv /\ SilenceInv /\ TriedInv /\ ProbeInv /\ LeaveInv /\ ToolInv
  BY DEF CallInv
<1>2. UNCHANGED <<call, queue, unused, got, ran>> BY <1>1, ReadsQueues
<1>3. Shape' /\ TableInv' /\ RouteInv' BY <1>1, <1>2, ReadsShape, ReadsTableInv, SameRouteInv
<1>4. AttemptInv' /\ UnusedInv' /\ StartInv' BY <1>1, ReadsAttemptInv, ReadsUnusedInv, ReadsStartInv
<1>5. OwnerInv' /\ StopInv' /\ FrameInv' BY <1>1, ReadsOwnerInv, ReadsStopInv, ReadsFrameInv
<1>6. OutputInv' /\ SilenceInv' /\ TriedInv' BY <1>1, ReadsOutputInv, ReadsSilenceInv, ReadsTriedInv
<1>7. ProbeInv' /\ LeaveInv' /\ ToolInv' BY <1>1, <1>2, ReadsProbeInv, ReadsLeaveInv, SameToolInv
<1> QED BY <1>3, <1>4, <1>5, <1>6, <1>7 DEF CallInv

LEMMA RunsCallInv ==
  ASSUME CallInv, NEW s \in Sessions, Runs(s)
  PROVE  CallInv'
<1>1. /\ Shape /\ TableInv /\ RouteInv /\ AttemptInv /\ UnusedInv /\ StartInv /\ OwnerInv /\ StopInv
      /\ FrameInv /\ OutputInv /\ SilenceInv /\ TriedInv /\ ProbeInv /\ LeaveInv /\ ToolInv
  BY DEF CallInv
<1>2. UNCHANGED <<call, queue, unused, inbox, maker, got, ran>> BY DEF Runs, callVars, historyVars
<1>3. Shape' /\ TableInv' /\ RouteInv' BY <1>1, <1>2, RunsShape, RunsTableInv, SameRouteInv
<1>4. AttemptInv' /\ UnusedInv' /\ StartInv' BY <1>1, <1>2, RunsAttemptInv, RunsUnusedInv, SameStartInv
<1>5. OwnerInv' /\ StopInv' /\ FrameInv' BY <1>1, RunsOwnerInv, RunsStopInv, RunsFrameInv
<1>6. OutputInv' /\ SilenceInv' /\ TriedInv' BY <1>1, RunsOutputInv, RunsSilenceInv, RunsTriedInv
<1>7. ProbeInv' /\ LeaveInv' /\ ToolInv' BY <1>1, <1>2, RunsProbeInv, RunsLeaveInv, SameToolInv
<1> QED BY <1>3, <1>4, <1>5, <1>6, <1>7 DEF CallInv

LEMMA PassesCallInv ==
  ASSUME CallInv, NEW f \in Frames, Passes(f)
  PROVE  CallInv'
<1>1. /\ Shape /\ TableInv /\ RouteInv /\ AttemptInv /\ UnusedInv /\ StartInv /\ OwnerInv /\ StopInv
      /\ FrameInv /\ OutputInv /\ SilenceInv /\ TriedInv /\ ProbeInv /\ LeaveInv /\ ToolInv
  BY DEF CallInv
<1>2. UNCHANGED <<registry, made, call, unused, inbox, maker, got, ran>> BY DEF Passes, historyVars
<1>3. Shape' /\ TableInv' /\ RouteInv' BY <1>1, <1>2, PassesShape, SameTableInv, PassesRouteInv
<1>4. AttemptInv' /\ UnusedInv' /\ StartInv' BY <1>1, <1>2, PassesAttemptInv, PassesUnusedInv, SameStartInv
<1>5. OwnerInv' /\ StopInv' /\ FrameInv' BY <1>1, <1>2, PassesOwnerInv, SameStopInv, PassesFrameInv
<1>6. OutputInv' /\ SilenceInv' /\ TriedInv' BY <1>1, PassesOutputInv, PassesSilenceInv, PassesTriedInv
<1>7. ProbeInv' /\ LeaveInv' /\ ToolInv' BY <1>1, <1>2, PassesProbeInv, SameLeaveInv, SameToolInv
<1> QED BY <1>3, <1>4, <1>5, <1>6, <1>7 DEF CallInv

LEMMA BeginsCallInv ==
  ASSUME CallInv, NEW c \in Calls, NEW s, NEW n, NEW x, Begins(c, s, n, x)
  PROVE  CallInv'
<1>1. /\ Shape /\ TableInv /\ RouteInv /\ AttemptInv /\ UnusedInv /\ StartInv /\ OwnerInv /\ StopInv
      /\ FrameInv /\ OutputInv /\ SilenceInv /\ TriedInv /\ ProbeInv /\ LeaveInv /\ ToolInv
  BY DEF CallInv
<1>2. UNCHANGED <<registry, made, wire, queue, inbox, maker>> /\ unused' \subseteq unused
  BY <1>1, BeginsFacts DEF Begins
<1>3. Shape' /\ TableInv' /\ RouteInv' BY <1>1, <1>2, BeginsShape, SameTableInv, BeginsRouteInv
<1>4. AttemptInv' /\ UnusedInv' /\ StartInv' BY <1>1, <1>2, BeginsAttemptInv, SameUnusedInv, SameStartInv
<1>5. OwnerInv' BY <1>1, <1>3, <1>4, BeginsOwnerInv
<1>6. StopInv' /\ FrameInv' BY <1>1, <1>2, SameStopInv, SameFrameInv
<1>7. OutputInv' /\ SilenceInv' /\ TriedInv'
  BY <1>1, <1>3, <1>4, BeginsOutputInv, BeginsSilenceInv, BeginsTriedInv
<1>8. ProbeInv' /\ LeaveInv' /\ ToolInv' BY <1>1, BeginsProbeInv, BeginsLeaveInv, BeginsToolInv
<1> QED BY <1>3, <1>4, <1>5, <1>6, <1>7, <1>8 DEF CallInv

LEMMA ClosesCallInv ==
  ASSUME CallInv, NEW c \in Calls, Closes(c)
  PROVE  CallInv'
<1>1. /\ Shape /\ TableInv /\ RouteInv /\ AttemptInv /\ UnusedInv /\ StartInv /\ OwnerInv /\ StopInv
      /\ FrameInv /\ OutputInv /\ SilenceInv /\ TriedInv /\ ProbeInv /\ LeaveInv /\ ToolInv
  BY DEF CallInv
<1>2. UNCHANGED <<registry, made, wire, unused, inbox, maker>>
      /\ \A d \in Calls : queue'[d] = queue[d] \/ queue'[d] = <<>>
  BY <1>1, ClosesFacts
<1>3. Shape' /\ TableInv' /\ RouteInv' BY <1>1, <1>2, ClosesShape, SameTableInv, ClosesRouteInv
<1>4. AttemptInv' /\ UnusedInv' /\ StartInv' BY <1>1, <1>2, ClosesAttemptInv, SameUnusedInv, SameStartInv
<1>5. OwnerInv' /\ StopInv' /\ FrameInv' BY <1>1, <1>2, ClosesOwnerInv, SameStopInv, SameFrameInv
<1>6. OutputInv' /\ SilenceInv' /\ TriedInv' BY <1>1, ClosesOutputInv, ClosesSilenceInv, ClosesTriedInv
<1>7. ProbeInv' /\ LeaveInv' /\ ToolInv' BY <1>1, ClosesProbeInv, ClosesLeaveInv, ClosesToolInv
<1> QED BY <1>3, <1>4, <1>5, <1>6, <1>7 DEF CallInv

LEMMA InitCallInv == Init => CallInv
<1> SUFFICES ASSUME Init PROVE CallInv OBVIOUS
<1>1. /\ registry = [s \in Sessions |-> Absent] /\ made = 0 /\ wire = <<>>
      /\ call = [c \in Calls |-> Idle] /\ queue = [c \in Calls |-> <<>>]
      /\ unused = Sessions \ Supplied /\ inbox = <<>> /\ shown = 0
      /\ maker = [g \in 1..MaxGen |-> <<>>] /\ got = [c \in Calls |-> {}] /\ ran = [c \in Calls |-> {}]
  BY DEF Init, ServerInit
<1>2. /\ Idle \in Locals /\ Idle.pc = "idle" /\ Idle.attempt = 0 /\ Idle.stop = 0 /\ Idle.second = FALSE
      /\ Idle.rejected = FALSE /\ Idle.accepted = FALSE /\ Idle.auth = FALSE
  <2>1. PICK n : n = NewAttempt(None, 0, FALSE) OBVIOUS
  <2>2. (None \notin Supplied) \in BOOLEAN OBVIOUS
  <2>3. PICK b \in BOOLEAN : b = (None \notin Supplied) BY <2>2
  <2>4. n = [pc |-> "starting", session |-> None, attempt |-> 0, exclusive |-> FALSE,
             minted |-> b, accepted |-> FALSE, messageAccepted |-> FALSE,
             rejected |-> FALSE, stop |-> 0, second |-> FALSE, hurried |-> FALSE,
             barred |-> FALSE, auth |-> FALSE]
    BY <2>1, <2>3, Zenon DEF NewAttempt
  <2>5. /\ n \in Locals /\ n.attempt = 0 /\ n.stop = 0 /\ n.second = FALSE
        /\ n.rejected = FALSE /\ n.accepted = FALSE /\ n.auth = FALSE
    BY <2>4 DEF Locals, Places
  <2>6. Idle = [n EXCEPT !.pc = "idle"] BY <2>1, Zenon DEF Idle
  <2> QED BY <2>5, <2>6 DEF Locals, Places
<1>3. Absent \in Entries /\ Absent.status = "absent" BY CallAssumption DEF Absent, Entries, StopSeq
<1>4. \A s \in Sessions : ~Held(s) BY <1>1, <1>3 DEF Held
<1>5. \A c \in Calls : /\ call[c] = Idle /\ queue[c] = <<>> /\ got[c] = {} /\ ran[c] = {} /\ ~RouteOpen(c)
  BY <1>1, <1>2 DEF RouteOpen
<1>6. /\ \A i \in 1..Len(inbox) : FALSE
      /\ \A i \in 1..Len(wire) : FALSE
      /\ \A c \in Calls : \A i \in 1..Len(queue[c]) : FALSE
  BY <1>1, <1>5
<1>7. \A g \in 1..MaxGen : maker[g] = <<>> BY <1>1
<1>8. Shape
  <2>1. <<>> \in Seq(Frames) /\ <<>> \in Seq(Sent) OBVIOUS
  <2>2. 0 \in 0..MaxGen /\ 0 \in 0..MaxShown BY CallAssumption
  <2> QED BY <1>1, <1>2, <1>3, <2>1, <2>2 DEF Shape
<1>9. TableInv BY <1>4, <1>7 DEF TableInv
<1>10. RouteInv BY <1>2, <1>5 DEF RouteInv
<1>11. AttemptInv BY <1>4, <1>6, <1>7 DEF AttemptInv
<1>12. UnusedInv BY <1>1, <1>4, <1>6 DEF UnusedInv
<1>13. StartInv /\ StopInv /\ FrameInv BY <1>6 DEF StartInv, StopInv, FrameInv
<1>14. OwnerInv BY <1>5 DEF OwnerInv
<1>15. OutputInv BY <1>5 DEF OutputInv
<1>16. SilenceInv BY <1>2, <1>5 DEF SilenceInv
<1>17. TriedInv BY <1>6 DEF TriedInv
<1>18. ProbeInv BY <1>2, <1>5 DEF ProbeInv
<1>19. LeaveInv BY <1>2, <1>5 DEF LeaveInv
<1>20. ToolInv BY <1>2, <1>5 DEF ToolInv
<1> QED BY <1>8, <1>9, <1>10, <1>11, <1>12, <1>13, <1>14, <1>15, <1>16, <1>17, <1>18, <1>19, <1>20 DEF CallInv

LEMMA NextCallInv == CallInv /\ [Next]_vars => CallInv'
<1> SUFFICES ASSUME CallInv, [Next]_vars PROVE CallInv' OBVIOUS
<1>0. Shape /\ TableInv /\ RouteInv /\ ToolInv BY DEF CallInv
<1>1. CASE HostReads BY <1>0, <1>1, HostReadsIs, ReadsCallInv
<1>2. CASE HostRuns BY <1>0, <1>2, HostRunsIs, RunsCallInv
<1>3. CASE ReadFrame BY <1>0, <1>3, ReadFrameIs, PassesCallInv
<1>4. ASSUME NEW c \in Calls, Step(c) PROVE CallInv'
  <2>1. CASE Begin(c) BY <1>0, <2>1, BeginIs, BeginsCallInv
  <2>2. CASE SendStart(c) BY <2>2, SendStartActs
  <2>3. CASE SkipFrame(c) BY <2>3, SkipFrameActs
  <2>4. CASE ReadNext(c) BY <2>4, ReadNextActs
  <2>5. CASE ToolEnds(c) BY <2>5, ToolEndsActs
  <2>6. CASE Leave(c) BY <2>6, LeaveActs
  <2>7. CASE Stop(c) BY <2>7, StopActs
  <2>8. CASE Probe(c) BY <2>8, ProbeActs
  <2>9. CASE ProbeAbandoned(c) BY <2>9, ProbeAbandonedActs
  <2>10. CASE Close(c) BY <1>0, <2>10, CloseIs, ClosesCallInv
  <2>11. CASE LoginFails(c) BY <1>0, <2>11, LoginFailsIs, ClosesCallInv
  <2>12. CASE Retry(c) BY <1>0, <2>12, RetryIs, BeginsCallInv
  <2> QED BY <1>4, <2>1, <2>2, <2>3, <2>4, <2>5, <2>6, <2>7, <2>8, <2>9, <2>10, <2>11, <2>12 DEF Step
<1>5. CASE UNCHANGED vars
  <2>1. UNCHANGED <<registry, made, wire, call, queue, unused, inbox, shown, maker, got, ran>>
    BY <1>5 DEF vars, serverVars, callVars, historyVars
  <2>2. /\ Shape' /\ TableInv' /\ RouteInv' /\ UnusedInv' /\ StartInv' /\ StopInv' /\ FrameInv'
        /\ LeaveInv' /\ ToolInv'
    BY <2>1, SameTableInv, SameRouteInv, SameUnusedInv, SameStartInv, SameStopInv, SameFrameInv,
       SameLeaveInv,
       SameToolInv DEF CallInv, Shape
  <2>3. AttemptInv' BY <2>1 DEF CallInv, AttemptInv, Attempt, Held
  <2>4. OwnerInv' BY <2>1 DEF CallInv, OwnerInv, Attempt, Held, RouteOpen
  <2>5. OutputInv' /\ SilenceInv'
    BY <2>1 DEF CallInv, OutputInv, SilenceInv, Attempt, RouteOpen
  <2>6. TriedInv' BY <2>1 DEF CallInv, TriedInv, Attempt
  <2>7. ProbeInv'
    <3>1. \A c \in Calls : ProbeAt(c, call'[c], registry', maker', inbox', wire', queue'[c])
      BY <2>1, ProbeInvIs DEF CallInv
    <3> QED BY <3>1, ProbeInvNext
  <2> QED BY <2>2, <2>3, <2>4, <2>5, <2>6, <2>7 DEF CallInv
<1> QED BY <1>1, <1>2, <1>3, <1>4, <1>5 DEF Next

-----------------------------------------------------------------------------
(***************************************************************************)
(* The theorems.                                                           *)
(***************************************************************************)

\* The inductive invariant of the calls and the host they share, with every
\* interleaving of starts, stops, retries and late frames (_session and the
\* retry loop of execution.py).
THEOREM CallInvariant == Spec => []CallInv
<1>1. Init => CallInv BY InitCallInv
<1>2. CallInv /\ [Next]_vars => CallInv' BY NextCallInv
<1> QED BY <1>1, <1>2, PTL DEF Spec

\* The locals of every call keep their ranges, and a session's route is of
\* one call at a time: open_route refuses a second (execution.py, transport.py).
THEOREM CallTypeCorrect == Spec => []TypeOK
<1>1. CallInv => TypeOK
  <2> SUFFICES ASSUME CallInv PROVE TypeOK OBVIOUS
  <2>1. Shape /\ RouteInv BY DEF CallInv
  <2>2. /\ registry \in [Sessions -> [status : {"absent", "ready", "processing", "error"},
                                       gen : 0..MaxGen, next : 0..StopSeq]]
        /\ made \in 0..MaxGen /\ shown \in 0..MaxShown /\ unused \subseteq Sessions \ Supplied
    BY <2>1 DEF Shape, Entries
  <2>3. ASSUME NEW c \in Calls
        PROVE  /\ call[c].pc \in {"idle", "starting", "reading", "tool", "leaving", "probing",
                                  "draining", "login", "ended"}
               /\ call[c].session \in Sessions \union {None} /\ call[c].attempt \in 0..2
               /\ call[c].stop \in {0, MessageSeq, StopSeq}
               /\ got[c] \subseteq 1..MaxGen /\ ran[c] \subseteq {1, 2}
    <3>1. call[c] \in Locals BY <2>1 DEF Shape
    <3>2. got[c] \subseteq 1..MaxGen /\ ran[c] \subseteq {1, 2} BY <2>1 DEF Shape
    <3> QED BY <3>1, <3>2 DEF Locals, Places
  <2>4. ASSUME NEW c \in Calls, RouteOpen(c) PROVE RouteOf(call[c].session) = {c}
    BY <2>1, <2>4 DEF RouteInv, RouteOf
  <2> QED BY <2>2, <2>3, <2>4 DEF TypeOK
<1> QED BY <1>1, CallInvariant, PTL

\* What _session reads after its agent_started is the output of the
\* registration that its own agent_start made, though ids are reused and a
\* late frame carries nothing but its session id.
THEOREM OutputsAreOwn == Spec => []OutputIsOwn
<1>1. CallInv => OutputIsOwn BY DEF CallInv, OutputInv, OutputIsOwn
<1> QED BY <1>1, CallInvariant, PTL

\* A call that has left unhurried and has nothing unread holds no session on
\* the host: one of the two agent_stop sequences is accepted (_stop_session).
THEOREM CallsLeaveNoSession == Spec => []LeavesNoSession
<1>1. CallInv => LeavesNoSession BY DEF CallInv, LeaveInv, LeavesNoSession, Left
<1> QED BY <1>1, CallInvariant, PTL

\* The retry after a login runs no client tool a second time: the barrier is
\* raised before the tool's result is sent.
THEOREM ToolsNotReplayed == Spec => []NoToolReplay
<1>1. CallInv => NoToolReplay BY DEF CallInv, ToolInv, NoToolReplay
<1> QED BY <1>1, CallInvariant, PTL

\* A step that ends a session by reading a request read a stop, or its
\* registration stays.
LEMMA StopsAreOwn ==
  ASSUME CallInv, NEW f \in Sent, Reads(f), NEW s \in Sessions, Held(s), registry'[s] = Absent
  PROVE  maker[registry[s].gen] = <<Head(inbox).id[1], Head(inbox).id[2]>>
<1>1. /\ Shape /\ StopInv /\ inbox \in Seq(Sent) /\ inbox # <<>> /\ f = inbox[1]
  BY DEF CallInv, Shape, Reads
<1>2. Head(inbox) = f /\ 1 \in 1..Len(inbox) BY <1>1
<1>3. Absent.status = "absent" BY DEF Absent
<1>4. registry'[s] # registry[s] BY <1>3 DEF Held
<1>5. registry \in [Sessions -> Entries] /\ f.session \in Sessions BY <1>1 DEF Shape, Sent
<1>6. ~HostRefuses(f) /\ ~HostSkips(f) BY <1>4 DEF HostRefuses, HostSkips
<1>7. ~HostStarts(f)
  <2> SUFFICES ASSUME HostStarts(f) PROVE FALSE OBVIOUS
  <2>1. s = f.session BY <1>4, <1>5 DEF HostStarts
  <2> QED BY <2>1 DEF HostStarts
<1>8. ~HostTakes(f)
  <2> SUFFICES ASSUME HostTakes(f) PROVE FALSE OBVIOUS
  <2>1. PICK n \in Entries : registry' = [registry EXCEPT ![f.session] = n] /\ n.status = "processing"
    BY DEF HostTakes
  <2>2. s = f.session BY <1>4, <1>5, <2>1
  <2>3. registry'[s] = n BY <1>5, <2>1, <2>2
  <2> QED BY <1>3, <2>1, <2>3
<1>9. HostStops(f) BY <1>6, <1>7, <1>8 DEF Reads
<1>10. s = f.session /\ f.type = "agent_stop" BY <1>4, <1>5, <1>9 DEF HostStops
<1>11. maker[registry[s].gen] = Author(f.id) BY <1>1, <1>2, <1>10 DEF StopInv
<1> QED BY <1>2, <1>11 DEF Author

\* An agent_stop the host accepts ends a session its own attempt started: a
\* call never tears down the run that made its agent_start busy.
THEOREM StopsEndOwnSession == Spec => StopsOnlyOwnSession
<1> DEFINE Own(s) == Held(s) /\ registry'[s] = Absent /\ inbox # inbox' /\ inbox # <<>> =>
                       maker[registry[s].gen] = <<Head(inbox).id[1], Head(inbox).id[2]>>
<1>1. CallInv /\ [Next]_vars => [\A s \in Sessions : Own(s)]_vars
  <2> SUFFICES ASSUME CallInv, Next, NEW s \in Sessions, Held(s), registry'[s] = Absent, inbox # inbox'
               PROVE  maker[registry[s].gen] = <<Head(inbox).id[1], Head(inbox).id[2]>>
    OBVIOUS
  <2>0. Shape /\ TableInv BY DEF CallInv
  <2>1. registry' # registry BY DEF Held, Absent
  <2>2. CASE HostReads BY <2>0, <2>2, HostReadsIs, StopsAreOwn
  <2>3. CASE HostRuns \/ ReadFrame BY <2>3 DEF HostRuns, ReadFrame
  <2>4. ASSUME NEW c \in Calls, Step(c) PROVE FALSE
    <3>1. ~Begin(c) /\ ~SendStart(c) /\ ~SkipFrame(c) /\ ~ReadNext(c)
      BY <2>1 DEF Begin, SendStart, SkipFrame, ReadNext, serverVars
    <3>2. ~ToolEnds(c) /\ ~Leave(c) /\ ~Stop(c) /\ ~Probe(c)
      BY <2>1 DEF ToolEnds, Leave, Stop, Probe, serverVars
    <3>3. ~ProbeAbandoned(c) /\ ~Close(c) /\ ~LoginFails(c) /\ ~Retry(c)
      BY <2>1 DEF ProbeAbandoned, Close, LoginFails, Retry, serverVars
    <3> QED BY <2>4, <3>1, <3>2, <3>3 DEF Step
  <2> QED BY <2>2, <2>3, <2>4 DEF Next
<1> QED BY <1>1, CallInvariant, PTL DEF Spec, StopsOnlyOwnSession

=============================================================================
