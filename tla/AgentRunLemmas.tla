--------------------------- MODULE AgentRunLemmas ---------------------------
(***************************************************************************)
(* What the operators of AgentRun, Normalize and of the sequences they are *)
(* built from compute, for every value: the lemmas on which AgentRunProofs *)
(* rests.                                                                  *)
(***************************************************************************)
EXTENDS AgentRun, TLAPS, WellFoundedInduction

(***************************************************************************)
(* Induction over the naturals, from the well-foundedness of < on them.    *)
(* By it a fold that is written as a recursive function is known for every *)
(* input, not only for the inputs of a bounded run.                        *)
(***************************************************************************)

\* A set of naturals that holds 0 and every successor of a member holds them all.
LEMMA Induction ==
  ASSUME NEW T, 0 \in T, \A n \in Nat : n \in T => n + 1 \in T
  PROVE  \A n \in Nat : n \in T
  <1> DEFINE U == {n \in Nat : n \notin T}
  <1>1. ASSUME U # {} PROVE FALSE
    <2>1. PICK n \in U : \A m \in U : ~(<<m, n>> \in OpToRel(<, Nat))
      <3> HIDE DEF U
      <3>1. U \subseteq Nat BY DEF U
      <3> QED BY <1>1, <3>1, NatLessThanWellFounded, WFMin, Zenon
    <2>2. n \in Nat /\ n # 0 /\ n \notin T OBVIOUS
    <2>3. n - 1 \in Nat /\ n - 1 < n BY <2>2
    <2>4. <<n - 1, n>> \in OpToRel(<, Nat) BY <2>2, <2>3 DEF OpToRel
    <2>5. n - 1 \notin U BY <2>1, <2>4
    <2>6. (n - 1) + 1 \in T BY <2>3, <2>5
    <2> QED BY <2>2, <2>6
  <1> QED BY <1>1

(***************************************************************************)
(* Sequences, of whatever they hold.                                       *)
(***************************************************************************)

\* A sequence, of whatever it holds.
IsSeq(s) == s \in Seq(ToSet(s))

\* What such a sequence is: the function of its indices.
LEMMA SeqHas ==
  ASSUME NEW s, IsSeq(s)
  PROVE  Len(s) \in Nat /\ DOMAIN s = 1..Len(s) /\ s = [i \in 1..Len(s) |-> s[i]]
  BY DEF IsSeq

\* A function of 1..n is a sequence of n elements.
LEMMA SeqMade ==
  ASSUME NEW n \in Nat, NEW s, s = [i \in 1..n |-> s[i]]
  PROVE  IsSeq(s) /\ Len(s) = n
  <1>1. PICK S : S = ToSet(s) OBVIOUS
  <1>2. DOMAIN s = 1..n OBVIOUS
  <1>3. \A i \in 1..n : s[i] \in S BY <1>1, <1>2 DEF ToSet
  <1>4. s \in Seq(S) BY <1>3
  <1>5. Len(s) = n BY <1>2, <1>4
  <1> QED BY <1>1, <1>4, <1>5 DEF IsSeq

\* A sequence of members of S is one.
LEMMA SeqIn ==
  ASSUME NEW S, NEW s \in Seq(S)
  PROVE  IsSeq(s)
  <1>1. s = [i \in 1..Len(s) |-> s[i]] /\ Len(s) \in Nat OBVIOUS
  <1> QED BY <1>1, SeqMade

\* So is the empty one.
LEMMA SeqEmpty == IsSeq(<<>>) /\ Len(<<>>) = 0
  <1>1. <<>> \in Seq({}) OBVIOUS
  <1> QED BY <1>1, SeqIn

\* Append adds an element at the end and leaves the others.
LEMMA SeqAppend ==
  ASSUME NEW s, NEW x, IsSeq(s)
  PROVE  /\ IsSeq(Append(s, x)) /\ Len(Append(s, x)) = Len(s) + 1
         /\ \A i \in 1..Len(s) : Append(s, x)[i] = s[i]
         /\ Append(s, x)[Len(s) + 1] = x
  <1>1. PICK S : S = ToSet(s) \cup {x} OBVIOUS
  <1>2. s \in Seq(S) /\ x \in S BY <1>1 DEF IsSeq
  <1>3. Append(s, x) \in Seq(S) BY <1>2
  <1>4. IsSeq(Append(s, x)) BY <1>3, SeqIn
  <1>5. Len(Append(s, x)) = Len(s) + 1 BY <1>2
  <1>6. \A i \in 1..Len(s) : Append(s, x)[i] = s[i] BY <1>2
  <1>7. Append(s, x)[Len(s) + 1] = x BY <1>2
  <1> QED BY <1>4, <1>5, <1>6, <1>7

\* \o puts t behind s.
LEMMA SeqJoin ==
  ASSUME NEW s, NEW t, IsSeq(s), IsSeq(t)
  PROVE  /\ IsSeq(s \o t) /\ Len(s \o t) = Len(s) + Len(t)
         /\ \A i \in 1..Len(s) : (s \o t)[i] = s[i]
         /\ \A i \in 1..Len(t) : (s \o t)[Len(s) + i] = t[i]
  <1>1. PICK S : S = ToSet(s) \cup ToSet(t) OBVIOUS
  <1>2. s \in Seq(S) /\ t \in Seq(S) BY <1>1 DEF IsSeq
  <1>3. s \o t \in Seq(S) BY <1>2
  <1>4. IsSeq(s \o t) BY <1>3, SeqIn
  <1>5. Len(s \o t) = Len(s) + Len(t) BY <1>2
  <1>6. \A i \in 1..Len(s) : (s \o t)[i] = s[i] BY <1>2
  <1>7. ASSUME NEW i \in 1..Len(t) PROVE (s \o t)[Len(s) + i] = t[i]
    <2>1. Len(s) \in Nat /\ Len(t) \in Nat BY <1>2
    <2>2. Len(s) + i \in 1..(Len(s) + Len(t)) /\ Len(s) + i > Len(s) /\ (Len(s) + i) - Len(s) = i
      BY <2>1
    <2>3. PICK j : j = Len(s) + i OBVIOUS
    <2>4. (s \o t)[j] = t[j - Len(s)] BY <1>2, <2>2, <2>3
    <2> QED BY <2>2, <2>3, <2>4
  <1> QED BY <1>4, <1>5, <1>6, <1>7

\* The head and the tail of a sequence that is not empty.
LEMMA SeqTail ==
  ASSUME NEW s, IsSeq(s), s # <<>>
  PROVE  /\ IsSeq(Tail(s)) /\ Len(s) \in Nat \ {0} /\ Len(Tail(s)) = Len(s) - 1
         /\ \A i \in 1..Len(Tail(s)) : Tail(s)[i] = s[i + 1]
         /\ Head(s) = s[1]
  <1>1. PICK S : S = ToSet(s) OBVIOUS
  <1>2. s \in Seq(S) BY <1>1 DEF IsSeq
  <1>3. Tail(s) \in Seq(S) BY <1>2
  <1>4. IsSeq(Tail(s)) BY <1>3, SeqIn
  <1>5. Len(s) \in Nat \ {0} /\ Len(Tail(s)) = Len(s) - 1 BY <1>2
  <1>6. \A i \in 1..Len(Tail(s)) : Tail(s)[i] = s[i + 1] BY <1>2
  <1>7. Head(s) = s[1] BY <1>2
  <1> QED BY <1>4, <1>5, <1>6, <1>7

\* Sequences with the same elements are the same.
LEMMA SeqSame ==
  ASSUME NEW s, NEW t, IsSeq(s), IsSeq(t), Len(s) = Len(t), \A i \in 1..Len(s) : s[i] = t[i]
  PROVE  s = t
  BY SeqHas

\* A sequence of one element.
LEMMA SeqOne == ASSUME NEW x PROVE IsSeq(<<x>>) /\ Len(<<x>>) = 1 /\ <<x>>[1] = x
  <1>1. <<x>> \in Seq({x}) OBVIOUS
  <1> QED BY <1>1, SeqIn

\* A sequence of two elements.
LEMMA SeqTwo ==
  ASSUME NEW x, NEW y
  PROVE  IsSeq(<<x, y>>) /\ Len(<<x, y>>) = 2 /\ <<x, y>>[1] = x /\ <<x, y>>[2] = y
  <1>1. <<x, y>> \in Seq({x, y}) OBVIOUS
  <1> QED BY <1>1, SeqIn

(***************************************************************************)
(* FlattenSeq.                                                             *)
(***************************************************************************)

\* FlattenSeq as far as it has come: joined[i] holds the first i sequences.
Joins(s, joined, n) == [i \in 1..n |-> IF i = 1 THEN s[i] ELSE joined[i - 1] \o s[i]]

\* There is such a function for every sequence of sequences.
LEMMA JoinsExist ==
  ASSUME NEW S, NEW s \in Seq(Seq(S))
  PROVE  \E joined \in [1..Len(s) -> Seq(S)] : joined = Joins(s, joined, Len(s))
  <1> DEFINE Ok(m) == \E f \in [1..m -> Seq(S)] : f = Joins(s, f, m)
             T == {m \in Nat : m <= Len(s) => Ok(m)}
  <1>1. 0 \in T
    <2>1. Ok(0)
      <3> DEFINE e == [i \in 1..0 |-> <<>>]
      <3>1. e \in [1..0 -> Seq(S)] OBVIOUS
      <3>2. e = Joins(s, e, 0) BY DEF Joins
      <3> QED BY <3>1, <3>2
    <2> QED BY <2>1
  <1>2. ASSUME NEW k \in Nat, k \in T PROVE k + 1 \in T
    <2> SUFFICES ASSUME k + 1 <= Len(s) PROVE Ok(k + 1) OBVIOUS
    <2>1. PICK f \in [1..k -> Seq(S)] : f = Joins(s, f, k) BY <1>2
    <2> DEFINE e == IF k + 1 = 1 THEN s[k + 1] ELSE f[k] \o s[k + 1]
               g == [i \in 1..(k + 1) |-> IF i = k + 1 THEN e ELSE f[i]]
    <2>2. e \in Seq(S) OBVIOUS
    <2>3. \A i \in 1..k : f[i] = IF i = 1 THEN s[i] ELSE f[i - 1] \o s[i] BY <2>1 DEF Joins
    <2> HIDE DEF e
    <2>4. g \in [1..(k + 1) -> Seq(S)] BY <2>2
    <2>5. ASSUME NEW i \in 1..(k + 1)
          PROVE  g[i] = IF i = 1 THEN s[i] ELSE g[i - 1] \o s[i]
      <3>1. CASE i = k + 1 BY <3>1 DEF e
      <3>2. CASE i # k + 1
        <4>1. i \in 1..k /\ (i # 1 => i - 1 \in 1..k) BY <3>2
        <4>2. g[i] = f[i] /\ (i # 1 => g[i - 1] = f[i - 1]) BY <4>1
        <4> HIDE DEF g
        <4> QED BY <2>3, <4>1, <4>2
      <3> QED BY <3>1, <3>2
    <2> HIDE DEF g
    <2>6. g = Joins(s, g, k + 1) BY <2>4, <2>5 DEF Joins
    <2> QED BY <2>4, <2>6
  <1> HIDE DEF T
  <1>3. Len(s) \in T BY <1>1, <1>2, Induction
  <1> QED BY <1>3 DEF T

\* FlattenSeq is its last value.
LEMMA FlatIs ==
  ASSUME NEW S, NEW s \in Seq(Seq(S)), s # <<>>
  PROVE  \E joined \in [1..Len(s) -> Seq(S)] :
           joined = Joins(s, joined, Len(s)) /\ FlattenSeq(s) = joined[Len(s)]
  <1> DEFINE f == CHOOSE f : f = Joins(s, f, Len(s))
  <1>1. PICK g \in [1..Len(s) -> Seq(S)] : g = Joins(s, g, Len(s)) BY JoinsExist
  <1>2. f = Joins(s, f, Len(s)) BY <1>1
  <1>3. FlattenSeq(s) = f[Len(s)] BY DEF FlattenSeq, Joins
  <1> HIDE DEF f
  <1>4. DOMAIN f = 1..Len(s) BY <1>2 DEF Joins
  <1> DEFINE T == {m \in Nat : m \in 1..Len(s) => f[m] = g[m]}
  <1>5. 0 \in T OBVIOUS
  <1>6. ASSUME NEW k \in Nat, k \in T PROVE k + 1 \in T
    <2> SUFFICES ASSUME k + 1 \in 1..Len(s) PROVE f[k + 1] = g[k + 1] OBVIOUS
    <2>1. f[k + 1] = IF k + 1 = 1 THEN s[k + 1] ELSE f[(k + 1) - 1] \o s[k + 1]
      BY <1>2 DEF Joins
    <2>2. g[k + 1] = IF k + 1 = 1 THEN s[k + 1] ELSE g[(k + 1) - 1] \o s[k + 1]
      BY <1>1 DEF Joins
    <2>3. CASE k = 0 BY <2>1, <2>2, <2>3
    <2>4. CASE k # 0
      <3>1. k \in 1..Len(s) /\ (k + 1) - 1 = k BY <2>4
      <3>2. f[k] = g[k] BY <1>6, <3>1
      <3> QED BY <2>1, <2>2, <3>1, <3>2
    <2> QED BY <2>3, <2>4
  <1> HIDE DEF T
  <1>7. \A m \in Nat : m \in T BY <1>5, <1>6, Induction
  <1>8. \A m \in 1..Len(s) : f[m] = g[m]
    <2> TAKE m \in 1..Len(s)
    <2>1. m \in T BY <1>7
    <2> QED BY <2>1 DEF T
  <1>9. f = [m \in 1..Len(s) |-> f[m]] BY <1>2 DEF Joins
  <1>10. f = g BY <1>8, <1>9
  <1> QED BY <1>1, <1>3, <1>10

\* Nothing is joined of no sequences.
LEMMA FlatEmpty == FlattenSeq(<<>>) = <<>>
  BY DEF FlattenSeq

\* What is joined is a sequence of the same elements.
LEMMA FlatIn ==
  ASSUME NEW S, NEW s \in Seq(Seq(S))
  PROVE  FlattenSeq(s) \in Seq(S)
  <1>1. CASE s = <<>>
    <2>1. FlattenSeq(s) = s BY <1>1, FlatEmpty
    <2>2. <<>> \in Seq(S) OBVIOUS
    <2> QED BY <1>1, <2>1, <2>2
  <1>2. CASE s # <<>>
    <2>1. Len(s) \in 1..Len(s) BY <1>2
    <2> QED BY <1>2, <2>1, FlatIs
  <1> QED BY <1>1, <1>2

\* One more sequence is joined at the end.
LEMMA FlatAppend ==
  ASSUME NEW S, NEW s \in Seq(Seq(S)), NEW x \in Seq(S)
  PROVE  FlattenSeq(Append(s, x)) = FlattenSeq(s) \o x
  <1> DEFINE t == Append(s, x)
             n == Len(s)
  <1>1. t \in Seq(Seq(S)) /\ Len(t) = n + 1 /\ n \in Nat /\ t # <<>>
    <2>1. PICK q : q = Seq(S) OBVIOUS
    <2>2. s \in Seq(q) /\ x \in q BY <2>1
    <2>3. t \in Seq(q) /\ Len(t) = n + 1 /\ n \in Nat BY <2>2
    <2>4. t # <<>> BY <2>3
    <2> QED BY <2>1, <2>3, <2>4
  <1>2. t[n + 1] = x /\ \A i \in 1..n : t[i] = s[i] OBVIOUS
  <1> HIDE DEF t
  <1>3. PICK g \in [1..(n + 1) -> Seq(S)] : g = Joins(t, g, n + 1) /\ FlattenSeq(t) = g[n + 1]
    BY <1>1, FlatIs
  <1>4. \A i \in 1..(n + 1) : g[i] = IF i = 1 THEN t[i] ELSE g[i - 1] \o t[i]
    BY <1>3 DEF Joins
  <1>5. CASE s = <<>>
    <2>1. n = 0 BY <1>5
    <2>2. g[1] = x BY <1>2, <1>4, <2>1
    <2>3. FlattenSeq(t) = x BY <1>3, <2>1, <2>2
    <2>4. FlattenSeq(s) = <<>> BY <1>5, FlatEmpty
    <2> QED BY <2>3, <2>4 DEF t
  <1>6. CASE s # <<>>
    <2>1. PICK f \in [1..n -> Seq(S)] : f = Joins(s, f, n) /\ FlattenSeq(s) = f[n]
      BY <1>6, FlatIs
    <2>2. \A i \in 1..n : f[i] = IF i = 1 THEN s[i] ELSE f[i - 1] \o s[i] BY <2>1 DEF Joins
    <2> DEFINE T == {m \in Nat : m \in 1..n => f[m] = g[m]}
    <2>3. 0 \in T OBVIOUS
    <2>4. ASSUME NEW k \in Nat, k \in T PROVE k + 1 \in T
      <3> SUFFICES ASSUME k + 1 \in 1..n PROVE f[k + 1] = g[k + 1] OBVIOUS
      <3>1. k + 1 \in 1..(n + 1) /\ (k + 1) - 1 = k OBVIOUS
      <3>2. f[k + 1] = IF k + 1 = 1 THEN s[k + 1] ELSE f[k] \o s[k + 1] BY <2>2, <3>1
      <3>3. g[k + 1] = IF k + 1 = 1 THEN t[k + 1] ELSE g[k] \o t[k + 1] BY <1>4, <3>1
      <3>4. t[k + 1] = s[k + 1] BY <1>2
      <3>5. CASE k = 0 BY <3>2, <3>3, <3>4, <3>5
      <3>6. CASE k # 0
        <4>1. k \in 1..n BY <3>6
        <4>2. f[k] = g[k] BY <2>4, <4>1
        <4> QED BY <3>2, <3>3, <3>4, <3>6, <4>2
      <3> QED BY <3>5, <3>6
    <2> HIDE DEF T
    <2>5. n \in T BY <1>1, <2>3, <2>4, Induction
    <2>6. n \in 1..n BY <1>6
    <2>7. f[n] = g[n] BY <2>5, <2>6 DEF T
    <2>8. g[n + 1] = g[n] \o x
      <3>1. n + 1 \in 1..(n + 1) /\ n + 1 # 1 /\ (n + 1) - 1 = n BY <2>6
      <3> QED BY <1>2, <1>4, <3>1
    <2> QED BY <1>3, <2>1, <2>7, <2>8 DEF t
  <1> QED BY <1>5, <1>6

(***************************************************************************)
(* What the client reads of each frame: _normalize applied to what either  *)
(* server writes.                                                          *)
(***************************************************************************)

\* First with one key, with two and with three.
LEMMA FirstOfOne ==
  \A d, k, default : First(d, <<k>>, default) = IF k \in DOMAIN d THEN d[k] ELSE default
  BY DEF First, Min

LEMMA FirstOfTwo ==
  ASSUME NEW d, NEW j, NEW k, NEW default
  PROVE  First(d, <<j, k>>, default) =
           IF j \in DOMAIN d THEN d[j] ELSE IF k \in DOMAIN d THEN d[k] ELSE default
  <1> DEFINE keys == <<j, k>>
             held == {i \in DOMAIN keys : keys[i] \in DOMAIN d}
  <1>1. held \subseteq {1, 2} /\ (1 \in held <=> j \in DOMAIN d) /\ (2 \in held <=> k \in DOMAIN d)
    OBVIOUS
  <1>2. First(d, keys, default) = IF held = {} THEN default ELSE d[keys[Min(held)]] BY DEF First
  <1>3. keys[1] = j /\ keys[2] = k OBVIOUS
  <1>4. 1 \in held => Min(held) = 1 BY <1>1 DEF Min
  <1>5. 2 \in held /\ 1 \notin held => Min(held) = 2 BY <1>1 DEF Min
  <1> HIDE DEF keys, held
  <1>6. First(d, keys, default) =
           IF j \in DOMAIN d THEN d[j] ELSE IF k \in DOMAIN d THEN d[k] ELSE default
    BY <1>1, <1>2, <1>3, <1>4, <1>5
  <1> QED BY <1>6 DEF keys

LEMMA FirstOfThree ==
  ASSUME NEW d, NEW j, NEW k, NEW l, NEW default
  PROVE  First(d, <<j, k, l>>, default) =
           IF j \in DOMAIN d THEN d[j] ELSE IF k \in DOMAIN d THEN d[k]
           ELSE IF l \in DOMAIN d THEN d[l] ELSE default
  <1> DEFINE keys == <<j, k, l>>
             held == {i \in DOMAIN keys : keys[i] \in DOMAIN d}
  <1>1. held \subseteq {1, 2, 3} /\ (1 \in held <=> j \in DOMAIN d)
        /\ (2 \in held <=> k \in DOMAIN d) /\ (3 \in held <=> l \in DOMAIN d)
    OBVIOUS
  <1>2. First(d, keys, default) = IF held = {} THEN default ELSE d[keys[Min(held)]] BY DEF First
  <1>3. keys[1] = j /\ keys[2] = k /\ keys[3] = l OBVIOUS
  <1>4. 1 \in held => Min(held) = 1 BY <1>1 DEF Min
  <1>5. 2 \in held /\ 1 \notin held => Min(held) = 2 BY <1>1 DEF Min
  <1>6. 3 \in held /\ 1 \notin held /\ 2 \notin held => Min(held) = 3 BY <1>1 DEF Min
  <1> HIDE DEF keys, held
  <1>7. First(d, keys, default) =
           IF j \in DOMAIN d THEN d[j] ELSE IF k \in DOMAIN d THEN d[k]
           ELSE IF l \in DOMAIN d THEN d[l] ELSE default
    BY <1>1, <1>2, <1>3, <1>4, <1>5, <1>6
  <1> QED BY <1>7 DEF keys

\* The string of an absent key, kept as a name.
Absent == ""

\* Str reads a string, "" when it is absent.
LEMMA StrIs == ASSUME NEW d, NEW keys PROVE Str(d, keys) = First(d, keys, Absent)
  BY Zenon DEF Str, Absent

\* The kind of an event that is not wrapped is its type.
LEMMA KindIsType ==
  ASSUME NEW e, NEW t, "type" \in DOMAIN e, e.type = t, t # "", t # "event"
  PROVE  EventKind(e) = t
  BY FirstOfOne DEF EventKind, Str, Either

\* An event with a type has a kind.
LEMMA Typed ==
  ASSUME NEW e, NEW t, "type" \in DOMAIN e, e.type = t, t # ""
  PROVE  Either(Str(e, <<"type">>), Str(e, <<"event_type">>)) # ""
  BY FirstOfOne DEF Str, Either

\* An agent_event frame is read as its event.
LEMMA EventFrame ==
  ASSUME NEW e, NEW b PROVE AgentFrame(AgentEventFrame(e), b) = AgentEvent(e, b)
  <1> DEFINE p == [event_json |-> e]
             f == AgentEventFrame(e)
  <1>1. /\ f.type = "agent_event" /\ Inner(f, "payload") = p
        /\ "event_json" \in DOMAIN p /\ p["event_json"] = e
    BY DEF AgentEventFrame, Inner
  <1> HIDE DEF f, p
  <1>2. JsonField(f, "event_json") = e BY <1>1, FirstOfThree DEF JsonField
  <1>3. AgentFrame(f, b) = AgentEvent(e, b) BY <1>1, <1>2 DEF AgentFrame
  <1> QED BY <1>3 DEF f

\* A frame that carries an event as its payload is read as that event.
LEMMA PayloadFrame ==
  ASSUME NEW e, NEW b, NEW f, f = [type |-> e.type, payload |-> e],
         e.type \in ToolEventTypes \cup ThinkingTypes \cup {"text_delta", "message_end"}
  PROVE  AgentFrame(f, b) =
           IF e.type \in ToolEventTypes THEN ProviderPayload(e, b)
           ELSE IF e.type = "text_delta" THEN Only(Delta("text_delta", e), b)
           ELSE IF e.type \in ThinkingTypes THEN Only(Delta("thinking_delta", e), b)
           ELSE Only(MessageEnd(e), b)
  <1>1. f.type = e.type /\ Inner(f, "payload") = e BY DEF Inner
  <1>2. AgentFrame(f, b) = ProviderFrame(f, b)
    BY <1>1 DEF AgentFrame, ToolEventTypes, ThinkingTypes
  <1> HIDE DEF Inner
  <1>3. CASE e.type \in ToolEventTypes
    BY <1>1, <1>2, <1>3 DEF ProviderFrame, ToolEventTypes, ThinkingTypes
  <1>4. CASE e.type \in ThinkingTypes
    BY <1>1, <1>2, <1>4 DEF ProviderFrame, ToolEventTypes, ThinkingTypes
  <1>5. CASE e.type \in {"text_delta", "message_end"}
    BY <1>1, <1>2, <1>5 DEF ProviderFrame, ToolEventTypes, ThinkingTypes
  <1> QED BY <1>3, <1>4, <1>5

\* An assistant_message_event is read as the provider event it carries, in both framings.
LEMMA UpdateFrame ==
  ASSUME NEW e, NEW b, "type" \in DOMAIN e, e.type \in
           {"text_delta", "thinking_delta", "reasoning", "toolcall_start", "toolcall_delta", "toolcall_end"}
  PROVE  AgentFrame(Update(e), b) =
             CASE e.type = "text_delta" -> Only(Delta("text_delta", e), b)
               [] e.type \in {"thinking_delta", "reasoning"} -> Only(Delta("thinking_delta", e), b)
               [] e.type = "toolcall_start" -> ToolStart(e, b)
               [] e.type = "toolcall_delta" -> ToolDelta(e, b)
               [] e.type = "toolcall_end" -> ToolEnd(e, b)
  <1>1. EventKind(e) = e.type
    <2>1. e.type # "" /\ e.type # "event" OBVIOUS
    <2> QED BY <2>1, KindIsType
  <1>2. ProviderPayload(e, b) =
            CASE e.type = "text_delta" -> Only(Delta("text_delta", e), b)
               [] e.type \in {"thinking_delta", "reasoning"} -> Only(Delta("thinking_delta", e), b)
               [] e.type = "toolcall_start" -> ToolStart(e, b)
               [] e.type = "toolcall_delta" -> ToolDelta(e, b)
               [] e.type = "toolcall_end" -> ToolEnd(e, b)
    BY <1>1 DEF ProviderPayload
  <1>3. CASE Compact
    <2>1. PICK f : f = [type |-> e.type, payload |-> e] OBVIOUS
    <2>2. Update(e) = f BY <1>3, <2>1 DEF Update
    <2>3. AgentFrame(f, b) =
           IF e.type \in ToolEventTypes THEN ProviderPayload(e, b)
           ELSE IF e.type = "text_delta" THEN Only(Delta("text_delta", e), b)
           ELSE IF e.type \in ThinkingTypes THEN Only(Delta("thinking_delta", e), b)
           ELSE Only(MessageEnd(e), b)
      BY <2>1, PayloadFrame DEF ToolEventTypes, ThinkingTypes
    <2> QED BY <1>2, <2>2, <2>3 DEF ToolEventTypes, ThinkingTypes
  <1>4. CASE ~Compact
    <2>1. PICK u : u = [type |-> "message_update", event |-> e] OBVIOUS
    <2>2. AgentFrame(Update(e), b) = AgentEvent(u, b) BY <1>4, <2>1, EventFrame DEF Update
    <2>3. "type" \in DOMAIN u /\ u.type = "message_update" /\ Inner(u, "event") = e
      BY <2>1 DEF Inner
    <2>4. EventKind(u) = "message_update" BY <2>3, KindIsType
    <2>5. Either(Str(u, <<"type">>), Str(u, <<"event_type">>)) # "" BY <2>3, Typed
    <2>6. AgentEvent(u, b) = ProviderPayload(e, b)
      BY <2>3, <2>4, <2>5 DEF AgentEvent, ProviderEventTypes, ToolEventTypes, ThinkingTypes
    <2> QED BY <1>2, <2>2, <2>6
  <1> QED BY <1>3, <1>4

\* The events a client makes of the frames.
TextShown(f) == [type |-> "text_delta", delta |-> f]

ThinkingShown(f) == [type |-> "thinking_delta", delta |-> f]

CallShown(id, name, args) ==
  [type |-> "tool_call", tool_call_id |-> id, name |-> name, arguments_json |-> args]

StartShown(provider, api, model) ==
  [type |-> "message_start", provider_id |-> provider, api |-> api, model_id |-> model]

EndShown(usage, stop_reason, error_message) ==
  [type |-> "message_end", usage |-> usage, stop_reason |-> stop_reason,
   error_message |-> error_message]

TurnShown(stop_reason, error_message) ==
  [type |-> "turn_end", stop_reason |-> stop_reason, error_message |-> error_message]

ExecutionShown(type, id) == [type |-> type, tool_call_id |-> id]

AgentEndShown(stop_reason, error_message, api) ==
  [type |-> "agent_end", usage |-> NoUsage, stop_reason |-> stop_reason,
   error_message |-> error_message, provider_id |-> "p", api |-> api]

ErrorShown(code, provider) ==
  [type |-> "error", message |-> "failed", code |-> code, provider_id |-> provider]

\* A text delta is shown as it was sent.
LEMMA ReadsText ==
  ASSUME NEW f, NEW b, NEW i
  PROVE  AgentFrame(Update([type |-> "text_delta", content_index |-> i, delta |-> f]), b)
           = Only(TextShown(f), b)
  <1>1. PICK e : e = [type |-> "text_delta", content_index |-> i, delta |-> f] OBVIOUS
  <1>2. AgentFrame(Update(e), b) = Only(Delta("text_delta", e), b) BY <1>1, UpdateFrame
  <1>3. Delta("text_delta", e) = TextShown(f) BY <1>1, FirstOfTwo DEF Delta, TextShown
  <1> QED BY <1>1, <1>2, <1>3

\* So is a thinking delta, and the compact server's reasoning.
LEMMA ReadsThinking ==
  ASSUME NEW f, NEW b, NEW i
  PROVE  /\ AgentFrame(Update([type |-> "thinking_delta", content_index |-> i, delta |-> f]), b)
              = Only(ThinkingShown(f), b)
         /\ AgentFrame(Update([type |-> "reasoning", delta |-> f]), b) = Only(ThinkingShown(f), b)
  <1>1. ASSUME NEW e, e = [type |-> "thinking_delta", content_index |-> i, delta |-> f]
                      \/ e = [type |-> "reasoning", delta |-> f]
        PROVE  AgentFrame(Update(e), b) = Only(ThinkingShown(f), b)
    <2>1. AgentFrame(Update(e), b) = Only(Delta("thinking_delta", e), b) BY <1>1, UpdateFrame
    <2>2. Delta("thinking_delta", e) = ThinkingShown(f)
      BY <1>1, FirstOfTwo DEF Delta, ThinkingShown
    <2> QED BY <2>1, <2>2
  <1> QED BY <1>1

\* The start of a call is buffered and shows nothing.
LEMMA ReadsToolStart ==
  ASSUME NEW id, NEW name, NEW b, NEW i
  PROVE  AgentFrame(Update([type |-> "toolcall_start", content_index |-> i, id |-> id,
                            name |-> name]), b)
           = Nothing(Buffer(b, i, [id |-> id, name |-> name, args |-> <<>>]))
  <1>1. PICK e : e = [type |-> "toolcall_start", content_index |-> i, id |-> id, name |-> name]
    OBVIOUS
  <1>2. AgentFrame(Update(e), b) = ToolStart(e, b) BY <1>1, UpdateFrame
  <1>3. Str(e, <<"id">>) = id /\ Str(e, <<"name">>) = name BY <1>1, StrIs, FirstOfOne
  <1> QED BY <1>1, <1>2, <1>3 DEF ToolStart

\* The call a provider has open, as _session buffers it.
Tool(id, name, args) == [id |-> id, name |-> name, args |-> args]

\* More of its arguments is added to what is buffered.
LEMMA ReadsToolDelta ==
  ASSUME NEW f, NEW b, NEW i, i \in DOMAIN b, NEW id, NEW name, NEW args,
         b[i] = Tool(id, name, args)
  PROVE  AgentFrame(Update([type |-> "toolcall_delta", content_index |-> i, delta |-> f]), b)
           = Nothing(Buffer(b, i, Tool(id, name, args \o f)))
  <1>1. PICK e : e = [type |-> "toolcall_delta", content_index |-> i, delta |-> f] OBVIOUS
  <1>2. AgentFrame(Update(e), b) = ToolDelta(e, b) BY <1>1, UpdateFrame
  <1>3. Held(b, i) = Tool(id, name, args) BY FirstOfOne DEF Held
  <1>4. [Tool(id, name, args) EXCEPT !.args = @ \o f] = Tool(id, name, args \o f)
    <2>1. PICK t, more : t = [id |-> id, name |-> name, args |-> args] /\ more = args \o f
      OBVIOUS
    <2>2. t.args \o f = more BY <2>1
    <2>3. [t EXCEPT !.args = @ \o f] = [t EXCEPT !.args = more] BY <2>2
    <2>4. [t EXCEPT !.args = more] = [id |-> id, name |-> name, args |-> more] BY <2>1
    <2> QED BY <2>1, <2>3, <2>4 DEF Tool
  <1> QED BY <1>1, <1>2, <1>3, <1>4 DEF ToolDelta

\* The call shown at the end is the buffered one, whether or not the end repeats it.
LEMMA BufferedCall ==
  ASSUME NEW e, NEW id, NEW name, NEW args, NEW tool, tool = Tool(id, name, args),
         e.type = "toolcall_end" /\ "type" \in DOMAIN e,
         \/ DOMAIN e = {"type", "content_index"}
         \/ /\ DOMAIN e = {"type", "content_index", "id", "name", "arguments_json"}
            /\ e.id = id /\ e.name = name /\ e.arguments_json = args
  PROVE  BufferedToolCall(e, tool) = CallShown(id, name, args)
  <1>1. First(e, <<"tool_call_id", "id">>, tool.id) = id BY FirstOfTwo DEF Tool
  <1>2. First(e, <<"name">>, tool.name) = name BY FirstOfOne DEF Tool
  <1>3. First(e, <<"arguments_json">>, tool.args) = args BY FirstOfOne DEF Tool
  <1>4. PICK c : c = [tool_call_id |-> id, name |-> name, arguments_json |-> args] OBVIOUS
  <1>5. BufferedToolCall(e, tool) = ToolCall(c)
    <2> HIDE DEF First
    <2> QED BY <1>1, <1>2, <1>3, <1>4 DEF BufferedToolCall
  <1>6. Str(c, <<"tool_call_id", "id">>) = id BY <1>4, StrIs, FirstOfTwo
  <1>7. Str(c, <<"name">>) = name BY <1>4, StrIs, FirstOfOne
  <1>8. First(c, <<"arguments_json">>, <<>>) = args BY <1>4, FirstOfOne
  <1> QED BY <1>5, <1>6, <1>7, <1>8 DEF ToolCall, CallShown

\* The end of a call shows it and drops it from what is buffered.
LEMMA ReadsToolEnd ==
  ASSUME NEW b, NEW i, i \in DOMAIN b, NEW id, NEW name, NEW args, b[i] = Tool(id, name, args),
         NEW part, part.id = id /\ part.name = name /\ part.arguments_json = args
  PROVE  LET whole == [k \in {"id", "name", "arguments_json"} |-> part[k]]
             bare == [type |-> "toolcall_end", content_index |-> i]
         IN  AgentFrame(Update(IF Compact THEN bare ELSE bare ++ whole), b)
               = Only(CallShown(id, name, args), [j \in DOMAIN b \ {i} |-> b[j]])
  <1> DEFINE whole == [k \in {"id", "name", "arguments_json"} |-> part[k]]
             bare == [type |-> "toolcall_end", content_index |-> i]
             e == IF Compact THEN bare ELSE bare ++ whole
  <1>1. e.type = "toolcall_end" /\ e.content_index = i /\ "type" \in DOMAIN e BY DEF ++
  <1>2. \/ DOMAIN e = {"type", "content_index"}
        \/ /\ DOMAIN e = {"type", "content_index", "id", "name", "arguments_json"}
           /\ e.id = id /\ e.name = name /\ e.arguments_json = args
    <2>1. CASE Compact BY <2>1
    <2>2. CASE ~Compact
      <3>1. DOMAIN e = {"type", "content_index", "id", "name", "arguments_json"} BY <2>2 DEF ++
      <3>2. e.id = id /\ e.name = name /\ e.arguments_json = args BY <2>2 DEF ++
      <3> QED BY <3>1, <3>2
    <2> QED BY <2>1, <2>2
  <1> HIDE DEF e
  <1>3. AgentFrame(Update(e), b) = ToolEnd(e, b) BY <1>1, UpdateFrame
  <1>4. Held(b, i) = Tool(id, name, args) BY FirstOfOne DEF Held
  <1>5. BufferedToolCall(e, Held(b, i)) = CallShown(id, name, args)
    BY <1>1, <1>2, <1>4, BufferedCall
  <1>6. ToolEnd(e, b) = Only(CallShown(id, name, args), [j \in DOMAIN b \ {i} |-> b[j]])
    BY <1>1, <1>5 DEF ToolEnd
  <1>7. AgentFrame(Update(e), b) = Only(CallShown(id, name, args), [j \in DOMAIN b \ {i} |-> b[j]])
    BY <1>3, <1>6
  <1> QED BY <1>7 DEF e

\* An event that has a type is read as its type says.
LEMMA TypedEvent ==
  ASSUME NEW e, NEW b, NEW t, "type" \in DOMAIN e, e.type = t
  PROVE  /\ t = "agent_start" =>
              AgentFrame(AgentEventFrame(e), b)
                = Only([type |-> t, session_id |-> Str(e, <<"session_id">>)], b)
         /\ t = "turn_start" => AgentFrame(AgentEventFrame(e), b) = Only([type |-> t], b)
         /\ t = "turn_end" =>
              AgentFrame(AgentEventFrame(e), b)
                = Only([type |-> t, stop_reason |-> Str(e, <<"stop_reason">>),
                        error_message |-> Str(e, <<"error_message">>)], b)
         /\ t \in {"tool_execution_start", "tool_execution_end"} =>
              AgentFrame(AgentEventFrame(e), b)
                = Only([type |-> t, tool_call_id |-> Str(e, <<"tool_call_id">>)], b)
         /\ t = "agent_end" => AgentFrame(AgentEventFrame(e), b) = Only(AgentEnd(e), b)
         /\ t = "message_start" =>
              AgentFrame(AgentEventFrame(e), b) = Only(MessageStart(Inner(e, "message")), b)
         /\ t = "message_end" =>
              AgentFrame(AgentEventFrame(e), b) = Only(MessageEnd(Inner(e, "message")), b)
         /\ t = "error" => AgentFrame(AgentEventFrame(e), b) = Only(ParseError(e), b)
  <1>1. AgentFrame(AgentEventFrame(e), b) = AgentEvent(e, b) BY EventFrame
  <1> SUFFICES ASSUME t # "", t # "event" PROVE
         /\ t = "agent_start" =>
              AgentEvent(e, b)
                = Only([type |-> t, session_id |-> Str(e, <<"session_id">>)], b)
         /\ t = "turn_start" => AgentEvent(e, b) = Only([type |-> t], b)
         /\ t = "turn_end" =>
              AgentEvent(e, b)
                = Only([type |-> t, stop_reason |-> Str(e, <<"stop_reason">>),
                        error_message |-> Str(e, <<"error_message">>)], b)
         /\ t \in {"tool_execution_start", "tool_execution_end"} =>
              AgentEvent(e, b)
                = Only([type |-> t, tool_call_id |-> Str(e, <<"tool_call_id">>)], b)
         /\ t = "agent_end" => AgentEvent(e, b) = Only(AgentEnd(e), b)
         /\ t = "message_start" =>
              AgentEvent(e, b) = Only(MessageStart(Inner(e, "message")), b)
         /\ t = "message_end" =>
              AgentEvent(e, b) = Only(MessageEnd(Inner(e, "message")), b)
         /\ t = "error" => AgentEvent(e, b) = Only(ParseError(e), b)
    BY <1>1
  <1>2. EventKind(e) = t BY KindIsType
  <1>3. Either(Str(e, <<"type">>), Str(e, <<"event_type">>)) # "" BY Typed
  <1> QED BY <1>2, <1>3 DEF AgentEvent, ProviderEventTypes, ToolEventTypes, ThinkingTypes

\* The agent_start of a run names no session.
LEMMA ReadsAgentStart ==
  ASSUME NEW b
  PROVE  AgentFrame(AgentEventFrame([type |-> "agent_start"]), b)
           = Only([type |-> "agent_start", session_id |-> Absent], b)
  <1>1. PICK e, t : t = "agent_start" /\ e = [type |-> t] OBVIOUS
  <1>2. Str(e, <<"session_id">>) = Absent BY <1>1, StrIs, FirstOfOne
  <1>3. AgentFrame(AgentEventFrame(e), b)
          = Only([type |-> t, session_id |-> Str(e, <<"session_id">>)], b)
    BY <1>1, TypedEvent
  <1> QED BY <1>1, <1>2, <1>3

\* A turn_start is read as one.
LEMMA ReadsTurnStart ==
  ASSUME NEW b
  PROVE  AgentFrame(AgentEventFrame([type |-> "turn_start"]), b) = Only([type |-> "turn_start"], b)
  <1>1. PICK e, t : t = "turn_start" /\ e = [type |-> t] OBVIOUS
  <1>2. "type" \in DOMAIN e /\ e.type = t BY <1>1
  <1>3. t = "turn_start" BY <1>1
  <1> HIDE <1>1
  <1>4. AgentFrame(AgentEventFrame(e), b) = Only([type |-> t], b) BY <1>2, <1>3, TypedEvent
  <1> QED BY <1>1, <1>4

\* What a message_start says of its model, under either names.
LEMMA ReadsStart ==
  ASSUME NEW e, NEW b, NEW provider, NEW api, NEW model,
         "type" \in DOMAIN e, e.type = "message_start", "message" \notin DOMAIN e,
         "provider_id" \in DOMAIN e => e.provider_id = provider,
         "provider_id" \notin DOMAIN e /\ "provider" \in DOMAIN e => e.provider = provider,
         DOMAIN e \cap {"provider_id", "provider"} = {} => provider = Absent,
         "model_id" \in DOMAIN e => e.model_id = model,
         "model_id" \notin DOMAIN e /\ "model" \in DOMAIN e => e.model = model,
         DOMAIN e \cap {"model_id", "model"} = {} => model = Absent,
         api = IF "api" \in DOMAIN e THEN e.api ELSE Absent
  PROVE  AgentFrame(AgentEventFrame(e), b) = Only(StartShown(provider, api, model), b)
  <1>1. AgentFrame(AgentEventFrame(e), b) = Only(MessageStart(Inner(e, "message")), b)
    BY TypedEvent
  <1>2. Inner(e, "message") = e BY DEF Inner
  <1>3. Str(e, <<"provider_id", "provider">>) = provider BY StrIs, FirstOfTwo
  <1>4. Str(e, <<"model_id", "model">>) = model BY StrIs, FirstOfTwo
  <1>5. Str(e, <<"api">>) = api BY StrIs, FirstOfOne
  <1> QED BY <1>1, <1>2, <1>3, <1>4, <1>5 DEF MessageStart, StartShown

\* The message_start of a prompt or of a tool result names no model.
LEMMA ReadsOtherStart ==
  ASSUME NEW b
  PROVE  AgentFrame(AgentEventFrame([type |-> "message_start"]), b)
           = Only(StartShown(Absent, Absent, Absent), b)
  <1>1. PICK e : e = [type |-> "message_start"] OBVIOUS
  <1>2. DOMAIN e = {"type"} BY <1>1
  <1>3. "type" \in DOMAIN e /\ e.type = "message_start" BY <1>1
  <1>4. AgentFrame(AgentEventFrame(e), b) = Only(StartShown(Absent, Absent, Absent), b)
    BY <1>2, <1>3, ReadsStart
  <1> QED BY <1>1, <1>4

\* The message_start of the model names its provider, api and model.
LEMMA ReadsMessageStart ==
  ASSUME NEW b
  PROVE  AgentFrame(AgentEventFrame([type |-> "message_start"] ++ Metadata), b)
           = Only(StartShown("p", setup.api, "m"), b)
  <1>1. PICK e : e = [type |-> "message_start"] ++ Metadata OBVIOUS
  <1>2. PICK p, m, a : p = "p" /\ m = "m" /\ a = setup.api OBVIOUS
  <1>3. CASE Compact
    <2>1. PICK d : d = [provider_id |-> p, model_id |-> m, api |-> a] OBVIOUS
    <2>2. Metadata = d BY <1>2, <1>3, <2>1 DEF Metadata
    <2>3. DOMAIN e = {"type", "provider_id", "model_id", "api"} BY <1>1, <2>1, <2>2 DEF ++
    <2>4. e.type = "message_start" BY <1>1 DEF ++
    <2>5. e.provider_id = p /\ e.model_id = m /\ e.api = a BY <1>1, <2>1, <2>2 DEF ++
    <2> HIDE DEF Metadata
    <2>6. AgentFrame(AgentEventFrame(e), b) = Only(StartShown(p, a, m), b)
      BY <2>3, <2>4, <2>5, ReadsStart
    <2> QED BY <1>1, <1>2, <2>6
  <1>4. CASE ~Compact
    <2>1. PICK d : d = [provider |-> p, model |-> m, api |-> a] OBVIOUS
    <2>2. Metadata = d BY <1>2, <1>4, <2>1 DEF Metadata
    <2>3. DOMAIN e = {"type", "provider", "model", "api"} BY <1>1, <2>1, <2>2 DEF ++
    <2>4. e.type = "message_start" BY <1>1 DEF ++
    <2>5. e.provider = p /\ e.model = m /\ e.api = a BY <1>1, <2>1, <2>2 DEF ++
    <2>6. AgentFrame(AgentEventFrame(e), b) = Only(StartShown(p, a, m), b)
      BY <2>3, <2>4, <2>5, ReadsStart
    <2> QED BY <1>1, <1>2, <2>6
  <1> QED BY <1>3, <1>4

\* The counts of a message.
IsUsage(u) ==
  /\ u = [k \in DOMAIN u |-> u[k]]
  /\ DOMAIN u \in {{"input", "output"}, {"input", "output", "cache_read"}}
  /\ \A k \in DOMAIN u : u[k] \in Nat

\* Counted adds the cache's count, except for the compact server.
LEMMA CountedHas ==
  ASSUME NEW u, IsUsage(u)
  PROVE  /\ IsUsage(Counted(u))
         /\ ~Compact => DOMAIN Counted(u) = {"input", "output", "cache_read"}
         /\ \A k \in DOMAIN u : k \in DOMAIN Counted(u) /\ Counted(u)[k] = u[k]
         /\ Compact \/ "cache_read" \in DOMAIN u => Counted(u) = u
  <1>1. CASE Compact BY <1>1 DEF Counted, IsUsage
  <1>2. CASE ~Compact
    <2>1. PICK c : c = [cache_read |-> 0] OBVIOUS
    <2>2. PICK v : v = u ++ c OBVIOUS
    <2>3. Counted(u) = v BY <1>2, <2>1, <2>2 DEF Counted
    <2>4. DOMAIN v = {"input", "output", "cache_read"} BY <2>1, <2>2 DEF IsUsage, ++
    <2>5. v = [k \in DOMAIN v |-> v[k]] BY <2>2 DEF ++
    <2>6. \A k \in DOMAIN u : v[k] = u[k] BY <2>2 DEF ++
    <2>7. "cache_read" \notin DOMAIN u => v["cache_read"] = 0 BY <2>1, <2>2 DEF ++
    <2>8. IsUsage(v)
      <3>1. \A k \in DOMAIN v : v[k] \in Nat BY <2>4, <2>6, <2>7 DEF IsUsage
      <3> QED BY <2>4, <2>5, <3>1 DEF IsUsage
    <2>9. "cache_read" \in DOMAIN u => v = u
      <3>1. "cache_read" \in DOMAIN u => DOMAIN u = DOMAIN v BY <2>4 DEF IsUsage
      <3> QED BY <2>5, <2>6, <3>1 DEF IsUsage
    <2> QED BY <1>2, <2>3, <2>4, <2>6, <2>8, <2>9 DEF IsUsage
  <1> QED BY <1>1, <1>2

\* The usage read is the usage sent, in both spellings.
LEMMA UsageRead ==
  ASSUME NEW u, IsUsage(u)
  PROVE  UsageOf(UsageFields(u)) = Counted(u)
  <1>1. ASSUME NEW v, IsUsage(v) PROVE UsageOf(v) = v
    <2>1. UsageOf(v) = [k \in {"input", "output", "cache_read"} \cap DOMAIN v |-> v[k]]
      BY <1>1 DEF UsageOf, IsUsage
    <2>2. {"input", "output", "cache_read"} \cap DOMAIN v = DOMAIN v BY <1>1 DEF IsUsage
    <2> QED BY <1>1, <2>1, <2>2 DEF IsUsage
  <1>2. CASE Compact /\ "cache_read" \notin DOMAIN u
    <2>1. PICK r : r = [input_tokens |-> u.input, output_tokens |-> u.output] OBVIOUS
    <2>2. UsageFields(u) = r BY <1>2, <2>1 DEF UsageFields
    <2>3. DOMAIN r = {"input_tokens", "output_tokens"} /\ r.input_tokens = u.input
          /\ r.output_tokens = u.output
      BY <2>1
    <2>4. PICK w : w = UsageOf(r) OBVIOUS
    <2>5. w = [k \in {"input", "output"} |-> IF k = "input" THEN u.input ELSE u.output]
      <3>1. {"input", "output"} \cup ({"cache_read"} \cap DOMAIN r) = {"input", "output"} BY <2>3
      <3> QED BY <2>3, <2>4, <3>1 DEF UsageOf
    <2>6. DOMAIN u = {"input", "output"} BY <1>2 DEF IsUsage
    <2>7. w = u BY <2>5, <2>6 DEF IsUsage
    <2> QED BY <1>2, <2>2, <2>4, <2>7, CountedHas
  <1>3. CASE ~(Compact /\ "cache_read" \notin DOMAIN u)
    <2>1. UsageFields(u) = Counted(u) BY <1>3 DEF UsageFields
    <2> QED BY <1>1, <2>1, CountedHas
  <1> QED BY <1>2, <1>3

\* What a message_end says.
LEMMA EndFields ==
  ASSUME NEW e, NEW raw, NEW sr, NEW em, "message" \notin DOMAIN e,
         "usage" \in DOMAIN e, e.usage = raw, "stop_reason" \in DOMAIN e, e.stop_reason = sr,
         "error_message" \in DOMAIN e => e.error_message = em,
         "error_message" \notin DOMAIN e => em = Absent
  PROVE  MessageEnd(Inner(e, "message")) = EndShown(UsageOf(raw), sr, em)
         /\ MessageEnd(e) = EndShown(UsageOf(raw), sr, em)
  <1>1. Inner(e, "message") = e BY DEF Inner
  <1>2. \A x : First(e, <<"usage">>, x) = raw BY FirstOfOne
  <1>3. \A x : First(e, <<"stop_reason", "reason">>, x) = sr BY FirstOfTwo
  <1>4. First(e, <<"error_message">>, Str(e, <<"error_message">>)) = em BY StrIs, FirstOfOne
  <1>5. MessageEnd(e) = [type |-> "message_end", usage |-> UsageOf(raw), stop_reason |-> sr,
                         error_message |-> em]
    BY <1>1, <1>2, <1>3, <1>4 DEF MessageEnd
  <1> QED BY <1>1, <1>5 DEF EndShown

\* An object with or without an error message.
LEMMA ErrorFieldHas ==
  ASSUME NEW d, NEW em, NEW j, j = d ++ ErrorField(em), "error_message" \notin DOMAIN d
  PROVE  /\ \A k : k \in DOMAIN j <=> k \in DOMAIN d \/ (k = "error_message" /\ em # Absent)
         /\ \A k \in DOMAIN d : j[k] = d[k]
         /\ em # Absent => j.error_message = em
  <1>1. CASE em = ""
    <2>1. ErrorField(em) = <<>> BY <1>1 DEF ErrorField
    <2>2. PICK x : x = ErrorField(em) /\ DOMAIN x = {} BY <2>1
    <2>3. j = d ++ x BY <2>2
    <2>4. /\ DOMAIN j = DOMAIN d
          /\ \A k \in DOMAIN d : j[k] = d[k]
      BY <2>2, <2>3 DEF ++
    <2>5. em = Absent BY <1>1 DEF Absent
    <2> QED BY <2>4, <2>5
  <1>2. CASE em # ""
    <2>1. PICK x : x = [error_message |-> em] OBVIOUS
    <2>2. ErrorField(em) = x BY <1>2, <2>1 DEF ErrorField
    <2>3. DOMAIN x = {"error_message"} /\ x.error_message = em BY <2>1
    <2>4. em # Absent BY <1>2 DEF Absent
    <2>5. j = d ++ x BY <2>2
    <2>6. /\ DOMAIN j = DOMAIN d \cup {"error_message"}
          /\ \A k \in DOMAIN d : j[k] = d[k]
          /\ j["error_message"] = x["error_message"]
      BY <2>5, <2>3 DEF ++
    <2> QED BY <2>3, <2>4, <2>6
  <1> QED BY <1>1, <1>2

\* The message_end of the model is shown with what its message counts.
LEMMA ReadsMessageEnd ==
  ASSUME NEW u, NEW sr, NEW em, NEW b, IsUsage(u)
  PROVE  AgentFrame(MessageEndFrame(u, sr, em), b) = Only(EndShown(Counted(u), sr, em), b)
  <1>1. PICK d : d = [stop_reason |-> sr, usage |-> UsageFields(u)] OBVIOUS
  <1>2. DOMAIN d = {"stop_reason", "usage"} /\ d.stop_reason = sr /\ d.usage = UsageFields(u)
    BY <1>1
  <1>3. PICK fields : fields = d ++ ErrorField(em) OBVIOUS
  <1>4. /\ \A k : k \in DOMAIN fields <=>
                    k \in {"stop_reason", "usage"} \/ (k = "error_message" /\ em # Absent)
        /\ fields.stop_reason = sr /\ fields.usage = UsageFields(u)
        /\ em # Absent => fields.error_message = em
    <2>1. "error_message" \notin DOMAIN d BY <1>2
    <2>2. /\ \A k : k \in DOMAIN fields <=> k \in DOMAIN d \/ (k = "error_message" /\ em # Absent)
          /\ \A k \in DOMAIN d : fields[k] = d[k]
          /\ em # Absent => fields.error_message = em
      BY <1>3, <2>1, ErrorFieldHas
    <2> QED BY <1>2, <2>2
  <1>5. CASE Compact
    <2>1. PICK f : f = [type |-> "message_end", payload |-> fields] OBVIOUS
    <2>2. MessageEndFrame(u, sr, em) = f BY <1>1, <1>3, <1>5, <2>1 DEF MessageEndFrame
    <2>3. f.type = "message_end" /\ Inner(f, "payload") = fields BY <2>1 DEF Inner
    <2>4. AgentFrame(f, b) = Only(MessageEnd(fields), b)
      BY <2>3 DEF AgentFrame, ProviderFrame, ToolEventTypes, ThinkingTypes
    <2>5. MessageEnd(fields) = EndShown(Counted(u), sr, em) BY <1>4, EndFields, UsageRead
    <2> QED BY <2>2, <2>4, <2>5
  <1>6. CASE ~Compact
    <2>1. PICK h : h = [type |-> "message_end"] OBVIOUS
    <2>2. PICK e : e = h ++ fields OBVIOUS
    <2>3. MessageEndFrame(u, sr, em) = AgentEventFrame(e)
      BY <1>1, <1>3, <1>6, <2>1, <2>2 DEF MessageEndFrame
    <2>4. DOMAIN h = {"type"} /\ h.type = "message_end" BY <2>1
    <2>5. /\ DOMAIN e = {"type"} \cup DOMAIN fields /\ e.type = "message_end"
          /\ \A k \in DOMAIN fields : e[k] = fields[k]
      <3>1. /\ DOMAIN e = DOMAIN h \cup DOMAIN fields
            /\ \A k \in DOMAIN h : e[k] = h[k]
            /\ \A k \in DOMAIN fields \ DOMAIN h : e[k] = fields[k]
        BY <2>2 DEF ++
      <3>2. "type" \notin DOMAIN fields BY <1>4
      <3> QED BY <2>4, <3>1, <3>2
    <2>6. e.stop_reason = sr /\ e.usage = UsageFields(u) /\ (em # Absent => e.error_message = em)
      BY <1>4, <2>5
    <2>7. AgentFrame(AgentEventFrame(e), b) = Only(MessageEnd(Inner(e, "message")), b)
      BY <2>5, TypedEvent
    <2>8. MessageEnd(Inner(e, "message")) = EndShown(Counted(u), sr, em)
      BY <1>4, <2>5, <2>6, EndFields, UsageRead
    <2> QED BY <2>3, <2>7, <2>8
  <1> QED BY <1>5, <1>6

\* The message_end of a prompt or of a tool result counts nothing.
LEMMA ReadsOtherEnd ==
  ASSUME NEW b
  PROVE  AgentFrame(AgentEventFrame([type |-> "message_end"]), b)
           = Only(EndShown(NoUsage, Absent, Absent), b)
  <1>1. PICK e : e = [type |-> "message_end"] OBVIOUS
  <1>2. DOMAIN e = {"type"} BY <1>1
  <1>3. "type" \in DOMAIN e /\ e.type = "message_end" BY <1>1
  <1> HIDE <1>1
  <1>4. AgentFrame(AgentEventFrame(e), b) = Only(MessageEnd(Inner(e, "message")), b)
    BY <1>3, TypedEvent
  <1>5. Inner(e, "message") = e BY <1>2 DEF Inner
  <1>6. First(e, <<"usage">>, First(e, <<"usage">>, e)) = e BY <1>2, FirstOfOne
  <1>7. UsageOf(e) = NoUsage BY <1>2 DEF UsageOf
  <1>8. Str(e, <<"stop_reason">>) = Absent BY <1>2, StrIs, FirstOfOne
  <1>9. Str(e, <<"error_message">>) = Absent BY <1>2, StrIs, FirstOfOne
  <1>10. First(e, <<"stop_reason", "reason">>, Absent) = Absent BY <1>2, FirstOfTwo
  <1>11. First(e, <<"error_message">>, Absent) = Absent BY <1>2, FirstOfOne
  <1>12. MessageEnd(e) = EndShown(NoUsage, Absent, Absent)
    BY <1>5, <1>6, <1>7, <1>8, <1>9, <1>10, <1>11 DEF MessageEnd, EndShown
  <1> QED BY <1>1, <1>4, <1>5, <1>12

\* A turn_end is read as one.
LEMMA ReadsTurnEnd ==
  ASSUME NEW sr, NEW em, NEW b
  PROVE  AgentFrame(TurnEndFrame(sr, em), b) = Only(TurnShown(sr, em), b)
  <1>1. PICK t : t = "turn_end" OBVIOUS
  <1>2. PICK d : d = [type |-> t, stop_reason |-> sr] OBVIOUS
  <1>3. PICK e : e = d ++ ErrorField(em) OBVIOUS
  <1>4. TurnEndFrame(sr, em) = AgentEventFrame(e) BY <1>1, <1>2, <1>3 DEF TurnEndFrame
  <1>5. DOMAIN d = {"type", "stop_reason"} /\ d.type = t /\ d.stop_reason = sr BY <1>2
  <1>6. /\ \A k : k \in DOMAIN e <=> k \in DOMAIN d \/ (k = "error_message" /\ em # Absent)
        /\ \A k \in DOMAIN d : e[k] = d[k]
        /\ em # Absent => e.error_message = em
    <2>1. "error_message" \notin DOMAIN d BY <1>5
    <2> QED BY <1>3, <2>1, ErrorFieldHas
  <1>7. "type" \in DOMAIN e /\ e.type = t BY <1>5, <1>6
  <1>8. AgentFrame(AgentEventFrame(e), b)
          = Only([type |-> t, stop_reason |-> Str(e, <<"stop_reason">>),
                  error_message |-> Str(e, <<"error_message">>)], b)
    BY <1>1, <1>7, TypedEvent
  <1>9. Str(e, <<"stop_reason">>) = sr BY <1>5, <1>6, StrIs, FirstOfOne
  <1>10. Str(e, <<"error_message">>) = em BY <1>5, <1>6, StrIs, FirstOfOne
  <1> QED BY <1>1, <1>4, <1>8, <1>9, <1>10 DEF TurnShown

\* The start and the end of an execution are read as such.
LEMMA ReadsExecution ==
  ASSUME NEW t \in {"tool_execution_start", "tool_execution_end"}, NEW id, NEW b
  PROVE  AgentFrame(AgentEventFrame([type |-> t, tool_call_id |-> id]), b)
           = Only(ExecutionShown(t, id), b)
  <1>1. PICK e : e = [type |-> t, tool_call_id |-> id] OBVIOUS
  <1>2. "type" \in DOMAIN e /\ e.type = t BY <1>1
  <1>3. Str(e, <<"tool_call_id">>) = id BY <1>1, StrIs, FirstOfOne
  <1> HIDE <1>1
  <1>4. AgentFrame(AgentEventFrame(e), b)
          = Only([type |-> t, tool_call_id |-> Str(e, <<"tool_call_id">>)], b)
    BY <1>2, TypedEvent
  <1> QED BY <1>1, <1>3, <1>4 DEF ExecutionShown

\* The agent_end shows how the run ended, and no usage.
LEMMA ReadsAgentEnd ==
  ASSUME NEW b
  PROVE  AgentFrame(AgentEndFrame, b)
           = Only(AgentEndShown(StopReason, Last(finals).error_message, setup.api), b)
  <1>1. PICK t, p : t = "agent_end" /\ p = "p" OBVIOUS
  <1>2. PICK sr, em, api : sr = StopReason /\ em = Last(finals).error_message /\ api = setup.api
    OBVIOUS
  <1>3. PICK d : d = [type |-> t, stop_reason |-> sr, provider_id |-> p, api |-> api] OBVIOUS
  <1>4. PICK e : e = d ++ ErrorField(em) OBVIOUS
  <1>5. AgentEndFrame = AgentEventFrame(e) BY <1>1, <1>2, <1>3, <1>4 DEF AgentEndFrame
  <1>6. DOMAIN d = {"type", "stop_reason", "provider_id", "api"}
        /\ d.type = t /\ d.stop_reason = sr /\ d.provider_id = p /\ d.api = api
    BY <1>3
  <1>7. /\ \A k : k \in DOMAIN e <=> k \in DOMAIN d \/ (k = "error_message" /\ em # Absent)
        /\ \A k \in DOMAIN d : e[k] = d[k]
        /\ em # Absent => e.error_message = em
    <2>1. "error_message" \notin DOMAIN d BY <1>6
    <2> QED BY <1>4, <2>1, ErrorFieldHas
  <1>8. "type" \in DOMAIN e /\ e.type = t BY <1>6, <1>7
  <1>9. AgentFrame(AgentEventFrame(e), b) = Only(AgentEnd(e), b) BY <1>1, <1>8, TypedEvent
  <1>10. UsageOf(Inner(e, "usage")) = NoUsage
    <2>1. Inner(e, "usage") = e BY <1>6, <1>7 DEF Inner
    <2>2. "input" \notin DOMAIN e /\ "input_tokens" \notin DOMAIN e BY <1>6, <1>7
    <2>3. UsageOf(e) = NoUsage BY <2>2 DEF UsageOf
    <2> QED BY <2>1, <2>3
  <1>11. Str(e, <<"stop_reason", "reason">>) = sr BY <1>6, <1>7, StrIs, FirstOfTwo
  <1>12. Str(e, <<"error_message">>) = em BY <1>6, <1>7, StrIs, FirstOfOne
  <1>13. Str(e, <<"provider_id", "provider">>) = p BY <1>6, <1>7, StrIs, FirstOfTwo
  <1>14. Str(e, <<"api">>) = api BY <1>6, <1>7, StrIs, FirstOfOne
  <1>15. AgentEnd(e) = AgentEndShown(sr, em, api)
    BY <1>1, <1>10, <1>11, <1>12, <1>13, <1>14 DEF AgentEnd, AgentEndShown
  <1> QED BY <1>2, <1>5, <1>9, <1>15

\* The failure of a run, as the runtime and as the compact server say it.
Failure == IF Compact
             THEN [message |-> "failed", code |-> "auth_required", provider_id |-> "p"]
             ELSE [message |-> "failed", code |-> "internal_error"]

FailureCode == IF Compact THEN "auth_required" ELSE "internal_error"

FailureProvider == IF Compact THEN "p" ELSE Absent

\* The fields of a failure.
LEMMA FailureHas ==
  /\ "type" \notin DOMAIN Failure
  /\ \A k : k \in DOMAIN Failure <=> k \in {"message", "code"} \/ (Compact /\ k = "provider_id")
  /\ Failure.message = "failed" /\ Failure.code = FailureCode
  /\ Compact => Failure.provider_id = FailureProvider
  <1>1. CASE Compact BY <1>1 DEF Failure, FailureCode, FailureProvider
  <1>2. CASE ~Compact BY <1>2 DEF Failure, FailureCode, FailureProvider
  <1> QED BY <1>1, <1>2

\* The error event shows the code and the provider of the failure.
LEMMA ReadsFailureEvent ==
  ASSUME NEW b
  PROVE  AgentFrame(AgentEventFrame([type |-> "error"] ++ Failure), b)
           = Only(ErrorShown(FailureCode, FailureProvider), b)
  <1>1. PICK t, d : t = "error" /\ d = [type |-> t] OBVIOUS
  <1>2. PICK e : e = d ++ Failure OBVIOUS
  <1>3. PICK c, p, m : c = FailureCode /\ p = FailureProvider /\ m = "failed" OBVIOUS
  <1>4. /\ \A k : k \in DOMAIN e <=>
                    k \in {"type", "message", "code"} \/ (Compact /\ k = "provider_id")
        /\ e.type = t /\ e.message = m /\ e.code = c /\ (Compact => e.provider_id = p)
    <2>1. DOMAIN d = {"type"} /\ d.type = t BY <1>1
    <2>2. PICK f : f = Failure OBVIOUS
    <2>3. /\ \A k : k \in DOMAIN f <=> k \in {"message", "code"} \/ (Compact /\ k = "provider_id")
          /\ f.message = m /\ f.code = c /\ (Compact => f.provider_id = p)
      BY <1>3, <2>2, FailureHas
    <2>4. e = d ++ f BY <1>2, <2>2
    <2>5. \A k : k \in DOMAIN e <=> k \in DOMAIN d \/ k \in DOMAIN f BY <2>4 DEF ++
    <2>6. e.type = t BY <2>1, <2>4 DEF ++
    <2>7. \A k \in DOMAIN f : e[k] = f[k]
      <3>1. "type" \notin DOMAIN f BY <2>3
      <3> QED BY <2>1, <2>4, <3>1 DEF ++
    <2> QED BY <2>1, <2>3, <2>5, <2>6, <2>7
  <1>5. AgentFrame(AgentEventFrame(e), b) = Only(ParseError(e), b) BY <1>1, <1>4, TypedEvent
  <1>6. Str(e, <<"message", "error_message", "reason">>) = m BY <1>4, StrIs, FirstOfThree
  <1>7. Str(e, <<"code", "error_code">>) = c BY <1>4, StrIs, FirstOfTwo
  <1>8. Str(e, <<"provider_id">>) = p
    <2>1. ~Compact => p = Absent BY <1>3 DEF FailureProvider
    <2> QED BY <1>4, <2>1, StrIs, FirstOfOne
  <1>9. Either(m, "stream error") = m BY <1>3 DEF Either
  <1>10. ParseError(e) = ErrorShown(c, p)
    BY <1>3, <1>6, <1>7, <1>8, <1>9 DEF ParseError, ErrorShown
  <1> QED BY <1>1, <1>2, <1>3, <1>5, <1>10

\* The agent_error raises the same code and provider.
LEMMA ReadsFailure ==
  ErrorFrameError([type |-> "agent_error", payload |-> Failure])
    = Raised(FailureCode, FailureProvider)
  <1>1. PICK e : e = Failure OBVIOUS
  <1>2. PICK c, p : c = FailureCode /\ p = FailureProvider OBVIOUS
  <1>3. PICK f : f = [type |-> "agent_error", payload |-> e] OBVIOUS
  <1>4. Inner(f, "payload") = e BY <1>3 DEF Inner
  <1>5. /\ \A k : k \in DOMAIN e <=> k \in {"message", "code"} \/ (Compact /\ k = "provider_id")
        /\ e.code = c /\ (Compact => e.provider_id = p)
    BY <1>1, <1>2, FailureHas
  <1>6. Str(e, <<"code", "error_code">>) = c BY <1>5, StrIs, FirstOfTwo
  <1>7. Str(e, <<"provider_id">>) = p
    <2>1. ~Compact => p = Absent BY <1>2 DEF FailureProvider
    <2> QED BY <1>5, <2>1, StrIs, FirstOfOne
  <1> QED BY <1>1, <1>2, <1>3, <1>4, <1>6, <1>7 DEF ErrorFrameError

\* The response a client makes of the result of a run.
ResponseShown(content, usage, stop_reason, error_message, api) ==
  [content |-> ParseContent(content), usage |-> usage, provider_id |-> "p", api |-> api,
   model_id |-> "m", stop_reason |-> stop_reason, error_message |-> error_message]

\* The response of an agent_result is made of the run's last message.
LEMMA ReadsRunResult ==
  ASSUME IsUsage(Last(finals).usage)
  PROVE  RunResponseOf(JsonField(ResultFrame, "result_json"))
           = ResponseShown(Last(finals).content, Counted(Last(finals).usage), StopReason,
                           Last(finals).error_message, setup.api)
  <1>1. PICK c, u, sr, em, api :
          /\ c = Last(finals).content /\ u = Last(finals).usage /\ sr = StopReason
          /\ em = Last(finals).error_message /\ api = setup.api
    OBVIOUS
  <1>2. PICK p, m : p = "p" /\ m = "m" OBVIOUS
  <1>3. PICK uf : uf = UsageFields(u) OBVIOUS
  <1>4. PICK d : d = [stop_reason |-> sr] OBVIOUS
  <1>5. PICK meta : meta = Metadata OBVIOUS
  <1>6. PICK dm : dm = d ++ meta OBVIOUS
  <1>7. PICK fields : fields = dm ++ ErrorField(em) OBVIOUS
  <1>8. UsageOf(uf) = Counted(u) BY <1>1, <1>3, UsageRead
  <1>9. PICK pk, mk : /\ Compact => pk = "provider_id" /\ mk = "model_id"
                      /\ ~Compact => pk = "provider" /\ mk = "model"
    OBVIOUS
  <1>10. /\ \A k : k \in DOMAIN meta <=> k \in {pk, mk, "api"}
         /\ meta[pk] = p /\ meta[mk] = m /\ meta.api = api
    <2>1. CASE Compact
      <3>1. meta = [provider_id |-> p, model_id |-> m, api |-> api]
        BY <1>1, <1>2, <1>5, <2>1 DEF Metadata
      <3> QED BY <1>9, <2>1, <3>1
    <2>2. CASE ~Compact
      <3>1. meta = [provider |-> p, model |-> m, api |-> api]
        BY <1>1, <1>2, <1>5, <2>2 DEF Metadata
      <3> QED BY <1>9, <2>2, <3>1
    <2> QED BY <2>1, <2>2
  <1>11. pk \in {"provider_id", "provider"} /\ mk \in {"model_id", "model"} BY <1>9
  <1>12. /\ \A k : k \in DOMAIN dm <=> k \in {"stop_reason", pk, mk, "api"}
         /\ dm.stop_reason = sr /\ dm[pk] = p /\ dm[mk] = m /\ dm.api = api
    <2>1. DOMAIN d = {"stop_reason"} /\ d.stop_reason = sr BY <1>4
    <2>2. \A k : k \in DOMAIN dm <=> k \in DOMAIN d \/ k \in DOMAIN meta BY <1>6 DEF ++
    <2>3. \A k \in DOMAIN d : dm[k] = d[k] BY <1>6 DEF ++
    <2>4. \A k \in DOMAIN meta : k \notin DOMAIN d => dm[k] = meta[k] BY <1>6 DEF ++
    <2> QED BY <1>10, <1>11, <2>1, <2>2, <2>3, <2>4
  <1>13. /\ \A k : k \in DOMAIN fields <=>
                     k \in {"stop_reason", pk, mk, "api"} \/ (k = "error_message" /\ em # Absent)
         /\ fields.stop_reason = sr /\ fields[pk] = p /\ fields[mk] = m /\ fields.api = api
         /\ em # Absent => fields.error_message = em
    <2>1. "error_message" \notin DOMAIN dm BY <1>11, <1>12
    <2>2. /\ \A k : k \in DOMAIN fields <=> k \in DOMAIN dm \/ (k = "error_message" /\ em # Absent)
          /\ \A k \in DOMAIN dm : fields[k] = dm[k]
          /\ em # Absent => fields.error_message = em
      BY <1>7, <2>1, ErrorFieldHas
    <2> QED BY <1>12, <2>2
  \* What does not depend on where the message is.
  <1>14. ASSUME NEW raw,
                \A k \in DOMAIN fields : k \in DOMAIN raw /\ raw[k] = fields[k],
                "error_message" \in DOMAIN raw <=> em # Absent,
                \A k \in {"provider_id", "provider", "model_id", "model"} :
                   k \in DOMAIN raw => k \in {pk, mk}
         PROVE  /\ Str(raw, <<"provider_id", "provider">>) = p
                /\ Str(raw, <<"api">>) = api
                /\ Str(raw, <<"model_id", "model">>) = m
                /\ \A x : First(raw, <<"stop_reason">>, x) = sr
                /\ Str(raw, <<"stop_reason", "reason">>) = sr
                /\ First(raw, <<"error_message">>, Str(raw, <<"error_message">>)) = em
                /\ Str(raw, <<"error_message">>) = em
    <2>1. raw[pk] = p /\ raw[mk] = m /\ raw.api = api /\ raw.stop_reason = sr
          /\ {pk, mk, "api", "stop_reason"} \subseteq DOMAIN raw
      BY <1>13, <1>14
    <2>2. em # Absent => raw.error_message = em BY <1>13, <1>14
    <2>3. Str(raw, <<"provider_id", "provider">>) = p
      BY <1>9, <1>14, <2>1, StrIs, FirstOfTwo
    <2>4. Str(raw, <<"api">>) = api BY <2>1, StrIs, FirstOfOne
    <2>5. Str(raw, <<"model_id", "model">>) = m BY <1>9, <1>14, <2>1, StrIs, FirstOfTwo
    <2>6. \A x : First(raw, <<"stop_reason">>, x) = sr BY <2>1, FirstOfOne
    <2>7. Str(raw, <<"stop_reason", "reason">>) = sr BY <2>1, StrIs, FirstOfTwo
    <2>8. Str(raw, <<"error_message">>) = em BY <1>14, <2>2, StrIs, FirstOfOne
    <2>9. First(raw, <<"error_message">>, em) = em BY <1>14, <2>2, FirstOfOne
    <2> QED BY <2>3, <2>4, <2>5, <2>6, <2>7, <2>8, <2>9
  <1>15. CASE Compact
    <2>1. PICK msg : msg = [role |-> "assistant", content |-> c] OBVIOUS
    <2>2. PICK h : h = [message |-> msg, usage |-> uf] OBVIOUS
    <2>3. PICK raw : raw = h ++ fields OBVIOUS
    <2>4. PICK f : f = [type |-> "agent_result", payload |-> [result_json |-> raw]] OBVIOUS
    <2>5. ResultFrame = f
      BY <1>1, <1>3, <1>4, <1>5, <1>6, <1>7, <1>15, <2>1, <2>2, <2>3, <2>4 DEF ResultFrame
    <2>6. JsonField(f, "result_json") = raw
      <3>1. PICK q : q = [result_json |-> raw] OBVIOUS
      <3>2. Inner(f, "payload") = q BY <2>4, <3>1 DEF Inner
      <3>3. \A x : First(q, <<"result_json", "event_json", "result_json">>, x) = raw
        BY <3>1, FirstOfThree
      <3> QED BY <3>2, <3>3 DEF JsonField
    <2>7. DOMAIN h = {"message", "usage"} /\ h.message = msg /\ h.usage = uf BY <2>2
    <2>8. \A k : k \in DOMAIN raw <=> k \in DOMAIN h \/ k \in DOMAIN fields BY <2>3 DEF ++
    <2>9. \A k \in DOMAIN h : raw[k] = h[k] BY <2>3 DEF ++
    <2>10. \A k \in DOMAIN fields : k \notin DOMAIN h => raw[k] = fields[k] BY <2>3 DEF ++
    <2>11. \A k \in DOMAIN fields : k \in DOMAIN raw /\ raw[k] = fields[k]
      BY <1>11, <1>13, <2>7, <2>8, <2>10
    <2>12. "error_message" \in DOMAIN raw <=> em # Absent BY <1>11, <1>13, <2>7, <2>8
    <2>13. \A k \in {"provider_id", "provider", "model_id", "model"} :
             k \in DOMAIN raw => k \in {pk, mk}
      BY <1>13, <2>7, <2>8
    <2>14. Inner(raw, "message") = msg BY <2>7, <2>8, <2>9 DEF Inner
    <2>15. Inner(raw, "usage") = uf BY <2>7, <2>8, <2>9 DEF Inner
    <2>16. RunResponseOf(raw) = ResponseOf(msg, raw)
      BY <2>7, <2>8, <2>14 DEF RunResponseOf, CompletionOf
    <2>17. DOMAIN msg = {"role", "content"} /\ msg.content = c BY <2>1
    <2>18. /\ \A x : First(msg, <<"content">>, x) = c
           /\ \A x : First(msg, <<"usage">>, x) = x
      BY <2>17, FirstOfOne
    <2>19. \A x : First(msg, <<"provider_id", "provider">>, x) = x BY <2>17, FirstOfTwo
    <2>20. \A x : First(msg, <<"model_id", "model">>, x) = x BY <2>17, FirstOfTwo
    <2>21. \A x : First(msg, <<"api">>, x) = x BY <2>17, FirstOfOne
    <2>22. \A x : First(msg, <<"stop_reason">>, x) = x BY <2>17, FirstOfOne
    <2>23. \A x : First(msg, <<"error_message">>, x) = x BY <2>17, FirstOfOne
    <2>24. /\ Str(raw, <<"provider_id", "provider">>) = p
           /\ Str(raw, <<"api">>) = api
           /\ Str(raw, <<"model_id", "model">>) = m
           /\ Str(raw, <<"stop_reason", "reason">>) = sr
           /\ Str(raw, <<"error_message">>) = em
      BY <1>14, <2>11, <2>12, <2>13
    <2>25. ResponseOf(msg, raw) = ResponseShown(c, Counted(u), sr, em, api)
      BY <1>2, <1>8, <2>15, <2>18, <2>19, <2>20, <2>21, <2>22, <2>23, <2>24
         DEF ResponseOf, ResponseShown
    <2> QED BY <1>1, <2>5, <2>6, <2>16, <2>25
  <1>16. CASE ~Compact
    <2>1. PICK h : h = [content |-> c] OBVIOUS
    <2>2. PICK hu : hu = h ++ uf OBVIOUS
    <2>3. PICK raw : raw = hu ++ fields OBVIOUS
    <2>4. PICK f : f = [type |-> "agent_result", payload |-> [result_json |-> raw]] OBVIOUS
    <2>5. ResultFrame = f
      BY <1>1, <1>3, <1>4, <1>5, <1>6, <1>7, <1>16, <2>1, <2>2, <2>3, <2>4 DEF ResultFrame
    <2>6. JsonField(f, "result_json") = raw
      <3>1. PICK q : q = [result_json |-> raw] OBVIOUS
      <3>2. Inner(f, "payload") = q BY <2>4, <3>1 DEF Inner
      <3>3. \A x : First(q, <<"result_json", "event_json", "result_json">>, x) = raw
        BY <3>1, FirstOfThree
      <3> QED BY <3>2, <3>3 DEF JsonField
    <2>7. DOMAIN h = {"content"} /\ h.content = c BY <2>1
    <2>8. uf = Counted(u) /\ DOMAIN uf = {"input", "output", "cache_read"}
      BY <1>1, <1>3, <1>16, CountedHas DEF UsageFields
    <2>9. /\ \A k : k \in DOMAIN hu <=> k \in {"content", "input", "output", "cache_read"}
          /\ hu.content = c /\ \A k \in DOMAIN uf : hu[k] = uf[k]
      <3>1. \A k : k \in DOMAIN hu <=> k \in DOMAIN h \/ k \in DOMAIN uf BY <2>2 DEF ++
      <3>2. \A k \in DOMAIN h : hu[k] = h[k] BY <2>2 DEF ++
      <3>3. \A k \in DOMAIN uf : k \notin DOMAIN h => hu[k] = uf[k] BY <2>2 DEF ++
      <3> QED BY <2>7, <2>8, <3>1, <3>2, <3>3
    <2>10. /\ \A k : k \in DOMAIN raw <=> k \in DOMAIN hu \/ k \in DOMAIN fields
           /\ \A k \in DOMAIN hu : raw[k] = hu[k]
      BY <2>3 DEF ++
    <2>11. \A k \in DOMAIN fields : k \notin DOMAIN hu => raw[k] = fields[k] BY <2>3 DEF ++
    <2>12. \A k \in DOMAIN fields : k \in DOMAIN raw /\ raw[k] = fields[k]
      BY <1>11, <1>13, <2>9, <2>10, <2>11
    <2>13. "error_message" \in DOMAIN raw <=> em # Absent BY <1>11, <1>13, <2>9, <2>10
    <2>14. \A k \in {"provider_id", "provider", "model_id", "model"} :
             k \in DOMAIN raw => k \in {pk, mk}
      BY <1>13, <2>9, <2>10
    <2>15. {"message", "messages", "result", "usage"} \cap DOMAIN raw = {}
      BY <1>11, <1>13, <2>9, <2>10
    <2>16. RunResponseOf(raw) = ResponseOf(raw, raw)
      <3>1. Inner(raw, "result") = raw BY <2>15 DEF Inner
      <3>2. First(raw, <<"messages">>, <<>>) = <<>> BY <2>15, FirstOfOne
      <3>3. PICK messages : messages = First(raw, <<"messages">>, <<>>) OBVIOUS
      <3>4. {i \in DOMAIN messages : messages[i].role = "assistant"} = {} BY <3>2, <3>3
      <3> QED BY <2>15, <3>1, <3>3, <3>4 DEF RunResponseOf
    <2>17. UsageOf(raw) = Counted(u)
      <3>1. {"input", "output", "cache_read"} \subseteq DOMAIN raw BY <2>9, <2>10
      <3>2. \A k \in {"input", "output", "cache_read"} : raw[k] = uf[k] BY <2>8, <2>9, <2>10
      <3>3. UsageOf(raw) = [k \in {"input", "output", "cache_read"} \cap DOMAIN raw |-> raw[k]]
        BY <3>1 DEF UsageOf
      <3>4. {"input", "output", "cache_read"} \cap DOMAIN raw = {"input", "output", "cache_read"}
        BY <3>1
      <3>5. uf = [k \in DOMAIN uf |-> uf[k]]
        <4>1. IsUsage(uf) BY <1>1, <2>8, CountedHas
        <4> QED BY <4>1 DEF IsUsage
      <3> QED BY <2>8, <3>2, <3>3, <3>4, <3>5
    <2>18. Inner(raw, "usage") = raw BY <2>15 DEF Inner
    <2>19. \A x : First(raw, <<"content">>, x) = c BY <2>9, <2>10, FirstOfOne
    <2>20. \A x : First(raw, <<"usage">>, x) = x BY <2>15, FirstOfOne
    <2>21. /\ Str(raw, <<"provider_id", "provider">>) = p
           /\ Str(raw, <<"api">>) = api
           /\ Str(raw, <<"model_id", "model">>) = m
           /\ \A x : First(raw, <<"stop_reason">>, x) = sr
           /\ First(raw, <<"error_message">>, Str(raw, <<"error_message">>)) = em
      BY <1>14, <2>12, <2>13, <2>14
    <2>22. raw[pk] = p /\ raw[mk] = m /\ raw.api = api /\ {pk, mk, "api"} \subseteq DOMAIN raw
      BY <1>13, <2>12
    <2>23. \A x : First(raw, <<"provider_id", "provider">>, x) = p
      BY <1>9, <2>14, <2>22, FirstOfTwo
    <2>24. \A x : First(raw, <<"model_id", "model">>, x) = m BY <1>9, <2>14, <2>22, FirstOfTwo
    <2>25. \A x : First(raw, <<"api">>, x) = api BY <2>22, FirstOfOne
    <2>26. ResponseOf(raw, raw) = ResponseShown(c, Counted(u), sr, em, api)
      BY <1>2, <2>17, <2>18, <2>19, <2>20, <2>21, <2>23, <2>24, <2>25
         DEF ResponseOf, ResponseShown
    <2> QED BY <1>1, <2>5, <2>6, <2>16, <2>26
  <1> QED BY <1>15, <1>16, Zenon

(***************************************************************************)
(* What events and parts of messages say, and of which types they are.     *)
(***************************************************************************)

\* What an event or a part of a message says, typed.
Pieces == Nat \X Nat

Fragments == Seq(Pieces)

\* The tool calls of a run: what they are of, and the ids that they may have.
Tools == "lookup"

Ids == ToSet(CallIds)

\* What a message of the loop, or of a response, holds.
TextParts == [type : {"text"}, text : Fragments]

ThinkingParts == [type : {"thinking"}, thinking : Fragments]

LoopCalls == [type : {"tool_call"}, id : Ids, name : {Tools}, arguments_json : Fragments]

ReadCalls ==
  [type : {"tool_call"}, tool_call_id : Ids, name : {Tools}, arguments_json : Fragments]

LoopParts == TextParts \cup ThinkingParts \cup LoopCalls

Parts == LoopParts \cup ReadCalls

\* What is said: a piece of text or of thinking, or a call.
Words ==
  [type : {"text", "thinking", "tool_call"}, of : Pieces \cup (Ids \X {Tools} \X Fragments)]

\* An event whose fields are of their types.
EventOK(e) ==
  /\ e.type \in EventTypes
  /\ e.type \in {"text_delta", "thinking_delta"} => e.delta \in Fragments
  /\ e.type = "tool_call" => e \in ReadCalls

\* What a fragment says, piece by piece.
LEMMA SayIn ==
  ASSUME NEW t \in {"text", "thinking"}, NEW f \in Fragments
  PROVE  /\ Say(t, f) \in Seq(Words) /\ Len(Say(t, f)) = Len(f)
         /\ \A i \in 1..Len(f) : Say(t, f)[i] = [type |-> t, of |-> f[i]]
  <1>1. DOMAIN f = 1..Len(f) /\ Len(f) \in Nat BY DEF Fragments
  <1>2. Say(t, f) = [i \in 1..Len(f) |-> [type |-> t, of |-> f[i]]] BY <1>1 DEF Say
  <1>3. \A i \in 1..Len(f) : [type |-> t, of |-> f[i]] \in Words
    <2> TAKE i \in 1..Len(f)
    <2>1. f[i] \in Pieces BY DEF Fragments
    <2> QED BY <2>1 DEF Words
  <1>4. Say(t, f) \in Seq(Words) /\ Len(Say(t, f)) = Len(f) BY <1>1, <1>2, <1>3
  <1> QED BY <1>2, <1>4

\* Joined fragments say what each says, in that order.
LEMMA SayJoin ==
  ASSUME NEW t \in {"text", "thinking"}, NEW f \in Fragments, NEW g \in Fragments
  PROVE  f \o g \in Fragments /\ Say(t, f \o g) = Say(t, f) \o Say(t, g)
  <1>1. f \o g \in Fragments BY DEF Fragments
  <1>2. IsSeq(f) /\ IsSeq(g) BY SeqIn DEF Fragments
  <1>3. PICK a, b, c : a = Say(t, f) /\ b = Say(t, g) /\ c = Say(t, f \o g) OBVIOUS
  <1>4. /\ IsSeq(a) /\ Len(a) = Len(f) /\ \A i \in 1..Len(f) : a[i] = [type |-> t, of |-> f[i]]
    BY <1>3, SayIn, SeqIn
  <1>5. /\ IsSeq(b) /\ Len(b) = Len(g) /\ \A i \in 1..Len(g) : b[i] = [type |-> t, of |-> g[i]]
    BY <1>3, SayIn, SeqIn
  <1>6. PICK h : h = f \o g OBVIOUS
  <1>7. /\ IsSeq(c) /\ Len(c) = Len(h) /\ \A i \in 1..Len(h) : c[i] = [type |-> t, of |-> h[i]]
    BY <1>1, <1>3, <1>6, SayIn, SeqIn
  <1>8. /\ Len(h) = Len(f) + Len(g) /\ Len(f) \in Nat /\ Len(g) \in Nat
        /\ \A i \in 1..Len(f) : h[i] = f[i]
        /\ \A i \in 1..Len(g) : h[Len(f) + i] = g[i]
    BY <1>2, <1>6, SeqJoin, SeqHas
  <1>9. PICK d : d = a \o b OBVIOUS
  <1>10. IsSeq(a) /\ IsSeq(b) BY <1>4, <1>5
  <1>11. IsSeq(d) /\ Len(d) = Len(a) + Len(b) BY <1>9, <1>10, SeqJoin
  <1>12. \A i \in 1..Len(a) : d[i] = a[i] BY <1>9, <1>10, SeqJoin
  <1>13. \A i \in 1..Len(b) : d[Len(a) + i] = b[i] BY <1>9, <1>10, SeqJoin
  <1>14. ASSUME NEW i \in 1..Len(h) PROVE c[i] = d[i]
    <2>1. c[i] = [type |-> t, of |-> h[i]] BY <1>7
    <2>2. CASE i <= Len(f)
      <3>1. i \in 1..Len(f) BY <1>8, <2>2
      <3>2. h[i] = f[i] /\ d[i] = a[i] BY <1>4, <1>8, <1>12, <3>1
      <3> QED BY <1>4, <2>1, <3>1, <3>2
    <2>3. CASE ~(i <= Len(f))
      <3>1. PICK j : j = i - Len(f) OBVIOUS
      <3>2. j \in 1..Len(g) /\ i = Len(f) + j BY <1>8, <2>3, <3>1
      <3>3. h[i] = g[j] /\ d[i] = b[j] BY <1>4, <1>5, <1>8, <1>13, <3>2
      <3> QED BY <1>5, <2>1, <3>2, <3>3
    <2> QED BY <2>2, <2>3
  <1>15. IsSeq(c) /\ Len(c) = Len(h) BY <1>7
  <1>16. Len(d) = Len(h) BY <1>4, <1>5, <1>8, <1>11
  <1>17. c = d BY <1>11, <1>14, <1>15, <1>16, SeqSame
  <1> QED BY <1>1, <1>3, <1>9, <1>17

\* A call says one word.
LEMMA CallIn ==
  ASSUME NEW id \in Ids, NEW call, call.name = Tools, call.arguments_json \in Fragments
  PROVE  SaysCall(id, call) \in Seq(Words)
  <1>1. PICK n, a : n = call.name /\ a = call.arguments_json OBVIOUS
  <1>2. PICK o : o = <<id, n, a>> OBVIOUS
  <1>3. o \in Ids \X {Tools} \X Fragments BY <1>1, <1>2
  <1>4. PICK w : w = [type |-> "tool_call", of |-> o] OBVIOUS
  <1>5. w \in Words BY <1>3, <1>4 DEF Words
  <1>6. SaysCall(id, call) = <<w>> BY <1>1, <1>2, <1>4 DEF SaysCall
  <1> QED BY <1>5, <1>6

\* What an event says, by its type.
LEMMA EventSaysIn ==
  ASSUME NEW e, EventOK(e)
  PROVE  /\ EventSays(e) \in Seq(Words)
         /\ e.type = "text_delta" => EventSays(e) = Say("text", e.delta)
         /\ e.type = "thinking_delta" => EventSays(e) = Say("thinking", e.delta)
         /\ e.type = "tool_call" => EventSays(e) = SaysCall(e.tool_call_id, e)
         /\ e.type \notin {"text_delta", "thinking_delta", "tool_call"} => EventSays(e) = <<>>
  <1>1. CASE e.type = "text_delta" BY <1>1, SayIn DEF EventSays, EventOK
  <1>2. CASE e.type = "thinking_delta" BY <1>2, SayIn DEF EventSays, EventOK
  <1>3. CASE e.type = "tool_call"
    <2>1. e.tool_call_id \in Ids /\ e.name = Tools /\ e.arguments_json \in Fragments
      BY <1>3 DEF EventOK, ReadCalls
    <2> QED BY <1>3, <2>1, CallIn DEF EventSays
  <1>4. CASE e.type \notin {"text_delta", "thinking_delta", "tool_call"}
    <2>1. EventSays(e) = <<>> BY <1>4 DEF EventSays
    <2>2. <<>> \in Seq(Words) OBVIOUS
    <2> QED BY <1>4, <2>1, <2>2
  <1> QED BY <1>1, <1>2, <1>3, <1>4

\* What a part says, by its kind.
LEMMA PartSaysIn ==
  ASSUME NEW p \in Parts
  PROVE  /\ PartSays(p) \in Seq(Words)
         /\ p \in TextParts => PartSays(p) = Say("text", p.text)
         /\ p \in ThinkingParts => PartSays(p) = Say("thinking", p.thinking)
         /\ p \in LoopCalls => PartSays(p) = SaysCall(p.id, p)
         /\ p \in ReadCalls => PartSays(p) = SaysCall(p.tool_call_id, p)
  <1>1. CASE p \in TextParts
    <2>1. p.type = "text" /\ p.text \in Fragments BY <1>1 DEF TextParts
    <2>2. p \notin LoopCalls /\ p \notin ReadCalls /\ p \notin ThinkingParts
      BY <2>1 DEF LoopCalls, ReadCalls, ThinkingParts
    <2>3. PartSays(p) = Say("text", p.text) BY <2>1 DEF PartSays
    <2> QED BY <2>1, <2>2, <2>3, SayIn
  <1>2. CASE p \in ThinkingParts
    <2>1. p.type = "thinking" /\ p.thinking \in Fragments BY <1>2 DEF ThinkingParts
    <2>2. p \notin LoopCalls /\ p \notin ReadCalls /\ p \notin TextParts
      BY <2>1 DEF LoopCalls, ReadCalls, TextParts
    <2>3. PartSays(p) = Say("thinking", p.thinking) BY <2>1 DEF PartSays
    <2> QED BY <2>1, <2>2, <2>3, SayIn
  <1>3. CASE p \in LoopCalls
    <2>1. p.type = "tool_call" /\ p.name = Tools /\ p.arguments_json \in Fragments
          /\ p.id \in Ids
      BY <1>3 DEF LoopCalls
    <2>2. DOMAIN p = {"type", "id", "name", "arguments_json"} BY <1>3 DEF LoopCalls
    <2>3. p \notin ReadCalls /\ p \notin TextParts /\ p \notin ThinkingParts
      <3>1. p \in ReadCalls => "tool_call_id" \in DOMAIN p BY DEF ReadCalls
      <3> QED BY <2>1, <2>2, <3>1 DEF TextParts, ThinkingParts
    <2>4. \A x : First(p, <<"tool_call_id", "id">>, x) = p.id BY <2>2, FirstOfTwo
    <2>5. PartSays(p) = SaysCall(p.id, p)
      <3>1. PartSays(p) = SaysCall(First(p, <<"tool_call_id", "id">>, ""), p)
        BY <2>1 DEF PartSays
      <3> QED BY <2>4, <3>1, Zenon
    <2> QED BY <2>1, <2>3, <2>5, CallIn
  <1>4. CASE p \in ReadCalls
    <2>1. p.type = "tool_call" /\ p.name = Tools /\ p.arguments_json \in Fragments
          /\ p.tool_call_id \in Ids
      BY <1>4 DEF ReadCalls
    <2>2. DOMAIN p = {"type", "tool_call_id", "name", "arguments_json"} BY <1>4 DEF ReadCalls
    <2>3. p \notin LoopCalls /\ p \notin TextParts /\ p \notin ThinkingParts
      <3>1. p \in LoopCalls => "id" \in DOMAIN p BY DEF LoopCalls
      <3> QED BY <2>1, <2>2, <3>1 DEF TextParts, ThinkingParts
    <2>4. \A x : First(p, <<"tool_call_id", "id">>, x) = p.tool_call_id BY <2>2, FirstOfTwo
    <2>5. PartSays(p) = SaysCall(p.tool_call_id, p)
      <3>1. PartSays(p) = SaysCall(First(p, <<"tool_call_id", "id">>, ""), p)
        BY <2>1 DEF PartSays
      <3> QED BY <2>4, <3>1, Zenon
    <2> QED BY <2>1, <2>3, <2>5, CallIn
  <1> QED BY <1>1, <1>2, <1>3, <1>4 DEF Parts, LoopParts

(***************************************************************************)
(* The client as one value, and what a frame makes of it: ClientNext is    *)
(* After of the first frame on the wire.                                   *)
(***************************************************************************)

\* What the client has at a moment: what _session buffers, the locals, and the result.
Reader(b, started, sum, executed, events, result) ==
  [buffers |-> b, started |-> started, sum |-> sum, executed |-> executed, events |-> events,
   out |-> result]

\* The client as it is.
Client == Reader(buffers, seen.started, seen.sum, seen.executed, seen.events, out)

\* The agent_start with which a stream leads an event that comes before the run's own.
OwnStart == [type |-> "agent_start", session_id |-> "own"]

Led(x, type) == IF x.started \/ type = "agent_start" THEN <<>> ELSE <<OwnStart>>

\* The sum of a stream with what e counts.
SumWith(x, e) ==
  IF e.type # "message_end" \/ e.usage = NoUsage THEN x.sum
  ELSE IF x.sum = NoUsage THEN e.usage ELSE AddUsage(x.sum, e.usage)

\* What becomes of x when the run gives it an event, and when a stream does.
RunGets(e, b, x) ==
  LET executed == x.executed \/ e.type \in {"tool_execution_start", "tool_execution_end"}
      events == Append(x.events, e)
  IN  Reader(b, x.started, x.sum, executed, events,
             CASE e.type = "agent_end" -> Checked(BuildResponse(events), executed)
               [] e.type = "error" -> Raised(e.code, e.provider_id)
               [] OTHER -> Pending)

StreamGetsEnd(end, b, x) ==
  LET final == [end EXCEPT !.usage = IF x.sum # NoUsage THEN x.sum ELSE @]
      login == AuthFailed(end)
  IN  Reader(b, TRUE, x.sum, x.executed,
             IF login THEN x.events \o Led(x, end.type)
             ELSE x.events \o Led(x, end.type) \o <<final>>,
             IF login THEN Raised("auth_required", Either(end.provider_id, Fallback))
             ELSE [kind |-> "ended"])

StreamGets(e, b, x) ==
  IF e.type = "agent_end" THEN StreamGetsEnd(e, b, x)
  ELSE Reader(b, TRUE, SumWith(x, e), x.executed,
              x.events \o Led(x, e.type)
                \o (IF e.type = "error" /\ e.code = "auth_required" THEN <<>> ELSE <<e>>),
              IF e.type # "error" THEN Pending
              ELSE IF e.code = "auth_required"
                THEN Raised(e.code, Either(e.provider_id, Fallback))
              ELSE [kind |-> "ended"])

Gets(op, e, b, x) == IF op = "run" THEN RunGets(e, b, x) ELSE StreamGets(e, b, x)

\* The agent_end that stream makes of a response.
EndOf(response) ==
  [type |-> "agent_end", usage |-> response.usage,
   stop_reason |-> response.stop_reason, error_message |-> response.error_message,
   provider_id |-> response.provider_id, api |-> response.api]

GetsResult(op, response, x) ==
  IF op = "run"
    THEN Reader(x.buffers, x.started, x.sum, x.executed, x.events, Checked(response, x.executed))
    ELSE StreamGetsEnd(EndOf(response), x.buffers, x)

GetsRead(op, read, x) ==
  IF read.events = <<>>
    THEN Reader(read.buffers, x.started, x.sum, x.executed, x.events, x.out)
    ELSE Gets(op, Head(read.events), read.buffers, x)

\* The client after one more frame.
After(op, f, x) ==
  IF x.out.kind # "none" THEN x
  ELSE IF f.type = "tool_execute"
    THEN Reader(x.buffers, x.started, x.sum, TRUE, x.events, x.out)
  ELSE IF f.type = "agent_result"
    THEN GetsResult(op, RunResponseOf(JsonField(f, "result_json")), x)
  ELSE IF f.type = "agent_error"
    THEN Reader(x.buffers, x.started, x.sum, x.executed, x.events, ErrorFrameError(f))
  ELSE GetsRead(op, AgentFrame(f, x.buffers), x)

\* seen is the record of its fields.
SeenOK == seen = [k \in {"started", "sum", "executed", "events"} |-> seen[k]]

\* The fields of a client.
LEMMA ReaderHas ==
  ASSUME NEW b, NEW st, NEW sm, NEW ex, NEW ev, NEW o, NEW x, x = Reader(b, st, sm, ex, ev, o)
  PROVE  /\ x.buffers = b /\ x.started = st /\ x.sum = sm /\ x.executed = ex /\ x.events = ev
         /\ x.out = o
  BY DEF Reader

\* The fields of Client.
LEMMA ClientHas ==
  /\ Client.buffers = buffers /\ Client.started = seen.started /\ Client.sum = seen.sum
  /\ Client.executed = seen.executed /\ Client.events = seen.events /\ Client.out = out
  BY DEF Client, Reader

\* RunEvent is RunGets.
LEMMA ClientRunEvent ==
  ASSUME NEW e, NEW b, SeenOK, buffers' = b, RunEvent(e)
  PROVE  Client' = RunGets(e, b, Client) /\ SeenOK'
  <1>1. PICK executed :
               executed = (seen.executed \/ e.type \in {"tool_execution_start", "tool_execution_end"})
    OBVIOUS
  <1>2. PICK events : events = Append(seen.events, e) OBVIOUS
  <1>3. seen' = [seen EXCEPT !.events = events, !.executed = executed]
    BY <1>1, <1>2 DEF RunEvent
  <1>4. /\ seen'.started = seen.started /\ seen'.sum = seen.sum /\ seen'.executed = executed
        /\ seen'.events = events /\ SeenOK'
    BY <1>3 DEF SeenOK
  <1>5. out' = CASE e.type = "agent_end" -> Checked(BuildResponse(events), executed)
                 [] e.type = "error" -> Raised(e.code, e.provider_id)
                 [] OTHER -> Pending
    BY <1>1, <1>2 DEF RunEvent
  <1>6. Client' = Reader(b, seen.started, seen.sum, executed, events, out')
    BY <1>4 DEF Client
  <1>7. RunGets(e, b, Client) = Reader(b, seen.started, seen.sum, executed, events, out')
    BY <1>1, <1>2, <1>5, ClientHas DEF RunGets
  <1> QED BY <1>4, <1>6, <1>7

\* StreamEnds is StreamGetsEnd.
LEMMA ClientStreamEnd ==
  ASSUME NEW e, NEW b, SeenOK, buffers' = b, StreamEnds(e, seen.sum)
  PROVE  Client' = StreamGetsEnd(e, b, Client) /\ SeenOK'
  <1>1. PICK led : led = Led(Client, e.type) OBVIOUS
  <1>2. Started(e) = led BY <1>1, ClientHas DEF Started, Led, OwnStart
  <1>3. PICK final : final = [e EXCEPT !.usage = IF seen.sum # NoUsage THEN seen.sum ELSE @] OBVIOUS
  <1>4. PICK events :
               events = IF AuthFailed(e) THEN seen.events \o led ELSE seen.events \o led \o <<final>>
    OBVIOUS
  <1>5. seen' = [seen EXCEPT !.started = TRUE, !.events = events]
    BY <1>2, <1>3, <1>4 DEF StreamEnds
  <1>6. /\ seen'.started = TRUE /\ seen'.sum = seen.sum /\ seen'.executed = seen.executed
        /\ seen'.events = events /\ SeenOK'
    BY <1>5 DEF SeenOK
  <1>7. out' = IF AuthFailed(e) THEN Raised("auth_required", Either(e.provider_id, Fallback))
               ELSE [kind |-> "ended"]
    BY DEF StreamEnds
  <1>8. Client' = Reader(b, TRUE, seen.sum, seen.executed, events, out') BY <1>6 DEF Client
  <1>9. StreamGetsEnd(e, b, Client) = Reader(b, TRUE, seen.sum, seen.executed, events, out')
    BY <1>1, <1>3, <1>4, <1>7, ClientHas DEF StreamGetsEnd
  <1> QED BY <1>6, <1>8, <1>9

\* StreamEvent is StreamGets.
LEMMA ClientStreamEvent ==
  ASSUME NEW e, NEW b, SeenOK, buffers' = b, StreamEvent(e)
  PROVE  Client' = StreamGets(e, b, Client) /\ SeenOK'
  <1>1. CASE e.type = "agent_end" BY <1>1, ClientStreamEnd DEF StreamEvent, StreamGets
  <1>2. CASE e.type # "agent_end"
    <2>1. PICK led : led = Led(Client, e.type) OBVIOUS
    <2>2. Started(e) = led BY <2>1, ClientHas DEF Started, Led, OwnStart
    <2>3. PICK tail : tail = IF e.type = "error" /\ e.code = "auth_required" THEN <<>> ELSE <<e>>
      OBVIOUS
    <2>4. PICK events : events = seen.events \o led \o tail OBVIOUS
    <2>5. PICK sum : sum = SumWith(Client, e) OBVIOUS
    <2>6. Summed(e) = sum BY <2>5, ClientHas DEF Summed, SumWith
    <2>7. seen' = [seen EXCEPT !.started = TRUE, !.sum = sum, !.events = events]
      BY <1>2, <2>2, <2>3, <2>4, <2>6 DEF StreamEvent
    <2>8. /\ seen'.started = TRUE /\ seen'.sum = sum /\ seen'.executed = seen.executed
          /\ seen'.events = events /\ SeenOK'
      BY <2>7 DEF SeenOK
    <2>9. out' = IF e.type # "error" THEN Pending
                 ELSE IF e.code = "auth_required"
                   THEN Raised(e.code, Either(e.provider_id, Fallback))
                 ELSE [kind |-> "ended"]
      BY <1>2 DEF StreamEvent
    <2>10. Client' = Reader(b, TRUE, sum, seen.executed, events, out') BY <2>8 DEF Client
    <2>11. StreamGets(e, b, Client) = Reader(b, TRUE, sum, seen.executed, events, out')
      BY <1>2, <2>1, <2>3, <2>4, <2>5, <2>9, ClientHas DEF StreamGets
    <2> QED BY <2>8, <2>10, <2>11
  <1> QED BY <1>1, <1>2

\* A step of the client is After of the first frame on the wire.
LEMMA ClientReads ==
  ASSUME SeenOK, ClientNext
  PROVE  /\ out.kind = "none" /\ wire # <<>> /\ wire' = Tail(wire)
         /\ UNCHANGED <<setup, loop, finals, catalogVars>>
         /\ Client' = After(setup.op, Head(wire), Client) /\ SeenOK'
         /\ \/ reply' = reply
            \/ Head(wire).type = "tool_execute"
  <1>1. PICK f : f = Head(wire) OBVIOUS
  <1>2. Reads BY DEF ClientNext, ReadsToolExecute, ReadsResult, ReadsError, ReadsEvent
  <1>3. /\ out.kind = "none" /\ wire # <<>> /\ wire' = Tail(wire)
        /\ UNCHANGED <<setup, loop, finals, catalogVars>>
    BY <1>2 DEF Reads, Running
  <1>4. CASE ReadsToolExecute
    <2>1. f.type = "tool_execute" /\ seen' = [seen EXCEPT !.executed = TRUE]
          /\ UNCHANGED <<buffers, out>>
      BY <1>1, <1>4 DEF ReadsToolExecute, Frame
    <2>2. SeenOK' /\ seen'.started = seen.started /\ seen'.sum = seen.sum
          /\ seen'.executed = TRUE /\ seen'.events = seen.events
      BY <2>1 DEF SeenOK
    <2>3. Client' = Reader(buffers, seen.started, seen.sum, TRUE, seen.events, out)
      BY <2>1, <2>2 DEF Client
    <2>4. After(setup.op, f, Client) = Client' BY <1>3, <2>1, <2>3, ClientHas DEF After
    <2> QED BY <1>1, <1>3, <2>1, <2>2, <2>4
  <1>5. CASE ReadsResult
    <2>1. f.type = "agent_result" /\ Responds(RunResponseOf(JsonField(f, "result_json")))
          /\ UNCHANGED <<reply, buffers>>
      BY <1>1, <1>5 DEF ReadsResult, Frame
    <2>2. PICK r : r = RunResponseOf(JsonField(f, "result_json")) OBVIOUS
    <2>3. After(setup.op, f, Client) = GetsResult(setup.op, r, Client)
      BY <1>3, <2>1, <2>2, ClientHas DEF After
    <2>4. CASE setup.op = "run"
      <3>1. out' = Checked(r, seen.executed) /\ seen' = seen
        BY <2>1, <2>2, <2>4 DEF Responds
      <3>2. Client' = GetsResult(setup.op, r, Client)
        BY <2>1, <2>4, <3>1, ClientHas DEF GetsResult, Client
      <3> QED BY <1>1, <1>3, <2>1, <2>3, <3>1, <3>2 DEF SeenOK
    <2>5. CASE setup.op # "run"
      <3>1. StreamEnds(EndOf(r), seen.sum) BY <2>1, <2>2, <2>5 DEF Responds, EndOf
      <3>2. PICK b : b = buffers OBVIOUS
      <3>3. Client' = StreamGetsEnd(EndOf(r), b, Client) /\ SeenOK'
        BY <2>1, <3>1, <3>2, ClientStreamEnd
      <3>4. GetsResult(setup.op, r, Client) = StreamGetsEnd(EndOf(r), b, Client)
        BY <2>5, <3>2, ClientHas DEF GetsResult
      <3> QED BY <1>1, <1>3, <2>1, <2>3, <3>3, <3>4
    <2> QED BY <2>4, <2>5
  <1>6. CASE ReadsError
    <2>1. f.type = "agent_error" /\ out' = ErrorFrameError(f) /\ UNCHANGED <<reply, buffers, seen>>
      BY <1>1, <1>6 DEF ReadsError, Frame
    <2>2. Client'
            = Reader(buffers, seen.started, seen.sum, seen.executed, seen.events, ErrorFrameError(f))
      BY <2>1 DEF Client
    <2>3. After(setup.op, f, Client) = Client' BY <1>3, <2>1, <2>2, ClientHas DEF After
    <2> QED BY <1>1, <1>3, <2>1, <2>3 DEF SeenOK
  <1>7. CASE ReadsEvent
    <2>1. f.type \notin {"tool_execute", "agent_result", "agent_error"}
      BY <1>1, <1>7 DEF ReadsEvent, Frame, KnownFrameTypes, ProviderEventTypes, ToolEventTypes,
         ThinkingTypes
    <2>2. PICK read : read = AgentFrame(f, buffers) OBVIOUS
    <2>3. /\ buffers' = read.buffers /\ reply' = reply
          /\ IF read.events = <<>> THEN UNCHANGED <<seen, out>> ELSE Yields(Head(read.events))
      BY <1>1, <1>7, <2>2 DEF ReadsEvent, Frame
    <2>4. After(setup.op, f, Client) = GetsRead(setup.op, read, Client)
      BY <1>3, <2>1, <2>2, ClientHas DEF After
    <2>5. CASE read.events = <<>>
      <3>1. Client' = GetsRead(setup.op, read, Client)
        BY <2>3, <2>5, ClientHas DEF GetsRead, Client
      <3> QED BY <1>1, <1>3, <2>3, <2>4, <2>5, <3>1 DEF SeenOK
    <2>6. CASE read.events # <<>>
      <3>1. PICK e, b : e = Head(read.events) /\ b = read.buffers OBVIOUS
      <3>2. Yields(e) /\ buffers' = b BY <2>3, <2>6, <3>1
      <3>3. GetsRead(setup.op, read, Client) = Gets(setup.op, e, b, Client)
        BY <2>6, <3>1 DEF GetsRead
      <3>4. Client' = Gets(setup.op, e, b, Client) /\ SeenOK'
        BY <3>2, ClientRunEvent, ClientStreamEvent DEF Yields, Gets
      <3> QED BY <1>1, <1>3, <2>3, <2>4, <3>3, <3>4
    <2> QED BY <2>5, <2>6
  <1> QED BY <1>4, <1>5, <1>6, <1>7 DEF ClientNext

(***************************************************************************)
(* Joining, parts and prefixes of sequences.                               *)
(***************************************************************************)

\* Joining is associative.
LEMMA SeqAssoc ==
  ASSUME NEW s, NEW t, NEW u, IsSeq(s), IsSeq(t), IsSeq(u)
  PROVE  (s \o t) \o u = s \o (t \o u)
  <1>1. PICK S : S = ToSet(s) \cup ToSet(t) \cup ToSet(u) OBVIOUS
  <1>2. s \in Seq(S) /\ t \in Seq(S) /\ u \in Seq(S) BY <1>1 DEF IsSeq
  <1> QED BY <1>2

\* Joining nothing changes nothing.
LEMMA SeqNone ==
  ASSUME NEW s, IsSeq(s)
  PROVE  s \o <<>> = s /\ <<>> \o s = s
  <1>1. PICK S : S = ToSet(s) OBVIOUS
  <1>2. s \in Seq(S) BY <1>1 DEF IsSeq
  <1> QED BY <1>2

\* To append is to join one element.
LEMMA SeqAppendJoin ==
  ASSUME NEW s, NEW x, IsSeq(s)
  PROVE  s \o <<x>> = Append(s, x)
  <1>1. PICK S : S = ToSet(s) \cup {x} OBVIOUS
  <1>2. s \in Seq(S) /\ x \in S BY <1>1 DEF IsSeq
  <1> QED BY <1>2

\* The elements of a subsequence.
LEMMA SeqSub ==
  ASSUME NEW s, IsSeq(s), NEW m \in Nat \ {0}, NEW n \in Nat, m <= n + 1, n <= Len(s)
  PROVE  /\ IsSeq(SubSeq(s, m, n)) /\ Len(SubSeq(s, m, n)) = n - m + 1
         /\ \A i \in 1..(n - m + 1) : SubSeq(s, m, n)[i] = s[(m - 1) + i]
  <1>1. PICK S : S = ToSet(s) OBVIOUS
  <1>2. s \in Seq(S) BY <1>1 DEF IsSeq
  <1>3. PICK q : q = SubSeq(s, m, n) OBVIOUS
  <1>4. q \in Seq(S) /\ Len(q) = n - m + 1 BY <1>2, <1>3
  <1>5. \A i \in 1..(n - m + 1) : q[i] = s[(m - 1) + i]
    <2> TAKE i \in 1..(n - m + 1)
    <2>1. (m - 1) + i = m + i - 1 BY <1>4
    <2> QED BY <1>2, <1>3, <1>4, <2>1
  <1> QED BY <1>3, <1>4, <1>5, SeqIn

\* IsPrefix as the community modules define it, of sequences.
LEMMA PrefixJoin ==
  ASSUME NEW S, NEW s \in Seq(S), NEW t \in Seq(S), NEW u \in Seq(S)
  PROVE  /\ IsPrefix(s, s \o t)
         /\ IsPrefix(s, t) => IsPrefix(s, t \o u)
  BY DEF IsPrefix

\* A sequence is a prefix of itself.
LEMMA PrefixSame ==
  ASSUME NEW S, NEW s \in Seq(S)
  PROVE  IsPrefix(s, s)
  BY DEF IsPrefix

(***************************************************************************)
(* What events, and the content of a message, say.                         *)
(***************************************************************************)

\* The events of a client, and the content of a message.
EventsOK(events) == IsSeq(events) /\ \A i \in 1..Len(events) : EventOK(events[i])

ContentOK(content) == IsSeq(content) /\ \A i \in 1..Len(content) : content[i] \in Parts

\* No events say nothing.
LEMMA SaidByNone == SaidBy(<<>>) = <<>>
  <1>1. DOMAIN <<>> = {} OBVIOUS
  <1>2. [i \in DOMAIN <<>> |-> EventSays(<<>>[i])] = <<>> OBVIOUS
  <1> QED BY <1>2, FlatEmpty DEF SaidBy

\* No content says nothing.
LEMMA SaidInNone == SaidIn(<<>>) = <<>>
  <1>1. [i \in DOMAIN <<>> |-> PartSays(<<>>[i])] = <<>> OBVIOUS
  <1> QED BY <1>1, FlatEmpty DEF SaidIn

\* What events say is a sequence of words.
LEMMA SaidByIn ==
  ASSUME NEW events, EventsOK(events)
  PROVE  /\ [i \in DOMAIN events |-> EventSays(events[i])] \in Seq(Seq(Words))
         /\ SaidBy(events) \in Seq(Words)
  <1>1. PICK W : W = Seq(Words) OBVIOUS
  <1>2. DOMAIN events = 1..Len(events) /\ Len(events) \in Nat BY SeqHas DEF EventsOK
  <1>3. \A i \in 1..Len(events) : EventSays(events[i]) \in W BY <1>1, EventSaysIn DEF EventsOK
  <1>4. [i \in DOMAIN events |-> EventSays(events[i])] \in Seq(W) BY <1>2, <1>3
  <1> QED BY <1>1, <1>4, FlatIn DEF SaidBy

\* One event more says what it says at the end.
LEMMA SaidByAppend ==
  ASSUME NEW events, NEW e, EventsOK(events), EventOK(e)
  PROVE  /\ EventsOK(Append(events, e))
         /\ SaidBy(Append(events, e)) = SaidBy(events) \o EventSays(e)
  <1>1. PICK more : more = Append(events, e) OBVIOUS
  <1>2. /\ IsSeq(more) /\ Len(more) = Len(events) + 1 /\ more[Len(events) + 1] = e
        /\ \A i \in 1..Len(events) : more[i] = events[i]
    BY <1>1, SeqAppend DEF EventsOK
  <1>3. Len(events) \in Nat /\ DOMAIN events = 1..Len(events) /\ DOMAIN more = 1..(Len(events) + 1)
    BY <1>2, SeqHas DEF EventsOK
  <1>4. EventsOK(more)
    <2>1. \A i \in 1..Len(more) : i \in 1..Len(events) \/ i = Len(events) + 1 BY <1>2, <1>3
    <2> QED BY <1>2, <2>1 DEF EventsOK
  <1>5. PICK s, t, x :
          /\ s = [i \in DOMAIN events |-> EventSays(events[i])]
          /\ t = [i \in DOMAIN more |-> EventSays(more[i])]
          /\ x = EventSays(e)
    OBVIOUS
  <1>6. PICK W : W = Seq(Words) OBVIOUS
  <1>7. s \in Seq(W) /\ t \in Seq(W) /\ x \in W BY <1>4, <1>5, <1>6, SaidByIn, EventSaysIn
  <1>8. t = Append(s, x)
    <2>1. Len(s) = Len(events) /\ Len(t) = Len(events) + 1 BY <1>3, <1>5, <1>7
    <2>2. \A i \in 1..Len(events) : t[i] = s[i] BY <1>2, <1>3, <1>5
    <2>3. t[Len(events) + 1] = x BY <1>2, <1>3, <1>5
    <2>4. PICK q : q = Append(s, x) OBVIOUS
    <2>5. IsSeq(s) /\ IsSeq(t) BY <1>7, SeqIn
    <2>6. IsSeq(q) /\ Len(q) = Len(s) + 1 /\ q[Len(s) + 1] = x /\ \A i \in 1..Len(s) : q[i] = s[i]
      BY <2>4, <2>5, SeqAppend
    <2>7. ASSUME NEW i \in 1..Len(t) PROVE t[i] = q[i]
      <3>1. i \in 1..Len(events) \/ i = Len(events) + 1 BY <1>3, <2>1
      <3> QED BY <2>1, <2>2, <2>3, <2>6, <3>1
    <2> QED BY <2>1, <2>4, <2>5, <2>6, <2>7, SeqSame
  <1>9. FlattenSeq(Append(s, x)) = FlattenSeq(s) \o x BY <1>6, <1>7, FlatAppend
  <1> QED BY <1>1, <1>4, <1>5, <1>8, <1>9 DEF SaidBy

\* What content says is a sequence of words.
LEMMA SaidInIn ==
  ASSUME NEW content, ContentOK(content)
  PROVE  /\ [i \in DOMAIN content |-> PartSays(content[i])] \in Seq(Seq(Words))
         /\ SaidIn(content) \in Seq(Words)
  <1>1. PICK W : W = Seq(Words) OBVIOUS
  <1>2. DOMAIN content = 1..Len(content) /\ Len(content) \in Nat BY SeqHas DEF ContentOK
  <1>3. \A i \in 1..Len(content) : PartSays(content[i]) \in W BY <1>1, PartSaysIn DEF ContentOK
  <1>4. [i \in DOMAIN content |-> PartSays(content[i])] \in Seq(W) BY <1>2, <1>3
  <1> QED BY <1>1, <1>4, FlatIn DEF SaidIn

\* One part more says what it says at the end.
LEMMA SaidInAppend ==
  ASSUME NEW content, NEW p \in Parts, ContentOK(content)
  PROVE  /\ ContentOK(Append(content, p))
         /\ SaidIn(Append(content, p)) = SaidIn(content) \o PartSays(p)
  <1>1. PICK more : more = Append(content, p) OBVIOUS
  <1>2. /\ IsSeq(more) /\ Len(more) = Len(content) + 1 /\ more[Len(content) + 1] = p
        /\ \A i \in 1..Len(content) : more[i] = content[i]
    BY <1>1, SeqAppend DEF ContentOK
  <1>3. /\ Len(content) \in Nat
        /\ DOMAIN content = 1..Len(content) /\ DOMAIN more = 1..(Len(content) + 1)
    BY <1>2, SeqHas DEF ContentOK
  <1>4. ContentOK(more)
    <2>1. \A i \in 1..Len(more) : i \in 1..Len(content) \/ i = Len(content) + 1 BY <1>2, <1>3
    <2> QED BY <1>2, <2>1 DEF ContentOK
  <1>5. PICK s, t, x :
          /\ s = [i \in DOMAIN content |-> PartSays(content[i])]
          /\ t = [i \in DOMAIN more |-> PartSays(more[i])]
          /\ x = PartSays(p)
    OBVIOUS
  <1>6. PICK W : W = Seq(Words) OBVIOUS
  <1>7. s \in Seq(W) /\ t \in Seq(W) /\ x \in W BY <1>4, <1>5, <1>6, SaidInIn, PartSaysIn
  <1>8. t = Append(s, x)
    <2>1. Len(s) = Len(content) /\ Len(t) = Len(content) + 1 BY <1>3, <1>5, <1>7
    <2>2. \A i \in 1..Len(content) : t[i] = s[i] BY <1>2, <1>3, <1>5
    <2>3. t[Len(content) + 1] = x BY <1>2, <1>3, <1>5
    <2>4. PICK q : q = Append(s, x) OBVIOUS
    <2>5. IsSeq(s) /\ IsSeq(t) BY <1>7, SeqIn
    <2>6. IsSeq(q) /\ Len(q) = Len(s) + 1 /\ q[Len(s) + 1] = x /\ \A i \in 1..Len(s) : q[i] = s[i]
      BY <2>4, <2>5, SeqAppend
    <2>7. ASSUME NEW i \in 1..Len(t) PROVE t[i] = q[i]
      <3>1. i \in 1..Len(content) \/ i = Len(content) + 1 BY <1>3, <2>1
      <3> QED BY <2>1, <2>2, <2>3, <2>6, <3>1
    <2> QED BY <2>1, <2>4, <2>5, <2>6, <2>7, SeqSame
  <1>9. FlattenSeq(Append(s, x)) = FlattenSeq(s) \o x BY <1>6, <1>7, FlatAppend
  <1> QED BY <1>1, <1>4, <1>5, <1>8, <1>9 DEF SaidIn

(***************************************************************************)
(* The client ahead of itself.                                             *)
(***************************************************************************)

\* ahead[k]: what the client will have when it has read k of the frames.
Ahead(op, ahead, frames, x) ==
  /\ ahead[0] = x
  /\ \A k \in 1..Len(frames) : ahead[k] = After(op, frames[k], ahead[k - 1])

\* The first frame is read: the rest is ahead of what the client became.
LEMMA AheadRead ==
  ASSUME NEW op, NEW ahead, NEW frames, NEW x, IsSeq(frames), frames # <<>>,
         Ahead(op, ahead, frames, x)
  PROVE  \E after :
           /\ Ahead(op, after, Tail(frames), After(op, Head(frames), x))
           /\ \A k \in 0..Len(Tail(frames)) : k + 1 \in 0..Len(frames) /\ after[k] = ahead[k + 1]
  <1>1. PICK rest : rest = Tail(frames) OBVIOUS
  <1>2. /\ IsSeq(rest) /\ Len(frames) \in Nat \ {0} /\ Len(rest) = Len(frames) - 1
        /\ \A i \in 1..Len(rest) : rest[i] = frames[i + 1]
        /\ Head(frames) = frames[1]
    BY <1>1, SeqTail
  <1>3. PICK n : n = Len(rest) OBVIOUS
  <1>4. n \in Nat /\ Len(frames) = n + 1 BY <1>2, <1>3
  <1>5. PICK after : after = [k \in 0..n |-> ahead[k + 1]] OBVIOUS
  <1>6. after[0] = After(op, Head(frames), x)
    <2>1. after[0] = ahead[1] BY <1>4, <1>5
    <2>2. 1 \in 1..Len(frames) BY <1>4
    <2>3. ahead[1] = After(op, frames[1], ahead[1 - 1]) BY <2>2 DEF Ahead
    <2>4. ahead[1 - 1] = x BY DEF Ahead
    <2> QED BY <1>2, <2>1, <2>3, <2>4
  <1>7. ASSUME NEW k \in 1..n PROVE after[k] = After(op, rest[k], after[k - 1])
    <2>1. PICK j : j = k + 1 OBVIOUS
    <2>2. j \in 1..Len(frames) /\ j - 1 = k /\ k - 1 \in 0..n /\ (k - 1) + 1 = k /\ k \in 0..n
      BY <1>4, <2>1
    <2>3. after[k] = ahead[j] /\ after[k - 1] = ahead[k] BY <1>5, <2>1, <2>2
    <2>4. ahead[j] = After(op, frames[j], ahead[j - 1]) BY <2>2 DEF Ahead
    <2>5. rest[k] = frames[j] BY <1>2, <1>3, <2>1
    <2> QED BY <2>2, <2>3, <2>4, <2>5
  <1>8. \A k \in 0..n : k + 1 \in 0..Len(frames) /\ after[k] = ahead[k + 1] BY <1>4, <1>5
  <1>9. Ahead(op, after, rest, After(op, Head(frames), x)) BY <1>3, <1>6, <1>7 DEF Ahead
  <1> QED BY <1>1, <1>3, <1>8, <1>9

\* More frames are sent: the client goes on from what it will have been.
LEMMA AheadSends ==
  ASSUME NEW op, NEW ahead, NEW frames, NEW x, NEW more, NEW sent, IsSeq(frames), IsSeq(sent),
         Ahead(op, ahead, frames, x), Ahead(op, more, sent, ahead[Len(frames)])
  PROVE  \E after :
           /\ Ahead(op, after, frames \o sent, x)
           /\ \A k \in 0..Len(frames) : after[k] = ahead[k]
           /\ \A i \in 0..Len(sent) : after[Len(frames) + i] = more[i]
  <1>1. PICK both : both = frames \o sent OBVIOUS
  <1>2. PICK n, m : n = Len(frames) /\ m = Len(sent) OBVIOUS
  <1>3. n \in Nat /\ m \in Nat BY <1>2, SeqHas
  <1>4. IsSeq(both) /\ Len(both) = n + m BY <1>1, <1>2, SeqJoin
  <1>5. \A i \in 1..n : both[i] = frames[i] BY <1>1, <1>2, SeqJoin
  <1>6. \A i \in 1..m : both[n + i] = sent[i] BY <1>1, <1>2, SeqJoin
  <1>7. PICK after : after = [k \in 0..(n + m) |-> IF k <= n THEN ahead[k] ELSE more[k - n]] OBVIOUS
  <1>8. \A k \in 0..n : after[k] = ahead[k] BY <1>3, <1>7
  <1>9. ASSUME NEW i \in 0..m PROVE after[n + i] = more[i]
    <2>1. CASE i = 0
      <3>1. after[n + i] = ahead[n] BY <1>3, <1>7, <2>1
      <3> QED BY <1>2, <2>1, <3>1 DEF Ahead
    <2>2. CASE i # 0
      <3>1. n + i \in 0..(n + m) /\ ~(n + i <= n) /\ (n + i) - n = i BY <1>3, <2>2
      <3> QED BY <1>7, <3>1
    <2> QED BY <2>1, <2>2
  <1>10. ASSUME NEW k \in 1..(n + m) PROVE after[k] = After(op, both[k], after[k - 1])
    <2>1. CASE k <= n
      <3>1. k \in 1..n /\ k \in 0..n /\ k - 1 \in 0..n BY <1>3, <2>1
      <3>2. after[k] = ahead[k] /\ after[k - 1] = ahead[k - 1] BY <1>8, <3>1
      <3>3. ahead[k] = After(op, frames[k], ahead[k - 1]) BY <1>2, <3>1 DEF Ahead
      <3> QED BY <1>5, <3>1, <3>2, <3>3
    <2>2. CASE ~(k <= n)
      <3>1. PICK i : i = k - n OBVIOUS
      <3>2. i \in 1..m /\ i \in 0..m /\ i - 1 \in 0..m /\ k = n + i /\ k - 1 = n + (i - 1)
        BY <1>3, <2>2, <3>1
      <3>3. after[k] = more[i] /\ after[k - 1] = more[i - 1] BY <1>9, <3>2
      <3>4. more[i] = After(op, sent[i], more[i - 1]) BY <1>2, <3>2 DEF Ahead
      <3>5. both[k] = sent[i] BY <1>6, <3>2
      <3> QED BY <3>3, <3>4, <3>5
    <2> QED BY <2>1, <2>2
  <1>11. after[0] = x
    <2>1. after[0] = ahead[0] BY <1>3, <1>8
    <2> QED BY <2>1 DEF Ahead
  <1>12. Ahead(op, after, both, x) BY <1>4, <1>10, <1>11 DEF Ahead
  <1> QED BY <1>1, <1>2, <1>8, <1>9, <1>12

\* One frame, and two.
LEMMA AheadOne ==
  ASSUME NEW op, NEW f, NEW x, NEW y, y = After(op, f, x)
  PROVE  \E more : Ahead(op, more, <<f>>, x) /\ more[0] = x /\ more[1] = y
  <1>1. PICK more : more = [k \in 0..1 |-> IF k = 0 THEN x ELSE y] OBVIOUS
  <1>2. more[0] = x /\ more[1] = y BY <1>1
  <1>3. PICK s : s = <<f>> OBVIOUS
  <1>4. Len(s) = 1 /\ s[1] = f BY <1>3
  <1>5. \A k \in 1..Len(s) : k = 1 /\ k - 1 = 0 BY <1>4
  <1>6. Ahead(op, more, s, x) BY <1>2, <1>4, <1>5 DEF Ahead
  <1> QED BY <1>2, <1>3, <1>6

\* Two frames.
LEMMA AheadTwo ==
  ASSUME NEW op, NEW f, NEW g, NEW x, NEW y, NEW z, y = After(op, f, x), z = After(op, g, y)
  PROVE  \E more : Ahead(op, more, <<f, g>>, x) /\ more[0] = x /\ more[1] = y /\ more[2] = z
  <1>1. PICK more : more = [k \in 0..2 |-> IF k = 0 THEN x ELSE IF k = 1 THEN y ELSE z] OBVIOUS
  <1>2. more[0] = x /\ more[1] = y /\ more[2] = z BY <1>1
  <1>3. PICK s : s = <<f, g>> OBVIOUS
  <1>4. Len(s) = 2 /\ s[1] = f /\ s[2] = g BY <1>3
  <1>5. \A k \in 1..Len(s) : (k = 1 /\ k - 1 = 0) \/ (k = 2 /\ k - 1 = 1) BY <1>4
  <1>6. Ahead(op, more, s, x) BY <1>2, <1>4, <1>5 DEF Ahead
  <1> QED BY <1>2, <1>3, <1>6

(***************************************************************************)
(* A client that has no result yet, and one event more.                    *)
(***************************************************************************)

\* The events that end a client, and those of a tool's execution.
Terminal == {"agent_end", "error"}

Executing == {"tool_execution_start", "tool_execution_end"}

\* A stream that has begun has shown an agent_start first.
Leads(x) ==
  IF x.started THEN x.events # <<>> /\ x.events[1].type = "agent_start" ELSE x.events = <<>>

\* A client that has no result yet.
Quiet(op, x) ==
  /\ x.out = Pending
  /\ EventsOK(x.events)
  /\ \A i \in 1..Len(x.events) : x.events[i].type \notin Terminal
  /\ op = "stream" => Leads(x)

\* An event that ends nothing is added to such events.
LEMMA QuietAppend ==
  ASSUME NEW events, NEW e, EventsOK(events), EventOK(e), e.type \notin Terminal,
         \A i \in 1..Len(events) : events[i].type \notin Terminal
  PROVE  /\ EventsOK(Append(events, e))
         /\ \A i \in 1..Len(Append(events, e)) : Append(events, e)[i].type \notin Terminal
         /\ SaidBy(Append(events, e)) = SaidBy(events) \o EventSays(e)
         /\ events # <<>> => Append(events, e)[1] = events[1]
         /\ events = <<>> => Append(events, e)[1] = e
         /\ Append(events, e) # <<>>
  <1>1. PICK more : more = Append(events, e) OBVIOUS
  <1>2. /\ IsSeq(events) /\ IsSeq(more) /\ Len(more) = Len(events) + 1
        /\ more[Len(events) + 1] = e
        /\ \A i \in 1..Len(events) : more[i] = events[i]
    BY <1>1, SeqAppend DEF EventsOK
  <1>3. Len(events) \in Nat BY <1>2, SeqHas
  <1>4. \A i \in 1..Len(more) : more[i].type \notin Terminal
    <2>1. \A i \in 1..Len(more) : i \in 1..Len(events) \/ i = Len(events) + 1 BY <1>2, <1>3
    <2> QED BY <1>2, <2>1
  <1>5. events = <<>> => Len(events) = 0 BY SeqEmpty
  <1>6. events # <<>> => Len(events) # 0 BY <1>2, SeqEmpty, SeqSame
  <1>7. events # <<>> => more[1] = events[1] BY <1>2, <1>3, <1>6
  <1>8. events = <<>> => more[1] = e BY <1>2, <1>5
  <1>9. more # <<>>
    <2>1. Len(more) # 0 BY <1>2, <1>3
    <2> QED BY <2>1, SeqEmpty
  <1> QED BY <1>1, <1>4, <1>7, <1>8, <1>9, SaidByAppend

\* The agent_start a stream makes says nothing.
LEMMA OwnStartOK == EventOK(OwnStart) /\ OwnStart.type = "agent_start" /\ EventSays(OwnStart) = <<>>
  <1>1. OwnStart.type = "agent_start" BY DEF OwnStart
  <1>2. EventOK(OwnStart) BY <1>1 DEF EventOK, EventTypes, AgentEventTypes
  <1> QED BY <1>1, <1>2, EventSaysIn

\* run with one event more.
LEMMA QuietRun ==
  ASSUME NEW x, NEW e, NEW b, NEW y, Quiet("run", x), EventOK(e), e.type \notin Terminal,
         y = Gets("run", e, b, x)
  PROVE  /\ Quiet("run", y) /\ y.buffers = b /\ y.sum = x.sum
         /\ SaidBy(y.events) = SaidBy(x.events) \o EventSays(e)
         /\ y.events = Append(x.events, e)
         /\ y.executed => x.executed \/ e.type \in Executing
  <1>1. PICK events : events = Append(x.events, e) OBVIOUS
  <1>2. PICK executed :
               executed = (x.executed \/ e.type \in {"tool_execution_start", "tool_execution_end"})
    OBVIOUS
  <1>3. y = Reader(b, x.started, x.sum, executed, events, Pending)
    BY <1>1, <1>2 DEF Gets, RunGets, Terminal
  <1>4. y.buffers = b /\ y.sum = x.sum /\ y.executed = executed /\ y.events = events
        /\ y.out = Pending
    BY <1>3, ReaderHas
  <1>5. /\ EventsOK(events) /\ \A i \in 1..Len(events) : events[i].type \notin Terminal
        /\ SaidBy(events) = SaidBy(x.events) \o EventSays(e)
    BY <1>1, QuietAppend DEF Quiet
  <1>6. Quiet("run", y) BY <1>4, <1>5 DEF Quiet
  <1> QED BY <1>1, <1>2, <1>4, <1>5, <1>6 DEF Executing

\* Events of which none is the end.
Unended(events) ==
  EventsOK(events) /\ \A i \in 1..Len(events) : events[i].type \notin Terminal

\* Events that begin, or would with an event of type t, with an agent_start.
Opening(events, t) ==
  IF events = <<>> THEN t = "agent_start" ELSE events[1].type = "agent_start"

\* What stream puts before an event says nothing, and has it begin with an agent_start.
LEMMA LedEvents ==
  ASSUME NEW x, Quiet("stream", x), NEW t, NEW before, before = x.events \o Led(x, t)
  PROVE  Unended(before) /\ SaidBy(before) = SaidBy(x.events) /\ Opening(before, t)
  <1>1. CASE x.started
    <2>1. before = x.events BY <1>1, SeqNone DEF Led, Quiet, EventsOK
    <2> QED BY <1>1, <2>1 DEF Quiet, Leads, Unended, Opening
  <1>2. CASE ~x.started /\ t = "agent_start"
    <2>1. before = x.events BY <1>2, SeqNone DEF Led, Quiet, EventsOK
    <2>2. before = <<>> BY <1>2, <2>1 DEF Quiet, Leads
    <2> QED BY <1>2, <2>1, <2>2 DEF Quiet, Unended, Opening
  <1>3. CASE ~x.started /\ t # "agent_start"
    <2>1. PICK o : o = OwnStart OBVIOUS
    <2>2. x.events = <<>> BY <1>3 DEF Quiet, Leads
    <2>3. before = Append(x.events, o) BY <1>3, <2>1, SeqAppendJoin DEF Led, Quiet, EventsOK
    <2>4. EventOK(o) /\ o.type = "agent_start" /\ EventSays(o) = <<>> BY <2>1, OwnStartOK
    <2>5. o.type \notin Terminal BY <2>4 DEF Terminal
    <2>6. PICK events, said : events = x.events /\ said = EventSays(o) OBVIOUS
    <2>7. EventsOK(events) /\ (\A i \in 1..Len(events) : events[i].type \notin Terminal)
          /\ events = <<>>
      BY <2>2, <2>6 DEF Quiet
    <2>8. before = Append(events, o) BY <2>3, <2>6
    <2>9. Unended(before) BY <2>4, <2>5, <2>7, <2>8, QuietAppend DEF Unended
    <2>10. SaidBy(before) = SaidBy(events) \o said
      BY <2>4, <2>5, <2>6, <2>7, <2>8, QuietAppend
    <2>11. before # <<>> /\ before[1] = o BY <2>4, <2>5, <2>7, <2>8, QuietAppend
    <2>12. SaidBy(before) = SaidBy(x.events)
      BY <2>4, <2>6, <2>7, <2>10, SaidByIn, SeqIn, SeqNone
    <2> QED BY <2>4, <2>9, <2>11, <2>12 DEF Opening
  <1> QED BY <1>1, <1>2, <1>3

\* stream with one event more.
LEMMA QuietStream ==
  ASSUME NEW x, NEW e, NEW b, NEW y, Quiet("stream", x), EventOK(e), e.type \notin Terminal,
         y = Gets("stream", e, b, x)
  PROVE  /\ Quiet("stream", y) /\ y.buffers = b /\ y.sum = SumWith(x, e)
         /\ SaidBy(y.events) = SaidBy(x.events) \o EventSays(e)
         /\ y.executed = x.executed
  <1>1. PICK led : led = Led(x, e.type) OBVIOUS
  <1>2. PICK events : events = x.events \o led \o <<e>> OBVIOUS
  <1>3. PICK sum : sum = SumWith(x, e) OBVIOUS
  <1>4. y = Reader(b, TRUE, sum, x.executed, events, Pending)
    BY <1>1, <1>2, <1>3 DEF Gets, StreamGets, Terminal
  <1>5. y.buffers = b /\ y.sum = sum /\ y.executed = x.executed /\ y.events = events
        /\ y.out = Pending /\ y.started = TRUE
    BY <1>4 DEF Reader
  <1>6. PICK before : before = x.events \o led OBVIOUS
  <1>7. /\ EventsOK(before) /\ \A i \in 1..Len(before) : before[i].type \notin Terminal
        /\ SaidBy(before) = SaidBy(x.events)
        /\ IF before = <<>> THEN e.type = "agent_start" ELSE before[1].type = "agent_start"
    <2>1. PICK t : t = e.type OBVIOUS
    <2>2. before = x.events \o Led(x, t) BY <1>1, <1>6, <2>1
    <2>3. Unended(before) /\ SaidBy(before) = SaidBy(x.events) /\ Opening(before, t)
      BY <2>2, LedEvents
    <2> QED BY <2>1, <2>3 DEF Unended, Opening
  <1>8. events = Append(before, e) BY <1>2, <1>6, <1>7, SeqAppendJoin DEF EventsOK
  <1>9. /\ EventsOK(events) /\ \A i \in 1..Len(events) : events[i].type \notin Terminal
        /\ SaidBy(events) = SaidBy(before) \o EventSays(e)
        /\ events # <<>> /\ (before # <<>> => events[1] = before[1])
        /\ before = <<>> => events[1] = e
    BY <1>7, <1>8, QuietAppend
  <1>10. Leads(y) BY <1>5, <1>7, <1>9 DEF Leads
  <1>11. Quiet("stream", y) BY <1>5, <1>9, <1>10 DEF Quiet
  <1> QED BY <1>3, <1>5, <1>7, <1>9, <1>11

(***************************************************************************)
(* Parts of messages, and some of the events in a row.                     *)
(***************************************************************************)

\* The content of a message of the loop.
PartsOK(content) == IsSeq(content) /\ \A i \in 1..Len(content) : content[i] \in LoopParts

\* The type of a part is its kind.
LEMMA KindOfPart ==
  ASSUME NEW p \in LoopParts
  PROVE  /\ p.type = "text" <=> p \in TextParts
         /\ p.type = "thinking" <=> p \in ThinkingParts
         /\ p.type = "tool_call" <=> p \in LoopCalls
  BY DEF LoopParts, TextParts, ThinkingParts, LoopCalls

\* Some of the events of a client, in a row.
LEMMA SubOK ==
  ASSUME NEW s, EventsOK(s), NEW m \in Nat \ {0}, NEW n \in Nat, m <= n + 1, n <= Len(s)
  PROVE  EventsOK(SubSeq(s, m, n))
  <1>1. PICK a, k : a = SubSeq(s, m, n) /\ k = n - m + 1 OBVIOUS
  <1>2. IsSeq(a) /\ Len(a) = k /\ \A i \in 1..k : a[i] = s[(m - 1) + i]
    BY <1>1, SeqSub DEF EventsOK
  <1>3. Len(s) \in Nat BY SeqHas DEF EventsOK
  <1>4. \A i \in 1..k : (m - 1) + i \in 1..Len(s) BY <1>1, <1>3
  <1>5. \A i \in 1..k : EventOK(a[i]) BY <1>2, <1>4 DEF EventsOK
  <1> QED BY <1>1, <1>2, <1>5 DEF EventsOK

(***************************************************************************)
(* The tokens of a run, added up by messages as SumOf does and by events   *)
(* as a stream does.                                                       *)
(***************************************************************************)

\* sum[i] is the sum of the first i of the counts.
Sums(counts, sum, n) == [i \in 0..n |-> IF i = 0 THEN 0 ELSE sum[i - 1] + counts[i]]

\* There is such a function for all counts.
LEMMA SumsExist ==
  ASSUME NEW n \in Nat, NEW counts \in [1..n -> Nat]
  PROVE  \E sum \in [0..n -> Nat] : sum = Sums(counts, sum, n)
  <1> DEFINE Ok(m) == \E sum \in [0..m -> Nat] : sum = Sums(counts, sum, m)
             T == {m \in Nat : m <= n => Ok(m)}
  <1>1. 0 \in T
    <2>1. Ok(0)
      <3>1. PICK sum : sum = [i \in 0..0 |-> 0] OBVIOUS
      <3>2. sum \in [0..0 -> Nat] /\ sum = Sums(counts, sum, 0) BY <3>1 DEF Sums
      <3> QED BY <3>2
    <2> QED BY <2>1
  <1>2. ASSUME NEW k \in Nat, k \in T PROVE k + 1 \in T
    <2> SUFFICES ASSUME k + 1 <= n PROVE Ok(k + 1) OBVIOUS
    <2>1. PICK f \in [0..k -> Nat] : f = Sums(counts, f, k) BY <1>2
    <2>2. PICK e : e = f[k] + counts[k + 1] OBVIOUS
    <2>3. e \in Nat
      <3>1. f[k] \in Nat /\ counts[k + 1] \in Nat OBVIOUS
      <3> QED BY <2>2, <3>1
    <2>4. PICK g : g = [i \in 0..(k + 1) |-> IF i = k + 1 THEN e ELSE f[i]] OBVIOUS
    <2>5. g \in [0..(k + 1) -> Nat]
      <3>1. \A i \in 0..(k + 1) : i # k + 1 => i \in 0..k OBVIOUS
      <3> QED BY <2>3, <2>4, <3>1
    <2>6. ASSUME NEW i \in 0..(k + 1)
          PROVE  g[i] = IF i = 0 THEN 0 ELSE g[i - 1] + counts[i]
      <3>1. CASE i = k + 1
        <4>1. i # 0 /\ i - 1 = k /\ k \in 0..(k + 1) /\ k # k + 1 BY <3>1
        <4>2. g[i] = e /\ g[i - 1] = f[k] BY <2>4, <3>1, <4>1
        <4> QED BY <2>2, <3>1, <4>1, <4>2
      <3>2. CASE i # k + 1
        <4>1. i \in 0..k /\ (i # 0 => i - 1 \in 0..k /\ i - 1 \in 0..(k + 1) /\ i - 1 # k + 1)
          BY <3>2
        <4>2. g[i] = f[i] /\ (i # 0 => g[i - 1] = f[i - 1]) BY <2>4, <3>2, <4>1
        <4>3. f[i] = IF i = 0 THEN 0 ELSE f[i - 1] + counts[i] BY <2>1, <4>1 DEF Sums
        <4> QED BY <4>2, <4>3
      <3> QED BY <3>1, <3>2
    <2>7. g = Sums(counts, g, k + 1) BY <2>5, <2>6 DEF Sums
    <2> QED BY <2>5, <2>7
  <1> HIDE DEF T
  <1>3. n \in T BY <1>1, <1>2, Induction
  <1> QED BY <1>3 DEF T

\* The sums of counts that agree up to k agree up to k.
LEMMA SumsAgree ==
  ASSUME NEW n \in Nat, NEW m \in Nat, NEW c, NEW d, NEW f, NEW g,
         f = Sums(c, f, n), g = Sums(d, g, m), NEW k \in Nat, k <= n, k <= m,
         \A i \in 1..k : c[i] = d[i]
  PROVE  f[k] = g[k]
  <1> DEFINE T == {i \in Nat : i <= k => f[i] = g[i]}
  <1>1. 0 \in T
    <2>1. 0 \in 0..n /\ 0 \in 0..m OBVIOUS
    <2>2. f[0] = 0 /\ g[0] = 0 BY <2>1 DEF Sums
    <2> QED BY <2>2
  <1>2. ASSUME NEW i \in Nat, i \in T PROVE i + 1 \in T
    <2> SUFFICES ASSUME i + 1 <= k PROVE f[i + 1] = g[i + 1] OBVIOUS
    <2>1. i + 1 \in 0..n /\ i + 1 \in 0..m /\ i + 1 # 0 /\ (i + 1) - 1 = i /\ i + 1 \in 1..k
      OBVIOUS
    <2>2. f[i + 1] = f[i] + c[i + 1] BY <2>1 DEF Sums
    <2>3. g[i + 1] = g[i] + d[i + 1] BY <2>1 DEF Sums
    <2>4. f[i] = g[i] BY <1>2
    <2>5. c[i + 1] = d[i + 1] BY <2>1
    <2> QED BY <2>2, <2>3, <2>4, <2>5
  <1> HIDE DEF T
  <1>3. k \in T BY <1>1, <1>2, Induction
  <1> QED BY <1>3 DEF T

\* What a message counts of a key.
Count(message, key) == First(message.usage, <<key>>, 0)

\* Messages that count tokens.
UsagesOK(messages) == IsSeq(messages) /\ \A i \in 1..Len(messages) : IsUsage(messages[i].usage)

\* A message counts nothing of a key it does not have.
LEMMA CountIs ==
  ASSUME NEW f, IsUsage(f.usage), NEW key
  PROVE  /\ Count(f, key) \in Nat
         /\ key \in DOMAIN f.usage => Count(f, key) = f.usage[key]
         /\ key \notin DOMAIN f.usage => Count(f, key) = 0
  <1>1. PICK u : u = f.usage OBVIOUS
  <1>2. Count(f, key) = IF key \in DOMAIN u THEN u[key] ELSE 0 BY <1>1, FirstOfOne DEF Count
  <1>3. \A k \in DOMAIN u : u[k] \in Nat BY <1>1 DEF IsUsage
  <1> QED BY <1>1, <1>2, <1>3

\* What each message counts of a key.
Counts(messages, key) == [i \in 1..Len(messages) |-> Count(messages[i], key)]

\* The sum of the counts, as SumOf makes it.
AddsUp(messages, key, sum) ==
  /\ sum \in [0..Len(messages) -> Nat]
  /\ sum = Sums(Counts(messages, key), sum, Len(messages))
  /\ SumOf(messages, key) = sum[Len(messages)]

\* SumOf is the last of the sums.
LEMMA SumIs ==
  ASSUME NEW messages, UsagesOK(messages), NEW key
  PROVE  \E sum : AddsUp(messages, key, sum)
  <1>1. PICK n, counts : n = Len(messages) /\ counts = [i \in 1..n |-> Count(messages[i], key)]
    OBVIOUS
  <1>2. n \in Nat BY <1>1, SeqHas DEF UsagesOK
  <1>3. counts \in [1..n -> Nat]
    <2>1. \A i \in 1..n : Count(messages[i], key) \in Nat BY <1>1, CountIs DEF UsagesOK
    <2> QED BY <1>1, <2>1
  <1> DEFINE f == CHOOSE f : f = [i \in 0..Len(messages) |->
                                   IF i = 0 THEN 0
                                   ELSE f[i - 1] + First(messages[i].usage, <<key>>, 0)]
  <1>4. SumOf(messages, key) = f[Len(messages)] BY DEF SumOf
  <1>5. \A g : [i \in 0..Len(messages) |->
                  IF i = 0 THEN 0 ELSE g[i - 1] + First(messages[i].usage, <<key>>, 0)]
                = Sums(counts, g, n)
    <2> TAKE g
    <2>1. \A i \in 0..n : i # 0 => i \in 1..n BY <1>2
    <2>2. \A i \in 1..n : First(messages[i].usage, <<key>>, 0) = counts[i] BY <1>1 DEF Count
    <2>3. \A i \in 0..n : (IF i = 0 THEN 0 ELSE g[i - 1] + First(messages[i].usage, <<key>>, 0))
                          = (IF i = 0 THEN 0 ELSE g[i - 1] + counts[i])
      BY <2>1, <2>2
    <2> QED BY <1>1, <2>3 DEF Sums
  <1>6. PICK g \in [0..n -> Nat] : g = Sums(counts, g, n) BY <1>2, <1>3, SumsExist
  <1>7. g = [i \in 0..Len(messages) |->
               IF i = 0 THEN 0 ELSE g[i - 1] + First(messages[i].usage, <<key>>, 0)]
    BY <1>5, <1>6
  <1>8. f = [i \in 0..Len(messages) |->
               IF i = 0 THEN 0 ELSE f[i - 1] + First(messages[i].usage, <<key>>, 0)]
    BY <1>7
  <1> HIDE DEF f
  <1>9. f = Sums(counts, f, n) BY <1>5, <1>8
  <1>10. f[n] = g[n] BY <1>2, <1>6, <1>9, SumsAgree
  <1>11. counts = Counts(messages, key) BY <1>1 DEF Counts
  <1> QED BY <1>1, <1>4, <1>6, <1>10, <1>11 DEF AddsUp

\* No messages count nothing.
LEMMA SumOfNone == ASSUME NEW key PROVE SumOf(<<>>, key) = 0
  <1>1. PICK messages, n : messages = <<>> /\ n = Len(messages) OBVIOUS
  <1>2. n = 0 BY <1>1
  <1>3. UsagesOK(messages)
    <2>1. IsSeq(messages) /\ Len(messages) = 0 BY <1>1, SeqEmpty
    <2> QED BY <2>1 DEF UsagesOK
  <1>4. PICK counts : counts = Counts(messages, key) OBVIOUS
  <1>5. PICK sum : AddsUp(messages, key, sum) BY <1>3, SumIs
  <1>6. sum[0] = 0 /\ SumOf(messages, key) = sum[n]
    <2>1. 0 \in 0..n BY <1>2
    <2>2. sum = Sums(counts, sum, n) /\ SumOf(messages, key) = sum[n]
      BY <1>1, <1>4, <1>5 DEF AddsUp
    <2> QED BY <2>1, <2>2 DEF Sums
  <1> QED BY <1>1, <1>2, <1>6

\* One message more adds what it counts.
LEMMA SumOfMore ==
  ASSUME NEW messages, UsagesOK(messages), NEW f, IsUsage(f.usage), NEW key
  PROVE  /\ UsagesOK(Append(messages, f)) /\ SumOf(messages, key) \in Nat
         /\ SumOf(Append(messages, f), key) = SumOf(messages, key) + Count(f, key)
  <1>1. PICK n, more, m : n = Len(messages) /\ more = Append(messages, f) /\ m = Len(more) OBVIOUS
  <1>2. IsSeq(messages) BY DEF UsagesOK
  <1>3. IsSeq(more) /\ m = n + 1 /\ more[n + 1] = f /\ \A i \in 1..n : more[i] = messages[i]
    BY <1>1, <1>2, SeqAppend
  <1>4. n \in Nat BY <1>1, <1>2, SeqHas
  <1>5. UsagesOK(more)
    <2>1. \A i \in 1..m : i \in 1..n \/ i = n + 1 BY <1>3, <1>4
    <2>2. \A i \in 1..n : IsUsage(messages[i].usage) BY <1>1 DEF UsagesOK
    <2>3. \A i \in 1..m : IsUsage(more[i].usage) BY <1>3, <2>1, <2>2
    <2> QED BY <1>1, <1>3, <2>3 DEF UsagesOK
  <1>6. PICK c, d : c = Counts(messages, key) /\ d = Counts(more, key) OBVIOUS
  <1>7. /\ c = [i \in 1..n |-> Count(messages[i], key)]
        /\ d = [i \in 1..m |-> Count(more[i], key)]
    BY <1>1, <1>6 DEF Counts
  <1>8. PICK a : a \in [0..n -> Nat] /\ a = Sums(c, a, n) /\ SumOf(messages, key) = a[n]
    <2>1. PICK sum : AddsUp(messages, key, sum) BY SumIs
    <2> QED BY <1>1, <1>6, <2>1 DEF AddsUp
  <1>9. PICK b : b \in [0..m -> Nat] /\ b = Sums(d, b, m) /\ SumOf(more, key) = b[m]
    <2>1. PICK sum : AddsUp(more, key, sum) BY <1>5, SumIs
    <2> QED BY <1>1, <1>6, <2>1 DEF AddsUp
  <1>10. m \in Nat /\ n <= n /\ n <= m BY <1>3, <1>4
  <1>11. \A i \in 1..n : c[i] = d[i]
    <2>1. \A i \in 1..n : i \in 1..m BY <1>3, <1>4
    <2> QED BY <1>7, <1>3, <2>1
  <1>12. a[n] = b[n] BY <1>4, <1>8, <1>9, <1>10, <1>11, SumsAgree
  <1>13. b[m] = b[n] + Count(f, key)
    <2>1. m \in 0..m /\ m # 0 /\ m - 1 = n /\ m \in 1..m BY <1>3, <1>4
    <2>2. b[m] = b[m - 1] + d[m] BY <1>9, <2>1 DEF Sums
    <2>3. d[m] = Count(f, key) BY <1>7, <1>3, <2>1
    <2> QED BY <2>1, <2>2, <2>3
  <1>14. a[n] \in Nat BY <1>4, <1>8
  <1> QED BY <1>1, <1>5, <1>8, <1>9, <1>12, <1>13, <1>14

\* A key that no message has counts nothing.
LEMMA SumOfAbsent ==
  ASSUME NEW messages, UsagesOK(messages), NEW key,
         \A i \in 1..Len(messages) : key \notin DOMAIN messages[i].usage
  PROVE  SumOf(messages, key) = 0
  <1>1. PICK sum : AddsUp(messages, key, sum) BY SumIs
  <1>2. PICK n, counts : n = Len(messages) /\ counts = Counts(messages, key) OBVIOUS
  <1>3. n \in Nat BY <1>2, SeqHas DEF UsagesOK
  <1>4. sum = Sums(counts, sum, n) /\ SumOf(messages, key) = sum[n] BY <1>1, <1>2 DEF AddsUp
  <1>5. \A i \in 1..n : counts[i] = 0
    <2> TAKE i \in 1..n
    <2>1. PICK message : message = messages[i] OBVIOUS
    <2>2. IsUsage(message.usage) /\ key \notin DOMAIN message.usage BY <1>2, <2>1 DEF UsagesOK
    <2>3. Count(message, key) = 0 BY <2>2, CountIs
    <2> QED BY <1>2, <2>1, <2>3 DEF Counts
  <1> DEFINE T == {i \in Nat : i <= n => sum[i] = 0}
  <1>6. 0 \in T
    <2>1. 0 \in 0..n BY <1>3
    <2>2. sum[0] = 0 BY <1>4, <2>1 DEF Sums
    <2> QED BY <2>2
  <1>7. ASSUME NEW i \in Nat, i \in T PROVE i + 1 \in T
    <2> SUFFICES ASSUME i + 1 <= n PROVE sum[i + 1] = 0 OBVIOUS
    <2>1. i + 1 \in 0..n /\ i + 1 # 0 /\ (i + 1) - 1 = i /\ i + 1 \in 1..n /\ i <= n BY <1>3
    <2>2. sum[i + 1] = sum[i] + counts[i + 1] BY <1>4, <2>1 DEF Sums
    <2>3. sum[i] = 0 BY <1>7, <2>1
    <2>4. counts[i + 1] = 0 BY <1>5, <2>1
    <2> QED BY <2>2, <2>3, <2>4
  <1> HIDE DEF T
  <1>8. \A i \in Nat : i \in T BY <1>6, <1>7, Induction
  <1> QED BY <1>3, <1>4, <1>8 DEF T

\* The keys that some message counts.
Keys(messages) == UNION {DOMAIN message.usage : message \in ToSet(messages)}

\* TotalOf counts, of those keys, the sum.
LEMMA TotalHas ==
  ASSUME NEW messages, UsagesOK(messages)
  PROVE  /\ TotalOf(messages) = [k \in Keys(messages) |-> SumOf(messages, k)]
         /\ \A k : k \in Keys(messages) <=> \E i \in 1..Len(messages) : k \in DOMAIN messages[i].usage
         /\ \A k : First(TotalOf(messages), <<k>>, 0) = SumOf(messages, k)
  <1>1. TotalOf(messages) = [k \in Keys(messages) |-> SumOf(messages, k)] BY DEF TotalOf, Keys
  <1>2. \A k : k \in Keys(messages) <=> \E i \in 1..Len(messages) : k \in DOMAIN messages[i].usage
    <2>1. ToSet(messages) = {messages[i] : i \in 1..Len(messages)}
      BY SeqHas DEF UsagesOK, ToSet
    <2> QED BY <2>1 DEF Keys
  <1>3. ASSUME NEW k PROVE First(TotalOf(messages), <<k>>, 0) = SumOf(messages, k)
    <2>1. PICK t : t = TotalOf(messages) OBVIOUS
    <2>2. First(t, <<k>>, 0) = IF k \in DOMAIN t THEN t[k] ELSE 0 BY FirstOfOne
    <2>3. CASE k \in Keys(messages) BY <1>1, <2>1, <2>2, <2>3
    <2>4. CASE k \notin Keys(messages)
      <3>1. SumOf(messages, k) = 0 BY <1>2, <2>4, SumOfAbsent
      <3> QED BY <1>1, <2>1, <2>2, <2>4, <3>1
    <2> QED BY <2>3, <2>4
  <1> QED BY <1>1, <1>2, <1>3

\* One message more: AddUsage of the total and its usage, which is what a stream adds.
LEMMA TotalMore ==
  ASSUME NEW messages, UsagesOK(messages), NEW f, IsUsage(f.usage)
  PROVE  /\ UsagesOK(Append(messages, f))
         /\ TotalOf(Append(messages, f)) = AddUsage(TotalOf(messages), f.usage)
  <1>1. PICK more, t, u : more = Append(messages, f) /\ t = TotalOf(messages) /\ u = f.usage OBVIOUS
  <1>2. UsagesOK(more) BY <1>1, SumOfMore
  <1>3. /\ TotalOf(more) = [k \in Keys(more) |-> SumOf(more, k)]
        /\ \A k : k \in Keys(more) <=> \E i \in 1..Len(more) : k \in DOMAIN more[i].usage
    BY <1>2, TotalHas
  <1>4. /\ t = [k \in Keys(messages) |-> SumOf(messages, k)]
        /\ \A k : k \in Keys(messages) <=> \E i \in 1..Len(messages) : k \in DOMAIN messages[i].usage
        /\ \A k : First(t, <<k>>, 0) = SumOf(messages, k)
    BY <1>1, TotalHas
  <1>5. Keys(more) = Keys(messages) \cup DOMAIN u
    <2>1. PICK n : n = Len(messages) OBVIOUS
    <2>2. Len(more) = n + 1 /\ more[n + 1] = f /\ \A i \in 1..n : more[i] = messages[i]
      BY <1>1, <2>1, SeqAppend DEF UsagesOK
    <2>3. n \in Nat BY <2>1, SeqHas DEF UsagesOK
    <2>4. \A i : i \in 1..(n + 1) <=> i \in 1..n \/ i = n + 1 BY <2>3
    <2>5. \A k : (\E i \in 1..(n + 1) : k \in DOMAIN more[i].usage)
                   <=> (\E i \in 1..n : k \in DOMAIN messages[i].usage) \/ k \in DOMAIN u
      BY <1>1, <2>2, <2>4
    <2>6. \A k : k \in Keys(more) <=> k \in Keys(messages) \cup DOMAIN u
      BY <1>3, <1>4, <2>1, <2>2, <2>5
    <2> QED BY <2>6
  <1>6. \A k : SumOf(more, k) = First(t, <<k>>, 0) + First(u, <<k>>, 0)
    <2> TAKE k
    <2>1. SumOf(more, k) = SumOf(messages, k) + Count(f, k) BY <1>1, SumOfMore
    <2>2. Count(f, k) = First(u, <<k>>, 0) BY <1>1 DEF Count
    <2> QED BY <1>4, <2>1, <2>2
  <1>7. DOMAIN t = Keys(messages) BY <1>4
  <1>8. AddUsage(t, u) = [k \in Keys(more) |-> First(t, <<k>>, 0) + First(u, <<k>>, 0)]
    BY <1>5, <1>7 DEF AddUsage
  <1>9. TotalOf(more) = AddUsage(t, u) BY <1>3, <1>6, <1>8
  <1> QED BY <1>1, <1>2, <1>9

\* The total of one message is its usage.
LEMMA TotalOfOne ==
  ASSUME NEW messages, messages = <<>>, NEW f, IsUsage(f.usage)
  PROVE  TotalOf(Append(messages, f)) = f.usage
  <1>1. UsagesOK(messages)
    <2>1. IsSeq(messages) /\ Len(messages) = 0 BY SeqEmpty
    <2> QED BY <2>1 DEF UsagesOK
  <1>2. PICK t, u : t = TotalOf(messages) /\ u = f.usage OBVIOUS
  <1>3. TotalOf(Append(messages, f)) = AddUsage(t, u) BY <1>1, <1>2, TotalMore
  <1>4. DOMAIN t = {} /\ \A k : First(t, <<k>>, 0) = 0
    <2>1. Len(messages) = 0 BY SeqEmpty
    <2>2. Keys(messages) = {} BY <1>1, <2>1, TotalHas
    <2>3. DOMAIN t = {} BY <1>1, <1>2, <2>2, TotalHas
    <2>4. \A k : First(t, <<k>>, 0) = SumOf(messages, k) BY <1>1, <1>2, TotalHas
    <2> QED BY <2>3, <2>4, SumOfNone
  <1>5. IsUsage(u) BY <1>2
  <1>6. \A k \in DOMAIN u : First(t, <<k>>, 0) + First(u, <<k>>, 0) = u[k]
    <2> TAKE k \in DOMAIN u
    <2>1. First(u, <<k>>, 0) = u[k] BY FirstOfOne
    <2>2. u[k] \in Nat BY <1>5 DEF IsUsage
    <2> QED BY <1>4, <2>1, <2>2
  <1>7. u = [k \in DOMAIN u |-> u[k]] BY <1>5 DEF IsUsage
  <1>8. AddUsage(t, u) = u BY <1>4, <1>6, <1>7 DEF AddUsage
  <1> QED BY <1>2, <1>3, <1>8

\* A message that counted nothing adds nothing.
LEMMA TotalSame ==
  ASSUME NEW messages, UsagesOK(messages), NEW f, IsUsage(f.usage),
         \A k \in DOMAIN f.usage : f.usage[k] = 0,
         NEW i \in 1..Len(messages), DOMAIN f.usage \subseteq DOMAIN messages[i].usage
  PROVE  TotalOf(Append(messages, f)) = TotalOf(messages)
  <1>1. PICK t, u : t = TotalOf(messages) /\ u = f.usage OBVIOUS
  <1>2. TotalOf(Append(messages, f)) = AddUsage(t, u) BY <1>1, TotalMore
  <1>3. /\ t = [k \in Keys(messages) |-> SumOf(messages, k)]
        /\ \A k : First(t, <<k>>, 0) = SumOf(messages, k)
    BY <1>1, TotalHas
  <1>4. DOMAIN u \subseteq Keys(messages) BY <1>1, TotalHas
  <1>5. ASSUME NEW k PROVE First(t, <<k>>, 0) + First(u, <<k>>, 0) = SumOf(messages, k)
    <2>1. First(u, <<k>>, 0) = 0
      <3>1. First(u, <<k>>, 0) = IF k \in DOMAIN u THEN u[k] ELSE 0 BY FirstOfOne
      <3> QED BY <1>1, <3>1
    <2>2. SumOf(messages, k) \in Nat BY SumOfMore
    <2> QED BY <1>3, <2>1, <2>2
  <1>6. DOMAIN t \cup DOMAIN u = Keys(messages) BY <1>3, <1>4
  <1>7. AddUsage(t, u) = t BY <1>3, <1>5, <1>6 DEF AddUsage
  <1> QED BY <1>1, <1>2, <1>7

\* The total of any messages is a usage.
LEMMA TotalIsSome ==
  ASSUME NEW messages, UsagesOK(messages), NEW i \in 1..Len(messages)
  PROVE  TotalOf(messages) # NoUsage
  <1>1. PICK u : u = messages[i].usage OBVIOUS
  <1>2. "input" \in DOMAIN u BY <1>1 DEF UsagesOK, IsUsage
  <1>3. "input" \in Keys(messages) BY <1>1, <1>2, TotalHas
  <1>4. DOMAIN TotalOf(messages) # {} BY <1>3, TotalHas
  <1> QED BY <1>4 DEF NoUsage

(***************************************************************************)
(* ContentFromEvents and ParseContent say what they were given.            *)
(***************************************************************************)

\* What Take has after some of the events.
Takens == [parts : Seq(Parts), text : Fragments]

NoContent == [parts |-> <<>>, text |-> <<>>]

\* Take of ContentFromEvents.
TakeEvent(content, e) ==
  CASE e.type = "text_delta" -> [content EXCEPT !.text = @ \o e.delta]
    [] e.type = "thinking_delta" ->
         [parts |-> Append(WithText(content), ThinkingPart(e.delta)), text |-> <<>>]
    [] e.type = "tool_call" -> [parts |-> Append(WithText(content), e), text |-> <<>>]
    [] OTHER -> content

\* Take after each of the first n events.
Takes(events, taken, n) ==
  [i \in 0..n |-> IF i = 0 THEN NoContent ELSE TakeEvent(taken[i - 1], events[i])]

\* The fields of what Take has.
LEMMA TakenHas ==
  ASSUME NEW ps \in Seq(Parts), NEW t \in Fragments, NEW d, d = [parts |-> ps, text |-> t]
  PROVE  d \in Takens /\ d.parts = ps /\ d.text = t
  BY DEF Takens

\* Its parts are content.
LEMMA PartsSeq ==
  ASSUME NEW s \in Seq(Parts) PROVE ContentOK(s)
  BY SeqIn DEF ContentOK

\* An empty fragment says nothing.
LEMMA SayNothing == ASSUME NEW t \in {"text", "thinking"} PROVE Say(t, <<>>) = <<>>
  <1>1. PICK f : f = <<>> OBVIOUS
  <1>2. f \in Fragments /\ Len(f) = 0 BY <1>1 DEF Fragments
  <1>3. PICK s : s = Say(t, f) OBVIOUS
  <1>4. s \in Seq(Words) /\ Len(s) = 0 BY <1>2, <1>3, SayIn
  <1>5. s = <<>> BY <1>4
  <1> QED BY <1>1, <1>3, <1>5

\* The text behind the parts is said last.
LEMMA WithTextSays ==
  ASSUME NEW c \in Takens
  PROVE  /\ WithText(c) \in Seq(Parts)
         /\ SaidIn(WithText(c)) = SaidIn(c.parts) \o Say("text", c.text)
         /\ SaidIn(c.parts) \in Seq(Words)
  <1>1. PICK ps, t, w : ps = c.parts /\ t = c.text /\ w = WithText(c) OBVIOUS
  <1>2. ps \in Seq(Parts) /\ t \in Fragments BY <1>1 DEF Takens
  <1>3. ContentOK(ps) /\ SaidIn(ps) \in Seq(Words) BY <1>2, PartsSeq, SaidInIn
  <1>4. CASE t = <<>>
    <2>1. w = ps
      <3>1. w = ps \o <<>> BY <1>1, <1>4 DEF WithText
      <3> QED BY <1>2, <3>1, SeqIn, SeqNone
    <2>2. Say("text", t) = <<>> BY <1>4, SayNothing
    <2>3. SaidIn(ps) \o <<>> = SaidIn(ps) BY <1>3, SeqIn, SeqNone
    <2> QED BY <1>1, <1>2, <1>3, <2>1, <2>2, <2>3
  <1>5. CASE t # <<>>
    <2>1. PICK p : p = TextPart(t) OBVIOUS
    <2>2. w = Append(ps, p)
      <3>1. w = ps \o <<p>> BY <1>1, <1>5, <2>1 DEF WithText
      <3> QED BY <1>2, <3>1, SeqIn, SeqAppendJoin
    <2>3. p \in TextParts /\ p.text = t BY <1>2, <2>1 DEF TextPart, TextParts
    <2>4. p \in Parts BY <2>3 DEF Parts, LoopParts
    <2>5. PartSays(p) = Say("text", t) BY <2>3, <2>4, PartSaysIn
    <2>6. SaidIn(w) = SaidIn(ps) \o PartSays(p) BY <1>3, <2>2, <2>4, SaidInAppend
    <2>7. w \in Seq(Parts) BY <1>2, <2>2, <2>4
    <2> QED BY <1>1, <1>3, <2>5, <2>6, <2>7
  <1> QED BY <1>4, <1>5

\* Content without text behind it says what its parts say.
LEMMA PartsSay ==
  ASSUME NEW c \in Takens, NEW p \in Parts, NEW d,
         d = [parts |-> Append(WithText(c), p), text |-> <<>>]
  PROVE  d \in Takens /\ SaidIn(WithText(d)) = SaidIn(WithText(c)) \o PartSays(p)
  <1>1. PICK w, ps : w = WithText(c) /\ ps = Append(w, p) OBVIOUS
  <1>2. w \in Seq(Parts) BY <1>1, WithTextSays
  <1>3. ps \in Seq(Parts) BY <1>1, <1>2
  <1>4. d = [parts |-> ps, text |-> <<>>] BY <1>1
  <1>5. d \in Takens /\ d.parts = ps /\ d.text = <<>>
    <2>1. PICK t : t = <<>> OBVIOUS
    <2>2. t \in Fragments BY <2>1 DEF Fragments
    <2>3. d = [parts |-> ps, text |-> t] BY <1>4, <2>1
    <2>4. d \in Takens /\ d.parts = ps /\ d.text = t BY <1>3, <2>2, <2>3, TakenHas
    <2> QED BY <2>1, <2>4
  <1>6. SaidIn(WithText(d)) = SaidIn(ps) \o Say("text", <<>>) BY <1>5, WithTextSays
  <1>7. SaidIn(ps) = SaidIn(w) \o PartSays(p) /\ SaidIn(ps) \in Seq(Words)
    <2>1. SaidIn(ps) = SaidIn(w) \o PartSays(p) BY <1>1, <1>2, PartsSeq, SaidInAppend
    <2>2. SaidIn(ps) \in Seq(Words) BY <1>3, PartsSeq, SaidInIn
    <2> QED BY <2>1, <2>2
  <1>8. SaidIn(ps) \o <<>> = SaidIn(ps) BY <1>7, SeqIn, SeqNone
  <1> QED BY <1>1, <1>5, <1>6, <1>7, <1>8, SayNothing

\* Take adds what the event says, whatever it is.
LEMMA TakeSays ==
  ASSUME NEW c \in Takens, NEW e, EventOK(e), NEW d, d = TakeEvent(c, e)
  PROVE  d \in Takens /\ SaidIn(WithText(d)) = SaidIn(WithText(c)) \o EventSays(e)
  <1>1. CASE e.type = "text_delta"
    <2>1. PICK f, g, t : f = e.delta /\ g = c.text /\ t = g \o f OBVIOUS
    <2>2. f \in Fragments /\ g \in Fragments BY <1>1, <2>1 DEF EventOK, Takens
    <2>3. t \in Fragments /\ Say("text", t) = Say("text", g) \o Say("text", f)
      BY <2>1, <2>2, SayJoin
    <2>4. d = [c EXCEPT !.text = t] BY <1>1, <2>1 DEF TakeEvent
    <2>5. d \in Takens /\ d.parts = c.parts /\ d.text = t BY <2>3, <2>4 DEF Takens
    <2>6. SaidIn(WithText(d)) = SaidIn(c.parts) \o Say("text", t) BY <2>5, WithTextSays
    <2>7. SaidIn(WithText(c)) = SaidIn(c.parts) \o Say("text", g) BY <2>1, WithTextSays
    <2>8. PICK a, b, h : a = SaidIn(c.parts) /\ b = Say("text", g) /\ h = Say("text", f) OBVIOUS
    <2>9. IsSeq(a) /\ IsSeq(b) /\ IsSeq(h)
      <3>1. a \in Seq(Words) /\ b \in Seq(Words) /\ h \in Seq(Words)
        BY <2>2, <2>8, WithTextSays, SayIn
      <3> QED BY <3>1, SeqIn
    <2>10. (a \o b) \o h = a \o (b \o h) BY <2>9, SeqAssoc
    <2>11. EventSays(e) = h BY <1>1, <2>1, <2>8, EventSaysIn
    <2> QED BY <2>3, <2>5, <2>6, <2>7, <2>8, <2>10, <2>11
  <1>2. CASE e.type = "thinking_delta"
    <2>1. PICK p : p = ThinkingPart(e.delta) OBVIOUS
    <2>2. p \in ThinkingParts /\ p.thinking = e.delta
      BY <1>2, <2>1 DEF EventOK, ThinkingPart, ThinkingParts
    <2>3. p \in Parts BY <2>2 DEF Parts, LoopParts
    <2>4. PartSays(p) = EventSays(e) BY <1>2, <2>2, <2>3, PartSaysIn, EventSaysIn
    <2>5. d = [parts |-> Append(WithText(c), p), text |-> <<>>] BY <1>2, <2>1 DEF TakeEvent
    <2> QED BY <2>3, <2>4, <2>5, PartsSay
  <1>3. CASE e.type = "tool_call"
    <2>1. e \in ReadCalls /\ e \in Parts BY <1>3 DEF EventOK, Parts
    <2>2. PartSays(e) = EventSays(e) BY <1>3, <2>1, PartSaysIn, EventSaysIn
    <2>3. d = [parts |-> Append(WithText(c), e), text |-> <<>>] BY <1>3 DEF TakeEvent
    <2> QED BY <2>1, <2>2, <2>3, PartsSay
  <1>4. CASE e.type \notin {"text_delta", "thinking_delta", "tool_call"}
    <2>1. d = c /\ EventSays(e) = <<>> BY <1>4, EventSaysIn DEF TakeEvent
    <2>2. SaidIn(WithText(c)) \in Seq(Words) BY WithTextSays, PartsSeq, SaidInIn
    <2> QED BY <2>1, <2>2, SeqIn, SeqNone
  <1> QED BY <1>1, <1>2, <1>3, <1>4

\* The first n + 1 elements are the first n and one more.
LEMMA SubMore ==
  ASSUME NEW s, IsSeq(s), NEW n \in Nat, n + 1 <= Len(s)
  PROVE  SubSeq(s, 1, n + 1) = Append(SubSeq(s, 1, n), s[n + 1])
  <1>1. PICK a, b, l : a = SubSeq(s, 1, n) /\ b = SubSeq(s, 1, l) /\ l = n + 1 OBVIOUS
  <1>2. Len(s) \in Nat BY SeqHas
  <1>3. IsSeq(a) /\ Len(a) = n /\ \A i \in 1..n : a[i] = s[i]
    <2>1. n <= Len(s) /\ 1 <= n + 1 /\ n - 1 + 1 = n /\ \A i \in 1..n : (1 - 1) + i = i BY <1>2
    <2>2. IsSeq(a) /\ Len(a) = n - 1 + 1 /\ \A i \in 1..(n - 1 + 1) : a[i] = s[(1 - 1) + i]
      BY <1>1, <2>1, SeqSub
    <2> QED BY <2>1, <2>2
  <1>4. IsSeq(b) /\ Len(b) = l /\ \A i \in 1..l : b[i] = s[i]
    <2>1. l \in Nat /\ l <= Len(s) /\ 1 <= l + 1 /\ l - 1 + 1 = l /\ \A i \in 1..l : (1 - 1) + i = i
      BY <1>1, <1>2
    <2>2. IsSeq(b) /\ Len(b) = l - 1 + 1 /\ \A i \in 1..(l - 1 + 1) : b[i] = s[(1 - 1) + i]
      BY <1>1, <2>1, SeqSub
    <2> QED BY <2>1, <2>2
  <1>5. PICK c : c = Append(a, s[l]) OBVIOUS
  <1>6. IsSeq(c) /\ Len(c) = l /\ c[l] = s[l] /\ \A i \in 1..n : c[i] = a[i]
    BY <1>1, <1>3, <1>5, SeqAppend
  <1>7. ASSUME NEW i \in 1..l PROVE b[i] = c[i]
    <2>1. CASE i = l BY <1>4, <1>6, <2>1
    <2>2. CASE i # l
      <3>1. i \in 1..n BY <1>1, <2>2
      <3> QED BY <1>3, <1>4, <1>6, <3>1
    <2> QED BY <2>1, <2>2
  <1>8. b = c BY <1>4, <1>6, <1>7, SeqSame
  <1> QED BY <1>1, <1>5, <1>8

\* All the elements, and none.
LEMMA SubAll ==
  ASSUME NEW s, IsSeq(s) PROVE SubSeq(s, 1, Len(s)) = s /\ SubSeq(s, 1, 0) = <<>>
  <1>1. PICK n : n = Len(s) OBVIOUS
  <1>2. n \in Nat BY <1>1, SeqHas
  <1>3. SubSeq(s, 1, n) = s
    <2>1. PICK b : b = SubSeq(s, 1, n) OBVIOUS
    <2>2. n <= Len(s) /\ 1 <= n + 1 /\ n - 1 + 1 = n /\ \A i \in 1..n : (1 - 1) + i = i
      BY <1>1, <1>2
    <2>3. IsSeq(b) /\ Len(b) = n - 1 + 1 /\ \A i \in 1..(n - 1 + 1) : b[i] = s[(1 - 1) + i]
      BY <1>2, <2>1, <2>2, SeqSub
    <2>4. Len(b) = n /\ \A i \in 1..n : b[i] = s[i] BY <2>2, <2>3
    <2>5. b = s BY <1>1, <2>3, <2>4, SeqSame
    <2> QED BY <2>1, <2>5
  <1>4. SubSeq(s, 1, 0) = <<>>
    <2>1. PICK b, z : z = 0 /\ b = SubSeq(s, 1, z) OBVIOUS
    <2>2. z \in Nat /\ z <= Len(s) /\ 1 <= z + 1 /\ z - 1 + 1 = 0 BY <1>1, <1>2, <2>1
    <2>3. IsSeq(b) /\ Len(b) = z - 1 + 1 BY <2>1, <2>2, SeqSub
    <2>4. Len(b) = 0 BY <2>2, <2>3
    <2>5. b = <<>> BY <2>3, <2>4, SeqEmpty, SeqSame
    <2> QED BY <2>1, <2>5
  <1> QED BY <1>1, <1>3, <1>4

\* There is such a function for all events.
LEMMA TakesExist ==
  ASSUME NEW events, NEW n \in Nat
  PROVE  \E taken : taken = Takes(events, taken, n)
  <1> DEFINE T == {m \in Nat : \E taken : taken = Takes(events, taken, m)}
  <1>1. 0 \in T
    <2>1. PICK taken : taken = [i \in 0..0 |-> NoContent] OBVIOUS
    <2>2. taken = Takes(events, taken, 0) BY <2>1 DEF Takes
    <2> QED BY <2>2
  <1>2. ASSUME NEW k \in Nat, k \in T PROVE k + 1 \in T
    <2>1. PICK f : f = Takes(events, f, k) BY <1>2
    <2>2. PICK e : e = TakeEvent(f[k], events[k + 1]) OBVIOUS
    <2>3. PICK g : g = [i \in 0..(k + 1) |-> IF i = k + 1 THEN e ELSE f[i]] OBVIOUS
    <2>4. ASSUME NEW i \in 0..(k + 1)
          PROVE  g[i] = IF i = 0 THEN NoContent ELSE TakeEvent(g[i - 1], events[i])
      <3>1. CASE i = k + 1
        <4>1. i # 0 /\ i - 1 = k /\ k \in 0..(k + 1) /\ k # k + 1 BY <3>1
        <4>2. g[i] = e /\ g[i - 1] = f[k] BY <2>3, <3>1, <4>1
        <4> QED BY <2>2, <3>1, <4>1, <4>2
      <3>2. CASE i # k + 1
        <4>1. i \in 0..k /\ (i # 0 => i - 1 \in 0..k /\ i - 1 \in 0..(k + 1) /\ i - 1 # k + 1)
          BY <3>2
        <4>2. g[i] = f[i] /\ (i # 0 => g[i - 1] = f[i - 1]) BY <2>3, <3>2, <4>1
        <4>3. f[i] = IF i = 0 THEN NoContent ELSE TakeEvent(f[i - 1], events[i])
          BY <2>1, <4>1 DEF Takes
        <4> QED BY <4>2, <4>3
      <3> QED BY <3>1, <3>2
    <2>5. g = Takes(events, g, k + 1) BY <2>3, <2>4 DEF Takes
    <2> QED BY <2>5
  <1> HIDE DEF T
  <1>3. n \in T BY <1>1, <1>2, Induction
  <1> QED BY <1>3 DEF T

\* What a client has taken of the first events says what they said.
LEMMA TakenSays ==
  ASSUME NEW events, EventsOK(events), NEW f, f = Takes(events, f, Len(events))
  PROVE  f[Len(events)] \in Takens /\ SaidIn(WithText(f[Len(events)])) = SaidBy(events)
  <1>1. PICK n : n = Len(events) OBVIOUS
  <1>2. n \in Nat /\ IsSeq(events) BY <1>1, SeqHas DEF EventsOK
  <1> DEFINE T == {k \in Nat : k <= n =>
                     /\ f[k] \in Takens
                     /\ SaidIn(WithText(f[k])) = SaidBy(SubSeq(events, 1, k))}
  <1>3. 0 \in T
    <2>1. 0 \in 0..n BY <1>2
    <2>2. f[0] = NoContent BY <1>1, <2>1 DEF Takes
    <2>3. PICK c, none : c = f[0] /\ none = <<>> OBVIOUS
    <2>4. none \in Seq(Parts) /\ none \in Fragments BY <2>3 DEF Fragments
    <2>5. c = [parts |-> none, text |-> none] BY <2>2, <2>3 DEF NoContent
    <2>6. c \in Takens /\ c.parts = none /\ c.text = none BY <2>4, <2>5 DEF Takens
    <2>7. SaidIn(WithText(c)) = SaidIn(none) \o Say("text", none) BY <2>6, WithTextSays
    <2>8. SaidIn(WithText(c)) = <<>>
      <3>1. SaidIn(none) = <<>> BY <2>3, SaidInNone
      <3>2. Say("text", none) = <<>> BY <2>3, SayNothing
      <3> QED BY <2>7, <3>1, <3>2
    <2>9. SaidBy(SubSeq(events, 1, 0)) = <<>> BY <1>2, SubAll, SaidByNone
    <2> QED BY <2>3, <2>6, <2>8, <2>9
  <1>4. ASSUME NEW k \in Nat, k \in T PROVE k + 1 \in T
    <2> SUFFICES ASSUME k + 1 <= n
                 PROVE  /\ f[k + 1] \in Takens
                        /\ SaidIn(WithText(f[k + 1])) = SaidBy(SubSeq(events, 1, k + 1))
      OBVIOUS
    <2>1. k + 1 \in 0..n /\ k + 1 # 0 /\ (k + 1) - 1 = k /\ k + 1 \in 1..n /\ k <= n BY <1>2
    <2>2. PICK c, d, e : c = f[k] /\ d = f[k + 1] /\ e = events[k + 1] OBVIOUS
    <2>3. d = TakeEvent(c, e) BY <1>1, <2>1, <2>2 DEF Takes
    <2>4. EventOK(e) BY <1>1, <2>1, <2>2 DEF EventsOK
    <2>5. c \in Takens /\ SaidIn(WithText(c)) = SaidBy(SubSeq(events, 1, k))
      BY <1>4, <2>1, <2>2
    <2>6. d \in Takens /\ SaidIn(WithText(d)) = SaidIn(WithText(c)) \o EventSays(e)
      BY <2>3, <2>4, <2>5, TakeSays
    <2>7. SaidBy(SubSeq(events, 1, k + 1)) = SaidBy(SubSeq(events, 1, k)) \o EventSays(e)
      <3>1. PICK s : s = SubSeq(events, 1, k) OBVIOUS
      <3>2. SubSeq(events, 1, k + 1) = Append(s, e) BY <1>1, <1>2, <2>1, <2>2, <3>1, SubMore
      <3>3. EventsOK(s)
        <4>1. 1 \in Nat \ {0} /\ 1 <= k + 1 /\ k <= Len(events) BY <1>1, <2>1
        <4> QED BY <3>1, <4>1, SubOK
      <3> QED BY <2>4, <3>1, <3>2, <3>3, SaidByAppend
    <2> QED BY <2>2, <2>5, <2>6, <2>7
  <1>5. n \in T
    <2> HIDE DEF T
    <2>1. \A k \in Nat : k \in T BY <1>3, <1>4, Induction
    <2> QED BY <1>2, <2>1
  <1>6. SubSeq(events, 1, n) = events BY <1>1, <1>2, SubAll
  <1>7. f[n] \in Takens /\ SaidIn(WithText(f[n])) = SaidBy(SubSeq(events, 1, n))
    <2>1. n <= n BY <1>2
    <2> QED BY <1>5, <2>1
  <1> HIDE DEF T
  <1> QED BY <1>1, <1>6, <1>7

\* The content made of events says what the events said.
LEMMA EventsContentSays ==
  ASSUME NEW events, EventsOK(events)
  PROVE  SaidIn(ContentFromEvents(events)) = SaidBy(events)
  <1>1. Len(events) \in Nat BY SeqHas DEF EventsOK
  <1> DEFINE f == CHOOSE f : f = Takes(events, f, Len(events))
  <1>2. \E g : g = Takes(events, g, Len(events)) BY <1>1, TakesExist
  <1>3. f = Takes(events, f, Len(events)) BY <1>2
  <1>4. ContentFromEvents(events) = WithText(f[Len(events)])
    BY DEF ContentFromEvents, Takes, TakeEvent, NoContent
  <1> HIDE DEF f
  <1> QED BY <1>3, <1>4, TakenSays

\* What is read of a message's content says the same.
LEMMA ParsedSays ==
  ASSUME NEW content, PartsOK(content)
  PROVE  SaidIn(ParseContent(content)) = SaidIn(content)
  <1>1. DOMAIN content = 1..Len(content) BY SeqHas DEF PartsOK
  <1>2. PICK parsed : parsed = ParseContent(content) OBVIOUS
  <1>3. /\ DOMAIN parsed = DOMAIN content
        /\ \A i \in DOMAIN content :
             parsed[i] = IF content[i].type = "tool_call" THEN ToolCall(content[i]) ELSE content[i]
    BY <1>2 DEF ParseContent
  <1>4. ASSUME NEW i \in DOMAIN content PROVE PartSays(parsed[i]) = PartSays(content[i])
    <2>1. PICK p, q : p = content[i] /\ q = parsed[i] OBVIOUS
    <2>2. p \in LoopParts BY <1>1, <2>1 DEF PartsOK
    <2>3. CASE p.type = "tool_call"
      <3>1. p \in LoopCalls BY <2>2, <2>3, KindOfPart
      <3>2. q = ToolCall(p) BY <1>3, <2>1, <2>3
      <3>3. DOMAIN p = {"type", "id", "name", "arguments_json"} /\ p.id \in Ids /\ p.name = Tools
            /\ p.arguments_json \in Fragments
        BY <3>1 DEF LoopCalls
      <3>4. Str(p, <<"tool_call_id", "id">>) = p.id
        <4>1. First(p, <<"tool_call_id", "id">>, Absent) = p.id BY <3>3, FirstOfTwo
        <4> QED BY <4>1, StrIs
      <3>5. Str(p, <<"name">>) = p.name
        <4>1. First(p, <<"name">>, Absent) = p.name BY <3>3, FirstOfOne
        <4> QED BY <4>1, StrIs
      <3>6. First(p, <<"arguments_json">>, <<>>) = p.arguments_json
        <4>1. "arguments_json" \in DOMAIN p BY <3>3
        <4> QED BY <4>1, FirstOfOne
      <3>7. q = [type |-> "tool_call", tool_call_id |-> p.id, name |-> p.name,
                 arguments_json |-> p.arguments_json]
        BY <3>2, <3>4, <3>5, <3>6 DEF ToolCall
      <3>8. q \in ReadCalls /\ q.tool_call_id = p.id /\ q.name = p.name
            /\ q.arguments_json = p.arguments_json
        BY <3>3, <3>7 DEF ReadCalls
      <3>9. p \in Parts /\ q \in Parts BY <3>1, <3>8 DEF Parts, LoopParts
      <3>10. PartSays(p) = SaysCall(p.id, p) BY <3>1, <3>9, PartSaysIn
      <3>11. PartSays(q) = SaysCall(q.tool_call_id, q) BY <3>8, <3>9, PartSaysIn
      <3>12. SaysCall(q.tool_call_id, q) = SaysCall(p.id, p) BY <3>8 DEF SaysCall
      <3> QED BY <2>1, <3>10, <3>11, <3>12
    <2>4. CASE p.type # "tool_call" BY <1>3, <2>1, <2>4
    <2> QED BY <2>3, <2>4
  <1>5. [i \in DOMAIN parsed |-> PartSays(parsed[i])]
          = [i \in DOMAIN content |-> PartSays(content[i])]
    BY <1>3, <1>4
  <1> QED BY <1>2, <1>5 DEF SaidIn

=============================================================================
