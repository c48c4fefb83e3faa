--------------------------- MODULE TransportProofs ---------------------------
(***************************************************************************)
(* Proofs about Transport, for any tasks, requests, children and bounds:   *)
(* type correctness, who owns a live child, what close() leaves behind,    *)
(* and that a route's terminal error is the last thing it receives.        *)
(***************************************************************************)
EXTENDS Transport, TLAPS

Closing(t) == pc[t] \in {"reaping", "adopting", "joining"}

\* A task that spawns holds the lock, so that nothing is installed meanwhile.
NothingInstalled == \A t \in Tasks : pc[t] = "spawning" => process = None

\* A closed transport has no child, and only a closed one has a teardown; whoever
\* is in the second half of close() or returned from it left none to adopt.
ClosedForGood ==
  /\ closed => process = None
  /\ teardown # None => closed
  /\ \A t \in Tasks : Closing(t) => closed /\ teardown = None
  /\ returned => closed /\ teardown = None

\* A child in hand, installed or torn down was spawned.
Spawned ==
  \A p \in Children : child[p] = "unborn" =>
    /\ p # process /\ p # source /\ p # teardown /\ p \notin tearing
    /\ \A t \in Tasks : hand[t] # p

\* The child of a teardown task is in _teardown_task until a close() adopts it.
TeardownHeld ==
  \A p \in tearing : teardown = p \/ \E t \in Tasks : pc[t] = "adopting" /\ hand[t] = p

\* A discarded child was never read from.
DiscardedUnread == \A t \in Tasks : pc[t] = "discarding" => hand[t] # source

\* Routes fail after the transport closed and the reader ended, neither of which
\* is taken back.
FailedUnread == \A r \in Requests : failed[r] => closed /\ reader # "reading"

\* Frames in a route were printed and read.
FramesPrinted == \A r \in Requests : queued[r] + Len(stdout) <= printed

ChildInv ==
  /\ NothingInstalled /\ ClosedForGood /\ Spawned /\ TeardownHeld /\ DiscardedUnread /\ ChildOwned

RouteInv == FailedUnread /\ FramesPrinted

TransportInv == TypeOK /\ ChildInv /\ RouteInv

-----------------------------------------------------------------------------
(***************************************************************************)
(* Steps that leave a part of the invariant alone.                         *)
(***************************************************************************)

\* What a live child belongs to does not depend on routes.
LEMMA ChildUnchanged ==
  ASSUME ChildInv,
         UNCHANGED <<process, closed, teardown, source, pc, hand, child, stage, tearing,
         returned>>
  PROVE  ChildInv'
  BY DEF ChildInv, NothingInstalled, ClosedForGood, Closing, Spawned, TeardownHeld,
         DiscardedUnread, ChildOwned

\* Routes are told of nothing new while no line is read and no child is installed.
LEMMA RouteKept ==
  ASSUME RouteInv, UNCHANGED <<queued, stdout, printed>>,
         \A r \in Requests : failed'[r] => failed[r],
         closed => closed', reader' = "reading" => reader = "reading"
  PROVE  RouteInv'
  BY DEF RouteInv, FailedUnread, FramesPrinted

\* A task between two awaits of connect(), or at its start.
LEMMA TaskMoves ==
  ASSUME TransportInv, NEW t \in Tasks,
         \/ BeginConnect(t) \/ Acquire(t) \/ SpawnFails(t) \/ Discarded(t) \/ Connected(t)
  PROVE  TransportInv'
<1> USE DEF TransportInv, ChildInv, BeginConnect, Acquire, SpawnFails, Discarded, Connected,
            Return, Goto, fieldVars, readerVars, childVars, requestVars, boundVars
<1>1. TypeOK'
  <2>1. TaskTypes'
    BY TransportAssumption DEF TypeOK, TaskTypes, TransportAssumption
  <2>2. ChildTypes'
    BY DEF TypeOK, ChildTypes
  <2>3. ReaderTypes'
    BY DEF TypeOK, ReaderTypes
  <2>4. RequestTypes'
    BY DEF TypeOK, RequestTypes, Open
  <2> QED
    BY <2>1, <2>2, <2>3, <2>4 DEF TypeOK
<1>2. NothingInstalled'
  BY DEF TypeOK, TaskTypes, ChildTypes, NothingInstalled
<1>3. ClosedForGood'
  BY DEF TypeOK, TaskTypes, ChildTypes, ClosedForGood, Closing
<1>4. Spawned'
  BY TransportAssumption DEF TypeOK, TaskTypes, ChildTypes, Spawned, TransportAssumption
<1>5. TeardownHeld'
  BY DEF TypeOK, TaskTypes, ChildTypes, TeardownHeld
<1>6. DiscardedUnread'
  BY DEF TypeOK, TaskTypes, ChildTypes, DiscardedUnread
<1>7. ChildOwned'
  BY DEF TypeOK, TaskTypes, ChildTypes, ChildOwned
<1>8. RouteInv'
  BY RouteKept
<1> QED
  BY <1>1, <1>2, <1>3, <1>4, <1>5, <1>6, <1>7, <1>8

\* A child is spawned, and installed or discarded.
LEMMA SpawnStep ==
  ASSUME TransportInv, NEW t \in Tasks, NEW p \in Children, Spawn(t, p)
  PROVE  TransportInv'
<1> USE DEF TransportInv, ChildInv, Spawn, Install, Reaping, Goto,
            fieldVars, readerVars, childVars, requestVars, boundVars
<1>1. TypeOK'
  <2>1. TaskTypes'
    BY TransportAssumption DEF TypeOK, TaskTypes, TransportAssumption
  <2>2. ChildTypes'
    BY DEF TypeOK, ChildTypes
  <2>3. ReaderTypes'
    <3>1. stdout' \in Seq(Lines)
      <4>1. stdout' = stdout \/ stdout' = <<>>
        OBVIOUS
      <4>2. stdout \in Seq(Lines) /\ <<>> \in Seq(Lines)
        BY DEF TypeOK, ReaderTypes
      <4> QED
        BY <4>1, <4>2
    <3>2. source' \in Children \union {None} /\ (reader' = "none" \/ source' # None)
      BY TransportAssumption DEF TypeOK, ReaderTypes, TransportAssumption
    <3>3. reader' \in {"none", "reading", "cancelled"} /\ handshake' \in {"none", "pending", "ok", "failed"}
      BY DEF TypeOK, ReaderTypes
    <3> QED
      BY <3>1, <3>2, <3>3 DEF TypeOK, ReaderTypes
  <2>4. RequestTypes'
    BY DEF TypeOK, RequestTypes, Open
  <2> QED
    BY <2>1, <2>2, <2>3, <2>4 DEF TypeOK
<1>2. NothingInstalled'
  BY DEF TypeOK, TaskTypes, ChildTypes, NothingInstalled
<1>3. ClosedForGood'
  BY DEF TypeOK, TaskTypes, ChildTypes, ClosedForGood, Closing
<1>4. Spawned'
  BY DEF TypeOK, TaskTypes, ChildTypes, Spawned
<1>5. TeardownHeld'
  BY DEF TypeOK, TaskTypes, ChildTypes, TeardownHeld
<1>6. DiscardedUnread'
  BY DEF TypeOK, TaskTypes, ChildTypes, DiscardedUnread, Spawned
<1>7. ChildOwned'
  <2>1. \/ closed /\ pc'[t] = "discarding" /\ hand'[t] = p
        \/ process = None /\ process' = p
    BY DEF TypeOK, TaskTypes, NothingInstalled
  <2>2. ASSUME NEW q \in Children \ {p}, child'[q] = "alive"
        PROVE  \/ q = process' \/ q \in tearing' \/ stage'[q] = "kill"
               \/ \E u \in Tasks : pc'[u] \in {"reaping", "discarding"} /\ hand'[u] = q
    <3>1. child[q] = "alive" /\ stage'[q] = stage[q] /\ (q = process => q = process')
      BY <2>1, <2>2, TransportAssumption DEF TypeOK, ChildTypes, TransportAssumption
    <3>2. \A u \in Tasks : pc[u] \in {"reaping", "discarding"} => pc'[u] = pc[u] /\ hand'[u] = hand[u]
      BY DEF TypeOK, TaskTypes
    <3> QED
      BY <3>1, <3>2 DEF ChildOwned
  <2> QED
    BY <2>1, <2>2 DEF ChildOwned
<1>8. RouteInv'
  <2>1. FailedUnread'
    BY DEF RouteInv, FailedUnread
  <2>2. FramesPrinted'
    BY DEF TypeOK, ReaderTypes, RequestTypes, RouteInv, FramesPrinted
  <2> QED
    BY <2>1, <2>2 DEF RouteInv
<1> QED
  BY <1>1, <1>2, <1>3, <1>4, <1>5, <1>6, <1>7, <1>8

-----------------------------------------------------------------------------
(***************************************************************************)
(* close().                                                                *)
(***************************************************************************)

\* What the end of close() does, whether it waits for the reader or returns.
LEMMA JoinReaderDoes ==
  ASSUME TransportInv, NEW t \in Tasks, NEW h \in {"none", "pending", "ok", "failed"},
         JoinReader(t, h)
  PROVE  /\ TaskTypes' /\ handshake' \in {"none", "pending", "ok", "failed"}
         /\ \A u \in Tasks \ {t} : pc'[u] = pc[u] /\ hand'[u] = hand[u]
         /\ hand'[t] = None
         /\ \/ pc'[t] = "joining" /\ reader = "reading" /\ reader' = "cancelled"
               /\ failed' = failed /\ returned' = returned
            \/ pc'[t] = "idle" /\ reader # "reading" /\ reader' = reader
               /\ failed' = [r \in Requests |-> failed[r] \/ Open(r)] /\ returned' = TRUE
<1> USE DEF JoinReader, FailAll, CloseReturns, Return, Goto, TransportInv, TypeOK
<1>1. TaskTypes'
  BY DEF TaskTypes
<1>2. handshake' \in {"none", "pending", "ok", "failed"}
  OBVIOUS
<1>3. /\ \A u \in Tasks \ {t} : pc'[u] = pc[u] /\ hand'[u] = hand[u]
      /\ hand'[t] = None
  BY DEF TaskTypes
<1>4. \/ pc'[t] = "joining" /\ reader = "reading" /\ reader' = "cancelled"
         /\ failed' = failed /\ returned' = returned
      \/ pc'[t] = "idle" /\ reader # "reading" /\ reader' = reader
         /\ failed' = [r \in Requests |-> failed[r] \/ Open(r)] /\ returned' = TRUE
  BY DEF TaskTypes
<1> QED
  BY <1>1, <1>2, <1>3, <1>4

\* close() up to its first await, from its start or from a connect() that gives up.
LEMMA EnterCloseDoes ==
  ASSUME TransportInv, NEW t \in Tasks, NEW h \in {"none", "pending", "ok", "failed"},
         EnterClose(t, h)
  PROVE  /\ TaskTypes' /\ handshake' \in {"none", "pending", "ok", "failed"}
         /\ \A u \in Tasks \ {t} : pc'[u] = pc[u] /\ hand'[u] = hand[u]
         /\ closed' /\ process' = None /\ teardown' = None
         /\ closed' \in BOOLEAN /\ returned' \in BOOLEAN
         /\ pc'[t] \in {"idle", "reaping", "adopting", "joining"}
         /\ teardown \in tearing => process # None \/ (pc'[t] = "adopting" /\ hand'[t] = teardown)
         /\ hand'[t] \in {None, process, teardown}
         /\ \/ process # None /\ pc'[t] = "reaping" /\ hand'[t] = process
               /\ stage' = [stage EXCEPT ![process] = "grace"]
            \/ process = None /\ stage' = stage
         /\ \/ reader' = reader /\ failed' = failed
            \/ reader = "reading" /\ reader' = "cancelled" /\ failed' = failed
            \/ reader # "reading" /\ reader' = reader
               /\ failed' = [r \in Requests |-> failed[r] \/ Open(r)]
<1> USE DEF TransportInv, ChildInv
<1>0. None \notin tearing
  BY TransportAssumption DEF TransportAssumption, TypeOK, ChildTypes
<1>1. CASE /\ closed /\ process = None /\ teardown = None
           /\ CloseReturns(t) /\ handshake' = h
           /\ UNCHANGED <<fieldVars, reader, failed, stage>>
  <2>1. TaskTypes'
    BY <1>1 DEF CloseReturns, Return, TypeOK, TaskTypes
  <2>2. handshake' \in {"none", "pending", "ok", "failed"} /\ UNCHANGED <<fieldVars, reader, failed, stage>>
    BY <1>1
  <2>3. pc'[t] = "idle" /\ hand'[t] = None /\ \A u \in Tasks \ {t} : pc'[u] = pc[u] /\ hand'[u] = hand[u]
    BY <1>1 DEF CloseReturns, Return, TypeOK, TaskTypes
  <2>4. closed' \in BOOLEAN /\ returned' \in BOOLEAN /\ closed'
    BY <1>1 DEF CloseReturns, fieldVars, TypeOK, ChildTypes
  <2> QED
    BY <1>1, <2>1, <2>2, <2>3, <2>4, <1>0 DEF fieldVars
<1>2. CASE /\ process # None
           /\ closed' = TRUE /\ process' = None /\ Reaping(process)
           /\ Goto(t, "reaping", process) /\ handshake' = h
           /\ UNCHANGED <<teardown, reader, failed, returned>>
  <2>1. TaskTypes'
    BY <1>2 DEF Goto, TypeOK, TaskTypes, ChildTypes
  <2>2. teardown = None
    BY <1>2 DEF ClosedForGood
  <2>3. pc'[t] = "reaping" /\ hand'[t] = process /\ \A u \in Tasks \ {t} : pc'[u] = pc[u] /\ hand'[u] = hand[u]
    BY <1>2 DEF Goto, TypeOK, TaskTypes
  <2>4. closed' \in BOOLEAN /\ returned' \in BOOLEAN /\ closed'
    BY <1>2 DEF TypeOK, ChildTypes
  <2> QED
    BY <1>2, <2>1, <2>2, <2>3, <2>4, <1>0 DEF Reaping
<1>3. CASE /\ process = None /\ teardown \in tearing
           /\ closed' = TRUE /\ teardown' = None
           /\ Goto(t, "adopting", teardown) /\ handshake' = h
           /\ UNCHANGED <<process, reader, failed, stage, returned>>
  <2>1. TaskTypes'
    BY <1>3 DEF Goto, TypeOK, TaskTypes, ChildTypes
  <2> QED
    BY <1>3, <2>1 DEF Goto, TypeOK, TaskTypes, ChildTypes
<1>4. CASE /\ process = None /\ teardown \notin tearing /\ (~closed \/ teardown # None)
           /\ closed' = TRUE /\ teardown' = None
           /\ JoinReader(t, h)
           /\ UNCHANGED <<process, stage>>
  BY <1>4, JoinReaderDoes DEF TypeOK, ChildTypes
<1> QED
  BY <1>1, <1>2, <1>3, <1>4 DEF EnterClose

LEMMA EnterCloseStep ==
  ASSUME TransportInv, NEW t \in Tasks, NEW h \in {"none", "pending", "ok", "failed"},
         pc[t] \in {"idle", "handshaking"}, EnterClose(t, h),
         UNCHANGED <<source, stdout, child, tearing, requestVars, printed>>,
         cancels' \in 0..MaxCancels
  PROVE  TransportInv'
<1> USE DEF TransportInv, ChildInv, requestVars
<1>0. /\ TaskTypes' /\ handshake' \in {"none", "pending", "ok", "failed"}
      /\ \A u \in Tasks \ {t} : pc'[u] = pc[u] /\ hand'[u] = hand[u]
      /\ closed' /\ process' = None /\ teardown' = None
      /\ closed' \in BOOLEAN /\ returned' \in BOOLEAN
      /\ pc'[t] \in {"idle", "reaping", "adopting", "joining"}
      /\ teardown \in tearing => process # None \/ (pc'[t] = "adopting" /\ hand'[t] = teardown)
      /\ hand'[t] \in {None, process, teardown}
      /\ \/ process # None /\ pc'[t] = "reaping" /\ hand'[t] = process
            /\ stage' = [stage EXCEPT ![process] = "grace"]
         \/ process = None /\ stage' = stage
      /\ \/ reader' = reader /\ failed' = failed
         \/ reader = "reading" /\ reader' = "cancelled" /\ failed' = failed
         \/ reader # "reading" /\ reader' = reader
            /\ failed' = [r \in Requests |-> failed[r] \/ Open(r)]
  BY EnterCloseDoes
<1>1. TypeOK'
  <2>1. ChildTypes'
    BY <1>0 DEF TypeOK, ChildTypes
  <2>2. ReaderTypes'
    BY <1>0 DEF TypeOK, ReaderTypes
  <2>3. RequestTypes'
    BY <1>0 DEF TypeOK, RequestTypes, Open
  <2> QED
    BY <1>0, <2>1, <2>2, <2>3 DEF TypeOK
<1>2. NothingInstalled' /\ ClosedForGood'
  BY <1>0 DEF NothingInstalled, ClosedForGood
<1>3. Spawned'
  BY <1>0, TransportAssumption DEF Spawned, TransportAssumption
<1>4. TeardownHeld'
  <2>1. teardown # None => process = None
    BY DEF ClosedForGood
  <2>2. SUFFICES ASSUME NEW p \in tearing
                 PROVE  \E u \in Tasks : pc'[u] = "adopting" /\ hand'[u] = p
    BY DEF TeardownHeld
  <2>3. CASE teardown = p
    BY <1>0, <2>1, <2>3, TransportAssumption DEF TypeOK, ChildTypes, TransportAssumption
  <2>4. CASE \E u \in Tasks : pc[u] = "adopting" /\ hand[u] = p
    BY <1>0, <2>4
  <2> QED
    BY <2>3, <2>4 DEF TeardownHeld
<1>5. DiscardedUnread'
  BY <1>0 DEF DiscardedUnread
<1>6. ChildOwned'
  <2> SUFFICES ASSUME NEW p \in Children, child[p] = "alive"
               PROVE  \/ p \in tearing \/ stage'[p] = "kill"
                      \/ \E u \in Tasks : pc'[u] \in {"reaping", "discarding"} /\ hand'[u] = p
    BY DEF ChildOwned
  <2>1. CASE p = process
    BY <1>0, <2>1, TransportAssumption DEF TransportAssumption
  <2>2. CASE p # process
    <3>1. stage'[p] = stage[p]
      BY <1>0, <2>2 DEF TypeOK, ChildTypes
    <3>2. \A u \in Tasks : pc[u] \in {"reaping", "discarding"} => pc'[u] = pc[u] /\ hand'[u] = hand[u]
      BY <1>0
    <3> QED
      BY <2>2, <3>1, <3>2 DEF ChildOwned
  <2> QED
    BY <2>1, <2>2
<1>7. RouteInv'
  BY <1>0 DEF RouteInv, FailedUnread, FramesPrinted
<1> QED
  BY <1>1, <1>2, <1>3, <1>4, <1>5, <1>6, <1>7

LEMMA ClosingBegins ==
  ASSUME TransportInv, NEW t \in Tasks,
         HandshakeFails(t) \/ HandshakeTimesOut(t) \/ BeginClose(t)
  PROVE  TransportInv'
<1>1. handshake \in {"none", "pending", "ok", "failed"} /\ cancels \in 0..MaxCancels
  BY DEF TransportInv, TypeOK, ReaderTypes
<1>2. GivenUp \in {"none", "pending", "ok", "failed"}
  BY <1>1 DEF GivenUp
<1> QED
  BY <1>1, <1>2, EnterCloseStep DEF HandshakeFails, HandshakeTimesOut, BeginClose, boundVars

\* The child that close() waited for is gone, then the reader.
LEMMA ClosingGoesOn ==
  ASSUME TransportInv, NEW t \in Tasks, Reaped(t) \/ Joined(t)
  PROVE  TransportInv'
<1> USE DEF TransportInv, ChildInv
<1>1. UNCHANGED <<fieldVars, source, stdout, childVars, requestVars, boundVars>>
  BY DEF Reaped, Joined, readerVars
<1>2. handshake \in {"none", "pending", "ok", "failed"}
  BY DEF TypeOK, ReaderTypes
<1>3. /\ pc[t] \in {"reaping", "adopting", "joining"}
      /\ pc[t] = "reaping" => child[hand[t]] = "dead"
      /\ pc[t] = "adopting" => hand[t] \notin tearing
  BY DEF Reaped, Joined
<1>4. /\ TaskTypes' /\ handshake' \in {"none", "pending", "ok", "failed"}
      /\ \A u \in Tasks \ {t} : pc'[u] = pc[u] /\ hand'[u] = hand[u]
      /\ hand'[t] = None
      /\ \/ pc'[t] = "joining" /\ reader = "reading" /\ reader' = "cancelled"
            /\ failed' = failed /\ returned' = returned
         \/ pc'[t] = "idle" /\ reader # "reading" /\ reader' = reader
            /\ failed' = [r \in Requests |-> failed[r] \/ Open(r)] /\ returned' = TRUE
  <2>1. CASE Reaped(t)
    BY <1>2, <2>1, JoinReaderDoes DEF Reaped
  <2>2. CASE Joined(t)
    BY <1>2, <2>2, JoinReaderDoes DEF Joined, JoinReader, readerVars
  <2> QED
    BY <2>1, <2>2
<1>5. closed /\ teardown = None
  BY <1>3 DEF ClosedForGood, Closing
<1> USE DEF fieldVars, childVars, requestVars, boundVars
<1>6. TypeOK'
  <2>1. ChildTypes'
    BY <1>1, <1>4 DEF TypeOK, ChildTypes
  <2>2. ReaderTypes'
    BY <1>1, <1>4 DEF TypeOK, ReaderTypes
  <2>3. RequestTypes'
    BY <1>1, <1>4 DEF TypeOK, RequestTypes, Open
  <2> QED
    BY <1>4, <2>1, <2>2, <2>3 DEF TypeOK
<1>7. NothingInstalled' /\ ClosedForGood'
  BY <1>1, <1>4, <1>5 DEF NothingInstalled, ClosedForGood, Closing
<1>8. Spawned'
  BY <1>1, <1>4, TransportAssumption DEF Spawned, TransportAssumption
<1>9. TeardownHeld' /\ DiscardedUnread'
  BY <1>1, <1>3, <1>4 DEF TeardownHeld, DiscardedUnread
<1>10. ChildOwned'
  BY <1>1, <1>3, <1>4 DEF ChildOwned
<1>11. RouteInv'
  BY <1>1, <1>4, <1>5 DEF RouteInv, FailedUnread, FramesPrinted
<1> QED
  BY <1>6, <1>7, <1>8, <1>9, <1>10, <1>11

\* A cancelled call hurries its child on, or leaves it once it is killed.
LEMMA CancelStep ==
  ASSUME TransportInv, NEW t \in Tasks, Cancel(t)
  PROVE  TransportInv'
<1> USE DEF TransportInv, ChildInv
<1>0. cancels' \in 0..MaxCancels /\ UNCHANGED <<source, stdout, child, requestVars, printed>>
  BY TransportAssumption DEF Cancel, TypeOK, ReaderTypes, TransportAssumption
<1>1. CASE pc[t] = "handshaking"
  <2>1. GivenUp \in {"none", "pending", "ok", "failed"}
    BY DEF GivenUp, TypeOK, ReaderTypes
  <2>2. EnterClose(t, GivenUp) /\ UNCHANGED tearing
    BY <1>1 DEF Cancel
  <2> QED
    BY <1>0, <1>1, <2>1, <2>2, EnterCloseStep
<1>2. CASE pc[t] # "handshaking"
  <2>1. UNCHANGED <<fieldVars, handshake, reader, failed, returned>>
    BY <1>2 DEF Cancel
  <2>2. TaskTypes'
    BY <1>2, TransportAssumption DEF Cancel, Return, taskVars, TypeOK, TaskTypes,
       TransportAssumption
  <2>3. /\ \A u \in Tasks \ {t} : pc'[u] = pc[u] /\ hand'[u] = hand[u]
        /\ \/ pc'[t] = pc[t] /\ hand'[t] = hand[t]
           \/ pc'[t] = "idle" /\ hand'[t] = None
              /\ (pc[t] \in {"reaping", "discarding"} => stage[hand[t]] = "kill")
              /\ pc[t] # "adopting"
    BY <1>2 DEF Cancel, Return, taskVars, TypeOK, TaskTypes
  <2>4. /\ stage' \in [Children -> {"none", "grace", "term", "kill"}]
        /\ \A p \in Children : stage[p] = "kill" => stage'[p] = "kill"
    BY <1>2 DEF Cancel, Escalated, TypeOK, ChildTypes
  <2>5. \/ tearing' = tearing
        \/ pc[t] = "adopting" /\ stage[hand[t]] = "kill" /\ tearing' = tearing \ {hand[t]}
           /\ stage' = stage /\ pc' = pc /\ hand' = hand
    BY <1>2 DEF Cancel, taskVars
  <2> USE DEF fieldVars, requestVars
  <2>6. TypeOK'
    <3>1. ChildTypes'
      BY <1>0, <2>1, <2>4, <2>5 DEF TypeOK, ChildTypes
    <3>2. ReaderTypes'
      BY <1>0, <2>1 DEF TypeOK, ReaderTypes
    <3>3. RequestTypes'
      BY <1>0, <2>1 DEF TypeOK, RequestTypes, Open
    <3> QED
      BY <2>2, <3>1, <3>2, <3>3 DEF TypeOK
  <2>7. NothingInstalled' /\ ClosedForGood'
    BY <2>1, <2>3 DEF NothingInstalled, ClosedForGood, Closing
  <2>8. Spawned' /\ DiscardedUnread'
    BY <1>0, <2>1, <2>3, <2>5, TransportAssumption DEF Spawned, DiscardedUnread,
       TransportAssumption
  <2>9. TeardownHeld'
    BY <2>1, <2>3, <2>5 DEF TeardownHeld
  <2>10. ChildOwned'
    BY <1>0, <2>1, <2>3, <2>4, <2>5 DEF ChildOwned
  <2>11. RouteInv'
    BY <1>0, <2>1, RouteKept
  <2> QED
    BY <2>6, <2>7, <2>8, <2>9, <2>10, <2>11
<1> QED
  BY <1>1, <1>2

-----------------------------------------------------------------------------
(***************************************************************************)
(* The child and the reader.                                               *)
(***************************************************************************)
LEMMA ChildStep ==
  ASSUME TransportInv, NEW p \in Children, Escalate(p) \/ TornDown(p) \/ Die(p)
  PROVE  TransportInv'
<1> USE DEF TransportInv, ChildInv, Escalate, TornDown, Die, Escalated,
            fieldVars, readerVars, taskVars, requestVars, boundVars
<1>1. TypeOK'
  <2>1. TaskTypes'
    BY DEF TypeOK, TaskTypes
  <2>2. ChildTypes'
    BY DEF TypeOK, ChildTypes
  <2>3. ReaderTypes'
    BY DEF TypeOK, ReaderTypes
  <2>4. RequestTypes'
    BY DEF TypeOK, RequestTypes, Open
  <2> QED
    BY <2>1, <2>2, <2>3, <2>4 DEF TypeOK
<1>2. NothingInstalled' /\ ClosedForGood' /\ DiscardedUnread'
  BY DEF NothingInstalled, ClosedForGood, Closing, DiscardedUnread
<1>3. Spawned'
  BY DEF Spawned, TypeOK, ChildTypes
<1>4. TeardownHeld'
  BY DEF TeardownHeld
<1>5. ChildOwned'
  BY DEF ChildOwned, TypeOK, ChildTypes
<1>6. RouteInv'
  BY RouteKept
<1> QED
  BY <1>1, <1>2, <1>3, <1>4, <1>5, <1>6

LEMMA PrintStep ==
  ASSUME TransportInv, NEW line \in Lines, PrintLine(line)
  PROVE  TransportInv'
<1> USE DEF TransportInv, PrintLine, fieldVars, taskVars, childVars, requestVars
<1>1. stdout' \in Seq(Lines) /\ Len(stdout') = Len(stdout) + 1 /\ printed' \in 0..MaxLines
  BY TransportAssumption DEF TypeOK, ReaderTypes, TransportAssumption
<1>2. TypeOK'
  <2>1. TaskTypes' /\ ChildTypes'
    BY DEF TypeOK, TaskTypes, ChildTypes
  <2>2. ReaderTypes'
    BY <1>1 DEF TypeOK, ReaderTypes
  <2>3. RequestTypes'
    BY DEF TypeOK, RequestTypes, Open
  <2> QED
    BY <2>1, <2>2, <2>3 DEF TypeOK
<1>3. ChildInv'
  BY ChildUnchanged
<1>4. FailedUnread'
  BY DEF RouteInv, FailedUnread
<1>5. FramesPrinted'
  BY <1>1 DEF RouteInv, FramesPrinted, TypeOK, ReaderTypes, RequestTypes
<1> QED
  BY <1>2, <1>3, <1>4, <1>5 DEF RouteInv

\* What is left of the child's output was printed.
LEMMA TailOfOutput ==
  ASSUME TypeOK, stdout # <<>>
  PROVE  /\ Tail(stdout) \in Seq(Lines) /\ Len(Tail(stdout)) = Len(stdout) - 1
         /\ Len(stdout) \in Nat /\ printed \in Nat
  BY TransportAssumption DEF TypeOK, ReaderTypes, TransportAssumption

\* The reader gives the child up to a teardown task, after a line too long or at
\* the end of the output.
LEMMA AbandonStep ==
  ASSUME TransportInv, reader = "reading", Abandon,
         UNCHANGED <<source, taskVars, child, requestVars, boundVars, returned>>,
         stdout' = stdout \/ (stdout # <<>> /\ stdout' = Tail(stdout))
  PROVE  TransportInv'
<1> USE DEF TransportInv, ChildInv, taskVars, requestVars, boundVars
<1>1. closed' /\ closed' \in BOOLEAN /\ process' = None /\ reader' = "none"
  BY DEF Abandon
<1>2. /\ failed' = [r \in Requests |-> failed[r] \/ Open(r)]
      /\ handshake' \in {"none", "pending", "ok", "failed"}
  BY DEF Abandon, FailAll, TypeOK, ReaderTypes
<1>3. \/ process = None /\ UNCHANGED <<teardown, tearing, stage>>
      \/ /\ process # None /\ ~closed /\ teardown = None
         /\ teardown' = process /\ tearing' = tearing \union {process}
         /\ stage' = [stage EXCEPT ![process] = "grace"]
  BY DEF Abandon, Reaping, ClosedForGood
<1>4. stdout' \in Seq(Lines) /\ Len(stdout') <= Len(stdout) /\ Len(stdout') \in Nat
  BY TailOfOutput DEF TypeOK, ReaderTypes
<1>5. TypeOK'
  <2>1. TaskTypes'
    BY DEF TypeOK, TaskTypes
  <2>2. ChildTypes'
    BY <1>1, <1>3 DEF TypeOK, ChildTypes
  <2>3. ReaderTypes'
    BY <1>1, <1>2, <1>4 DEF TypeOK, ReaderTypes
  <2>4. RequestTypes'
    BY <1>2 DEF TypeOK, RequestTypes, Open
  <2> QED
    BY <2>1, <2>2, <2>3, <2>4 DEF TypeOK
<1>6. NothingInstalled' /\ DiscardedUnread'
  BY <1>1 DEF NothingInstalled, DiscardedUnread
<1>7. ClosedForGood'
  BY <1>1, <1>3 DEF ClosedForGood, Closing
<1>8. Spawned'
  BY <1>1, <1>3, TransportAssumption DEF Spawned, TransportAssumption
<1>9. TeardownHeld'
  <2>1. CASE process = None
    BY <1>3, <2>1 DEF TeardownHeld
  <2>2. CASE process # None
    <3>1. tearing = {}
      BY <1>3, <2>2, TransportAssumption
      DEF TeardownHeld, ClosedForGood, Closing, TypeOK, ChildTypes, TransportAssumption
    <3> QED
      BY <1>3, <2>2, <3>1 DEF TeardownHeld
  <2> QED
    BY <2>1, <2>2
<1>10. ChildOwned'
  BY <1>1, <1>3, TransportAssumption DEF ChildOwned, TypeOK, ChildTypes, TransportAssumption
<1>11. FailedUnread'
  BY <1>1 DEF FailedUnread
<1>12. FramesPrinted'
  BY <1>4, TailOfOutput DEF RouteInv, FramesPrinted, TypeOK, ReaderTypes, RequestTypes
<1> QED
  BY <1>5, <1>6, <1>7, <1>8, <1>9, <1>10, <1>11, <1>12 DEF RouteInv

\* A line settles the handshake or goes to the open route it names.
LEMMA LineRead ==
  ASSUME TransportInv, ReadLine, ~Abandon
  PROVE  TransportInv'
<1> USE DEF TransportInv
<1> DEFINE line == Head(stdout)
<1>1. /\ reader = "reading" /\ stdout # <<>> /\ stdout' = Tail(stdout)
      /\ UNCHANGED <<fieldVars, reader, stage, tearing, failed>>
      /\ UNCHANGED <<source, taskVars, child, request, writer, boundVars, returned>>
      /\ handshake' \in {"none", "pending", "ok", "failed"}
  BY DEF ReadLine, TypeOK, ReaderTypes
<1>2. \/ queued' = queued
      \/ line \in Requests /\ Open(line) /\ queued' = [queued EXCEPT ![line] = @ + 1]
  BY DEF ReadLine
<1>3. /\ stdout' \in Seq(Lines) /\ Len(stdout') = Len(stdout) - 1
      /\ Len(stdout) \in Nat /\ printed \in Nat /\ printed <= MaxLines
  BY <1>1, TailOfOutput, TransportAssumption DEF TypeOK, ReaderTypes, TransportAssumption
<1>4. FramesPrinted' /\ queued' \in [Requests -> 0..MaxLines]
  <2>1. \A r \in Requests : queued[r] \in Nat /\ queued[r] + Len(stdout) <= printed
    BY TransportAssumption DEF TypeOK, RequestTypes, RouteInv, FramesPrinted, TransportAssumption
  <2>2. Len(stdout) >= 1
    BY <1>1, <1>3 DEF TypeOK, ReaderTypes
  <2>3. queued' \in [Requests -> Nat]
    BY <1>2, <2>1 DEF TypeOK, RequestTypes
  <2>4. \A r \in Requests : queued'[r] <= queued[r] + 1
    BY <1>2, <2>1 DEF TypeOK, RequestTypes
  <2>5. \A r \in Requests : queued'[r] + Len(stdout') <= printed
    BY <1>3, <2>1, <2>3, <2>4
  <2>6. \A r \in Requests : queued'[r] <= MaxLines
    BY <1>3, <2>2, <2>3, <2>5, TransportAssumption DEF TransportAssumption
  <2> QED
    BY <1>1, <2>3, <2>5, <2>6, TransportAssumption DEF FramesPrinted, boundVars,
       TransportAssumption
<1> USE DEF fieldVars, taskVars, boundVars
<1>5. TypeOK'
  <2>1. TaskTypes' /\ ChildTypes'
    BY <1>1 DEF TypeOK, TaskTypes, ChildTypes
  <2>2. ReaderTypes'
    BY <1>1, <1>3 DEF TypeOK, ReaderTypes
  <2>3. RequestTypes'
    BY <1>1, <1>4 DEF TypeOK, RequestTypes, Open
  <2> QED
    BY <2>1, <2>2, <2>3 DEF TypeOK
<1>6. ChildInv'
  BY <1>1, ChildUnchanged
<1>7. FailedUnread'
  BY <1>1 DEF RouteInv, FailedUnread
<1> QED
  BY <1>4, <1>5, <1>6, <1>7 DEF RouteInv

LEMMA ReadStep ==
  ASSUME TransportInv, Read
  PROVE  TransportInv'
<1>1. CASE ReadLine /\ Abandon
  <2>1. reader = "reading" /\ stdout # <<>> /\ stdout' = Tail(stdout)
        /\ UNCHANGED <<source, taskVars, child, request, writer, boundVars, returned>>
    BY <1>1 DEF ReadLine
  <2>2. UNCHANGED queued
    BY <1>1 DEF ReadLine, Abandon
  <2> QED
    BY <1>1, <2>1, <2>2, AbandonStep DEF requestVars
<1>2. CASE ReadEof
  BY <1>2, AbandonStep DEF ReadEof
<1>3. CASE ReaderCancelled
  <2> USE <1>3 DEF ReaderCancelled, fieldVars, taskVars, childVars, requestVars, boundVars, TransportInv
  <2>1. TypeOK'
    <3>1. TaskTypes' /\ ChildTypes'
      BY DEF TypeOK, TaskTypes, ChildTypes
    <3>2. ReaderTypes' /\ RequestTypes'
      BY DEF TypeOK, ReaderTypes, RequestTypes, Open
    <3> QED
      BY <3>1, <3>2 DEF TypeOK
  <2>2. ChildInv' /\ RouteInv'
    BY ChildUnchanged, RouteKept
  <2> QED
    BY <2>1, <2>2
<1> QED
  BY <1>1, <1>2, <1>3, LineRead DEF Read

-----------------------------------------------------------------------------
(***************************************************************************)
(* Requests.                                                               *)
(***************************************************************************)

\* A request takes and gives back the write lock, reads its route and closes it; none
\* of this touches the child or the reader.
LEMMA RequestStep ==
  ASSUME TransportInv, NEW r \in Requests, Request(r)
  PROVE  TransportInv'
<1> USE DEF TransportInv
<1>1. UNCHANGED <<fieldVars, handshake, readerVars, taskVars, childVars, boundVars, returned>>
  BY DEF Request, OpenRoute, LockWrite, Written, WriteFails, Receive, Fail, GiveUp
<1>2. /\ queued' \in [Requests -> 0..MaxLines]
      /\ \A q \in Requests : queued'[q] <= queued[q]
  BY TransportAssumption
  DEF Request, OpenRoute, LockWrite, Written, WriteFails, Receive, Fail, GiveUp, CloseRoute,
      requestVars, TypeOK, RequestTypes, TransportAssumption
<1>3. /\ request' \in [Requests -> {"idle", "queued", "writing", "waiting"}]
      /\ writer' \in Requests \union {None}
      /\ \A q \in Requests : writer' = q <=> request'[q] = "writing"
  BY TransportAssumption
  DEF Request, OpenRoute, LockWrite, Written, WriteFails, Receive, Fail, GiveUp, CloseRoute,
      requestVars, TypeOK, RequestTypes, TransportAssumption, Open
<1>4. /\ failed' \in [Requests -> BOOLEAN]
      /\ \A q \in Requests : failed'[q] => failed[q] /\ request'[q] # "idle"
  BY DEF Request, OpenRoute, LockWrite, Written, WriteFails, Receive, Fail, GiveUp, CloseRoute,
         TypeOK, RequestTypes, Open
<1> USE DEF fieldVars, readerVars, taskVars, childVars, boundVars
<1>5. TypeOK'
  <2>1. TaskTypes' /\ ChildTypes'
    BY <1>1 DEF TypeOK, TaskTypes, ChildTypes
  <2>2. ReaderTypes'
    BY <1>1 DEF TypeOK, ReaderTypes
  <2>3. RequestTypes'
    BY <1>2, <1>3, <1>4 DEF RequestTypes, Open
  <2> QED
    BY <2>1, <2>2, <2>3 DEF TypeOK
<1>6. ChildInv'
  BY <1>1, ChildUnchanged
<1>7. FailedUnread'
  BY <1>1, <1>4 DEF RouteInv, FailedUnread
<1>8. FramesPrinted'
  <2>1. Len(stdout) \in Nat /\ printed \in Nat
    BY TransportAssumption DEF TypeOK, ReaderTypes, TransportAssumption
  <2>2. \A q \in Requests : queued[q] \in Nat /\ queued'[q] \in Nat
    BY <1>2, TransportAssumption DEF TypeOK, RequestTypes, TransportAssumption
  <2> QED
    BY <1>1, <1>2, <2>1, <2>2 DEF RouteInv, FramesPrinted
<1> QED
  BY <1>5, <1>6, <1>7, <1>8 DEF RouteInv

-----------------------------------------------------------------------------
(***************************************************************************)
(* The theorems.                                                           *)
(***************************************************************************)
LEMMA TransportInit ==
  Init => TransportInv
<1> SUFFICES ASSUME Init PROVE TransportInv
  OBVIOUS
<1> USE DEF Init
<1>1. TypeOK
  <2>1. TaskTypes /\ ChildTypes
    BY DEF TaskTypes, ChildTypes
  <2>2. ReaderTypes
    BY TransportAssumption DEF ReaderTypes, TransportAssumption
  <2>3. RequestTypes
    BY TransportAssumption DEF RequestTypes, TransportAssumption, Open
  <2> QED
    BY <2>1, <2>2, <2>3 DEF TypeOK
<1>2. ChildInv
  BY TransportAssumption
  DEF ChildInv, NothingInstalled, ClosedForGood, Closing, Spawned, TeardownHeld,
      DiscardedUnread, ChildOwned, TransportAssumption
<1>3. RouteInv
  BY DEF RouteInv, FailedUnread, FramesPrinted
<1> QED
  BY <1>1, <1>2, <1>3 DEF TransportInv

LEMMA TransportUnchanged ==
  ASSUME TransportInv, UNCHANGED vars
  PROVE  TransportInv'
<1> USE DEF TransportInv, vars, fieldVars, readerVars, taskVars, childVars, requestVars, boundVars
<1>1. TypeOK'
  BY DEF TypeOK, TaskTypes, ChildTypes, ReaderTypes, RequestTypes, Open
<1>2. ChildInv' /\ RouteInv'
  BY ChildUnchanged, RouteKept
<1> QED
  BY <1>1, <1>2

LEMMA TransportNext ==
  TransportInv /\ [Next]_vars => TransportInv'
<1> SUFFICES ASSUME TransportInv, [Next]_vars PROVE TransportInv'
  OBVIOUS
<1>1. ASSUME NEW t \in Tasks, Call(t) PROVE TransportInv'
  BY <1>1, TaskMoves, SpawnStep, ClosingBegins, ClosingGoesOn, CancelStep DEF Call
<1> QED
  BY <1>1, ChildStep, PrintStep, ReadStep, RequestStep, TransportUnchanged DEF Next

\* The inductive invariant of connect(), close(), the reader and the requests.
THEOREM TransportInvariant == Spec => []TransportInv
  BY TransportInit, TransportNext, PTL DEF Spec

\* Types, the agreement of the two locks with their holders, and an error only in an
\* open route (StdioTransport of transport.py).
THEOREM TransportTypeCorrect == Spec => []TypeOK
<1>1. TransportInv => TypeOK
  BY DEF TransportInv
<1> QED
  BY <1>1, TransportInvariant, PTL

\* No child is orphaned, whatever connect(), close(), cancellations and the reader do
\* to one another.
THEOREM ChildrenAreOwned == Spec => []ChildOwned
<1>1. TransportInv => ChildOwned
  BY DEF TransportInv, ChildInv
<1> QED
  BY <1>1, TransportInvariant, PTL

\* When every close() has returned the installed child is gone or was killed: close()
\* adopts the teardown the reader detached.
THEOREM ClosesLeaveNoChild == Spec => []CloseLeavesNoChild
<1>1. ASSUME TransportInv PROVE CloseLeavesNoChild
  <2> USE <1>1 DEF TransportInv, ChildInv
  <2> SUFFICES ASSUME returned, \A t \in Tasks : pc[t] \notin {"reaping", "adopting", "joining"},
                      source # None, child[source] = "alive", stage[source] # "kill"
               PROVE  FALSE
    BY DEF CloseLeavesNoChild
  <2>1. source \in Children /\ process = None /\ teardown = None
    BY DEF TypeOK, ReaderTypes, ClosedForGood
  <2>2. source \notin tearing
    BY <2>1 DEF TeardownHeld
  <2>3. PICK t \in Tasks : pc[t] \in {"reaping", "discarding"} /\ hand[t] = source
    BY <2>1, <2>2 DEF ChildOwned
  <2> QED
    BY <2>3 DEF DiscardedUnread
<1> QED
  BY <1>1, TransportInvariant, PTL

\* The terminal error is the last thing a route receives: once it is set the reader
\* reads no more (_fail_all and the reader of transport.py).
THEOREM ErrorsAreLast == Spec => ErrorIsLast
<1>1. ASSUME TransportInv, [Next]_vars, NEW r \in Requests, failed[r], failed'[r]
      PROVE  queued'[r] <= queued[r]
  <2>1. queued[r] \in Nat /\ closed /\ reader # "reading"
    BY <1>1, TransportAssumption
    DEF TransportInv, TypeOK, RequestTypes, RouteInv, FailedUnread, TransportAssumption
  <2>2. CASE queued' = queued
    BY <2>1, <2>2
  <2>3. CASE \E q \in Requests : Request(q)
    BY <1>1, <2>1, <2>3, TransportAssumption
    DEF Request, OpenRoute, LockWrite, Written, WriteFails, Receive, Fail, GiveUp, CloseRoute,
        requestVars, TransportInv, TypeOK, RequestTypes, TransportAssumption
  <2>4. CASE \E t \in Tasks : Call(t)
    <3>1. queued' = queued
      BY <2>4 DEF Call, BeginConnect, Acquire, SpawnFails, Spawn, Discarded, Connected,
         HandshakeFails,
                  HandshakeTimesOut, BeginClose, Reaped, Joined, Cancel, requestVars
    <3> QED
      BY <3>1, <2>2
  <2>5. CASE Read
    BY <2>1, <2>2, <2>5 DEF Read, ReadLine, ReadEof, ReaderCancelled, requestVars
  <2>6. CASE \/ \E p \in Children : Escalate(p) \/ TornDown(p) \/ Die(p)
             \/ \E line \in Lines : PrintLine(line)
             \/ UNCHANGED vars
    BY <2>2, <2>6 DEF Escalate, TornDown, Die, PrintLine, vars, requestVars
  <2> QED
    BY <1>1, <2>3, <2>4, <2>5, <2>6 DEF Next
<1>2. TransportInv /\ [Next]_vars => [\A r \in Requests : failed[r] /\ failed'[r] => queued'[r] <= queued[r]]_vars
  BY <1>1
<1> QED
  BY <1>2, TransportInvariant, PTL DEF Spec, ErrorIsLast

=============================================================================
