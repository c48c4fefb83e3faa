--------------------------- MODULE SyncClientProofs ---------------------------
(***************************************************************************)
(* Proofs about SyncClient and the resolvers inside it, for any threads,   *)
(* processes and versions.                                                 *)
(***************************************************************************)
EXTENDS SyncClient, TLAPS

(***************************************************************************)
(* The cache, while one resolver at most holds the temporary file.         *)
(***************************************************************************)
Contents == Versions \union {"absent", "torn"}

ResolverStates ==
  [pc : {"idle", "looking", "hashing", "unlinking", "downloading", "opening", "writing",
         "replacing", "returned", "raised", "dead"},
   wanted : Versions \union {"none"}, fd : {"none", "temp", "cached", "lost"},
   found : Contents \union {"none"}]

CacheTypes ==
  /\ cached \in Contents /\ temp \in Contents /\ overlap \in BOOLEAN
  /\ resolver \in [Resolvers -> ResolverStates]
  /\ \A r \in Resolvers : UnderWay(r) => resolver[r].wanted \in Versions
  /\ \A r \in Resolvers : At(r, "idle") => resolver[r].found = "none"

\* The one resolver that writes is the only one to touch the temporary file, which
\* keeps its name: it is torn until it is written, and whole when it is moved.
WritesAlone ==
  ~overlap =>
    /\ \A q, r \in Resolvers : Writes(q) /\ Writes(r) => q = r
    /\ \A r \in Resolvers :
         /\ At(r, "writing") => resolver[r].fd = "temp" /\ temp = "torn"
         /\ At(r, "replacing") => temp = resolver[r].wanted

CacheInv == CacheTypes /\ WritesAlone /\ CacheIsVerified

(***************************************************************************)
(* The client.                                                             *)
(***************************************************************************)
Op(t, op) == thread[t].op = op

Stops(t) == thread[t].pc \in {"ending", "signalling", "joining"}

\* Until the client is connected one thread at most is busy, with connect_sync.
BeforeOpen ==
  client = "none" =>
    /\ closers = {} /\ child \in {"none", "alive", "dead"}
    /\ \A t \in Threads :
         /\ thread[t].iter = "none"
         /\ In(t, "idle") => Op(t, "none")
         /\ ~In(t, "idle") => Op(t, "connect") /\ thread[t].pc \notin {"finally", "closing"}
         /\ ~In(t, "idle") /\ ~In(t, "joining") => loop = "running"
    /\ \A t, u \in Threads : ~In(t, "idle") /\ ~In(u, "idle") => t = u
    /\ child = "alive" => \E t \in Threads : task[t] \in {"greeting", "value"}
    /\ \A t \in Threads : task[t] \in {"greeting", "value"} => child # "none"
    /\ loop = "none" => child = "none" /\ \A t \in Threads : In(t, "idle")
    /\ loop \notin {"none", "closed"} => stuck \/ \E t \in Threads : ~In(t, "idle")

\* A thread that alone passed the test of _closed finds the loop running until it stops
\* it, and stops it once the child is dead.
ClosesAlone(t) ==
  /\ Op(t, "close") =>
       /\ ~In(t, "joining") => loop = "running"
       /\ child = "ending" => task[t] = "reaping"
       /\ Stops(t) \/ task[t] \in Results => child = "dead"
  /\ ~Op(t, "close") => child = "dead" /\ (loop = "closed" \/ stuck)

AfterOpen ==
  client # "none" =>
    /\ loop # "none" /\ child # "none"
    /\ \A t \in Threads :
         /\ ~Op(t, "connect") /\ (Stops(t) \/ In(t, "closing") => Op(t, "close"))
         /\ Op(t, "close") => t \in closers /\ thread[t].pc \notin {"idle", "finally"}
    /\ \A t \in closers : client = "closed" \/ In(t, "closing")
    /\ closers = {} => loop = "running" /\ client = "open" /\ child # "ending"
    /\ \A t \in Threads : closers = {t} => ClosesAlone(t)

QuietAlone ==
  \A t \in Threads :
    closers \subseteq {t} /\ In(t, "submitting") /\ Op(t, "aclose") => loop # "closed"

ClientInv ==
  /\ TypeOK /\ closers \subseteq Threads /\ stuck \in BOOLEAN
  /\ BeforeOpen /\ AfterOpen /\ QuietAlone

SyncInv == CacheInv /\ ClientInv

-----------------------------------------------------------------------------
(***************************************************************************)
(* The resolvers.                                                          *)
(***************************************************************************)

\* A step that leaves the files and the places of the resolvers alone.
LEMMA CacheUnchanged ==
  ASSUME CacheInv, UNCHANGED cacheVars
  PROVE  CacheInv'
  BY DEF CacheInv, CacheTypes, WritesAlone, CacheIsVerified, Writes, UnderWay, At, cacheVars

\* One resolver takes a step; it may move the name of a file another one writes.
LEMMA OneResolver ==
  ASSUME CacheInv, NEW r \in Resolvers, NEW s \in ResolverStates,
         resolver' \in [Resolvers -> ResolverStates], resolver'[r] = s,
         \A q \in Resolvers \ {r} :
           /\ resolver'[q].pc = resolver[q].pc /\ resolver'[q].wanted = resolver[q].wanted
           /\ resolver'[q].found = resolver[q].found
           /\ resolver[q].fd = "temp" /\ temp' = temp => resolver'[q].fd = "temp",
         cached' \in Contents, temp' \in Contents, overlap' \in BOOLEAN, overlap => overlap',
         s.pc # "idle",
         s.pc \notin {"returned", "raised", "dead"} => s.wanted \in Versions,
         ~overlap' =>
           /\ cached' # "torn"
           /\ temp' # temp \/ s.pc \in {"writing", "replacing"} =>
                \A q \in Resolvers \ {r} : ~Writes(q)
           /\ s.pc = "writing" => s.fd = "temp" /\ temp' = "torn"
           /\ s.pc = "replacing" => temp' = s.wanted
           /\ s.pc = "returned" => s.found \in {"none", s.wanted}
  PROVE  CacheInv'
<1> USE DEF CacheInv
<1>1. CacheTypes'
  BY DEF CacheTypes, UnderWay, At
<1>2. WritesAlone'
  BY DEF WritesAlone, Writes, At
<1>3. CacheIsVerified'
  BY DEF CacheIsVerified, At
<1> QED
  BY <1>1, <1>2, <1>3

\* A resolver in one of its places is under way.
LEMMA PlacesUnderWay ==
  ASSUME NEW r \in Resolvers,
         resolver[r].pc \in {"looking", "hashing", "unlinking", "downloading", "opening",
                             "writing", "replacing"}
  PROVE  UnderWay(r)
  BY DEF UnderWay

\* The resolver that holds the temporary file holds it alone.
LEMMA WriterAlone ==
  ASSUME CacheInv, ~overlap, NEW r \in Resolvers, Writes(r)
  PROVE  /\ \A q \in Resolvers \ {r} : ~Writes(q)
         /\ resolver[r].wanted \in Versions /\ resolver[r].wanted # "torn" /\ cached # "torn"
         /\ At(r, "writing") => resolver[r].fd = "temp" /\ temp = "torn"
         /\ At(r, "replacing") => temp = resolver[r].wanted
<1>1. UnderWay(r)
  BY PlacesUnderWay DEF Writes
<1>2. resolver[r].wanted \in Versions
  BY <1>1 DEF CacheInv, CacheTypes
<1> QED
  BY <1>2, VersionAssumption DEF CacheInv, WritesAlone, CacheIsVerified

\* A resolver that only moves on to another place, neither writing nor replacing.
LEMMA ResolverGoes ==
  ASSUME CacheInv, NEW r \in Resolvers, FilesKept,
         NEW pc \in {"hashing", "unlinking", "downloading", "opening", "raised", "returned"},
         Go(r, pc),
         \/ UnderWay(r) /\ pc # "returned"
         \/ At(r, "idle") /\ pc \in {"raised", "returned"}
  PROVE  CacheInv'
<1> DEFINE s == [resolver[r] EXCEPT !.pc = pc]
<1>1. resolver[r] \in ResolverStates /\ resolver \in [Resolvers -> ResolverStates]
  BY DEF CacheInv, CacheTypes
<1>2. s \in ResolverStates /\ s.pc = pc /\ s.wanted = resolver[r].wanted /\ s.found = resolver[r].found
  BY <1>1 DEF ResolverStates
<1>3. resolver' = [resolver EXCEPT ![r] = s]
  BY <1>1 DEF Go, ResolverStates
<1> HIDE DEF s
<1>4. resolver' \in [Resolvers -> ResolverStates] /\ resolver'[r] = s
      /\ \A q \in Resolvers \ {r} : resolver'[q] = resolver[q]
  BY <1>1, <1>2, <1>3
<1> QED
  BY <1>2, <1>4, OneResolver DEF FilesKept, CacheInv, CacheTypes, CacheIsVerified, At


LEMMA ResolveElsewhereStep ==
  ASSUME CacheInv, NEW r \in Resolvers, ResolveElsewhere(r)
  PROVE  CacheInv'
  BY ResolverGoes DEF ResolveElsewhere

LEMMA ResolveUrlStep ==
  ASSUME CacheInv, NEW r \in Resolvers, ResolveUrl(r)
  PROVE  CacheInv'
<1>1. PICK v \in Versions : resolver' = [resolver EXCEPT ![r].pc = "looking", ![r].wanted = v]
  BY DEF ResolveUrl
<1> DEFINE s == [resolver[r] EXCEPT !.pc = "looking", !.wanted = v]
<1>2. resolver \in [Resolvers -> ResolverStates] /\ resolver[r] \in ResolverStates
  BY DEF CacheInv, CacheTypes
<1>3. s \in ResolverStates /\ s.pc = "looking" /\ s.wanted = v
  BY <1>2 DEF ResolverStates
<1>4. resolver' = [resolver EXCEPT ![r] = s]
  BY <1>1, <1>2 DEF ResolverStates
<1> HIDE DEF s
<1>5. /\ resolver' \in [Resolvers -> ResolverStates] /\ resolver'[r] = s
      /\ \A q \in Resolvers \ {r} : resolver'[q] = resolver[q]
  BY <1>2, <1>3, <1>4
<1>6. FilesKept
  BY DEF ResolveUrl
<1> QED
  BY <1>3, <1>5, <1>6, OneResolver DEF FilesKept, CacheInv, CacheTypes, CacheIsVerified

LEMMA LookStep ==
  ASSUME CacheInv, NEW r \in Resolvers, Look(r)
  PROVE  CacheInv'
  BY ResolverGoes, PlacesUnderWay DEF Look, At

\* A resolver that returns what the cache holds, having found it to be what it wants.
LEMMA ReturnsStep ==
  ASSUME CacheInv, NEW r \in Resolvers, UnderWay(r), Returns(r), FilesKept,
         cached = resolver[r].wanted
  PROVE  CacheInv'
<1> DEFINE s == [resolver[r] EXCEPT !.pc = "returned", !.found = cached]
<1>2. resolver \in [Resolvers -> ResolverStates] /\ resolver[r] \in ResolverStates
  BY DEF CacheInv, CacheTypes
<1>3. s \in ResolverStates /\ s.pc = "returned" /\ s.wanted = resolver[r].wanted /\ s.found = cached
  BY <1>2 DEF ResolverStates, CacheInv, CacheTypes
<1>4. resolver' = [resolver EXCEPT ![r] = s]
  BY <1>2 DEF Returns, ResolverStates
<1> HIDE DEF s
<1>5. /\ resolver' \in [Resolvers -> ResolverStates] /\ resolver'[r] = s
      /\ \A q \in Resolvers \ {r} : resolver'[q] = resolver[q]
  BY <1>2, <1>3, <1>4
<1> QED
  BY <1>3, <1>5, OneResolver DEF FilesKept, CacheInv, CacheTypes, CacheIsVerified

LEMMA HashStep ==
  ASSUME CacheInv, NEW r \in Resolvers, Hash(r)
  PROVE  CacheInv'
<1>1. UnderWay(r) /\ FilesKept
  BY PlacesUnderWay DEF Hash, At
<1>2. CASE cached = "absent"
  <2>1. cached # resolver[r].wanted
    BY <1>1, <1>2, VersionAssumption DEF CacheInv, CacheTypes
  <2> QED
    BY <1>1, <1>2, <2>1, ResolverGoes DEF Hash
<1>3. CASE cached # "absent" /\ cached = resolver[r].wanted
  BY <1>1, <1>3, ReturnsStep DEF Hash
<1>4. CASE cached # "absent" /\ cached # resolver[r].wanted
  BY <1>1, <1>4, ResolverGoes DEF Hash
<1> QED
  BY <1>2, <1>3, <1>4

LEMMA DownloadStep ==
  ASSUME CacheInv, NEW r \in Resolvers, Download(r)
  PROVE  CacheInv'
  BY ResolverGoes, PlacesUnderWay DEF Download, At

\* The records of resolvers whose file has changed its name.
LEMMA RenamedKeeps ==
  ASSUME resolver \in [Resolvers -> ResolverStates],
         NEW from, NEW to \in {"cached", "lost"}, NEW q \in Resolvers
  PROVE  /\ Renamed(from, to)[q] \in ResolverStates
         /\ Renamed(from, to)[q].pc = resolver[q].pc
         /\ Renamed(from, to)[q].wanted = resolver[q].wanted
         /\ Renamed(from, to)[q].found = resolver[q].found
<1>1. resolver[q] \in ResolverStates
  OBVIOUS
<1> QED
  BY <1>1 DEF Renamed, ResolverStates

LEMMA UnlinkStep ==
  ASSUME CacheInv, NEW r \in Resolvers, Unlink(r)
  PROVE  CacheInv'
<1>1. UnderWay(r) /\ UNCHANGED <<temp, overlap>>
  BY PlacesUnderWay DEF Unlink, At
<1>2. CASE cached = "absent"
  BY <1>1, <1>2, ResolverGoes DEF Unlink, FilesKept
<1>3. CASE cached # "absent"
  <2> DEFINE f == Renamed("cached", "lost")
             s == [f[r] EXCEPT !.pc = "downloading"]
  <2>1. resolver \in [Resolvers -> ResolverStates] /\ resolver[r].wanted \in Versions
    BY <1>1 DEF CacheInv, CacheTypes
  <2>2. \A q \in Resolvers :
          /\ f[q] \in ResolverStates /\ f[q].pc = resolver[q].pc
          /\ f[q].wanted = resolver[q].wanted /\ f[q].found = resolver[q].found
    BY <2>1, RenamedKeeps
  <2>3. f = [q \in Resolvers |-> f[q]]
    BY DEF Renamed
  <2>4. cached' = "absent" /\ resolver' = [f EXCEPT ![r].pc = "downloading"]
    BY <1>3 DEF Unlink
  <2> HIDE DEF f
  <2>5. s \in ResolverStates /\ s.pc = "downloading" /\ s.wanted = resolver[r].wanted
    BY <2>2 DEF ResolverStates
  <2>6. resolver' = [f EXCEPT ![r] = s]
    BY <2>2, <2>4 DEF ResolverStates
  <2> HIDE DEF s
  <2>7. /\ resolver' \in [Resolvers -> ResolverStates] /\ resolver'[r] = s
        /\ \A q \in Resolvers \ {r} : resolver'[q] = f[q]
    BY <2>2, <2>3, <2>5, <2>6
  <2>8. cached' \in Contents
    BY <2>4 DEF Contents
  <2> QED
    <3>1. \A q \in Resolvers : resolver[q].fd = "temp" => f[q].fd = "temp"
      BY DEF f, Renamed
    <3>2. cached' # "torn" /\ temp' = temp /\ temp' \in Contents /\ overlap' \in BOOLEAN
      BY <1>1, <2>4 DEF CacheInv, CacheTypes
    <3> QED
      BY <1>1, <2>1, <2>2, <2>5, <2>7, <2>8, <3>1, <3>2, OneResolver
<1> QED
  BY <1>2, <1>3

LEMMA OpenTempStep ==
  ASSUME CacheInv, NEW r \in Resolvers, OpenTemp(r)
  PROVE  CacheInv'
<1> DEFINE s == [resolver[r] EXCEPT !.pc = "writing", !.fd = "temp"]
<1>1. /\ UnderWay(r) /\ temp' = "torn" /\ UNCHANGED cached
      /\ overlap' = (overlap \/ \E q \in Resolvers : Writes(q))
  BY PlacesUnderWay DEF OpenTemp, At
<1>2. resolver \in [Resolvers -> ResolverStates] /\ resolver[r] \in ResolverStates
      /\ resolver[r].wanted \in Versions
  BY <1>1 DEF CacheInv, CacheTypes
<1>3. s \in ResolverStates /\ s.pc = "writing" /\ s.fd = "temp" /\ s.wanted = resolver[r].wanted
  BY <1>2 DEF ResolverStates
<1>4. resolver' = [resolver EXCEPT ![r] = s]
  BY <1>2 DEF OpenTemp, ResolverStates
<1> HIDE DEF s
<1>5. /\ resolver' \in [Resolvers -> ResolverStates] /\ resolver'[r] = s
      /\ \A q \in Resolvers \ {r} : resolver'[q] = resolver[q]
  BY <1>2, <1>3, <1>4
<1>6. temp' \in Contents /\ cached' \in Contents /\ overlap' \in BOOLEAN
  BY <1>1 DEF Contents, CacheInv, CacheTypes
<1>7. ~overlap' => ~overlap /\ cached' # "torn" /\ \A q \in Resolvers : ~Writes(q)
  BY <1>1 DEF CacheInv, CacheIsVerified
<1>8. resolver[r].fd = "temp" /\ temp' = temp => s.fd = "temp"
  BY <1>3
<1> QED
  BY <1>1, <1>2, <1>3, <1>5, <1>6, <1>7, OneResolver

LEMMA WriteTempStep ==
  ASSUME CacheInv, NEW r \in Resolvers, WriteTemp(r)
  PROVE  CacheInv'
<1> DEFINE s == [resolver[r] EXCEPT !.pc = "replacing", !.fd = "none"]
<1>1. UnderWay(r) /\ At(r, "writing") /\ UNCHANGED overlap
  BY PlacesUnderWay DEF WriteTemp, At
<1>2. /\ resolver \in [Resolvers -> ResolverStates] /\ resolver[r] \in ResolverStates
      /\ resolver[r].wanted \in Versions /\ cached \in Contents /\ temp \in Contents
  BY <1>1 DEF CacheInv, CacheTypes
<1>3. s \in ResolverStates /\ s.pc = "replacing" /\ s.wanted = resolver[r].wanted
  BY <1>2 DEF ResolverStates
<1>4. resolver' = [resolver EXCEPT ![r] = s]
  BY <1>2 DEF WriteTemp, ResolverStates
<1> HIDE DEF s
<1>5. /\ resolver' \in [Resolvers -> ResolverStates] /\ resolver'[r] = s
      /\ \A q \in Resolvers \ {r} : resolver'[q] = resolver[q]
  BY <1>2, <1>3, <1>4
<1>6. cached' \in Contents /\ temp' \in Contents
  BY <1>2 DEF WriteTemp, Written, Contents
<1>7. ASSUME ~overlap'
      PROVE  temp' = s.wanted /\ cached' # "torn" /\ \A q \in Resolvers \ {r} : ~Writes(q)
  <2>1. Writes(r) /\ ~overlap
    BY <1>1, <1>7 DEF Writes, At
  <2>2. /\ resolver[r].fd = "temp" /\ temp = "torn" /\ cached # "torn"
        /\ \A q \in Resolvers \ {r} : ~Writes(q)
    BY <1>1, <2>1, WriterAlone
  <2> QED
    BY <1>3, <2>2 DEF WriteTemp, Written
<1>8. overlap' \in BOOLEAN /\ (overlap => overlap')
  BY <1>1 DEF CacheInv, CacheTypes
<1> QED
  BY <1>1, <1>2, <1>3, <1>5, <1>6, <1>7, <1>8, OneResolver

LEMMA ReplaceStep ==
  ASSUME CacheInv, NEW r \in Resolvers, Replace(r)
  PROVE  CacheInv'
<1>1. UnderWay(r) /\ At(r, "replacing") /\ UNCHANGED overlap
  BY PlacesUnderWay DEF Replace, At
<1>2. /\ resolver \in [Resolvers -> ResolverStates] /\ resolver[r] \in ResolverStates
      /\ resolver[r].wanted \in Versions /\ cached \in Contents /\ temp \in Contents
  BY <1>1 DEF CacheInv, CacheTypes
<1>3. CASE temp = "absent"
  BY <1>1, <1>3, ResolverGoes DEF Replace, FilesKept
<1>4. CASE temp # "absent"
  <2> DEFINE s == [resolver[r] EXCEPT !.pc = "returned", !.found = temp]
             fd(q) == CASE resolver[q].fd = "cached" -> "lost"
                        [] resolver[q].fd = "temp" -> "cached"
                        [] OTHER -> resolver[q].fd
             other(q) == [resolver[q] EXCEPT !.fd = fd(q)]
  <2>1. /\ cached' = temp /\ temp' = "absent"
        /\ resolver' = [q \in Resolvers |-> IF q = r THEN s ELSE other(q)]
    BY <1>4 DEF Replace
  <2>2. s \in ResolverStates /\ s.pc = "returned" /\ s.wanted = resolver[r].wanted /\ s.found = temp
    BY <1>2 DEF ResolverStates
  <2>3. ASSUME NEW q \in Resolvers
        PROVE  /\ other(q) \in ResolverStates /\ other(q).pc = resolver[q].pc
               /\ other(q).wanted = resolver[q].wanted /\ other(q).found = resolver[q].found
    <3>1. resolver[q] \in ResolverStates
      BY <1>2
    <3>2. fd(q) \in {"none", "temp", "cached", "lost"}
      BY <3>1 DEF ResolverStates
    <3> HIDE DEF fd
    <3> QED
      BY <3>1, <3>2 DEF ResolverStates
  <2> HIDE DEF s, other
  <2>4. /\ resolver' \in [Resolvers -> ResolverStates] /\ resolver'[r] = s
        /\ \A q \in Resolvers \ {r} : resolver'[q] = other(q)
    BY <2>1, <2>2, <2>3
  <2>5. temp' \in Contents
    BY <2>1 DEF Contents
  <2>6. ASSUME ~overlap'
        PROVE  temp = s.wanted /\ s.wanted # "torn" /\ \A q \in Resolvers \ {r} : ~Writes(q)
    <3>1. Writes(r) /\ ~overlap
      BY <1>1, <2>6 DEF Writes, At
    <3> QED
      BY <1>1, <2>2, <3>1, WriterAlone
  <2>7. overlap' \in BOOLEAN /\ (overlap => overlap') /\ temp' # temp
    BY <1>1, <1>4, <2>1 DEF CacheInv, CacheTypes
  <2> QED
    BY <1>1, <1>2, <2>1, <2>2, <2>3, <2>4, <2>5, <2>6, <2>7, OneResolver
<1> QED
  BY <1>3, <1>4

LEMMA DieStep ==
  ASSUME CacheInv, NEW r \in Resolvers, Die(r)
  PROVE  CacheInv'
<1> DEFINE s == [resolver[r] EXCEPT !.pc = "dead", !.fd = "none"]
<1>1. resolver \in [Resolvers -> ResolverStates] /\ resolver[r] \in ResolverStates
  BY DEF CacheInv, CacheTypes
<1>2. s \in ResolverStates /\ s.pc = "dead"
  BY <1>1 DEF ResolverStates
<1>3. resolver' = [resolver EXCEPT ![r] = s]
  BY <1>1 DEF Die, ResolverStates
<1> HIDE DEF s
<1>4. /\ resolver' \in [Resolvers -> ResolverStates] /\ resolver'[r] = s
      /\ \A q \in Resolvers \ {r} : resolver'[q] = resolver[q]
  BY <1>1, <1>2, <1>3
<1> QED
  BY <1>2, <1>4, OneResolver DEF Die, FilesKept, CacheInv, CacheTypes, CacheIsVerified

\* Whatever a resolver does.
LEMMA ResolversKeepCacheInv ==
  ASSUME CacheInv, NEW r \in Resolvers, ResolverStep(r) \/ ResolverBegins(r) \/ Die(r)
  PROVE  CacheInv'
  BY LookStep, HashStep, UnlinkStep, DownloadStep, OpenTempStep, WriteTempStep, ReplaceStep,
     ResolveUrlStep, ResolveElsewhereStep, DieStep DEF ResolverStep, ResolverBegins


(***************************************************************************)
(* The client's threads and coroutines.                                    *)
(***************************************************************************)
ThreadStates ==
  [pc : {"idle", "submitting", "waiting", "finally", "closing", "ending", "signalling", "joining"},
   op : {"none", "connect", "request", "start", "step", "aclose", "close"},
   iter : {"none", "suspended"}, got : {"none", "value", "raised", "gone"}]

TaskStates ==
  Results \union {"none", "queued", "resolving", "greeting", "waiting", "reaping", "lost"}

\* What TypeOK says of one thread and its coroutine.
Fits(s, k) ==
  /\ s \in ThreadStates /\ k \in TaskStates
  /\ k # "none" <=> s.pc = "waiting"
  /\ s.pc = "finally" \/ s.op = "step" => s.iter = "suspended"

Typed(t) ==
  /\ Fits(thread[t], task[t])
  /\ thread \in [Threads -> ThreadStates] /\ task \in [Threads -> TaskStates]
  /\ loop \in {"none", "running", "stopping", "ended", "closed"}
  /\ client \in {"none", "open", "closed"} /\ child \in {"none", "alive", "ending", "dead"}

LEMMA ClientTypes ==
  ASSUME TypeOK, NEW t \in Threads
  PROVE  Typed(t)
  BY DEF TypeOK, Typed, ThreadStates, TaskStates, Fits

\* One thread or its coroutine takes a step.
LEMMA OneThread ==
  ASSUME ClientInv, NEW t \in Threads, NEW s, NEW k, Fits(s, k),
         thread' = [thread EXCEPT ![t] = s], task' = [task EXCEPT ![t] = k],
         loop' \in {"none", "running", "stopping", "ended", "closed"},
         client' \in {"none", "open", "closed"}, child' \in {"none", "alive", "ending", "dead"}
  PROVE  /\ TypeOK'
         /\ thread'[t] = s /\ task'[t] = k
         /\ \A u \in Threads \ {t} : thread'[u] = thread[u] /\ task'[u] = task[u]
<1>1. /\ thread \in [Threads -> ThreadStates] /\ task \in [Threads -> TaskStates]
      /\ \A u \in Threads : Fits(thread[u], task[u])
  BY ClientTypes DEF ClientInv, Typed
<1>2. s \in ThreadStates /\ k \in TaskStates
  BY DEF Fits
<1>3. /\ thread' \in [Threads -> ThreadStates] /\ task' \in [Threads -> TaskStates]
      /\ thread'[t] = s /\ task'[t] = k
      /\ \A u \in Threads \ {t} : thread'[u] = thread[u] /\ task'[u] = task[u]
  BY <1>1, <1>2
<1>4. \A u \in Threads : Fits(thread'[u], task'[u])
  BY <1>1, <1>3
<1>5. TypeOK'
  BY <1>3, <1>4 DEF TypeOK, ThreadStates, TaskStates, Fits
<1> QED
  BY <1>3, <1>5


LEMMA ConnectSyncStep ==
  ASSUME ClientInv, NEW t \in Threads, ConnectSync(t)
  PROVE  ClientInv'
<1> DEFINE s == [thread[t] EXCEPT !.pc = "submitting", !.op = "connect", !.got = "none"]
           k == task[t]
<1>1. Typed(t)
  BY ClientTypes DEF ClientInv
<1>2. Fits(s, k) /\ s.pc = "submitting" /\ s.op = "connect" /\ s.iter = thread[t].iter
  BY <1>1 DEF Typed, Fits, ThreadStates, TaskStates, Results, ConnectSync, In, Enters
<1>3. thread' = [thread EXCEPT ![t] = s] /\ task' = [task EXCEPT ![t] = k]
  BY <1>1 DEF Typed, ThreadStates, TaskStates, ConnectSync, Enters
<1> HIDE DEF s
<1>4. /\ TypeOK' /\ thread'[t] = s /\ task'[t] = k
      /\ \A u \in Threads \ {t} : thread'[u] = thread[u] /\ task'[u] = task[u]
  BY <1>1, <1>2, <1>3, OneThread DEF Typed, ConnectSync, Enters
<1>5. BeforeOpen'
  BY <1>1, <1>2, <1>4 DEF ClientInv, BeforeOpen, Typed, Fits, ConnectSync, In, Op, Results, Enters
<1>6. AfterOpen'
  BY <1>1, <1>2, <1>4 DEF ClientInv, AfterOpen, ClosesAlone, Typed, Fits, ConnectSync, In, Op,
     Stops, Results, Enters
<1>7. QuietAlone'
  BY <1>1, <1>2, <1>4 DEF ClientInv, QuietAlone, Typed, Fits, ConnectSync, In, Op, Results, Enters
<1> QED
  BY <1>4, <1>5, <1>6, <1>7 DEF ClientInv, ConnectSync, Enters

LEMMA RequestStep ==
  ASSUME ClientInv, NEW t \in Threads, Request(t)
  PROVE  ClientInv'
<1> DEFINE s == [thread[t] EXCEPT !.pc = "submitting", !.op = "request", !.got = "none"]
           k == task[t]
<1>1. Typed(t)
  BY ClientTypes DEF ClientInv
<1>2. Fits(s, k) /\ s.pc = "submitting" /\ s.op = "request" /\ s.iter = thread[t].iter
  BY <1>1 DEF Typed, Fits, ThreadStates, TaskStates, Results, Request, In, Enters, Followed
<1>3. thread' = [thread EXCEPT ![t] = s] /\ task' = [task EXCEPT ![t] = k]
  BY <1>1 DEF Typed, ThreadStates, TaskStates, Request, Enters, Followed
<1> HIDE DEF s
<1>4. /\ TypeOK' /\ thread'[t] = s /\ task'[t] = k
      /\ \A u \in Threads \ {t} : thread'[u] = thread[u] /\ task'[u] = task[u]
  BY <1>1, <1>2, <1>3, OneThread DEF Typed, Request, Enters, Followed
<1>5. BeforeOpen'
  BY <1>1, <1>2, <1>4 DEF ClientInv, BeforeOpen, Typed, Fits, Request, In, Op, Results, Enters,
     Followed
<1>6. AfterOpen'
  BY <1>1, <1>2, <1>4 DEF ClientInv, AfterOpen, ClosesAlone, Typed, Fits, Request, In, Op, Stops,
     Results, Enters, Followed
<1>7. QuietAlone'
  BY <1>1, <1>2, <1>4 DEF ClientInv, QuietAlone, Typed, Fits, Request, In, Op, Results, Enters,
     Followed
<1> QED
  BY <1>4, <1>5, <1>6, <1>7 DEF ClientInv, Request, Enters, Followed

LEMMA IterBeginsStep ==
  ASSUME ClientInv, NEW t \in Threads, IterBegins(t)
  PROVE  ClientInv'
<1> DEFINE s == [thread[t] EXCEPT !.pc = "submitting", !.op = "start", !.got = "none"]
           k == task[t]
<1>1. Typed(t)
  BY ClientTypes DEF ClientInv
<1>2. Fits(s, k) /\ s.pc = "submitting" /\ s.op = "start" /\ s.iter = thread[t].iter
  BY <1>1 DEF Typed, Fits, ThreadStates, TaskStates, Results, IterBegins, In, Enters, Followed
<1>3. thread' = [thread EXCEPT ![t] = s] /\ task' = [task EXCEPT ![t] = k]
  BY <1>1 DEF Typed, ThreadStates, TaskStates, IterBegins, Enters, Followed
<1> HIDE DEF s
<1>4. /\ TypeOK' /\ thread'[t] = s /\ task'[t] = k
      /\ \A u \in Threads \ {t} : thread'[u] = thread[u] /\ task'[u] = task[u]
  BY <1>1, <1>2, <1>3, OneThread DEF Typed, IterBegins, Enters, Followed
<1>5. BeforeOpen'
  BY <1>1, <1>2, <1>4 DEF ClientInv, BeforeOpen, Typed, Fits, IterBegins, In, Op, Results,
     Enters, Followed
<1>6. AfterOpen'
  BY <1>1, <1>2, <1>4 DEF ClientInv, AfterOpen, ClosesAlone, Typed, Fits, IterBegins, In, Op,
     Stops, Results, Enters, Followed
<1>7. QuietAlone'
  BY <1>1, <1>2, <1>4 DEF ClientInv, QuietAlone, Typed, Fits, IterBegins, In, Op, Results,
     Enters, Followed
<1> QED
  BY <1>4, <1>5, <1>6, <1>7 DEF ClientInv, IterBegins, Enters, Followed

LEMMA IterNextStep ==
  ASSUME ClientInv, NEW t \in Threads, IterNext(t)
  PROVE  ClientInv'
<1> DEFINE s == [thread[t] EXCEPT !.pc = "submitting", !.op = "step", !.got = "none"]
           k == task[t]
<1>1. Typed(t)
  BY ClientTypes DEF ClientInv
<1>2. Fits(s, k) /\ s.pc = "submitting" /\ s.op = "step" /\ s.iter = thread[t].iter
  BY <1>1 DEF Typed, Fits, ThreadStates, TaskStates, Results, IterNext, In, Enters
<1>3. thread' = [thread EXCEPT ![t] = s] /\ task' = [task EXCEPT ![t] = k]
  BY <1>1 DEF Typed, ThreadStates, TaskStates, IterNext, Enters
<1> HIDE DEF s
<1>4. /\ TypeOK' /\ thread'[t] = s /\ task'[t] = k
      /\ \A u \in Threads \ {t} : thread'[u] = thread[u] /\ task'[u] = task[u]
  BY <1>1, <1>2, <1>3, OneThread DEF Typed, IterNext, Enters
<1>5. BeforeOpen'
  BY <1>1, <1>2, <1>4 DEF ClientInv, BeforeOpen, Typed, Fits, IterNext, In, Op, Results, Enters
<1>6. AfterOpen'
  BY <1>1, <1>2, <1>4 DEF ClientInv, AfterOpen, ClosesAlone, Typed, Fits, IterNext, In, Op,
     Stops, Results, Enters
<1>7. QuietAlone'
  BY <1>1, <1>2, <1>4 DEF ClientInv, QuietAlone, Typed, Fits, IterNext, In, Op, Results, Enters
<1> QED
  BY <1>4, <1>5, <1>6, <1>7 DEF ClientInv, IterNext, Enters

LEMMA IterAbandonedStep ==
  ASSUME ClientInv, NEW t \in Threads, IterAbandoned(t)
  PROVE  ClientInv'
<1> DEFINE s == [thread[t] EXCEPT !.pc = "finally", !.op = "none", !.got = "none"]
           k == task[t]
<1>1. Typed(t)
  BY ClientTypes DEF ClientInv
<1>2. Fits(s, k) /\ s.pc = "finally" /\ s.op = "none" /\ s.iter = thread[t].iter
  BY <1>1 DEF Typed, Fits, ThreadStates, TaskStates, Results, IterAbandoned, In, Enters
<1>3. thread' = [thread EXCEPT ![t] = s] /\ task' = [task EXCEPT ![t] = k]
  BY <1>1 DEF Typed, ThreadStates, TaskStates, IterAbandoned, Enters
<1> HIDE DEF s
<1>4. /\ TypeOK' /\ thread'[t] = s /\ task'[t] = k
      /\ \A u \in Threads \ {t} : thread'[u] = thread[u] /\ task'[u] = task[u]
  BY <1>1, <1>2, <1>3, OneThread DEF Typed, IterAbandoned, Enters
<1>5. BeforeOpen'
  BY <1>1, <1>2, <1>4 DEF ClientInv, BeforeOpen, Typed, Fits, IterAbandoned, In, Op, Results,
     Enters
<1>6. AfterOpen'
  BY <1>1, <1>2, <1>4 DEF ClientInv, AfterOpen, ClosesAlone, Typed, Fits, IterAbandoned, In, Op,
     Stops, Results, Enters
<1>7. QuietAlone'
  BY <1>1, <1>2, <1>4 DEF ClientInv, QuietAlone, Typed, Fits, IterAbandoned, In, Op, Results,
     Enters
<1> QED
  BY <1>4, <1>5, <1>6, <1>7 DEF ClientInv, IterAbandoned, Enters

LEMMA CloseStep ==
  ASSUME ClientInv, NEW t \in Threads, Close(t)
  PROVE  ClientInv'
<1> DEFINE s == IF client = "closed" THEN thread[t]
                ELSE [thread[t] EXCEPT !.pc = "closing", !.op = "close", !.got = "none"]
           k == task[t]
<1>1. Typed(t)
  BY ClientTypes DEF ClientInv
<1>2. Fits(s, k) /\ IF client = "closed" THEN s = thread[t] ELSE s.pc = "closing" /\ s.op = "close" /\ s.iter = thread[t].iter
  BY <1>1 DEF Typed, Fits, ThreadStates, TaskStates, Results, Close, In, Enters, Followed
<1>3. thread' = [thread EXCEPT ![t] = s] /\ task' = [task EXCEPT ![t] = k]
  BY <1>1 DEF Typed, ThreadStates, TaskStates, Close, Enters, Followed
<1> HIDE DEF s
<1>4. /\ TypeOK' /\ thread'[t] = s /\ task'[t] = k
      /\ \A u \in Threads \ {t} : thread'[u] = thread[u] /\ task'[u] = task[u]
  BY <1>1, <1>2, <1>3, OneThread DEF Typed, Close, Enters, Followed
<1>5. BeforeOpen'
  BY <1>1, <1>2, <1>4 DEF ClientInv, BeforeOpen, Typed, Fits, Close, In, Op, Results, Enters,
     Followed
<1>6. AfterOpen'
  BY <1>1, <1>2, <1>4 DEF ClientInv, AfterOpen, ClosesAlone, Typed, Fits, Close, In, Op, Stops,
     Results, Enters, Followed
<1>7. QuietAlone'
  BY <1>1, <1>2, <1>4 DEF ClientInv, QuietAlone, Typed, Fits, Close, In, Op, Results, Enters,
     Followed
<1> QED
  BY <1>4, <1>5, <1>6, <1>7 DEF ClientInv, Close, Enters, Followed

LEMMA CloseMarksStep ==
  ASSUME ClientInv, NEW t \in Threads, CloseMarks(t)
  PROVE  ClientInv'
<1> DEFINE s == [thread[t] EXCEPT !.pc = "submitting"]
           k == task[t]
<1>1. Typed(t)
  BY ClientTypes DEF ClientInv
<1>2. Fits(s, k) /\ s.pc = "submitting" /\ s.op = thread[t].op /\ s.iter = thread[t].iter
  BY <1>1 DEF Typed, Fits, ThreadStates, TaskStates, Results, CloseMarks, In
<1>3. thread' = [thread EXCEPT ![t] = s] /\ task' = [task EXCEPT ![t] = k]
  BY <1>1 DEF Typed, ThreadStates, TaskStates, CloseMarks
<1> HIDE DEF s
<1>8. client # "none" /\ Op(t, "close") /\ t \in closers /\ loop # "none" /\ child # "none"
  BY DEF ClientInv, BeforeOpen, AfterOpen, CloseMarks, In, Op
<1>4. /\ TypeOK' /\ thread'[t] = s /\ task'[t] = k
      /\ \A u \in Threads \ {t} : thread'[u] = thread[u] /\ task'[u] = task[u]
  BY <1>1, <1>2, <1>3, OneThread DEF Typed, CloseMarks
<1>5. BeforeOpen'
  BY <1>1, <1>2, <1>4, <1>8 DEF ClientInv, BeforeOpen, Typed, Fits, CloseMarks, In, Op, Results
<1>6. AfterOpen'
  BY <1>1, <1>2, <1>4, <1>8 DEF ClientInv, AfterOpen, ClosesAlone, Typed, Fits, CloseMarks, In,
     Op, Stops, Results
<1>7. QuietAlone'
  BY <1>1, <1>2, <1>4, <1>8 DEF ClientInv, QuietAlone, Typed, Fits, CloseMarks, In, Op, Results
<1> QED
  BY <1>4, <1>5, <1>6, <1>7 DEF ClientInv, CloseMarks


\* Where run() leaves a thread.
Placed(t, s, got) ==
  \/ /\ s.pc = "ending" /\ s.op = thread[t].op /\ s.iter = thread[t].iter
     /\ Op(t, "close") \/ (Op(t, "connect") /\ got # "value")
  \/ /\ s.pc = "submitting" /\ s.op = "step" /\ s.iter = "suspended"
     /\ Op(t, "start") /\ got = "value"
  \/ s.pc = "finally" /\ s.op = "none" /\ s.iter = "suspended" /\ Op(t, "step")
  \/ /\ s.pc = "idle" /\ s.op = "none" /\ s.iter = thread[t].iter
     /\ ~Op(t, "close") /\ (Op(t, "connect") => got = "value")

LEMMA AfterPlaces ==
  ASSUME NEW t \in Threads, Typed(t), NEW got \in Results \union {"gone"},
         In(t, "submitting") \/ In(t, "waiting")
  PROVE  Fits(After(t, got), "none") /\ Placed(t, After(t, got), got)
<1> DEFINE g == IF got \in {"raised", "gone"} THEN got ELSE "value"
           idle == [thread[t] EXCEPT !.pc = "idle", !.op = "none", !.got = g]
           ending == [thread[t] EXCEPT !.pc = "ending"]
           goeson == [thread[t] EXCEPT !.pc = "submitting", !.op = "step", !.iter = "suspended"]
           leaves == [thread[t] EXCEPT !.pc = "finally", !.op = "none"]
<1>1. thread[t] \in ThreadStates /\ Fits(thread[t], task[t])
  BY DEF Typed, Fits
<1>2. g \in {"none", "value", "raised", "gone"}
  BY DEF Results
<1> HIDE DEF g
<1>3. /\ Fits(idle, "none") /\ idle.pc = "idle" /\ idle.op = "none" /\ idle.iter = thread[t].iter
      /\ Fits(ending, "none") /\ ending.pc = "ending" /\ ending.op = thread[t].op
      /\ ending.iter = thread[t].iter
      /\ Fits(goeson, "none") /\ goeson.pc = "submitting" /\ goeson.op = "step"
      /\ goeson.iter = "suspended"
  BY <1>1, <1>2 DEF Fits, ThreadStates, TaskStates
<1>4. Op(t, "step") => /\ Fits(leaves, "none") /\ leaves.pc = "finally" /\ leaves.op = "none"
                       /\ leaves.iter = "suspended"
  BY <1>1 DEF Fits, ThreadStates, TaskStates, Op
<1>5. After(t, got) =
        CASE Op(t, "close") \/ (Op(t, "connect") /\ got # "value") -> ending
          [] Op(t, "start") /\ got = "value" -> goeson
          [] Op(t, "step") /\ got # "item" -> leaves
          [] OTHER -> idle
  BY DEF After, Op, g
<1> HIDE DEF idle, ending, goeson, leaves
<1>6. CASE Op(t, "close") \/ (Op(t, "connect") /\ got # "value")
  BY <1>3, <1>5, <1>6 DEF Op, Placed
<1>7. CASE Op(t, "start") /\ got = "value"
  BY <1>3, <1>5, <1>7 DEF Op, Placed
<1>8. CASE Op(t, "step") /\ got # "item"
  BY <1>3, <1>4, <1>5, <1>8 DEF Op, Placed
<1>9. CASE /\ ~(Op(t, "close") \/ (Op(t, "connect") /\ got # "value"))
           /\ ~(Op(t, "start") /\ got = "value") /\ ~(Op(t, "step") /\ got # "item")
  BY <1>3, <1>5, <1>9 DEF Op, Placed
<1> QED
  BY <1>6, <1>7, <1>8, <1>9

LEMMA FinallyStep ==
  ASSUME ClientInv, NEW t \in Threads, Finally(t)
  PROVE  ClientInv'
<1> DEFINE s == [thread[t] EXCEPT
                   !.iter = "none", !.pc = IF loop = "closed" THEN "idle" ELSE "submitting",
                   !.op = IF loop = "closed" THEN "none" ELSE "aclose"]
           k == task[t]
<1>1. Typed(t)
  BY ClientTypes DEF ClientInv
<1>2. Fits(s, k) /\ s.iter = "none"
      /\ IF loop = "closed" THEN s.pc = "idle" /\ s.op = "none"
         ELSE s.pc = "submitting" /\ s.op = "aclose"
  BY <1>1 DEF Typed, Fits, ThreadStates, TaskStates, Results, Finally, In
<1>3. thread' = [thread EXCEPT ![t] = s] /\ task' = [task EXCEPT ![t] = k]
  BY <1>1 DEF Typed, ThreadStates, TaskStates, Finally
<1> HIDE DEF s
<1>4. /\ TypeOK' /\ thread'[t] = s /\ task'[t] = k
      /\ \A u \in Threads \ {t} : thread'[u] = thread[u] /\ task'[u] = task[u]
  BY <1>1, <1>2, <1>3, OneThread DEF Typed, Finally
<1>5. BeforeOpen'
  BY <1>1, <1>2, <1>4 DEF ClientInv, BeforeOpen, Typed, Fits, Finally, In, Op, Results
<1>6. AfterOpen'
  BY <1>1, <1>2, <1>4 DEF ClientInv, AfterOpen, ClosesAlone, Typed, Fits, Finally, In, Op, Stops,
     Results
<1>7. QuietAlone'
  BY <1>1, <1>2, <1>4 DEF ClientInv, QuietAlone, Typed, Fits, Finally, In, Op, Results
<1> QED
  BY <1>4, <1>5, <1>6, <1>7 DEF ClientInv, Finally

LEMMA LoopTestedStep ==
  ASSUME ClientInv, NEW t \in Threads, LoopTested(t)
  PROVE  ClientInv'
<1> DEFINE s == IF loop = "closed" THEN [thread[t] EXCEPT !.pc = "idle", !.op = "none", !.got = "value"]
                ELSE [thread[t] EXCEPT !.pc = "signalling"]
           k == task[t]
<1>1. Typed(t)
  BY ClientTypes DEF ClientInv
<1>2. Fits(s, k) /\ s.iter = thread[t].iter
      /\ IF loop = "closed" THEN s.pc = "idle" /\ s.op = "none"
         ELSE s.pc = "signalling" /\ s.op = thread[t].op
  BY <1>1 DEF Typed, Fits, ThreadStates, TaskStates, Results, LoopTested, In, Leaves
<1>3. thread' = [thread EXCEPT ![t] = s] /\ task' = [task EXCEPT ![t] = k]
  BY <1>1 DEF Typed, ThreadStates, TaskStates, LoopTested, Leaves
<1> HIDE DEF s
<1>4. /\ TypeOK' /\ thread'[t] = s /\ task'[t] = k
      /\ \A u \in Threads \ {t} : thread'[u] = thread[u] /\ task'[u] = task[u]
  BY <1>1, <1>2, <1>3, OneThread DEF Typed, LoopTested, Leaves
<1>5. BeforeOpen'
  BY <1>1, <1>2, <1>4 DEF ClientInv, BeforeOpen, Typed, Fits, LoopTested, In, Op, Results, Leaves
<1>6. AfterOpen'
  BY <1>1, <1>2, <1>4 DEF ClientInv, AfterOpen, ClosesAlone, Typed, Fits, LoopTested, In, Op,
     Stops, Results, Leaves
<1>7. QuietAlone'
  BY <1>1, <1>2, <1>4 DEF ClientInv, QuietAlone, Typed, Fits, LoopTested, In, Op, Results, Leaves
<1> QED
  BY <1>4, <1>5, <1>6, <1>7 DEF ClientInv, LoopTested, Leaves

LEMMA LoopStopsStep ==
  ASSUME ClientInv, NEW t \in Threads, LoopStops(t)
  PROVE  ClientInv'
<1> DEFINE s == IF loop = "closed" THEN [thread[t] EXCEPT !.pc = "idle", !.op = "none", !.got = "raised"]
                ELSE [thread[t] EXCEPT !.pc = "joining"]
           k == task[t]
<1>1. Typed(t)
  BY ClientTypes DEF ClientInv
<1>2. Fits(s, k) /\ s.iter = thread[t].iter
      /\ IF loop = "closed" THEN s.pc = "idle" /\ s.op = "none"
         ELSE s.pc = "joining" /\ s.op = thread[t].op
  BY <1>1 DEF Typed, Fits, ThreadStates, TaskStates, Results, LoopStops, In, Leaves
<1>3. thread' = [thread EXCEPT ![t] = s] /\ task' = [task EXCEPT ![t] = k]
  BY <1>1 DEF Typed, ThreadStates, TaskStates, LoopStops, Leaves
<1> HIDE DEF s
<1>4. /\ TypeOK' /\ thread'[t] = s /\ task'[t] = k
      /\ \A u \in Threads \ {t} : thread'[u] = thread[u] /\ task'[u] = task[u]
  BY <1>1, <1>2, <1>3, OneThread DEF Typed, LoopStops, Leaves
<1>5. BeforeOpen'
  BY <1>1, <1>2, <1>4 DEF ClientInv, BeforeOpen, Typed, Fits, LoopStops, In, Op, Results, Leaves
<1>6. AfterOpen'
  BY <1>1, <1>2, <1>4 DEF ClientInv, AfterOpen, ClosesAlone, Typed, Fits, LoopStops, In, Op,
     Stops, Results, Leaves
<1>7. QuietAlone'
  BY <1>1, <1>2, <1>4 DEF ClientInv, QuietAlone, Typed, Fits, LoopStops, In, Op, Results, Leaves
<1> QED
  BY <1>4, <1>5, <1>6, <1>7 DEF ClientInv, LoopStops, Leaves

LEMMA LoopJoinedStep ==
  ASSUME ClientInv, NEW t \in Threads, LoopJoined(t)
  PROVE  ClientInv'
<1> DEFINE s == [thread[t] EXCEPT !.pc = "idle", !.op = "none", !.got = "value"]
           k == task[t]
<1>1. Typed(t)
  BY ClientTypes DEF ClientInv
<1>2. Fits(s, k) /\ s.iter = thread[t].iter /\ s.pc = "idle" /\ s.op = "none"
  BY <1>1 DEF Typed, Fits, ThreadStates, TaskStates, Results, LoopJoined, In, Leaves
<1>3. thread' = [thread EXCEPT ![t] = s] /\ task' = [task EXCEPT ![t] = k]
  BY <1>1 DEF Typed, ThreadStates, TaskStates, LoopJoined, Leaves
<1> HIDE DEF s
<1>4. /\ TypeOK' /\ thread'[t] = s /\ task'[t] = k
      /\ \A u \in Threads \ {t} : thread'[u] = thread[u] /\ task'[u] = task[u]
  BY <1>1, <1>2, <1>3, OneThread DEF Typed, LoopJoined, Leaves
<1>5. BeforeOpen'
  BY <1>1, <1>2, <1>4 DEF ClientInv, BeforeOpen, Typed, Fits, LoopJoined, In, Op, Results, Leaves
<1>6. AfterOpen'
  BY <1>1, <1>2, <1>4 DEF ClientInv, AfterOpen, ClosesAlone, Typed, Fits, LoopJoined, In, Op,
     Stops, Results, Leaves
<1>7. QuietAlone'
  BY <1>1, <1>2, <1>4 DEF ClientInv, QuietAlone, BeforeOpen, AfterOpen, Stops, Typed, Fits,
     LoopJoined, In, Op, Results, Leaves
<1> QED
  BY <1>4, <1>5, <1>6, <1>7 DEF ClientInv, LoopJoined, Leaves

LEMMA JoinTimesOutStep ==
  ASSUME ClientInv, NEW t \in Threads, JoinTimesOut(t)
  PROVE  ClientInv'
<1> DEFINE s == [thread[t] EXCEPT !.pc = "idle", !.op = "none", !.got = "raised"]
           k == task[t]
<1>1. Typed(t)
  BY ClientTypes DEF ClientInv
<1>2. Fits(s, k) /\ s.iter = thread[t].iter /\ s.pc = "idle" /\ s.op = "none"
  BY <1>1 DEF Typed, Fits, ThreadStates, TaskStates, Results, JoinTimesOut, In, Leaves
<1>3. thread' = [thread EXCEPT ![t] = s] /\ task' = [task EXCEPT ![t] = k]
  BY <1>1 DEF Typed, ThreadStates, TaskStates, JoinTimesOut, Leaves
<1> HIDE DEF s
<1>4. /\ TypeOK' /\ thread'[t] = s /\ task'[t] = k
      /\ \A u \in Threads \ {t} : thread'[u] = thread[u] /\ task'[u] = task[u]
  BY <1>1, <1>2, <1>3, OneThread DEF Typed, JoinTimesOut, Leaves
<1>5. BeforeOpen'
  BY <1>1, <1>2, <1>4 DEF ClientInv, BeforeOpen, Typed, Fits, JoinTimesOut, In, Op, Results,
     Leaves
<1>6. AfterOpen'
  BY <1>1, <1>2, <1>4 DEF ClientInv, AfterOpen, ClosesAlone, Typed, Fits, JoinTimesOut, In, Op,
     Stops, Results, Leaves
<1>7. QuietAlone'
  BY <1>1, <1>2, <1>4 DEF ClientInv, QuietAlone, Typed, Fits, JoinTimesOut, In, Op, Results,
     Leaves
<1> QED
  BY <1>4, <1>5, <1>6, <1>7 DEF ClientInv, JoinTimesOut, Leaves


LEMMA SubmitGoneStep ==
  ASSUME ClientInv, NEW t \in Threads, Submit(t), loop = "closed"
  PROVE  ClientInv'
<1> DEFINE s == After(t, "gone")
           k == task[t]
<1>1. Typed(t)
  BY ClientTypes DEF ClientInv
<1>2. Fits(s, k) /\ k = "none" /\ Placed(t, s, "gone")
  BY <1>1, AfterPlaces DEF Typed, Fits, ThreadStates, TaskStates, Results, Submit, In
<1>3. thread' = [thread EXCEPT ![t] = s] /\ task' = [task EXCEPT ![t] = k]
  BY <1>1 DEF Typed, ThreadStates, TaskStates, Submit
<1> HIDE DEF s
<1>4. /\ TypeOK' /\ thread'[t] = s /\ task'[t] = k
      /\ \A u \in Threads \ {t} : thread'[u] = thread[u] /\ task'[u] = task[u]
  BY <1>1, <1>2, <1>3, OneThread DEF Typed, Submit
<1>5. BeforeOpen'
  BY <1>1, <1>2, <1>4 DEF ClientInv, BeforeOpen, Typed, Fits, Submit, In, Op, Results, Placed
<1>6. AfterOpen'
  BY <1>1, <1>2, <1>4 DEF ClientInv, AfterOpen, ClosesAlone, Typed, Fits, Submit, In, Op, Stops,
     Results, Placed
<1>7. QuietAlone'
  BY <1>1, <1>2, <1>4 DEF ClientInv, QuietAlone, BeforeOpen, AfterOpen, Typed, Fits, Submit, In,
     Op, Results, Placed
<1> QED
  BY <1>4, <1>5, <1>6, <1>7 DEF ClientInv, Submit

LEMMA SubmitQueuesStep ==
  ASSUME ClientInv, NEW t \in Threads, Submit(t), loop # "closed"
  PROVE  ClientInv'
<1> DEFINE s == [thread[t] EXCEPT !.pc = "waiting"]
           k == IF loop = "running" THEN "queued" ELSE "lost"
<1>1. Typed(t)
  BY ClientTypes DEF ClientInv
<1>2. Fits(s, k) /\ s.pc = "waiting" /\ s.op = thread[t].op /\ s.iter = thread[t].iter
  BY <1>1 DEF Typed, Fits, ThreadStates, TaskStates, Results, Submit, In
<1>3. thread' = [thread EXCEPT ![t] = s] /\ task' = [task EXCEPT ![t] = k]
  BY <1>1 DEF Typed, ThreadStates, TaskStates, Submit
<1> HIDE DEF s
<1>4. /\ TypeOK' /\ thread'[t] = s /\ task'[t] = k
      /\ \A u \in Threads \ {t} : thread'[u] = thread[u] /\ task'[u] = task[u]
  BY <1>1, <1>2, <1>3, OneThread DEF Typed, Submit
<1>5. BeforeOpen'
  BY <1>1, <1>2, <1>4 DEF ClientInv, BeforeOpen, Typed, Fits, Submit, In, Op, Results
<1>6. AfterOpen'
  BY <1>1, <1>2, <1>4 DEF ClientInv, AfterOpen, ClosesAlone, Typed, Fits, Submit, In, Op, Stops,
     Results
<1>7. QuietAlone'
  BY <1>1, <1>2, <1>4 DEF ClientInv, QuietAlone, Typed, Fits, Submit, In, Op, Results
<1> QED
  BY <1>4, <1>5, <1>6, <1>7 DEF ClientInv, Submit

LEMMA WokenStep ==
  ASSUME ClientInv, NEW t \in Threads, Woken(t)
  PROVE  ClientInv'
<1> DEFINE s == After(t, task[t])
           k == "none"
<1>1. Typed(t)
  BY ClientTypes DEF ClientInv
<1>2. Fits(s, k) /\ Placed(t, s, task[t])
  BY <1>1, AfterPlaces DEF Typed, Fits, ThreadStates, TaskStates, Results, Woken, In
<1>3. thread' = [thread EXCEPT ![t] = s] /\ task' = [task EXCEPT ![t] = k]
  BY <1>1 DEF Typed, ThreadStates, TaskStates, Woken
<1> HIDE DEF s
<1>4. /\ TypeOK' /\ thread'[t] = s /\ task'[t] = k
      /\ \A u \in Threads \ {t} : thread'[u] = thread[u] /\ task'[u] = task[u]
  BY <1>1, <1>2, <1>3, OneThread DEF Typed, Woken
<1>5. BeforeOpen'
  BY <1>1, <1>2, <1>4 DEF ClientInv, BeforeOpen, Typed, Fits, Woken, In, Op, Results, Placed
<1>6. AfterOpen'
  <2>1. CASE Op(t, "connect") /\ task[t] = "value"
    <3>1. /\ client = "none" /\ closers = {} /\ child \in {"alive", "dead"} /\ loop = "running"
          /\ \A u \in Threads \ {t} : In(u, "idle") /\ Op(u, "none")
      BY <1>1, <2>1 DEF ClientInv, AfterOpen, BeforeOpen, Woken, In, Op
    <3>2. s.pc = "idle" /\ s.op = "none"
      BY <1>2, <2>1 DEF Placed, Op
    <3>3. client' = "open" /\ UNCHANGED <<loop, child, closers>>
      BY <2>1 DEF Woken, Op
    <3>4. \A u \in Threads : Op(u, "none")' /\ In(u, "idle")'
      BY <1>4, <3>1, <3>2 DEF Op, In
    <3> QED
      BY <3>1, <3>3, <3>4, <1>1, <1>4, <3>2 DEF AfterOpen, Stops, In, Op, ClientInv
  <2>2. CASE Op(t, "connect") /\ task[t] # "value"
    BY <1>1, <1>2, <1>4, <2>2 DEF ClientInv, AfterOpen, ClosesAlone, Typed, Fits, Woken, In, Op,
       Stops, Results, Placed
  <2>3. CASE ~Op(t, "connect")
    BY <1>1, <1>2, <1>4, <2>3 DEF ClientInv, AfterOpen, ClosesAlone, Typed, Fits, Woken, In, Op,
       Stops, Results, Placed
  <2> QED
    BY <2>1, <2>2, <2>3
<1>7. QuietAlone'
  BY <1>1, <1>2, <1>4 DEF ClientInv, QuietAlone, Typed, Fits, Woken, In, Op, Results, Placed
<1> QED
  BY <1>4, <1>5, <1>6, <1>7 DEF ClientInv, Woken

LEMMA OpenBeginsStep ==
  ASSUME ClientInv, NEW t \in Threads, OpenBegins(t)
  PROVE  ClientInv'
<1> DEFINE s == thread[t]
           k == task'[t]
<1>1. Typed(t)
  BY ClientTypes DEF ClientInv
<1>2. Fits(s, k) /\ k \in {"greeting", "raised", "resolving"}
  BY <1>1 DEF Typed, Fits, ThreadStates, TaskStates, Results, OpenBegins, In, Steps, Becomes
<1>3. thread' = [thread EXCEPT ![t] = s] /\ task' = [task EXCEPT ![t] = k]
  BY <1>1 DEF Typed, ThreadStates, TaskStates, OpenBegins, Steps, Becomes
<1> HIDE DEF s
<1>4. /\ TypeOK' /\ thread'[t] = s /\ task'[t] = k
      /\ \A u \in Threads \ {t} : thread'[u] = thread[u] /\ task'[u] = task[u]
  BY <1>1, <1>2, <1>3, OneThread DEF Typed, OpenBegins, Steps, Becomes
<1>5. BeforeOpen'
  BY <1>1, <1>2, <1>4 DEF ClientInv, BeforeOpen, Typed, Fits, OpenBegins, In, Op, Results, Steps,
     Becomes
<1>6. AfterOpen'
  BY <1>1, <1>2, <1>4 DEF ClientInv, AfterOpen, ClosesAlone, Typed, Fits, OpenBegins, In, Op,
     Stops, Results, Steps, Becomes
<1>7. QuietAlone'
  BY <1>1, <1>2, <1>4 DEF ClientInv, QuietAlone, Typed, Fits, OpenBegins, In, Op, Results, Steps,
     Becomes
<1> QED
  BY <1>4, <1>5, <1>6, <1>7 DEF ClientInv, OpenBegins, Steps, Becomes

LEMMA OpenSpawnsStep ==
  ASSUME ClientInv, NEW t \in Threads, OpenSpawns(t)
  PROVE  ClientInv'
<1> DEFINE s == thread[t]
           k == task'[t]
<1>1. Typed(t)
  BY ClientTypes DEF ClientInv
<1>2. Fits(s, k) /\ k \in {"greeting", "raised"}
  BY <1>1 DEF Typed, Fits, ThreadStates, TaskStates, Results, OpenSpawns, In, Steps, Becomes
<1>3. thread' = [thread EXCEPT ![t] = s] /\ task' = [task EXCEPT ![t] = k]
  BY <1>1 DEF Typed, ThreadStates, TaskStates, OpenSpawns, Steps, Becomes
<1> HIDE DEF s
<1>4. /\ TypeOK' /\ thread'[t] = s /\ task'[t] = k
      /\ \A u \in Threads \ {t} : thread'[u] = thread[u] /\ task'[u] = task[u]
  BY <1>1, <1>2, <1>3, OneThread DEF Typed, OpenSpawns, Steps, Becomes
<1>5. BeforeOpen'
  BY <1>1, <1>2, <1>4 DEF ClientInv, BeforeOpen, Typed, Fits, OpenSpawns, In, Op, Results, Steps,
     Becomes
<1>6. AfterOpen'
  BY <1>1, <1>2, <1>4 DEF ClientInv, AfterOpen, ClosesAlone, Typed, Fits, OpenSpawns, In, Op,
     Stops, Results, Steps, Becomes
<1>7. QuietAlone'
  BY <1>1, <1>2, <1>4 DEF ClientInv, QuietAlone, Typed, Fits, OpenSpawns, In, Op, Results, Steps,
     Becomes
<1> QED
  BY <1>4, <1>5, <1>6, <1>7 DEF ClientInv, OpenSpawns, Steps, Becomes

LEMMA OpenEndsStep ==
  ASSUME ClientInv, NEW t \in Threads, OpenEnds(t)
  PROVE  ClientInv'
<1> DEFINE s == thread[t]
           k == task'[t]
<1>1. Typed(t)
  BY ClientTypes DEF ClientInv
<1>2. Fits(s, k) /\ k \in {"value", "raised"}
  BY <1>1 DEF Typed, Fits, ThreadStates, TaskStates, Results, OpenEnds, In, Steps, Becomes
<1>3. thread' = [thread EXCEPT ![t] = s] /\ task' = [task EXCEPT ![t] = k]
  BY <1>1 DEF Typed, ThreadStates, TaskStates, OpenEnds, Steps, Becomes
<1> HIDE DEF s
<1>4. /\ TypeOK' /\ thread'[t] = s /\ task'[t] = k
      /\ \A u \in Threads \ {t} : thread'[u] = thread[u] /\ task'[u] = task[u]
  BY <1>1, <1>2, <1>3, OneThread DEF Typed, OpenEnds, Steps, Becomes
<1>5. BeforeOpen'
  BY <1>1, <1>2, <1>4 DEF ClientInv, BeforeOpen, Typed, Fits, OpenEnds, In, Op, Results, Steps,
     Becomes
<1>6. AfterOpen'
  BY <1>1, <1>2, <1>4 DEF ClientInv, AfterOpen, ClosesAlone, Typed, Fits, OpenEnds, In, Op,
     Stops, Results, Steps, Becomes
<1>7. QuietAlone'
  BY <1>1, <1>2, <1>4 DEF ClientInv, QuietAlone, Typed, Fits, OpenEnds, In, Op, Results, Steps,
     Becomes
<1> QED
  BY <1>4, <1>5, <1>6, <1>7 DEF ClientInv, OpenEnds, Steps, Becomes

LEMMA RequestRunsStep ==
  ASSUME ClientInv, NEW t \in Threads, RequestRuns(t)
  PROVE  ClientInv'
<1> DEFINE s == thread[t]
           k == task'[t]
<1>1. Typed(t)
  BY ClientTypes DEF ClientInv
<1>2. Fits(s, k) /\ k \in {"waiting", "raised"}
  BY <1>1 DEF Typed, Fits, ThreadStates, TaskStates, Results, RequestRuns, In, Steps, Becomes
<1>3. thread' = [thread EXCEPT ![t] = s] /\ task' = [task EXCEPT ![t] = k]
  BY <1>1 DEF Typed, ThreadStates, TaskStates, RequestRuns, Steps, Becomes
<1> HIDE DEF s
<1>4. /\ TypeOK' /\ thread'[t] = s /\ task'[t] = k
      /\ \A u \in Threads \ {t} : thread'[u] = thread[u] /\ task'[u] = task[u]
  BY <1>1, <1>2, <1>3, OneThread DEF Typed, RequestRuns, Steps, Becomes
<1>5. BeforeOpen'
  BY <1>1, <1>2, <1>4 DEF ClientInv, BeforeOpen, Typed, Fits, RequestRuns, In, Op, Results,
     Steps, Becomes
<1>6. AfterOpen'
  BY <1>1, <1>2, <1>4 DEF ClientInv, AfterOpen, ClosesAlone, Typed, Fits, RequestRuns, In, Op,
     Stops, Results, Steps, Becomes
<1>7. QuietAlone'
  BY <1>1, <1>2, <1>4 DEF ClientInv, QuietAlone, Typed, Fits, RequestRuns, In, Op, Results,
     Steps, Becomes
<1> QED
  BY <1>4, <1>5, <1>6, <1>7 DEF ClientInv, RequestRuns, Steps, Becomes

LEMMA RequestEndsStep ==
  ASSUME ClientInv, NEW t \in Threads, RequestEnds(t)
  PROVE  ClientInv'
<1> DEFINE s == thread[t]
           k == task'[t]
<1>1. Typed(t)
  BY ClientTypes DEF ClientInv
<1>2. Fits(s, k) /\ k \in Results
  BY <1>1 DEF Typed, Fits, ThreadStates, TaskStates, Results, RequestEnds, In, Steps, Becomes
<1>3. thread' = [thread EXCEPT ![t] = s] /\ task' = [task EXCEPT ![t] = k]
  BY <1>1 DEF Typed, ThreadStates, TaskStates, RequestEnds, Steps, Becomes
<1> HIDE DEF s
<1>4. /\ TypeOK' /\ thread'[t] = s /\ task'[t] = k
      /\ \A u \in Threads \ {t} : thread'[u] = thread[u] /\ task'[u] = task[u]
  BY <1>1, <1>2, <1>3, OneThread DEF Typed, RequestEnds, Steps, Becomes
<1>5. BeforeOpen'
  BY <1>1, <1>2, <1>4 DEF ClientInv, BeforeOpen, Typed, Fits, RequestEnds, In, Op, Results,
     Steps, Becomes
<1>6. AfterOpen'
  BY <1>1, <1>2, <1>4 DEF ClientInv, AfterOpen, ClosesAlone, Typed, Fits, RequestEnds, In, Op,
     Stops, Results, Steps, Becomes
<1>7. QuietAlone'
  BY <1>1, <1>2, <1>4 DEF ClientInv, QuietAlone, Typed, Fits, RequestEnds, In, Op, Results,
     Steps, Becomes
<1> QED
  BY <1>4, <1>5, <1>6, <1>7 DEF ClientInv, RequestEnds, Steps, Becomes

LEMMA StartRunsStep ==
  ASSUME ClientInv, NEW t \in Threads, StartRuns(t)
  PROVE  ClientInv'
<1> DEFINE s == thread[t]
           k == task'[t]
<1>1. Typed(t)
  BY ClientTypes DEF ClientInv
<1>2. Fits(s, k) /\ k = "value"
  BY <1>1 DEF Typed, Fits, ThreadStates, TaskStates, Results, StartRuns, In, Steps, Becomes
<1>3. thread' = [thread EXCEPT ![t] = s] /\ task' = [task EXCEPT ![t] = k]
  BY <1>1 DEF Typed, ThreadStates, TaskStates, StartRuns, Steps, Becomes
<1> HIDE DEF s
<1>4. /\ TypeOK' /\ thread'[t] = s /\ task'[t] = k
      /\ \A u \in Threads \ {t} : thread'[u] = thread[u] /\ task'[u] = task[u]
  BY <1>1, <1>2, <1>3, OneThread DEF Typed, StartRuns, Steps, Becomes
<1>5. BeforeOpen'
  BY <1>1, <1>2, <1>4 DEF ClientInv, BeforeOpen, Typed, Fits, StartRuns, In, Op, Results, Steps,
     Becomes
<1>6. AfterOpen'
  BY <1>1, <1>2, <1>4 DEF ClientInv, AfterOpen, ClosesAlone, Typed, Fits, StartRuns, In, Op,
     Stops, Results, Steps, Becomes
<1>7. QuietAlone'
  BY <1>1, <1>2, <1>4 DEF ClientInv, QuietAlone, Typed, Fits, StartRuns, In, Op, Results, Steps,
     Becomes
<1> QED
  BY <1>4, <1>5, <1>6, <1>7 DEF ClientInv, StartRuns, Steps, Becomes

LEMMA CloseRunsStep ==
  ASSUME ClientInv, NEW t \in Threads, CloseRuns(t)
  PROVE  ClientInv'
<1> DEFINE s == thread[t]
           k == task'[t]
<1>1. Typed(t)
  BY ClientTypes DEF ClientInv
<1>2. Fits(s, k) /\ k = IF child = "alive" THEN "reaping" ELSE "value"
  BY <1>1 DEF Typed, Fits, ThreadStates, TaskStates, Results, CloseRuns, In, Steps, Becomes
<1>3. thread' = [thread EXCEPT ![t] = s] /\ task' = [task EXCEPT ![t] = k]
  BY <1>1 DEF Typed, ThreadStates, TaskStates, CloseRuns, Steps, Becomes
<1> HIDE DEF s
<1>4. /\ TypeOK' /\ thread'[t] = s /\ task'[t] = k
      /\ \A u \in Threads \ {t} : thread'[u] = thread[u] /\ task'[u] = task[u]
  BY <1>1, <1>2, <1>3, OneThread DEF Typed, CloseRuns, Steps, Becomes
<1>5. BeforeOpen'
  BY <1>1, <1>2, <1>4 DEF ClientInv, BeforeOpen, Typed, Fits, CloseRuns, In, Op, Results, Steps,
     Becomes
<1>6. AfterOpen'
  BY <1>1, <1>2, <1>4 DEF ClientInv, AfterOpen, ClosesAlone, Typed, Fits, CloseRuns, In, Op,
     Stops, Results, Steps, Becomes
<1>7. QuietAlone'
  BY <1>1, <1>2, <1>4 DEF ClientInv, QuietAlone, Typed, Fits, CloseRuns, In, Op, Results, Steps,
     Becomes
<1> QED
  BY <1>4, <1>5, <1>6, <1>7 DEF ClientInv, CloseRuns, Steps, Becomes

LEMMA CloseReapsStep ==
  ASSUME ClientInv, NEW t \in Threads, CloseReaps(t)
  PROVE  ClientInv'
<1> DEFINE s == thread[t]
           k == task'[t]
<1>1. Typed(t)
  BY ClientTypes DEF ClientInv
<1>2. Fits(s, k) /\ k = "value"
  BY <1>1 DEF Typed, Fits, ThreadStates, TaskStates, Results, CloseReaps, In, Steps, Becomes
<1>3. thread' = [thread EXCEPT ![t] = s] /\ task' = [task EXCEPT ![t] = k]
  BY <1>1 DEF Typed, ThreadStates, TaskStates, CloseReaps, Steps, Becomes
<1> HIDE DEF s
<1>4. /\ TypeOK' /\ thread'[t] = s /\ task'[t] = k
      /\ \A u \in Threads \ {t} : thread'[u] = thread[u] /\ task'[u] = task[u]
  BY <1>1, <1>2, <1>3, OneThread DEF Typed, CloseReaps, Steps, Becomes
<1>5. BeforeOpen'
  BY <1>1, <1>2, <1>4 DEF ClientInv, BeforeOpen, Typed, Fits, CloseReaps, In, Op, Results, Steps,
     Becomes
<1>6. AfterOpen'
  BY <1>1, <1>2, <1>4 DEF ClientInv, AfterOpen, ClosesAlone, Typed, Fits, CloseReaps, In, Op,
     Stops, Results, Steps, Becomes
<1>7. QuietAlone'
  BY <1>1, <1>2, <1>4 DEF ClientInv, QuietAlone, Typed, Fits, CloseReaps, In, Op, Results, Steps,
     Becomes
<1> QED
  BY <1>4, <1>5, <1>6, <1>7 DEF ClientInv, CloseReaps, Steps, Becomes


LEMMA LoopEndsStep ==
  ASSUME ClientInv, LoopEnds
  PROVE  ClientInv'
<1>1. TypeOK'
  BY DEF ClientInv, TypeOK, LoopEnds
<1>2. BeforeOpen'
  BY DEF ClientInv, BeforeOpen, LoopEnds, In, Op
<1>3. AfterOpen'
  BY DEF ClientInv, AfterOpen, ClosesAlone, LoopEnds, In, Op, Stops
<1>4. QuietAlone'
  BY DEF ClientInv, QuietAlone, LoopEnds, In, Op
<1> QED
  BY <1>1, <1>2, <1>3, <1>4 DEF ClientInv, LoopEnds

LEMMA ChildExitsStep ==
  ASSUME ClientInv, ChildExits
  PROVE  ClientInv'
<1>1. TypeOK'
  BY DEF ClientInv, TypeOK, ChildExits
<1>2. BeforeOpen'
  BY DEF ClientInv, BeforeOpen, ChildExits, In, Op
<1>3. AfterOpen'
  BY DEF ClientInv, AfterOpen, ClosesAlone, ChildExits, In, Op, Stops
<1>4. QuietAlone'
  BY DEF ClientInv, QuietAlone, ChildExits, In, Op
<1> QED
  BY <1>1, <1>2, <1>3, <1>4 DEF ClientInv, ChildExits

LEMMA ClientUnchanged ==
  ASSUME ClientInv, UNCHANGED <<loop, client, child, thread, task, closers, stuck>>
  PROVE  ClientInv'
  BY DEF ClientInv, TypeOK, BeforeOpen, AfterOpen, ClosesAlone, QuietAlone, In, Op, Stops

-----------------------------------------------------------------------------
LEMMA InitSyncInv == Init => SyncInv
<1> SUFFICES ASSUME Init PROVE SyncInv
  OBVIOUS
<1>1. NewResolver \in ResolverStates
  BY DEF NewResolver, ResolverStates
<1>2. NewResolver.pc = "idle" /\ NewResolver.found = "none"
  BY DEF NewResolver
<1>3. resolver = [r \in Resolvers |-> NewResolver] /\ cached = "absent" /\ temp = "absent" /\ overlap = FALSE
  BY DEF Init, CacheInit
<1> HIDE DEF NewResolver
<1>4. \A r \in Resolvers : resolver[r].pc = "idle" /\ resolver[r].found = "none"
  BY <1>2, <1>3
<1>5. resolver \in [Resolvers -> ResolverStates]
  BY <1>1, <1>3
<1>6. CacheInv
  BY <1>3, <1>4, <1>5 DEF CacheInv, CacheTypes, WritesAlone, Writes, CacheIsVerified, Contents,
     UnderWay, At
<1>7. TypeOK
  BY DEF Init, TypeOK
<1>8. ClientInv
  BY <1>7 DEF Init, ClientInv, BeforeOpen, AfterOpen, QuietAlone, In, Op
<1> QED
  BY <1>6, <1>8 DEF SyncInv

LEMMA CallsKeepSyncInv ==
  ASSUME SyncInv, NEW t \in Threads, Calls(t) \/ ThreadStep(t) \/ JoinTimesOut(t)
  PROVE  SyncInv'
<1>1. UNCHANGED cacheVars
  BY DEF Calls, ThreadStep, ConnectSync, Request, IterBegins, IterNext, IterAbandoned, Close,
         CloseMarks, Finally, Submit, Woken, LoopTested, LoopStops, LoopJoined, JoinTimesOut
<1>2. ClientInv'
  BY ConnectSyncStep, RequestStep, IterBeginsStep, IterNextStep, IterAbandonedStep, CloseStep,
     CloseMarksStep, FinallyStep, SubmitGoneStep, SubmitQueuesStep, WokenStep, LoopTestedStep,
     LoopStopsStep, LoopJoinedStep, JoinTimesOutStep DEF SyncInv, Calls, ThreadStep
<1> QED
  BY <1>1, <1>2, CacheUnchanged DEF SyncInv

\* A coroutine's step; the one that opens the client may begin to resolve.
LEMMA CoroutinesKeepSyncInv ==
  ASSUME SyncInv, NEW t \in Threads, LoopStep(t)
  PROVE  SyncInv'
<1>1. (UNCHANGED cacheVars) \/ ResolverBegins(t)
  BY DEF LoopStep, OpenBegins, OpenSpawns, OpenEnds, RequestRuns, RequestEnds, StartRuns,
         CloseRuns, CloseReaps
<1>2. CacheInv'
  BY <1>1, CacheUnchanged, ResolversKeepCacheInv, ThreadAssumption DEF SyncInv
<1>3. ClientInv'
  BY OpenBeginsStep, OpenSpawnsStep, OpenEndsStep, RequestRunsStep, RequestEndsStep,
     StartRunsStep,
     CloseRunsStep, CloseReapsStep DEF SyncInv, LoopStep
<1> QED
  BY <1>2, <1>3 DEF SyncInv

LEMMA ResolversKeepSyncInv ==
  ASSUME SyncInv, NEW r \in Resolvers, Resolves(r) \/ Elsewhere(r)
  PROVE  SyncInv'
  BY ResolversKeepCacheInv, ClientUnchanged DEF SyncInv, Resolves, Elsewhere

\* The cache and the client stay as SyncInv says whatever threads, loop, processes and
\* files do (sync.py, binary.py): it is inductive.
THEOREM SyncInvariant == Spec => []SyncInv
<1>1. SyncInv /\ [Next]_vars => SyncInv'
  <2> SUFFICES ASSUME SyncInv, [Next]_vars PROVE SyncInv'
    OBVIOUS
  <2>1. CASE \E t \in Threads : Calls(t) \/ ThreadStep(t) \/ JoinTimesOut(t)
    BY <2>1, CallsKeepSyncInv
  <2>2. CASE \E t \in Threads : LoopStep(t)
    BY <2>2, CoroutinesKeepSyncInv
  <2>3. CASE LoopEnds \/ ChildExits
    BY <2>3, LoopEndsStep, ChildExitsStep, CacheUnchanged DEF SyncInv, LoopEnds, ChildExits
  <2>4. CASE \E r \in Resolvers : Resolves(r) \/ Elsewhere(r)
    BY <2>4, ResolversKeepSyncInv
  <2>5. CASE UNCHANGED vars
    BY <2>5, CacheUnchanged, ClientUnchanged DEF vars, SyncInv
  <2> QED
    BY <2>1, <2>2, <2>3, <2>4, <2>5 DEF Next
<1> QED
  BY <1>1, InitSyncInv, PTL DEF Spec

\* Every variable of the client keeps its type, and a thread waits exactly while it has
\* a coroutine (sync.py _LoopThread.run).
THEOREM SyncTypeCorrect == Spec => []TypeOK
<1>1. SyncInv => TypeOK
  BY DEF SyncInv, ClientInv
<1> QED
  BY <1>1, SyncInvariant, PTL

\* Unless two resolvers have held the temporary file at a time, the cache holds a whole
\* binary or none and each resolver verified, or put in place, the version it was asked
\* for, whoever looks, unlinks, replaces or dies when (binary.py resolve_makai_binary).
THEOREM CacheVerified == Spec => []CacheIsVerified
<1>1. SyncInv => CacheIsVerified
  BY DEF SyncInv, CacheInv
<1> QED
  BY <1>1, SyncInvariant, PTL

\* A failed connect_sync, and a close() no other thread entered, leave no child and no
\* open loop, unless the join timed out (sync.py connect_sync, SyncMakaiClient.close).
THEOREM NoOrphanLeft == Spec => []NoOrphan
<1>1. SyncInv => NoOrphan
  <2> SUFFICES ASSUME ClientInv PROVE NoOrphan
    BY DEF SyncInv
  <2>1. ASSUME client = "none", loop # "none", \A t \in Threads : In(t, "idle")
        PROVE  child \in {"none", "dead"} /\ (loop = "closed" \/ stuck)
    <3>1. \A t \in Threads : task[t] = "none"
      BY <2>1 DEF ClientInv, TypeOK, In
    <3> QED
      BY <2>1, <3>1 DEF ClientInv, BeforeOpen
  <2>2. ASSUME NEW t \in Threads, closers = {t}, In(t, "idle")
        PROVE  child = "dead" /\ (loop = "closed" \/ stuck)
    BY <2>2 DEF ClientInv, BeforeOpen, AfterOpen, ClosesAlone, In, Op
  <2> QED
    BY <2>1, <2>2 DEF NoOrphan
<1> QED
  BY <1>1, SyncInvariant, PTL

\* The teardown of an iterator is submitted to a loop that is gone only when a thread
\* other than its own has entered close() (sync.py _iterate).
THEOREM TeardownIsQuiet == Spec => []QuietTeardown
<1>1. SyncInv => QuietTeardown
  BY DEF SyncInv, ClientInv, QuietAlone, QuietTeardown, Op
<1> QED
  BY <1>1, SyncInvariant, PTL

=============================================================================
