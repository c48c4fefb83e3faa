----------------------------- MODULE BinaryCache -----------------------------
(***************************************************************************)
(* resolve_makai_binary (python/src/makai/binary.py): resolvers, in        *)
(* processes or threads of their own, find the runtime's binary.  One that *)
(* is given a URL keeps the download in a cache file the name in the URL   *)
(* picks, whatever its version, and writes it through a temporary file of  *)
(* one fixed name.  A step is what is atomic in the file system; a process *)
(* may die between any two.                                                *)
(*                                                                         *)
(* Abstractions.  A file holds a version or is "torn": empty, half written *)
(* or mixed.  The explicit path, the build tree and PATH are one place     *)
(* that is not the cache.  Mode bits are left out.                         *)
(***************************************************************************)
EXTENDS Naturals

CONSTANTS
  Resolvers,
  Versions   \* what checksums name

\* A version is none of the marks of a file that holds none.
ASSUME VersionAssumption == Versions \cap {"absent", "torn"} = {}

VARIABLES
  cached,    \* the file at cache_path
  temp,      \* the file at temp_path
  resolver,  \* by resolver: its locals
  overlap    \* history: two resolvers have held the temporary file at a time

cacheVars == <<cached, temp, resolver, overlap>>

\* `fd` is the file its open temporary has become; `found` what the path it returned
\* held when it was last read or replaced.
NewResolver == [pc |-> "idle", wanted |-> "none", fd |-> "none", found |-> "none"]

CacheInit ==
  /\ cached = "absent" /\ temp = "absent" /\ overlap = FALSE
  /\ resolver = [r \in Resolvers |-> NewResolver]

UnderWay(r) == resolver[r].pc \notin {"idle", "returned", "raised", "dead"}

At(r, pc) == resolver[r].pc = pc

Go(r, pc) == resolver' = [resolver EXCEPT ![r].pc = pc]

FilesKept == UNCHANGED <<cached, temp, overlap>>

\* An explicit path that exists, the build tree, or PATH.
ResolveElsewhere(r) ==
  /\ At(r, "idle")
  /\ \E pc \in {"returned", "raised"} : Go(r, pc)
  /\ FilesKept

ResolveUrl(r) ==
  /\ At(r, "idle")
  /\ \E v \in Versions : resolver' = [resolver EXCEPT ![r].pc = "looking", ![r].wanted = v]
  /\ FilesKept

Look(r) ==
  /\ At(r, "looking")
  /\ Go(r, IF cached = "absent" THEN "downloading" ELSE "hashing")
  /\ FilesKept

Returns(r) ==
  resolver' = [resolver EXCEPT ![r].pc = "returned", ![r].found = cached]

HashTrusting(r) ==  \* seeded fault: a cached file is not verified again
  /\ At(r, "hashing")
  /\ IF cached = "absent" THEN Go(r, "raised") ELSE Returns(r)
  /\ FilesKept

\* The file may have gone since exists() said otherwise.
Hash(r) ==
  /\ At(r, "hashing")
  /\ CASE cached = "absent" -> Go(r, "raised")
       [] cached = resolver[r].wanted -> Returns(r)
       [] OTHER -> Go(r, "unlinking")
  /\ FilesKept

\* A file that loses its name stays open for the resolver that writes it.
Renamed(from, to) ==
  [q \in Resolvers |-> IF resolver[q].fd = from THEN [resolver[q] EXCEPT !.fd = to]
                       ELSE resolver[q]]

Unlink(r) ==
  /\ At(r, "unlinking")
  /\ IF cached = "absent" THEN Go(r, "raised") /\ UNCHANGED cached
     ELSE /\ cached' = "absent"
          /\ resolver' = [Renamed("cached", "lost") EXCEPT ![r].pc = "downloading"]
  /\ UNCHANGED <<temp, overlap>>

\* The download fails, its checksum is wrong, or it is the version wanted.
Download(r) ==
  /\ At(r, "downloading")
  /\ Go(r, "opening") \/ Go(r, "raised")
  /\ FilesKept

\* From the opening of the temporary file to its replacing the cached one.
Writes(r) == resolver[r].pc \in {"writing", "replacing"}

OpenTemp(r) ==
  /\ At(r, "opening")
  /\ temp' = "torn"
  /\ resolver' = [resolver EXCEPT ![r].pc = "writing", ![r].fd = "temp"]
  /\ overlap' = (overlap \/ \E q \in Resolvers : Writes(q))
  /\ UNCHANGED cached

Written(r, old) == IF old \in {"torn", resolver[r].wanted} THEN resolver[r].wanted ELSE "torn"

WriteTemp(r) ==
  /\ At(r, "writing")
  /\ temp' = IF resolver[r].fd = "temp" THEN Written(r, temp) ELSE temp
  /\ cached' = IF resolver[r].fd = "cached" THEN Written(r, cached) ELSE cached
  /\ resolver' = [resolver EXCEPT ![r].pc = "replacing", ![r].fd = "none"]
  /\ UNCHANGED overlap

\* chmod and replace both name the path: whatever is there is moved.
Replace(r) ==
  /\ At(r, "replacing")
  /\ IF temp = "absent" THEN Go(r, "raised") /\ UNCHANGED <<cached, temp>>
     ELSE /\ cached' = temp /\ temp' = "absent"
          /\ resolver' = [q \in Resolvers |->
               LET s == resolver[q]
                   fd == CASE s.fd = "cached" -> "lost" [] s.fd = "temp" -> "cached"
                           [] OTHER -> s.fd
               IN IF q = r THEN [s EXCEPT !.pc = "returned", !.found = temp]
                  ELSE [s EXCEPT !.fd = fd]]
  /\ UNCHANGED overlap

\* The process dies; half of a write may be in the file.
Die(r) ==
  /\ UnderWay(r)
  /\ resolver' = [resolver EXCEPT ![r].pc = "dead", ![r].fd = "none"]
  /\ FilesKept

ResolverStep(r) ==
  \/ Look(r) \/ Hash(r) \/ Unlink(r) \/ Download(r) \/ OpenTemp(r) \/ WriteTemp(r) \/ Replace(r)

ResolverBegins(r) == ResolveUrl(r) \/ ResolveElsewhere(r)

-----------------------------------------------------------------------------
\* Unless two resolvers have held the temporary file at a time, the cache holds a whole
\* binary or none, and what a resolver last read at the path it returns, or put there,
\* is the version it was asked for; though others look, verify, unlink and replace the
\* same name for other versions between any two of its steps, and any of them dies.
CacheIsVerified ==
  ~overlap =>
    /\ cached # "torn"
    /\ \A r \in Resolvers : At(r, "returned") => resolver[r].found \in {"none", resolver[r].wanted}

=============================================================================
