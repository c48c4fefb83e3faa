----------------------------- MODULE MCTransport -----------------------------
(***************************************************************************)
(* TLC instances of Transport.  Tasks, requests and children are           *)
(* interchangeable, so the safety runs use their symmetry.                 *)
(***************************************************************************)
EXTENDS Transport, TLC

Symmetry == Permutations(Tasks) \union Permutations(Requests) \union Permutations(Children)

=============================================================================
