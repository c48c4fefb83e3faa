----------------------------- MODULE MCAgentCall -----------------------------
(***************************************************************************)
(* Instances of AgentCall: two calls may follow each other on a session id *)
(* their callers supply, or run side by side on ids the SDK mints.         *)
(***************************************************************************)
EXTENDS AgentCall, TLC

CallSymmetry == Permutations(Calls) \union Permutations(Sessions \ Supplied)

=============================================================================
