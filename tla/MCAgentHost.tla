----------------------------- MODULE MCAgentHost -----------------------------
(* Small instances of AgentHost.  One session id is enough to replace a      *)
(* registration while a run of the old one is alive; two are needed for a    *)
(* frame whose payload names another session than its envelope.              *)
EXTENDS AgentHostServer, TLC

SessionSymmetry == Permutations(Sessions)
=============================================================================
