---------------------------- MODULE MCProviderCall ----------------------------
(***************************************************************************)
(* Instances of ProviderCall: one call, the two streams of its attempts    *)
(* and the login between them.                                             *)
(***************************************************************************)
EXTENDS ProviderCall

StreamsOfCalls == Flows \X {1, 2}

===============================================================================
