----------------------------- MODULE MCSyncClient -----------------------------
(***************************************************************************)
(* Two threads of one program share a blocking client while another        *)
(* process resolves the same binary.                                       *)
(***************************************************************************)
EXTENDS SyncClient

CONSTANTS t1, t2, other

=============================================================================
