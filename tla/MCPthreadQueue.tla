--------------------------- MODULE MCPthreadQueue ---------------------------
(***************************************************************************)
(* TLC instance of PthreadQueue.  No symmetry: the run checks liveness.     *)
(***************************************************************************)
EXTENDS PthreadQueue
=============================================================================
