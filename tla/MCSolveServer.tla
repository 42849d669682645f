--------------------------- MODULE MCSolveServer ---------------------------
(* Three requests of two clients for two slots.                            *)
EXTENDS SolveServer

=============================================================================
