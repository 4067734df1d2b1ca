------------------------- MODULE MCRuntimeWorkflows -------------------------
(* RuntimeWorkflows on a small instance. *)
EXTENDS RuntimeWorkflows
=============================================================================
