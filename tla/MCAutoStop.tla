----------------------------- MODULE MCAutoStop -----------------------------
(* Auto-stop, for TLC.                                                     *)
EXTENDS AutoStop
=============================================================================
