------------------------------- MODULE MCWatch -------------------------------
(* A small instance of Watch for TLC. *)
EXTENDS Watch
=============================================================================
