---------------------------- MODULE MCEmailQueue ----------------------------
(* A small instance of EmailQueue for TLC. *)
EXTENDS EmailQueue
=============================================================================
