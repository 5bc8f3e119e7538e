------------------------------ MODULE MCFiles ------------------------------
(* Small instances of Files for TLC. *)
EXTENDS Files
=============================================================================
