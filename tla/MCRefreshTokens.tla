-------------------------- MODULE MCRefreshTokens --------------------------
(* Small instances of RefreshTokens for TLC. *)
EXTENDS RefreshTokens, TLC

(* Request slots, sessions and accounts are interchangeable. *)
Symmetry == Permutations(Reqs) \cup Permutations(Session) \cup Permutations(Users)

(* A local clock that goes forward, one that goes back by more than a      *)
(* lifetime, UTC, and a setting that only the JWT library can read.        *)
SmallEnvs ==
    {[lasts |-> 3, parsed |-> TRUE, change |-> 1, shift |-> 2],
     [lasts |-> 1, parsed |-> TRUE, change |-> 2, shift |-> -2],
     [lasts |-> 1, parsed |-> TRUE, change |-> 0, shift |-> 0],
     [lasts |-> 2, parsed |-> FALSE, change |-> 0, shift |-> 0]}
=============================================================================
