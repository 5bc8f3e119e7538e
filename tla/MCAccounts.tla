----------------------------- MODULE MCAccounts -----------------------------
(* Small instances of Accounts for TLC. *)
EXTENDS Accounts, TLC

CONSTANTS Root, Test, RootEmail, TestEmail

(* An administrator and a user. *)
SmallSeeds ==
    {[id |-> Root, email |-> RootEmail, admin |-> TRUE, active |-> TRUE],
     [id |-> Test, email |-> TestEmail, admin |-> FALSE, active |-> TRUE]}

(* Slots, and the identities that are not seeded, are interchangeable. *)
Symmetry == Permutations(Reqs) \cup Permutations(Ids \ {Root, Test})
=============================================================================
