----------------------------- MODULE MCListing -----------------------------
(* Small instances of Listing for TLC. *)
EXTENDS Listing

(* Page sizes of one and two rows; of none, and of one from the end.       *)
SmallLimits == {-1, 0, 1, 2}
=============================================================================
