--------------------------- MODULE MCFeatureFlags ---------------------------
(* A small instance of FeatureFlags for TLC. *)
EXTENDS FeatureFlags
=============================================================================
