----------------------------- MODULE MCHelpers -----------------------------
(* The instance of Helpers for TLC. *)
EXTENDS Helpers
=============================================================================
