----------------------------- MODULE MCFullDemo -----------------------------
(* Instances of FullDemo for TLC. *)
EXTENDS FullDemo, TLC

CONSTANTS demo, walletA, walletB, issuer, temp

InTemp     == [p \in Procs |-> temp]
TrackedAll == [x \in Accounts |-> temp]
=============================================================================
