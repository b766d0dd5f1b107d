----------------------------- MODULE MCCustody -----------------------------
(* Instances of Custody for TLC. *)
EXTENDS Custody, TLC

CONSTANTS p1, p2

\* p1 has an external signer, p2 leaves signing to the inner keystore.
OneEach == [p \in Procs |-> IF p = p1 THEN "external" ELSE "inner"]
=============================================================================
