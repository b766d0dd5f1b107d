---------------------------- MODULE MCOperations ----------------------------
(* Instances of Operations for TLC. *)
EXTENDS Operations, TLC

CONSTANTS p1, p2, a, b, issuer, brale, outside

BothBrale   == [p \in Procs |-> brale]
AllAtBrale  == [x \in Accounts |-> brale]

\* Wallet b belongs to a customer who runs p2 on a store of their own.
CustomerP2  == [p \in Procs |-> IF p = p2 THEN outside ELSE brale]
CustomerB   == [x \in Accounts |-> IF x = b THEN outside ELSE brale]

ProcSymmetry == Permutations({p1, p2})
=============================================================================
