----------------------------- MODULE MCMultisig -----------------------------
(* Instances of Multisig for TLC. *)
EXTENDS Multisig, TLC

CONSTANTS s1, s2, s3, m1, m2

\* s1 and s2 use an external signer, s3 a key in its process.
Mixed == [s \in Signers |-> IF s = s3 THEN "simulated" ELSE "brale"]

\* s1 calls sign_hex on a runtime of one thread.
OneThreadS1 == [s \in Signers |-> IF s = s1 THEN "current_thread" ELSE "multi_thread"]
=============================================================================
