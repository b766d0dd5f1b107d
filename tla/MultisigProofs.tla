--------------------------- MODULE MultisigProofs ---------------------------
(***************************************************************************)
(* Type correctness of Multisig, and that no proposal is executed without  *)
(* the approval of a threshold of signers.                                 *)
(***************************************************************************)
EXTENDS Multisig, FiniteSetTheorems, TLAPS

LEMMA SignHexSigns ==
    ASSUME NEW s \in Signers, NEW m, NEW sig \in sign_hex(s, m)
    PROVE  sig = SignatureOf(s, m)
BY DEF sign_hex, BraleSignHex, SimulatedSignHex, sign_prehash, SignatureOf

LEMMA SignatureType ==
    ASSUME NEW s \in Signers, NEW m \in Messages
    PROVE  SignatureOf(s, m) \in Signatures
BY DEF SignatureOf, Signatures, Digests, keccak256_hash_word

\* The state of a process that has died, or that waits for the next call.
LEMMA ForgetType ==
    ASSUME TypeOK, NEW s \in Signers, NEW step \in {"idle", "dead"},
           pc' = [pc EXCEPT ![s] = step], Forget(s)
    PROVE  /\ pc' \in [Signers -> {"idle", "sign_hex", "send", "dead"}]
           /\ message' \in [Signers -> Messages \cup {NoMessage}]
           /\ signature' \in [Signers -> SUBSET Signatures]
           /\ \A q \in Signers : signature'[q] # {} => pc'[q] = "send"
           /\ \A q \in Signers \ {s} : pc'[q] = pc[q] /\ message'[q] = message[q]
           /\ \A q \in Signers : signature'[q] \subseteq signature[q]
           /\ pc'[s] # "sign_hex"
BY DEF TypeOK, Forget, NoSignature

-----------------------------------------------------------------------------
MultisigInv == TypeOK /\ ApprovalInv

LEMMA TypeStep ==
    ASSUME MultisigInv, [Next]_vars
    PROVE  TypeOK'
<1> USE DEF MultisigInv
<1>1. ASSUME NEW m \in Messages, Propose(m) \/ Execute(m)
      PROVE  TypeOK'
  BY <1>1 DEF Propose, Execute, signerVars, TypeOK
<1>2. ASSUME NEW s \in Signers, NEW m \in Messages, Sign(s, m)
      PROVE  TypeOK'
  BY <1>2 DEF Sign, TypeOK
<1>3. ASSUME NEW s \in Signers, SignHex(s)
      PROVE  TypeOK'
  <2>1. PICK sig \in sign_hex(s, message[s]) : signature' = [signature EXCEPT ![s] = {sig}]
    BY <1>3 DEF SignHex
  <2>2. message[s] \in Messages
    BY <1>3 DEF SignHex, ApprovalInv, SignedAsAsked, TypeOK
  <2>3. sig \in Signatures
    BY <2>1, <2>2, SignHexSigns, SignatureType
  <2> QED
    BY <1>3, <2>1, <2>3 DEF SignHex, TypeOK
<1>4. ASSUME NEW s \in Signers, SignHexPanics(s)
      PROVE  TypeOK'
  BY <1>4, ForgetType DEF SignHexPanics, Die, TypeOK
<1>5. ASSUME NEW s \in Signers, Refused(s) \/ Crash(s)
      PROVE  TypeOK'
  <2>1. faults' \in 0 .. MaxFaults
    BY <1>5, MultisigAssumption DEF Refused, Crash, Fault, TypeOK
  <2> QED
    BY <1>5, <2>1, ForgetType DEF Refused, Crash, Die, TypeOK
<1>6. ASSUME NEW s \in Signers, Send(s)
      PROVE  TypeOK'
  <2>1. collected' \subseteq Signatures
    BY <1>6 DEF Send, TypeOK
  <2> QED
    BY <1>6, <2>1, ForgetType DEF Send, TypeOK
<1>7. ASSUME NEW s \in Signers, Restart(s)
      PROVE  TypeOK'
  BY <1>7 DEF Restart, TypeOK
<1>8. CASE UNCHANGED vars
  BY <1>8 DEF vars, signerVars, TypeOK
<1> QED
  BY <1>1, <1>2, <1>3, <1>4, <1>5, <1>6, <1>7, <1>8 DEF Next, SignerStep

\* A process that forgets takes no signature back and asks for none.
LEMMA ForgetKeeps ==
    ASSUME MultisigInv, NEW s \in Signers, NEW step \in {"idle", "dead"},
           pc' = [pc EXCEPT ![s] = step], Forget(s), approved' = approved,
           collected' \subseteq collected \cup signature[s]
    PROVE  SignedAsAsked'
<1>1. /\ pc'[s] # "sign_hex"
      /\ \A q \in Signers \ {s} : pc'[q] = pc[q] /\ message'[q] = message[q]
      /\ \A q \in Signers : signature'[q] \subseteq signature[q]
  BY ForgetType DEF MultisigInv
<1>2. /\ \A q \in Signers : pc[q] = "sign_hex" => message[q] \in approved[q]
      /\ \A q \in Signers : signature[q] \subseteq {SignatureOf(q, m) : m \in approved[q]}
      /\ \A sig \in collected : \E q \in Signers : \E m \in approved[q] : sig = SignatureOf(q, m)
  BY DEF MultisigInv, ApprovalInv, SignedAsAsked
<1>3. \A q \in Signers : pc'[q] = "sign_hex" => message'[q] \in approved'[q]
  BY <1>1, <1>2
<1>4. \A q \in Signers : signature'[q] \subseteq {SignatureOf(q, m) : m \in approved'[q]}
  BY <1>1, <1>2
<1>5. \A sig \in collected' : \E q \in Signers : \E m \in approved'[q] : sig = SignatureOf(q, m)
  BY <1>2
<1> QED
  BY <1>3, <1>4, <1>5 DEF SignedAsAsked, SignatureOf, keccak256_hash_word

\* What signatures stand for, when approvals are only added.
LEMMA SignedKept ==
    ASSUME MultisigInv, [Next]_vars
    PROVE  SignedAsAsked' /\ \A s \in Signers : approved[s] \subseteq approved'[s]
<1> USE DEF MultisigInv, ApprovalInv
<1>1. ASSUME NEW m \in Messages, Propose(m) \/ Execute(m)
      PROVE  SignedAsAsked' /\ \A s \in Signers : approved[s] \subseteq approved'[s]
  BY <1>1 DEF Propose, Execute, signerVars, SignedAsAsked
<1>2. ASSUME NEW s \in Signers, NEW m \in Messages, Sign(s, m)
      PROVE  SignedAsAsked' /\ \A q \in Signers : approved[q] \subseteq approved'[q]
  <2>1. /\ \A q \in Signers : approved[q] \subseteq approved'[q]
        /\ message'[s] \in approved'[s]
        /\ \A q \in Signers \ {s} : pc'[q] = pc[q] /\ message'[q] = message[q]
        /\ signature' = signature /\ collected' = collected
    BY <1>2 DEF Sign, TypeOK
  <2> QED
    BY <2>1 DEF SignedAsAsked
<1>3. ASSUME NEW s \in Signers, SignHex(s)
      PROVE  SignedAsAsked' /\ \A q \in Signers : approved[q] \subseteq approved'[q]
  <2>1. PICK sig \in sign_hex(s, message[s]) : signature' = [signature EXCEPT ![s] = {sig}]
    BY <1>3 DEF SignHex
  <2>2. sig = SignatureOf(s, message[s]) /\ message[s] \in approved[s]
    BY <1>3, <2>1, SignHexSigns DEF SignHex, SignedAsAsked
  <2>3. \A q \in Signers : signature'[q] \subseteq {SignatureOf(q, m) : m \in approved[q]}
    BY <2>1, <2>2 DEF SignedAsAsked, TypeOK
  <2>4. /\ pc'[s] # "sign_hex"
        /\ \A q \in Signers \ {s} : pc'[q] = pc[q]
        /\ message' = message /\ approved' = approved /\ collected' = collected
    BY <1>3 DEF SignHex, TypeOK
  <2> QED
    BY <2>3, <2>4 DEF SignedAsAsked
<1>4. ASSUME NEW s \in Signers, SignHexPanics(s) \/ Refused(s) \/ Crash(s)
      PROVE  SignedAsAsked' /\ \A q \in Signers : approved[q] \subseteq approved'[q]
  <2>1. Die(s)
    BY <1>4 DEF SignHexPanics, Refused, Crash
  <2> QED
    BY <2>1, ForgetKeeps DEF Die
<1>5. ASSUME NEW s \in Signers, Send(s)
      PROVE  SignedAsAsked' /\ \A q \in Signers : approved[q] \subseteq approved'[q]
  <2>1. /\ pc' = [pc EXCEPT ![s] = "idle"] /\ Forget(s) /\ approved' = approved
        /\ collected' \subseteq collected \cup signature[s]
    BY <1>5 DEF Send
  <2> QED
    BY <2>1, ForgetKeeps
<1>6. ASSUME NEW s \in Signers, Restart(s)
      PROVE  SignedAsAsked' /\ \A q \in Signers : approved[q] \subseteq approved'[q]
  BY <1>6 DEF Restart, SignedAsAsked, TypeOK
<1>7. CASE UNCHANGED vars
  BY <1>7 DEF vars, signerVars, SignedAsAsked
<1> QED
  BY <1>1, <1>2, <1>3, <1>4, <1>5, <1>6, <1>7 DEF Next, SignerStep

\* A signature that verifies for a proposal is one that was asked for.
LEMMA CountedWereAsked ==
    ASSUME SignedAsAsked, NEW m
    PROVE  SignersOf(m) \subseteq {s \in Signers : m \in approved[s]}
BY DEF SignersOf, SignedAsAsked, Verifies, SignatureOf, keccak256_hash_word

LEMMA ExecutedKept ==
    ASSUME MultisigInv, [Next]_vars
    PROVE  ExecutedWereApproved'
<1> DEFINE Asked(m) == {s \in Signers : m \in approved[s]}
<1>1. \A m : Asked(m) \subseteq Asked(m)'
  BY SignedKept
<1>2. \A m : /\ IsFiniteSet(SignersOf(m)) /\ IsFiniteSet(Asked(m)) /\ IsFiniteSet(Asked(m)')
             /\ SignersOf(m) \subseteq Asked(m)
  BY MultisigAssumption, FS_Subset, CountedWereAsked DEF SignersOf, MultisigInv, ApprovalInv
<1>3. \A m : /\ Cardinality(SignersOf(m)) <= Cardinality(Asked(m))
             /\ Cardinality(Asked(m)) <= Cardinality(Asked(m)')
             /\ Cardinality(SignersOf(m)) \in Nat /\ Cardinality(Asked(m)) \in Nat
             /\ Cardinality(Asked(m)') \in Nat
  BY <1>1, <1>2, FS_Subset, FS_CardinalityType
<1>4. \A m \in executed' : m \in executed \/ Cardinality(SignersOf(m)) >= Threshold
  BY DEF Next, SignerStep, Propose, Execute, Sign, SignHex, SignHexPanics, Refused, Crash, Die,
     Send, Restart, vars
<1>5. \A m \in executed : Cardinality(Asked(m)) >= Threshold
  BY DEF MultisigInv, ApprovalInv, ExecutedWereApproved
<1>6. \A m \in executed' : Cardinality(Asked(m)') >= Threshold
  <2> SUFFICES ASSUME NEW m \in executed'
               PROVE  Cardinality(Asked(m)') >= Threshold
    OBVIOUS
  <2>1. Cardinality(Asked(m)) >= Threshold
    <3> HIDE DEF Asked
    <3> QED
      BY <1>3, <1>4, <1>5, MultisigAssumption
  <2> HIDE DEF Asked
  <2> QED
    BY <1>3, <2>1, MultisigAssumption
<1> QED
  BY <1>6 DEF ExecutedWereApproved

LEMMA MultisigInductive == Spec => []MultisigInv
<1>1. Init => MultisigInv
  BY MultisigAssumption
     DEF Init, MultisigInv, TypeOK, ApprovalInv, SignedAsAsked, ExecutedWereApproved, NoSignature
<1>2. MultisigInv /\ [Next]_vars => MultisigInv'
  BY TypeStep, SignedKept, ExecutedKept DEF MultisigInv, ApprovalInv
<1> QED
  BY <1>1, <1>2, PTL DEF Spec

\* The calls of the protocol keep to their types, and only a process between
\* sign_hex and the delivery holds a signature.
THEOREM MultisigTypes == Spec => []TypeOK
<1>1. MultisigInv => TypeOK
  BY DEF MultisigInv
<1> QED
  BY <1>1, MultisigInductive, PTL

\* A proposal is executed only when as many signers as the threshold says
\* asked their key manager to sign it, however often their processes panic,
\* are killed or are asked again.
THEOREM ThresholdApproved == Spec => []ExecutedWereApproved
<1>1. MultisigInv => ExecutedWereApproved
  BY DEF MultisigInv, ApprovalInv
<1> QED
  BY <1>1, MultisigInductive, PTL
=============================================================================
