------------------------------ MODULE Multisig ------------------------------
(***************************************************************************)
(* The key managers of integration/src/multisig.rs in the protocol they    *)
(* are written for: a proposal to the PSM server is a message, each signer *)
(* signs it with KeyManager::sign_hex, and once a threshold of signatures  *)
(* is collected the transaction is executed.                               *)
(*                                                                         *)
(* A signer is a process of its own with a client and a key manager.  PSM  *)
(* and the client are a library outside the repository, modelled by the    *)
(* three calls that bin/multisig_demo.rs names at its end.                 *)
(***************************************************************************)
EXTENDS Integers, FiniteSets

CONSTANTS
    Signers,    \* the signers of one account, by the key they registered
    Threshold,  \* signatures that the account asks for
    Messages,   \* the proposals' messages
    Manager,    \* key manager of a signer: "brale" or "simulated"
    Enrolled,   \* signers whose key the external signer has
    Runtime,    \* tokio runtime of a signer: "multi_thread", "current_thread"
    MaxFaults   \* bound: refusals of the external signer, and kills

ASSUME MultisigAssumption ==
    /\ IsFiniteSet(Signers)
    /\ Threshold \in Nat
    /\ Manager \in [Signers -> {"brale", "simulated"}]
    /\ Enrolled \subseteq Signers
    /\ Runtime \in [Signers -> {"multi_thread", "current_thread"}]
    /\ MaxFaults \in Nat

VARIABLES
    proposed, collected,    \* PSM: proposals, signatures
    executed,               \* node: proposals executed
    pc, message, signature, \* signers: step, proposal asked for, its signature
    faults,                 \* refusals and kills so far
    approved                \* history: proposals a signer asked to sign

signerVars == <<pc, message, signature>>
vars == <<proposed, collected, executed, signerVars, faults, approved>>

Digests == {"keccak"} \X Messages
Signatures == [signer : Signers, digest : Digests]
NoSignature == {}
NoMessage == "none"

\* (mutant: the message is signed as it is)
keccak256_hash_word_Not(m) == <<"raw", m>>

keccak256_hash_word(m) == <<"keccak", m>>

-----------------------------------------------------------------------------
(* The key managers *)

\* ExternalSigner::sign_prehash finds the key by its commitment.
sign_prehash(s, digest) ==
    {sig \in {[signer |-> s, digest |-> digest]} : s \in Enrolled}

\* (mutant: the same digest for all messages)
sign_hex_OneDigest(s, m) ==
    {[signer |-> s, digest |-> keccak256_hash_word(CHOOSE x \in Messages : TRUE)]}

\* (mutant: a wrong commitment is sent to the external signer)
sign_hex_OtherKey(s, m) ==
    sign_prehash(CHOOSE x \in Signers : x # s, keccak256_hash_word(m))

\* BraleMpcKeyManager: block_in_place panics on a runtime of one thread, and
\* sign_hex itself when the signer refuses.
BraleSignHex(s, m) ==
    {sig \in sign_prehash(s, keccak256_hash_word(m)) : Runtime[s] = "multi_thread"}

\* SimulatedMpcKeyManager signs with the key it holds.
SimulatedSignHex(s, m) == {[signer |-> s, digest |-> keccak256_hash_word(m)]}

\* The signature sign_hex returns, if it returns.
sign_hex(s, m) ==
    IF Manager[s] = "brale" THEN BraleSignHex(s, m) ELSE SimulatedSignHex(s, m)

-----------------------------------------------------------------------------
(* The calls of the protocol *)

\* client.propose(...), by any signer.
Propose(m) ==
    /\ m \notin proposed
    /\ proposed' = proposed \cup {m}
    /\ UNCHANGED <<collected, executed, signerVars, faults, approved>>

\* client.sign(proposal_id): the message is fetched and given to sign_hex.
Sign(s, m) ==
    /\ pc[s] = "idle"
    /\ m \in proposed \ executed
    /\ pc' = [pc EXCEPT ![s] = "sign_hex"]
    /\ message' = [message EXCEPT ![s] = m]
    /\ approved' = [approved EXCEPT ![s] = @ \cup {m}]
    /\ UNCHANGED <<proposed, collected, executed, signature, faults>>

SignHex(s) ==
    /\ pc[s] = "sign_hex"
    /\ \E sig \in sign_hex(s, message[s]) : signature' = [signature EXCEPT ![s] = {sig}]
    /\ pc' = [pc EXCEPT ![s] = "send"]
    /\ UNCHANGED <<proposed, collected, executed, message, faults, approved>>

\* What a call had in memory.
Forget(s) ==
    /\ message' = [message EXCEPT ![s] = NoMessage]
    /\ signature' = [signature EXCEPT ![s] = NoSignature]

\* The process is gone, with what it had in memory.
Die(s) ==
    /\ pc' = [pc EXCEPT ![s] = "dead"]
    /\ Forget(s)
    /\ UNCHANGED <<proposed, collected, executed, approved>>

\* A call that cannot return takes the process down.
SignHexPanics(s) ==
    /\ pc[s] = "sign_hex"
    /\ sign_hex(s, message[s]) = {}
    /\ Die(s)
    /\ UNCHANGED faults

Fault ==
    /\ faults < MaxFaults
    /\ faults' = faults + 1

\* panic!("... signing failed"): the external signer refuses this time.
Refused(s) ==
    /\ pc[s] = "sign_hex"
    /\ Manager[s] = "brale"
    /\ Fault
    /\ Die(s)

\* PSM keeps the signature if it verifies for the proposal.
Verifies(s, sig, m) == sig = [signer |-> s, digest |-> keccak256_hash_word(m)]

Send(s) ==
    /\ pc[s] = "send"
    /\ collected' = collected \cup
           {sig \in signature[s] : \E m \in proposed : Verifies(s, sig, m)}
    /\ pc' = [pc EXCEPT ![s] = "idle"]
    /\ Forget(s)
    /\ UNCHANGED <<proposed, executed, faults, approved>>

\* The process is killed between the signature and its delivery.
Crash(s) ==
    /\ pc[s] = "send"
    /\ Fault
    /\ Die(s)

Restart(s) ==
    /\ pc[s] = "dead"
    /\ pc' = [pc EXCEPT ![s] = "idle"]
    /\ UNCHANGED <<proposed, collected, executed, message, signature, faults, approved>>

SignersOf(m) == {s \in Signers : \E sig \in collected : Verifies(s, sig, m)}

\* client.execute(proposal_id), once the threshold is met.
Execute(m) ==
    /\ m \in proposed \ executed
    /\ Cardinality(SignersOf(m)) >= Threshold
    /\ executed' = executed \cup {m}
    /\ UNCHANGED <<proposed, collected, signerVars, faults, approved>>

Init ==
    /\ proposed = {}
    /\ collected = {}
    /\ executed = {}
    /\ pc = [s \in Signers |-> "idle"]
    /\ message = [s \in Signers |-> NoMessage]
    /\ signature = [s \in Signers |-> NoSignature]
    /\ faults = 0
    /\ approved = [s \in Signers |-> {}]

SignerStep(s) == SignHex(s) \/ SignHexPanics(s) \/ Send(s) \/ Restart(s)

Next ==
    \/ \E m \in Messages : Propose(m) \/ Execute(m)
    \/ \E s \in Signers : SignerStep(s) \/ Refused(s) \/ Crash(s)
    \/ \E s \in Signers, m \in Messages : Sign(s, m)

Spec == Init /\ [][Next]_vars

\* A call that is started goes on, a dead process is started again, a signer
\* that has not signed is asked again, and someone executes.
FairSpec ==
    /\ Spec
    /\ \A s \in Signers : WF_vars(SignerStep(s))
    /\ \A s \in Signers, m \in Messages : SF_vars(Sign(s, m))
    /\ \A m \in Messages : WF_vars(Execute(m))

-----------------------------------------------------------------------------
(* Properties *)

\* Every variable has the values the calls give it, and only a process that
\* has signed and not yet sent holds a signature.
TypeOK ==
    /\ proposed \subseteq Messages
    /\ collected \subseteq Signatures
    /\ executed \subseteq proposed
    /\ pc \in [Signers -> {"idle", "sign_hex", "send", "dead"}]
    /\ message \in [Signers -> Messages \cup {NoMessage}]
    /\ signature \in [Signers -> SUBSET Signatures]
    /\ faults \in 0 .. MaxFaults
    /\ approved \in [Signers -> SUBSET Messages]
    /\ \A s \in Signers : signature[s] # {} => pc[s] = "send"

\* A transaction is executed only if a threshold of signers asked for it:
\* a signature for one proposal, or one of a signer that panicked or was
\* asked twice, never counts towards another.
ExecutedWereApproved ==
    \A m \in executed :
        Cardinality({s \in Signers : m \in approved[s]}) >= Threshold

\* What makes ExecutedWereApproved inductive: all signatures, on their way and
\* collected, are of a signer for a message that it asked to sign.
SignatureOf(s, m) == [signer |-> s, digest |-> keccak256_hash_word(m)]

SignedAsAsked ==
    /\ \A s \in Signers : pc[s] = "sign_hex" => message[s] \in approved[s]
    /\ \A s \in Signers : signature[s] \subseteq {SignatureOf(s, m) : m \in approved[s]}
    /\ \A sig \in collected : \E s \in Signers : \E m \in approved[s] : sig = SignatureOf(s, m)

ApprovalInv == SignedAsAsked /\ ExecutedWereApproved

\* Signers that can sign are enough: those whose external signer refuses, or
\* whose process has the wrong runtime, panic each time they are asked, and
\* the proposal is executed all the same.
Able == {s \in Signers : sign_hex(s, CHOOSE m \in Messages : TRUE) # {}}

ProposalsExecute ==
    Cardinality(Able) >= Threshold =>
        \A m \in Messages : m \in proposed ~> m \in executed
=============================================================================
