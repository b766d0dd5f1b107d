------------------------------- MODULE Notes -------------------------------
(***************************************************************************)
(* Accounts and notes, the data that mint_tokens, transfer_tokens,         *)
(* burn_tokens and consume_notes move about.                               *)
(*                                                                         *)
(* A note carries an amount of the one token of the demo to one account.   *)
(* A note addressed to a wallet is a private pay-to-id note; one addressed *)
(* to the issuer is a burn note, and burn notes are public.                *)
(***************************************************************************)
EXTENDS Integers, FiniteSets, Functions

CONSTANTS
    Issuer,    \* the faucet account of deploy_issuer_account
    Wallets,   \* the accounts of create_wallet_account
    Amounts,   \* the amounts that callers pass
    MaxNotes   \* bound: how many notes the callers may ask for

ASSUME NotesAssumption ==
    /\ Issuer \notin Wallets
    /\ IsFiniteSet(Wallets)
    /\ Amounts \subseteq Nat \ {0}
    /\ IsFiniteSet(Amounts)  \* amounts are u64
    /\ MaxNotes \in Nat

Accounts == Wallets \cup {Issuer}

\* The serial number drawn from client.rng() is the id: no two notes share it.
NoteSet == [id : 1 .. MaxNotes, target : Accounts, amount : Amounts]

IsBurnNote(n) == n.target = Issuer

Value(notes) == SumFunction([n \in notes |-> n.amount])

NotesFor(a, notes) == {n \in notes : n.target = a}
=============================================================================
