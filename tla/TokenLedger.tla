---------------------------- MODULE TokenLedger ----------------------------
(***************************************************************************)
(* What the token operations promise, with the node, the local store and   *)
(* the polling left out: a supply, a balance for each wallet, and notes    *)
(* in flight that are created once and consumed once, by their target.     *)
(***************************************************************************)
EXTENDS Notes

CONSTANT MaxSupply  \* of the issuer's metadata slot

VARIABLES
    issuance,  \* tokens distributed by the issuer and not yet burned
    balance,   \* tokens in the vault of each wallet
    inFlight,  \* notes created and not consumed
    usedIds    \* ids of all notes ever created

ledgerVars == <<issuance, balance, inFlight, usedIds>>

LedgerTypeOK ==
    /\ issuance \in 0 .. MaxSupply
    /\ balance \in [Wallets -> Nat]
    /\ inFlight \subseteq NoteSet
    /\ usedIds \subseteq 1 .. MaxNotes

LedgerInit ==
    /\ issuance = 0
    /\ balance = [w \in Wallets |-> 0]
    /\ inFlight = {}
    /\ usedIds = {}

\* A note is created, under an id of its own.
PutInFlight(n) ==
    /\ n.id \notin usedIds
    /\ usedIds' = usedIds \cup {n.id}
    /\ inFlight' = inFlight \cup {n}

\* Notes addressed to account a are consumed.
TakeFromFlight(a, notes) ==
    /\ notes # {}
    /\ inFlight' = inFlight \ notes
    /\ \A n \in notes : n.target = a
    /\ UNCHANGED usedIds

\* The issuer creates tokens, up to the cap.
Issue(n) ==
    /\ issuance + n.amount <= MaxSupply
    /\ issuance' = issuance + n.amount
    /\ UNCHANGED balance

\* A wallet pays a note out of its vault, to a wallet or to be burned.
Pay(w, n) ==
    /\ n.amount <= balance[w]
    /\ balance' = [balance EXCEPT ![w] = @ - n.amount]
    /\ UNCHANGED issuance

\* A wallet takes notes addressed to it into its vault.
Receive(w, notes) ==
    /\ TakeFromFlight(w, notes)
    /\ balance' = [balance EXCEPT ![w] = @ + Value(notes)]
    /\ UNCHANGED issuance

\* The issuer redeems burn notes: their tokens cease to exist.
Redeem(notes) ==
    /\ TakeFromFlight(Issuer, notes)
    /\ issuance' = issuance - Value(notes)
    /\ UNCHANGED balance

LedgerNext ==
    \/ \E n \in NoteSet : PutInFlight(n) /\ (Issue(n) \/ \E w \in Wallets : Pay(w, n))
    \/ \E notes \in SUBSET inFlight :
           Redeem(notes) \/ \E w \in Wallets : Receive(w, notes)

LedgerSpec == LedgerInit /\ [][LedgerNext]_ledgerVars
=============================================================================
