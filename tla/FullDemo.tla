------------------------------ MODULE FullDemo ------------------------------
(***************************************************************************)
(* integration/src/bin/full_demo.rs: one process that makes three keys and *)
(* three accounts in a temporary directory and then calls the operations   *)
(* of Operations one after the other, reading the store in between.        *)
(***************************************************************************)
EXTENDS Operations

CONSTANTS Demo, WalletA, WalletB

ASSUME FullDemoAssumption ==
    /\ Procs = {Demo}
    /\ Wallets = {WalletA, WalletB} /\ WalletA # WalletB
    /\ {1000, 300, 100} \subseteq Amounts

VARIABLES
    at,          \* position in the script; 0 before the program is started
    running,     \* main has not returned
    registered,  \* accounts whose key the signer has
    stored,      \* accounts whose key is in the temporary keystore
    tracked,     \* accounts in the temporary store
    signed,      \* history: accounts signed for, in order
    reads,       \* what print_state has read so far
    shown        \* tables printed

dirVars  == <<stored, tracked>>
demoVars == <<at, running, registered, dirVars, signed, reads, shown>>

-----------------------------------------------------------------------------
(* The script of main *)

print_state ==
    << <<"supply">>, <<"balance", WalletA>>, <<"balance", WalletB>> >>

\* (mutant: the accounts before their keys)
Setup_AccountsFirst ==
    << <<"register", Issuer>>, <<"register", WalletA>>, <<"register", WalletB>>,
       <<"sync">>,
       <<"add_account", Issuer>>,
       <<"add_account", WalletA>>, <<"add_account", WalletB>>,
       <<"add_key", Issuer>>, <<"add_key", WalletA>>, <<"add_key", WalletB>>,
       <<"sync">> >>

Setup ==
    << <<"register", Issuer>>, <<"register", WalletA>>, <<"register", WalletB>>,
       <<"add_key", Issuer>>, <<"add_key", WalletA>>, <<"add_key", WalletB>>,
       <<"sync">>,
       <<"add_account", Issuer>>,
       <<"add_account", WalletA>>, <<"add_account", WalletB>>,
       <<"sync">> >>

Mint == << <<"mint", WalletA, 1000>>, <<"consume", WalletA>> >>

\* (mutant: a sync is taken for enough to receive the transfer)
Transfer_NotConsumed == << <<"transfer", WalletA, WalletB, 300>>, <<"sync">> >>

Transfer == << <<"transfer", WalletA, WalletB, 300>>, <<"consume", WalletB>> >>

Burn == << <<"burn", WalletB, 100>> >>

Script == Setup \o Mint \o print_state \o Transfer \o print_state
                \o Burn \o print_state

CallSteps == {"sync", "mint", "transfer", "burn", "consume"}

At(s) == running /\ at <= Len(Script) /\ Script[at][1] = s
Arg(i) == Script[at][i + 1]

-----------------------------------------------------------------------------
(* The steps *)

\* The temporary directory is removed when main returns, with Ok or with an
\* error, but not when the process is killed.
RemoveTempDir == stored' = {} /\ tracked' = {}

Launch ==
    /\ at = 0
    /\ at' = 1
    /\ running' = TRUE
    /\ UNCHANGED <<vars, registered, dirVars, signed, reads, shown>>

Advance == at' = at + 1 /\ UNCHANGED <<vars, running>>

RegisterKey ==
    /\ At("register")
    /\ registered' = registered \cup {Arg(1)}
    /\ Advance
    /\ UNCHANGED <<dirVars, signed, reads, shown>>

AddKey ==
    /\ At("add_key")
    /\ stored' = stored \cup {Arg(1)}
    /\ Advance
    /\ UNCHANGED <<registered, tracked, signed, reads, shown>>

AddAccount ==
    /\ At("add_account")
    /\ tracked' = tracked \cup {Arg(1)}
    /\ Advance
    /\ UNCHANGED <<registered, stored, signed, reads, shown>>

\* The rows of the table: the issuer's supply and two balances.
print_balance_table(rows) == shown' = Append(shown, rows)

\* (mutant: one read too many before the table)
Show_Late(value) ==
    /\ IF Len(reads) = 3
       THEN print_balance_table(Append(reads, value)) /\ reads' = <<>>
       ELSE reads' = Append(reads, value) /\ UNCHANGED shown
    /\ Advance
    /\ UNCHANGED <<registered, dirVars, signed>>

\* print_state: three reads of the store, and the table after the third.
Show(value) ==
    /\ IF Len(reads) = 2
       THEN print_balance_table(Append(reads, value)) /\ reads' = <<>>
       ELSE reads' = Append(reads, value) /\ UNCHANGED shown
    /\ Advance
    /\ UNCHANGED <<registered, dirVars, signed>>

ReadSupply == At("supply") /\ Issuer \in tracked /\ Show(ReadTotalSupply)
ReadWallet == At("balance") /\ Arg(1) \in tracked /\ Show(ReadBalance(Arg(1)))

\* main calls an operation and awaits it.
StartOperation ==
    /\ Ready(Demo)
    /\ \/ At("sync") /\ SyncAndTrack(Demo)
       \/ At("mint") /\ MintTokens(Demo, Arg(1), Arg(2))
       \/ At("consume") /\ ConsumeNotes(Demo, Arg(1))
       \/ At("transfer") /\ TransferTokens(Demo, Arg(1), Arg(2), Arg(3))
       \/ At("burn") /\ BurnTokens(Demo, Arg(1), Arg(2))
    /\ UNCHANGED demoVars

\* An execution needs the account in the store and a signature of its key.
Signs == pc[Demo] = "execute" /\ pc'[Demo] = "submit"

Signable(a) == a \in tracked /\ a \in registered

\* The operation goes on, or is disturbed; main goes to the next statement
\* when it returns Ok, and ends when it returns an error or is killed.
RunOperation ==
    /\ running
    /\ StepCall(Demo) \/ Disturb(Demo)
    /\ Signs => Signable(tx[Demo].acct)
    /\ signed' = IF Signs THEN Append(signed, tx[Demo].acct) ELSE signed
    /\ at' = IF pc'[Demo] = "ok" THEN at + 1 ELSE at
    /\ running' = (pc'[Demo] \notin {"err", "idle"})
    /\ IF pc'[Demo] = "err" THEN RemoveTempDir ELSE UNCHANGED dirVars
    /\ UNCHANGED <<registered, reads, shown>>

\* Statements of main outside the operations fail too (`?`).
StatementFails ==
    /\ running
    /\ at <= Len(Script) /\ Script[at][1] \notin CallSteps
    /\ running' = FALSE
    /\ RemoveTempDir
    /\ UNCHANGED <<vars, at, registered, signed, reads, shown>>

Finish ==
    /\ running
    /\ at > Len(Script)
    /\ running' = FALSE
    /\ RemoveTempDir
    /\ UNCHANGED <<vars, at, registered, signed, reads, shown>>

\* The node goes on making blocks.
MakeBlock == (\E a \in Accounts : Include(a)) /\ UNCHANGED demoVars

DemoInit ==
    /\ Init
    /\ at = 0
    /\ running = FALSE
    /\ registered = {}
    /\ stored = {}
    /\ tracked = {}
    /\ signed = <<>>
    /\ reads = <<>>
    /\ shown = <<>>

DemoNext ==
    \/ Launch
    \/ RegisterKey \/ AddKey \/ AddAccount
    \/ ReadSupply \/ ReadWallet
    \/ StartOperation \/ RunOperation
    \/ StatementFails \/ Finish
    \/ MakeBlock

DemoSpec == DemoInit /\ [][DemoNext]_<<vars, demoVars>>

-----------------------------------------------------------------------------
(* Properties *)

\* Every variable has the values the script gives it, and an operation is
\* in progress only while main runs.
DemoTypeOK ==
    /\ at \in 0 .. Len(Script) + 1
    /\ running \in BOOLEAN
    /\ registered \subseteq Accounts
    /\ stored \subseteq Accounts
    /\ tracked \subseteq Accounts
    /\ signed \in Seq(Accounts)
    /\ \A i \in 1 .. Len(shown) : shown[i] \in [1 .. 3 -> Int]
    /\ Len(reads) <= 2
    /\ pc[Demo] \in Steps => running

\* The tables are those of docs/guide/09-running-demos.md, whenever the node
\* makes its blocks, however often the loops poll, whether the wallets are
\* public or private, and even in a run that fails later: no table is printed
\* from a store that has not caught up.
Documented == << <<1000, 1000, 0>>, <<1000, 700, 300>>, <<900, 700, 200>> >>

TablesAsDocumented ==
    /\ Len(shown) <= Len(Documented)
    /\ \A i \in 1 .. Len(shown) : shown[i] = Documented[i]

\* A demo that has printed its last table leaves nothing in flight, and what
\* it printed is what the node has.
TokensSettled ==
    Len(shown) = 3 =>
        /\ Created = Nullified
        /\ shown[3] = << IssuanceAt(Nonce(Issuer)),
                         BalanceAt(WalletA, Nonce(WalletA)),
                         BalanceAt(WalletB, Nonce(WalletB)) >>

Key(a) == CHOOSE k \in 1 .. 3 : <<Issuer, WalletA, WalletB>>[k] = a

Account(a) == [kind |-> IF a = Issuer THEN "issuer" ELSE "wallet", key |-> Key(a)]

NoIssuer == [kind |-> "none", key |-> 0]

DoneSteps(steps) == {i \in 1 .. at - 1 : Script[i][1] \in steps}

Keeping == INSTANCE Custody WITH
    Procs         <- {Demo},
    Backend       <- [p \in {Demo} |-> "external"],
    StorePaths    <- {"./store.sqlite3"},
    KeystorePaths <- {"./keystore"},
    MaxKeys       <- 3,
    keystore      <- [d \in {"./keystore", Demo} |->
                          IF d = Demo THEN {Key(a) : a \in stored} ELSE {}],
    tracked       <- [d \in {"./store.sqlite3", Demo} |->
                          IF d = Demo THEN {Account(a) : a \in tracked} ELSE {}],
    issuerId      <- NoIssuer,
    lastKey       <- Cardinality(DoneSteps({"register"})),
    program       <- [p \in {Demo} |-> IF running THEN "full_demo" ELSE "none"],
    step          <- [p \in {Demo} |->
                          IF running THEN 1 + Len(signed) + Cardinality(DoneSteps(
                               {"register", "add_key", "add_account", "supply", "balance"}))
                          ELSE 1],
    place         <- [p \in {Demo} |-> [store |-> Demo, keystore |-> Demo]],
    registered    <- [p \in {Demo} |->
                          IF running THEN {Key(a) : a \in registered} ELSE {}],
    issuer        <- [p \in {Demo} |->
                          IF running /\ Issuer \in tracked THEN Account(Issuer) ELSE NoIssuer],
    signatures    <- {[acct |-> Account(signed[i]), proc |-> Demo, program |-> "full_demo"] :
                          i \in 1 .. Len(signed)}

\* The demo keeps and uses its keys as Custody says: the transactions of its
\* operations are the signatures of Custody, in the same order and by the
\* same accounts, and all else is invisible to it.
ImplementsCustody == Keeping!Spec
=============================================================================
