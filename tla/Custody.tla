------------------------------ MODULE Custody ------------------------------
(***************************************************************************)
(* Keys, accounts and signatures: what the programs of                     *)
(* integration/src/bin do with the keystore directory, the store and the   *)
(* signing backend, and how BraleKeystore routes a request to sign.        *)
(*                                                                         *)
(* Each program is a sequence of steps; a process runs one program at a    *)
(* time and may stop with an error, or be killed, before any step.  The    *)
(* keystore directories and the stores outlive it, the keys registered     *)
(* with its SimulatedMpcSigner do not.                                     *)
(***************************************************************************)
EXTENDS Integers, FiniteSets, Sequences

CONSTANTS
    Procs,
    Backend,  \* keystore of a process: "external" (BraleKeystore::new, which
              \* all the programs use) or "inner" (passthrough, or From)
    StorePaths,     \* values of SQLITE_STORE_PATH, the default among them
    KeystorePaths,  \* values of KEYSTORE_PATH, the default among them
    MaxKeys         \* bound: how many keys are generated in all

ASSUME CustodyAssumption ==
    /\ Backend \in [Procs -> {"external", "inner"}]
    /\ MaxKeys \in Nat
    /\ "./store.sqlite3" \in StorePaths
    /\ "./keystore" \in KeystorePaths
    /\ Procs \cap (StorePaths \cup KeystorePaths) = {}

Keys == 1 .. MaxKeys

\* An account is known by the key its auth component commits to.
AccountSet == [kind : {"wallet", "issuer"}, key : Keys]
NoAccount == [kind |-> "none", key |-> 0]

\* The paths a process can read from its environment, and the temporary
\* directory that full_demo makes for each of its runs.
Config == [store : StorePaths, keystore : KeystorePaths]
TempDir(p) == [store |-> p, keystore |-> p]

VARIABLES
    keystore,    \* keys in the keystore directory of a path
    tracked,     \* accounts in the store of a path
    issuerId,    \* ISSUER_ACCOUNT_ID of the environment
    lastKey,     \* keys generated so far
    program, step, place, registered, issuer, \* processes: program, position
                 \* in it, paths, keys of its signer, issuer it works for
    signatures   \* history: signatures handed out by get_signature

procVars == <<program, step, place, registered, issuer>>
vars == <<keystore, tracked, issuerId, lastKey, procVars, signatures>>

-----------------------------------------------------------------------------
(* The programs *)

\* All of them make a key of their own, register it with a fresh signer and
\* store it before they build the client.
FreshKey == <<"register_key", "add_key">>

\* (mutant: the account first and the key after it, as in helpers.rs)
create_account_KeyLast == <<"register_key", "add_wallet", "add_key">>

create_account == FreshKey \o <<"add_wallet">>
deploy_issuer  == FreshKey \o <<"add_issuer">>
mint           == <<"issuer_id">> \o FreshKey \o <<"sign_issuer">>
transfer       == <<"issuer_id">> \o FreshKey \o <<"sign_wallet">>
burn           == <<"issuer_id">> \o FreshKey \o <<"sign_wallet", "sign_issuer">>
read_balance   == <<"issuer_id">> \o FreshKey \o <<"read_wallet">>
read_supply    == <<"issuer_id">> \o FreshKey \o <<"read_issuer">>

print_state == <<"read_issuer", "read_wallet", "read_wallet">>

\* Three keys, three accounts, then mint, consume, transfer, consume, burn.
full_demo ==
    <<"register_key", "register_key", "register_key",
      "add_key", "add_key", "add_key",
      "add_issuer", "add_wallet", "add_wallet">>
    \o <<"sign_issuer", "sign_wallet">> \o print_state
    \o <<"sign_wallet", "sign_wallet">> \o print_state
    \o <<"sign_wallet", "sign_issuer">> \o print_state

Programs ==
    [create_account |-> create_account, deploy_issuer |-> deploy_issuer,
     mint |-> mint, transfer |-> transfer, burn |-> burn,
     read_balance |-> read_balance, read_supply |-> read_supply,
     full_demo |-> full_demo]

KeysOnDisk(p) == keystore[place[p].keystore]
Accounts(p) == tracked[place[p].store]

Running(p) == program[p] # "none"

At(p, s) ==
    /\ Running(p)
    /\ step[p] <= Len(Programs[program[p]])
    /\ Programs[program[p]][step[p]] = s

Advance(p) == step' = [step EXCEPT ![p] = @ + 1] /\ UNCHANGED <<program, place>>

\* (mutant: the signer outlives the process)
End_KeepsKeys(p) ==
    /\ program' = [program EXCEPT ![p] = "none"]
    /\ step' = [step EXCEPT ![p] = 1]
    /\ place' = [place EXCEPT ![p] = TempDir(p)]
    /\ issuer' = [issuer EXCEPT ![p] = NoAccount]
    /\ UNCHANGED registered

\* The process ends; its signer and its keys in memory are gone.
End(p) ==
    /\ program' = [program EXCEPT ![p] = "none"]
    /\ step' = [step EXCEPT ![p] = 1]
    /\ place' = [place EXCEPT ![p] = TempDir(p)]
    /\ registered' = [registered EXCEPT ![p] = {}]
    /\ issuer' = [issuer EXCEPT ![p] = NoAccount]

Launch(p, name, paths) ==
    /\ ~Running(p)
    /\ program' = [program EXCEPT ![p] = name]
    /\ place' = [place EXCEPT ![p] = paths]
    /\ UNCHANGED <<issuerId, lastKey, step, registered, issuer, signatures>>

\* Config::from_env
LaunchProgram(p) ==
    /\ \E name \in DOMAIN Programs \ {"full_demo"}, paths \in Config :
           Launch(p, name, paths)
    /\ UNCHANGED <<keystore, tracked>>

EmptyTempDir(p) ==
    /\ keystore' = [keystore EXCEPT ![p] = {}]
    /\ tracked' = [tracked EXCEPT ![p] = {}]

\* full_demo starts with an empty directory, whatever an earlier run left.
LaunchDemo(p) == Launch(p, "full_demo", TempDir(p)) /\ EmptyTempDir(p)

-----------------------------------------------------------------------------
(* The steps *)

ReadIssuerId(p) ==
    /\ At(p, "issuer_id")
    /\ issuerId # NoAccount
    /\ issuer' = [issuer EXCEPT ![p] = issuerId]
    /\ Advance(p)
    /\ UNCHANGED <<keystore, tracked, issuerId, lastKey, registered, signatures>>

RegisterKey(p) ==
    /\ At(p, "register_key")
    /\ lastKey < MaxKeys
    /\ lastKey' = lastKey + 1
    /\ registered' = [registered EXCEPT ![p] = @ \cup {lastKey + 1}]
    /\ Advance(p)
    /\ UNCHANGED <<keystore, tracked, issuerId, issuer, signatures>>

AddKey(p) ==
    /\ At(p, "add_key")
    /\ \E k \in registered[p] \ KeysOnDisk(p) :
           keystore' = [keystore EXCEPT ![place[p].keystore] = @ \cup {k}]
    /\ Advance(p)
    /\ UNCHANGED <<tracked, issuerId, lastKey, registered, issuer, signatures>>

\* create_wallet_account and deploy_issuer_account: one account for each of
\* the keys the program made.
AddAccount(p, kind) ==
    \E k \in registered[p] \ {a.key : a \in Accounts(p)} :
        LET a == [kind |-> kind, key |-> k] IN
        /\ tracked' = [tracked EXCEPT ![place[p].store] = @ \cup {a}]
        /\ issuer' = IF kind = "issuer" THEN [issuer EXCEPT ![p] = a] ELSE issuer
        /\ Advance(p)
        /\ UNCHANGED <<keystore, issuerId, lastKey, registered, signatures>>

CreateWalletAccount(p) == At(p, "add_wallet") /\ AddAccount(p, "wallet")
DeployIssuerAccount(p) == At(p, "add_issuer") /\ AddAccount(p, "issuer")

\* SimulatedMpcSigner::sign_prehash knows the keys registered in its process.
SignPrehash(p, k) == k \in registered[p]

Signature(p, a) == [acct |-> a, proc |-> p, program |-> program[p]]

\* (mutant: a refusal of the external signer is made good by the key on disk)
GetSignature_FallBack(p, a) ==
    {s \in {Signature(p, a)} : SignPrehash(p, a.key) \/ a.key \in KeysOnDisk(p)}

\* The signatures get_signature can return for the key of account a: the
\* external signer's if there is one, else the inner keystore's.
GetSignature(p, a) ==
    {s \in {Signature(p, a)} :
         IF Backend[p] = "external" THEN SignPrehash(p, a.key)
                                    ELSE a.key \in KeysOnDisk(p)}

\* A transaction on account a is executed: the account is in the store and
\* its signature is to be had.
SignFor(p, a) ==
    /\ a \in Accounts(p)
    /\ \E s \in GetSignature(p, a) : signatures' = signatures \cup {s}
    /\ Advance(p)
    /\ UNCHANGED <<keystore, tracked, issuerId, lastKey, registered, issuer>>

SignAsIssuer(p) == At(p, "sign_issuer") /\ SignFor(p, issuer[p])

\* The wallet is an argument of the command line.
SignAsWallet(p) ==
    /\ At(p, "sign_wallet")
    /\ \E a \in Accounts(p) : a.kind = "wallet" /\ SignFor(p, a)

\* read_balance and read_total_supply need the account in the store.
Read(p) ==
    /\ \/ At(p, "read_wallet") /\ \E a \in Accounts(p) : a.kind = "wallet"
       \/ At(p, "read_issuer") /\ issuer[p] \in Accounts(p)
    /\ Advance(p)
    /\ UNCHANGED <<keystore, tracked, issuerId, lastKey, registered, issuer, signatures>>

\* The TempDir of full_demo is removed when its main returns.
RemoveTempDir(p) ==
    IF program[p] = "full_demo" THEN EmptyTempDir(p) ELSE UNCHANGED <<keystore, tracked>>

Exit(p) ==
    /\ Running(p)
    /\ step[p] > Len(Programs[program[p]])
    /\ End(p)
    /\ RemoveTempDir(p)
    /\ UNCHANGED <<issuerId, lastKey, signatures>>

\* A step fails, and `?` in main returns the error.
StepFails(p) ==
    /\ Running(p)
    /\ End(p)
    /\ RemoveTempDir(p)
    /\ UNCHANGED <<issuerId, lastKey, signatures>>

\* The process is killed: nothing is removed.
Killed(p) ==
    /\ Running(p)
    /\ End(p)
    /\ UNCHANGED <<keystore, tracked, issuerId, lastKey, signatures>>

\* The operator sets ISSUER_ACCOUNT_ID to an issuer that was deployed.
SetIssuerId(a) ==
    /\ a.kind = "issuer"
    /\ issuerId' = a
    /\ UNCHANGED <<keystore, tracked, lastKey, procVars, signatures>>

Init ==
    /\ keystore = [d \in KeystorePaths \cup Procs |-> {}]
    /\ tracked = [d \in StorePaths \cup Procs |-> {}]
    /\ issuerId = NoAccount
    /\ lastKey = 0
    /\ program = [p \in Procs |-> "none"]
    /\ step = [p \in Procs |-> 1]
    /\ place = [p \in Procs |-> TempDir(p)]
    /\ registered = [p \in Procs |-> {}]
    /\ issuer = [p \in Procs |-> NoAccount]
    /\ signatures = {}

Run(p) ==
    \/ ReadIssuerId(p)
    \/ RegisterKey(p)
    \/ AddKey(p)
    \/ CreateWalletAccount(p)
    \/ DeployIssuerAccount(p)
    \/ SignAsIssuer(p)
    \/ SignAsWallet(p)
    \/ Read(p)
    \/ Exit(p)

Next ==
    \/ \E p \in Procs : \/ LaunchProgram(p) \/ LaunchDemo(p)
                       \/ Run(p) \/ StepFails(p) \/ Killed(p)
    \/ \E d \in StorePaths : \E a \in tracked[d] : SetIssuerId(a)

Spec == Init /\ [][Next]_vars

-----------------------------------------------------------------------------
(* Properties *)

Signatures == [acct : AccountSet, proc : Procs, program : DOMAIN Programs]

\* Every variable has the values the programs give it, and the signer of a
\* process holds no key before the process starts and after it ends.
TypeOK ==
    /\ keystore \in [KeystorePaths \cup Procs -> SUBSET Keys]
    /\ tracked \in [StorePaths \cup Procs -> SUBSET AccountSet]
    /\ issuerId \in AccountSet \cup {NoAccount}
    /\ lastKey \in 0 .. MaxKeys
    /\ program \in [Procs -> DOMAIN Programs \cup {"none"}]
    /\ step \in [Procs -> Nat]
    /\ place \in [Procs -> Config \cup {TempDir(p) : p \in Procs}]
    /\ registered \in [Procs -> SUBSET Keys]
    /\ issuer \in [Procs -> AccountSet \cup {NoAccount}]
    /\ signatures \subseteq Signatures
    /\ \A p \in Procs : ~Running(p) => registered[p] = {}

\* No account is without its key: wherever a program is killed or fails, and
\* whatever paths the programs before it were given, an account that is in a
\* store has its key in one of the keystore directories.
KeyBeforeAccount ==
    \A d \in DOMAIN tracked : \A a \in tracked[d] :
        \E e \in DOMAIN keystore : a.key \in keystore[e]

\* "FilesystemKeyStore stores keys but never signs": over any sequence of
\* runs, a process with an external signer signs only for accounts it made
\* itself, which is to say only in full_demo, although the keys of all
\* accounts are on the disk it shares with the other programs.
StoredKeysNeverSign ==
    \A s \in signatures : Backend[s.proc] = "external" => s.program = "full_demo"

\* What makes them inductive.  A process works in its own places; at each
\* position of a program at most so many of its keys are not stored yet, none
\* when an account is added; keys are never made twice, and an account whose
\* key a process has registered was made in this run of its program.
Makers == {"create_account", "deploy_issuer", "full_demo"}

FirstKey(name) == IF name \in Makers THEN 1 ELSE 2
KeyCount(name) == IF name = "full_demo" THEN 3 ELSE 1

Owed(name, i) ==
    LET done == i - FirstKey(name)
        n    == KeyCount(name)
    IN IF done \in 0 .. n THEN done ELSE IF done \in n .. 2 * n THEN 2 * n - done ELSE 0

Unsaved(p) == registered[p] \ KeysOnDisk(p)

OwnPlaces ==
    \A p \in Procs :
        /\ step[p] >= 1 /\ (~Running(p) => step[p] = 1)
        /\ IF Running(p) /\ program[p] # "full_demo" THEN place[p] \in Config
                                                     ELSE place[p] = TempDir(p)

KeysInTime ==
    \A p \in Procs : Running(p) => Cardinality(Unsaved(p)) <= Owed(program[p], step[p])

\* An account of a temporary directory has its key there, any other in a
\* directory that no program removes.
KeyAt(d, k) ==
    IF d \in Procs THEN k \in keystore[d] ELSE \E e \in KeystorePaths : k \in keystore[e]

KeysKept == \A d \in StorePaths \cup Procs : \A a \in tracked[d] : KeyAt(d, a.key)

FreshKeys ==
    /\ \A p \in Procs : \A k \in registered[p] : k <= lastKey
    /\ \A p, q \in Procs : p # q => registered[p] \cap registered[q] = {}
    /\ \A d \in StorePaths \cup Procs : \A a \in tracked[d] :
           /\ a.key <= lastKey
           /\ \A p \in Procs : a.key \in registered[p] => program[p] \in Makers

CustodyInv ==
    TypeOK /\ OwnPlaces /\ KeysInTime /\ KeysKept /\ FreshKeys /\ StoredKeysNeverSign
=============================================================================
