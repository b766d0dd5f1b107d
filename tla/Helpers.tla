------------------------------ MODULE Helpers ------------------------------
(***************************************************************************)
(* integration/src/helpers.rs: scripts, run one after another, that set up *)
(* a client on ../store.sqlite3 with the keystore ../keystore, build       *)
(* packages and make accounts and notes of them.  A script is cut at the   *)
(* awaits of add_account and before add_key, where it may be killed.       *)
(***************************************************************************)
EXTENDS Naturals, Sequences

CONSTANTS
    Types,     \* account types
    Regular,   \* those that BasicWallet supports
    Immutable, \* RegularAccountImmutableCode, the default type
    MaxDraws   \* bound: values drawn from the clients' random generators

ASSUME HelpersAssumption ==
    /\ Immutable \in Regular
    /\ Regular \subseteq Types
    /\ MaxDraws \in Nat

\* What build_project_in_dir can return.  Only a component has metadata; a
\* component and a library hold a library, a note holds a program.
Packages == {"component", "library", "note"}

\* Types of AccountCreationConfig and its supported_types, an Option.
Configs == [type : Types, supported : {<<>>} \cup {<<S>> : S \in SUBSET Types}]

NoAuth  == 0
Draws   == 1 .. MaxDraws
Testing == 0  \* the seed [3; 32]; the serial number [0; 4]

Accounts == [seed : Draws, type : Types, auth : {NoAuth} \cup Draws]
Notes    == [helper : {"create_note", "create_testing_note"},
             serial : {Testing} \cup Draws]

NoAccount == [seed |-> Testing, type |-> Immutable, auth |-> NoAuth]

VARIABLES
    store,     \* store.sqlite3: accounts
    keystore,  \* keystore directory: keys
    drawn,     \* values drawn so far
    at,        \* where the script is; "off" when none runs
    package,   \* the package it has built, "none" before
    account,   \* the account it is creating
    returned,  \* history: accounts returned to a script as created
    notes      \* history: notes returned by the helpers

vars == <<store, keystore, drawn, at, package, account, returned, notes>>

-----------------------------------------------------------------------------
Goto(from, to) == at = from /\ at' = to

SetupClient ==
    /\ Goto("off", "script")
    /\ package' = "none"
    /\ UNCHANGED <<store, keystore, drawn, account, returned, notes>>

BuildProject ==
    /\ Goto("script", "script")
    /\ package' \in Packages
    /\ UNCHANGED <<store, keystore, drawn, account, returned, notes>>

\* The next n values of the generator are drawn.
Draw(n) == drawn + n \in Draws /\ drawn' = drawn + n

\* account_component_from_package, and the builder's check that the account
\* type is one the component supports.
Supported(config) ==
    IF config.supported = <<>> THEN {Immutable} ELSE config.supported[1]

Buildable(config) == package = "component" /\ config.type \in Supported(config)

\* create_account_from_package, up to its add_account.
CreateAccount(config) ==
    /\ Goto("script", "add")
    /\ Buildable(config)
    /\ Draw(1)
    /\ account' = [seed |-> drawn + 1, type |-> config.type, auth |-> NoAuth]
    /\ UNCHANGED <<store, keystore, package, returned, notes>>

\* (mutant: the types supported are those of the configuration)
WalletBuildable_Configured(config) == config.type \in Supported(config)

\* BasicWallet has its own, and config.supported_types is not used.
WalletBuildable(config) == config.type \in Regular

\* create_basic_wallet_account, up to its add_account.
CreateBasicWallet(config) ==
    /\ Goto("script", "add")
    /\ WalletBuildable(config)
    /\ Draw(2)
    /\ account' = [seed |-> drawn + 1, type |-> config.type, auth |-> drawn + 2]
    /\ UNCHANGED <<store, keystore, package, returned, notes>>

HasKey == account.auth # NoAuth

\* The account is in the store; a wallet's key is not in the keystore yet.
AddAccount ==
    /\ at = "add"
    /\ at' = IF HasKey THEN "key" ELSE "script"
    /\ store' = store \cup {account}
    /\ returned' = IF HasKey THEN returned ELSE returned \cup {account}
    /\ account' = IF HasKey THEN account ELSE NoAccount
    /\ UNCHANGED <<keystore, drawn, package, notes>>

Return ==
    /\ Goto("key", "script")
    /\ returned' = returned \cup {account}
    /\ account' = NoAccount
    /\ UNCHANGED <<store, drawn, package, notes>>

AddKey == Return /\ keystore' = keystore \cup {account.auth}

\* (mutant: the error of add_key is dropped)
HelperFails_KeyIgnored == Return /\ UNCHANGED keystore

\* add_account or add_key returns an error; what was stored before remains.
\* (An account that is not built fails before: it leaves nothing behind.)
HelperFails ==
    /\ at \in {"add", "key"}
    /\ at' = "script"
    /\ account' = NoAccount
    /\ UNCHANGED <<store, keystore, drawn, package, returned, notes>>

-----------------------------------------------------------------------------
NewNote(helper, serial) ==
    /\ at = "script"
    /\ package = "note"
    /\ notes' = Append(notes, [helper |-> helper, serial |-> serial])
    /\ UNCHANGED <<store, keystore, at, package, account, returned>>

\* (mutant: the serial number of create_testing_note_from_package)
DrawWord_Zero == Testing

\* client.rng().draw_word()
DrawWord == drawn + 1

CreateNote == Draw(1) /\ NewNote("create_note", DrawWord)

CreateTestingNote ==
    /\ Len(notes) < MaxDraws
    /\ NewNote("create_testing_note", Testing)
    /\ UNCHANGED drawn

\* The script returns or panics (unwrap_program of a package that holds a
\* library), or is killed while it stores an account or a key.
End ==
    /\ at' = "off"
    /\ package' = "none"
    /\ account' = NoAccount
    /\ UNCHANGED <<drawn, returned, notes>>

Exit  == at = "script" /\ End /\ UNCHANGED <<store, keystore>>
Panic == package \in {"component", "library"} /\ Exit

KillAtAdd ==
    /\ at = "add"
    /\ store' \in {store, store \cup {account}}
    /\ UNCHANGED keystore
    /\ End

KillAtKey ==
    /\ at = "key"
    /\ keystore' \in {keystore, keystore \cup {account.auth}}
    /\ UNCHANGED store
    /\ End

Init ==
    /\ store = {}
    /\ keystore = {}
    /\ drawn = 0
    /\ at = "off"
    /\ package = "none"
    /\ account = NoAccount
    /\ returned = {}
    /\ notes = <<>>

Next ==
    \/ SetupClient \/ BuildProject
    \/ \E config \in Configs : CreateAccount(config) \/ CreateBasicWallet(config)
    \/ AddAccount \/ AddKey \/ HelperFails
    \/ CreateNote \/ CreateTestingNote
    \/ Exit \/ Panic \/ KillAtAdd \/ KillAtKey

Spec == Init /\ [][Next]_vars

-----------------------------------------------------------------------------
(* Properties *)

\* Every variable has the values the helpers give it; the store has wallets
\* of regular types only, whatever the configurations ask for.
TypeOK ==
    /\ store \subseteq Accounts
    /\ keystore \subseteq Draws
    /\ drawn \in {0} \cup Draws
    /\ at \in {"off", "script", "add", "key"}
    /\ package \in {"none"} \cup Packages
    /\ account \in Accounts \cup {NoAccount}
    /\ returned \subseteq store
    /\ notes \in Seq(Notes)
    /\ \A x \in store : x.auth # NoAuth => x.type \in Regular

\* A wallet that create_basic_wallet_account has returned can be used by
\* every later script: its key is in the keystore, although the helper adds
\* the account first and may fail or die before it adds the key.
ReturnedWalletsUsable ==
    \A x \in returned : x.auth # NoAuth => x.auth \in keystore

\* Two notes of create_note_from_package are two notes, in one script or in
\* two: with the same serial number and script they would have the same
\* nullifier, and only one could be consumed.
NotesDistinct ==
    \A i, j \in 1 .. Len(notes) :
        notes[i].helper = "create_note" /\ notes[j].helper = "create_note" /\ i # j
            => notes[i].serial # notes[j].serial

\* What makes the properties inductive: the account that is being created is
\* one that may be added, its key was drawn for it, and the serial numbers
\* drawn are in the past of the generator.
CreatedInOrder ==
    /\ at \in {"add", "key"} => account \in Accounts
    /\ at \in {"add", "key"} /\ HasKey => account.type \in Regular
    /\ at = "key" => HasKey /\ account \in store

SerialsDrawn ==
    \A i \in 1 .. Len(notes) :
        notes[i].helper = "create_note" => notes[i].serial \in 1 .. drawn

HelpersInv ==
    /\ TypeOK /\ ReturnedWalletsUsable /\ NotesDistinct
    /\ CreatedInOrder /\ SerialsDrawn
=============================================================================
