---------------------------- MODULE CustodyProofs ----------------------------
(***************************************************************************)
(* Type correctness of Custody, that no account is left without its key,   *)
(* and that the keys on disk never sign for another process.               *)
(***************************************************************************)
EXTENDS Custody, FiniteSetTheorems, TLAPS

(* What the steps of the programs are, position by position *)

Uses == {"sign_issuer", "sign_wallet", "read_issuer", "read_wallet"}

LEMMA AllPrograms ==
    DOMAIN Programs = {"create_account", "deploy_issuer", "mint", "transfer", "burn",
                       "read_balance", "read_supply", "full_demo"}
BY DEF Programs

LEMMA MakerSteps ==
    /\ Len(create_account) = 3
    /\ create_account[1] = "register_key" /\ create_account[2] = "add_key"
    /\ create_account[3] = "add_wallet"
    /\ Len(deploy_issuer) = 3
    /\ deploy_issuer[1] = "register_key" /\ deploy_issuer[2] = "add_key"
    /\ deploy_issuer[3] = "add_issuer"
BY DEF create_account, deploy_issuer, FreshKey

\* The other programs, but for full_demo, use accounts made before.
UsesAccounts(steps) ==
    /\ Len(steps) \in {4, 5}
    /\ steps[1] = "issuer_id" /\ steps[2] = "register_key" /\ steps[3] = "add_key"
    /\ \A i \in 4 .. Len(steps) : steps[i] \in Uses

LEMMA UserSteps ==
    /\ UsesAccounts(mint) /\ UsesAccounts(transfer) /\ UsesAccounts(burn)
    /\ UsesAccounts(read_balance) /\ UsesAccounts(read_supply)
<1>1. UsesAccounts(mint)
  BY DEF UsesAccounts, mint, FreshKey, Uses
<1>2. UsesAccounts(transfer)
  BY DEF UsesAccounts, transfer, FreshKey, Uses
<1>3. UsesAccounts(burn)
  BY DEF UsesAccounts, burn, FreshKey, Uses
<1>4. UsesAccounts(read_balance)
  BY DEF UsesAccounts, read_balance, FreshKey, Uses
<1>5. UsesAccounts(read_supply)
  BY DEF UsesAccounts, read_supply, FreshKey, Uses
<1> QED
  BY <1>1, <1>2, <1>3, <1>4, <1>5

LEMMA DemoSteps ==
    /\ Len(full_demo) = 24
    /\ \A i \in 1 .. 3 : full_demo[i] = "register_key"
    /\ \A i \in 4 .. 6 : full_demo[i] = "add_key"
    /\ \A i \in 7 .. 9 : full_demo[i] \in {"add_issuer", "add_wallet"}
    /\ \A i \in 10 .. 24 : full_demo[i] \in Uses
<1>1. Len(full_demo) = 24
  BY DEF full_demo, print_state
<1>2. \A i \in 1 .. 3 : full_demo[i] = "register_key"
  BY DEF full_demo, print_state
<1>3. \A i \in 4 .. 6 : full_demo[i] = "add_key"
  BY DEF full_demo, print_state
<1>4. \A i \in 7 .. 9 : full_demo[i] \in {"add_issuer", "add_wallet"}
  BY DEF full_demo, print_state
<1>5. \A i \in 10 .. 24 : full_demo[i] \in Uses
  <2>1. Len(print_state) = 3 /\ \A i \in 1 .. 3 : print_state[i] \in Uses
    BY DEF print_state, Uses
  <2> QED
    BY <2>1 DEF full_demo, print_state, Uses
<1> QED
  BY <1>1, <1>2, <1>3, <1>4, <1>5

\* What a program owes its keystore, before and after each of its steps.
Keeping(name, i) ==
    LET s == Programs[name][i] IN
    /\ s = "register_key" => Owed(name, i + 1) = Owed(name, i) + 1
    /\ s = "add_key" => Owed(name, i + 1) = Owed(name, i) - 1
    /\ s \notin {"register_key", "add_key"} => Owed(name, i + 1) = Owed(name, i)
    /\ s \in {"add_wallet", "add_issuer"} => Owed(name, i) = 0 /\ name \in Makers
    /\ s \in {"sign_issuer", "sign_wallet"} =>
           name \notin {"create_account", "deploy_issuer"}

LEMMA OwedType ==
    ASSUME NEW name, NEW i \in Nat
    PROVE  Owed(name, i) \in Nat
BY DEF Owed, FirstKey, KeyCount

LEMMA ProgramSteps ==
    ASSUME NEW name \in DOMAIN Programs
    PROVE  /\ Len(Programs[name]) \in Nat
           /\ \A i \in 1 .. Len(Programs[name]) : Keeping(name, i)
<1>1. CASE name \in {"create_account", "deploy_issuer"}
  <2>1. Len(Programs[name]) = 3 /\ FirstKey(name) = 1 /\ KeyCount(name) = 1 /\ name \in Makers
        /\ Programs[name][1] = "register_key" /\ Programs[name][2] = "add_key"
        /\ Programs[name][3] \in {"add_wallet", "add_issuer"}
    BY <1>1, MakerSteps DEF Programs, FirstKey, KeyCount, Makers
  <2> QED
    BY <2>1 DEF Keeping, Owed
<1>2. CASE name \in {"mint", "transfer", "burn", "read_balance", "read_supply"}
  <2>1. UsesAccounts(Programs[name]) /\ FirstKey(name) = 2 /\ KeyCount(name) = 1
    BY <1>2, UserSteps DEF Programs, FirstKey, KeyCount, Makers
  <2>2. ASSUME NEW i \in 1 .. Len(Programs[name])
        PROVE  Keeping(name, i)
    BY <1>2, <2>1 DEF UsesAccounts, Uses, Keeping, Owed
  <2> QED
    BY <2>1, <2>2 DEF UsesAccounts
<1>3. CASE name = "full_demo"
  <2>1. Programs[name] = full_demo /\ FirstKey(name) = 1 /\ KeyCount(name) = 3
        /\ name \in Makers
    BY <1>3 DEF Programs, FirstKey, KeyCount, Makers
  <2>2. ASSUME NEW i \in 1 .. 24
        PROVE  Keeping(name, i)
    <3>1. CASE i \in 1 .. 3
      <4>1. Programs[name][i] = "register_key"
        BY <2>1, <3>1, DemoSteps
      <4> QED
        BY <2>1, <3>1, <4>1 DEF Keeping, Owed
    <3>2. CASE i \in 4 .. 6
      <4>1. Programs[name][i] = "add_key"
        BY <2>1, <3>2, DemoSteps
      <4> QED
        BY <2>1, <3>2, <4>1 DEF Keeping, Owed
    <3>3. CASE i \in 7 .. 9
      <4>1. Programs[name][i] \in {"add_issuer", "add_wallet"}
        BY <2>1, <3>3, DemoSteps
      <4> QED
        BY <2>1, <3>3, <4>1 DEF Keeping, Owed
    <3>4. CASE i \in 10 .. 24
      <4>1. Programs[name][i] \in Uses
        BY <2>1, <3>4, DemoSteps
      <4> QED
        BY <1>3, <2>1, <3>4, <4>1 DEF Keeping, Owed, Uses
    <3> QED
      BY <3>1, <3>2, <3>3, <3>4
  <2> QED
    BY <2>1, <2>2, DemoSteps
<1> QED
  BY <1>1, <1>2, <1>3, AllPrograms

-----------------------------------------------------------------------------
(* Types and places *)

\* A temporary directory is worked in by the process that made it, and by no
\* other.
LEMMA Places ==
    ASSUME TypeOK, OwnPlaces, NEW p \in Procs
    PROVE  /\ step[p] \in Nat /\ step[p] >= 1
           /\ \/ place[p] = TempDir(p) /\ place[p].store = p /\ place[p].keystore = p
              \/ /\ place[p].store \in StorePaths /\ place[p].store \notin Procs
                 /\ place[p].keystore \in KeystorePaths /\ place[p].keystore \notin Procs
           /\ KeysOnDisk(p) \subseteq Keys /\ Accounts(p) \subseteq AccountSet
BY CustodyAssumption DEF TypeOK, OwnPlaces, Config, TempDir, KeysOnDisk, Accounts

\* At a step of its program a process keeps what that step leaves it owing.
LEMMA AtStep ==
    ASSUME TypeOK, OwnPlaces, NEW p \in Procs, NEW s, At(p, s)
    PROVE  /\ program[p] \in DOMAIN Programs /\ Programs[program[p]][step[p]] = s
           /\ Keeping(program[p], step[p])
<1>1. program[p] \in DOMAIN Programs
  BY DEF At, Running, TypeOK
<1>2. step[p] \in 1 .. Len(Programs[program[p]])
  BY <1>1, ProgramSteps, Places DEF At
<1> QED
  BY <1>1, <1>2, ProgramSteps DEF At

LEMMA InitTypes == Init => TypeOK /\ OwnPlaces
BY CustodyAssumption DEF Init, TypeOK, OwnPlaces, Config, TempDir, Running

\* The end of a program, and the start of one.
LEMMA EndTypes ==
    ASSUME TypeOK, OwnPlaces, NEW p \in Procs, End(p),
           EmptyTempDir(p) \/ UNCHANGED <<keystore, tracked>>,
           UNCHANGED <<issuerId, lastKey, signatures>>
    PROVE  TypeOK' /\ OwnPlaces'
<1>1. keystore' \in [KeystorePaths \cup Procs -> SUBSET Keys]
      /\ tracked' \in [StorePaths \cup Procs -> SUBSET AccountSet]
  BY DEF EmptyTempDir, TypeOK
<1>2. /\ program' \in [Procs -> DOMAIN Programs \cup {"none"}]
      /\ step' \in [Procs -> Nat]
      /\ place' \in [Procs -> Config \cup {TempDir(q) : q \in Procs}]
      /\ registered' \in [Procs -> SUBSET Keys]
      /\ issuer' \in [Procs -> AccountSet \cup {NoAccount}]
      /\ \A q \in Procs : ~Running(q)' => registered'[q] = {}
  BY DEF End, TypeOK, Running
<1>3. OwnPlaces'
  BY DEF End, TypeOK, OwnPlaces, Running, TempDir
<1> QED
  BY <1>1, <1>2, <1>3 DEF TypeOK

LEMMA LaunchTypes ==
    ASSUME TypeOK, OwnPlaces, NEW p \in Procs, LaunchProgram(p) \/ LaunchDemo(p)
    PROVE  TypeOK' /\ OwnPlaces'
<1>1. keystore' \in [KeystorePaths \cup Procs -> SUBSET Keys]
      /\ tracked' \in [StorePaths \cup Procs -> SUBSET AccountSet]
  BY DEF LaunchProgram, LaunchDemo, EmptyTempDir, TypeOK
<1>2. PICK name \in DOMAIN Programs, paths \in Config \cup {TempDir(p)} :
          /\ Launch(p, name, paths)
          /\ IF name = "full_demo" THEN paths = TempDir(p) ELSE paths \in Config
  BY AllPrograms DEF LaunchProgram, LaunchDemo
<1>3. name # "none"
  BY AllPrograms
<1>4. TypeOK'
  BY <1>1, <1>2, <1>3 DEF Launch, TypeOK, Running
<1>5. OwnPlaces'
  BY <1>2, <1>3 DEF Launch, TypeOK, OwnPlaces, Running, TempDir
<1> QED
  BY <1>4, <1>5

LEMMA AdvanceTypes ==
    ASSUME TypeOK, OwnPlaces, NEW p \in Procs, Running(p), Advance(p)
    PROVE  /\ step' \in [Procs -> Nat]
           /\ OwnPlaces'
BY DEF Advance, TypeOK, OwnPlaces, Running, TempDir

LEMMA StepTypes ==
    ASSUME TypeOK, OwnPlaces, [Next]_vars
    PROVE  TypeOK' /\ OwnPlaces'
<1>1. ASSUME NEW p \in Procs, LaunchProgram(p) \/ LaunchDemo(p)
      PROVE  TypeOK' /\ OwnPlaces'
  BY <1>1, LaunchTypes
<1>2. ASSUME NEW p \in Procs, Exit(p) \/ StepFails(p) \/ Killed(p)
      PROVE  TypeOK' /\ OwnPlaces'
  BY <1>2, EndTypes DEF Exit, StepFails, Killed, RemoveTempDir
<1>3. ASSUME NEW p \in Procs, ReadIssuerId(p) \/ Read(p)
      PROVE  TypeOK' /\ OwnPlaces'
  <2>1. Running(p) /\ Advance(p)
    BY <1>3 DEF ReadIssuerId, Read, At
  <2> QED
    BY <1>3, <2>1, AdvanceTypes DEF ReadIssuerId, Read, Advance, TypeOK, Running
<1>4. ASSUME NEW p \in Procs, RegisterKey(p)
      PROVE  TypeOK' /\ OwnPlaces'
  <2>1. Running(p) /\ Advance(p)
    BY <1>4 DEF RegisterKey, At
  <2>2. lastKey' \in 0 .. MaxKeys /\ lastKey' \in Keys
    BY <1>4, CustodyAssumption DEF RegisterKey, TypeOK, Keys
  <2> QED
    BY <1>4, <2>1, <2>2, AdvanceTypes DEF RegisterKey, Advance, TypeOK, Running
<1>5. ASSUME NEW p \in Procs, AddKey(p)
      PROVE  TypeOK' /\ OwnPlaces'
  <2>1. Running(p) /\ Advance(p)
    BY <1>5 DEF AddKey, At
  <2>2. keystore' \in [KeystorePaths \cup Procs -> SUBSET Keys]
    BY <1>5, Places DEF AddKey, TypeOK
  <2> QED
    BY <1>5, <2>1, <2>2, AdvanceTypes DEF AddKey, Advance, TypeOK, Running
<1>6. ASSUME NEW p \in Procs, CreateWalletAccount(p) \/ DeployIssuerAccount(p)
      PROVE  TypeOK' /\ OwnPlaces'
  <2>1. PICK kind \in {"wallet", "issuer"} : Running(p) /\ AddAccount(p, kind)
    BY <1>6 DEF CreateWalletAccount, DeployIssuerAccount, At
  <2>2. PICK k \in registered[p] :
            LET a == [kind |-> kind, key |-> k] IN
            /\ tracked' = [tracked EXCEPT ![place[p].store] = @ \cup {a}]
            /\ issuer' = IF kind = "issuer" THEN [issuer EXCEPT ![p] = a] ELSE issuer
            /\ Advance(p)
            /\ UNCHANGED <<keystore, issuerId, lastKey, registered, signatures>>
    BY <2>1 DEF AddAccount
  <2>3. [kind |-> kind, key |-> k] \in AccountSet
    BY DEF AccountSet, TypeOK
  <2>4. /\ tracked' \in [StorePaths \cup Procs -> SUBSET AccountSet]
        /\ issuer' \in [Procs -> AccountSet \cup {NoAccount}]
    BY <2>2, <2>3, Places DEF TypeOK
  <2> QED
    BY <2>1, <2>2, <2>4, AdvanceTypes DEF Advance, TypeOK, Running
<1>7. ASSUME NEW p \in Procs, SignAsIssuer(p) \/ SignAsWallet(p)
      PROVE  TypeOK' /\ OwnPlaces'
  <2>1. PICK a \in Accounts(p) : Running(p) /\ SignFor(p, a)
    BY <1>7 DEF SignAsIssuer, SignAsWallet, SignFor, At
  <2>2. Signature(p, a) \in Signatures
    BY <2>1, Places DEF Signature, Signatures, TypeOK, Running
  <2>3. signatures' \subseteq Signatures
    BY <2>1, <2>2 DEF SignFor, GetSignature, TypeOK
  <2> QED
    BY <2>1, <2>3, AdvanceTypes DEF SignFor, Advance, TypeOK, Running
<1>8. ASSUME NEW d \in StorePaths, NEW a \in tracked[d], SetIssuerId(a)
      PROVE  TypeOK' /\ OwnPlaces'
  BY <1>8 DEF SetIssuerId, procVars, TypeOK, OwnPlaces, Running
<1>9. CASE UNCHANGED vars
  BY <1>9 DEF vars, procVars, TypeOK, OwnPlaces, Running
<1> QED
  BY <1>1, <1>2, <1>3, <1>4, <1>5, <1>6, <1>7, <1>8, <1>9 DEF Next, Run

-----------------------------------------------------------------------------
(* Keys are stored in time *)

LEMMA UnsavedFinite ==
    ASSUME TypeOK, NEW p \in Procs
    PROVE  /\ IsFiniteSet(Unsaved(p)) /\ Cardinality(Unsaved(p)) \in Nat
           /\ \A S \in SUBSET Unsaved(p) : Cardinality(S) <= Cardinality(Unsaved(p))
<1>1. IsFiniteSet(Keys)
  BY CustodyAssumption, FS_Interval DEF Keys
<1>2. Unsaved(p) \subseteq Keys
  BY DEF Unsaved, TypeOK
<1> QED
  BY <1>1, <1>2, FS_Subset, FS_CardinalityType

\* A process that makes no key, and whose directory loses none, keeps its time
\* as long as it owes no less.
LEMMA TimeKept ==
    ASSUME TypeOK, KeysInTime, NEW q \in Procs,
           Running(q), Unsaved(q)' \subseteq Unsaved(q),
           Owed(program[q], step[q]) <= Owed(program'[q], step'[q]),
           Owed(program[q], step[q]) \in Nat, Owed(program'[q], step'[q]) \in Nat,
           TypeOK'
    PROVE  Cardinality(Unsaved(q)') <= Owed(program'[q], step'[q])
<1>1. Cardinality(Unsaved(q)) <= Owed(program[q], step[q]) /\ Cardinality(Unsaved(q)) \in Nat
  BY UnsavedFinite DEF KeysInTime
<1>2. Cardinality(Unsaved(q)') <= Cardinality(Unsaved(q))
  BY UnsavedFinite
<1>3. Cardinality(Unsaved(q)') \in Nat
  <2>1. IsFiniteSet(Unsaved(q)')
    BY UnsavedFinite, FS_Subset
  <2> QED
    BY <2>1, FS_CardinalityType
<1> QED
  BY <1>1, <1>2, <1>3

\* The other processes, whatever this one does in its own places.
LEMMA OthersInTime ==
    ASSUME TypeOK, TypeOK', OwnPlaces, KeysInTime, NEW p \in Procs, NEW q \in Procs, q # p,
           program'[q] = program[q], step'[q] = step[q], place'[q] = place[q],
           registered'[q] \subseteq registered[q],
           \A d \in (KeystorePaths \cup Procs) \ {p} : keystore[d] \subseteq keystore'[d],
           Running(q)
    PROVE  Cardinality(Unsaved(q)') <= Owed(program'[q], step'[q])
<1>1. place[q].keystore \in (KeystorePaths \cup Procs) \ {p}
  BY Places, CustodyAssumption
<1>2. Unsaved(q)' \subseteq Unsaved(q)
  BY <1>1 DEF Unsaved, KeysOnDisk
<1>3. Owed(program[q], step[q]) \in Nat
  BY OwedType, Places
<1> QED
  BY <1>2, <1>3, TimeKept

LEMMA StepInTime ==
    ASSUME TypeOK, OwnPlaces, KeysInTime, [Next]_vars
    PROVE  KeysInTime'
<1> USE StepTypes
<1> DEFINE OnTime(q) == Running(q)' => Cardinality(Unsaved(q)') <= Owed(program'[q], step'[q])
<1>1. ASSUME NEW p \in Procs, LaunchProgram(p) \/ LaunchDemo(p), NEW q \in Procs
      PROVE  OnTime(q)
  <2>1. PICK name, paths : Launch(p, name, paths)
    BY <1>1 DEF LaunchProgram, LaunchDemo
  <2>2. \A d \in (KeystorePaths \cup Procs) \ {p} : keystore[d] \subseteq keystore'[d]
    BY <1>1 DEF LaunchProgram, LaunchDemo, EmptyTempDir, TypeOK
  <2>3. CASE q = p
    <3>1. registered'[p] = {} /\ step'[p] \in Nat
      BY <2>1 DEF Launch, TypeOK, OwnPlaces
    <3>2. Unsaved(p)' = {}
      BY <3>1 DEF Unsaved
    <3>3. Owed(program'[p], step'[p]) \in Nat
      BY <3>1, OwedType
    <3> QED
      BY <2>3, <3>2, <3>3, FS_EmptySet
  <2>4. CASE q # p
    <3>1. /\ program'[q] = program[q] /\ step'[q] = step[q] /\ place'[q] = place[q]
          /\ registered'[q] = registered[q]
      BY <2>1, <2>4 DEF Launch, TypeOK
    <3> QED
      BY <2>2, <2>4, <3>1, OthersInTime DEF Running
  <2> QED
    BY <2>3, <2>4
<1>2. ASSUME NEW p \in Procs, Exit(p) \/ StepFails(p) \/ Killed(p), NEW q \in Procs
      PROVE  OnTime(q)
  <2>1. End(p)
    BY <1>2 DEF Exit, StepFails, Killed
  <2>2. \A d \in (KeystorePaths \cup Procs) \ {p} : keystore[d] \subseteq keystore'[d]
    BY <1>2 DEF Exit, StepFails, Killed, RemoveTempDir, EmptyTempDir, TypeOK
  <2>3. CASE q = p
    BY <2>1, <2>3 DEF End, Running, TypeOK
  <2>4. CASE q # p
    <3>1. /\ program'[q] = program[q] /\ step'[q] = step[q] /\ place'[q] = place[q]
          /\ registered'[q] = registered[q]
      BY <2>1, <2>4 DEF End, TypeOK
    <3> QED
      BY <2>2, <2>4, <3>1, OthersInTime DEF Running
  <2> QED
    BY <2>3, <2>4
<1>3. ASSUME NEW p \in Procs, Run(p), ~Exit(p), NEW q \in Procs, q # p
      PROVE  OnTime(q)
  <2>1. Advance(p) /\ registered'[q] = registered[q]
    BY <1>3 DEF Run, ReadIssuerId, RegisterKey, AddKey, CreateWalletAccount,
           DeployIssuerAccount, AddAccount, SignAsIssuer, SignAsWallet, SignFor, Read, TypeOK
  <2>2. \A d \in (KeystorePaths \cup Procs) \ {p} : keystore[d] \subseteq keystore'[d]
    BY <1>3 DEF Run, ReadIssuerId, RegisterKey, AddKey, CreateWalletAccount,
           DeployIssuerAccount, AddAccount, SignAsIssuer, SignAsWallet, SignFor, Read, TypeOK
  <2>3. program'[q] = program[q] /\ step'[q] = step[q] /\ place'[q] = place[q]
    BY <1>3, <2>1 DEF Advance, TypeOK
  <2> QED
    BY <1>3, <2>1, <2>2, <2>3, OthersInTime DEF Running
<1>4. ASSUME NEW p \in Procs, ReadIssuerId(p) \/ CreateWalletAccount(p)
                 \/ DeployIssuerAccount(p) \/ SignAsIssuer(p) \/ SignAsWallet(p) \/ Read(p)
      PROVE  OnTime(p)
  <2>1. /\ \E s : At(p, s) /\ s \notin {"register_key", "add_key"}
        /\ Advance(p) /\ UNCHANGED <<keystore, registered>>
    BY <1>4 DEF ReadIssuerId, CreateWalletAccount, DeployIssuerAccount, AddAccount,
           SignAsIssuer, SignAsWallet, SignFor, Read
  <2>2. /\ Owed(program[p], step[p] + 1) = Owed(program[p], step[p])
        /\ Owed(program[p], step[p]) \in Nat /\ Running(p)
    BY <2>1, AtStep, Places, OwedType DEF Keeping, At
  <2>3. program'[p] = program[p] /\ step'[p] = step[p] + 1 /\ place'[p] = place[p]
    BY <2>1 DEF Advance, TypeOK
  <2>4. Unsaved(p)' = Unsaved(p)
    BY <2>1, <2>3 DEF Unsaved, KeysOnDisk
  <2> QED
    BY <2>2, <2>3, <2>4, TimeKept
<1>5. ASSUME NEW p \in Procs, RegisterKey(p)
      PROVE  OnTime(p)
  <2>1. program'[p] = program[p] /\ step'[p] = step[p] + 1 /\ place'[p] = place[p]
        /\ keystore' = keystore /\ registered'[p] = registered[p] \cup {lastKey + 1}
    BY <1>5 DEF RegisterKey, Advance, TypeOK
  <2>2. /\ Owed(program[p], step[p] + 1) = Owed(program[p], step[p]) + 1
        /\ Owed(program[p], step[p]) \in Nat /\ Running(p)
    BY <1>5, AtStep, Places, OwedType DEF RegisterKey, Keeping, At
  <2>3. Unsaved(p)' \subseteq Unsaved(p) \cup {lastKey + 1}
    BY <2>1 DEF Unsaved, KeysOnDisk
  <2>4. /\ Cardinality(Unsaved(p)) \in Nat
        /\ IsFiniteSet(Unsaved(p) \cup {lastKey + 1})
        /\ Cardinality(Unsaved(p) \cup {lastKey + 1}) \in Nat
        /\ Cardinality(Unsaved(p) \cup {lastKey + 1}) <= Cardinality(Unsaved(p)) + 1
    <3>1. IsFiniteSet(Unsaved(p)) /\ Cardinality(Unsaved(p)) \in Nat
      BY UnsavedFinite
    <3>2. /\ IsFiniteSet(Unsaved(p) \cup {lastKey + 1})
          /\ \/ Cardinality(Unsaved(p) \cup {lastKey + 1}) = Cardinality(Unsaved(p))
             \/ Cardinality(Unsaved(p) \cup {lastKey + 1}) = Cardinality(Unsaved(p)) + 1
      BY <3>1, FS_AddElement
    <3> QED
      BY <3>1, <3>2
  <2>5. /\ Cardinality(Unsaved(p)') <= Cardinality(Unsaved(p) \cup {lastKey + 1})
        /\ Cardinality(Unsaved(p)') \in Nat
    BY <2>3, <2>4, FS_Subset, FS_CardinalityType
  <2>6. Cardinality(Unsaved(p)) <= Owed(program[p], step[p])
    BY <2>2 DEF KeysInTime
  <2> QED
    BY <2>1, <2>2, <2>4, <2>5, <2>6
<1>6. ASSUME NEW p \in Procs, AddKey(p)
      PROVE  OnTime(p)
  <2>1. PICK k \in registered[p] \ KeysOnDisk(p) :
            keystore' = [keystore EXCEPT ![place[p].keystore] = @ \cup {k}]
    BY <1>6 DEF AddKey
  <2>2. program'[p] = program[p] /\ step'[p] = step[p] + 1 /\ place'[p] = place[p]
        /\ registered' = registered
    BY <1>6 DEF AddKey, Advance, TypeOK
  <2>3. /\ Owed(program[p], step[p] + 1) = Owed(program[p], step[p]) - 1
        /\ Owed(program[p], step[p]) \in Nat /\ Running(p)
    BY <1>6, AtStep, Places, OwedType DEF AddKey, Keeping, At
  <2>4. keystore'[place[p].keystore] = KeysOnDisk(p) \cup {k}
    BY <2>1, Places DEF KeysOnDisk, TypeOK
  <2>5. Unsaved(p)' = Unsaved(p) \ {k} /\ k \in Unsaved(p)
    BY <2>1, <2>2, <2>4 DEF Unsaved, KeysOnDisk
  <2>6. /\ Cardinality(Unsaved(p)) \in Nat
        /\ Cardinality(Unsaved(p)') = Cardinality(Unsaved(p)) - 1
    BY <2>5, UnsavedFinite, FS_RemoveElement
  <2>7. Cardinality(Unsaved(p)) <= Owed(program[p], step[p])
    BY <2>3 DEF KeysInTime
  <2> QED
    BY <2>2, <2>3, <2>6, <2>7
<1>7. ASSUME NEW q \in Procs,
             UNCHANGED vars \/ \E d \in StorePaths : \E a \in tracked[d] : SetIssuerId(a)
      PROVE  OnTime(q)
  <2>1. UNCHANGED <<keystore, program, step, place, registered>>
    BY <1>7 DEF vars, procVars, SetIssuerId
  <2> QED
    BY <2>1 DEF KeysInTime, Running, Unsaved, KeysOnDisk
<1>8. ASSUME NEW q \in Procs
      PROVE  OnTime(q)
  <2>1. ASSUME NEW p \in Procs, Run(p), ~Exit(p)
        PROVE  OnTime(q)
    <3>1. CASE q # p
      BY <1>3, <2>1, <3>1
    <3>2. CASE q = p
      BY <1>4, <1>5, <1>6, <2>1, <3>2 DEF Run
    <3> QED
      BY <3>1, <3>2
  <2> QED
    BY <1>1, <1>2, <1>7, <2>1 DEF Next
<1> QED
  BY <1>8 DEF KeysInTime, Running, Unsaved, KeysOnDisk

-----------------------------------------------------------------------------
(* Accounts have their keys *)

\* An account is added when the process owes its keystore nothing: the key is
\* in the directory that goes with the store.
LEMMA KeyStored ==
    ASSUME TypeOK, OwnPlaces, KeysInTime, NEW p \in Procs,
           At(p, "add_wallet") \/ At(p, "add_issuer"), NEW k \in registered[p]
    PROVE  KeyAt(place[p].store, k)
<1>1. Owed(program[p], step[p]) = 0 /\ Running(p)
  BY AtStep DEF Keeping, At
<1>2. IsFiniteSet(Unsaved(p)) /\ Cardinality(Unsaved(p)) = 0
  BY <1>1, UnsavedFinite DEF KeysInTime
<1>3. k \in KeysOnDisk(p)
  BY <1>2, FS_EmptySet DEF Unsaved
<1> QED
  BY <1>3, Places DEF KeyAt, KeysOnDisk

LEMMA KeysStay ==
    ASSUME TypeOK, KeysKept, NEW p \in Procs,
           \/ EmptyTempDir(p)
           \/ /\ \A d \in KeystorePaths \cup Procs : keystore[d] \subseteq keystore'[d]
              /\ tracked' = tracked
    PROVE  KeysKept'
<1>1. CASE EmptyTempDir(p)
  <2>1. /\ keystore'[p] = {} /\ \A d \in (KeystorePaths \cup Procs) \ {p} : keystore'[d] = keystore[d]
        /\ \A d \in StorePaths \cup Procs : tracked'[d] = IF d = p THEN {} ELSE tracked[d]
    BY <1>1 DEF EmptyTempDir, TypeOK
  <2>2. ASSUME NEW d \in StorePaths \cup Procs, NEW a \in tracked'[d]
        PROVE  KeyAt(d, a.key)'
    <3>1. d # p /\ a \in tracked[d]
      BY <2>1, <2>2
    <3>2. KeyAt(d, a.key)
      BY <3>1 DEF KeysKept
    <3> QED
      BY <2>1, <3>1, <3>2, CustodyAssumption DEF KeyAt
  <2> QED
    BY <2>2 DEF KeysKept
<1>2. CASE /\ \A d \in KeystorePaths \cup Procs : keystore[d] \subseteq keystore'[d]
           /\ tracked' = tracked
  BY <1>2 DEF KeysKept, KeyAt
<1> QED
  BY <1>1, <1>2

LEMMA StepKept ==
    ASSUME TypeOK, OwnPlaces, KeysInTime, KeysKept, [Next]_vars
    PROVE  KeysKept'
<1>1. ASSUME NEW p \in Procs, LaunchProgram(p) \/ LaunchDemo(p)
                 \/ Exit(p) \/ StepFails(p) \/ Killed(p)
      PROVE  KeysKept'
  <2>1. EmptyTempDir(p) \/ UNCHANGED <<keystore, tracked>>
    BY <1>1 DEF LaunchProgram, LaunchDemo, Exit, StepFails, Killed, RemoveTempDir
  <2> QED
    BY <2>1, KeysStay
<1>2. ASSUME NEW p \in Procs, ReadIssuerId(p) \/ RegisterKey(p) \/ AddKey(p)
                 \/ SignAsIssuer(p) \/ SignAsWallet(p) \/ Read(p)
      PROVE  KeysKept'
  <2>1. /\ \A d \in KeystorePaths \cup Procs : keystore[d] \subseteq keystore'[d]
        /\ tracked' = tracked
    BY <1>2 DEF ReadIssuerId, RegisterKey, AddKey, SignAsIssuer, SignAsWallet, SignFor,
           Read, TypeOK
  <2> QED
    BY <2>1, KeysStay
<1>3. ASSUME NEW p \in Procs, CreateWalletAccount(p) \/ DeployIssuerAccount(p)
      PROVE  KeysKept'
  <2>1. PICK kind : AddAccount(p, kind)
    BY <1>3 DEF CreateWalletAccount, DeployIssuerAccount
  <2>2. PICK k \in registered[p] :
            /\ tracked' = [tracked EXCEPT ![place[p].store] =
                               @ \cup {[kind |-> kind, key |-> k]}]
            /\ keystore' = keystore
    BY <2>1 DEF AddAccount
  <2>3. KeyAt(place[p].store, k)
    BY <1>3, KeyStored DEF CreateWalletAccount, DeployIssuerAccount
  <2>4. ASSUME NEW d \in StorePaths \cup Procs, NEW a \in tracked'[d]
        PROVE  KeyAt(d, a.key)
    <3>1. CASE a \in tracked[d]
      BY <3>1 DEF KeysKept
    <3>2. CASE a \notin tracked[d]
      BY <2>2, <2>3, <2>4, <3>2 DEF TypeOK
    <3> QED
      BY <3>1, <3>2
  <2> QED
    BY <2>2, <2>4 DEF KeysKept, KeyAt
<1>4. ASSUME NEW d \in StorePaths, NEW a \in tracked[d], SetIssuerId(a)
      PROVE  KeysKept'
  BY <1>4 DEF SetIssuerId, KeysKept, KeyAt
<1>5. CASE UNCHANGED vars
  BY <1>5 DEF vars, KeysKept, KeyAt
<1> QED
  BY <1>1, <1>2, <1>3, <1>4, <1>5 DEF Next, Run

-----------------------------------------------------------------------------
(* Keys are made once, and sign only where they were made *)

\* No key and no account is added; a process that starts or ends has no keys.
LEMMA FreshStay ==
    ASSUME TypeOK, FreshKeys, NEW p \in Procs, lastKey' = lastKey,
           \A d \in StorePaths \cup Procs : tracked'[d] \subseteq tracked[d],
           \A q \in Procs : registered'[q] \subseteq registered[q],
           \A q \in Procs : registered'[q] = {} \/ program'[q] = program[q]
    PROVE  FreshKeys'
BY DEF FreshKeys

LEMMA StepFresh ==
    ASSUME TypeOK, OwnPlaces, FreshKeys, [Next]_vars
    PROVE  FreshKeys'
<1>1. ASSUME NEW p \in Procs, LaunchProgram(p) \/ LaunchDemo(p)
      PROVE  FreshKeys'
  <2>1. PICK name, paths : Launch(p, name, paths)
    BY <1>1 DEF LaunchProgram, LaunchDemo
  <2>2. /\ registered' = registered /\ registered[p] = {} /\ lastKey' = lastKey
        /\ \A q \in Procs \ {p} : program'[q] = program[q]
    BY <2>1 DEF Launch, TypeOK
  <2>3. \A d \in StorePaths \cup Procs : tracked'[d] \subseteq tracked[d]
    BY <1>1 DEF LaunchProgram, LaunchDemo, EmptyTempDir, TypeOK
  <2> QED
    BY <2>2, <2>3, FreshStay
<1>2. ASSUME NEW p \in Procs, Exit(p) \/ StepFails(p) \/ Killed(p)
      PROVE  FreshKeys'
  <2>1. End(p) /\ lastKey' = lastKey
    BY <1>2 DEF Exit, StepFails, Killed
  <2>2. /\ registered'[p] = {}
        /\ \A q \in Procs \ {p} : registered'[q] = registered[q] /\ program'[q] = program[q]
    BY <2>1 DEF End, TypeOK
  <2>3. \A d \in StorePaths \cup Procs : tracked'[d] \subseteq tracked[d]
    BY <1>2 DEF Exit, StepFails, Killed, RemoveTempDir, EmptyTempDir, TypeOK
  <2> QED
    BY <2>1, <2>2, <2>3, FreshStay
<1>3. ASSUME NEW p \in Procs, ReadIssuerId(p) \/ AddKey(p)
                 \/ SignAsIssuer(p) \/ SignAsWallet(p) \/ Read(p)
      PROVE  FreshKeys'
  <2>1. UNCHANGED <<lastKey, tracked, registered, program>>
    BY <1>3 DEF ReadIssuerId, AddKey, SignAsIssuer, SignAsWallet, SignFor, Read, Advance
  <2> QED
    BY <2>1 DEF FreshKeys
<1>4. ASSUME NEW p \in Procs, RegisterKey(p)
      PROVE  FreshKeys'
  <2>1. /\ lastKey' = lastKey + 1 /\ lastKey \in Nat
        /\ registered'[p] = registered[p] \cup {lastKey + 1}
        /\ \A q \in Procs \ {p} : registered'[q] = registered[q]
        /\ tracked' = tracked /\ program' = program
    BY <1>4, CustodyAssumption DEF RegisterKey, Advance, TypeOK
  <2>2. /\ \A q \in Procs : registered[q] \subseteq Nat
        /\ \A d \in StorePaths \cup Procs : \A a \in tracked[d] : a.key \in Nat
    BY DEF TypeOK, AccountSet, Keys
  <2>3. \A q \in Procs : \A k \in registered'[q] : k <= lastKey'
    BY <2>1, <2>2 DEF FreshKeys
  <2>4. \A q, r \in Procs : q # r => registered'[q] \cap registered'[r] = {}
    <3>1. \A q \in Procs : lastKey + 1 \notin registered[q]
      BY <2>1 DEF FreshKeys
    <3> QED
      BY <2>1, <3>1 DEF FreshKeys
  <2>5. ASSUME NEW d \in StorePaths \cup Procs, NEW a \in tracked[d]
        PROVE  /\ a.key <= lastKey + 1
               /\ \A q \in Procs : a.key \in registered'[q] => program[q] \in Makers
    <3>1. a.key <= lastKey /\ a.key \in Nat
      BY <2>2 DEF FreshKeys
    <3>2. \A q \in Procs : a.key \in registered'[q] => a.key \in registered[q]
      BY <2>1, <3>1
    <3> QED
      BY <2>1, <3>1, <3>2 DEF FreshKeys
  <2> QED
    BY <2>1, <2>3, <2>4, <2>5 DEF FreshKeys
<1>5. ASSUME NEW p \in Procs, CreateWalletAccount(p) \/ DeployIssuerAccount(p)
      PROVE  FreshKeys'
  <2>1. PICK kind : AddAccount(p, kind)
    BY <1>5 DEF CreateWalletAccount, DeployIssuerAccount
  <2>2. PICK k \in registered[p] :
            /\ tracked' = [tracked EXCEPT ![place[p].store] =
                               @ \cup {[kind |-> kind, key |-> k]}]
            /\ Advance(p) /\ UNCHANGED <<lastKey, registered>>
    BY <2>1 DEF AddAccount
  <2>3. program[p] \in Makers
    BY <1>5, AtStep DEF CreateWalletAccount, DeployIssuerAccount, Keeping
  <2>4. ASSUME NEW d \in StorePaths \cup Procs, NEW a \in tracked'[d]
        PROVE  /\ a.key <= lastKey
               /\ \A q \in Procs : a.key \in registered[q] => program[q] \in Makers
    <3>1. CASE a \in tracked[d]
      BY <3>1 DEF FreshKeys
    <3>2. CASE a \notin tracked[d]
      <4>1. a.key = k
        BY <2>2, <2>4, <3>2 DEF TypeOK
      <4>2. \A q \in Procs : k \in registered[q] => q = p
        BY DEF FreshKeys
      <4> QED
        BY <2>3, <4>1, <4>2 DEF FreshKeys
    <3> QED
      BY <3>1, <3>2
  <2>5. program' = program
    BY <2>2 DEF Advance
  <2> QED
    BY <2>2, <2>4, <2>5 DEF FreshKeys
<1>6. ASSUME NEW d \in StorePaths, NEW a \in tracked[d], SetIssuerId(a)
      PROVE  FreshKeys'
  BY <1>6 DEF SetIssuerId, procVars, FreshKeys
<1>7. CASE UNCHANGED vars
  BY <1>7 DEF vars, procVars, FreshKeys
<1> QED
  BY <1>1, <1>2, <1>3, <1>4, <1>5, <1>6, <1>7 DEF Next, Run

\* With an external signer a program that signs has made the account itself;
\* of the programs that make accounts only full_demo signs.
LEMMA StepNeverSigns ==
    ASSUME TypeOK, OwnPlaces, FreshKeys, StoredKeysNeverSign, [Next]_vars
    PROVE  StoredKeysNeverSign'
<1>1. ASSUME NEW p \in Procs, SignAsIssuer(p) \/ SignAsWallet(p)
      PROVE  StoredKeysNeverSign'
  <2>1. PICK a \in Accounts(p) : SignFor(p, a)
    BY <1>1 DEF SignAsIssuer, SignAsWallet, SignFor
  <2>2. PICK s \in GetSignature(p, a) : signatures' = signatures \cup {s}
    BY <2>1 DEF SignFor
  <2>3. /\ s.proc = p /\ s.program = program[p]
        /\ Backend[p] = "external" => a.key \in registered[p]
    BY <2>2 DEF GetSignature, Signature, SignPrehash
  <2>4. a.key \in registered[p] => program[p] \in Makers
    <3>1. place[p].store \in StorePaths \cup Procs
      BY Places
    <3> QED
      BY <3>1 DEF FreshKeys, Accounts
  <2>5. program[p] \notin {"create_account", "deploy_issuer"}
    BY <1>1, AtStep DEF SignAsIssuer, SignAsWallet, Keeping
  <2> QED
    BY <2>2, <2>3, <2>4, <2>5 DEF StoredKeysNeverSign, Makers
<1>2. CASE UNCHANGED signatures
  BY <1>2 DEF StoredKeysNeverSign
<1>3. UNCHANGED signatures \/ \E p \in Procs : SignAsIssuer(p) \/ SignAsWallet(p)
  BY DEF Next, Run, LaunchProgram, LaunchDemo, Launch, ReadIssuerId, RegisterKey, AddKey,
     CreateWalletAccount, DeployIssuerAccount, AddAccount, Read, Exit, StepFails, Killed,
     SetIssuerId, vars
<1> QED
  BY <1>1, <1>2, <1>3

-----------------------------------------------------------------------------
LEMMA InitCustody == Init => CustodyInv
<1> SUFFICES ASSUME Init PROVE CustodyInv
  OBVIOUS
<1>1. TypeOK /\ OwnPlaces
  BY InitTypes
<1>2. KeysInTime
  BY DEF Init, KeysInTime, Running
<1>3. KeysKept /\ FreshKeys /\ StoredKeysNeverSign
  BY DEF Init, KeysKept, FreshKeys, StoredKeysNeverSign
<1> QED
  BY <1>1, <1>2, <1>3 DEF CustodyInv

LEMMA StepCustody == CustodyInv /\ [Next]_vars => CustodyInv'
<1> SUFFICES ASSUME CustodyInv, [Next]_vars PROVE CustodyInv'
  OBVIOUS
<1>1. TypeOK' /\ OwnPlaces'
  BY StepTypes DEF CustodyInv
<1>2. KeysInTime' /\ KeysKept'
  BY StepInTime, StepKept DEF CustodyInv
<1>3. FreshKeys' /\ StoredKeysNeverSign'
  BY StepFresh, StepNeverSigns DEF CustodyInv
<1> QED
  BY <1>1, <1>2, <1>3 DEF CustodyInv

LEMMA CustodyInvariant == Spec => []CustodyInv
<1> QED
  BY InitCustody, StepCustody, PTL DEF Spec

LEMMA KeptSuffices == CustodyInv => KeyBeforeAccount
<1> SUFFICES ASSUME CustodyInv, NEW d \in DOMAIN tracked, NEW a \in tracked[d]
             PROVE  \E e \in DOMAIN keystore : a.key \in keystore[e]
  BY DEF KeyBeforeAccount
<1>1. d \in StorePaths \cup Procs /\ DOMAIN keystore = KeystorePaths \cup Procs
  BY DEF CustodyInv, TypeOK
<1>2. KeyAt(d, a.key)
  BY <1>1 DEF CustodyInv, KeysKept
<1> QED
  BY <1>1, <1>2 DEF KeyAt

\* Type correctness: the variables of every process, directory and store have
\* the values the programs of integration/src/bin give them, and the signer of
\* a process holds no key before it starts and after it ends.
THEOREM CustodyTypes == Spec => []TypeOK
<1>1. CustodyInv => TypeOK
  BY DEF CustodyInv
<1> QED
  BY <1>1, CustodyInvariant, PTL

\* Wherever a program is killed or fails, an account in a store has its key in
\* a keystore directory: all the programs register and store their keys before
\* they add the accounts.
THEOREM KeysBeforeAccounts == Spec => []KeyBeforeAccount
BY CustodyInvariant, KeptSuffices, PTL

\* A process whose BraleKeystore has an external signer signs only in
\* full_demo, for the accounts of that same run, whatever keys are on disk.
THEOREM NeverSigns == Spec => []StoredKeysNeverSign
<1>1. CustodyInv => StoredKeysNeverSign
  BY DEF CustodyInv
<1> QED
  BY <1>1, CustodyInvariant, PTL
=============================================================================
