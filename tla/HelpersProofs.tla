---------------------------- MODULE HelpersProofs ----------------------------
(***************************************************************************)
(* The invariants of Helpers: the wallets that the helper has returned can *)
(* sign, and the notes it has made differ.                                 *)
(***************************************************************************)
EXTENDS Helpers, TLAPS

\* Steps of a script that neither store nor make anything.
LEMMA QuietScript ==
    ASSUME HelpersInv, UNCHANGED <<store, keystore, returned, notes>>,
           at' \in {"off", "script"}, package' \in {"none"} \cup Packages,
           account' \in Accounts \cup {NoAccount}, drawn' = drawn
    PROVE  HelpersInv'
BY DEF HelpersInv, TypeOK, ReturnedWalletsUsable, NotesDistinct, CreatedInOrder, SerialsDrawn

LEMMA CreateKeeps ==
    ASSUME HelpersInv, NEW config \in Configs, CreateAccount(config) \/ CreateBasicWallet(config)
    PROVE  HelpersInv'
<1>1. /\ at' = "add" /\ drawn' \in Draws /\ drawn <= drawn'
      /\ account' \in Accounts /\ (account'.auth # NoAuth => account'.type \in Regular)
  <2>1. drawn \in Nat /\ MaxDraws \in Nat
    BY HelpersAssumption DEF HelpersInv, TypeOK, Draws
  <2>2. CASE CreateAccount(config)
    BY <2>1, <2>2 DEF CreateAccount, Goto, Draw, Draws, Configs, Accounts, NoAuth
  <2>3. CASE CreateBasicWallet(config)
    BY <2>1, <2>3 DEF CreateBasicWallet, WalletBuildable, Goto, Draw, Draws, Configs, Accounts, NoAuth
  <2> QED
    BY <2>2, <2>3
<1>2. UNCHANGED <<store, keystore, package, returned, notes>>
  BY DEF CreateAccount, CreateBasicWallet
<1>3. SerialsDrawn'
  BY <1>1, <1>2, HelpersAssumption DEF HelpersInv, TypeOK, Draws, SerialsDrawn
<1> QED
  BY <1>1, <1>2, <1>3 DEF HelpersInv, TypeOK, ReturnedWalletsUsable, NotesDistinct, CreatedInOrder,
     HasKey

LEMMA AddAccountKeeps ==
    ASSUME HelpersInv, AddAccount
    PROVE  HelpersInv'
<1>1. /\ account \in Accounts /\ (HasKey => account.type \in Regular)
      /\ store' = store \cup {account} /\ UNCHANGED <<keystore, drawn, package, notes>>
      /\ \/ HasKey /\ at' = "key" /\ returned' = returned /\ account' = account
         \/ ~HasKey /\ at' = "script" /\ returned' = returned \cup {account} /\ account' = NoAccount
  BY DEF AddAccount, HelpersInv, CreatedInOrder
<1>2. NotesDistinct' /\ SerialsDrawn'
  BY <1>1 DEF HelpersInv, NotesDistinct, SerialsDrawn
<1>3. TypeOK'
  BY <1>1 DEF HelpersInv, TypeOK, HasKey
<1>4. ReturnedWalletsUsable' /\ CreatedInOrder'
  BY <1>1 DEF HelpersInv, ReturnedWalletsUsable, CreatedInOrder, HasKey
<1> QED
  BY <1>2, <1>3, <1>4 DEF HelpersInv

LEMMA AddKeyKeeps ==
    ASSUME HelpersInv, AddKey
    PROVE  HelpersInv'
<1>1. /\ account \in store /\ account.auth \in Draws
      /\ keystore' = keystore \cup {account.auth} /\ returned' = returned \cup {account}
      /\ at' = "script" /\ account' = NoAccount
      /\ UNCHANGED <<store, drawn, package, notes>>
  BY DEF AddKey, Return, Goto, HelpersInv, CreatedInOrder, Accounts, HasKey
<1> QED
  BY <1>1 DEF HelpersInv, TypeOK, ReturnedWalletsUsable, NotesDistinct, CreatedInOrder, SerialsDrawn

\* A note with a serial number that is new, or none that was drawn.
LEMMA NoteKeeps ==
    ASSUME HelpersInv, CreateNote \/ CreateTestingNote
    PROVE  HelpersInv'
<1>0. drawn \in Nat /\ notes \in Seq(Notes)
  BY DEF HelpersInv, TypeOK, Draws
<1>1. PICK n \in Notes :
          /\ notes' = Append(notes, n) /\ drawn' \in {0} \cup Draws /\ drawn <= drawn'
          /\ n.helper = "create_note" => n.serial \in 1 .. drawn' /\ n.serial > drawn
  <2>1. CASE CreateNote
    BY <1>0, <2>1 DEF CreateNote, NewNote, DrawWord, Draw, Draws, Notes
  <2>2. CASE CreateTestingNote
    <3>1. [helper |-> "create_testing_note", serial |-> Testing] \in Notes
      BY DEF Notes
    <3> QED
      BY <1>0, <2>2, <3>1 DEF CreateTestingNote, NewNote, HelpersInv, TypeOK
  <2> QED
    BY <2>1, <2>2
<1>2. /\ notes' \in Seq(Notes) /\ Len(notes') = Len(notes) + 1 /\ Len(notes) \in Nat
      /\ \A i \in 1 .. Len(notes) : notes'[i] = notes[i]
      /\ notes'[Len(notes) + 1] = n
  BY <1>0, <1>1
<1>3. SerialsDrawn'
  <2> SUFFICES ASSUME NEW i \in 1 .. Len(notes'), notes'[i].helper = "create_note"
               PROVE  notes'[i].serial \in 1 .. drawn'
    BY DEF SerialsDrawn
  <2>1. CASE i = Len(notes) + 1
    BY <1>1, <1>2, <2>1
  <2>2. CASE i \in 1 .. Len(notes)
    BY <1>0, <1>1, <1>2, <2>2 DEF HelpersInv, SerialsDrawn, Draws
  <2> QED
    BY <1>2, <2>1, <2>2
<1>4. NotesDistinct'
  <2> SUFFICES ASSUME NEW i \in 1 .. Len(notes'), NEW j \in 1 .. Len(notes'), i # j,
                      notes'[i].helper = "create_note", notes'[j].helper = "create_note"
               PROVE  notes'[i].serial # notes'[j].serial
    BY DEF NotesDistinct
  <2>1. CASE i \in 1 .. Len(notes) /\ j \in 1 .. Len(notes)
    BY <1>2, <2>1 DEF HelpersInv, NotesDistinct
  <2>2. \A k \in 1 .. Len(notes) :
            notes'[k].helper = "create_note" => notes'[k].serial \in 1 .. drawn
    BY <1>2 DEF HelpersInv, SerialsDrawn
  <2>3. CASE i = Len(notes) + 1 /\ j \in 1 .. Len(notes)
    BY <1>0, <1>1, <1>2, <2>2, <2>3
  <2>4. CASE j = Len(notes) + 1 /\ i \in 1 .. Len(notes)
    BY <1>0, <1>1, <1>2, <2>2, <2>4
  <2> QED
    BY <1>2, <2>1, <2>3, <2>4
<1>5. /\ at = "script" /\ UNCHANGED <<store, keystore, at, package, account, returned>>
  BY DEF CreateNote, CreateTestingNote, NewNote
<1> QED
  BY <1>1, <1>2, <1>3, <1>4, <1>5 DEF HelpersInv, TypeOK, ReturnedWalletsUsable, CreatedInOrder

\* A kill at an await: what was being stored is in the directory or not.
LEMMA KillKeeps ==
    ASSUME HelpersInv, KillAtAdd \/ KillAtKey
    PROVE  HelpersInv'
<1>1. /\ at' = "off" /\ package' = "none" /\ account' = NoAccount
      /\ UNCHANGED <<drawn, returned, notes>>
  BY DEF KillAtAdd, KillAtKey, End
<1>2. /\ store \subseteq store' /\ store' \subseteq Accounts
      /\ keystore \subseteq keystore' /\ keystore' \subseteq Draws
      /\ \A x \in store' : x.auth # NoAuth => x.type \in Regular
  BY DEF KillAtAdd, KillAtKey, HelpersInv, TypeOK, CreatedInOrder, HasKey, Accounts
<1> QED
  BY <1>1, <1>2 DEF HelpersInv, TypeOK, ReturnedWalletsUsable, NotesDistinct, CreatedInOrder,
     SerialsDrawn

LEMMA HelpersNext == HelpersInv /\ [Next]_vars => HelpersInv'
<1> SUFFICES ASSUME HelpersInv, [Next]_vars PROVE HelpersInv'
  OBVIOUS
<1>1. CASE SetupClient \/ BuildProject
  BY <1>1, QuietScript DEF SetupClient, BuildProject, Goto, HelpersInv, TypeOK
<1>2. CASE HelperFails
  BY <1>2, QuietScript DEF HelperFails, HelpersInv, TypeOK
<1>3. CASE Exit \/ Panic
  BY <1>3, QuietScript DEF Exit, Panic, End
<1>4. CASE UNCHANGED vars
  BY <1>4 DEF vars, HelpersInv, TypeOK, ReturnedWalletsUsable, NotesDistinct, CreatedInOrder,
     SerialsDrawn, HasKey
<1> QED
  BY <1>1, <1>2, <1>3, <1>4, CreateKeeps, AddAccountKeeps, AddKeyKeeps, NoteKeeps, KillKeeps
     DEF Next

LEMMA HelpersInductive == Spec => []HelpersInv
<1>1. Init => HelpersInv
  BY DEF Init, HelpersInv, TypeOK, ReturnedWalletsUsable, NotesDistinct, CreatedInOrder, SerialsDrawn
<1> QED
  BY <1>1, HelpersNext, PTL DEF Spec

\* The store has wallets of regular types only, and everything in it was
\* built by a helper with values drawn from the generator.
THEOREM HelpersTypes == Spec => []TypeOK
<1>1. HelpersInv => TypeOK
  BY DEF HelpersInv
<1> QED
  BY <1>1, HelpersInductive, PTL

\* A wallet that create_basic_wallet_account returned has its key in the
\* keystore, although the account is added before the key and the script may
\* fail or be killed in between.
THEOREM WalletsUsable == Spec => []ReturnedWalletsUsable
<1>1. HelpersInv => ReturnedWalletsUsable
  BY DEF HelpersInv
<1> QED
  BY <1>1, HelpersInductive, PTL

\* No two notes of create_note_from_package have one serial number.
THEOREM SerialsDistinct == Spec => []NotesDistinct
<1>1. HelpersInv => NotesDistinct
  BY DEF HelpersInv
<1> QED
  BY <1>1, HelpersInductive, PTL
=============================================================================
