--------------------------- MODULE FullDemoProofs ---------------------------
(***************************************************************************)
(* Proofs about FullDemo: its tables, what it leaves behind, and that it   *)
(* keeps and uses its keys as Custody says, for any bounds and any faults. *)
(***************************************************************************)
EXTENDS FullDemo, OperationsProofs, SumProofs, SequenceTheorems

\* What makes them inductive: the node accepts the transactions of the script
\* in their order and no others, the store knows each account as the node
\* does, and what is printed, signed and stored depends on the position only.
Minted      == [id |-> 1, target |-> WalletA, amount |-> 1000]
Transferred == [id |-> 2, target |-> WalletB, amount |-> 300]
Burned      == [id |-> 3, target |-> Issuer, amount |-> 100]

Creates(a, n) == [acct |-> a, ins |-> {}, outs |-> {n}]
Takes(n)      == [acct |-> n.target, ins |-> {n}, outs |-> {}]

Moves == << Creates(Issuer, Minted), Takes(Minted),
            Creates(WalletA, Transferred), Takes(Transferred),
            Creates(WalletB, Burned), Takes(Burned) >>

\* Each account makes two of the moves.
Turns(a) == IF a = Issuer THEN <<1, 6>> ELSE IF a = WalletA THEN <<2, 3>> ELSE <<4, 5>>

NonceAfter(a, m) == IF m < Turns(a)[1] THEN 0 ELSE IF m < Turns(a)[2] THEN 1 ELSE 2

Moved == Nonce(Issuer) + Nonce(WalletA) + Nonce(WalletB)

LogsAsPlayed ==
    /\ Moved \in 0 .. 6
    /\ \A a \in Accounts :
           /\ Nonce(a) = NonceAfter(a, Moved)
           /\ \A i \in 1 .. Nonce(a) :
                  LET move == Moves[Turns(a)[i]] IN
                  log[a][i] = [ins |-> move.ins, outs |-> move.outs]

\* Moves made, and notes created, before statement i of the script.
MovesBefore(i) ==
    IF i <= 12 THEN 0 ELSE IF i = 13 THEN 1 ELSE IF i <= 17 THEN 2
    ELSE IF i = 18 THEN 3 ELSE IF i <= 22 THEN 4 ELSE 6

SerialBefore(i) == IF i <= 12 THEN 0 ELSE IF i <= 17 THEN 1 ELSE IF i <= 22 THEN 2 ELSE 3

InCall == pc[Demo] \in Steps

IsMove(t, i) ==
    i \in 1 .. 6 /\ t.acct = Moves[i].acct /\ t.ins = Moves[i].ins /\ t.outs = Moves[i].outs

\* A call makes the moves of its statement, and a polling loop waits for the
\* note that the next move takes.
CallOnScript ==
    /\ running => serial = SerialBefore(IF InCall THEN at + 1 ELSE at)
    /\ running /\ ~InCall => Moved = MovesBefore(at)
    /\ InCall =>
           /\ at <= Len(Script) /\ Script[at][1] \in CallSteps
           /\ call[Demo].op = Script[at][1]
           /\ call[Demo].op = "consume" => call[Demo].acct = Script[at][2]
           /\ Moved >= MovesBefore(at) /\ Moved <= MovesBefore(at + 1)
           /\ call[Demo].op = "sync" => pc[Demo] = "sync"
           /\ pc[Demo] \in {"execute", "submit"} =>
                  IsMove(tx[Demo], Moved + 1) /\ Moved < MovesBefore(at + 1)
           /\ pc[Demo] = "apply" => IsMove(tx[Demo], Moved) /\ Moved > MovesBefore(at)
           /\ pc[Demo] \in {"sync", "list", "collect"} /\ call[Demo].op # "sync" =>
                  /\ Moved < MovesBefore(at + 1)
                  /\ Moved \in {1, 3, 5}
                  /\ Poller(Demo) = Moves[Moved + 1].acct

CaughtUp ==
    /\ running => \A a \in Accounts :
           local[a] = IF pc[Demo] = "apply" /\ a = tx[Demo].acct THEN Nonce(a) - 1 ELSE Nonce(a)
    /\ pc[Demo] = "apply" => tx[Demo].nonce + 1 = Nonce(tx[Demo].acct)

TablesBefore(i) == IF i <= 16 THEN 0 ELSE IF i <= 21 THEN 1 ELSE IF i <= 25 THEN 2 ELSE 3
ReadsBefore(i)  == IF i \in {15, 20, 24} THEN 1 ELSE IF i \in {16, 21, 25} THEN 2 ELSE 0

ShownOnScript ==
    /\ shown \in Seq(Seq(Int)) /\ Len(shown) = TablesBefore(at)
    /\ \A i \in 1 .. Len(shown) : shown[i] = Documented[i]
    /\ reads \in Seq(Int) /\ Len(reads) = ReadsBefore(at)
    /\ \A j \in 1 .. Len(reads) : reads[j] = Documented[Len(shown) + 1][j]
    /\ at = Len(Script) + 1 => Moved = 6

FirstOf(n) == {<<Issuer, WalletA, WalletB>>[k] : k \in {j \in 1 .. 3 : j <= n}}

KeysOnScript ==
    /\ running => registered = FirstOf(at - 1) /\ stored = FirstOf(at - 4) /\ tracked = FirstOf(at - 8)
    /\ running => Len(signed) = IF pc[Demo] = "submit" THEN Moved + 1 ELSE Moved
    /\ \A i \in 1 .. Len(signed) : i <= 6 /\ signed[i] = Moves[i].acct

NotLaunched ==
    /\ pc[Demo] = "idle" /\ Moved = 0 /\ serial = 0 /\ local = [a \in Accounts |-> 0]
    /\ registered = {} /\ dirVars = <<{}, {}>> /\ signed = <<>>

DemoInv ==
    /\ DemoTypeOK
    /\ LogsAsPlayed /\ CallOnScript /\ CaughtUp /\ ShownOnScript /\ KeysOnScript
    /\ running => at >= 1
    /\ at = 0 => NotLaunched

-----------------------------------------------------------------------------
(* The script, the moves and their notes *)

LEMMA DemoConstants ==
    /\ Procs = {Demo} /\ Accounts = {Issuer, WalletA, WalletB}
    /\ Issuer # WalletA /\ Issuer # WalletB /\ WalletA # WalletB
BY NotesAssumption, FullDemoAssumption DEF Accounts

LEMMA ScriptHeads ==
    /\ Len(Script) = 25
    /\ Script[1][1] = "register" /\ Script[2][1] = "register" /\ Script[3][1] = "register"
    /\ Script[4][1] = "add_key" /\ Script[5][1] = "add_key" /\ Script[6][1] = "add_key"
    /\ Script[7][1] = "sync" /\ Script[8][1] = "add_account" /\ Script[9][1] = "add_account"
    /\ Script[10][1] = "add_account" /\ Script[11][1] = "sync" /\ Script[12][1] = "mint"
    /\ Script[13][1] = "consume" /\ Script[14][1] = "supply" /\ Script[15][1] = "balance"
    /\ Script[16][1] = "balance" /\ Script[17][1] = "transfer" /\ Script[18][1] = "consume"
    /\ Script[19][1] = "supply" /\ Script[20][1] = "balance" /\ Script[21][1] = "balance"
    /\ Script[22][1] = "burn" /\ Script[23][1] = "supply" /\ Script[24][1] = "balance"
    /\ Script[25][1] = "balance"
BY DEF Script, Setup, Mint, print_state, Transfer, Burn

LEMMA ScriptArgs ==
    /\ Script[1][2] = Issuer /\ Script[2][2] = WalletA /\ Script[3][2] = WalletB
    /\ Script[4][2] = Issuer /\ Script[5][2] = WalletA /\ Script[6][2] = WalletB
    /\ Script[8][2] = Issuer /\ Script[9][2] = WalletA /\ Script[10][2] = WalletB
    /\ Script[13][2] = WalletA /\ Script[15][2] = WalletA /\ Script[16][2] = WalletB
    /\ Script[18][2] = WalletB /\ Script[20][2] = WalletA /\ Script[21][2] = WalletB
    /\ Script[24][2] = WalletA /\ Script[25][2] = WalletB
    /\ Script[12] = <<"mint", WalletA, 1000>>
    /\ Script[17] = <<"transfer", WalletA, WalletB, 300>>
    /\ Script[22] = <<"burn", WalletB, 100>>
BY DEF Script, Setup, Mint, print_state, Transfer, Burn

\* Where each kind of statement stands in the script.
LEMMA Positions ==
    ASSUME NEW i \in 1 .. 25
    PROVE  /\ Script[i][1] = "register"    <=> i \in 1 .. 3
           /\ Script[i][1] = "add_key"     <=> i \in 4 .. 6
           /\ Script[i][1] = "add_account" <=> i \in 8 .. 10
           /\ Script[i][1] = "sync"        <=> i \in {7, 11}
           /\ Script[i][1] = "mint"        <=> i = 12
           /\ Script[i][1] = "consume"     <=> i \in {13, 18}
           /\ Script[i][1] = "transfer"    <=> i = 17
           /\ Script[i][1] = "burn"        <=> i = 22
           /\ Script[i][1] = "supply"      <=> i \in {14, 19, 23}
           /\ Script[i][1] = "balance"     <=> i \in {15, 16, 20, 21, 24, 25}
<1>1. i \in 1 .. 12 \/ i \in 13 .. 25
  OBVIOUS
<1>2. CASE i \in 1 .. 12
  BY <1>2, ScriptHeads
<1>3. CASE i \in 13 .. 25
  BY <1>3, ScriptHeads
<1> QED
  BY <1>1, <1>2, <1>3

LEMMA MoveIs ==
    /\ Moves[1] = Creates(Issuer, Minted)       /\ Moves[2] = Takes(Minted)
    /\ Moves[3] = Creates(WalletA, Transferred) /\ Moves[4] = Takes(Transferred)
    /\ Moves[5] = Creates(WalletB, Burned)      /\ Moves[6] = Takes(Burned)
    /\ Moves[1].acct = Issuer  /\ Moves[2].acct = WalletA /\ Moves[3].acct = WalletA
    /\ Moves[4].acct = WalletB /\ Moves[5].acct = WalletB /\ Moves[6].acct = Issuer
BY DEF Moves, Creates, Takes, Minted, Transferred, Burned

\* The node accepts the next move.
LEMMA PlayMove ==
    ASSUME TypeOK, LogsAsPlayed, NEW t \in Requests, IsMove(t, Moved + 1), Accept(t)
    PROVE  /\ LogsAsPlayed' /\ Moved' = Moved + 1
           /\ \A a \in Accounts : Nonce(a)' = IF a = t.acct THEN Nonce(a) + 1 ELSE Nonce(a)
<1>1. t.acct \in Accounts /\ Moved \in 0 .. 5 /\ t.acct = Moves[Moved + 1].acct
  BY DEF Requests, LogsAsPlayed, IsMove
<1>2. \A a \in Accounts : log[a] \in Seq(Effects)
  BY DEF TypeOK
<1>3. /\ \A a \in Accounts : Nonce(a)' = IF a = t.acct THEN Nonce(a) + 1 ELSE Nonce(a)
      /\ \A a \in Accounts : \A i \in 1 .. Nonce(a) : log'[a][i] = log[a][i]
      /\ log'[t.acct][Nonce(t.acct) + 1] = [ins |-> t.ins, outs |-> t.outs]
  BY <1>1, <1>2 DEF Accept, Nonce, TypeOK
<1>4. \A a \in Accounts : Nonce(a) \in Nat
  BY <1>2 DEF Nonce
<1>5. Moved' = Moved + 1
  BY <1>1, <1>3, <1>4, DemoConstants DEF Moved
<1>6. \A a \in Accounts : Nonce(a) = NonceAfter(a, Moved)
  BY DEF LogsAsPlayed
<1>7. \A a \in Accounts : Nonce(a)' = NonceAfter(a, Moved + 1)
  BY <1>1, <1>3, <1>6, DemoConstants, MoveIs DEF NonceAfter, Turns
<1>8. Turns(t.acct)[Nonce(t.acct) + 1] = Moved + 1
  BY <1>1, <1>6, DemoConstants, MoveIs DEF NonceAfter, Turns
<1>9. ASSUME NEW a \in Accounts, NEW i \in 1 .. Nonce(a)'
      PROVE  log'[a][i] = [ins |-> Moves[Turns(a)[i]].ins, outs |-> Moves[Turns(a)[i]].outs]
  <2>1. CASE i \in 1 .. Nonce(a)
    BY <1>3, <2>1 DEF LogsAsPlayed
  <2>2. CASE i \notin 1 .. Nonce(a)
    <3>1. a = t.acct /\ i = Nonce(t.acct) + 1
      BY <1>1, <1>3, <1>4, <2>2
    <3> QED
      BY <1>3, <1>8, <3>1 DEF IsMove
  <2> QED
    BY <2>1, <2>2
<1> QED
  BY <1>1, <1>3, <1>5, <1>7, <1>9 DEF LogsAsPlayed

\* The notes of the first transactions of an account.
LEMMA NotesUpTo ==
    ASSUME NEW a
    PROVE  /\ OutsUpTo(a, 0) = {} /\ InsUpTo(a, 0) = {}
           /\ OutsUpTo(a, 1) = log[a][1].outs /\ InsUpTo(a, 1) = log[a][1].ins
           /\ OutsUpTo(a, 2) = log[a][1].outs \cup log[a][2].outs
           /\ InsUpTo(a, 2) = log[a][1].ins \cup log[a][2].ins
<1>1. 1 .. 0 = {} /\ 1 .. 1 = {1} /\ 1 .. 2 = {1, 2}
  OBVIOUS
<1> QED
  BY <1>1 DEF OutsUpTo, InsUpTo

LEMMA TurnNotes ==
    ASSUME LogsAsPlayed, NEW a \in Accounts
    PROVE  LET t == Turns(a) IN
           /\ OutsUpTo(a, Nonce(a)) = (IF Moved < t[1] THEN {} ELSE Moves[t[1]].outs)
                                         \cup (IF Moved < t[2] THEN {} ELSE Moves[t[2]].outs)
           /\ InsUpTo(a, Nonce(a)) = (IF Moved < t[1] THEN {} ELSE Moves[t[1]].ins)
                                         \cup (IF Moved < t[2] THEN {} ELSE Moves[t[2]].ins)
<1>1. /\ Nonce(a) = NonceAfter(a, Moved) /\ Moved \in 0 .. 6
      /\ \A i \in 1 .. Nonce(a) : /\ log[a][i].ins = Moves[Turns(a)[i]].ins
                                  /\ log[a][i].outs = Moves[Turns(a)[i]].outs
  <2>1. ASSUME NEW i \in 1 .. Nonce(a)
        PROVE  log[a][i].ins = Moves[Turns(a)[i]].ins /\ log[a][i].outs = Moves[Turns(a)[i]].outs
    <3>1. log[a][i] = [ins |-> Moves[Turns(a)[i]].ins, outs |-> Moves[Turns(a)[i]].outs]
      BY DEF LogsAsPlayed
    <3> QED
      BY <3>1
  <2> QED
    BY <2>1 DEF LogsAsPlayed
<1>2. Turns(a)[1] \in Nat /\ Turns(a)[2] \in Nat /\ Turns(a)[1] < Turns(a)[2]
  BY DEF Turns
<1>3. CASE Moved < Turns(a)[1]
  <2>1. Nonce(a) = 0 /\ Moved < Turns(a)[2]
    BY <1>1, <1>2, <1>3 DEF NonceAfter
  <2> QED
    BY <1>3, <2>1, NotesUpTo
<1>4. CASE Moved >= Turns(a)[1] /\ Moved < Turns(a)[2]
  <2>1. Nonce(a) = 1
    BY <1>1, <1>2, <1>4 DEF NonceAfter
  <2> QED
    BY <1>1, <1>2, <1>4, <2>1, NotesUpTo
<1>5. CASE Moved >= Turns(a)[2]
  <2>1. Nonce(a) = 2
    BY <1>1, <1>2, <1>5 DEF NonceAfter
  <2>2. /\ log[a][1].ins = Moves[Turns(a)[1]].ins /\ log[a][1].outs = Moves[Turns(a)[1]].outs
        /\ log[a][2].ins = Moves[Turns(a)[2]].ins /\ log[a][2].outs = Moves[Turns(a)[2]].outs
    BY <1>1, <2>1
  <2>3. ~(Moved < Turns(a)[1]) /\ ~(Moved < Turns(a)[2])
    BY <1>1, <1>2, <1>5
  <2> QED
    BY <2>1, <2>2, <2>3, NotesUpTo
<1> QED
  BY <1>1, <1>2, <1>3, <1>4, <1>5

LEMMA NotesOfAccounts ==
    ASSUME LogsAsPlayed
    PROVE  /\ OutsUpTo(Issuer, Nonce(Issuer)) = IF Moved < 1 THEN {} ELSE {Minted}
           /\ InsUpTo(Issuer, Nonce(Issuer)) = IF Moved < 6 THEN {} ELSE {Burned}
           /\ OutsUpTo(WalletA, Nonce(WalletA)) = IF Moved < 3 THEN {} ELSE {Transferred}
           /\ InsUpTo(WalletA, Nonce(WalletA)) = IF Moved < 2 THEN {} ELSE {Minted}
           /\ OutsUpTo(WalletB, Nonce(WalletB)) = IF Moved < 5 THEN {} ELSE {Burned}
           /\ InsUpTo(WalletB, Nonce(WalletB)) = IF Moved < 4 THEN {} ELSE {Transferred}
<1>1. /\ Turns(Issuer)[1] = 1 /\ Turns(Issuer)[2] = 6
      /\ Turns(WalletA)[1] = 2 /\ Turns(WalletA)[2] = 3
      /\ Turns(WalletB)[1] = 4 /\ Turns(WalletB)[2] = 5
  BY DemoConstants DEF Turns
<1>2. /\ Moves[1].ins = {} /\ Moves[1].outs = {Minted}
      /\ Moves[2].ins = {Minted} /\ Moves[2].outs = {}
      /\ Moves[3].ins = {} /\ Moves[3].outs = {Transferred}
      /\ Moves[4].ins = {Transferred} /\ Moves[4].outs = {}
      /\ Moves[5].ins = {} /\ Moves[5].outs = {Burned}
      /\ Moves[6].ins = {Burned} /\ Moves[6].outs = {}
  BY MoveIs DEF Creates, Takes
<1>3. Issuer \in Accounts /\ WalletA \in Accounts /\ WalletB \in Accounts
  BY DemoConstants
<1>4. /\ OutsUpTo(Issuer, Nonce(Issuer)) = IF Moved < 1 THEN {} ELSE {Minted}
      /\ InsUpTo(Issuer, Nonce(Issuer)) = IF Moved < 6 THEN {} ELSE {Burned}
  BY <1>1, <1>2, <1>3, TurnNotes
<1>5. /\ OutsUpTo(WalletA, Nonce(WalletA)) = IF Moved < 3 THEN {} ELSE {Transferred}
      /\ InsUpTo(WalletA, Nonce(WalletA)) = IF Moved < 2 THEN {} ELSE {Minted}
  BY <1>1, <1>2, <1>3, TurnNotes
<1>6. /\ OutsUpTo(WalletB, Nonce(WalletB)) = IF Moved < 5 THEN {} ELSE {Burned}
      /\ InsUpTo(WalletB, Nonce(WalletB)) = IF Moved < 4 THEN {} ELSE {Transferred}
  BY <1>1, <1>2, <1>3, TurnNotes
<1> QED
  BY <1>4, <1>5, <1>6

\* The notes that exist are those of the script; all are taken at the end.
LEMMA NotesOfScript ==
    ASSUME LogsAsPlayed
    PROVE  /\ Created \subseteq {Minted, Transferred, Burned}
           /\ Moved = 6 => Created = Nullified
<1>1. /\ Created = OutsUpTo(Issuer, Nonce(Issuer)) \cup OutsUpTo(WalletA, Nonce(WalletA))
                       \cup OutsUpTo(WalletB, Nonce(WalletB))
      /\ Nullified = InsUpTo(Issuer, Nonce(Issuer)) \cup InsUpTo(WalletA, Nonce(WalletA))
                       \cup InsUpTo(WalletB, Nonce(WalletB))
  BY DemoConstants DEF Created, Nullified
<1> QED
  BY <1>1, NotesOfAccounts DEF LogsAsPlayed

\* What the documents show after the deposit, the transfer and the burn is
\* what the accounts hold after two, four and six moves.
LEMMA Holdings ==
    ASSUME TypeOK, LogsAsPlayed, Moved \in {2, 4, 6}
    PROVE  LET row == Documented[IF Moved = 2 THEN 1 ELSE IF Moved = 4 THEN 2 ELSE 3] IN
           /\ IssuanceAt(Nonce(Issuer)) = row[1]
           /\ BalanceAt(WalletA, Nonce(WalletA)) = row[2]
           /\ BalanceAt(WalletB, Nonce(WalletB)) = row[3]
<1>1. \A a \in Accounts : OutsUpTo(a, Nonce(a)) \in SUBSET NoteSet
  BY CreatedNotes DEF Created
<1>2. /\ Value({Minted}) = 1000
      /\ Moved > 2 => Value({Transferred}) = 300
      /\ Moved > 4 => Value({Burned}) = 100
  <2>1. /\ Minted \in NoteSet
        /\ Moved > 2 => Transferred \in NoteSet
        /\ Moved > 4 => Burned \in NoteSet
    BY <1>1, DemoConstants, NotesOfAccounts
  <2>2. Minted.amount = 1000 /\ Transferred.amount = 300 /\ Burned.amount = 100
    BY DEF Minted, Transferred, Burned
  <2> QED
    BY <2>1, <2>2, ValueSingleton
<1>3. Documented[1] = <<1000, 1000, 0>> /\ Documented[2] = <<1000, 700, 300>>
      /\ Documented[3] = <<900, 700, 200>>
  BY DEF Documented
<1> QED
  BY <1>2, <1>3, ValueEmpty, NotesOfAccounts DEF IssuanceAt, BalanceAt

-----------------------------------------------------------------------------
(* The calls of the script *)

DInv == IStore /\ DemoInv

LEMMA TypesOfInv ==
    ASSUME DInv
    PROVE  /\ TypeOK /\ LogsAsPlayed /\ at \in 0 .. 26 /\ Demo \in Procs
           /\ \A a \in Accounts : Nonce(a) \in Nat
           /\ tx[Demo] \in Requests /\ tx[Demo].acct \in Accounts
           /\ (InCall => running) /\ (running => at \in 1 .. 26)
<1>1. TypeOK /\ LogsAsPlayed
  BY DEF DInv, DemoInv, IStore, TypeInv
<1>2. Demo \in Procs /\ at \in 0 .. 26
  BY FullDemoAssumption, ScriptHeads DEF DInv, DemoInv, DemoTypeOK
<1>3. \A a \in Accounts : Nonce(a) \in Nat
  BY <1>1 DEF TypeOK, Nonce
<1>4. tx[Demo] \in Requests /\ tx[Demo].acct \in Accounts
  BY <1>1, <1>2 DEF TypeOK, Requests
<1>5. (InCall => running) /\ (running => at \in 1 .. 26)
  <2>1. (pc[Demo] \in Steps => running) /\ (running => at >= 1)
    BY DEF DInv, DemoInv, DemoTypeOK
  <2> QED
    BY <1>2, <2>1 DEF InCall
<1> QED
  BY <1>1, <1>2, <1>3, <1>4, <1>5

\* A call in progress is the one of the statement main waits for.
CallKind ==
    \/ at \in {7, 11} /\ call[Demo].op = "sync" /\ pc[Demo] = "sync" /\ Moved = 0
    \/ at = 12 /\ call[Demo].op = "mint" /\ Moved \in {0, 1}
    \/ at = 13 /\ call[Demo].op = "consume" /\ Moved \in {1, 2}
    \/ at = 17 /\ call[Demo].op = "transfer" /\ Moved \in {2, 3}
    \/ at = 18 /\ call[Demo].op = "consume" /\ Moved \in {3, 4}
    \/ at = 22 /\ call[Demo].op = "burn" /\ Moved \in {4, 5, 6}

LEMMA InCallFacts ==
    ASSUME DInv, InCall
    PROVE  running /\ CallKind
<1>1. running /\ Moved \in 0 .. 6 /\ at \in 1 .. 25
  BY TypesOfInv, ScriptHeads DEF DInv, DemoInv, CallOnScript, LogsAsPlayed
<1>2. /\ call[Demo].op = Script[at][1] /\ Script[at][1] \in CallSteps
      /\ Moved >= MovesBefore(at) /\ Moved <= MovesBefore(at + 1)
      /\ call[Demo].op = "sync" => pc[Demo] = "sync"
  BY DEF DInv, DemoInv, CallOnScript
<1>3. /\ at \in {7, 11} => call[Demo].op = "sync"
      /\ at = 12 => call[Demo].op = "mint"
      /\ at \in {13, 18} => call[Demo].op = "consume"
      /\ at = 17 => call[Demo].op = "transfer"
      /\ at = 22 => call[Demo].op = "burn"
  BY <1>1, <1>2, Positions
<1>4. at \in {7, 11, 12, 13, 17, 18, 22}
  BY <1>1, <1>2, Positions DEF CallSteps
<1>5. /\ at \in {7, 11} => Moved = 0
      /\ at = 12 => Moved \in {0, 1}
      /\ at = 13 => Moved \in {1, 2}
      /\ at = 17 => Moved \in {2, 3}
      /\ at = 18 => Moved \in {3, 4}
      /\ at = 22 => Moved \in {4, 5, 6}
  BY <1>1, <1>2, <1>4 DEF MovesBefore
<1> QED
  BY <1>1, <1>2, <1>3, <1>4, <1>5 DEF CallKind

\* The node takes the next move of the script or stays as it is.
LEMMA LogInCall ==
    ASSUME DInv, StepCall(Demo) \/ Disturb(Demo)
    PROVE  /\ InCall /\ LogsAsPlayed'
           /\ \/ log' = log /\ Moved' = Moved /\ \A a \in Accounts : Nonce(a)' = Nonce(a)
              \/ /\ pc[Demo] = "submit" /\ pc'[Demo] \in {"apply", "err"} /\ Moved' = Moved + 1
                 /\ \A a \in Accounts :
                        Nonce(a)' = IF a = tx[Demo].acct THEN Nonce(a) + 1 ELSE Nonce(a)
<1>1. InCall
  BY DEF StepCall, Disturb, Execute, ExecuteFails, Submit, Reject, Apply, Sync, ListFinds,
     ListEmpty, GiveUp, Collect, CollectEmpty, SignerFails, AckLost, RpcFails, Crash,
     Fail, Return, InCall, Steps
<1>2. CASE Submit(Demo) \/ AckLost(Demo)
  <2>1. /\ pc[Demo] = "submit" /\ Accept(tx[Demo]) /\ pc'[Demo] \in {"apply", "err"}
    BY <1>2, TypesOfInv DEF Submit, AckLost, Fail, Return, Goto, TypeOK
  <2>2. IsMove(tx[Demo], Moved + 1)
    BY <1>1, <2>1 DEF DInv, DemoInv, CallOnScript
  <2> QED
    BY <1>1, <2>1, <2>2, PlayMove, TypesOfInv
<1>3. CASE ~(Submit(Demo) \/ AckLost(Demo))
  <2>1. log' = log
    BY <1>3 DEF StepCall, Disturb, Execute, ExecuteFails, Reject, Apply, Sync, ListFinds,
       ListEmpty, GiveUp, Collect, CollectEmpty, SignerFails, RpcFails, Crash, nodeVars
  <2> QED
    BY <1>1, <2>1, TypesOfInv DEF LogsAsPlayed, Moved, Nonce
<1> QED
  BY <1>2, <1>3

\* A call that fails, or whose process is killed, ends the demo.
LEMMA CallEnds ==
    ASSUME DInv, RunOperation, pc'[Demo] \in {"err", "idle"}
    PROVE  DemoInv'
<1>1. /\ InCall /\ LogsAsPlayed' /\ (log' = log => Moved' = Moved)
  BY LogInCall DEF RunOperation, Moved, Nonce
<1>2. /\ ~InCall' /\ running' = FALSE /\ at' = at /\ signed' = signed
      /\ registered' = registered /\ shown' = shown /\ reads' = reads
      /\ stored' \in {stored, {}} /\ tracked' \in {tracked, {}}
  BY DEF RunOperation, RemoveTempDir, dirVars, Signs, InCall, Steps
<1>3. at \in 1 .. 22
  BY <1>1, InCallFacts DEF CallKind
<1>4. DemoTypeOK'
  BY <1>2 DEF DInv, DemoInv, DemoTypeOK, InCall
<1>5. CallOnScript' /\ CaughtUp'
  BY <1>2 DEF CallOnScript, CaughtUp, InCall, Steps
<1>6. ShownOnScript'
  <2>1. at # Len(Script) + 1 /\ at' # Len(Script) + 1
    BY <1>2, <1>3, ScriptHeads
  <2> QED
    BY <1>2, <2>1 DEF DInv, DemoInv, ShownOnScript
<1>7. KeysOnScript'
  BY <1>2 DEF DInv, DemoInv, KeysOnScript
<1> QED
  BY <1>1, <1>2, <1>3, <1>4, <1>5, <1>6, <1>7 DEF DemoInv

\* A step of a call that is not over, or over with Ok: the parts of DemoInv
\* that speak of the position, of what is shown and of what is kept.
LEMMA CallStays ==
    ASSUME DInv, RunOperation, pc'[Demo] \in Steps
    PROVE  /\ at' = at /\ running' = TRUE
           /\ UNCHANGED <<registered, stored, tracked, shown, reads>>
           /\ DemoTypeOK' /\ ShownOnScript' /\ (at' = 0 => NotLaunched') /\ at' >= 1
<1>1. at' = at /\ running' = TRUE /\ UNCHANGED <<registered, stored, tracked, shown, reads>>
      /\ signed' \in {signed, Append(signed, tx[Demo].acct)}
  BY DEF RunOperation, dirVars, Steps
<1>2. at \in 1 .. 22
  BY LogInCall, InCallFacts DEF RunOperation, CallKind
<1>3. signed' \in Seq(Accounts)
  <2>1. signed \in Seq(Accounts)
    BY DEF DInv, DemoInv, DemoTypeOK
  <2>2. tx[Demo].acct \in Accounts
    BY TypesOfInv
  <2>3. Append(signed, tx[Demo].acct) \in Seq(Accounts)
    BY <2>1, <2>2
  <2> QED
    BY <1>1, <2>1, <2>3
<1>4. DemoTypeOK'
  BY <1>1, <1>3 DEF DInv, DemoInv, DemoTypeOK
<1>5. ShownOnScript'
  <2>1. at # Len(Script) + 1 /\ at' # Len(Script) + 1
    BY <1>1, <1>2, ScriptHeads
  <2> QED
    BY <1>1, <2>1 DEF DInv, DemoInv, ShownOnScript
<1> QED
  BY <1>1, <1>2, <1>4, <1>5

LEMMA CallReturns ==
    ASSUME DInv, RunOperation, pc'[Demo] = "ok"
    PROVE  /\ at' = at + 1 /\ running' = TRUE /\ InCall /\ ~InCall'
           /\ UNCHANGED <<registered, stored, tracked, shown, reads, signed>>
<1>1. pc'[Demo] \notin Steps
  BY DEF Steps
<1> QED
  BY <1>1, LogInCall DEF RunOperation, Signs, dirVars, InCall

\* When a call returns Ok its moves are made.
LEMMA CallDone ==
    ASSUME DInv, RunOperation, pc'[Demo] = "ok", Moved' = MovesBefore(at + 1),
           LogsAsPlayed', serial' = serial, \A a \in Accounts : local'[a] = Nonce(a)',
           Len(signed) = Moved'
    PROVE  DemoInv'
<1>1. at' = at + 1 /\ running' = TRUE /\ InCall /\ ~InCall'
      /\ UNCHANGED <<registered, stored, tracked, shown, reads, signed>>
  BY CallReturns
<1>2. CallKind /\ running
  BY <1>1, InCallFacts
<1>3. at \in {7, 11, 12, 13, 17, 18, 22}
  BY <1>2 DEF CallKind
<1>4. DemoTypeOK'
  <2>1. at' \in 0 .. Len(Script) + 1
    BY <1>1, <1>3, ScriptHeads
  <2> QED
    BY <1>1, <2>1 DEF DInv, DemoInv, DemoTypeOK, InCall
<1>5. CallOnScript'
  BY <1>1, <1>2 DEF DInv, DemoInv, CallOnScript, InCall, Steps
<1>6. CaughtUp'
  BY DEF CaughtUp
<1>7. ShownOnScript'
  <2>1. at' # Len(Script) + 1
    <3>1. Len(Script) = 25
      BY ScriptHeads
    <3> QED
      BY <1>1, <1>3, <3>1
  <2>2. TablesBefore(at + 1) = TablesBefore(at)
    BY <1>3 DEF TablesBefore
  <2>3. ReadsBefore(at + 1) = ReadsBefore(at)
    BY <1>3 DEF ReadsBefore
  <2> QED
    BY <1>1, <2>1, <2>2, <2>3 DEF DInv, DemoInv, ShownOnScript
<1>8. KeysOnScript'
  <2>1. FirstOf(at) = FirstOf(at - 1) /\ FirstOf(at - 3) = FirstOf(at - 4)
        /\ FirstOf(at - 7) = FirstOf(at - 8)
    BY <1>3 DEF FirstOf
  <2>2. registered = FirstOf(at - 1) /\ stored = FirstOf(at - 4) /\ tracked = FirstOf(at - 8)
        /\ \A i \in 1 .. Len(signed) : i <= 6 /\ signed[i] = Moves[i].acct
    BY <1>2 DEF DInv, DemoInv, KeysOnScript
  <2>3. at' - 1 = at /\ at' - 4 = at - 3 /\ at' - 8 = at - 7
    BY <1>1, <1>3
  <2>4. registered' = FirstOf(at' - 1) /\ stored' = FirstOf(at' - 4) /\ tracked' = FirstOf(at' - 8)
    BY <1>1, <2>1, <2>2, <2>3
  <2> QED
    BY <1>1, <2>2, <2>4 DEF KeysOnScript
<1> QED
  BY <1>1, <1>3, <1>4, <1>5, <1>6, <1>7, <1>8 DEF DemoInv

LEMMA DemoExecute ==
    ASSUME DInv, RunOperation, Execute(Demo)
    PROVE  DemoInv'
<1>1. /\ pc[Demo] = "execute" /\ pc'[Demo] = "submit" /\ InCall /\ InCall' /\ Signs
      /\ tx'[Demo] = OnLocalState(tx[Demo])
      /\ UNCHANGED <<log, local, call, serial>>
  BY TypesOfInv DEF Execute, Goto, TypeOK, InCall, Steps, Signs, nodeVars, storeVars
<1>2. /\ at' = at /\ running' = TRUE /\ UNCHANGED <<registered, stored, tracked, shown, reads>>
      /\ DemoTypeOK' /\ ShownOnScript' /\ (at' = 0 => NotLaunched') /\ at' >= 1
  BY <1>1, CallStays DEF InCall
<1>3. LogsAsPlayed' /\ Moved' = Moved /\ (\A a \in Accounts : Nonce(a)' = Nonce(a)) /\ running
  BY <1>1, LogInCall, InCallFacts DEF RunOperation, StepCall
<1>4. signed' = Append(signed, tx[Demo].acct)
  BY <1>1 DEF RunOperation
<1>5. IsMove(tx[Demo], Moved + 1) /\ Moved < MovesBefore(at + 1)
  BY <1>1 DEF DInv, DemoInv, CallOnScript
<1>6. CallOnScript'
  <2>1. IsMove(tx'[Demo], Moved + 1)
    BY <1>1, <1>5 DEF IsMove, OnLocalState
  <2> QED
    BY <1>1, <1>2, <1>3, <1>5, <2>1 DEF DInv, DemoInv, CallOnScript
<1>7. CaughtUp'
  BY <1>1, <1>2, <1>3 DEF DInv, DemoInv, CaughtUp
<1>8. KeysOnScript'
  <2>1. /\ registered = FirstOf(at - 1) /\ stored = FirstOf(at - 4) /\ tracked = FirstOf(at - 8)
        /\ Len(signed) = Moved /\ \A i \in 1 .. Len(signed) : i <= 6 /\ signed[i] = Moves[i].acct
    BY <1>1, <1>3 DEF DInv, DemoInv, KeysOnScript
  <2>2. signed \in Seq(Accounts) /\ Moved + 1 \in 1 .. 6 /\ tx[Demo].acct = Moves[Moved + 1].acct
    BY <1>5 DEF DInv, DemoInv, DemoTypeOK, IsMove
  <2>3. Len(signed') = Moved + 1 /\ \A i \in 1 .. Len(signed') : i <= 6 /\ signed'[i] = Moves[i].acct
    BY <1>4, <2>1, <2>2
  <2> QED
    BY <1>1, <1>2, <1>3, <2>1, <2>3 DEF KeysOnScript
<1> QED
  BY <1>2, <1>3, <1>6, <1>7, <1>8 DEF DemoInv

LEMMA DemoSubmit ==
    ASSUME DInv, RunOperation, Submit(Demo)
    PROVE  DemoInv'
<1>1. /\ pc[Demo] = "submit" /\ pc'[Demo] = "apply" /\ InCall /\ InCall' /\ ~Signs
      /\ Acceptable(tx[Demo]) /\ Accept(tx[Demo])
      /\ UNCHANGED <<local, call, serial, tx>>
  BY TypesOfInv DEF Submit, Goto, TypeOK, InCall, Steps, Signs, storeVars
<1>2. /\ at' = at /\ running' = TRUE /\ UNCHANGED <<registered, stored, tracked, shown, reads>>
      /\ DemoTypeOK' /\ ShownOnScript' /\ (at' = 0 => NotLaunched') /\ at' >= 1
  BY <1>1, CallStays DEF InCall
<1>3. IsMove(tx[Demo], Moved + 1) /\ Moved < MovesBefore(at + 1) /\ running
  BY <1>1, InCallFacts DEF DInv, DemoInv, CallOnScript
<1>4. /\ LogsAsPlayed' /\ Moved' = Moved + 1 /\ Moved \in 0 .. 5
      /\ \A a \in Accounts : Nonce(a)' = IF a = tx[Demo].acct THEN Nonce(a) + 1 ELSE Nonce(a)
  BY <1>1, <1>3, PlayMove, TypesOfInv DEF LogsAsPlayed, IsMove
<1>5. CallOnScript'
  <2>1. /\ Moved >= MovesBefore(at) /\ MovesBefore(at) \in Nat /\ MovesBefore(at + 1) \in Nat
    BY <1>1 DEF DInv, DemoInv, CallOnScript, MovesBefore
  <2>2. /\ Moved' > MovesBefore(at) /\ Moved' >= MovesBefore(at) /\ Moved' <= MovesBefore(at + 1)
    BY <1>3, <1>4, <2>1
  <2>3. /\ serial = SerialBefore(at + 1)
        /\ at <= Len(Script) /\ Script[at][1] \in CallSteps
        /\ call[Demo].op = Script[at][1]
        /\ call[Demo].op = "consume" => call[Demo].acct = Script[at][2]
        /\ call[Demo].op # "sync"
    BY <1>1, <1>3 DEF DInv, DemoInv, CallOnScript
  <2> QED
    BY <1>1, <1>2, <1>3, <1>4, <2>2, <2>3 DEF CallOnScript
<1>6. CaughtUp'
  <2>1. \A a \in Accounts : local[a] = Nonce(a) /\ Nonce(a) \in Nat
    BY <1>1, <1>3, TypesOfInv DEF DInv, DemoInv, CaughtUp
  <2>2. tx[Demo].nonce = Nonce(tx[Demo].acct) /\ tx[Demo].acct \in Accounts
    BY <1>1, TypesOfInv DEF Acceptable
  <2>3. tx'[Demo].nonce + 1 = Nonce(tx[Demo].acct)'
    BY <1>1, <1>4, <2>2
  <2>4. \A a \in Accounts : local'[a] = IF a = tx'[Demo].acct THEN Nonce(a)' - 1 ELSE Nonce(a)'
    BY <1>1, <1>4, <2>1
  <2> QED
    BY <1>1, <2>3, <2>4 DEF CaughtUp, Nonce
<1>7. KeysOnScript'
  BY <1>1, <1>2, <1>3, <1>4 DEF DInv, DemoInv, KeysOnScript, RunOperation
<1> QED
  BY <1>2, <1>4, <1>5, <1>6, <1>7 DEF DemoInv

\* A step of a call that neither signs nor submits.
LEMMA KeysStay ==
    ASSUME DInv, RunOperation, InCall, Moved' = Moved,
           pc[Demo] # "submit", pc'[Demo] \in Steps, pc'[Demo] # "submit"
    PROVE  KeysOnScript'
<1>1. /\ at' = at /\ running /\ running' = TRUE
      /\ UNCHANGED <<registered, stored, tracked, signed>>
  BY CallStays, InCallFacts DEF RunOperation, Signs
<1> QED
  BY <1>1 DEF DInv, DemoInv, KeysOnScript

LEMMA DemoApply ==
    ASSUME DInv, RunOperation, Apply(Demo)
    PROVE  DemoInv'
<1>1. /\ pc[Demo] = "apply" /\ InCall /\ pc'[Demo] = (IF HasSecondStep(Demo) THEN "sync" ELSE "ok")
      /\ StoreTransaction(Demo, tx[Demo]) /\ UNCHANGED <<log, serial>>
  BY TypesOfInv DEF Apply, Succeed, Return, Goto, TypeOK, InCall, Steps, nodeVars
<1>2. /\ CallKind /\ running /\ LogsAsPlayed' /\ Moved' = Moved
      /\ \A a \in Accounts : Nonce(a)' = Nonce(a)
  BY <1>1, LogInCall, InCallFacts DEF RunOperation, StepCall
<1>3. /\ IsMove(tx[Demo], Moved) /\ Moved > MovesBefore(at) /\ Moved <= MovesBefore(at + 1)
      /\ Len(signed) = Moved
  BY <1>1, <1>2 DEF DInv, DemoInv, CallOnScript, KeysOnScript
<1>4. \A a \in Accounts : local'[a] = Nonce(a)'
  <2>1. tx[Demo].nonce + 1 = Nonce(tx[Demo].acct)
    BY <1>1 DEF DInv, DemoInv, CaughtUp
  <2>2. \A a \in Accounts : local[a] = IF a = tx[Demo].acct THEN Nonce(a) - 1 ELSE Nonce(a)
    BY <1>1, <1>2 DEF DInv, DemoInv, CaughtUp
  <2>3. /\ local' = [local EXCEPT ![tx[Demo].acct] = Later(@, tx[Demo].nonce + 1)]
        /\ local \in [Accounts -> Nat]
    BY <1>1, TypesOfInv DEF StoreTransaction, TypeOK
  <2> QED
    BY <1>2, <2>1, <2>2, <2>3, TypesOfInv DEF Later
<1>5. CASE HasSecondStep(Demo)
  <2>1. /\ pc'[Demo] = "sync" /\ tx'[Demo] = NoTx /\ call' = call /\ InCall'
    BY <1>1, <1>5, TypesOfInv DEF Apply, TypeOK, InCall, Steps
  <2>2. /\ at' = at /\ running' = TRUE /\ UNCHANGED <<registered, stored, tracked, shown, reads>>
        /\ DemoTypeOK' /\ ShownOnScript' /\ (at' = 0 => NotLaunched') /\ at' >= 1
    BY <2>1, CallStays DEF InCall
  <2>3. call[Demo].op = "burn" /\ at = 22 /\ Moved = 5
    <3>1. call[Demo].op = "burn" /\ tx[Demo].outs # {}
      BY <1>5 DEF HasSecondStep
    <3>2. at = 22 /\ Moved \in {4, 5, 6}
      BY <1>2, <3>1 DEF CallKind
    <3>3. Moved # 6
      BY <1>3, <3>1, MoveIs DEF IsMove, Takes
    <3> QED
      BY <1>3, <3>1, <3>2, <3>3 DEF MovesBefore
  <2>4. Poller(Demo)' = Issuer /\ Moves[6].acct = Issuer /\ MovesBefore(23) = 6 /\ MovesBefore(22) = 4
    BY <2>1, <2>3, MoveIs DEF Poller, MovesBefore
  <2>5. /\ serial = SerialBefore(at + 1) /\ at <= Len(Script) /\ Script[at][1] \in CallSteps
        /\ call[Demo].op = Script[at][1]
    BY <1>1, <1>2 DEF DInv, DemoInv, CallOnScript
  <2>6. CallOnScript'
    BY <1>1, <1>2, <2>1, <2>2, <2>3, <2>4, <2>5 DEF CallOnScript
  <2>7. CaughtUp'
    BY <1>4, <2>1 DEF CaughtUp
  <2>8. KeysOnScript'
    BY <1>1, <1>2, <2>1, KeysStay DEF InCall
  <2> QED
    BY <1>2, <2>2, <2>6, <2>7, <2>8 DEF DemoInv
<1>6. CASE ~HasSecondStep(Demo)
  <2>1. Moved = MovesBefore(at + 1)
    <3>1. at = 22 => Moved # 5
      <4>1. at = 22 => call[Demo].op = "burn"
        BY <1>2 DEF CallKind
      <4>2. Moved = 5 => tx[Demo].outs = {Burned}
        BY <1>3, MoveIs DEF IsMove, Creates
      <4> QED
        BY <1>6, <4>1, <4>2 DEF HasSecondStep
    <3> QED
      BY <1>1, <1>2, <1>3, <3>1 DEF CallKind, MovesBefore
  <2> QED
    BY <1>1, <1>2, <1>3, <1>4, <1>6, <2>1, CallDone
<1> QED
  BY <1>5, <1>6

LEMMA DemoSync ==
    ASSUME DInv, RunOperation, Sync(Demo)
    PROVE  DemoInv'
<1>1. /\ pc[Demo] = "sync" /\ InCall /\ pc'[Demo] = (IF call[Demo].op = "sync" THEN "ok" ELSE "list")
      /\ SyncState(Demo) /\ UNCHANGED <<log, serial>>
  BY TypesOfInv DEF Sync, Succeed, Return, Goto, TypeOK, InCall, Steps, nodeVars
<1>2. /\ CallKind /\ running /\ LogsAsPlayed' /\ Moved' = Moved
      /\ \A a \in Accounts : Nonce(a)' = Nonce(a)
  BY <1>1, LogInCall, InCallFacts DEF RunOperation, StepCall
<1>3. \A a \in Accounts : local'[a] = Nonce(a)'
  <2>1. \A a \in Accounts : local[a] = Nonce(a)
    BY <1>1, <1>2 DEF DInv, DemoInv, CaughtUp
  <2>2. \A a \in Accounts : committed[a] \in Nat /\ committed[a] <= Nonce(a) /\ Nonce(a) \in Nat
    BY TypesOfInv DEF DInv, IStore, TypeInv, TypeOK, BlocksBehindNode
  <2>3. \A a \in Accounts : local'[a] \in {local[a], Later(local[a], committed[a])}
    BY <1>1 DEF SyncState
  <2> QED
    BY <1>2, <2>1, <2>2, <2>3 DEF Later
<1>4. Len(signed) = Moved
  BY <1>1, <1>2 DEF DInv, DemoInv, KeysOnScript
<1>5. CASE call[Demo].op = "sync"
  <2>1. Moved = 0 /\ at \in {7, 11}
    BY <1>2, <1>5 DEF CallKind
  <2>2. Moved' = MovesBefore(at + 1)
    BY <1>2, <2>1 DEF MovesBefore
  <2> QED
    BY <1>1, <1>2, <1>3, <1>4, <1>5, <2>2, CallDone
<1>6. CASE call[Demo].op # "sync"
  <2>1. pc'[Demo] = "list" /\ call' = call /\ tx' = tx /\ InCall'
    BY <1>1, <1>6 DEF Sync, InCall, Steps
  <2>2. /\ at' = at /\ running' = TRUE /\ UNCHANGED <<registered, stored, tracked, shown, reads>>
        /\ DemoTypeOK' /\ ShownOnScript' /\ (at' = 0 => NotLaunched') /\ at' >= 1
    BY <2>1, CallStays DEF InCall
  <2>3. CallOnScript'
    BY <1>1, <1>2, <1>6, <2>1, <2>2 DEF DInv, DemoInv, CallOnScript, Poller
  <2>4. CaughtUp'
    BY <1>3, <2>1 DEF CaughtUp
  <2>5. KeysOnScript'
    BY <1>1, <1>2, <2>1, KeysStay DEF InCall
  <2> QED
    BY <1>2, <2>2, <2>3, <2>4, <2>5 DEF DemoInv
<1> QED
  BY <1>5, <1>6

LEMMA DemoList ==
    ASSUME DInv, RunOperation, ListFinds(Demo) \/ ListEmpty(Demo)
    PROVE  DemoInv'
<1>1. /\ pc[Demo] = "list" /\ InCall /\ pc'[Demo] \in {"collect", "sync"} /\ InCall'
      /\ UNCHANGED <<log, local, serial, call, tx>>
  BY TypesOfInv DEF ListFinds, ListEmpty, Goto, TypeOK, InCall, Steps, nodeVars, storeVars
<1>2. /\ running /\ LogsAsPlayed' /\ Moved' = Moved
      /\ \A a \in Accounts : Nonce(a)' = Nonce(a)
  BY <1>1, LogInCall, InCallFacts DEF RunOperation, StepCall
<1>3. /\ at' = at /\ running' = TRUE /\ UNCHANGED <<registered, stored, tracked, shown, reads>>
      /\ DemoTypeOK' /\ ShownOnScript' /\ (at' = 0 => NotLaunched') /\ at' >= 1
  BY <1>1, CallStays DEF InCall
<1>4. CallOnScript'
  BY <1>1, <1>2, <1>3 DEF DInv, DemoInv, CallOnScript, Poller
<1>5. CaughtUp'
  BY <1>1, <1>2 DEF DInv, DemoInv, CaughtUp
<1>6. KeysOnScript'
  BY <1>1, <1>2, KeysStay DEF InCall
<1> QED
  BY <1>2, <1>3, <1>4, <1>5, <1>6 DEF DemoInv

\* What the loop finds is the one note that the next move takes.
LEMMA DemoCollect ==
    ASSUME DInv, RunOperation, Collect(Demo)
    PROVE  DemoInv'
<1>1. /\ pc[Demo] = "collect" /\ InCall /\ pc'[Demo] = "execute" /\ InCall'
      /\ UNCHANGED <<log, local, serial, call>>
  BY TypesOfInv DEF Collect, Goto, TypeOK, InCall, Steps, nodeVars, storeVars
<1>2. /\ running /\ LogsAsPlayed' /\ Moved' = Moved /\ CallKind
      /\ \A a \in Accounts : Nonce(a)' = Nonce(a)
  BY <1>1, LogInCall, InCallFacts DEF RunOperation, StepCall
<1>3. /\ at' = at /\ running' = TRUE /\ UNCHANGED <<registered, stored, tracked, shown, reads>>
      /\ DemoTypeOK' /\ ShownOnScript' /\ (at' = 0 => NotLaunched') /\ at' >= 1
  BY <1>1, CallStays DEF InCall
<1>4. call[Demo].op # "sync" /\ Moved < MovesBefore(at + 1) /\ Moved \in {1, 3, 5}
      /\ Poller(Demo) = Moves[Moved + 1].acct
  BY <1>1, <1>2 DEF DInv, DemoInv, CallOnScript
<1>5. IsMove(tx'[Demo], Moved + 1)
  <2>1. PICK notes \in SUBSET Consumable(Demo) :
            notes # {} /\ tx' = [tx EXCEPT ![Demo] = [acct |-> Poller(Demo), nonce |-> 0,
                                                      ins |-> notes, outs |-> {}]]
    BY DEF Collect, Converted
  <2>2. tx'[Demo] = [acct |-> Poller(Demo), nonce |-> 0, ins |-> notes, outs |-> {}]
    BY <2>1, TypesOfInv DEF TypeOK
  <2>3. \A n \in notes : n \in Created /\ n.target = Moves[Moved + 1].acct
    BY <1>4 DEF Consumable, DInv, IStore, StoreInv, StoreBehindChain
  <2>4. \A n \in notes : n \in {Minted, Transferred, Burned}
    BY <2>3, NotesOfScript, TypesOfInv
  <2>5. Minted.target = WalletA /\ Transferred.target = WalletB /\ Burned.target = Issuer
    BY DEF Minted, Transferred, Burned
  <2>6. CASE Moved = 1
    <3>1. notes = {Minted}
      BY <2>1, <2>3, <2>4, <2>5, <2>6, MoveIs, DemoConstants
    <3> QED
      BY <1>4, <2>2, <2>6, <3>1, MoveIs DEF IsMove, Takes
  <2>7. CASE Moved = 3
    <3>1. notes = {Transferred}
      BY <2>1, <2>3, <2>4, <2>5, <2>7, MoveIs, DemoConstants
    <3> QED
      BY <1>4, <2>2, <2>7, <3>1, MoveIs DEF IsMove, Takes
  <2>8. CASE Moved = 5
    <3>1. notes = {Burned}
      BY <2>1, <2>3, <2>4, <2>5, <2>8, MoveIs, DemoConstants
    <3> QED
      BY <1>4, <2>2, <2>8, <3>1, MoveIs DEF IsMove, Takes
  <2> QED
    BY <1>4, <2>6, <2>7, <2>8
<1>6. CallOnScript'
  BY <1>1, <1>2, <1>3, <1>4, <1>5 DEF DInv, DemoInv, CallOnScript
<1>7. CaughtUp'
  BY <1>1, <1>2 DEF DInv, DemoInv, CaughtUp
<1>8. KeysOnScript'
  BY <1>1, <1>2, KeysStay DEF InCall
<1> QED
  BY <1>2, <1>3, <1>6, <1>7, <1>8 DEF DemoInv

LEMMA DemoOperation ==
    ASSUME DInv, RunOperation
    PROVE  DemoInv'
<1>1. CASE \/ ExecuteFails(Demo) \/ Reject(Demo) \/ GiveUp(Demo) \/ CollectEmpty(Demo) \/ Disturb(Demo)
  <2>1. pc'[Demo] \in {"err", "idle"}
    BY <1>1, TypesOfInv DEF ExecuteFails, Reject, GiveUp, CollectEmpty, Disturb, SignerFails,
       AckLost, RpcFails, Crash, Fail, Return, Goto, TypeOK
  <2> QED
    BY <2>1, CallEnds
<1> QED
  BY <1>1, DemoExecute, DemoSubmit, DemoApply, DemoSync, DemoList, DemoCollect
     DEF RunOperation, StepCall

-----------------------------------------------------------------------------
(* The statements of main *)

\* A call that starts: the account states, the tables and the keys stay.
LEMMA CallStarts ==
    ASSUME DInv, Ready(Demo), running, UNCHANGED demoVars, UNCHANGED <<log, local>>,
           pc'[Demo] \in {"execute", "sync"}, CallOnScript'
    PROVE  DemoInv'
<1>1. /\ UNCHANGED <<at, running, registered, stored, tracked, signed, reads, shown>>
      /\ pc[Demo] \notin {"apply", "submit"} /\ pc'[Demo] \notin {"apply", "submit"}
      /\ at >= 1
  BY TypesOfInv DEF demoVars, dirVars, Ready, Results
<1>2. Moved' = Moved /\ \A a \in Accounts : Nonce(a)' = Nonce(a)
  BY DEF Moved, Nonce
<1>3. LogsAsPlayed'
  BY <1>2, TypesOfInv DEF LogsAsPlayed
<1>4. DemoTypeOK'
  BY <1>1 DEF DInv, DemoInv, DemoTypeOK
<1>5. CaughtUp'
  BY <1>1, <1>2 DEF DInv, DemoInv, CaughtUp
<1>6. ShownOnScript'
  BY <1>1, <1>2 DEF DInv, DemoInv, ShownOnScript
<1>7. KeysOnScript'
  BY <1>1, <1>2 DEF DInv, DemoInv, KeysOnScript
<1> QED
  BY <1>1, <1>3, <1>4, <1>5, <1>6, <1>7 DEF DemoInv

\* Each statement that creates a note creates the one of the next move.
LEMMA NoteStarts ==
    ASSUME DInv, Ready(Demo), running, at \in {12, 17, 22}, NEW op, NEW acct, NEW target, NEW amount,
           CreateNote(Demo, op, acct, target, amount), UNCHANGED demoVars,
           op = Script[at][1],
           LET m == MovesBefore(at) + 1 IN
           Moves[m] = Creates(acct, [id |-> serial + 1, target |-> target, amount |-> amount])
    PROVE  DemoInv'
<1>1. ~InCall /\ Moved = MovesBefore(at) /\ serial = SerialBefore(at)
  BY DEF DInv, DemoInv, CallOnScript, InCall, Ready, Results, Steps
<1>2. /\ UNCHANGED <<log, local, at, running>> /\ serial' = serial + 1
      /\ pc'[Demo] = "execute" /\ call'[Demo].op = op
      /\ tx'[Demo] = [acct |-> acct, nonce |-> 0, ins |-> {},
                      outs |-> {[id |-> serial + 1, target |-> target, amount |-> amount]}]
  BY TypesOfInv DEF CreateNote, Goto, TypeOK, nodeVars, storeVars, demoVars
<1>3. Moved' = Moved /\ InCall'
  BY <1>2 DEF Moved, Nonce, InCall, Steps
<1>4. /\ MovesBefore(at) + 1 \in 1 .. 6 /\ MovesBefore(at) < MovesBefore(at + 1)
      /\ SerialBefore(at + 1) = SerialBefore(at) + 1 /\ SerialBefore(at) \in Nat
  BY DEF MovesBefore, SerialBefore
<1>5. IsMove(tx'[Demo], Moved + 1)
  <2>1. /\ Moves[Moved + 1].acct = acct /\ Moves[Moved + 1].ins = {}
        /\ Moves[Moved + 1].outs = {[id |-> serial + 1, target |-> target, amount |-> amount]}
    BY <1>1 DEF Creates
  <2> QED
    BY <1>1, <1>2, <1>4, <2>1 DEF IsMove
<1>6. op \in {"mint", "transfer", "burn"} /\ op \in CallSteps /\ at <= Len(Script)
  BY ScriptHeads DEF CallSteps
<1>7. CallOnScript'
  <2>1. serial' = SerialBefore(at' + 1)
    BY <1>1, <1>2, <1>4
  <2>2. Moved' >= MovesBefore(at') /\ Moved' < MovesBefore(at' + 1) /\ Moved' <= MovesBefore(at' + 1)
    BY <1>1, <1>2, <1>3, <1>4 DEF MovesBefore
  <2>3. /\ at' <= Len(Script) /\ Script[at'][1] \in CallSteps
        /\ call'[Demo].op = Script[at'][1] /\ call'[Demo].op \notin {"consume", "sync"}
    BY <1>2, <1>6
  <2> QED
    BY <1>2, <1>3, <1>5, <2>1, <2>2, <2>3 DEF CallOnScript
<1> QED
  BY <1>2, <1>7, CallStarts

LEMMA PollStarts ==
    ASSUME DInv, Ready(Demo), running, at \in {7, 11, 13, 18}, NEW acct,
           Poll(Demo, Script[at][1], acct), UNCHANGED demoVars,
           at \in {13, 18} => acct = Script[at][2]
    PROVE  DemoInv'
<1>1. ~InCall /\ Moved = MovesBefore(at) /\ serial = SerialBefore(at)
  BY DEF DInv, DemoInv, CallOnScript, InCall, Ready, Results, Steps
<1>2. /\ UNCHANGED <<log, local, at, running, serial>>
      /\ pc'[Demo] = "sync" /\ call'[Demo] = [op |-> Script[at][1], acct |-> acct, outs |-> {}]
  BY TypesOfInv DEF Poll, Goto, TypeOK, nodeVars, storeVars, demoVars
<1>3. Moved' = Moved /\ InCall'
  BY <1>2 DEF Moved, Nonce, InCall, Steps
<1>4. SerialBefore(at + 1) = SerialBefore(at) /\ MovesBefore(at) <= MovesBefore(at + 1)
  BY DEF MovesBefore, SerialBefore
<1>5. at <= Len(Script) /\ Script[at][1] \in CallSteps
  BY ScriptHeads DEF CallSteps
<1>6. /\ at \in {7, 11} => Script[at][1] = "sync"
      /\ at \in {13, 18} => Script[at][1] = "consume"
  BY ScriptHeads
<1>7. CASE at \in {7, 11}
  <2>1. CallOnScript'
    <3>1. serial' = SerialBefore(at' + 1)
      BY <1>1, <1>2, <1>4
    <3>2. Moved' >= MovesBefore(at') /\ Moved' <= MovesBefore(at' + 1)
      BY <1>1, <1>2, <1>3, <1>7 DEF MovesBefore
    <3>3. /\ at' <= Len(Script) /\ Script[at'][1] \in CallSteps
          /\ call'[Demo].op = Script[at'][1] /\ call'[Demo].op = "sync"
      BY <1>2, <1>5, <1>6, <1>7
    <3> QED
      BY <1>2, <1>3, <3>1, <3>2, <3>3 DEF CallOnScript
  <2> QED
    BY <1>2, <2>1, CallStarts
<1>8. CASE at \in {13, 18}
  <2>1. /\ Moved \in {1, 3} /\ Moved < MovesBefore(at + 1) /\ acct = Moves[Moved + 1].acct
    BY <1>1, <1>8, ScriptArgs, MoveIs DEF MovesBefore
  <2>2. Poller(Demo)' = acct
    BY <1>2, <1>6, <1>8 DEF Poller
  <2>3. serial' = SerialBefore(at' + 1)
    BY <1>1, <1>2, <1>4
  <2>4. Moved' >= MovesBefore(at') /\ Moved' < MovesBefore(at' + 1) /\ Moved' <= MovesBefore(at' + 1)
    BY <1>1, <1>2, <1>3, <1>8, <2>1 DEF MovesBefore
  <2>5. /\ at' <= Len(Script) /\ Script[at'][1] \in CallSteps
        /\ call'[Demo].op = Script[at'][1] /\ call'[Demo].op = "consume"
        /\ call'[Demo].acct = Script[at'][2]
    BY <1>2, <1>5, <1>6, <1>8
  <2>6. Moved' \in {1, 3} /\ Poller(Demo)' = Moves[Moved' + 1].acct
    BY <1>3, <2>1, <2>2
  <2>7. CallOnScript'
    BY <1>2, <1>3, <2>3, <2>4, <2>5, <2>6 DEF CallOnScript
  <2> QED
    BY <1>2, <2>7, CallStarts
<1> QED
  BY <1>7, <1>8

LEMMA DemoStart ==
    ASSUME DInv, StartOperation
    PROVE  DemoInv'
<1>1. Ready(Demo) /\ running /\ at \in 1 .. 25 /\ UNCHANGED demoVars
  BY TypesOfInv, ScriptHeads DEF StartOperation, At
<1>2. ~InCall /\ serial = SerialBefore(at)
  BY <1>1 DEF DInv, DemoInv, CallOnScript, InCall, Ready, Results, Steps
<1>3. CASE At("sync") /\ SyncAndTrack(Demo)
  <2>1. at \in {7, 11} /\ Script[at][1] = "sync"
    BY <1>1, <1>3, Positions DEF At
  <2> QED
    BY <1>1, <1>3, <2>1, PollStarts DEF SyncAndTrack
<1>4. CASE At("mint") /\ MintTokens(Demo, Arg(1), Arg(2))
  <2>1. at = 12 /\ Script[at][1] = "mint"
    BY <1>1, <1>4, Positions DEF At
  <2>2. Arg(1) = WalletA /\ Arg(2) = 1000
    BY <2>1, ScriptArgs DEF Arg
  <2>3. serial = 0 /\ MovesBefore(at) = 0
    BY <1>2, <2>1 DEF SerialBefore, MovesBefore
  <2>4. Moves[1] = Creates(Issuer, [id |-> serial + 1, target |-> WalletA, amount |-> 1000])
    BY <2>3, MoveIs DEF Minted
  <2> QED
    BY <1>1, <1>4, <2>1, <2>2, <2>3, <2>4, NoteStarts DEF MintTokens
<1>5. CASE At("consume") /\ ConsumeNotes(Demo, Arg(1))
  <2>1. at \in {13, 18} /\ Script[at][1] = "consume"
    BY <1>1, <1>5, Positions DEF At
  <2> QED
    BY <1>1, <1>5, <2>1, PollStarts DEF ConsumeNotes, Arg
<1>6. CASE At("transfer") /\ TransferTokens(Demo, Arg(1), Arg(2), Arg(3))
  <2>1. at = 17 /\ Script[at][1] = "transfer"
    BY <1>1, <1>6, Positions DEF At
  <2>2. Arg(1) = WalletA /\ Arg(2) = WalletB /\ Arg(3) = 300
    BY <2>1, ScriptArgs DEF Arg
  <2>3. serial = 1 /\ MovesBefore(at) = 2
    BY <1>2, <2>1 DEF SerialBefore, MovesBefore
  <2>4. Moves[3] = Creates(WalletA, [id |-> serial + 1, target |-> WalletB, amount |-> 300])
    BY <2>3, MoveIs DEF Transferred
  <2> QED
    BY <1>1, <1>6, <2>1, <2>2, <2>3, <2>4, NoteStarts DEF TransferTokens
<1>7. CASE At("burn") /\ BurnTokens(Demo, Arg(1), Arg(2))
  <2>1. at = 22 /\ Script[at][1] = "burn"
    BY <1>1, <1>7, Positions DEF At
  <2>2. Arg(1) = WalletB /\ Arg(2) = 100
    BY <2>1, ScriptArgs DEF Arg
  <2>3. serial = 2 /\ MovesBefore(at) = 4
    BY <1>2, <2>1 DEF SerialBefore, MovesBefore
  <2>4. Moves[5] = Creates(WalletB, [id |-> serial + 1, target |-> Issuer, amount |-> 100])
    BY <2>3, MoveIs DEF Burned
  <2> QED
    BY <1>1, <1>7, <2>1, <2>2, <2>3, <2>4, NoteStarts DEF BurnTokens
<1> QED
  BY <1>3, <1>4, <1>5, <1>6, <1>7 DEF StartOperation

\* A statement that is no call: the node and the stores stay as they are.
LEMMA StatementDone ==
    ASSUME DInv, Advance, running, at \in 1 .. 25, Script[at][1] \notin CallSteps
    PROVE  /\ ~InCall /\ Moved = MovesBefore(at) /\ Moved' = Moved /\ at' = at + 1 /\ running'
           /\ \A a \in Accounts : local[a] = Nonce(a)
           /\ LogsAsPlayed' /\ CallOnScript' /\ CaughtUp'
           /\ (at' = Len(Script) + 1 => Moved' = 6)
           /\ (pc[Demo] # "submit" /\ pc'[Demo] # "submit")
<1>1. ~InCall /\ at' = at + 1 /\ running' /\ UNCHANGED vars
  BY DEF DInv, DemoInv, CallOnScript, Advance
<1>2. UNCHANGED <<log, local, serial, pc, call, tx>>
  BY <1>1 DEF vars, nodeVars, storeVars, procVars
<1>3. /\ Moved' = Moved /\ ~InCall' /\ LogsAsPlayed'
      /\ \A a \in Accounts : Nonce(a)' = Nonce(a)
  BY <1>1, <1>2, TypesOfInv DEF Moved, Nonce, InCall, LogsAsPlayed
<1>4. Moved = MovesBefore(at) /\ serial = SerialBefore(at)
  BY <1>1 DEF DInv, DemoInv, CallOnScript
<1>5. MovesBefore(at + 1) = MovesBefore(at) /\ SerialBefore(at + 1) = SerialBefore(at)
  <2>1. at \notin {12, 13, 17, 18, 22}
    BY Positions DEF CallSteps
  <2> QED
    BY <2>1 DEF MovesBefore, SerialBefore
<1>6. CallOnScript'
  BY <1>1, <1>2, <1>3, <1>4, <1>5 DEF CallOnScript
<1>7. pc[Demo] \notin {"apply", "submit"}
  BY <1>1 DEF InCall, Steps
<1>8. CaughtUp' /\ \A a \in Accounts : local[a] = Nonce(a)
  BY <1>2, <1>3, <1>7 DEF DInv, DemoInv, CaughtUp
<1>9. at' = Len(Script) + 1 => Moved' = 6
  BY <1>1, <1>3, <1>4, ScriptHeads DEF MovesBefore
<1> QED
  BY <1>1, <1>2, <1>3, <1>4, <1>6, <1>7, <1>8, <1>9

LEMMA FirstAccounts ==
    ASSUME NEW n \in Int
    PROVE  FirstOf(n) = IF n <= 0 THEN {} ELSE IF n = 1 THEN {Issuer}
                        ELSE IF n = 2 THEN {Issuer, WalletA} ELSE {Issuer, WalletA, WalletB}
<1>1. {j \in 1 .. 3 : j <= n} = IF n <= 0 THEN {} ELSE IF n = 1 THEN {1}
                                ELSE IF n = 2 THEN {1, 2} ELSE {1, 2, 3}
  OBVIOUS
<1> QED
  BY <1>1 DEF FirstOf

LEMMA FirstStays ==
    ASSUME NEW n \in Int, n \notin 1 .. 3
    PROVE  FirstOf(n) = FirstOf(n - 1)
<1>1. n - 1 \in Int
  OBVIOUS
<1>2. CASE n <= 0
  <2>1. FirstOf(n) = {}
    BY <1>2, FirstAccounts
  <2>2. FirstOf(n - 1) = {}
    BY <1>1, <1>2, FirstAccounts
  <2> QED
    BY <2>1, <2>2
<1>3. CASE n >= 4
  <2>1. FirstOf(n) = {Issuer, WalletA, WalletB}
    BY <1>3, FirstAccounts
  <2>2. FirstOf(n - 1) = {Issuer, WalletA, WalletB}
    BY <1>1, <1>3, FirstAccounts
  <2> QED
    BY <2>1, <2>2
<1> QED
  BY <1>2, <1>3

LEMMA DemoKeys ==
    ASSUME DInv, RegisterKey \/ AddKey \/ AddAccount
    PROVE  DemoInv'
<1>1. /\ running /\ at \in 1 .. 25 /\ Advance /\ Script[at][1] \notin CallSteps
      /\ UNCHANGED <<signed, reads, shown>>
  BY TypesOfInv, ScriptHeads DEF RegisterKey, AddKey, AddAccount, At, CallSteps
<1>2. /\ ~InCall /\ Moved = MovesBefore(at) /\ Moved' = Moved /\ at' = at + 1 /\ running'
      /\ LogsAsPlayed' /\ CallOnScript' /\ CaughtUp'
      /\ pc[Demo] # "submit" /\ pc'[Demo] # "submit"
  BY <1>1, StatementDone
<1>3. \/ RegisterKey /\ at \in 1 .. 3 /\ Arg(1) = Script[at][2]
      \/ AddKey /\ at \in 4 .. 6 /\ Arg(1) = Script[at][2]
      \/ AddAccount /\ at \in 8 .. 10 /\ Arg(1) = Script[at][2]
  <2>1. /\ RegisterKey => Script[at][1] = "register"
        /\ AddKey => Script[at][1] = "add_key"
        /\ AddAccount => Script[at][1] = "add_account"
    BY DEF RegisterKey, AddKey, AddAccount, At
  <2>2. Arg(1) = Script[at][2]
    BY DEF Arg
  <2> QED
    BY <1>1, <2>1, <2>2, Positions
<1>4. registered = FirstOf(at - 1) /\ stored = FirstOf(at - 4) /\ tracked = FirstOf(at - 8)
  BY <1>1 DEF DInv, DemoInv, KeysOnScript
<1>5. registered' = FirstOf(at) /\ stored' = FirstOf(at - 3) /\ tracked' = FirstOf(at - 7)
  <2>1. /\ at \in 1 .. 3 => FirstOf(at) = FirstOf(at - 1) \cup {Script[at][2]}
        /\ at \in 4 .. 6 => FirstOf(at - 3) = FirstOf(at - 4) \cup {Script[at][2]}
        /\ at \in 8 .. 10 => FirstOf(at - 7) = FirstOf(at - 8) \cup {Script[at][2]}
    BY FirstAccounts, ScriptArgs
  <2>2. /\ at \notin 1 .. 3 => FirstOf(at) = FirstOf(at - 1)
        /\ at \notin 4 .. 6 => FirstOf(at - 3) = FirstOf(at - 4)
        /\ at \notin 8 .. 10 => FirstOf(at - 7) = FirstOf(at - 8)
    <3>1. at \notin 1 .. 3 => FirstOf(at) = FirstOf(at - 1)
      BY <1>1, FirstStays
    <3>2. at - 3 \notin 1 .. 3 => FirstOf(at - 3) = FirstOf((at - 3) - 1)
      BY <1>1, FirstStays
    <3>3. at - 7 \notin 1 .. 3 => FirstOf(at - 7) = FirstOf((at - 7) - 1)
      BY <1>1, FirstStays
    <3>4. (at - 3) - 1 = at - 4 /\ (at - 7) - 1 = at - 8
      BY <1>1
    <3> QED
      BY <1>1, <3>1, <3>2, <3>3, <3>4
  <2>3. CASE RegisterKey /\ at \in 1 .. 3 /\ Arg(1) = Script[at][2]
    <3>1. registered' = registered \cup {Script[at][2]} /\ stored' = stored /\ tracked' = tracked
      BY <2>3 DEF RegisterKey, dirVars
    <3>2. at \notin 4 .. 6 /\ at \notin 8 .. 10
      BY <2>3
    <3> QED
      BY <1>4, <2>1, <2>2, <2>3, <3>1, <3>2
  <2>4. CASE AddKey /\ at \in 4 .. 6 /\ Arg(1) = Script[at][2]
    <3>1. stored' = stored \cup {Script[at][2]} /\ registered' = registered /\ tracked' = tracked
      BY <2>4 DEF AddKey
    <3>2. at \notin 1 .. 3 /\ at \notin 8 .. 10
      BY <2>4
    <3> QED
      BY <1>4, <2>1, <2>2, <2>4, <3>1, <3>2
  <2>5. CASE AddAccount /\ at \in 8 .. 10 /\ Arg(1) = Script[at][2]
    <3>1. tracked' = tracked \cup {Script[at][2]} /\ registered' = registered /\ stored' = stored
      BY <2>5 DEF AddAccount
    <3>2. at \notin 1 .. 3 /\ at \notin 4 .. 6
      BY <2>5
    <3> QED
      BY <1>4, <2>1, <2>2, <2>5, <3>1, <3>2
  <2> QED
    BY <1>3, <2>3, <2>4, <2>5
<1>6. KeysOnScript'
  <2>1. at' - 1 = at /\ at' - 4 = at - 3 /\ at' - 8 = at - 7
    BY <1>2, <1>3
  <2> QED
    BY <1>1, <1>2, <1>5, <2>1 DEF DInv, DemoInv, KeysOnScript
<1>7. ShownOnScript'
  <2>1. TablesBefore(at + 1) = TablesBefore(at) /\ ReadsBefore(at + 1) = ReadsBefore(at)
        /\ at' # Len(Script) + 1
    BY <1>2, <1>3, ScriptHeads DEF TablesBefore, ReadsBefore
  <2> QED
    BY <1>1, <1>2, <2>1 DEF DInv, DemoInv, ShownOnScript
<1>8. DemoTypeOK'
  <2>1. registered' \subseteq Accounts /\ stored' \subseteq Accounts /\ tracked' \subseteq Accounts
    BY <1>5, <1>3, FirstAccounts, DemoConstants
  <2>2. at' \in 0 .. Len(Script) + 1
    BY <1>2, <1>3, ScriptHeads
  <2> QED
    BY <1>1, <1>2, <2>1, <2>2 DEF DInv, DemoInv, DemoTypeOK
<1> QED
  BY <1>2, <1>3, <1>6, <1>7, <1>8 DEF DemoInv

LEMMA RowsAreRows ==
    ASSUME NEW i \in 1 .. 3
    PROVE  /\ Documented[i] \in [1 .. 3 -> Int] /\ Documented[i] \in Seq(Int)
           /\ Len(Documented[i]) = 3
<1>1. Documented[1] = <<1000, 1000, 0>> /\ Documented[2] = <<1000, 700, 300>>
      /\ Documented[3] = <<900, 700, 200>>
  BY DEF Documented
<1>2. /\ Documented[1] \in Seq(Int) /\ Len(Documented[1]) = 3
      /\ Documented[2] \in Seq(Int) /\ Len(Documented[2]) = 3
      /\ Documented[3] \in Seq(Int) /\ Len(Documented[3]) = 3
  BY <1>1
<1>3. Documented[i] \in Seq(Int) /\ Len(Documented[i]) = 3
  <2>1. i = 1 \/ i = 2 \/ i = 3
    OBVIOUS
  <2> QED
    BY <1>2, <2>1
<1>4. Documented[i] \in [1 .. Len(Documented[i]) -> Int]
  BY <1>3, LenProperties
<1> QED
  BY <1>3, <1>4

\* A read gives the next value of the table that the documents show.
LEMMA ReadValue ==
    ASSUME DInv, at \in 1 .. 25, Moved = MovesBefore(at),
           \A a \in Accounts : local[a] = Nonce(a)
    PROVE  LET row == Documented[Len(shown) + 1] IN
           /\ at \in {14, 19, 23} => ReadTotalSupply = row[1]
           /\ at \in {15, 20, 24} => ReadBalance(WalletA) = row[2]
           /\ at \in {16, 21, 25} => ReadBalance(WalletB) = row[3]
<1>1. Len(shown) = TablesBefore(at)
  BY DEF DInv, DemoInv, ShownOnScript
<1>2. CASE at \in {14, 15, 16, 19, 20, 21, 23, 24, 25}
  <2>1. /\ Moved \in {2, 4, 6}
        /\ (IF Moved = 2 THEN 1 ELSE IF Moved = 4 THEN 2 ELSE 3) = Len(shown) + 1
    BY <1>1, <1>2 DEF MovesBefore, TablesBefore
  <2>2. LET row == Documented[Len(shown) + 1] IN
        /\ IssuanceAt(Nonce(Issuer)) = row[1]
        /\ BalanceAt(WalletA, Nonce(WalletA)) = row[2]
        /\ BalanceAt(WalletB, Nonce(WalletB)) = row[3]
    BY <2>1, Holdings, TypesOfInv
  <2>3. /\ ReadTotalSupply = IssuanceAt(Nonce(Issuer))
        /\ ReadBalance(WalletA) = BalanceAt(WalletA, Nonce(WalletA))
        /\ ReadBalance(WalletB) = BalanceAt(WalletB, Nonce(WalletB))
    BY DemoConstants DEF ReadTotalSupply, ReadBalance
  <2> QED
    BY <2>2, <2>3
<1> QED
  BY <1>2

LEMMA DemoRead ==
    ASSUME DInv, ReadSupply \/ ReadWallet
    PROVE  DemoInv'
<1>1. \/ At("supply") /\ Show(ReadTotalSupply)
      \/ At("balance") /\ Show(ReadBalance(Script[at][2]))
  BY DEF ReadSupply, ReadWallet, Arg
<1>2. /\ running /\ at \in 1 .. 25 /\ Advance /\ Script[at][1] \notin CallSteps
      /\ UNCHANGED <<registered, stored, tracked, signed>>
  <2>1. running /\ at <= Len(Script) /\ Script[at][1] \notin CallSteps
    BY <1>1 DEF At, CallSteps
  <2>2. Advance /\ UNCHANGED <<registered, stored, tracked, signed>>
    BY <1>1 DEF Show, dirVars
  <2> QED
    BY <2>1, <2>2, TypesOfInv, ScriptHeads
<1>3. /\ ~InCall /\ Moved = MovesBefore(at) /\ Moved' = Moved /\ at' = at + 1 /\ running'
      /\ (\A a \in Accounts : local[a] = Nonce(a))
      /\ LogsAsPlayed' /\ CallOnScript' /\ CaughtUp'
      /\ (at' = Len(Script) + 1 => Moved' = 6)
      /\ pc[Demo] # "submit" /\ pc'[Demo] # "submit"
  BY <1>2, StatementDone
<1>4. \/ at \in {14, 19, 23} /\ Show(ReadTotalSupply)
      \/ at \in {15, 20, 24} /\ Show(ReadBalance(WalletA))
      \/ at \in {16, 21, 25} /\ Show(ReadBalance(WalletB))
  <2>1. CASE At("supply") /\ Show(ReadTotalSupply)
    <3>1. Script[at][1] = "supply"
      BY <2>1 DEF At
    <3> QED
      BY <1>2, <2>1, <3>1, Positions
  <2>2. CASE At("balance") /\ Show(ReadBalance(Script[at][2]))
    <3>1. Script[at][1] = "balance"
      BY <2>2 DEF At
    <3>2. at \in {15, 16, 20, 21, 24, 25}
      BY <1>2, <3>1, Positions
    <3>3. /\ at \in {15, 20, 24} => Script[at][2] = WalletA
          /\ at \in {16, 21, 25} => Script[at][2] = WalletB
      BY ScriptArgs
    <3> QED
      BY <2>2, <3>2, <3>3
  <2> QED
    BY <1>1, <2>1, <2>2
<1>5. /\ shown \in Seq(Seq(Int)) /\ Len(shown) = TablesBefore(at)
      /\ reads \in Seq(Int) /\ Len(reads) = ReadsBefore(at)
      /\ \A i \in 1 .. Len(shown) : shown[i] = Documented[i]
      /\ \A j \in 1 .. Len(reads) : reads[j] = Documented[Len(shown) + 1][j]
  BY DEF DInv, DemoInv, ShownOnScript
<1>6. PICK value : Show(value) /\ value = Documented[Len(shown) + 1][Len(reads) + 1]
  <2>1. Len(reads) + 1 = IF at \in {15, 20, 24} THEN 2 ELSE IF at \in {16, 21, 25} THEN 3 ELSE 1
    BY <1>5 DEF ReadsBefore
  <2> QED
    BY <1>2, <1>3, <1>4, <2>1, ReadValue
<1>7. /\ at \in {14, 15, 16, 19, 20, 21, 23, 24, 25}
      /\ Len(shown) + 1 \in 1 .. 3 /\ Len(reads) \in 0 .. 2 /\ Len(shown) \in 0 .. 2
  <2>1. at \in {14, 15, 16, 19, 20, 21, 23, 24, 25}
    BY <1>4
  <2> QED
    BY <1>5, <2>1 DEF TablesBefore, ReadsBefore
<1>8. Documented[Len(shown) + 1] \in [1 .. 3 -> Int] /\ value \in Int
  <2>1. Documented[Len(shown) + 1] \in [1 .. 3 -> Int]
    BY <1>7, RowsAreRows
  <2>2. Len(reads) + 1 \in 1 .. 3
    <3>1. \A n \in 0 .. 2 : n + 1 \in 1 .. 3
      OBVIOUS
    <3> QED
      BY <1>7, <3>1
  <2> QED
    BY <1>6, <2>1, <2>2
<1>9. /\ Append(reads, value) \in Seq(Int) /\ Len(Append(reads, value)) = Len(reads) + 1
      /\ \A j \in 1 .. Len(reads) + 1 : Append(reads, value)[j] = Documented[Len(shown) + 1][j]
  <2>1. reads \in Seq(Int) /\ value \in Int
    BY <1>5, <1>8
  <2>2. Append(reads, value) \in Seq(Int) /\ Len(Append(reads, value)) = Len(reads) + 1
    BY <2>1
  <2>3. ASSUME NEW j \in 1 .. Len(reads) + 1
        PROVE  Append(reads, value)[j] = Documented[Len(shown) + 1][j]
    <3>1. CASE j = Len(reads) + 1
      <4>1. Append(reads, value)[j] = value
        BY <2>1, <3>1
      <4> QED
        BY <1>6, <3>1, <4>1
    <3>2. CASE j # Len(reads) + 1
      <4>1. j \in 1 .. Len(reads) /\ Append(reads, value)[j] = reads[j]
        BY <2>1, <3>2
      <4> QED
        BY <1>5, <4>1
    <3> QED
      BY <3>1, <3>2
  <2> QED
    BY <2>2, <2>3
<1>10. /\ ShownOnScript'
       /\ (\A i \in 1 .. Len(shown') : shown'[i] \in [1 .. 3 -> Int]) /\ Len(reads') <= 2
  <2>1. CASE Len(reads) = 2
    <3>1. reads' = <<>> /\ shown' = Append(shown, Append(reads, value))
      BY <1>6, <2>1 DEF Show, print_balance_table
    <3>2. Append(reads, value) = Documented[Len(shown) + 1]
      <4>1. Documented[Len(shown) + 1] \in Seq(Int) /\ Len(Documented[Len(shown) + 1]) = 3
        BY <1>7, RowsAreRows
      <4> QED
        <5>1. /\ Len(Append(reads, value)) = Len(Documented[Len(shown) + 1])
              /\ \A j \in 1 .. Len(Append(reads, value)) :
                     Append(reads, value)[j] = Documented[Len(shown) + 1][j]
          BY <1>9, <2>1, <4>1
        <5> QED
          BY <1>9, <4>1, <5>1, SeqEqual
    <3>3. /\ shown' \in Seq(Seq(Int)) /\ Len(shown') = Len(shown) + 1
          /\ \A i \in 1 .. Len(shown') : shown'[i] = Documented[i]
      BY <1>5, <1>9, <3>1, <3>2
    <3>4. \A i \in 1 .. Len(shown') : shown'[i] \in [1 .. 3 -> Int]
      <4>1. \A i \in 1 .. Len(shown') : i \in 1 .. 3
        BY <1>7, <3>3
      <4> QED
        BY <3>3, <4>1, RowsAreRows
    <3>5. Len(shown') = TablesBefore(at') /\ ReadsBefore(at') = 0
      <4>1. at \in {16, 21, 25}
        BY <1>5, <1>7, <2>1 DEF ReadsBefore
      <4> QED
        BY <1>3, <1>5, <3>3, <4>1 DEF TablesBefore, ReadsBefore
    <3>6. reads' \in Seq(Int) /\ Len(reads') = 0
      BY <3>1
    <3> QED
      BY <1>3, <3>3, <3>4, <3>5, <3>6 DEF ShownOnScript
  <2>2. CASE Len(reads) # 2
    <3>1. reads' = Append(reads, value) /\ shown' = shown
      BY <1>6, <2>2 DEF Show
    <3>2. Len(reads') = Len(reads) + 1 /\ Len(reads') <= 2
      BY <1>7, <1>9, <2>2, <3>1
    <3>3. TablesBefore(at') = TablesBefore(at) /\ ReadsBefore(at') = Len(reads) + 1
      <4>1. at \in {14, 15, 19, 20, 23, 24}
        BY <1>5, <1>7, <2>2 DEF ReadsBefore
      <4> QED
        BY <1>3, <1>5, <4>1 DEF TablesBefore, ReadsBefore
    <3>4. ShownOnScript'
      BY <1>3, <1>5, <1>9, <3>1, <3>2, <3>3 DEF ShownOnScript
    <3> QED
      BY <3>1, <3>2, <3>4 DEF DInv, DemoInv, DemoTypeOK
  <2> QED
    BY <2>1, <2>2
<1>11. DemoTypeOK'
  <2>1. at' \in 0 .. Len(Script) + 1
    BY <1>2, <1>3, ScriptHeads
  <2> QED
    BY <1>2, <1>3, <1>10, <2>1 DEF DInv, DemoInv, DemoTypeOK
<1>12. KeysOnScript'
  <2>1. registered = FirstOf(at - 1) /\ stored = FirstOf(at - 4) /\ tracked = FirstOf(at - 8)
        /\ Len(signed) = Moved /\ \A i \in 1 .. Len(signed) : i <= 6 /\ signed[i] = Moves[i].acct
    BY <1>2, <1>3 DEF DInv, DemoInv, KeysOnScript
  <2>2. FirstOf(at) = FirstOf(at - 1) /\ FirstOf(at - 3) = FirstOf((at - 3) - 1)
        /\ FirstOf(at - 7) = FirstOf((at - 7) - 1)
    <3>1. at \in Int /\ at \notin 1 .. 3 /\ at - 3 \in Int /\ at - 3 \notin 1 .. 3
          /\ at - 7 \in Int /\ at - 7 \notin 1 .. 3
      BY <1>4
    <3> QED
      BY <3>1, FirstStays
  <2>3. /\ (at - 3) - 1 = at - 4 /\ (at - 7) - 1 = at - 8
        /\ at' - 1 = at /\ at' - 4 = at - 3 /\ at' - 8 = at - 7
    BY <1>2, <1>3
  <2> QED
    BY <1>2, <1>3, <2>1, <2>2, <2>3 DEF KeysOnScript
<1> QED
  BY <1>2, <1>3, <1>10, <1>11, <1>12 DEF DemoInv

\* The demo ends between two calls.
LEMMA DemoEnds ==
    ASSUME DInv, StatementFails \/ Finish
    PROVE  DemoInv'
<1>1. /\ running' = FALSE /\ UNCHANGED <<at, registered, signed, reads, shown>>
      /\ stored' = {} /\ tracked' = {} /\ UNCHANGED <<log, pc>> /\ at >= 1
  <2>1. running /\ running' = FALSE /\ RemoveTempDir
        /\ UNCHANGED <<vars, at, registered, signed, reads, shown>>
    BY DEF StatementFails, Finish
  <2> QED
    BY <2>1, TypesOfInv DEF RemoveTempDir, vars, nodeVars, procVars
<1>2. ~InCall
  <2>1. InCall => Script[at][1] \in CallSteps /\ at <= Len(Script)
    BY DEF DInv, DemoInv, CallOnScript
  <2>2. ~(at <= Len(Script) /\ at > Len(Script))
    BY TypesOfInv, ScriptHeads
  <2> QED
    BY <2>1, <2>2 DEF StatementFails, Finish
<1>3. ~InCall' /\ Moved' = Moved /\ LogsAsPlayed'
  BY <1>1, <1>2, TypesOfInv DEF InCall, Moved, Nonce, LogsAsPlayed
<1>4. DemoTypeOK'
  BY <1>1, <1>3 DEF DInv, DemoInv, DemoTypeOK, InCall
<1>5. CallOnScript' /\ CaughtUp'
  BY <1>1, <1>3 DEF CallOnScript, CaughtUp, InCall, Steps
<1>6. ShownOnScript'
  BY <1>1, <1>3 DEF DInv, DemoInv, ShownOnScript
<1>7. KeysOnScript'
  BY <1>1 DEF DInv, DemoInv, KeysOnScript
<1> QED
  BY <1>1, <1>3, <1>4, <1>5, <1>6, <1>7 DEF DemoInv

LEMMA DemoLaunch ==
    ASSUME DInv, Launch
    PROVE  DemoInv'
<1>1. /\ at = 0 /\ at' = 1 /\ running' = TRUE /\ NotLaunched
      /\ UNCHANGED <<registered, stored, tracked, signed, reads, shown>>
      /\ UNCHANGED <<log, local, serial, pc, call, tx>>
  BY DEF Launch, DInv, DemoInv, vars, nodeVars, storeVars, procVars, dirVars
<1>2. ~InCall' /\ Moved' = 0 /\ Moved = 0 /\ LogsAsPlayed' /\ pc'[Demo] = "idle"
      /\ \A a \in Accounts : Nonce(a)' = Nonce(a)
  BY <1>1, TypesOfInv DEF InCall, Steps, Moved, Nonce, LogsAsPlayed, NotLaunched
<1>3. DemoTypeOK'
  <2>1. at' \in 0 .. Len(Script) + 1
    <3>1. Len(Script) = 25
      BY ScriptHeads
    <3> QED
      BY <1>1, <3>1
  <2>2. pc'[Demo] \in Steps => running'
    BY <1>1
  <2> QED
    BY <1>1, <2>1, <2>2 DEF DInv, DemoInv, DemoTypeOK
<1>4. CallOnScript'
  BY <1>1, <1>2 DEF CallOnScript, NotLaunched, SerialBefore, MovesBefore
<1>5. CaughtUp'
  <2>1. \A a \in Accounts : Nonce(a) = 0
    <3>1. \A a \in Accounts : Nonce(a) = NonceAfter(a, 0)
      BY <1>2, TypesOfInv DEF LogsAsPlayed
    <3>2. \A a \in Accounts : Turns(a)[1] \in 1 .. 6
      BY DEF Turns
    <3> QED
      BY <3>1, <3>2 DEF NonceAfter
  <2> QED
    BY <1>1, <1>2, <2>1 DEF CaughtUp, NotLaunched
<1>6. ShownOnScript'
  <2>1. TablesBefore(1) = TablesBefore(0) /\ ReadsBefore(1) = ReadsBefore(0)
    BY DEF TablesBefore, ReadsBefore
  <2>2. at' # Len(Script) + 1
    <3>1. Len(Script) = 25
      BY ScriptHeads
    <3> QED
      BY <1>1, <3>1
  <2> QED
    BY <1>1, <2>1, <2>2 DEF DInv, DemoInv, ShownOnScript
<1>7. KeysOnScript'
  <2>1. FirstOf(1 - 1) = {} /\ FirstOf(1 - 4) = {} /\ FirstOf(1 - 8) = {}
    BY FirstAccounts
  <2> QED
    BY <1>1, <1>2, <2>1 DEF KeysOnScript, NotLaunched, dirVars
<1> QED
  BY <1>1, <1>2, <1>3, <1>4, <1>5, <1>6, <1>7 DEF DemoInv

\* Blocks change nothing that the demo has done.
LEMMA DemoQuiet ==
    ASSUME DInv, MakeBlock \/ UNCHANGED <<vars, demoVars>>
    PROVE  DemoInv'
<1>1. UNCHANGED <<log, local, serial, pc, call, tx, at, running, registered, stored, tracked,
                  signed, reads, shown>>
  BY DEF MakeBlock, Include, vars, nodeVars, storeVars, procVars, demoVars, dirVars
<1>2. Moved' = Moved /\ InCall' = InCall /\ Poller(Demo)' = Poller(Demo)
      /\ \A a \in Accounts : Nonce(a)' = Nonce(a)
  BY <1>1 DEF Moved, Nonce, InCall, Poller
<1>3. LogsAsPlayed' /\ DemoTypeOK' /\ ShownOnScript' /\ KeysOnScript'
  <2>1. LogsAsPlayed'
    BY <1>1, <1>2 DEF DInv, DemoInv, LogsAsPlayed
  <2>2. DemoTypeOK'
    BY <1>1 DEF DInv, DemoInv, DemoTypeOK
  <2>3. ShownOnScript'
    BY <1>1, <1>2 DEF DInv, DemoInv, ShownOnScript
  <2>4. KeysOnScript'
    BY <1>1, <1>2 DEF DInv, DemoInv, KeysOnScript
  <2> QED
    BY <2>1, <2>2, <2>3, <2>4
<1>4. CallOnScript' /\ CaughtUp'
  <2>1. CallOnScript'
    BY <1>1, <1>2 DEF DInv, DemoInv, CallOnScript
  <2>2. CaughtUp'
    BY <1>1, <1>2, TypesOfInv DEF DInv, DemoInv, CaughtUp
  <2> QED
    BY <2>1, <2>2
<1>5. at' = 0 => NotLaunched'
  BY <1>1, <1>2 DEF DInv, DemoInv, NotLaunched, dirVars
<1> QED
  BY <1>1, <1>3, <1>4, <1>5 DEF DInv, DemoInv

LEMMA DemoInvNext == DInv /\ [DemoNext]_<<vars, demoVars>> => DemoInv'
<1> SUFFICES ASSUME DInv, [DemoNext]_<<vars, demoVars>>
             PROVE  DemoInv'
  OBVIOUS
<1>1. CASE UNCHANGED <<vars, demoVars>>
  BY <1>1, DemoQuiet
<1>2. CASE DemoNext
  BY <1>2, DemoLaunch, DemoKeys, DemoRead, DemoStart, DemoOperation, DemoEnds, DemoQuiet
     DEF DemoNext
<1> QED
  BY <1>1, <1>2

LEMMA DemoInvInit == DemoInit => DemoInv
<1> SUFFICES ASSUME DemoInit
             PROVE  DemoInv
  OBVIOUS
<1>1. /\ at = 0 /\ running = FALSE /\ registered = {} /\ stored = {} /\ tracked = {}
      /\ signed = <<>> /\ reads = <<>> /\ shown = <<>>
      /\ log = [a \in Accounts |-> <<>>] /\ local = [a \in Accounts |-> 0] /\ serial = 0
      /\ pc = [p \in Procs |-> "idle"]
  BY DEF DemoInit, Init
<1>2. pc[Demo] = "idle"
  BY <1>1, FullDemoAssumption
<1>3. \A a \in Accounts : Nonce(a) = 0
  BY <1>1 DEF Nonce
<1>4. Moved = 0
  BY <1>3, DemoConstants DEF Moved
<1>5. LogsAsPlayed
  <2>1. \A a \in Accounts : Turns(a)[1] \in 1 .. 6
    BY DEF Turns
  <2> QED
    BY <1>3, <1>4, <2>1 DEF LogsAsPlayed, NonceAfter
<1>6. DemoTypeOK
  <2>1. /\ signed \in Seq(Accounts) /\ Len(reads) = 0 /\ Len(shown) = 0
        /\ pc[Demo] \notin Steps
    BY <1>1, <1>2 DEF Steps
  <2>2. \A i \in 1 .. Len(shown) : shown[i] \in [1 .. 3 -> Int]
    BY <2>1
  <2>3. at \in 0 .. Len(Script) + 1 /\ running \in BOOLEAN /\ Len(reads) <= 2
    <3>1. 0 \in 0 .. 25 + 1 /\ 0 <= 2
      OBVIOUS
    <3> QED
      BY <1>1, <2>1, <3>1, ScriptHeads
  <2> QED
    BY <1>1, <2>1, <2>2, <2>3 DEF DemoTypeOK
<1>7. CallOnScript /\ CaughtUp
  BY <1>1, <1>2 DEF CallOnScript, CaughtUp, InCall, Steps
<1>8. ShownOnScript /\ KeysOnScript
  BY <1>1, ScriptHeads DEF ShownOnScript, KeysOnScript, TablesBefore, ReadsBefore
<1>9. NotLaunched
  BY <1>1, <1>2, <1>4 DEF NotLaunched, dirVars
<1> QED
  BY <1>1, <1>5, <1>6, <1>7, <1>8, <1>9 DEF DemoInv


-----------------------------------------------------------------------------
(* What the demo does is what Operations allows. *)

LEMMA DemoStartNext ==
    ASSUME DInv, StartOperation
    PROVE  StartCall(Demo)
<1>1. at \in 1 .. 25
  BY TypesOfInv, ScriptHeads DEF StartOperation, At
<1>2. /\ WalletA \in Wallets /\ WalletB \in Wallets
      /\ 1000 \in Amounts /\ 300 \in Amounts /\ 100 \in Amounts
  BY FullDemoAssumption
<1>3. CASE At("sync") /\ SyncAndTrack(Demo)
  BY <1>3 DEF StartCall
<1>4. CASE At("mint") /\ MintTokens(Demo, Arg(1), Arg(2))
  <2>1. Script[at][1] = "mint"
    BY <1>4 DEF At
  <2>2. Arg(1) = WalletA /\ Arg(2) = 1000
    BY <1>1, <2>1, Positions, ScriptArgs DEF Arg
  <2> QED
    BY <1>2, <1>4, <2>2 DEF StartCall
<1>5. CASE At("consume") /\ ConsumeNotes(Demo, Arg(1))
  <2>1. Script[at][1] = "consume"
    BY <1>5 DEF At
  <2>2. Arg(1) \in Accounts
    BY <1>1, <2>1, Positions, ScriptArgs, DemoConstants DEF Arg
  <2> QED
    BY <1>5, <2>2 DEF StartCall
<1>6. CASE At("transfer") /\ TransferTokens(Demo, Arg(1), Arg(2), Arg(3))
  <2>1. Script[at][1] = "transfer"
    BY <1>6 DEF At
  <2>2. Arg(1) = WalletA /\ Arg(2) = WalletB /\ Arg(3) = 300
    BY <1>1, <2>1, Positions, ScriptArgs DEF Arg
  <2> QED
    BY <1>2, <1>6, <2>2 DEF StartCall
<1>7. CASE At("burn") /\ BurnTokens(Demo, Arg(1), Arg(2))
  <2>1. Script[at][1] = "burn"
    BY <1>7 DEF At
  <2>2. Arg(1) = WalletB /\ Arg(2) = 100 /\ WalletB \in Accounts
    BY <1>1, <2>1, Positions, ScriptArgs, DemoConstants DEF Arg
  <2> QED
    BY <1>2, <1>7, <2>2 DEF StartCall
<1> QED
  BY <1>3, <1>4, <1>5, <1>6, <1>7 DEF StartOperation

LEMMA DemoSteps == DInv /\ [DemoNext]_<<vars, demoVars>> => [Next]_vars
<1> SUFFICES ASSUME DInv, [DemoNext]_<<vars, demoVars>>
             PROVE  [Next]_vars
  OBVIOUS
<1>1. CASE StartOperation \/ RunOperation
  BY <1>1, DemoStartNext, TypesOfInv DEF RunOperation, Next
<1>2. CASE MakeBlock
  BY <1>2 DEF MakeBlock, Next
<1>3. CASE UNCHANGED <<vars, demoVars>>
  BY <1>3
<1>4. CASE \/ Launch \/ RegisterKey \/ AddKey \/ AddAccount
           \/ ReadSupply \/ ReadWallet \/ StatementFails \/ Finish
  BY <1>4 DEF Launch, RegisterKey, AddKey, AddAccount, ReadSupply, ReadWallet, Show,
     Advance, StatementFails, Finish
<1> QED
  BY <1>1, <1>2, <1>3, <1>4 DEF DemoNext

LEMMA DemoInvariant == DemoSpec => []DInv
<1>1. DemoInit => DInv
  BY DemoInvInit, TypeInvInit, StoreInvInit DEF DInv, IStore, DemoInit
<1>2. DInv /\ [DemoNext]_<<vars, demoVars>> => DInv'
  BY DemoInvNext, DemoSteps, TypeInvNext, StoreInvNext DEF DInv, IStore
<1> QED
  BY <1>1, <1>2, PTL DEF DemoSpec

\* full_demo runs the operations as any process does, one after the other:
\* what is proved of Operations holds in the demo.
THEOREM DemoRunsOperations == DemoSpec => Spec
<1>1. DemoInit => Init
  BY DEF DemoInit
<1> QED
  BY <1>1, DemoInvariant, DemoSteps, PTL DEF DemoSpec, Spec

\* At every position of the script the variables of main have the values the
\* script gives them, and an operation is in progress only while main runs.
THEOREM DemoTypes == DemoSpec => []DemoTypeOK
<1>1. DInv => DemoTypeOK
  BY DEF DInv, DemoInv
<1> QED
  BY <1>1, DemoInvariant, PTL

\* The tables of full_demo are those of docs/guide/09-running-demos.md, for
\* any number of polls and any failures, whether the wallets are public or
\* private and however late the node makes its blocks.
THEOREM TablesPrinted == DemoSpec => []TablesAsDocumented
<1>1. DInv => TablesAsDocumented
  <2> SUFFICES ASSUME DInv
               PROVE  TablesAsDocumented
    OBVIOUS
  <2>1. /\ Len(shown) = TablesBefore(at)
        /\ \A i \in 1 .. Len(shown) : shown[i] = Documented[i]
    BY DEF DInv, DemoInv, ShownOnScript
  <2>2. Len(Documented) = 3 /\ TablesBefore(at) <= 3
    BY DEF Documented, TablesBefore
  <2> QED
    BY <2>1, <2>2 DEF TablesAsDocumented
<1> QED
  BY <1>1, DemoInvariant, PTL

\* A full_demo that has printed its last table has no note in flight, and
\* printed what the node has.
THEOREM DemoSettles == DemoSpec => []TokensSettled
<1>1. DInv => TokensSettled
  <2> SUFFICES ASSUME DInv, Len(shown) = 3
               PROVE  /\ Created = Nullified
                      /\ shown[3] = << IssuanceAt(Nonce(Issuer)),
                                       BalanceAt(WalletA, Nonce(WalletA)),
                                       BalanceAt(WalletB, Nonce(WalletB)) >>
    BY DEF TokensSettled
  <2>1. Moved = 6 /\ shown[3] = Documented[3]
    <3>1. /\ Len(shown) = TablesBefore(at) /\ at \in 0 .. 26
          /\ \A i \in 1 .. Len(shown) : shown[i] = Documented[i]
          /\ at = Len(Script) + 1 => Moved = 6
      BY TypesOfInv DEF DInv, DemoInv, ShownOnScript
    <3>2. at = 26
      <4>1. at \in 0 .. 25 => TablesBefore(at) # 3
        BY DEF TablesBefore
      <4>2. at \in 0 .. 25 \/ at = 26
        BY <3>1
      <4> QED
        BY <3>1, <4>1, <4>2
    <3> QED
      BY <3>1, <3>2, ScriptHeads
  <2>2. Created = Nullified
    BY <2>1, NotesOfScript, TypesOfInv
  <2>3. /\ IssuanceAt(Nonce(Issuer)) = Documented[3][1]
        /\ BalanceAt(WalletA, Nonce(WalletA)) = Documented[3][2]
        /\ BalanceAt(WalletB, Nonce(WalletB)) = Documented[3][3]
    BY <2>1, Holdings, TypesOfInv
  <2>4. Documented[3] = << Documented[3][1], Documented[3][2], Documented[3][3] >>
    BY DEF Documented
  <2> QED
    BY <2>1, <2>2, <2>3, <2>4
<1> QED
  BY <1>1, DemoInvariant, PTL

-----------------------------------------------------------------------------
(* The demo as Custody sees it: statement and signature make one step each. *)

Kept == {"register", "add_key", "add_account", "supply", "balance"}

Before(i, kinds) == {j \in 1 .. i - 1 : Script[j][1] \in kinds}

KeptBefore(i) ==
    IF i <= 7 THEN i - 1 ELSE IF i <= 11 THEN i - 2 ELSE IF i <= 14 THEN 9
    ELSE IF i <= 17 THEN i - 5 ELSE IF i <= 19 THEN 12 ELSE IF i <= 22 THEN i - 7 ELSE i - 8

\* What Custody takes for its variables.
DiskKeys     == [d \in {"./keystore", Demo} |-> IF d = Demo THEN {Key(a) : a \in stored} ELSE {}]
DiskAccounts == [d \in {"./store.sqlite3", Demo} |->
                     IF d = Demo THEN {Account(a) : a \in tracked} ELSE {}]
KeysMade     == Cardinality(DoneSteps({"register"}))
Program      == [p \in {Demo} |-> IF running THEN "full_demo" ELSE "none"]
Step         == [p \in {Demo} |-> IF running THEN 1 + Len(signed) + Cardinality(DoneSteps(
                     {"register", "add_key", "add_account", "supply", "balance"})) ELSE 1]
Place        == [p \in {Demo} |-> [store |-> Demo, keystore |-> Demo]]
SignerKeys   == [p \in {Demo} |-> IF running THEN {Key(a) : a \in registered} ELSE {}]
IssuerMade   == [p \in {Demo} |->
                     IF running /\ Issuer \in tracked THEN Account(Issuer) ELSE NoIssuer]
Signed       == {[acct |-> Account(signed[i]), proc |-> Demo, program |-> "full_demo"] :
                     i \in 1 .. Len(signed)}

LEMMA OneMoreBefore ==
    ASSUME NEW i \in 1 .. 25, NEW j, j = i + 1, NEW kinds
    PROVE  Cardinality(Before(j, kinds)) = Cardinality(Before(i, kinds))
                                              + (IF Script[i][1] \in kinds THEN 1 ELSE 0)
<1>1. Before(j, kinds) = IF Script[i][1] \in kinds THEN Before(i, kinds) \cup {i} ELSE Before(i, kinds)
  <2>1. 1 .. j - 1 = (1 .. i - 1) \cup {i}
    OBVIOUS
  <2> QED
    BY <2>1 DEF Before
<1>2. IsFiniteSet(Before(i, kinds)) /\ i \notin Before(i, kinds)
  <2>1. IsFiniteSet(1 .. i - 1)
    BY FS_Interval
  <2>2. Before(i, kinds) \in SUBSET (1 .. i - 1) /\ i \notin 1 .. i - 1
    BY DEF Before
  <2> QED
    BY <2>1, <2>2, FS_Subset
<1>3. Cardinality(Before(i, kinds)) \in Nat
  BY <1>2, FS_CardinalityType
<1>4. Cardinality(Before(i, kinds) \cup {i}) = Cardinality(Before(i, kinds)) + 1
  BY <1>2, FS_AddElement
<1>5. CASE Script[i][1] \in kinds
  BY <1>1, <1>4, <1>5
<1>6. CASE Script[i][1] \notin kinds
  BY <1>1, <1>3, <1>6
<1> QED
  BY <1>5, <1>6

LEMMA BeforeIsNat ==
    ASSUME NEW i \in Int, NEW kinds
    PROVE  Cardinality(Before(i, kinds)) \in Nat
<1>1. IsFiniteSet(1 .. i - 1) /\ Before(i, kinds) \in SUBSET (1 .. i - 1)
  BY FS_Interval DEF Before
<1> QED
  BY <1>1, FS_Subset, FS_CardinalityType

LEMMA NoneBefore ==
    ASSUME NEW kinds, NEW i \in {0, 1}
    PROVE  Cardinality(Before(i, kinds)) = 0
<1>1. Before(i, kinds) = {}
  BY DEF Before
<1> QED
  BY <1>1, FS_EmptySet

LEMMA KeptCount ==
    ASSUME NEW i \in 1 .. 26
    PROVE  Cardinality(Before(i, Kept)) = KeptBefore(i)
<1> DEFINE c(n) == Cardinality(Before(n, Kept))
<1>1. c(1) = 0
  BY NoneBefore
<1>2. \A n \in 1 .. 25 : \A m : m = n + 1 =>
          c(m) = c(n) + (IF n \in {7, 11, 12, 13, 17, 18, 22} THEN 0 ELSE 1)
  <2>1. \A n \in 1 .. 25 : Script[n][1] \in Kept <=> n \notin {7, 11, 12, 13, 17, 18, 22}
    BY Positions, ScriptHeads DEF Kept
  <2> QED
    BY <2>1, OneMoreBefore
<1> HIDE DEF c
<1>3. c(2) = 1 /\ c(3) = 2 /\ c(4) = 3 /\ c(5) = 4
  BY <1>1, <1>2
<1>4. c(6) = 5 /\ c(7) = 6 /\ c(8) = 6 /\ c(9) = 7
  BY <1>2, <1>3
<1>5. c(10) = 8 /\ c(11) = 9 /\ c(12) = 9 /\ c(13) = 9
  BY <1>2, <1>4
<1>6. c(14) = 9 /\ c(15) = 10 /\ c(16) = 11 /\ c(17) = 12
  BY <1>2, <1>5
<1>7. c(18) = 12 /\ c(19) = 12 /\ c(20) = 13 /\ c(21) = 14
  BY <1>2, <1>6
<1>8. c(22) = 15 /\ c(23) = 15 /\ c(24) = 16 /\ c(25) = 17 /\ c(26) = 18
  BY <1>2, <1>7
<1>9. c(i) = KeptBefore(i)
  BY <1>1, <1>3, <1>4, <1>5, <1>6, <1>7, <1>8 DEF KeptBefore
<1> QED
  BY <1>9 DEF c

LEMMA KeyCount ==
    ASSUME NEW i \in 1 .. 4
    PROVE  Cardinality(Before(i, {"register"})) = i - 1
<1> DEFINE c(n) == Cardinality(Before(n, {"register"}))
<1>1. c(1) = 0
  BY NoneBefore
<1>2. \A n \in 1 .. 3 : \A m : m = n + 1 => c(m) = c(n) + 1
  BY OneMoreBefore, ScriptHeads
<1> HIDE DEF c
<1>3. c(2) = 1 /\ c(3) = 2 /\ c(4) = 3
  BY <1>1, <1>2
<1>4. c(i) = i - 1
  BY <1>1, <1>3
<1> QED
  BY <1>4 DEF c

LEMMA CustodyProgram ==
    /\ Keeping!Programs["full_demo"] = Keeping!full_demo /\ Len(Keeping!full_demo) = 24
    /\ \A i \in 1 .. 3 : Keeping!full_demo[i] = "register_key"
    /\ \A i \in 4 .. 6 : Keeping!full_demo[i] = "add_key"
    /\ Keeping!full_demo[7] = "add_issuer"
    /\ Keeping!full_demo[8] = "add_wallet" /\ Keeping!full_demo[9] = "add_wallet"
    /\ \A i \in {10, 21} : Keeping!full_demo[i] = "sign_issuer"
    /\ \A i \in {11, 15, 16, 20} : Keeping!full_demo[i] = "sign_wallet"
    /\ \A i \in {12, 17, 22} : Keeping!full_demo[i] = "read_issuer"
    /\ \A i \in {13, 14, 18, 19, 23, 24} : Keeping!full_demo[i] = "read_wallet"
<1>1. Keeping!Programs["full_demo"] = Keeping!full_demo
  BY DEF Keeping!Programs
<1>2. Len(Keeping!full_demo) = 24
  BY DEF Keeping!full_demo, Keeping!print_state
<1>3. \A i \in 1 .. 3 : Keeping!full_demo[i] = "register_key"
  BY DEF Keeping!full_demo, Keeping!print_state
<1>4. \A i \in 4 .. 6 : Keeping!full_demo[i] = "add_key"
  BY DEF Keeping!full_demo, Keeping!print_state
<1>5. Keeping!full_demo[7] = "add_issuer"
      /\ Keeping!full_demo[8] = "add_wallet" /\ Keeping!full_demo[9] = "add_wallet"
  BY DEF Keeping!full_demo, Keeping!print_state
<1>6. \A i \in {10, 21} : Keeping!full_demo[i] = "sign_issuer"
  BY DEF Keeping!full_demo, Keeping!print_state
<1>7. \A i \in {11, 15, 16, 20} : Keeping!full_demo[i] = "sign_wallet"
  BY DEF Keeping!full_demo, Keeping!print_state
<1>8. \A i \in {12, 17, 22} : Keeping!full_demo[i] = "read_issuer"
  BY DEF Keeping!full_demo, Keeping!print_state
<1>9. \A i \in {13, 14, 18, 19, 23, 24} : Keeping!full_demo[i] = "read_wallet"
  BY DEF Keeping!full_demo, Keeping!print_state
<1> QED
  BY <1>1, <1>2, <1>3, <1>4, <1>5, <1>6, <1>7, <1>8, <1>9

LEMMA AccountKeys ==
    /\ Key(Issuer) = 1 /\ Key(WalletA) = 2 /\ Key(WalletB) = 3
    /\ Account(Issuer) = [kind |-> "issuer", key |-> 1]
    /\ Account(WalletA) = [kind |-> "wallet", key |-> 2]
    /\ Account(WalletB) = [kind |-> "wallet", key |-> 3]
<1>1. Key(Issuer) = 1
  <2>1. \A k \in 1 .. 3 : <<Issuer, WalletA, WalletB>>[k] = Issuer <=> k = 1
    BY DemoConstants
  <2> QED
    BY <2>1 DEF Key
<1>2. Key(WalletA) = 2
  <2>1. \A k \in 1 .. 3 : <<Issuer, WalletA, WalletB>>[k] = WalletA <=> k = 2
    BY DemoConstants
  <2> QED
    BY <2>1 DEF Key
<1>3. Key(WalletB) = 3
  <2>1. \A k \in 1 .. 3 : <<Issuer, WalletA, WalletB>>[k] = WalletB <=> k = 3
    BY DemoConstants
  <2> QED
    BY <2>1 DEF Key
<1> QED
  BY <1>1, <1>2, <1>3, DemoConstants DEF Account

\* Where the program is: one step for each statement and each signature.
LEMMA StepIs ==
    ASSUME DInv, running
    PROVE  /\ Step[Demo] = 1 + Len(signed) + KeptBefore(at)
           /\ Program[Demo] = "full_demo"
           /\ Len(signed) \in 0 .. 6 /\ Step[Demo] \in Nat
<1>1. at \in 1 .. 26 /\ signed \in Seq(Accounts)
  BY TypesOfInv DEF DInv, DemoInv, DemoTypeOK
<1>2. Cardinality(DoneSteps(Kept)) = KeptBefore(at)
  <2>1. DoneSteps(Kept) = Before(at, Kept)
    BY DEF DoneSteps, Before
  <2> QED
    BY <1>1, <2>1, KeptCount
<1>3. Len(signed) \in 0 .. 6
  <2>1. Len(signed) \in Nat /\ \A i \in 1 .. Len(signed) : i <= 6
    BY <1>1 DEF DInv, DemoInv, KeysOnScript
  <2>2. Len(signed) = 0 \/ Len(signed) \in 1 .. Len(signed)
    BY <2>1
  <2>3. Len(signed) <= 6
    BY <2>1, <2>2
  <2>4. \A n \in Nat : n <= 6 => n \in 0 .. 6
    OBVIOUS
  <2> QED
    BY <2>1, <2>3, <2>4
<1>4. Step[Demo] = 1 + Len(signed) + Cardinality(DoneSteps(Kept)) /\ Program[Demo] = "full_demo"
  BY DEF Step, Kept, Program
<1>5. KeptBefore(at) \in Nat
  BY <1>1 DEF KeptBefore
<1> QED
  BY <1>2, <1>3, <1>4, <1>5

LEMMA KeepingAt ==
    ASSUME DInv, running, Step[Demo] \in 1 .. 24
    PROVE  Keeping!Running(Demo) /\ Keeping!At(Demo, Keeping!full_demo[Step[Demo]])
<1>1. Program[Demo] = "full_demo"
  BY StepIs
<1>2. Keeping!Running(Demo)
  BY <1>1 DEF Keeping!Running, Program
<1>3. /\ Step[Demo] <= Len(Keeping!Programs[Program[Demo]])
      /\ Keeping!Programs[Program[Demo]][Step[Demo]] = Keeping!full_demo[Step[Demo]]
  <2>1. Step[Demo] <= 24
    OBVIOUS
  <2> QED
    BY <1>1, <2>1, CustodyProgram
<1>4. Keeping!At(Demo, Keeping!full_demo[Step[Demo]])
  BY ZenonT(30), <1>2, <1>3 DEF Keeping!At, Program, Step
<1> QED
  BY <1>2, <1>4

LEMMA AdvanceStep ==
    ASSUME DInv, DInv', running, running', at' = at + 1, UNCHANGED signed
    PROVE  /\ Step' = IF Script[at][1] \in Kept THEN [Step EXCEPT ![Demo] = @ + 1] ELSE Step
           /\ KeysMade' = IF Script[at][1] = "register" THEN KeysMade + 1 ELSE KeysMade
           /\ UNCHANGED <<Program, Place>>
<1>1. at \in 1 .. 25
  <2>1. at \in 1 .. 26 /\ at' \in 0 .. Len(Script) + 1
    BY TypesOfInv DEF DInv, DemoInv, DemoTypeOK
  <2> QED
    BY <2>1, ScriptHeads
<1>2. \A kinds : DoneSteps(kinds) = Before(at, kinds) /\ DoneSteps(kinds)' = Before(at + 1, kinds)
  BY DEF DoneSteps, Before
<1>3. KeysMade' = IF Script[at][1] = "register" THEN KeysMade + 1 ELSE KeysMade
  <2>1. /\ KeysMade = Cardinality(Before(at, {"register"})) /\ KeysMade \in Nat
        /\ KeysMade' = Cardinality(Before(at + 1, {"register"}))
    BY <1>1, <1>2, BeforeIsNat DEF KeysMade
  <2>2. KeysMade' = KeysMade + (IF Script[at][1] = "register" THEN 1 ELSE 0)
    BY <1>1, <2>1, OneMoreBefore
  <2> QED
    BY <2>1, <2>2
<1>4. /\ Cardinality(DoneSteps(Kept)') = Cardinality(DoneSteps(Kept))
                                            + (IF Script[at][1] \in Kept THEN 1 ELSE 0)
      /\ Cardinality(DoneSteps(Kept)) \in Nat /\ Len(signed) \in Nat
  <2>1. Cardinality(Before(at, Kept)) = KeptBefore(at) /\ KeptBefore(at) \in Nat
    BY <1>1, KeptCount DEF KeptBefore
  <2>2. Cardinality(Before(at + 1, Kept)) = Cardinality(Before(at, Kept))
                                               + (IF Script[at][1] \in Kept THEN 1 ELSE 0)
    BY <1>1, OneMoreBefore
  <2>3. Len(signed) \in Nat
    BY StepIs
  <2> QED
    BY <1>2, <2>1, <2>2, <2>3
<1>5. /\ Step = [p \in {Demo} |-> 1 + Len(signed) + Cardinality(DoneSteps(Kept))]
      /\ Step' = [p \in {Demo} |-> 1 + Len(signed) + Cardinality(DoneSteps(Kept)')]
  BY DEF Step, Kept
<1>6. UNCHANGED <<Program, Place>>
  BY DEF Program, Place
<1> QED
  BY <1>3, <1>4, <1>5, <1>6

\* A step that Custody does not see.
LEMMA UnseenStep ==
    ASSUME UNCHANGED <<running, registered, stored, tracked, signed>>,
           UNCHANGED <<Step, KeysMade>>
    PROVE  UNCHANGED Keeping!vars
<1>1. UNCHANGED <<DiskKeys, DiskAccounts, Program, Place, SignerKeys, IssuerMade, Signed>>
  BY DEF DiskKeys, DiskAccounts, Program, Place, SignerKeys, IssuerMade, Signed
<1> QED
  BY <1>1 DEF Keeping!vars, Keeping!procVars, DiskKeys, DiskAccounts, KeysMade, Program, Step,
     Place, SignerKeys, IssuerMade, Signed

\* The keys and the accounts at each position.
LEMMA FirstKeys ==
    ASSUME NEW n \in Int
    PROVE  /\ {Key(a) : a \in FirstOf(n)} = {k \in 1 .. 3 : k <= n}
           /\ {Account(a).key : a \in FirstOf(n)} = {k \in 1 .. 3 : k <= n}
<1>1. CASE n <= 0
  BY <1>1, FirstAccounts
<1>2. CASE n = 1
  <2>1. FirstOf(n) = {Issuer} /\ {k \in 1 .. 3 : k <= n} = {1}
    BY <1>2, FirstAccounts
  <2> QED
    BY <2>1, AccountKeys
<1>3. CASE n = 2
  <2>1. FirstOf(n) = {Issuer, WalletA} /\ {k \in 1 .. 3 : k <= n} = {1, 2}
    BY <1>3, FirstAccounts
  <2> QED
    BY <2>1, AccountKeys
<1>4. CASE n >= 3
  <2>1. FirstOf(n) = {Issuer, WalletA, WalletB} /\ {k \in 1 .. 3 : k <= n} = {1, 2, 3}
    BY <1>4, FirstAccounts
  <2> QED
    BY <2>1, AccountKeys
<1> QED
  BY <1>1, <1>2, <1>3, <1>4

LEMMA CustodyRegisters ==
    ASSUME DInv, DInv', RegisterKey
    PROVE  Keeping!Next
<1>1. /\ running /\ running' /\ at' = at + 1 /\ Script[at][1] = "register" /\ at \in 1 .. 3
      /\ UNCHANGED <<stored, tracked, signed>> /\ registered = FirstOf(at - 1)
      /\ registered' = FirstOf(at) /\ Len(signed) = 0 /\ tracked = {}
  <2>1. /\ running /\ running' = running /\ at' = at + 1 /\ Script[at][1] = "register"
        /\ at <= Len(Script)
        /\ UNCHANGED <<stored, tracked, signed>>
    BY DEF RegisterKey, Advance, At, dirVars
  <2>2. at \in 1 .. 3
    BY <2>1, Positions, TypesOfInv, ScriptHeads
  <2>3. registered = FirstOf(at - 1) /\ registered' = FirstOf(at' - 1) /\ tracked = FirstOf(at - 8)
    BY <2>1 DEF DInv, DemoInv, KeysOnScript
  <2>4. ~InCall /\ Moved = 0
    BY <2>1, <2>2 DEF DInv, DemoInv, CallOnScript, CallSteps, MovesBefore
  <2>5. Len(signed) = 0
    BY <2>1, <2>4 DEF DInv, DemoInv, KeysOnScript, InCall, Steps
  <2>6. at' - 1 = at /\ at - 8 \in Int /\ at - 8 <= 0
    BY <2>1, <2>2
  <2> QED
    BY <2>1, <2>2, <2>3, <2>5, <2>6, FirstAccounts
<1>2. Step[Demo] = at /\ Keeping!At(Demo, "register_key")
  <2>1. Step[Demo] = at
    BY <1>1, StepIs DEF KeptBefore
  <2>2. Keeping!At(Demo, Keeping!full_demo[at])
    BY <1>1, <2>1, KeepingAt
  <2>3. Keeping!full_demo[at] = "register_key"
    <3>1. at \in 1 .. 3
      BY <1>1
    <3> QED
      BY <3>1, CustodyProgram
  <2> QED
    BY <2>1, <2>2, <2>3
<1>3. /\ Step' = [Step EXCEPT ![Demo] = @ + 1] /\ KeysMade' = KeysMade + 1
      /\ UNCHANGED <<Program, Place>>
  BY <1>1, AdvanceStep DEF Kept
<1>4. KeysMade = at - 1
  <2>1. DoneSteps({"register"}) = Before(at, {"register"})
    BY DEF DoneSteps, Before
  <2> QED
    BY <1>1, <2>1, KeyCount DEF KeysMade
<1>5. SignerKeys' = [SignerKeys EXCEPT ![Demo] = @ \cup {KeysMade + 1}]
  <2>1. SignerKeys = [p \in {Demo} |-> {k \in 1 .. 3 : k <= at - 1}]
        /\ SignerKeys' = [p \in {Demo} |-> {k \in 1 .. 3 : k <= at}]
    <3>1. at \in Int /\ at - 1 \in Int
      BY <1>1
    <3>2. /\ {Key(a) : a \in FirstOf(at - 1)} = {k \in 1 .. 3 : k <= at - 1}
          /\ {Key(a) : a \in FirstOf(at)} = {k \in 1 .. 3 : k <= at}
      BY <3>1, FirstKeys
    <3>3. /\ SignerKeys = [p \in {Demo} |-> {Key(a) : a \in registered}]
          /\ SignerKeys' = [p \in {Demo} |-> {Key(a) : a \in registered'}]
      BY <1>1 DEF SignerKeys
    <3> QED
      BY <1>1, <3>2, <3>3
  <2>2. {k \in 1 .. 3 : k <= at} = {k \in 1 .. 3 : k <= at - 1} \cup {KeysMade + 1}
    BY <1>1, <1>4
  <2> QED
    BY <2>1, <2>2
<1>6. UNCHANGED <<DiskKeys, DiskAccounts, IssuerMade, Signed>>
  BY <1>1 DEF DiskKeys, DiskAccounts, IssuerMade, Signed
<1>7. Keeping!RegisterKey(Demo)
  <2>1. KeysMade < 3
    BY <1>1, <1>4
  <2> QED
    BY <1>2, <1>3, <1>5, <1>6, <2>1 DEF Keeping!RegisterKey, Keeping!Advance, DiskKeys, DiskAccounts,
       KeysMade, Program, Step, Place, SignerKeys, IssuerMade, Signed
<1> QED
  BY <1>7 DEF Keeping!Next, Keeping!Run

LEMMA CustodyStores ==
    ASSUME DInv, DInv', AddKey
    PROVE  Keeping!Next
<1>1. /\ running /\ running' /\ at' = at + 1 /\ Script[at][1] = "add_key" /\ at \in 4 .. 6
      /\ UNCHANGED <<registered, tracked, signed>>
      /\ registered = FirstOf(at - 1) /\ stored = FirstOf(at - 4) /\ stored' = FirstOf(at - 3)
      /\ Len(signed) = 0
  <2>1. /\ running /\ running' = running /\ at' = at + 1 /\ Script[at][1] = "add_key"
        /\ at <= Len(Script) /\ UNCHANGED <<registered, tracked, signed>>
    BY DEF AddKey, Advance, At
  <2>2. at \in 4 .. 6
    BY <2>1, Positions, TypesOfInv, ScriptHeads
  <2>3. registered = FirstOf(at - 1) /\ stored = FirstOf(at - 4) /\ stored' = FirstOf(at' - 4)
    BY <2>1 DEF DInv, DemoInv, KeysOnScript
  <2>4. ~InCall /\ Moved = 0
    BY <2>1, <2>2 DEF DInv, DemoInv, CallOnScript, CallSteps, MovesBefore
  <2>5. Len(signed) = 0
    BY <2>1, <2>4 DEF DInv, DemoInv, KeysOnScript, InCall, Steps
  <2>6. at' - 4 = at - 3
    BY <2>1, <2>2
  <2> QED
    BY <2>1, <2>2, <2>3, <2>5, <2>6
<1>2. Keeping!At(Demo, "add_key")
  <2>1. Step[Demo] = at
    BY <1>1, StepIs DEF KeptBefore
  <2>2. Keeping!At(Demo, Keeping!full_demo[at])
    BY <1>1, <2>1, KeepingAt
  <2>3. Keeping!full_demo[at] = "add_key"
    <3>1. at = 4 \/ at = 5 \/ at = 6
      BY <1>1
    <3> QED
      BY <3>1, CustodyProgram
  <2> QED
    BY <2>2, <2>3
<1>3. /\ Step' = [Step EXCEPT ![Demo] = @ + 1] /\ KeysMade' = KeysMade
      /\ UNCHANGED <<Program, Place>>
  BY <1>1, AdvanceStep DEF Kept
<1>4. /\ SignerKeys[Demo] = {1, 2, 3} /\ DiskKeys[Demo] = {k \in 1 .. 3 : k <= at - 4}
      /\ DiskKeys' = [DiskKeys EXCEPT ![Demo] = @ \cup {at - 3}]
  <2>1. at - 1 \in Int /\ at - 4 \in Int /\ at - 3 \in Int
    BY <1>1
  <2>2. /\ {Key(a) : a \in FirstOf(at - 1)} = {k \in 1 .. 3 : k <= at - 1}
        /\ {Key(a) : a \in FirstOf(at - 4)} = {k \in 1 .. 3 : k <= at - 4}
        /\ {Key(a) : a \in FirstOf(at - 3)} = {k \in 1 .. 3 : k <= at - 3}
    BY <2>1, FirstKeys
  <2>3. {k \in 1 .. 3 : k <= at - 1} = {1, 2, 3}
        /\ {k \in 1 .. 3 : k <= at - 3} = {k \in 1 .. 3 : k <= at - 4} \cup {at - 3}
    BY <1>1
  <2>4. /\ SignerKeys[Demo] = {Key(a) : a \in registered} /\ DiskKeys[Demo] = {Key(a) : a \in stored}
    BY <1>1 DEF SignerKeys, DiskKeys
  <2>5. DiskKeys' = [DiskKeys EXCEPT ![Demo] = {Key(a) : a \in stored'}]
    BY DEF DiskKeys
  <2> QED
    BY <1>1, <2>2, <2>3, <2>4, <2>5
<1>5. UNCHANGED <<DiskAccounts, SignerKeys, IssuerMade, Signed>>
  BY <1>1 DEF DiskAccounts, SignerKeys, IssuerMade, Signed
<1>6. Keeping!AddKey(Demo)
  <2>1. at - 3 \in SignerKeys[Demo] \ DiskKeys[Place[Demo].keystore]
        /\ Place[Demo].keystore = Demo
    BY <1>1, <1>4 DEF Place
  <2>2. \E k \in SignerKeys[Demo] \ DiskKeys[Place[Demo].keystore] :
            DiskKeys' = [DiskKeys EXCEPT ![Place[Demo].keystore] = @ \cup {k}]
    BY <1>4, <2>1
  <2> QED
    BY <1>2, <1>3, <1>5, <2>2 DEF Keeping!AddKey, Keeping!Advance, Keeping!KeysOnDisk, DiskKeys,
       DiskAccounts, KeysMade, Program, Step, Place, SignerKeys, IssuerMade, Signed
<1> QED
  BY <1>6 DEF Keeping!Next, Keeping!Run

LEMMA CustodyAdds ==
    ASSUME DInv, DInv', AddAccount
    PROVE  Keeping!Next
<1>1. /\ running /\ running' /\ at' = at + 1 /\ Script[at][1] = "add_account" /\ at \in 8 .. 10
      /\ UNCHANGED <<registered, stored, signed>>
      /\ registered = FirstOf(at - 1) /\ tracked = FirstOf(at - 8) /\ tracked' = FirstOf(at - 7)
      /\ Len(signed) = 0
  <2>1. /\ running /\ running' = running /\ at' = at + 1 /\ Script[at][1] = "add_account"
        /\ at <= Len(Script) /\ UNCHANGED <<registered, stored, signed>>
    BY DEF AddAccount, Advance, At
  <2>2. at \in 8 .. 10
    BY <2>1, Positions, TypesOfInv, ScriptHeads
  <2>3. registered = FirstOf(at - 1) /\ tracked = FirstOf(at - 8) /\ tracked' = FirstOf(at' - 8)
    BY <2>1 DEF DInv, DemoInv, KeysOnScript
  <2>4. ~InCall /\ Moved = 0
    BY <2>1, <2>2 DEF DInv, DemoInv, CallOnScript, CallSteps, MovesBefore
  <2>5. Len(signed) = 0
    BY <2>1, <2>4 DEF DInv, DemoInv, KeysOnScript, InCall, Steps
  <2>6. at' - 8 = at - 7
    BY <2>1, <2>2
  <2> QED
    BY <2>1, <2>2, <2>3, <2>5, <2>6
<1>2. /\ at = 8 => Keeping!At(Demo, "add_issuer")
      /\ at \in {9, 10} => Keeping!At(Demo, "add_wallet")
  <2>1. Step[Demo] = at - 1
    BY <1>1, StepIs DEF KeptBefore
  <2>2. Keeping!At(Demo, Keeping!full_demo[at - 1])
    BY <1>1, <2>1, KeepingAt
  <2>3. /\ at = 8 => Keeping!full_demo[at - 1] = "add_issuer"
        /\ at \in {9, 10} => Keeping!full_demo[at - 1] = "add_wallet"
    BY CustodyProgram
  <2> QED
    BY <2>2, <2>3
<1>3. /\ Step' = [Step EXCEPT ![Demo] = @ + 1] /\ KeysMade' = KeysMade
      /\ UNCHANGED <<Program, Place>>
  BY <1>1, AdvanceStep DEF Kept
<1>4. PICK b \in {Issuer, WalletA, WalletB} :
          /\ tracked' = tracked \cup {b} /\ b \notin tracked
          /\ Account(b) = [kind |-> IF at = 8 THEN "issuer" ELSE "wallet", key |-> at - 7]
          /\ (b = Issuer <=> at = 8) /\ (Issuer \in tracked <=> at # 8)
  <2>1. CASE at = 8
    <3>1. tracked = {} /\ tracked' = {Issuer}
      BY <1>1, <2>1, FirstAccounts
    <3> QED
      BY <2>1, <3>1, AccountKeys
  <2>2. CASE at = 9
    <3>1. tracked = {Issuer} /\ tracked' = {Issuer, WalletA}
      BY <1>1, <2>2, FirstAccounts
    <3> QED
      BY <2>2, <3>1, AccountKeys, DemoConstants
  <2>3. CASE at = 10
    <3>1. tracked = {Issuer, WalletA} /\ tracked' = {Issuer, WalletA, WalletB}
      BY <1>1, <2>3, FirstAccounts
    <3> QED
      BY <2>3, <3>1, AccountKeys, DemoConstants
  <2> QED
    BY <1>1, <2>1, <2>2, <2>3
<1>5. /\ DiskAccounts[Demo] = {Account(a) : a \in tracked}
      /\ DiskAccounts' = [DiskAccounts EXCEPT ![Demo] = @ \cup {Account(b)}]
  <2>1. /\ DiskAccounts[Demo] = {Account(a) : a \in tracked}
        /\ DiskAccounts' = [DiskAccounts EXCEPT ![Demo] = {Account(a) : a \in tracked'}]
    BY DEF DiskAccounts
  <2>2. {Account(a) : a \in tracked'} = {Account(a) : a \in tracked} \cup {Account(b)}
    BY <1>4
  <2> QED
    BY <2>1, <2>2
<1>6. at - 7 \in SignerKeys[Demo] \ {x.key : x \in DiskAccounts[Demo]}
  <2>1. at - 1 \in Int /\ at - 8 \in Int
    BY <1>1
  <2>2. /\ {Key(a) : a \in FirstOf(at - 1)} = {k \in 1 .. 3 : k <= at - 1}
        /\ {Account(a).key : a \in FirstOf(at - 8)} = {k \in 1 .. 3 : k <= at - 8}
    BY <2>1, FirstKeys
  <2>3. SignerKeys[Demo] = {Key(a) : a \in registered}
    BY <1>1 DEF SignerKeys
  <2>4. {x.key : x \in DiskAccounts[Demo]} = {Account(a).key : a \in tracked}
    BY <1>5
  <2>5. at - 7 \in 1 .. 3 /\ at - 7 <= at - 1 /\ ~(at - 7 <= at - 8)
    BY <1>1
  <2> QED
    BY <1>1, <2>2, <2>3, <2>4, <2>5
<1>7. IssuerMade' = IF at = 8 THEN [IssuerMade EXCEPT ![Demo] = Account(b)] ELSE IssuerMade
  <2>1. CASE at = 8
    <3>1. b = Issuer /\ Issuer \in tracked'
      BY <1>4, <2>1
    <3>2. IssuerMade' = [IssuerMade EXCEPT ![Demo] = Account(Issuer)]
      BY <1>1, <3>1 DEF IssuerMade
    <3> QED
      BY <2>1, <3>1, <3>2
  <2>2. CASE at # 8
    <3>1. Issuer \in tracked /\ Issuer \in tracked'
      BY <1>4, <2>2
    <3>2. IssuerMade' = IssuerMade
      BY <1>1, <3>1 DEF IssuerMade
    <3> QED
      BY <2>2, <3>2
  <2> QED
    BY <2>1, <2>2
<1>8. UNCHANGED <<DiskKeys, SignerKeys, Signed>>
  BY <1>1 DEF DiskKeys, SignerKeys, Signed
<1>9. ASSUME NEW kind, kind = IF at = 8 THEN "issuer" ELSE "wallet"
      PROVE  Keeping!AddAccount(Demo, kind)
  <2>1. Place[Demo].store = Demo /\ (kind = "issuer" <=> at = 8)
        /\ Account(b) = [kind |-> kind, key |-> at - 7]
    BY <1>4, <1>9 DEF Place
  <2>2. \E k \in SignerKeys[Demo] \ {x.key : x \in DiskAccounts[Place[Demo].store]} :
            /\ DiskAccounts' = [DiskAccounts EXCEPT ![Place[Demo].store] = @ \cup {[kind |-> kind, key |-> k]}]
            /\ IssuerMade' = IF kind = "issuer"
                             THEN [IssuerMade EXCEPT ![Demo] = [kind |-> kind, key |-> k]] ELSE IssuerMade
    BY <1>5, <1>6, <1>7, <2>1
  <2> QED
    BY <1>3, <1>8, <2>2 DEF Keeping!AddAccount, Keeping!Advance, Keeping!Accounts, DiskKeys,
       DiskAccounts, KeysMade, Program, Step, Place, SignerKeys, IssuerMade, Signed
<1>10. CASE at = 8
  <2>1. Keeping!DeployIssuerAccount(Demo)
    BY <1>2, <1>9, <1>10 DEF Keeping!DeployIssuerAccount
  <2> QED
    BY <2>1 DEF Keeping!Next, Keeping!Run
<1>11. CASE at # 8
  <2>1. Keeping!CreateWalletAccount(Demo)
    BY <1>1, <1>2, <1>9, <1>11 DEF Keeping!CreateWalletAccount
  <2> QED
    BY <2>1 DEF Keeping!Next, Keeping!Run
<1> QED
  BY <1>10, <1>11

\* Once the accounts are made, they and their keys are there until the end.
LEMMA AllAdded ==
    ASSUME DInv, running, at >= 11
    PROVE  /\ registered = {Issuer, WalletA, WalletB} /\ tracked = {Issuer, WalletA, WalletB}
           /\ SignerKeys[Demo] = {1, 2, 3} /\ IssuerMade[Demo] = Account(Issuer)
           /\ DiskAccounts[Place[Demo].store] =
                  {Account(Issuer), Account(WalletA), Account(WalletB)}
<1>1. at \in 11 .. 26 /\ registered = FirstOf(at - 1) /\ tracked = FirstOf(at - 8)
  <2>1. at \in 11 .. 26
    BY TypesOfInv
  <2> QED
    BY <2>1 DEF DInv, DemoInv, KeysOnScript
<1>2. at - 1 \in Int /\ at - 1 >= 3 /\ at - 8 \in Int /\ at - 8 >= 3
  BY <1>1
<1>3. registered = {Issuer, WalletA, WalletB} /\ tracked = {Issuer, WalletA, WalletB}
  BY <1>1, <1>2, FirstAccounts
<1>4. /\ SignerKeys[Demo] = {Key(a) : a \in registered} /\ IssuerMade[Demo] = Account(Issuer)
      /\ DiskAccounts[Place[Demo].store] = {Account(a) : a \in tracked}
  BY <1>3 DEF SignerKeys, IssuerMade, DiskAccounts, Place
<1> QED
  BY <1>3, <1>4, AccountKeys

LEMMA CustodyReads ==
    ASSUME DInv, DInv', ReadSupply \/ ReadWallet
    PROVE  Keeping!Next
<1>1. /\ running /\ running' /\ at' = at + 1 /\ at \in 14 .. 25
      /\ UNCHANGED <<registered, stored, tracked, signed>>
      /\ \/ at \in {14, 19, 23} /\ Script[at][1] = "supply"
         \/ at \in {15, 16, 20, 21, 24, 25} /\ Script[at][1] = "balance"
  <2>1. /\ running /\ running' = running /\ at' = at + 1 /\ at <= Len(Script)
        /\ UNCHANGED <<registered, stored, tracked, signed>>
        /\ Script[at][1] = "supply" \/ Script[at][1] = "balance"
    BY DEF ReadSupply, ReadWallet, Show, Advance, At, dirVars
  <2> QED
    BY <2>1, Positions, TypesOfInv, ScriptHeads
<1>2. Len(signed) = MovesBefore(at)
  <2>1. ~InCall /\ Moved = MovesBefore(at)
    BY <1>1 DEF DInv, DemoInv, CallOnScript, CallSteps
  <2> QED
    BY <1>1, <2>1 DEF DInv, DemoInv, KeysOnScript, InCall, Steps
<1>3. /\ at \in {14, 19, 23} => Keeping!At(Demo, "read_issuer")
      /\ at \notin {14, 19, 23} => Keeping!At(Demo, "read_wallet")
  <2>1. /\ at \in {14, 19, 23} => Step[Demo] \in {12, 17, 22}
        /\ at \in {15, 16, 20, 21, 24, 25} => Step[Demo] \in {13, 14, 18, 19, 23, 24}
    BY <1>1, <1>2, StepIs DEF KeptBefore, MovesBefore
  <2>2. Keeping!At(Demo, Keeping!full_demo[Step[Demo]])
    BY <1>1, <2>1, KeepingAt
  <2> QED
    BY <1>1, <2>1, <2>2, CustodyProgram
<1>4. /\ Step' = [Step EXCEPT ![Demo] = @ + 1] /\ KeysMade' = KeysMade
      /\ UNCHANGED <<Program, Place>>
  BY <1>1, AdvanceStep DEF Kept
<1>5. UNCHANGED <<DiskKeys, DiskAccounts, SignerKeys, IssuerMade, Signed>>
  BY <1>1 DEF DiskKeys, DiskAccounts, SignerKeys, IssuerMade, Signed
<1>6. \/ Keeping!At(Demo, "read_wallet") /\ \E a \in DiskAccounts[Place[Demo].store] : a.kind = "wallet"
      \/ Keeping!At(Demo, "read_issuer") /\ IssuerMade[Demo] \in DiskAccounts[Place[Demo].store]
  <2>1. at >= 11
    BY <1>1
  <2>2. Account(WalletA).kind = "wallet"
    BY AccountKeys
  <2> QED
    BY <1>1, <1>3, <2>1, <2>2, AllAdded
<1>7. Keeping!Read(Demo)
  BY <1>4, <1>5, <1>6 DEF Keeping!Read, Keeping!Advance, Keeping!Accounts, DiskKeys,
     DiskAccounts, KeysMade, Program, Step, Place, SignerKeys, IssuerMade, Signed
<1> QED
  BY <1>7 DEF Keeping!Next, Keeping!Run

\* A transaction of the demo is a signature of Custody by the same account.
LEMMA CustodySigns ==
    ASSUME DInv, DInv', RunOperation, Signs
    PROVE  Keeping!Next
<1>1. /\ running /\ running' /\ at' = at /\ signed' = Append(signed, tx[Demo].acct)
      /\ UNCHANGED <<registered, stored, tracked>> /\ pc[Demo] = "execute"
  BY DEF RunOperation, Signs, dirVars
<1>2. InCall /\ CallKind /\ IsMove(tx[Demo], Moved + 1) /\ Moved < MovesBefore(at + 1)
      /\ Len(signed) = Moved /\ signed \in Seq(Accounts) /\ tx[Demo].acct \in Accounts
  <2>1. InCall
    BY <1>1 DEF InCall, Steps
  <2> QED
    BY <1>1, <2>1, InCallFacts, TypesOfInv DEF DInv, DemoInv, CallOnScript, KeysOnScript, DemoTypeOK
<1>3. \/ at = 12 /\ Moved = 0
      \/ at = 13 /\ Moved = 1
      \/ at = 17 /\ Moved = 2
      \/ at = 18 /\ Moved = 3
      \/ at = 22 /\ Moved \in {4, 5}
  BY <1>1, <1>2 DEF CallKind, MovesBefore
<1> DEFINE a == Account(tx[Demo].acct)
<1>4. /\ Moved \in {0, 5} => Keeping!At(Demo, "sign_issuer") /\ a = Account(Issuer)
      /\ Moved \notin {0, 5} => Keeping!At(Demo, "sign_wallet") /\ a.kind = "wallet"
      /\ a \in {Account(Issuer), Account(WalletA), Account(WalletB)}
  <2>1. /\ Moved \in {0, 5} => Step[Demo] \in {10, 21}
        /\ Moved \notin {0, 5} => Step[Demo] \in {11, 15, 16, 20}
    <3>1. Step[Demo] = 1 + Moved + KeptBefore(at)
      BY <1>1, <1>2, StepIs
    <3>2. /\ KeptBefore(12) = 9 /\ KeptBefore(13) = 9 /\ KeptBefore(17) = 12
          /\ KeptBefore(18) = 12 /\ KeptBefore(22) = 15
      BY DEF KeptBefore
    <3> QED
      BY <1>3, <3>1, <3>2
  <2>2. Keeping!At(Demo, Keeping!full_demo[Step[Demo]])
    BY <1>1, <2>1, KeepingAt
  <2>3. /\ Moved \in {0, 5} => tx[Demo].acct = Issuer
        /\ Moved \notin {0, 5} => tx[Demo].acct \in {WalletA, WalletB}
    BY <1>2, <1>3, MoveIs DEF IsMove
  <2> QED
    BY <2>1, <2>2, <2>3, CustodyProgram, AccountKeys
<1>5. /\ Step' = [Step EXCEPT ![Demo] = @ + 1] /\ KeysMade' = KeysMade
      /\ UNCHANGED <<Program, Place>>
  <2>1. Len(signed') = Len(signed) + 1 /\ DoneSteps(Kept)' = DoneSteps(Kept)
        /\ KeysMade' = KeysMade
    BY <1>1, <1>2 DEF DoneSteps, KeysMade
  <2>2. /\ Step = [p \in {Demo} |-> 1 + Len(signed) + Cardinality(DoneSteps(Kept))]
        /\ Step' = [p \in {Demo} |-> 1 + Len(signed') + Cardinality(DoneSteps(Kept)')]
    BY <1>1 DEF Step, Kept
  <2>3. Cardinality(DoneSteps(Kept)) \in Nat /\ Len(signed) \in Nat
    <3>1. at \in Int /\ DoneSteps(Kept) = Before(at, Kept)
      BY <1>3 DEF DoneSteps, Before
    <3> QED
      BY <1>2, <3>1, BeforeIsNat
  <2> QED
    BY <1>1, <2>1, <2>2, <2>3 DEF Program, Place
<1>6. UNCHANGED <<DiskKeys, DiskAccounts, SignerKeys, IssuerMade>>
  BY <1>1 DEF DiskKeys, DiskAccounts, SignerKeys, IssuerMade
<1> DEFINE g == [acct |-> a, proc |-> Demo, program |-> "full_demo"]
<1>7. Signed' = Signed \cup {g}
  <2>1. /\ Len(signed') = Len(signed) + 1 /\ Len(signed) \in Nat
        /\ \A i \in 1 .. Len(signed) : signed'[i] = signed[i]
        /\ signed'[Len(signed) + 1] = tx[Demo].acct
    BY <1>1, <1>2
  <2>2. 1 .. Len(signed') = (1 .. Len(signed)) \cup {Len(signed) + 1}
    BY <2>1
  <2> QED
    BY <2>1, <2>2 DEF Signed
<1>8. at >= 11
  BY <1>3
<1>9. a.key \in SignerKeys[Demo] /\ a \in DiskAccounts[Place[Demo].store]
  BY <1>1, <1>4, <1>8, AllAdded, AccountKeys
<1> HIDE DEF a
<1>10. Keeping!SignFor(Demo, a)
  <2>1. Keeping!SignPrehash(Demo, a.key)
    BY <1>9 DEF Keeping!SignPrehash, SignerKeys
  <2>2. Keeping!Signature(Demo, a) = g
    BY <1>1, StepIs DEF Keeping!Signature, Program
  <2>3. g \in Keeping!GetSignature(Demo, a)
    BY <2>1, <2>2 DEF Keeping!GetSignature
  <2>4. \E z \in Keeping!GetSignature(Demo, a) : Signed' = Signed \cup {z}
    BY <1>7, <2>3
  <2> QED
    BY <1>5, <1>6, <1>9, <2>4 DEF Keeping!SignFor, Keeping!Accounts, Keeping!Advance, DiskKeys,
       DiskAccounts, KeysMade, Program, Step, Place, SignerKeys, IssuerMade, Signed
<1>11. CASE Moved \in {0, 5}
  <2>1. Keeping!SignAsIssuer(Demo)
    <3>1. Keeping!At(Demo, "sign_issuer") /\ IssuerMade[Demo] = a
      BY <1>1, <1>4, <1>8, <1>11, AllAdded
    <3> QED
      BY <1>10, <3>1 DEF Keeping!SignAsIssuer, IssuerMade
  <2> QED
    BY <2>1 DEF Keeping!Next, Keeping!Run
<1>12. CASE Moved \notin {0, 5}
  <2>1. Keeping!SignAsWallet(Demo)
    <3>1. Keeping!At(Demo, "sign_wallet") /\ a.kind = "wallet" /\ a \in DiskAccounts[Place[Demo].store]
      BY <1>4, <1>9, <1>12
    <3> QED
      BY <1>10, <3>1 DEF Keeping!SignAsWallet, Keeping!Accounts, DiskAccounts, Place
  <2> QED
    BY <2>1 DEF Keeping!Next, Keeping!Run
<1> QED
  BY <1>11, <1>12

\* The process ends; a failure removes the temporary directory, a kill does not.
LEMMA CustodyEnds ==
    ASSUME DInv, running, running' = FALSE, UNCHANGED <<at, signed>>
    PROVE  /\ (stored' = {} /\ tracked' = {}) => Keeping!StepFails(Demo)
           /\ UNCHANGED <<stored, tracked>> => Keeping!Killed(Demo)
<1>1. /\ Program' = [Program EXCEPT ![Demo] = "none"] /\ Step' = [Step EXCEPT ![Demo] = 1]
      /\ Place' = [Place EXCEPT ![Demo] = [store |-> Demo, keystore |-> Demo]]
      /\ SignerKeys' = [SignerKeys EXCEPT ![Demo] = {}]
      /\ IssuerMade' = [IssuerMade EXCEPT ![Demo] = [kind |-> "none", key |-> 0]]
  BY DEF Program, Step, Place, SignerKeys, IssuerMade, NoIssuer
<1>2. Keeping!End(Demo)
  BY <1>1 DEF Keeping!End, Keeping!TempDir, Keeping!NoAccount, Program, Step, Place, SignerKeys, IssuerMade
<1>3. KeysMade' = KeysMade /\ Signed' = Signed
  BY DEF KeysMade, DoneSteps, Signed
<1>4. Program[Demo] = "full_demo" /\ Keeping!Running(Demo)
  BY StepIs DEF Keeping!Running, Program
<1>5. ASSUME stored' = {}, tracked' = {}
      PROVE  Keeping!RemoveTempDir(Demo)
  <2>1. /\ DiskKeys' = [DiskKeys EXCEPT ![Demo] = {}]
        /\ DiskAccounts' = [DiskAccounts EXCEPT ![Demo] = {}]
    BY <1>5 DEF DiskKeys, DiskAccounts
  <2>2. Keeping!EmptyTempDir(Demo)
    BY <2>1 DEF Keeping!EmptyTempDir, DiskKeys, DiskAccounts
  <2> QED
    BY <1>4, <2>2 DEF Keeping!RemoveTempDir, Program
<1>6. ASSUME stored' = {}, tracked' = {}
      PROVE  Keeping!StepFails(Demo)
  BY <1>2, <1>3, <1>4, <1>5, <1>6 DEF Keeping!StepFails, KeysMade, Signed
<1>7. ASSUME UNCHANGED <<stored, tracked>>
      PROVE  Keeping!Killed(Demo)
  <2>1. UNCHANGED <<DiskKeys, DiskAccounts>>
    BY <1>7 DEF DiskKeys, DiskAccounts
  <2> QED
    BY <1>2, <1>3, <1>4, <2>1 DEF Keeping!Killed, DiskKeys, DiskAccounts, KeysMade, Signed
<1> QED
  BY <1>6, <1>7

LEMMA CustodyRuns ==
    ASSUME DInv, DInv', RunOperation
    PROVE  Keeping!Next \/ UNCHANGED Keeping!vars
<1>1. CASE Signs
  BY <1>1, CustodySigns
<1>2. CASE ~Signs
  <2>1. /\ running /\ UNCHANGED <<registered, signed>>
        /\ at' = (IF pc'[Demo] = "ok" THEN at + 1 ELSE at)
        /\ running' = (pc'[Demo] \notin {"err", "idle"})
        /\ IF pc'[Demo] = "err" THEN stored' = {} /\ tracked' = {} ELSE UNCHANGED <<stored, tracked>>
    BY <1>2 DEF RunOperation, RemoveTempDir, dirVars
  <2>2. CASE pc'[Demo] \in {"err", "idle"}
    <3>1. at' = at /\ running' = FALSE
      BY <2>1, <2>2
    <3>2. Keeping!StepFails(Demo) \/ Keeping!Killed(Demo)
      BY <2>1, <2>2, <3>1, CustodyEnds
    <3> QED
      BY <3>2 DEF Keeping!Next
  <2>3. CASE pc'[Demo] = "ok"
    <3>1. running' /\ at' = at + 1 /\ UNCHANGED <<stored, tracked, running>>
      BY <2>1, <2>3
    <3>2. Script[at][1] \notin Kept
      <4>1. Script[at][1] \in CallSteps
        BY LogInCall DEF RunOperation, DInv, DemoInv, CallOnScript
      <4> QED
        BY <4>1 DEF CallSteps, Kept
    <3>3. UNCHANGED <<Step, KeysMade>>
      BY <2>1, <3>1, <3>2, AdvanceStep DEF Kept
    <3> QED
      BY <2>1, <3>1, <3>3, UnseenStep
  <2>4. CASE pc'[Demo] \notin {"err", "idle", "ok"}
    <3>1. UNCHANGED <<at, running, stored, tracked>>
      BY <2>1, <2>4
    <3>2. UNCHANGED <<Step, KeysMade>>
      <4>1. UNCHANGED <<at, running, signed>>
        BY <2>1, <3>1
      <4> QED
        BY <4>1 DEF Step, KeysMade, DoneSteps
    <3> QED
      BY <2>1, <3>1, <3>2, UnseenStep
  <2> QED
    BY <2>2, <2>3, <2>4
<1> QED
  BY <1>1, <1>2

LEMMA CustodyFinishes ==
    ASSUME DInv, StatementFails \/ Finish
    PROVE  Keeping!Next
<1>1. /\ running /\ running' = FALSE /\ UNCHANGED <<at, signed>> /\ stored' = {} /\ tracked' = {}
  BY DEF StatementFails, Finish, RemoveTempDir
<1>2. Keeping!StepFails(Demo)
  BY <1>1, CustodyEnds
<1> QED
  BY <1>2 DEF Keeping!Next

LEMMA CustodyLaunches ==
    ASSUME DInv, DInv', Launch
    PROVE  Keeping!Next
<1>1. /\ at = 0 /\ at' = 1 /\ running = FALSE /\ running' = TRUE
      /\ UNCHANGED <<registered, stored, tracked, signed>>
      /\ registered = {} /\ stored = {} /\ tracked = {} /\ signed = <<>>
  BY TypesOfInv DEF Launch, DInv, DemoInv, DemoTypeOK, NotLaunched, dirVars
<1>2. /\ Program' = [Program EXCEPT ![Demo] = "full_demo"]
      /\ Place' = [Place EXCEPT ![Demo] = [store |-> Demo, keystore |-> Demo]]
      /\ DiskKeys' = [DiskKeys EXCEPT ![Demo] = {}]
      /\ DiskAccounts' = [DiskAccounts EXCEPT ![Demo] = {}]
      /\ UNCHANGED <<SignerKeys, IssuerMade, Signed>>
  BY <1>1 DEF Program, Place, DiskKeys, DiskAccounts, SignerKeys, IssuerMade, Signed
<1>3. KeysMade' = KeysMade /\ Step' = Step
  <2>1. /\ \A kinds : DoneSteps(kinds) = Before(0, kinds) /\ DoneSteps(kinds)' = Before(1, kinds)
    BY <1>1 DEF DoneSteps, Before
  <2>2. KeysMade = 0 /\ KeysMade' = 0 /\ Cardinality(DoneSteps(Kept)') = 0
    BY <2>1, NoneBefore DEF KeysMade
  <2>3. /\ Step = [p \in {Demo} |-> 1]
        /\ Step' = [p \in {Demo} |-> 1 + Len(signed) + Cardinality(DoneSteps(Kept)')]
    BY <1>1 DEF Step, Kept
  <2>4. Len(signed) = 0
    BY <1>1
  <2> QED
    BY <2>2, <2>3, <2>4
<1>4. ~Keeping!Running(Demo)
  BY <1>1 DEF Keeping!Running
<1>5. Keeping!LaunchDemo(Demo)
  BY <1>2, <1>3, <1>4 DEF Keeping!LaunchDemo, Keeping!Launch, Keeping!EmptyTempDir, Keeping!TempDir,
     DiskKeys, DiskAccounts, KeysMade, Program, Step, Place, SignerKeys, IssuerMade, Signed
<1> QED
  BY <1>5 DEF Keeping!Next

LEMMA CustodySteps ==
    DInv /\ DInv' /\ [DemoNext]_<<vars, demoVars>> => [Keeping!Next]_(Keeping!vars)
<1> SUFFICES ASSUME DInv, DInv', [DemoNext]_<<vars, demoVars>>
             PROVE  Keeping!Next \/ UNCHANGED Keeping!vars
  OBVIOUS
<1>1. CASE StartOperation \/ MakeBlock \/ UNCHANGED <<vars, demoVars>>
  <2>1. UNCHANGED demoVars
    BY <1>1 DEF StartOperation, MakeBlock
  <2>2. UNCHANGED <<at, running, registered, stored, tracked, signed>>
    BY <2>1 DEF demoVars, dirVars
  <2>3. UNCHANGED <<Step, KeysMade>>
    BY <2>2 DEF Step, KeysMade, DoneSteps
  <2> QED
    BY <2>2, <2>3, UnseenStep
<1> QED
  BY <1>1, CustodyLaunches, CustodyRegisters, CustodyStores, CustodyAdds, CustodyReads,
     CustodyRuns, CustodyFinishes DEF DemoNext

LEMMA CustodyStarts == DemoInit => Keeping!Init
<1> SUFFICES ASSUME DemoInit
             PROVE  Keeping!Init
  OBVIOUS
<1>1. at = 0 /\ running = FALSE /\ registered = {} /\ stored = {} /\ tracked = {} /\ signed = <<>>
  BY DEF DemoInit
<1>2. KeysMade = 0
  <2>1. DoneSteps({"register"}) = Before(0, {"register"})
    BY <1>1 DEF DoneSteps, Before
  <2> QED
    BY <2>1, NoneBefore DEF KeysMade
<1>3. /\ DiskKeys = [d \in {"./keystore"} \cup {Demo} |-> {}]
      /\ DiskAccounts = [d \in {"./store.sqlite3"} \cup {Demo} |-> {}]
      /\ Program = [p \in {Demo} |-> "none"] /\ Step = [p \in {Demo} |-> 1]
      /\ SignerKeys = [p \in {Demo} |-> {}]
      /\ IssuerMade = [p \in {Demo} |-> [kind |-> "none", key |-> 0]]
  BY <1>1 DEF DiskKeys, DiskAccounts, Program, Step, SignerKeys, IssuerMade, NoIssuer
<1>4. Signed = {}
  <2>1. 1 .. Len(signed) = {}
    BY <1>1
  <2> QED
    BY <2>1 DEF Signed
<1> QED
  BY <1>2, <1>3, <1>4 DEF Keeping!Init, Keeping!TempDir, Keeping!NoAccount, NoIssuer,
     DiskKeys, DiskAccounts, KeysMade, Program, Step, Place, SignerKeys, IssuerMade, Signed

\* full_demo keeps and uses its keys as Custody says: keys before accounts,
\* signatures of the process's own signer only, in the order of the program.
THEOREM DemoKeepsCustody == DemoSpec => ImplementsCustody
<1>1. DemoInit => Keeping!Init
  BY CustodyStarts
<1>2. DInv /\ DInv' /\ [DemoNext]_<<vars, demoVars>> => [Keeping!Next]_(Keeping!vars)
  BY CustodySteps
<1> QED
  BY <1>1, <1>2, DemoInvariant, PTL DEF DemoSpec, ImplementsCustody, Keeping!Spec
=============================================================================
