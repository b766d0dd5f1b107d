-------------------------- MODULE OperationsProofs --------------------------
(***************************************************************************)
(* Proofs about Operations, for any processes, stores, wallets, faults and *)
(* bounds: types, what stores know, notes and reported payments.           *)
(***************************************************************************)
EXTENDS Operations, TLAPS

BlocksBehindNode == \A a \in Accounts : committed[a] <= Nonce(a)

TypeInv == TypeOK /\ BlocksBehindNode

LEMMA ConstantFacts ==
    /\ Issuer \in Accounts
    /\ NoCall \in Calls
    /\ NoTx \in Requests
    /\ MaxNotes \in Nat
    /\ MaxAttempts \in Nat \ {0}
    /\ Steps \cap Results = {}
BY NotesAssumption, OperationsAssumption
   DEF Accounts, NoCall, Calls, Ops, NoTx, Requests, Steps, Results

\* The notes that the accepted transactions create and consume are notes.
LEMMA LogNotes ==
    ASSUME TypeOK, NEW a \in Accounts, NEW k \in Nat, k <= Nonce(a)
    PROVE  InsUpTo(a, k) \subseteq NoteSet /\ OutsUpTo(a, k) \subseteq NoteSet
<1>1. \A i \in 1 .. k : log[a][i] \in Effects
  BY DEF TypeOK, Nonce
<1> QED
  BY <1>1 DEF InsUpTo, OutsUpTo, Effects

LEMMA InBlockNotes ==
    ASSUME TypeInv
    PROVE  InBlock \subseteq NoteSet
<1>1. \A a \in Accounts : committed[a] \in Nat /\ committed[a] <= Nonce(a)
  BY DEF TypeInv, TypeOK, BlocksBehindNode
<1> QED
  BY <1>1, LogNotes DEF TypeInv, InBlock

\* What Collect puts into the request: consumable notes of the poller.
LEMMA CollectStep ==
    ASSUME NEW p \in Procs, Collect(p)
    PROVE  \E notes \in SUBSET Consumable(p) :
               /\ tx' = [tx EXCEPT ![p] = [acct |-> Poller(p), nonce |-> 0,
                                           ins |-> notes, outs |-> {}]]
               /\ pc' = [pc EXCEPT ![p] = "execute"]
BY DEF Collect, Converted, Goto

LEMMA ReturnType ==
    ASSUME TypeOK, NEW p \in Procs, NEW r \in Results, Return(p, r)
    PROVE  /\ pc' \in [Procs -> Steps \cup Results]
           /\ call' \in [Procs -> Calls]
           /\ tx' \in [Procs -> Requests]
           /\ attempt' \in [Procs -> 0 .. MaxAttempts]
BY ConstantFacts DEF Return, Goto, TypeOK

LEMMA CreateNoteType ==
    ASSUME TypeInv, NEW p \in Procs, NEW op \in Ops, NEW a \in Accounts,
           NEW t \in Accounts, NEW m \in Amounts, CreateNote(p, op, a, t, m)
    PROVE  TypeInv'
<1> DEFINE n == [id |-> serial + 1, target |-> t, amount |-> m]
<1>1. n \in NoteSet /\ serial + 1 \in 0 .. MaxNotes
  BY ConstantFacts DEF CreateNote, TypeInv, TypeOK, NoteSet
<1>2. [op |-> op, acct |-> a, outs |-> {n}] \in Calls
  BY <1>1 DEF Calls
<1>3. [acct |-> a, nonce |-> 0, ins |-> {}, outs |-> {n}] \in Requests
  BY <1>1 DEF Requests
<1> HIDE DEF n
<1>4. /\ call' = [call EXCEPT ![p] = [op |-> op, acct |-> a, outs |-> {n}]]
      /\ tx' = [tx EXCEPT ![p] = [acct |-> a, nonce |-> 0, ins |-> {}, outs |-> {n}]]
      /\ pc' = [pc EXCEPT ![p] = "execute"]
      /\ serial' = serial + 1
      /\ UNCHANGED <<nodeVars, storeVars, attempt, acked>>
  BY DEF CreateNote, Goto, n
<1>5. TypeOK'
  BY <1>1, <1>2, <1>3, <1>4 DEF TypeInv, TypeOK, Steps, nodeVars, storeVars
<1>6. BlocksBehindNode'
  BY <1>4 DEF TypeInv, BlocksBehindNode, nodeVars, Nonce
<1> QED
  BY <1>5, <1>6 DEF TypeInv

LEMMA PollType ==
    ASSUME TypeInv, NEW p \in Procs, NEW op \in Ops, NEW a \in Accounts, Poll(p, op, a)
    PROVE  TypeInv'
<1>1. [op |-> op, acct |-> a, outs |-> {}] \in Calls
  BY DEF Calls
<1>2. TypeOK'
  BY <1>1, ConstantFacts DEF Poll, Goto, TypeInv, TypeOK, Steps, nodeVars, storeVars
<1>3. BlocksBehindNode'
  BY DEF Poll, TypeInv, BlocksBehindNode, nodeVars, Nonce
<1> QED
  BY <1>2, <1>3 DEF TypeInv

LEMMA AcceptType ==
    ASSUME TypeInv, NEW t \in Requests, Accept(t), UNCHANGED committed
    PROVE  log' \in [Accounts -> Seq(Effects)] /\ BlocksBehindNode'
<1>1. t.acct \in Accounts /\ [ins |-> t.ins, outs |-> t.outs] \in Effects
  BY DEF Requests, Effects
<1>2. log' \in [Accounts -> Seq(Effects)]
  BY <1>1 DEF Accept, TypeInv, TypeOK
<1>3. \A a \in Accounts : Len(log[a]) \in Nat /\ Len(log'[a]) \in Nat /\ Len(log'[a]) >= Len(log[a])
  BY <1>1 DEF Accept, TypeInv, TypeOK
<1>4. BlocksBehindNode'
  BY <1>3 DEF BlocksBehindNode, Nonce, TypeInv, TypeOK
<1> QED
  BY <1>2, <1>4

LEMMA SyncStateType ==
    ASSUME TypeInv, NEW p \in Procs, SyncState(p)
    PROVE  /\ local' \in [Accounts -> Nat]
           /\ expected' \subseteq NoteSet
           /\ consumable' \subseteq NoteSet
           /\ spending' \subseteq NoteSet
<1>1. \A a \in Accounts : Later(local[a], committed[a]) \in Nat
  BY DEF TypeInv, TypeOK, Later
<1>2. local' \in [Accounts -> Nat]
  BY <1>1 DEF SyncState, TypeInv, TypeOK
<1>3. Discovered(p) \subseteq NoteSet /\ Consumed(p) \subseteq NoteSet
  BY InBlockNotes DEF Discovered, Consumed, TypeInv, TypeOK
<1> QED
  BY <1>2, <1>3 DEF SyncState, TypeInv, TypeOK

LEMMA TypeInvStart ==
    ASSUME TypeInv, NEW p \in Procs, StartCall(p)
    PROVE  TypeInv'
<1>0. \A w \in Wallets : w \in Accounts
  BY DEF Accounts
<1>1. ASSUME NEW w \in Wallets, NEW m \in Amounts, MintTokens(p, w, m)
      PROVE  TypeInv'
  BY <1>0, <1>1, CreateNoteType, ConstantFacts DEF MintTokens, Ops
<1>2. ASSUME NEW w \in Wallets, NEW v \in Wallets, NEW m \in Amounts, TransferTokens(p, w, v, m)
      PROVE  TypeInv'
  BY <1>0, <1>2, CreateNoteType DEF TransferTokens, Ops
<1>3. ASSUME NEW a \in Accounts, NEW m \in Amounts, BurnTokens(p, a, m)
      PROVE  TypeInv'
  BY <1>3, CreateNoteType, ConstantFacts DEF BurnTokens, Ops
<1>4. ASSUME NEW a \in Accounts, ConsumeNotes(p, a)
      PROVE  TypeInv'
  BY <1>4, PollType DEF ConsumeNotes, Ops
<1>5. CASE SyncAndTrack(p)
  BY <1>5, PollType, ConstantFacts DEF SyncAndTrack, Ops
<1> QED
  BY <1>1, <1>2, <1>3, <1>4, <1>5 DEF StartCall

\* A step that changes neither the node nor the blocks.
LEMMA SameNode ==
    ASSUME TypeInv, UNCHANGED nodeVars
    PROVE  BlocksBehindNode' /\ log' \in [Accounts -> Seq(Effects)] /\ committed' \in [Accounts -> Nat]
BY DEF TypeInv, TypeOK, BlocksBehindNode, nodeVars, Nonce

\* A call that ends with an error and changes no other state.
LEMMA FailType ==
    ASSUME TypeInv, NEW p \in Procs, NEW r \in Results, Return(p, r),
           UNCHANGED <<nodeVars, storeVars, serial, acked>>
    PROVE  TypeInv'
<1>1. BlocksBehindNode'
  BY SameNode
<1>2. TypeOK'
  BY ReturnType DEF TypeInv, TypeOK, nodeVars, storeVars
<1> QED
  BY <1>1, <1>2 DEF TypeInv

LEMMA TypeInvStep ==
    ASSUME TypeInv, NEW p \in Procs, StepCall(p) \/ Disturb(p)
    PROVE  TypeInv'
<1>0. "ok" \in Results /\ "err" \in Results /\ "idle" \in Results
  BY DEF Results
<1>1. CASE Execute(p)
  <2>1. OnLocalState(tx[p]) \in Requests
    BY DEF OnLocalState, Requests, TypeInv, TypeOK
  <2>2. TypeOK'
    BY <1>1, <2>1 DEF Execute, Goto, TypeInv, TypeOK, Steps, nodeVars, storeVars
  <2> QED
    BY <1>1, <2>2, SameNode DEF Execute, TypeInv
<1>2. CASE ExecuteFails(p) \/ SignerFails(p) \/ Reject(p) \/ RpcFails(p) \/ GiveUp(p) \/ CollectEmpty(p)
  BY <1>0, <1>2, FailType DEF ExecuteFails, SignerFails, Reject, RpcFails, GiveUp, CollectEmpty, Fail
<1>3. CASE Submit(p)
  <2>1. tx[p] \in Requests
    BY DEF TypeInv, TypeOK
  <2>2. log' \in [Accounts -> Seq(Effects)] /\ BlocksBehindNode'
    BY <1>3, <2>1, AcceptType DEF Submit
  <2>3. TypeOK'
    BY <1>3, <2>2 DEF Submit, Goto, TypeInv, TypeOK, Steps, storeVars
  <2> QED
    BY <2>2, <2>3 DEF TypeInv
<1>4. CASE AckLost(p)
  <2>1. tx[p] \in Requests
    BY DEF TypeInv, TypeOK
  <2>2. log' \in [Accounts -> Seq(Effects)] /\ BlocksBehindNode'
    BY <1>4, <2>1, AcceptType DEF AckLost
  <2>3. TypeOK'
    BY <1>0, <1>4, <2>2, ReturnType DEF AckLost, Fail, TypeInv, TypeOK, storeVars
  <2> QED
    BY <2>2, <2>3 DEF TypeInv
<1>5. CASE Apply(p)
  <2>1. tx[p] \in Requests /\ call[p] \in Calls
    BY DEF TypeInv, TypeOK
  <2>2. /\ local' \in [Accounts -> Nat]
        /\ expected' \subseteq NoteSet
        /\ consumable' \subseteq NoteSet
        /\ spending' \subseteq NoteSet
    BY <1>5, <2>1 DEF Apply, StoreTransaction, Later, Requests, TypeInv, TypeOK
  <2>3. /\ pc' \in [Procs -> Steps \cup Results]
        /\ call' \in [Procs -> Calls]
        /\ tx' \in [Procs -> Requests]
        /\ attempt' \in [Procs -> 0 .. MaxAttempts]
        /\ acked' \subseteq NoteSet
    <3>1. CASE HasSecondStep(p)
      <4>1. /\ pc' = [pc EXCEPT ![p] = "sync"]
            /\ tx' = [tx EXCEPT ![p] = NoTx]
            /\ attempt' = [attempt EXCEPT ![p] = 1]
            /\ UNCHANGED <<call, acked>>
        BY <1>5, <3>1 DEF Apply, Goto
      <4>2. NoTx \in Requests /\ 1 \in 0 .. MaxAttempts /\ "sync" \in Steps
        BY ConstantFacts DEF Steps
      <4> QED
        BY <4>1, <4>2 DEF TypeInv, TypeOK
    <3>2. CASE ~HasSecondStep(p)
      <4>1. Succeed(p)
        BY <1>5, <3>2 DEF Apply
      <4>2. call[p].outs \subseteq NoteSet
        BY <2>1 DEF Calls
      <4> QED
        BY <1>0, <4>1, <4>2, ReturnType DEF Succeed, TypeInv, TypeOK
    <3> QED
      BY <3>1, <3>2
  <2>4. TypeOK'
    BY <1>5, <2>2, <2>3 DEF Apply, TypeInv, TypeOK, nodeVars
  <2> QED
    BY <1>5, <2>4, SameNode DEF Apply, TypeInv
<1>6. CASE Sync(p)
  <2>1. /\ local' \in [Accounts -> Nat]
        /\ expected' \subseteq NoteSet
        /\ consumable' \subseteq NoteSet
        /\ spending' \subseteq NoteSet
    BY <1>6, SyncStateType DEF Sync
  <2>2. /\ pc' \in [Procs -> Steps \cup Results]
        /\ call' \in [Procs -> Calls]
        /\ tx' \in [Procs -> Requests]
        /\ attempt' \in [Procs -> 0 .. MaxAttempts]
        /\ acked' \subseteq NoteSet
    <3>1. CASE call[p].op = "sync"
      <4>1. Succeed(p)
        BY <1>6, <3>1 DEF Sync
      <4>2. call[p].outs \subseteq NoteSet
        BY DEF Calls, TypeInv, TypeOK
      <4> QED
        BY <1>0, <4>1, <4>2, ReturnType DEF Succeed, TypeInv, TypeOK
    <3>2. CASE call[p].op # "sync"
      BY <1>6, <3>2 DEF Sync, Goto, Steps, TypeInv, TypeOK
    <3> QED
      BY <3>1, <3>2
  <2>3. TypeOK'
    BY <1>6, <2>1, <2>2 DEF Sync, TypeInv, TypeOK, nodeVars
  <2> QED
    BY <1>6, <2>3, SameNode DEF Sync, TypeInv
<1>7. CASE ListFinds(p) \/ ListEmpty(p)
  <2>1. attempt' \in [Procs -> 0 .. MaxAttempts]
    <3>1. attempt \in [Procs -> 0 .. MaxAttempts] /\ MaxAttempts \in Nat
      BY ConstantFacts DEF TypeInv, TypeOK
    <3>2. CASE ListFinds(p)
      BY <3>1, <3>2 DEF ListFinds
    <3>3. CASE ListEmpty(p)
      BY <3>1, <3>3 DEF ListEmpty
    <3> QED
      BY <1>7, <3>2, <3>3
  <2>2. pc' \in [Procs -> Steps \cup Results]
    BY <1>7 DEF ListFinds, ListEmpty, Goto, TypeInv, TypeOK, Steps
  <2>3. UNCHANGED <<nodeVars, storeVars, call, tx, serial, acked>>
    BY <1>7 DEF ListFinds, ListEmpty
  <2>4. TypeOK'
    BY <2>1, <2>2, <2>3 DEF TypeInv, TypeOK, nodeVars, storeVars
  <2> QED
    BY <2>3, <2>4, SameNode DEF TypeInv
<1>8. CASE Collect(p)
  <2>1. Poller(p) \in Accounts
    BY ConstantFacts DEF Poller, Calls, TypeInv, TypeOK
  <2>2. Consumable(p) \subseteq NoteSet
    BY DEF Consumable, TypeInv, TypeOK
  <2>3. PICK notes \in SUBSET Consumable(p) :
            /\ tx' = [tx EXCEPT ![p] = [acct |-> Poller(p), nonce |-> 0,
                                        ins |-> notes, outs |-> {}]]
            /\ pc' = [pc EXCEPT ![p] = "execute"]
    BY <1>8, CollectStep
  <2>4. [acct |-> Poller(p), nonce |-> 0, ins |-> notes, outs |-> {}] \in Requests
    BY <2>1, <2>2 DEF Requests
  <2>5. TypeOK'
    BY <1>8, <2>3, <2>4 DEF Collect, TypeInv, TypeOK, Steps, nodeVars, storeVars
  <2> QED
    BY <1>8, <2>5, SameNode DEF Collect, TypeInv
<1>9. CASE Crash(p)
  BY <1>0, <1>9, FailType DEF Crash
<1> QED
  BY <1>1, <1>2, <1>3, <1>4, <1>5, <1>6, <1>7, <1>8, <1>9 DEF StepCall, Disturb

LEMMA TypeInvInclude ==
    ASSUME TypeInv, NEW a \in Accounts, Include(a)
    PROVE  TypeInv'
<1>1. TypeOK'
  BY DEF Include, TypeInv, TypeOK, storeVars, procVars
<1>2. \A x \in Accounts : Len(log[x]) \in Nat
  BY DEF TypeInv, TypeOK
<1>3. BlocksBehindNode'
  BY <1>2 DEF Include, TypeInv, TypeOK, BlocksBehindNode, Nonce
<1> QED
  BY <1>1, <1>3 DEF TypeInv

LEMMA TypeInvStutter ==
    ASSUME TypeInv, UNCHANGED vars
    PROVE  TypeInv'
BY DEF TypeInv, TypeOK, BlocksBehindNode, Nonce, vars, nodeVars, storeVars, procVars

LEMMA TypeInvNext == TypeInv /\ [Next]_vars => TypeInv'
<1> SUFFICES ASSUME TypeInv, [Next]_vars PROVE TypeInv'
  OBVIOUS
<1>1. ASSUME NEW p \in Procs, StartCall(p) \/ StepCall(p) \/ Disturb(p)
      PROVE  TypeInv'
  BY <1>1, TypeInvStart, TypeInvStep
<1>2. ASSUME NEW a \in Accounts, Include(a)
      PROVE  TypeInv'
  BY <1>2, TypeInvInclude
<1>3. CASE UNCHANGED vars
  BY <1>3, TypeInvStutter
<1> QED
  BY <1>1, <1>2, <1>3 DEF Next

LEMMA TypeInvInit == Init => TypeInv
<1> SUFFICES ASSUME Init PROVE TypeInv
  OBVIOUS
<1>1. TypeOK
  BY ConstantFacts DEF Init, TypeOK, Results
<1>2. BlocksBehindNode
  BY DEF Init, BlocksBehindNode, Nonce
<1> QED
  BY <1>1, <1>2 DEF TypeInv

\* Every variable keeps the values the code gives it, in every behaviour:
\* the polling loops never count past max_attempts and no request is
\* malformed.
THEOREM TypeCorrect == Spec => []TypeOK
<1>1. TypeInv => TypeOK
  BY DEF TypeInv
<1> QED
  BY <1>1, TypeInvInit, TypeInvNext, PTL DEF Spec

-----------------------------------------------------------------------------
(* The stores stay behind the chain. *)

IStore == TypeInv /\ StoreInv

LEMMA NonceNat ==
    ASSUME TypeOK
    PROVE  \A a \in Accounts : Nonce(a) \in Nat
BY DEF TypeOK, Nonce

LEMMA InBlockCreated ==
    ASSUME TypeInv
    PROVE  InBlock \subseteq Created
<1>1. \A a \in Accounts : committed[a] \in Nat /\ Nonce(a) \in Nat /\ committed[a] <= Nonce(a)
  BY NonceNat DEF TypeInv, TypeOK, BlocksBehindNode
<1>2. ASSUME NEW a \in Accounts
      PROVE  OutsUpTo(a, committed[a]) \subseteq OutsUpTo(a, Nonce(a))
  <2>1. 1 .. committed[a] \subseteq 1 .. Nonce(a)
    BY <1>1
  <2> QED
    BY <2>1 DEF OutsUpTo
<1> QED
  BY <1>2 DEF InBlock, Created

\* An accepted transaction extends one log; the entries there were stay.
LEMMA AcceptExtends ==
    ASSUME TypeOK, NEW t \in Requests, Accept(t)
    PROVE  /\ Len(log'[t.acct]) = Nonce(t.acct) + 1
           /\ log'[t.acct][Nonce(t.acct) + 1] = [ins |-> t.ins, outs |-> t.outs]
           /\ \A a \in Accounts : a # t.acct => log'[a] = log[a]
           /\ \A a \in Accounts : Nonce(a) <= Nonce(a)'
           /\ \A a \in Accounts : \A i \in 1 .. Nonce(a) : log'[a][i] = log[a][i]
<1>1. t.acct \in Accounts /\ [ins |-> t.ins, outs |-> t.outs] \in Effects
  BY DEF Requests, Effects
<1>2. log \in [Accounts -> Seq(Effects)]
  BY DEF TypeOK
<1>3. log' = [log EXCEPT ![t.acct] = Append(@, [ins |-> t.ins, outs |-> t.outs])]
  BY DEF Accept
<1>4. log'[t.acct] = Append(log[t.acct], [ins |-> t.ins, outs |-> t.outs])
  BY <1>1, <1>2, <1>3
<1>5. \A a \in Accounts : a # t.acct => log'[a] = log[a]
  BY <1>1, <1>2, <1>3
<1>6. log[t.acct] \in Seq(Effects)
  BY <1>1, <1>2
<1>7. /\ Len(log'[t.acct]) = Len(log[t.acct]) + 1
      /\ Len(log[t.acct]) \in Nat
      /\ log'[t.acct][Len(log[t.acct]) + 1] = [ins |-> t.ins, outs |-> t.outs]
      /\ \A i \in 1 .. Len(log[t.acct]) : log'[t.acct][i] = log[t.acct][i]
  BY <1>1, <1>4, <1>6
<1>8. \A a \in Accounts : Len(log[a]) \in Nat
  BY <1>2
<1> QED
  BY <1>5, <1>7, <1>8 DEF Nonce

LEMMA AcceptSends ==
    ASSUME TypeInv, NEW t \in Requests, Accept(t)
    PROVE  /\ t.acct \in Accounts
           /\ \A a \in Accounts : a # t.acct =>
                  /\ OutsUpTo(a, Nonce(a))' = OutsUpTo(a, Nonce(a))
                  /\ InsUpTo(a, Nonce(a))' = InsUpTo(a, Nonce(a))
           /\ OutsUpTo(t.acct, Nonce(t.acct))' = OutsUpTo(t.acct, Nonce(t.acct)) \cup t.outs
           /\ InsUpTo(t.acct, Nonce(t.acct))' = InsUpTo(t.acct, Nonce(t.acct)) \cup t.ins
<1> DEFINE k == Nonce(t.acct)
<1>0. t.acct \in Accounts /\ k \in Nat
  BY NonceNat DEF Requests, TypeInv
<1>1. /\ Len(log'[t.acct]) = k + 1
      /\ log'[t.acct][k + 1] = [ins |-> t.ins, outs |-> t.outs]
      /\ \A a \in Accounts : a # t.acct => log'[a] = log[a]
      /\ \A a \in Accounts : \A i \in 1 .. Nonce(a) : log'[a][i] = log[a][i]
  BY AcceptExtends DEF TypeInv
<1>2. ASSUME NEW a \in Accounts, a # t.acct
      PROVE  /\ OutsUpTo(a, Nonce(a))' = OutsUpTo(a, Nonce(a))
             /\ InsUpTo(a, Nonce(a))' = InsUpTo(a, Nonce(a))
  BY <1>1, <1>2 DEF OutsUpTo, InsUpTo, Nonce
<1>3. 1 .. (k + 1) = (1 .. k) \cup {k + 1}
  BY <1>0
<1>4. /\ OutsUpTo(t.acct, Nonce(t.acct))' = OutsUpTo(t.acct, k) \cup t.outs
      /\ InsUpTo(t.acct, Nonce(t.acct))' = InsUpTo(t.acct, k) \cup t.ins
  <2>1. /\ OutsUpTo(t.acct, Nonce(t.acct))' = UNION {log'[t.acct][i].outs : i \in 1 .. (k + 1)}
        /\ InsUpTo(t.acct, Nonce(t.acct))' = UNION {log'[t.acct][i].ins : i \in 1 .. (k + 1)}
    <3>1. Nonce(t.acct)' = k + 1
      BY <1>1 DEF Nonce
    <3> QED
      BY <3>1 DEF OutsUpTo, InsUpTo
  <2>2. /\ {log'[t.acct][i].outs : i \in 1 .. (k + 1)} = {log[t.acct][i].outs : i \in 1 .. k} \cup {t.outs}
        /\ {log'[t.acct][i].ins : i \in 1 .. (k + 1)} = {log[t.acct][i].ins : i \in 1 .. k} \cup {t.ins}
    <3>1. /\ \A i \in 1 .. k : log'[t.acct][i] = log[t.acct][i]
          /\ log'[t.acct][k + 1].outs = t.outs /\ log'[t.acct][k + 1].ins = t.ins
      BY <1>0, <1>1
    <3> HIDE DEF k
    <3>2. \A i \in 1 .. (k + 1) : i \in 1 .. k \/ i = k + 1
      BY <1>3
    <3>3. \A i : i \in 1 .. k \/ i = k + 1 => i \in 1 .. (k + 1)
      BY <1>3
    <3>4. /\ {log'[t.acct][i].outs : i \in 1 .. (k + 1)} \subseteq {log[t.acct][i].outs : i \in 1 .. k} \cup {t.outs}
          /\ {log'[t.acct][i].ins : i \in 1 .. (k + 1)} \subseteq {log[t.acct][i].ins : i \in 1 .. k} \cup {t.ins}
      BY <3>1, <3>2
    <3>5. /\ {log[t.acct][i].outs : i \in 1 .. k} \cup {t.outs} \subseteq {log'[t.acct][i].outs : i \in 1 .. (k + 1)}
          /\ {log[t.acct][i].ins : i \in 1 .. k} \cup {t.ins} \subseteq {log'[t.acct][i].ins : i \in 1 .. (k + 1)}
      BY <3>1, <3>3
    <3> QED
      BY <3>4, <3>5
  <2>3. \A A, b : UNION (A \cup {b}) = (UNION A) \cup b
    OBVIOUS
  <2>4. /\ OutsUpTo(t.acct, k) = UNION {log[t.acct][i].outs : i \in 1 .. k}
        /\ InsUpTo(t.acct, k) = UNION {log[t.acct][i].ins : i \in 1 .. k}
    BY DEF OutsUpTo, InsUpTo
  <2>5. /\ UNION {log'[t.acct][i].outs : i \in 1 .. (k + 1)} = OutsUpTo(t.acct, k) \cup t.outs
        /\ UNION {log'[t.acct][i].ins : i \in 1 .. (k + 1)} = InsUpTo(t.acct, k) \cup t.ins
    <3>1. UNION {log'[t.acct][i].outs : i \in 1 .. (k + 1)}
              = (UNION {log[t.acct][i].outs : i \in 1 .. k}) \cup t.outs
      BY <2>2, <2>3, Zenon
    <3>2. UNION {log'[t.acct][i].ins : i \in 1 .. (k + 1)}
              = (UNION {log[t.acct][i].ins : i \in 1 .. k}) \cup t.ins
      BY <2>2, <2>3, Zenon
    <3> QED
      BY <2>4, <3>1, <3>2, Zenon
  <2> QED
    BY <2>1, <2>5, Zenon
<1> QED
  BY <1>0, <1>2, <1>4

LEMMA AcceptCreates ==
    ASSUME TypeInv, NEW t \in Requests, Accept(t), UNCHANGED committed
    PROVE  /\ Created' = Created \cup t.outs
           /\ Nullified' = Nullified \cup t.ins
           /\ InBlock' = InBlock
           /\ Spent' = Spent
<1>5. Created' = Created \cup t.outs /\ Nullified' = Nullified \cup t.ins
  BY AcceptSends DEF Created, Nullified
<1>6. ASSUME NEW a \in Accounts
      PROVE  /\ OutsUpTo(a, committed[a])' = OutsUpTo(a, committed[a])
             /\ InsUpTo(a, committed[a])' = InsUpTo(a, committed[a])
  <2>1. 1 .. committed[a] \subseteq 1 .. Nonce(a)
    BY NonceNat DEF TypeInv, TypeOK, BlocksBehindNode
  <2>2. \A i \in 1 .. committed[a] : log'[a][i] = log[a][i]
    BY AcceptExtends, <2>1 DEF TypeInv
  <2> QED
    BY <2>2 DEF OutsUpTo, InsUpTo
<1>7. InBlock' = InBlock /\ Spent' = Spent
  BY <1>6 DEF InBlock, Spent
<1> QED
  BY <1>5, <1>7

LEMMA SameNodeSets ==
    ASSUME UNCHANGED nodeVars
    PROVE  /\ Created' = Created /\ Nullified' = Nullified
           /\ InBlock' = InBlock /\ Spent' = Spent
           /\ \A a \in Accounts : Nonce(a)' = Nonce(a)
BY DEF nodeVars, Created, Nullified, InBlock, Spent, OutsUpTo, InsUpTo, Nonce

LEMMA IncludeGrows ==
    ASSUME TypeInv, NEW a \in Accounts, Include(a)
    PROVE  /\ Created' = Created /\ Nullified' = Nullified
           /\ InBlock \subseteq InBlock'
           /\ \A x \in Accounts : Nonce(x)' = Nonce(x)
<1>1. log' = log /\ committed' = [committed EXCEPT ![a] = @ + 1]
  BY DEF Include
<1>2. \A x \in Accounts : committed[x] \in Nat /\ committed'[x] \in Nat /\ committed[x] <= committed'[x]
  BY <1>1 DEF TypeInv, TypeOK
<1>3. \A x \in Accounts : 1 .. committed[x] \subseteq 1 .. committed'[x]
  BY <1>2
<1>4. \A x \in Accounts : OutsUpTo(x, committed[x]) \subseteq OutsUpTo(x, committed[x])'
  BY <1>1, <1>3 DEF OutsUpTo
<1>5. InBlock \subseteq InBlock'
  BY <1>4 DEF InBlock
<1> QED
  BY <1>1, <1>5 DEF Created, Nullified, OutsUpTo, InsUpTo, Nonce

\* Steps that leave the node and the stores alone: the requests keep to
\* notes the stores have seen, and no process reaches "apply" by them.
LEMMA QuietStep ==
    ASSUME IStore, UNCHANGED nodeVars, UNCHANGED storeVars,
           \A q \in Procs : tx'[q].ins \subseteq consumable \cup spending,
           \A q \in Procs : pc'[q] = "apply" => pc[q] = "apply" /\ tx'[q] = tx[q]
    PROVE  StoreInv'
<1>1. /\ Created' = Created /\ InBlock' = InBlock
      /\ \A a \in Accounts : Nonce(a)' = Nonce(a)
  BY SameNodeSets
<1>2. StoreBehindChain'
  BY <1>1 DEF IStore, StoreInv, StoreBehindChain, nodeVars, storeVars
<1>3. InputsSeen'
  BY DEF InputsSeen, storeVars
<1>4. \A q \in Procs : tx[q].acct \in Accounts
  BY DEF IStore, TypeInv, TypeOK, Requests
<1>5. AppliedIsAccepted'
  BY <1>1, <1>4 DEF IStore, StoreInv, AppliedIsAccepted
<1> QED
  BY <1>2, <1>3, <1>5 DEF StoreInv

\* Return drops the request.
LEMMA ReturnRequest ==
    ASSUME TypeOK, InputsSeen, NEW p \in Procs, NEW r \in Results, Return(p, r)
    PROVE  /\ \A q \in Procs : tx'[q].ins \subseteq consumable \cup spending
           /\ \A q \in Procs : pc'[q] = "apply" => pc[q] = "apply" /\ tx'[q] = tx[q]
           /\ \A q \in Procs : pc'[q] = "apply" => q # p
BY DEF Return, Goto, TypeOK, InputsSeen, NoTx, Results

LEMMA StoreInvStart ==
    ASSUME IStore, NEW p \in Procs, StartCall(p)
    PROVE  StoreInv'
<1>1. ASSUME NEW op, NEW a, NEW t, NEW m, CreateNote(p, op, a, t, m)
      PROVE  StoreInv'
  <2>1. /\ \A q \in Procs : tx'[q].ins \subseteq consumable \cup spending
        /\ \A q \in Procs : pc'[q] = "apply" => pc[q] = "apply" /\ tx'[q] = tx[q]
    BY <1>1 DEF CreateNote, Goto, IStore, TypeInv, TypeOK, StoreInv, InputsSeen
  <2> QED
    BY <1>1, <2>1, QuietStep DEF CreateNote
<1>2. ASSUME NEW op, NEW a, Poll(p, op, a)
      PROVE  StoreInv'
  <2>1. /\ \A q \in Procs : tx'[q].ins \subseteq consumable \cup spending
        /\ \A q \in Procs : pc'[q] = "apply" => pc[q] = "apply" /\ tx'[q] = tx[q]
    BY <1>2 DEF Poll, Goto, IStore, TypeInv, TypeOK, StoreInv, InputsSeen
  <2> QED
    BY <1>2, <2>1, QuietStep DEF Poll
<1> QED
  BY <1>1, <1>2 DEF StartCall, MintTokens, TransferTokens, BurnTokens, ConsumeNotes, SyncAndTrack

\* The node accepts a request: Submit and AckLost.
LEMMA StoreInvAccept ==
    ASSUME IStore, NEW p \in Procs, pc[p] = "submit", Acceptable(tx[p]), Accept(tx[p]),
           UNCHANGED <<committed, storeVars>>,
           \A q \in Procs : tx'[q].ins \subseteq consumable \cup spending,
           \A q \in Procs : pc'[q] = "apply" => q = p \/ pc[q] = "apply",
           \A q \in Procs : pc'[q] = "apply" => tx'[q] = tx[q]
    PROVE  StoreInv'
<1>0. /\ tx[p] \in Requests /\ TypeOK /\ TypeInv
      /\ \A q \in Procs : tx[q].acct \in Accounts /\ tx[q].nonce \in Nat
  BY DEF IStore, TypeInv, TypeOK, Requests
<1>1. /\ Created' = Created \cup tx[p].outs /\ InBlock' = InBlock
      /\ Len(log'[tx[p].acct]) = Nonce(tx[p].acct) + 1
      /\ \A a \in Accounts : Nonce(a) <= Nonce(a)'
  <2>1. UNCHANGED committed
    OBVIOUS
  <2>2. Created' = Created \cup tx[p].outs /\ InBlock' = InBlock
    BY <1>0, <2>1, AcceptCreates
  <2> QED
    BY <1>0, <2>2, AcceptExtends
<1>2. \A a \in Accounts : /\ Nonce(a) \in Nat /\ Nonce(a)' \in Nat
                          /\ committed[a] \in Nat /\ local[a] \in Nat
  <2>1. \A a \in Accounts : Nonce(a)' \in Nat
    BY <1>0, AcceptType DEF Nonce
  <2> QED
    BY <1>0, <2>1, NonceNat DEF TypeOK
<1>3. StoreBehindChain'
  <2>1. \A a \in Accounts : committed[a] <= Nonce(a)' /\ local[a] <= Nonce(a)'
    BY <1>1, <1>2 DEF IStore, StoreInv, StoreBehindChain
  <2>2. UNCHANGED <<committed, local, expected, consumable, spending>>
    BY DEF storeVars
  <2> QED
    BY <1>1, <2>1, <2>2 DEF IStore, StoreInv, StoreBehindChain
<1>4. InputsSeen'
  <2>1. consumable' = consumable /\ spending' = spending
    BY DEF storeVars
  <2> QED
    BY <2>1 DEF InputsSeen
<1>5. AppliedIsAccepted'
  <2> SUFFICES ASSUME NEW q \in Procs, pc'[q] = "apply"
               PROVE  tx[q].nonce < Len(log'[tx[q].acct]) /\ tx[q].outs \subseteq Created'
    BY DEF AppliedIsAccepted, Nonce
  <2>0. \A a \in Accounts : Nonce(a) <= Len(log'[a]) /\ Len(log'[a]) \in Nat
    BY <1>1, <1>2 DEF Nonce
  <2>1. CASE q = p
    BY <1>0, <1>1, <1>2, <2>0, <2>1 DEF Acceptable
  <2>2. CASE pc[q] = "apply"
    BY <1>0, <1>1, <1>2, <2>0, <2>2 DEF IStore, StoreInv, AppliedIsAccepted
  <2> QED
    BY <2>1, <2>2
<1> QED
  BY <1>3, <1>4, <1>5 DEF StoreInv

LEMMA StoreInvApply ==
    ASSUME IStore, NEW p \in Procs, Apply(p)
    PROVE  StoreInv'
<1>0. /\ tx[p] \in Requests /\ TypeOK
      /\ \A q \in Procs : tx[q].acct \in Accounts /\ tx[q].nonce \in Nat
  BY DEF IStore, TypeInv, TypeOK, Requests
<1>1. /\ pc[p] = "apply" /\ StoreTransaction(p, tx[p])
      /\ UNCHANGED nodeVars
  BY DEF Apply
<1>2. /\ Created' = Created /\ InBlock' = InBlock
      /\ \A a \in Accounts : Nonce(a)' = Nonce(a)
  BY <1>1, SameNodeSets
<1>3. /\ tx[p].nonce < Nonce(tx[p].acct) /\ tx[p].outs \subseteq Created
      /\ tx[p].ins \subseteq consumable \cup spending
  BY <1>1 DEF IStore, StoreInv, AppliedIsAccepted, InputsSeen
<1>4. consumable' \cup spending' = consumable \cup spending
  BY <1>1, <1>3 DEF StoreTransaction
<1>5. StoreBehindChain'
  <2>1. \A a \in Accounts : Nonce(a) \in Nat /\ local[a] \in Nat
    BY <1>0, NonceNat DEF TypeOK
  <2>2. local' = [local EXCEPT ![tx[p].acct] = Later(@, tx[p].nonce + 1)]
    BY <1>1 DEF StoreTransaction
  <2>3. \A a \in Accounts : local[a] <= Nonce(a) /\ committed[a] <= Nonce(a)
    BY DEF IStore, StoreInv, StoreBehindChain
  <2>4. \A a \in Accounts : local'[a] <= Nonce(a)
    BY <1>0, <1>3, <2>1, <2>2, <2>3 DEF Later, TypeOK
  <2>5. \A a \in Accounts : committed'[a] <= Nonce(a)' /\ local'[a] <= Nonce(a)'
    BY <1>1, <1>2, <2>3, <2>4 DEF nodeVars
  <2>6. /\ expected' \subseteq expected \cup tx[p].outs
        /\ expected' \cap (consumable \cup spending) = {}
        /\ consumable' \cap spending' = {}
    BY <1>1 DEF StoreTransaction, IStore, StoreInv, StoreBehindChain
  <2> QED
    BY <1>2, <1>3, <1>4, <2>5, <2>6 DEF IStore, StoreInv, StoreBehindChain
<1>6. /\ \A q \in Procs : tx'[q].ins \subseteq consumable \cup spending
      /\ \A q \in Procs : pc'[q] = "apply" => pc[q] = "apply" /\ tx'[q] = tx[q]
  <2>1. CASE HasSecondStep(p)
    <3>1. pc' = [pc EXCEPT ![p] = "sync"] /\ tx' = [tx EXCEPT ![p] = NoTx]
      BY <2>1 DEF Apply, Goto
    <3> QED
      BY <1>0, <3>1 DEF NoTx, TypeOK, IStore, StoreInv, InputsSeen
  <2>2. CASE ~HasSecondStep(p)
    <3>1. Return(p, "ok") /\ "ok" \in Results
      BY <2>2 DEF Apply, Succeed, Results
    <3> QED
      BY <1>0, <3>1, ReturnRequest DEF IStore, StoreInv
  <2> QED
    BY <2>1, <2>2
<1>7. InputsSeen'
  BY <1>4, <1>6 DEF InputsSeen
<1>8. AppliedIsAccepted'
  BY <1>0, <1>2, <1>6 DEF IStore, StoreInv, AppliedIsAccepted
<1> QED
  BY <1>5, <1>7, <1>8 DEF StoreInv

LEMMA StoreInvSync ==
    ASSUME IStore, NEW p \in Procs, Sync(p)
    PROVE  StoreInv'
<1>0. TypeOK /\ \A q \in Procs : tx[q].acct \in Accounts /\ tx[q].nonce \in Nat
  BY DEF IStore, TypeInv, TypeOK, Requests
<1>1. SyncState(p) /\ UNCHANGED nodeVars
  BY DEF Sync
<1>2. /\ Created' = Created /\ InBlock' = InBlock
      /\ \A a \in Accounts : Nonce(a)' = Nonce(a)
  BY <1>1, SameNodeSets
<1>3. /\ consumable' \cup spending' = consumable \cup spending \cup Discovered(p)
      /\ Discovered(p) \subseteq InBlock
  BY <1>1 DEF SyncState, Discovered, Consumed
<1>4. StoreBehindChain'
  <2>1. \A a \in Accounts : Nonce(a) \in Nat /\ local[a] \in Nat /\ committed[a] \in Nat
    BY <1>0, NonceNat DEF TypeOK
  <2>2. \A a \in Accounts : local[a] <= Nonce(a) /\ committed[a] <= Nonce(a)
    BY DEF IStore, StoreInv, StoreBehindChain
  <2>3. ASSUME NEW a \in Accounts
        PROVE  local'[a] <= Nonce(a)
    <3>1. local'[a] \in {local[a], Later(local[a], committed[a])}
      BY <1>1 DEF SyncState
    <3> QED
      BY <2>1, <2>2, <3>1 DEF Later
  <2>4. \A a \in Accounts : committed'[a] <= Nonce(a)' /\ local'[a] <= Nonce(a)'
    BY <1>1, <1>2, <2>2, <2>3 DEF nodeVars
  <2>5. /\ expected \cup consumable \cup spending \subseteq Created
        /\ consumable \cup spending \subseteq InBlock
        /\ expected \cap consumable = {}
        /\ expected \cap spending = {}
        /\ consumable \cap spending = {}
    BY DEF IStore, StoreInv, StoreBehindChain
  <2>6. InBlock \subseteq Created
    BY InBlockCreated DEF IStore
  <2>7. expected' \cup consumable' \cup spending' \subseteq Created'
    BY <1>1, <1>2, <1>3, <2>5, <2>6 DEF SyncState
  <2>8. consumable' \cup spending' \subseteq InBlock'
    BY <1>2, <1>3, <2>5
  <2>9. /\ expected' \cap consumable' = {}
        /\ expected' \cap spending' = {}
    BY <1>1, <2>5 DEF SyncState, Discovered, Consumed
  <2>10. consumable' \cap spending' = {}
    BY <1>1, <2>5 DEF SyncState, Discovered, Consumed
  <2> QED
    BY <2>4, <2>7, <2>8, <2>9, <2>10 DEF StoreBehindChain
<1>5. /\ \A q \in Procs : tx'[q].ins \subseteq consumable \cup spending
      /\ \A q \in Procs : pc'[q] = "apply" => pc[q] = "apply" /\ tx'[q] = tx[q]
  <2>1. CASE call[p].op # "sync"
    BY <1>0, <2>1 DEF Sync, Goto, TypeOK, IStore, StoreInv, InputsSeen
  <2>2. CASE call[p].op = "sync"
    <3>1. Return(p, "ok") /\ "ok" \in Results
      BY <2>2 DEF Sync, Succeed, Results
    <3> QED
      BY <1>0, <3>1, ReturnRequest DEF IStore, StoreInv
  <2> QED
    BY <2>1, <2>2
<1>6. InputsSeen'
  BY <1>3, <1>5 DEF InputsSeen
<1>7. AppliedIsAccepted'
  BY <1>0, <1>2, <1>5 DEF IStore, StoreInv, AppliedIsAccepted
<1> QED
  BY <1>4, <1>6, <1>7 DEF StoreInv

LEMMA StoreInvStep ==
    ASSUME IStore, NEW p \in Procs, StepCall(p) \/ Disturb(p)
    PROVE  StoreInv'
<1>0. /\ TypeOK /\ InputsSeen
      /\ "ok" \in Results /\ "err" \in Results /\ "idle" \in Results
  BY DEF IStore, TypeInv, StoreInv, Results
<1>1. CASE Execute(p)
  <2>1. /\ tx' = [tx EXCEPT ![p] = OnLocalState(@)]
        /\ pc' = [pc EXCEPT ![p] = "submit"]
        /\ UNCHANGED nodeVars /\ UNCHANGED storeVars
    BY <1>1 DEF Execute, Goto
  <2>2. /\ \A q \in Procs : tx'[q].ins \subseteq consumable \cup spending
        /\ \A q \in Procs : pc'[q] = "apply" => pc[q] = "apply" /\ tx'[q] = tx[q]
    BY <1>0, <2>1 DEF OnLocalState, TypeOK, InputsSeen
  <2> QED
    BY <2>1, <2>2, QuietStep
<1>2. CASE ExecuteFails(p) \/ SignerFails(p) \/ Reject(p) \/ RpcFails(p) \/ GiveUp(p) \/ CollectEmpty(p)
  <2>1. Return(p, "err") /\ UNCHANGED nodeVars /\ UNCHANGED storeVars
    BY <1>2 DEF ExecuteFails, SignerFails, Reject, RpcFails, GiveUp, CollectEmpty, Fail
  <2> QED
    BY <1>0, <2>1, ReturnRequest, QuietStep
<1>3. CASE Crash(p)
  <2>1. Return(p, "idle") /\ UNCHANGED nodeVars /\ UNCHANGED storeVars
    BY <1>3 DEF Crash
  <2> QED
    BY <1>0, <2>1, ReturnRequest, QuietStep
<1>4. CASE Submit(p)
  <2>1. /\ pc[p] = "submit" /\ Acceptable(tx[p]) /\ Accept(tx[p])
        /\ UNCHANGED <<committed, storeVars>>
        /\ tx' = tx /\ pc' = [pc EXCEPT ![p] = "apply"]
    BY <1>4 DEF Submit, Goto
  <2>2. /\ \A q \in Procs : tx'[q].ins \subseteq consumable \cup spending
        /\ \A q \in Procs : pc'[q] = "apply" => q = p \/ pc[q] = "apply"
        /\ \A q \in Procs : pc'[q] = "apply" => tx'[q] = tx[q]
    BY <1>0, <2>1 DEF TypeOK, InputsSeen
  <2> QED
    BY <2>1, <2>2, StoreInvAccept
<1>5. CASE AckLost(p)
  <2>1. /\ pc[p] = "submit" /\ Acceptable(tx[p]) /\ Accept(tx[p])
        /\ UNCHANGED <<committed, storeVars>>
        /\ Return(p, "err")
    BY <1>5 DEF AckLost, Fail
  <2>2. /\ \A q \in Procs : tx'[q].ins \subseteq consumable \cup spending
        /\ \A q \in Procs : pc'[q] = "apply" => q = p \/ pc[q] = "apply"
        /\ \A q \in Procs : pc'[q] = "apply" => tx'[q] = tx[q]
    BY <1>0, <2>1, ReturnRequest
  <2> QED
    BY <2>1, <2>2, StoreInvAccept
<1>6. CASE ListFinds(p) \/ ListEmpty(p)
  <2>1. /\ UNCHANGED tx /\ UNCHANGED nodeVars /\ UNCHANGED storeVars
        /\ \A q \in Procs : pc'[q] = "apply" => pc[q] = "apply"
    BY <1>0, <1>6 DEF ListFinds, ListEmpty, Goto, TypeOK
  <2> QED
    BY <1>0, <2>1, QuietStep DEF InputsSeen
<1>7. CASE Collect(p)
  <2>0. /\ UNCHANGED nodeVars /\ UNCHANGED storeVars
    BY <1>7 DEF Collect
  <2>1. PICK notes \in SUBSET Consumable(p) :
            /\ tx' = [tx EXCEPT ![p] = [acct |-> Poller(p), nonce |-> 0,
                                        ins |-> notes, outs |-> {}]]
            /\ pc' = [pc EXCEPT ![p] = "execute"]
    BY <1>7, CollectStep
  <2>2. Consumable(p) \subseteq consumable
    BY DEF Consumable
  <2>3. /\ \A q \in Procs : tx'[q].ins \subseteq consumable \cup spending
        /\ \A q \in Procs : pc'[q] = "apply" => pc[q] = "apply" /\ tx'[q] = tx[q]
    BY <1>0, <2>1, <2>2 DEF TypeOK, InputsSeen
  <2> QED
    BY <2>0, <2>1, <2>3, QuietStep
<1> QED
  BY <1>1, <1>2, <1>3, <1>4, <1>5, <1>6, <1>7, StoreInvApply, StoreInvSync DEF StepCall, Disturb

LEMMA StoreInvInclude ==
    ASSUME IStore, NEW a \in Accounts, Include(a)
    PROVE  StoreInv'
<1>1. /\ Created' = Created /\ InBlock \subseteq InBlock'
      /\ \A x \in Accounts : Nonce(x)' = Nonce(x)
  BY IncludeGrows DEF IStore
<1>2. UNCHANGED storeVars /\ UNCHANGED procVars
  BY DEF Include
<1>3. \A x \in Accounts : committed'[x] <= Nonce(x)'
  BY TypeInvInclude DEF IStore, TypeInv, BlocksBehindNode
<1>4. StoreBehindChain'
  BY <1>1, <1>2, <1>3 DEF IStore, StoreInv, StoreBehindChain, storeVars
<1>5. InputsSeen'
  BY <1>2 DEF IStore, StoreInv, InputsSeen, storeVars, procVars
<1>6. AppliedIsAccepted'
  <2>1. \A q \in Procs : tx[q].acct \in Accounts
    BY DEF IStore, TypeInv, TypeOK, Requests
  <2> QED
    BY <1>1, <1>2, <2>1 DEF IStore, StoreInv, AppliedIsAccepted, procVars
<1> QED
  BY <1>4, <1>5, <1>6 DEF StoreInv

LEMMA StoreInvNext == IStore /\ [Next]_vars => StoreInv'
<1> SUFFICES ASSUME IStore, [Next]_vars PROVE StoreInv'
  OBVIOUS
<1>1. ASSUME NEW p \in Procs, StartCall(p) \/ StepCall(p) \/ Disturb(p)
      PROVE  StoreInv'
  BY <1>1, StoreInvStart, StoreInvStep
<1>2. ASSUME NEW a \in Accounts, Include(a)
      PROVE  StoreInv'
  BY <1>2, StoreInvInclude
<1>3. CASE UNCHANGED vars
  <2>1. UNCHANGED nodeVars /\ UNCHANGED storeVars /\ pc' = pc /\ tx' = tx
    BY <1>3 DEF vars, procVars
  <2> QED
    BY <2>1, QuietStep DEF IStore, StoreInv, InputsSeen
<1> QED
  BY <1>1, <1>2, <1>3 DEF Next

LEMMA StoreInvInit == Init => StoreInv
<1> SUFFICES ASSUME Init PROVE StoreInv
  OBVIOUS
<1>1. StoreBehindChain
  BY DEF Init, StoreBehindChain, Nonce
<1>2. InputsSeen
  BY DEF Init, InputsSeen, NoTx
<1>3. AppliedIsAccepted
  BY DEF Init, AppliedIsAccepted
<1> QED
  BY <1>1, <1>2, <1>3 DEF StoreInv

LEMMA IStoreInvariant == Spec => []IStore
<1>1. Init => IStore
  BY TypeInvInit, StoreInvInit DEF IStore
<1>2. IStore /\ [Next]_vars => IStore'
  BY TypeInvNext, StoreInvNext DEF IStore
<1> QED
  BY <1>1, <1>2, PTL DEF Spec

\* No store and no block is ever ahead of the node, and each note has one
\* record in one state, for any number of processes writing to a store and
\* any mix of failures and crashes.
THEOREM StoresFollowChain == Spec => []StoreBehindChain
<1>1. IStore => StoreBehindChain
  BY DEF IStore, StoreInv
<1> QED
  BY <1>1, IStoreInvariant, PTL

-----------------------------------------------------------------------------
(* Notes are created once and consumed once. *)

INote == IStore /\ NoteInv

LEMMA LogSets ==
    ASSUME NEW a \in Accounts, NEW i \in 1 .. Nonce(a)
    PROVE  log[a][i].outs \subseteq Created /\ log[a][i].ins \subseteq Nullified
BY DEF Created, Nullified, OutsUpTo, InsUpTo

LEMMA CreatedNotes ==
    ASSUME TypeOK
    PROVE  Created \subseteq NoteSet /\ Nullified \subseteq NoteSet
BY LogNotes, NonceNat DEF Created, Nullified

\* Steps that leave the node alone: requests keep to their account and
\* nobody starts to send a note that was not being sent already.
LEMMA QuietNotes ==
    ASSUME INote, UNCHANGED nodeVars, UNCHANGED serial,
           \A q \in Procs : \A n \in tx'[q].ins : n.target = tx'[q].acct,
           \A q \in Procs : Unsent(q)' => tx'[q].outs = {} \/ (Unsent(q) /\ tx'[q].outs = tx[q].outs)
    PROVE  NoteInv'
<1>1. /\ Created' = Created /\ Nullified' = Nullified /\ InBlock' = InBlock
      /\ \A a \in Accounts : Nonce(a)' = Nonce(a)
      /\ log' = log
  BY SameNodeSets DEF nodeVars
<1>2. NoteDiscipline'
  BY <1>1 DEF INote, NoteInv, NoteDiscipline, ConsumedOnce, CreatedOnce, ConsumedByTarget
<1>3. InputsOfAccount'
  BY DEF InputsOfAccount
<1>4. SerialsFresh'
  <2>1. \A n \in Created' : n.id <= serial'
    BY <1>1 DEF INote, NoteInv, SerialsFresh
  <2>2. ASSUME NEW q \in Procs, Unsent(q)', NEW n \in tx'[q].outs
        PROVE  n.id <= serial' /\ \A m \in Created' : m.id # n.id
    BY <1>1, <2>2 DEF INote, NoteInv, SerialsFresh
  <2>3. ASSUME NEW q \in Procs, NEW r \in Procs, Unsent(q)', Unsent(r)', q # r,
               NEW n \in tx'[q].outs, NEW m \in tx'[r].outs
        PROVE  n.id # m.id
    BY <2>3 DEF INote, NoteInv, SerialsFresh
  <2> QED
    BY <2>1, <2>2, <2>3 DEF SerialsFresh
<1> QED
  BY <1>2, <1>3, <1>4 DEF NoteInv

LEMMA ReturnNotes ==
    ASSUME TypeOK, InputsOfAccount, NEW p \in Procs, NEW r \in Results, Return(p, r)
    PROVE  /\ \A q \in Procs : \A n \in tx'[q].ins : n.target = tx'[q].acct
           /\ \A q \in Procs : Unsent(q)' => tx'[q].outs = {} \/ (Unsent(q) /\ tx'[q].outs = tx[q].outs)
           /\ \A q \in Procs : Unsent(q)' => q # p /\ Unsent(q) /\ tx'[q].outs = tx[q].outs
BY DEF Return, Goto, TypeOK, InputsOfAccount, NoTx, Results, Unsent

\* A call draws a serial number that nobody holds.
LEMMA NoteInvCreate ==
    ASSUME INote, NEW p \in Procs, NEW op, NEW a \in Accounts, NEW t \in Accounts,
           NEW m \in Amounts, CreateNote(p, op, a, t, m)
    PROVE  NoteInv'
<1> DEFINE n == [id |-> serial + 1, target |-> t, amount |-> m]
<1>0. /\ serial \in Nat /\ TypeOK
      /\ n.id = serial + 1
  BY ConstantFacts DEF INote, IStore, TypeInv, TypeOK
<1> HIDE DEF n
<1>1. /\ tx' = [tx EXCEPT ![p] = [acct |-> a, nonce |-> 0, ins |-> {}, outs |-> {n}]]
      /\ pc' = [pc EXCEPT ![p] = "execute"]
      /\ serial' = serial + 1
      /\ UNCHANGED nodeVars
      /\ pc[p] \in Results
  BY DEF CreateNote, Goto, Ready, n
<1>2. /\ Created' = Created /\ Nullified' = Nullified /\ InBlock' = InBlock
      /\ \A x \in Accounts : Nonce(x)' = Nonce(x)
      /\ log' = log
  BY <1>1, SameNodeSets DEF nodeVars
<1>3. NoteDiscipline'
  BY <1>2 DEF INote, NoteInv, NoteDiscipline, ConsumedOnce, CreatedOnce, ConsumedByTarget
<1>4. /\ tx'[p].outs = {n} /\ tx'[p].ins = {}
      /\ \A q \in Procs : q # p => tx'[q] = tx[q] /\ pc'[q] = pc[q]
  BY <1>0, <1>1 DEF TypeOK
<1>5. InputsOfAccount'
  BY <1>4 DEF INote, NoteInv, InputsOfAccount
<1>6. \A x \in Created : x.id \in Nat /\ x.id <= serial
  <2>1. \A x \in NoteSet : x.id \in Nat
    BY DEF NoteSet
  <2> QED
    BY <1>0, <2>1, CreatedNotes DEF INote, NoteInv, SerialsFresh
<1>7. \A q \in Procs : Unsent(q) => \A x \in tx[q].outs :
          x.id \in Nat /\ x.id <= serial /\ \A y \in Created : y.id # x.id
  <2>1. \A q \in Procs : \A x \in tx[q].outs : x.id \in Nat
    <3>1. \A q \in Procs : tx[q].outs \subseteq NoteSet
      BY <1>0 DEF TypeOK, Requests
    <3> QED
      BY <3>1 DEF NoteSet
  <2>2. \A q \in Procs : Unsent(q) => \A x \in tx[q].outs :
            x.id <= serial /\ \A y \in Created : x.id # y.id
    BY DEF INote, NoteInv, SerialsFresh
  <2> QED
    BY <2>1, <2>2
<1>8. SerialsFresh'
  <2>1. \A x \in Created' : x.id <= serial'
    BY <1>0, <1>1, <1>2, <1>6
  <2>2. ASSUME NEW q \in Procs, Unsent(q)', NEW x \in tx'[q].outs
        PROVE  x.id <= serial' /\ \A y \in Created' : y.id # x.id
    <3>1. CASE q = p
      BY <1>0, <1>1, <1>2, <1>4, <1>6, <3>1
    <3>2. CASE q # p
      BY <1>0, <1>1, <1>2, <1>4, <1>7, <2>2, <3>2 DEF Unsent
    <3> QED
      BY <3>1, <3>2
  <2>3. ASSUME NEW q \in Procs, NEW r \in Procs, Unsent(q)', Unsent(r)', q # r,
               NEW x \in tx'[q].outs, NEW y \in tx'[r].outs
        PROVE  x.id # y.id
    <3>1. CASE q = p
      BY <1>0, <1>4, <1>7, <2>3, <3>1 DEF Unsent
    <3>2. CASE r = p
      BY <1>0, <1>4, <1>7, <2>3, <3>2 DEF Unsent
    <3>3. CASE q # p /\ r # p
      BY <1>4, <2>3, <3>3 DEF Unsent, INote, NoteInv, SerialsFresh
    <3> QED
      BY <3>1, <3>2, <3>3
  <2> QED
    BY <2>1, <2>2, <2>3 DEF SerialsFresh
<1> QED
  BY <1>3, <1>5, <1>8 DEF NoteInv

\* The node accepts a request: its inputs were in no log and its output ids
\* were in none.
LEMMA NoteInvAccept ==
    ASSUME INote, NEW p \in Procs, pc[p] = "submit", Acceptable(tx[p]), Accept(tx[p]),
           UNCHANGED <<committed, serial>>,
           \A q \in Procs : \A n \in tx'[q].ins : n.target = tx'[q].acct,
           \A q \in Procs : Unsent(q)' => q # p /\ Unsent(q) /\ tx'[q].outs = tx[q].outs
    PROVE  NoteInv'
<1> DEFINE c == tx[p].acct
           k == Nonce(c)
<1>0. /\ tx[p] \in Requests /\ TypeOK /\ TypeInv
      /\ c \in Accounts /\ k \in Nat /\ UNCHANGED committed
  BY NonceNat DEF INote, IStore, TypeInv, TypeOK, Requests
<1>1. /\ Created' = Created \cup tx[p].outs
      /\ Nullified' = Nullified \cup tx[p].ins
      /\ InBlock' = InBlock
  BY <1>0, AcceptCreates
<1>2. /\ Len(log'[c]) = k + 1
      /\ log'[c][k + 1] = [ins |-> tx[p].ins, outs |-> tx[p].outs]
      /\ \A a \in Accounts : a # c => log'[a] = log[a]
      /\ \A a \in Accounts : \A i \in 1 .. Nonce(a) : log'[a][i] = log[a][i]
  BY <1>0, AcceptExtends
<1> HIDE DEF c, k
<1>3. ASSUME NEW a \in Accounts, NEW i \in 1 .. Len(log'[a])
      PROVE  \/ /\ a = c /\ i = k + 1
                /\ log'[a][i].ins = tx[p].ins /\ log'[a][i].outs = tx[p].outs
             \/ /\ i \in 1 .. Nonce(a) /\ ~(a = c /\ i = k + 1)
                /\ log'[a][i].ins = log[a][i].ins /\ log'[a][i].outs = log[a][i].outs
  <2>1. CASE a # c
    BY <1>2, <2>1 DEF Nonce
  <2>2. CASE a = c /\ i = k + 1
    BY <1>2, <2>2
  <2>3. CASE a = c /\ i # k + 1
    <3>1. i \in 1 .. k /\ k = Nonce(a)
      BY <1>0, <1>2, <2>3 DEF k
    <3> QED
      BY <1>0, <1>2, <2>3, <3>1
  <2> QED
    BY <2>1, <2>2, <2>3
<1>4. Unsent(p) /\ tx[p].ins \cap Nullified = {}
  BY DEF Unsent, Acceptable
<1>5. ConsumedOnce'
  <2> SUFFICES ASSUME NEW a \in Accounts, NEW b \in Accounts,
                      NEW i \in 1 .. Len(log'[a]), NEW j \in 1 .. Len(log'[b]),
                      ~(a = b /\ i = j)
               PROVE  log'[a][i].ins \cap log'[b][j].ins = {}
    BY DEF ConsumedOnce, Nonce
  <2>1. \A x \in Accounts : \A l \in 1 .. Nonce(x) : log[x][l].ins \subseteq Nullified
    BY LogSets
  <2>2. CASE a = c /\ i = k + 1
    <3>1. log'[a][i].ins = tx[p].ins /\ ~(b = c /\ j = k + 1)
      BY <1>3, <2>2
    <3>2. log'[b][j].ins \subseteq Nullified
      BY <1>3, <2>1, <3>1
    <3> QED
      BY <1>4, <3>1, <3>2
  <2>3. CASE b = c /\ j = k + 1
    <3>1. log'[b][j].ins = tx[p].ins /\ ~(a = c /\ i = k + 1)
      BY <1>3, <2>3
    <3>2. log'[a][i].ins \subseteq Nullified
      BY <1>3, <2>1, <3>1
    <3> QED
      BY <1>4, <3>1, <3>2
  <2>4. CASE ~(a = c /\ i = k + 1) /\ ~(b = c /\ j = k + 1)
    <3>1. /\ i \in 1 .. Nonce(a) /\ j \in 1 .. Nonce(b)
          /\ log'[a][i].ins = log[a][i].ins /\ log'[b][j].ins = log[b][j].ins
      BY <1>3, <2>4
    <3> QED
      BY <3>1 DEF INote, NoteInv, NoteDiscipline, ConsumedOnce
  <2> QED
    BY <2>2, <2>3, <2>4
<1>6. CreatedOnce'
  <2> SUFFICES ASSUME NEW a \in Accounts, NEW b \in Accounts,
                      NEW i \in 1 .. Len(log'[a]), NEW j \in 1 .. Len(log'[b]),
                      ~(a = b /\ i = j),
                      NEW m \in log'[a][i].outs, NEW n \in log'[b][j].outs
               PROVE  m.id # n.id
    BY DEF CreatedOnce, Nonce
  <2>1. \A x \in Accounts : \A l \in 1 .. Nonce(x) : log[x][l].outs \subseteq Created
    BY LogSets
  <2>2. \A x \in tx[p].outs : \A y \in Created : y.id # x.id
    BY <1>4 DEF INote, NoteInv, SerialsFresh
  <2>3. CASE a = c /\ i = k + 1
    <3>1. m \in tx[p].outs /\ ~(b = c /\ j = k + 1)
      BY <1>3, <2>3
    <3>2. n \in Created
      BY <1>3, <2>1, <3>1
    <3> QED
      BY <2>2, <3>1, <3>2
  <2>4. CASE b = c /\ j = k + 1
    <3>1. n \in tx[p].outs /\ ~(a = c /\ i = k + 1)
      BY <1>3, <2>4
    <3>2. m \in Created
      BY <1>3, <2>1, <3>1
    <3> QED
      BY <2>2, <3>1, <3>2
  <2>5. CASE ~(a = c /\ i = k + 1) /\ ~(b = c /\ j = k + 1)
    <3>1. /\ i \in 1 .. Nonce(a) /\ j \in 1 .. Nonce(b)
          /\ m \in log[a][i].outs /\ n \in log[b][j].outs
      BY <1>3, <2>5
    <3> QED
      BY <3>1 DEF INote, NoteInv, NoteDiscipline, CreatedOnce
  <2> QED
    BY <2>3, <2>4, <2>5
<1>7. ConsumedByTarget'
  <2> SUFFICES ASSUME NEW a \in Accounts, NEW i \in 1 .. Len(log'[a]), NEW n \in log'[a][i].ins
               PROVE  n.target = a
    BY DEF ConsumedByTarget, Nonce
  <2> QED
    BY <1>3 DEF INote, NoteInv, NoteDiscipline, ConsumedByTarget, InputsOfAccount, c
<1>8. Nullified' \subseteq InBlock'
  BY <1>1 DEF INote, IStore, StoreInv, InputsSeen, StoreBehindChain, NoteInv, NoteDiscipline
<1>9. InputsOfAccount'
  BY DEF InputsOfAccount
<1>10. SerialsFresh'
  <2>0. serial' = serial
    OBVIOUS
  <2>1. \A n \in Created' : n.id <= serial'
    BY <1>1, <1>4, <2>0 DEF INote, NoteInv, SerialsFresh
  <2>2. ASSUME NEW q \in Procs, Unsent(q)', NEW n \in tx'[q].outs
        PROVE  n.id <= serial' /\ \A m \in Created' : m.id # n.id
    <3>1. q # p /\ Unsent(q) /\ n \in tx[q].outs
      BY <2>2
    <3>2. n.id <= serial /\ \A m \in Created : m.id # n.id
      BY <3>1 DEF INote, NoteInv, SerialsFresh
    <3>3. \A m \in tx[p].outs : m.id # n.id
      BY <1>4, <3>1 DEF INote, NoteInv, SerialsFresh
    <3> QED
      BY <1>1, <2>0, <3>2, <3>3
  <2>3. ASSUME NEW q \in Procs, NEW r \in Procs, Unsent(q)', Unsent(r)', q # r,
               NEW n \in tx'[q].outs, NEW m \in tx'[r].outs
        PROVE  n.id # m.id
    BY <2>3 DEF INote, NoteInv, SerialsFresh
  <2> QED
    BY <2>1, <2>2, <2>3 DEF SerialsFresh
<1> QED
  BY <1>5, <1>6, <1>7, <1>8, <1>9, <1>10 DEF NoteInv, NoteDiscipline

LEMMA NoteInvStep ==
    ASSUME INote, NEW p \in Procs, StepCall(p) \/ Disturb(p)
    PROVE  NoteInv'
<1>0. /\ TypeOK /\ InputsOfAccount
      /\ "ok" \in Results /\ "err" \in Results /\ "idle" \in Results
  BY DEF INote, IStore, TypeInv, NoteInv, Results
<1>1. CASE Execute(p)
  <2>1. /\ tx' = [tx EXCEPT ![p] = OnLocalState(@)]
        /\ pc' = [pc EXCEPT ![p] = "submit"] /\ pc[p] = "execute"
        /\ UNCHANGED nodeVars /\ UNCHANGED serial
    BY <1>1 DEF Execute, Goto
  <2>2. /\ \A q \in Procs : \A n \in tx'[q].ins : n.target = tx'[q].acct
        /\ \A q \in Procs : Unsent(q)' => Unsent(q) /\ tx'[q].outs = tx[q].outs
    BY <1>0, <2>1 DEF OnLocalState, TypeOK, InputsOfAccount, Unsent
  <2> QED
    BY <2>1, <2>2, QuietNotes
<1>2. CASE ExecuteFails(p) \/ SignerFails(p) \/ Reject(p) \/ RpcFails(p) \/ GiveUp(p) \/ CollectEmpty(p)
  <2>1. Return(p, "err") /\ UNCHANGED nodeVars /\ UNCHANGED serial
    BY <1>2 DEF ExecuteFails, SignerFails, Reject, RpcFails, GiveUp, CollectEmpty, Fail
  <2> QED
    BY <1>0, <2>1, ReturnNotes, QuietNotes
<1>3. CASE Crash(p)
  <2>1. Return(p, "idle") /\ UNCHANGED nodeVars /\ UNCHANGED serial
    BY <1>3 DEF Crash
  <2> QED
    BY <1>0, <2>1, ReturnNotes, QuietNotes
<1>4. CASE Submit(p)
  <2>1. /\ pc[p] = "submit" /\ Acceptable(tx[p]) /\ Accept(tx[p])
        /\ UNCHANGED <<committed, serial>>
        /\ tx' = tx /\ pc' = [pc EXCEPT ![p] = "apply"]
    BY <1>4 DEF Submit, Goto
  <2>2. /\ \A q \in Procs : \A n \in tx'[q].ins : n.target = tx'[q].acct
        /\ \A q \in Procs : Unsent(q)' => q # p /\ Unsent(q) /\ tx'[q].outs = tx[q].outs
    BY <1>0, <2>1 DEF TypeOK, InputsOfAccount, Unsent
  <2> QED
    BY <2>1, <2>2, NoteInvAccept
<1>5. CASE AckLost(p)
  <2>1. /\ pc[p] = "submit" /\ Acceptable(tx[p]) /\ Accept(tx[p])
        /\ UNCHANGED <<committed, serial>> /\ Return(p, "err")
    BY <1>5 DEF AckLost, Fail
  <2>2. /\ \A q \in Procs : \A n \in tx'[q].ins : n.target = tx'[q].acct
        /\ \A q \in Procs : Unsent(q)' => q # p /\ Unsent(q) /\ tx'[q].outs = tx[q].outs
    BY <1>0, <2>1, ReturnNotes
  <2> QED
    BY <2>1, <2>2, NoteInvAccept
<1>6. CASE Apply(p) /\ HasSecondStep(p)
  <2>1. /\ tx' = [tx EXCEPT ![p] = NoTx] /\ pc' = [pc EXCEPT ![p] = "sync"]
        /\ UNCHANGED nodeVars /\ UNCHANGED serial
    BY <1>6 DEF Apply, Goto
  <2>2. /\ \A q \in Procs : \A n \in tx'[q].ins : n.target = tx'[q].acct
        /\ \A q \in Procs : Unsent(q)' => Unsent(q) /\ tx'[q].outs = tx[q].outs
    BY <1>0, <2>1 DEF TypeOK, InputsOfAccount, Unsent, NoTx
  <2> QED
    BY <2>1, <2>2, QuietNotes
<1>7. CASE (Apply(p) /\ ~HasSecondStep(p)) \/ (Sync(p) /\ call[p].op = "sync")
  <2>1. Return(p, "ok") /\ UNCHANGED nodeVars /\ UNCHANGED serial
    BY <1>7 DEF Apply, Sync, Succeed
  <2> QED
    BY <1>0, <2>1, ReturnNotes, QuietNotes
<1>8. CASE (Sync(p) /\ call[p].op # "sync") \/ ListFinds(p) \/ ListEmpty(p)
  <2>1. /\ tx' = tx /\ UNCHANGED nodeVars /\ UNCHANGED serial
        /\ \A q \in Procs : Unsent(q)' => Unsent(q)
    BY <1>0, <1>8 DEF Sync, ListFinds, ListEmpty, Goto, TypeOK, Unsent
  <2> QED
    BY <1>0, <2>1, QuietNotes DEF InputsOfAccount
<1>9. CASE Collect(p)
  <2>0. /\ UNCHANGED nodeVars /\ UNCHANGED serial
    BY <1>9 DEF Collect
  <2>1. PICK notes \in SUBSET Consumable(p) :
            /\ tx' = [tx EXCEPT ![p] = [acct |-> Poller(p), nonce |-> 0,
                                        ins |-> notes, outs |-> {}]]
            /\ pc' = [pc EXCEPT ![p] = "execute"]
    BY <1>9, CollectStep
  <2>2. \A n \in Consumable(p) : n.target = Poller(p)
    BY DEF Consumable
  <2>3. /\ \A q \in Procs : \A n \in tx'[q].ins : n.target = tx'[q].acct
        /\ \A q \in Procs : Unsent(q)' => tx'[q].outs = {} \/ (Unsent(q) /\ tx'[q].outs = tx[q].outs)
    BY <1>0, <2>1, <2>2 DEF TypeOK, InputsOfAccount, Unsent
  <2> QED
    BY <2>0, <2>1, <2>3, QuietNotes
<1> QED
  BY <1>1, <1>2, <1>3, <1>4, <1>5, <1>6, <1>7, <1>8, <1>9 DEF StepCall, Disturb

LEMMA NoteInvStart ==
    ASSUME INote, NEW p \in Procs, StartCall(p)
    PROVE  NoteInv'
<1>0. Issuer \in Accounts /\ Wallets \subseteq Accounts
  BY DEF Accounts
<1>1. ASSUME NEW op, NEW a, Poll(p, op, a)
      PROVE  NoteInv'
  <2>1. /\ tx' = tx /\ UNCHANGED nodeVars /\ UNCHANGED serial
        /\ \A q \in Procs : Unsent(q)' => Unsent(q)
    BY <1>1 DEF Poll, Goto, INote, IStore, TypeInv, TypeOK, Unsent
  <2> QED
    BY <2>1, QuietNotes DEF INote, NoteInv, InputsOfAccount
<1> QED
  BY <1>0, <1>1, NoteInvCreate
     DEF StartCall, MintTokens, TransferTokens, BurnTokens, ConsumeNotes, SyncAndTrack

LEMMA NoteInvInclude ==
    ASSUME INote, NEW a \in Accounts, Include(a)
    PROVE  NoteInv'
<1>1. /\ Created' = Created /\ Nullified' = Nullified /\ InBlock \subseteq InBlock'
      /\ \A x \in Accounts : Nonce(x)' = Nonce(x)
  BY IncludeGrows DEF INote, IStore
<1>2. log' = log /\ serial' = serial /\ UNCHANGED procVars
  BY DEF Include
<1>3. NoteDiscipline'
  BY <1>1, <1>2 DEF INote, NoteInv, NoteDiscipline, ConsumedOnce, CreatedOnce, ConsumedByTarget
<1>4. InputsOfAccount'
  BY <1>2 DEF INote, NoteInv, InputsOfAccount, procVars
<1>5. SerialsFresh'
  BY <1>1, <1>2 DEF INote, NoteInv, SerialsFresh, Unsent, procVars
<1> QED
  BY <1>3, <1>4, <1>5 DEF NoteInv

LEMMA NoteInvNext == INote /\ [Next]_vars => NoteInv'
<1> SUFFICES ASSUME INote, [Next]_vars PROVE NoteInv'
  OBVIOUS
<1>1. ASSUME NEW p \in Procs, StartCall(p) \/ StepCall(p) \/ Disturb(p)
      PROVE  NoteInv'
  BY <1>1, NoteInvStart, NoteInvStep
<1>2. ASSUME NEW a \in Accounts, Include(a)
      PROVE  NoteInv'
  BY <1>2, NoteInvInclude
<1>3. CASE UNCHANGED vars
  <2>1. UNCHANGED nodeVars /\ UNCHANGED serial /\ pc' = pc /\ tx' = tx
    BY <1>3 DEF vars, procVars
  <2> QED
    BY <2>1, QuietNotes DEF INote, NoteInv, InputsOfAccount, Unsent
<1> QED
  BY <1>1, <1>2, <1>3 DEF Next

LEMMA NoteInvInit == Init => NoteInv
<1> SUFFICES ASSUME Init PROVE NoteInv
  OBVIOUS
<1>1. \A a \in Accounts : Nonce(a) = 0
  BY DEF Init, Nonce
<1>2. Created = {} /\ Nullified = {}
  BY <1>1 DEF Created, Nullified, OutsUpTo, InsUpTo
<1>3. NoteDiscipline
  BY <1>1, <1>2 DEF NoteDiscipline, ConsumedOnce, CreatedOnce, ConsumedByTarget
<1>4. InputsOfAccount
  BY DEF Init, InputsOfAccount, NoTx
<1>5. SerialsFresh
  BY <1>2 DEF Init, SerialsFresh, Unsent
<1> QED
  BY <1>3, <1>4, <1>5 DEF NoteInv

\* No note is created twice, none is consumed twice, and none by an account
\* it is not addressed to or before its creation is in a block: the token
\* cannot be spent twice, whatever the processes do to the shared stores.
THEOREM NotesSpentOnce == Spec => []NoteDiscipline
<1>1. Init => INote
  BY TypeInvInit, StoreInvInit, NoteInvInit DEF INote, IStore
<1>2. INote /\ [Next]_vars => INote'
  BY TypeInvNext, StoreInvNext, NoteInvNext DEF INote, IStore
<1>3. INote => NoteDiscipline
  BY DEF INote, NoteInv
<1> QED
  BY <1>1, <1>2, <1>3, PTL DEF Spec

-----------------------------------------------------------------------------
(* Payments: a payment that was reported as done can be recovered from the  *)
(* store.                                                                   *)


IPayment == INote /\ PaymentInv

\* What no step undoes: notes sent and notes recorded.  A note that exists
\* is not sent a second time by another account.
Grows ==
    /\ Created \subseteq Created'
    /\ Recorded \subseteq Recorded'
    /\ \A a \in Accounts : Sent(a) \subseteq Sent(a)' /\ Sent(a)' \cap Created \subseteq Sent(a)

LEMMA GrowsKeeps ==
    ASSUME Grows, NEW n, n \in Created, Recoverable(n)
    PROVE  n \in Created' /\ Recoverable(n)'
BY DEF Grows, Recoverable

LEMMA QuietGrows ==
    ASSUME UNCHANGED nodeVars, Recorded \subseteq Recorded'
    PROVE  Grows
<1>1. Created' = Created /\ \A a \in Accounts : Sent(a)' = Sent(a)
  BY SameNodeSets DEF Sent, OutsUpTo, nodeVars
<1> QED
  BY <1>1 DEF Grows

LEMMA SameStores ==
    ASSUME UNCHANGED storeVars, Nullified \subseteq Nullified'
    PROVE  Recorded \subseteq Recorded'
BY DEF Recorded, storeVars

\* An accepted transaction whose notes are new sends them, and nothing else.
LEMMA AcceptGrows ==
    ASSUME INote, NEW t \in Requests, t.outs \cap Created = {}, Accept(t),
           UNCHANGED committed, UNCHANGED storeVars
    PROVE  Grows /\ t.acct \in Accounts /\ t.outs \subseteq Sent(t.acct)'
<1>0. TypeInv /\ TypeOK
  BY DEF INote, IStore, TypeInv
<1>1. Created' = Created \cup t.outs /\ Nullified' = Nullified \cup t.ins
  BY <1>0, AcceptCreates
<1>2. /\ t.acct \in Accounts
      /\ \A a \in Accounts : a # t.acct => Sent(a)' = Sent(a)
      /\ Sent(t.acct)' = Sent(t.acct) \cup t.outs
  BY <1>0, AcceptSends DEF Sent
<1>3. Recorded \subseteq Recorded'
  BY <1>1, SameStores
<1>4. \A a \in Accounts : Sent(a) \subseteq Sent(a)' /\ Sent(a)' \cap Created \subseteq Sent(a)
  BY <1>2
<1> QED
  BY <1>1, <1>2, <1>3, <1>4 DEF Grows

\* The notes of a request that is being submitted exist nowhere.
LEMMA SubmitIsNew ==
    ASSUME INote, NEW p \in Procs, pc[p] = "submit"
    PROVE  tx[p] \in Requests /\ tx[p].outs \cap Created = {}
BY DEF INote, IStore, TypeInv, TypeOK, NoteInv, SerialsFresh, Unsent

\* A store forgets that it expects a note only when it finds the note in a
\* block or spent.
LEMMA SyncGrows ==
    ASSUME INote, NEW p \in Procs, Sync(p)
    PROVE  Grows
<1>1. SyncState(p) /\ UNCHANGED nodeVars
  BY DEF Sync
<1>2. Nullified' = Nullified /\ InBlock' = InBlock
  BY <1>1, SameNodeSets
<1>3. Spent \subseteq Nullified
  <2>1. \A a \in Accounts : 1 .. committed[a] \subseteq 1 .. Nonce(a)
    BY NonceNat DEF INote, IStore, TypeInv, TypeOK, BlocksBehindNode
  <2> QED
    BY <2>1 DEF Spent, Nullified, InsUpTo
<1>4. expected \subseteq expected' \cup consumable' \cup spending' \cup Nullified
  BY <1>1, <1>3 DEF SyncState, Discovered
<1>5. consumable \cup spending \subseteq consumable' \cup spending'
  BY <1>1 DEF SyncState
<1>6. Recorded \subseteq Recorded'
  BY <1>2, <1>4, <1>5 DEF Recorded
<1> QED
  BY <1>1, <1>6, QuietGrows

LEMMA ApplyGrows ==
    ASSUME NEW p \in Procs, Apply(p)
    PROVE  Grows
<1>1. StoreTransaction(p, tx[p]) /\ UNCHANGED nodeVars
  BY DEF Apply
<1>2. Nullified' = Nullified
  BY <1>1, SameNodeSets
<1>3. Recorded \subseteq Recorded'
  BY <1>1, <1>2 DEF Recorded, StoreTransaction
<1> QED
  BY <1>1, <1>3, QuietGrows

\* A note is sent by one account only.
LEMMA SentByOne ==
    ASSUME INote, NEW a \in Accounts, NEW b \in Accounts, NEW n, n \in Sent(a), n \in Sent(b)
    PROVE  a = b
<1>1. PICK i \in 1 .. Nonce(a) : n \in log[a][i].outs
  BY DEF Sent, OutsUpTo
<1>2. PICK j \in 1 .. Nonce(b) : n \in log[b][j].outs
  BY DEF Sent, OutsUpTo
<1>3. CreatedOnce
  BY DEF INote, NoteInv, NoteDiscipline
<1> QED
  BY <1>1, <1>2, <1>3 DEF CreatedOnce

\* When the store has recorded the transaction of a call, the note of the
\* call is recoverable, be it of this transaction or of an earlier one.
LEMMA ApplyRecords ==
    ASSUME IPayment, NEW p \in Procs, Apply(p)
    PROVE  \A n \in call[p].outs : n \in Created' /\ Recoverable(n)'
<1> SUFFICES ASSUME NEW n \in call[p].outs
             PROVE  n \in Created' /\ Recoverable(n)'
  OBVIOUS
<1>0. Grows
  BY ApplyGrows
<1>1. /\ pc[p] = "apply" /\ StoreTransaction(p, tx[p]) /\ UNCHANGED nodeVars
      /\ tx[p].acct \in Accounts
  BY DEF Apply, IPayment, INote, IStore, TypeInv, TypeOK, Requests
<1>2. CASE n \in Created /\ Recoverable(n)
  BY <1>0, <1>2, GrowsKeeps
<1>3. CASE n \in tx[p].outs
  <2>1. n \in Sent(tx[p].acct) /\ Tracks(p, tx[p].acct)
    BY <1>1, <1>3 DEF IPayment, PaymentInv, AppliedIsSent, SubmitsFromHome
  <2>2. n \in Created'
    BY <1>0, <1>1, <2>1 DEF Grows, Created, Sent
  <2>3. ASSUME NEW a \in Accounts, n \in Sent(a)', Home[n.target] = Home[a]
        PROVE  n \in Recorded'
    <3>1. n \in Sent(a)
      BY <1>1, <2>3, SameNodeSets DEF Sent, OutsUpTo, nodeVars
    <3>2. Tracks(p, n.target)
      BY <1>1, <2>1, <2>3, <3>1, SentByOne DEF Tracks, IPayment
    <3> QED
      BY <1>1, <1>3, <3>2 DEF StoreTransaction, Recorded
  <2> QED
    BY <2>2, <2>3 DEF Recoverable
<1> QED
  BY <1>1, <1>2, <1>3 DEF IPayment, PaymentInv, CallRecorded, FirstStep, Steps

-----------------------------------------------------------------------------
\* What a step of p must not disturb: every other process is as it was, what
\* the step reports is recorded, and p submits and applies from home.
LEMMA PaymentKept ==
    ASSUME IPayment, TypeInv', Grows, NEW p \in Procs,
           \A q \in Procs \ {p} : pc'[q] = pc[q] /\ call'[q] = call[q] /\ tx'[q] = tx[q],
           \A n \in acked' \ acked : n \in Created' /\ Recoverable(n)',
           pc'[p] \in {"submit", "apply"} => Tracks(p, tx'[p].acct),
           pc'[p] = "apply" => \A c \in Accounts : c = tx'[p].acct => tx'[p].outs \subseteq Sent(c)',
           pc'[p] \in Steps => FirstStep(p)' \/ \A n \in call'[p].outs : n \in Created' /\ Recoverable(n)'
    PROVE  PaymentInv'
<1>1. \A n \in acked' : n \in Created' /\ Recoverable(n)'
  BY GrowsKeeps DEF IPayment, PaymentInv, AckedPaymentRecoverable
<1>2. CallRecorded'
  <2> SUFFICES ASSUME NEW q \in Procs \ {p}, pc'[q] \in Steps
               PROVE  FirstStep(q)' \/ \A n \in call'[q].outs : n \in Created' /\ Recoverable(n)'
    BY DEF CallRecorded
  <2>1. FirstStep(q) \/ \A n \in call[q].outs : n \in Created /\ Recoverable(n)
    BY DEF IPayment, PaymentInv, CallRecorded
  <2> QED
    BY <2>1, GrowsKeeps DEF FirstStep
<1>3. SubmitsFromHome'
  BY DEF IPayment, PaymentInv, SubmitsFromHome, Tracks
<1>4. ASSUME NEW q \in Procs, pc'[q] = "apply"
      PROVE  tx'[q].outs \subseteq Sent(tx[q].acct)'
  <2>1. PICK c \in Accounts : c = tx'[q].acct
    BY DEF TypeInv, TypeOK, Requests
  <2>2. CASE q # p
    <3>1. pc[q] = "apply" /\ tx'[q] = tx[q] /\ c = tx[q].acct
      BY <1>4, <2>1, <2>2
    <3>2. tx[q].outs \subseteq Sent(c)
      BY <3>1 DEF IPayment, PaymentInv, AppliedIsSent
    <3> QED
      BY <2>1, <3>1, <3>2 DEF Grows, Sent
  <2> QED
    BY <1>4, <2>1, <2>2 DEF Sent
<1>5. AppliedIsSent'
  BY <1>4 DEF AppliedIsSent
<1> QED
  BY <1>1, <1>2, <1>3, <1>5 DEF PaymentInv, AckedPaymentRecoverable

\* A call returns, with its note recorded or unreported.
LEMMA ReturnPayment ==
    ASSUME IPayment, TypeInv', Grows, NEW p \in Procs, NEW r \in Results, Return(p, r),
           \A n \in acked' \ acked : n \in Created' /\ Recoverable(n)'
    PROVE  PaymentInv'
<1>1. pc'[p] \notin Steps /\ pc'[p] \notin {"submit", "apply"}
  BY DEF Return, Goto, Results, Steps, IPayment, INote, IStore, TypeInv, TypeOK
<1>2. \A q \in Procs \ {p} : pc'[q] = pc[q] /\ call'[q] = call[q] /\ tx'[q] = tx[q]
  BY DEF Return, Goto, IPayment, INote, IStore, TypeInv, TypeOK
<1> QED
  BY <1>1, <1>2, PaymentKept

LEMMA PaymentStart ==
    ASSUME IPayment, TypeInv', NEW p \in Procs, StartCall(p)
    PROVE  PaymentInv'
<1>0. TypeOK
  BY DEF IPayment, INote, IStore, TypeInv
<1>1. ASSUME NEW op, NEW a, NEW t, NEW m, CreateNote(p, op, a, t, m)
      PROVE  PaymentInv'
  <2>1. Grows /\ acked' = acked
    BY <1>1, QuietGrows, SameNodeSets, SameStores DEF CreateNote
  <2>2. pc'[p] = "execute" /\ call'[p].outs = tx'[p].outs
    BY <1>0, <1>1 DEF CreateNote, Goto, TypeOK
  <2>3. \A q \in Procs \ {p} : pc'[q] = pc[q] /\ call'[q] = call[q] /\ tx'[q] = tx[q]
    BY <1>0, <1>1 DEF CreateNote, Goto, TypeOK
  <2> QED
    BY <2>1, <2>2, <2>3, PaymentKept DEF FirstStep
<1>2. ASSUME NEW op, NEW a, Poll(p, op, a)
      PROVE  PaymentInv'
  <2>1. Grows /\ acked' = acked
    BY <1>2, QuietGrows, SameNodeSets, SameStores DEF Poll
  <2>2. pc'[p] = "sync" /\ call'[p].outs = {}
    BY <1>0, <1>2 DEF Poll, Goto, TypeOK
  <2>3. \A q \in Procs \ {p} : pc'[q] = pc[q] /\ call'[q] = call[q] /\ tx'[q] = tx[q]
    BY <1>0, <1>2 DEF Poll, Goto, TypeOK
  <2> QED
    BY <2>1, <2>2, <2>3, PaymentKept
<1> QED
  BY <1>1, <1>2 DEF StartCall, MintTokens, TransferTokens, BurnTokens, ConsumeNotes, SyncAndTrack

\* Outside its first transaction a call has its note recorded already.
LEMMA LaterRecorded ==
    ASSUME IPayment, NEW p \in Procs, pc[p] \in Steps, ~FirstStep(p), Grows
    PROVE  \A n \in call[p].outs : n \in Created' /\ Recoverable(n)'
BY GrowsKeeps DEF IPayment, PaymentInv, CallRecorded

LEMMA PaymentStep ==
    ASSUME IPayment, TypeInv', NEW p \in Procs, StepCall(p) \/ Disturb(p)
    PROVE  PaymentInv'
<1>0. /\ TypeOK /\ "ok" \in Results /\ "err" \in Results /\ "idle" \in Results
  BY DEF IPayment, INote, IStore, TypeInv, Results
<1>a. INote /\ tx[p] \in Requests
  BY <1>0 DEF IPayment, TypeOK
<1>1. CASE Execute(p)
  <2>1. Grows /\ acked' = acked
    BY <1>1, QuietGrows, SameNodeSets, SameStores DEF Execute
  <2>2. /\ pc[p] = "execute" /\ pc'[p] = "submit" /\ call' = call
        /\ tx'[p].acct = tx[p].acct /\ tx'[p].outs = tx[p].outs
    BY <1>0, <1>1 DEF Execute, Goto, OnLocalState, TypeOK
  <2>3. \A q \in Procs \ {p} : pc'[q] = pc[q] /\ call'[q] = call[q] /\ tx'[q] = tx[q]
    BY <1>0, <1>1 DEF Execute, Goto, TypeOK
  <2>4. Tracks(p, tx'[p].acct)
    BY <1>1, <2>2 DEF Execute, Executable, Tracks
  <2>5. FirstStep(p)' \/ \A n \in call'[p].outs : n \in Created' /\ Recoverable(n)'
    BY <2>1, <2>2, LaterRecorded DEF FirstStep, Steps
  <2> QED
    BY <2>1, <2>2, <2>3, <2>4, <2>5, PaymentKept
<1>2. CASE ExecuteFails(p) \/ SignerFails(p) \/ Reject(p) \/ RpcFails(p) \/ GiveUp(p) \/ CollectEmpty(p)
  <2>1. Return(p, "err") /\ UNCHANGED nodeVars /\ UNCHANGED storeVars /\ acked' = acked
    BY <1>2 DEF ExecuteFails, SignerFails, Reject, RpcFails, GiveUp, CollectEmpty, Fail
  <2>2. Grows
    BY <2>1, QuietGrows, SameNodeSets, SameStores
  <2> QED
    BY <1>0, <2>1, <2>2, ReturnPayment
<1>3. CASE Crash(p)
  <2>1. Return(p, "idle") /\ UNCHANGED nodeVars /\ UNCHANGED storeVars /\ acked' = acked
    BY <1>3 DEF Crash
  <2>2. Grows
    BY <2>1, QuietGrows, SameNodeSets, SameStores
  <2> QED
    BY <1>0, <2>1, <2>2, ReturnPayment
<1>4. CASE Submit(p)
  <2>1. PICK t \in Requests : t = tx[p]
    BY <1>a
  <2>2. /\ Accept(t) /\ UNCHANGED committed /\ UNCHANGED storeVars
        /\ pc[p] = "submit" /\ pc' = [pc EXCEPT ![p] = "apply"]
        /\ tx' = tx /\ call' = call /\ acked' = acked
    BY <1>4, <2>1 DEF Submit, Goto
  <2>3. t.outs \cap Created = {}
    BY <1>a, <2>1, <2>2, SubmitIsNew
  <2>4. Grows /\ t.outs \subseteq Sent(t.acct)'
    BY <1>a, <2>2, <2>3, AcceptGrows
  <2>5. /\ pc'[p] = "apply"
        /\ \A q \in Procs \ {p} : pc'[q] = pc[q] /\ call'[q] = call[q] /\ tx'[q] = tx[q]
    BY <1>0, <2>2 DEF TypeOK
  <2>6. Tracks(p, tx'[p].acct)
    BY <2>2 DEF IPayment, PaymentInv, SubmitsFromHome, Tracks
  <2>7. FirstStep(p)' \/ \A n \in call'[p].outs : n \in Created' /\ Recoverable(n)'
    BY <2>2, <2>4, <2>5, LaterRecorded DEF FirstStep, Steps
  <2> QED
    BY <2>1, <2>2, <2>4, <2>5, <2>6, <2>7, PaymentKept
<1>5. CASE AckLost(p)
  <2>1. PICK t \in Requests : t = tx[p]
    BY <1>a
  <2>2. /\ Accept(t) /\ UNCHANGED committed /\ UNCHANGED storeVars
        /\ pc[p] = "submit" /\ Return(p, "err") /\ acked' = acked
    BY <1>5, <2>1 DEF AckLost, Fail
  <2>3. t.outs \cap Created = {}
    BY <1>a, <2>1, <2>2, SubmitIsNew
  <2>4. Grows
    BY <1>a, <2>2, <2>3, AcceptGrows
  <2> QED
    BY <1>0, <2>2, <2>4, ReturnPayment
<1>6. CASE Apply(p) /\ HasSecondStep(p)
  <2>1. /\ pc' = [pc EXCEPT ![p] = "sync"] /\ tx' = [tx EXCEPT ![p] = NoTx]
        /\ call' = call /\ acked' = acked
    BY <1>6 DEF Apply, Goto
  <2>2. Grows /\ \A n \in call[p].outs : n \in Created' /\ Recoverable(n)'
    BY <1>6, ApplyGrows, ApplyRecords
  <2>3. /\ pc'[p] = "sync"
        /\ \A q \in Procs \ {p} : pc'[q] = pc[q] /\ call'[q] = call[q] /\ tx'[q] = tx[q]
    BY <1>0, <2>1 DEF TypeOK
  <2> QED
    BY <2>1, <2>2, <2>3, PaymentKept
<1>7. CASE Apply(p) /\ ~HasSecondStep(p)
  <2>1. Return(p, "ok") /\ acked' = acked \cup call[p].outs
    BY <1>7 DEF Apply, Succeed
  <2>2. Grows /\ \A n \in call[p].outs : n \in Created' /\ Recoverable(n)'
    BY <1>7, ApplyGrows, ApplyRecords
  <2> QED
    BY <1>0, <2>1, <2>2, ReturnPayment
<1>8. CASE Sync(p)
  <2>1. Grows /\ pc[p] = "sync"
    BY <1>a, <1>8, SyncGrows DEF Sync
  <2>2. \A n \in call[p].outs : n \in Created' /\ Recoverable(n)'
    BY <2>1, LaterRecorded DEF FirstStep, Steps
  <2>3. CASE call[p].op = "sync"
    BY <1>0, <1>8, <2>1, <2>2, <2>3, ReturnPayment DEF Sync, Succeed
  <2>4. CASE call[p].op # "sync"
    <3>1. pc' = [pc EXCEPT ![p] = "list"] /\ UNCHANGED <<call, tx, attempt, acked>>
      BY <1>8, <2>4 DEF Sync, Goto
    <3>2. /\ pc'[p] = "list"
          /\ \A q \in Procs \ {p} : pc'[q] = pc[q] /\ call'[q] = call[q] /\ tx'[q] = tx[q]
      BY <1>0, <3>1 DEF TypeOK
    <3> QED
      BY <2>1, <2>2, <3>1, <3>2, PaymentKept
  <2> QED
    BY <2>3, <2>4
<1>9. CASE ListFinds(p) \/ ListEmpty(p) \/ Collect(p)
  <2>1. /\ UNCHANGED nodeVars /\ UNCHANGED storeVars /\ call' = call /\ acked' = acked
        /\ pc[p] \in {"list", "collect"}
        /\ pc'[p] \in {"collect", "sync", "execute"}
        /\ \A q \in Procs \ {p} : pc'[q] = pc[q] /\ tx'[q] = tx[q]
    BY <1>0, <1>9 DEF ListFinds, ListEmpty, Collect, Goto, TypeOK
  <2>2. Grows
    BY <2>1, QuietGrows, SameNodeSets, SameStores
  <2>3. \A n \in call'[p].outs : n \in Created' /\ Recoverable(n)'
    BY <2>1, <2>2, LaterRecorded DEF FirstStep, Steps
  <2> QED
    BY <2>1, <2>2, <2>3, PaymentKept
<1> QED
  BY <1>1, <1>2, <1>3, <1>4, <1>5, <1>6, <1>7, <1>8, <1>9 DEF StepCall, Disturb

LEMMA PaymentInclude ==
    ASSUME IPayment, NEW a \in Accounts, Include(a)
    PROVE  PaymentInv'
<1>1. /\ Created' = Created /\ Nullified' = Nullified
      /\ log' = log /\ UNCHANGED <<storeVars, procVars, acked>>
  BY IncludeGrows DEF Include, IPayment, INote, IStore
<1>2. Recorded' = Recorded /\ \A x \in Accounts : Sent(x)' = Sent(x)
  BY <1>1 DEF Recorded, storeVars, Sent, OutsUpTo, Nonce
<1>3. \A n : Recoverable(n)' <=> Recoverable(n)
  BY <1>2 DEF Recoverable
<1>4. AppliedIsSent'
  BY <1>1 DEF IPayment, PaymentInv, AppliedIsSent, procVars, Sent, OutsUpTo, Nonce
<1> QED
  BY <1>1, <1>3, <1>4 DEF IPayment, PaymentInv, AckedPaymentRecoverable, SubmitsFromHome, Tracks,
     CallRecorded, FirstStep, procVars

LEMMA PaymentNext == IPayment /\ [Next]_vars => PaymentInv'
<1> SUFFICES ASSUME IPayment, [Next]_vars PROVE PaymentInv'
  OBVIOUS
<1>0. TypeInv'
  BY TypeInvNext DEF IPayment, INote, IStore
<1>1. ASSUME NEW p \in Procs, StartCall(p) \/ StepCall(p) \/ Disturb(p)
      PROVE  PaymentInv'
  BY <1>0, <1>1, PaymentStart, PaymentStep
<1>2. ASSUME NEW a \in Accounts, Include(a)
      PROVE  PaymentInv'
  BY <1>2, PaymentInclude
<1>3. CASE UNCHANGED vars
  BY <1>3 DEF vars, nodeVars, storeVars, procVars, IPayment, PaymentInv, AckedPaymentRecoverable,
     SubmitsFromHome, AppliedIsSent, CallRecorded, FirstStep, Recoverable, Recorded, Tracks,
     Sent, OutsUpTo, Nonce, Created, Nullified, InsUpTo
<1> QED
  BY <1>1, <1>2, <1>3 DEF Next

LEMMA PaymentInit == Init => PaymentInv
BY DEF Init, PaymentInv, AckedPaymentRecoverable, SubmitsFromHome, AppliedIsSent, CallRecorded, Steps

\* A payment that a call reported as done, between accounts of one store,
\* can be found in the store or is consumed, at any later time: no lost
\* answer, crash, failed call or other process of the store makes the store
\* forget a private note whose details exist nowhere else.
THEOREM PaymentsRecoverable == Spec => []AckedPaymentRecoverable
<1>1. Init => IPayment
  BY TypeInvInit, StoreInvInit, NoteInvInit, PaymentInit DEF IPayment, INote, IStore
<1>2. IPayment /\ [Next]_vars => IPayment'
  BY TypeInvNext, StoreInvNext, NoteInvNext, PaymentNext DEF IPayment, INote, IStore
<1>3. IPayment => AckedPaymentRecoverable
  BY DEF IPayment, PaymentInv
<1> QED
  BY <1>1, <1>2, <1>3, PTL DEF Spec
=============================================================================
