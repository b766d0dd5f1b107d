----------------------------- MODULE SupplyProofs -----------------------------
(***************************************************************************)
(* Conservation of the token, and the token ledger that the operations     *)
(* implement: proofs about SupplySound, ImplementsLedger and               *)
(* SupplyCoversHoldings of Operations.                                     *)
(***************************************************************************)
EXTENDS OperationsProofs, SumProofs

IFunds == INote /\ FundsInv

\* What the node has accepted stays as it is: states are named by nonces.
LogKept ==
    \A a \in Accounts :
        /\ Nonce(a)' \in Nat /\ Nonce(a) <= Nonce(a)'
        /\ \A k \in 0 .. Nonce(a) :
               OutsUpTo(a, k)' = OutsUpTo(a, k) /\ InsUpTo(a, k)' = InsUpTo(a, k)

LEMMA QuietLog ==
    ASSUME TypeOK, log' = log
    PROVE  /\ LogKept
           /\ \A a \in Accounts : Nonce(a)' = Nonce(a)
BY NonceNat DEF LogKept, Nonce, OutsUpTo, InsUpTo

LEMMA AcceptKeepsLog ==
    ASSUME TypeInv, UNCHANGED committed, NEW t \in Requests, Accept(t)
    PROVE  LogKept
<1> SUFFICES ASSUME NEW a \in Accounts
             PROVE  /\ Nonce(a)' \in Nat /\ Nonce(a) <= Nonce(a)'
                    /\ \A k \in 0 .. Nonce(a) :
                           OutsUpTo(a, k)' = OutsUpTo(a, k) /\ InsUpTo(a, k)' = InsUpTo(a, k)
  BY DEF LogKept
<1>0. TypeOK
  BY DEF TypeInv
<1>1. Nonce(a) <= Nonce(a)' /\ \A i \in 1 .. Nonce(a) : log'[a][i] = log[a][i]
  BY <1>0, AcceptExtends
<1>3. Nonce(a)' \in Nat
  BY AcceptType DEF Nonce
<1>2. ASSUME NEW k \in 0 .. Nonce(a)
      PROVE  OutsUpTo(a, k)' = OutsUpTo(a, k) /\ InsUpTo(a, k)' = InsUpTo(a, k)
  <2>1. \A i \in 1 .. k : log'[a][i] = log[a][i]
    BY <1>0, <1>1, NonceNat
  <2> QED
    BY <2>1 DEF OutsUpTo, InsUpTo
<1> QED
  BY <1>1, <1>2, <1>3

LEMMA FundsKeptAt ==
    ASSUME LogKept, Issuer \in Accounts, Wallets \subseteq Accounts
    PROVE  /\ \A k \in 0 .. Nonce(Issuer) : IssuanceAt(k)' = IssuanceAt(k)
           /\ \A w \in Wallets : \A k \in 0 .. Nonce(w) : BalanceAt(w, k)' = BalanceAt(w, k)
BY DEF LogKept, IssuanceAt, BalanceAt, Value

LEMMA AffordableKept ==
    ASSUME LogKept, NEW t \in Requests, NEW k \in 0 .. Nonce(t.acct), Affordable(t, k)
    PROVE  Affordable(t, k)'
<1>1. t.acct \in Accounts /\ Wallets \subseteq Accounts /\ Issuer \in Accounts
      /\ (t.acct # Issuer => t.acct \in Wallets)
  BY DEF Requests, Accounts
<1> QED
  BY <1>1, FundsKeptAt DEF Affordable

LEMMA QuietFunds ==
    ASSUME IFunds, log' = log
    PROVE  FundsHold'
<1>1. /\ TypeOK /\ FundsHold /\ Issuer \in Accounts /\ Wallets \subseteq Accounts
  BY DEF IFunds, INote, IStore, TypeInv, FundsInv, Accounts
<1>2. LogKept /\ \A a \in Accounts : Nonce(a)' = Nonce(a)
  BY <1>1, QuietLog
<1> QED
  BY <1>1, <1>2, FundsKeptAt DEF FundsHold

\* What the node checks and what a submitting process knows, together.
LEMMA SubmitFacts ==
    ASSUME IFunds, NEW p \in Procs, pc[p] = "submit", Acceptable(tx[p])
    PROVE  LET t == tx[p]
               O == OutsUpTo(t.acct, Nonce(t.acct))
               I == InsUpTo(t.acct, Nonce(t.acct))
           IN /\ t \in Requests /\ t.acct \in Accounts /\ OneEffect(t)
              /\ t.outs \in SUBSET NoteSet /\ t.ins \in SUBSET NoteSet
              /\ O \in SUBSET Created /\ I \in SUBSET Nullified
              /\ Created \in SUBSET NoteSet /\ Nullified \in SUBSET NoteSet
              /\ t.outs \cap Created = {} /\ t.ins \cap Nullified = {}
              /\ t.ins \subseteq Created
              /\ t.nonce = Nonce(t.acct) /\ Affordable(t, t.nonce)
<1>1. TypeOK /\ TypeInv /\ INote
  BY DEF IFunds, INote, IStore, TypeInv
<1>2. tx[p] \in Requests /\ tx[p].outs \cap Created = {}
  BY <1>1, SubmitIsNew
<1>3. /\ tx[p].acct \in Accounts
      /\ tx[p].outs \in SUBSET NoteSet /\ tx[p].ins \in SUBSET NoteSet
  BY <1>2 DEF Requests
<1>4. Created \in SUBSET NoteSet /\ Nullified \in SUBSET NoteSet
  BY <1>1, CreatedNotes
<1>5. /\ OutsUpTo(tx[p].acct, Nonce(tx[p].acct)) \in SUBSET Created
      /\ InsUpTo(tx[p].acct, Nonce(tx[p].acct)) \in SUBSET Nullified
  BY <1>3 DEF Created, Nullified
<1>6. OneEffect(tx[p]) /\ Affordable(tx[p], tx[p].nonce)
  BY DEF IFunds, FundsInv, RequestShape, SubmitsAffordable
<1>7. tx[p].nonce = Nonce(tx[p].acct) /\ tx[p].ins \cap Nullified = {}
  BY DEF Acceptable
<1>8. tx[p].ins \subseteq Created
  BY <1>1 DEF INote, IStore, StoreInv, InputsSeen, StoreBehindChain
<1> QED
  BY <1>2, <1>3, <1>4, <1>5, <1>6, <1>7, <1>8

\* An accepted request is paid from the state it names, which is the latest.
LEMMA FundsAccept ==
    ASSUME IFunds, NEW p \in Procs, pc[p] = "submit", Acceptable(tx[p]), Accept(tx[p]),
           UNCHANGED committed
    PROVE  FundsHold' /\ LogKept
<1>1. PICK t \in Requests : t = tx[p]
  BY SubmitFacts
<1> DEFINE c == t.acct
<1>0. PICK k \in Nat : k = Nonce(c)
  BY NonceNat DEF Requests, IFunds, INote, IStore, TypeInv
<1> DEFINE O == OutsUpTo(c, k)
           I == InsUpTo(c, k)
<1>2. /\ c \in Accounts /\ t.outs \in SUBSET NoteSet /\ t.ins \in SUBSET NoteSet
      /\ O \in SUBSET NoteSet /\ I \in SUBSET NoteSet
      /\ O \cap t.outs = {} /\ I \cap t.ins = {}
      /\ Affordable(t, k)
  BY <1>0, <1>1, SubmitFacts
<1>3. TypeInv /\ TypeOK /\ FundsHold /\ Accept(t)
  BY <1>1 DEF IFunds, INote, IStore, TypeInv, FundsInv
<1>4. LogKept
  BY <1>3, AcceptKeepsLog
<1>5. /\ Nonce(c)' = k + 1
      /\ \A a \in Accounts : a # c => Nonce(a)' = Nonce(a)
      /\ OutsUpTo(c, k + 1)' = O \cup t.outs
      /\ InsUpTo(c, k + 1)' = I \cup t.ins
  <2>1. Nonce(c)' = k + 1 /\ \A a \in Accounts : a # c => Nonce(a)' = Nonce(a)
    BY <1>0, <1>3, AcceptExtends DEF Nonce
  <2>2. /\ OutsUpTo(c, Nonce(c))' = O \cup t.outs
        /\ InsUpTo(c, Nonce(c))' = I \cup t.ins
    BY <1>0, <1>3, AcceptSends
  <2> QED
    BY <2>1, <2>2 DEF OutsUpTo, InsUpTo
<1>6. /\ Value(O \cup t.outs) = Value(O) + Value(t.outs)
      /\ Value(I \cup t.ins) = Value(I) + Value(t.ins)
      /\ Value(O) \in Nat /\ Value(t.outs) \in Nat /\ Value(I) \in Nat /\ Value(t.ins) \in Nat
  BY <1>2, ValueUnion, ValueNat
<1>7. Issuer \in Accounts /\ Wallets \subseteq Accounts /\ Issuer \notin Wallets
      /\ MaxSupply \in Nat /\ (c # Issuer => c \in Wallets)
  BY <1>2, NotesAssumption, OperationsAssumption DEF Accounts
<1>8. \A j \in 0 .. Nonce(Issuer)' : IssuanceAt(j)' <= MaxSupply
  <2> SUFFICES ASSUME NEW j \in 0 .. Nonce(Issuer)'
               PROVE  IssuanceAt(j)' <= MaxSupply
    OBVIOUS
  <2>1. CASE j \in 0 .. Nonce(Issuer)
    BY <1>3, <1>4, <1>7, <2>1, FundsKeptAt DEF FundsHold
  <2>2. CASE c = Issuer /\ j = k + 1
    <3>1. IssuanceAt(j)' = Value(O \cup t.outs) - Value(I \cup t.ins)
      BY <1>5, <2>2 DEF IssuanceAt
    <3>2. Value(O) - Value(I) + Value(t.outs) <= MaxSupply
      BY <1>2, <2>2 DEF Affordable, IssuanceAt
    <3> HIDE DEF O, I
    <3> QED
      BY <1>6, <1>7, <3>1, <3>2
  <2> QED
    BY <1>0, <1>3, <1>5, <1>7, <2>1, <2>2
<1>9. \A w \in Wallets : \A j \in 0 .. Nonce(w)' : BalanceAt(w, j)' >= 0
  <2> SUFFICES ASSUME NEW w \in Wallets, NEW j \in 0 .. Nonce(w)'
               PROVE  BalanceAt(w, j)' >= 0
    OBVIOUS
  <2>1. CASE j \in 0 .. Nonce(w)
    BY <1>3, <1>4, <1>7, <2>1, FundsKeptAt DEF FundsHold
  <2>2. CASE c = w /\ j = k + 1
    <3>1. BalanceAt(w, j)' = Value(I \cup t.ins) - Value(O \cup t.outs)
      BY <1>5, <2>2 DEF BalanceAt
    <3>2. Value(t.outs) <= Value(I) - Value(O)
      BY <1>2, <1>7, <2>2 DEF Affordable, BalanceAt
    <3> HIDE DEF O, I
    <3> QED
      BY <1>6, <3>1, <3>2
  <2> QED
    BY <1>0, <1>3, <1>5, <1>7, <2>1, <2>2
<1> QED
  BY <1>4, <1>8, <1>9 DEF FundsHold

-----------------------------------------------------------------------------
\* A step of p that leaves the funds and the other processes in order.
LEMMA FundsKept ==
    ASSUME IFunds, LogKept, FundsHold', NEW p \in Procs,
           \A q \in Procs \ {p} : pc'[q] = pc[q] /\ tx'[q] = tx[q],
           pc'[p] = "submit" => \E t \in Requests :
               t = tx'[p] /\ t.nonce \in 0 .. Nonce(t.acct) /\ Affordable(t, t.nonce),
           pc'[p] \in {"execute", "submit", "apply"} => OneEffect(tx'[p])
    PROVE  FundsInv'
<1>1. SubmitsAffordable'
  <2> SUFFICES ASSUME NEW q \in Procs, pc'[q] = "submit"
               PROVE  (tx[q].nonce <= Nonce(tx[q].acct) /\ Affordable(tx[q], tx[q].nonce))'
    BY DEF SubmitsAffordable
  <2>1. PICK t \in Requests : t = tx'[q] /\ t.nonce \in 0 .. Nonce(t.acct) /\ Affordable(t, t.nonce)
    <3>1. CASE q = p
      BY <3>1
    <3>2. CASE q # p
      <4>1. pc[q] = "submit" /\ tx'[q] = tx[q] /\ tx[q] \in Requests
        BY <3>2 DEF IFunds, INote, IStore, TypeInv, TypeOK
      <4>2. tx[q].nonce \in Nat /\ Nonce(tx[q].acct) \in Nat
        BY <4>1, NonceNat DEF Requests, IFunds, INote, IStore, TypeInv
      <4>3. tx[q].nonce <= Nonce(tx[q].acct) /\ Affordable(tx[q], tx[q].nonce)
        BY <4>1 DEF IFunds, FundsInv, SubmitsAffordable
      <4> QED
        BY <4>1, <4>2, <4>3
    <3> QED
      BY <3>1, <3>2
  <2>2. Affordable(t, t.nonce)'
    BY <2>1, AffordableKept
  <2>3. /\ t.acct \in Accounts /\ t.nonce \in Nat
        /\ Nonce(t.acct) \in Nat /\ Nonce(t.acct)' \in Nat /\ Nonce(t.acct) <= Nonce(t.acct)'
    BY NonceNat DEF Requests, LogKept, IFunds, INote, IStore, TypeInv
  <2>4. t.nonce <= Nonce(t.acct)'
    <3>1. t.nonce <= Nonce(t.acct)
      BY <2>1
    <3> QED
      BY <2>3, <3>1
  <2> QED
    BY <2>1, <2>2, <2>4 DEF Affordable, IssuanceAt, BalanceAt, InsUpTo, OutsUpTo, Nonce
<1>2. RequestShape'
  BY DEF IFunds, FundsInv, RequestShape, OneEffect
<1> QED
  BY <1>1, <1>2 DEF FundsInv

\* A step that accepts nothing needs only the new request of p to be sound.
LEMMA FundsQuiet ==
    ASSUME IFunds, log' = log, NEW p \in Procs,
           \A q \in Procs \ {p} : pc'[q] = pc[q] /\ tx'[q] = tx[q],
           pc'[p] = "submit" => \E t \in Requests :
               t = tx'[p] /\ t.nonce \in 0 .. Nonce(t.acct) /\ Affordable(t, t.nonce),
           pc'[p] \in {"execute", "submit", "apply"} => OneEffect(tx'[p])
    PROVE  FundsInv'
<1>1. TypeOK
  BY DEF IFunds, INote, IStore, TypeInv
<1> QED
  BY <1>1, QuietLog, QuietFunds, FundsKept

LEMMA FundsReturn ==
    ASSUME IFunds, LogKept, FundsHold', NEW p \in Procs, NEW r \in Results, Return(p, r)
    PROVE  FundsInv'
<1>1. /\ pc'[p] \notin {"execute", "submit", "apply"}
      /\ \A q \in Procs \ {p} : pc'[q] = pc[q] /\ tx'[q] = tx[q]
  BY DEF Return, Goto, Results, IFunds, INote, IStore, TypeInv, TypeOK
<1> QED
  BY <1>1, FundsKept

LEMMA FundsStart ==
    ASSUME IFunds, NEW p \in Procs, StartCall(p)
    PROVE  FundsInv'
<1>0. TypeOK
  BY DEF IFunds, INote, IStore, TypeInv
<1>1. ASSUME NEW op, NEW a, NEW t \in Accounts, NEW m \in Amounts, CreateNote(p, op, a, t, m)
      PROVE  FundsInv'
  <2> DEFINE n == [id |-> serial + 1, target |-> t, amount |-> m]
  <2>1. n \in NoteSet
    <3>1. serial + 1 \in 1 .. MaxNotes
      BY <1>0, <1>1, NotesAssumption DEF CreateNote, TypeOK
    <3> QED
      BY <3>1 DEF NoteSet
  <2>2. /\ log' = log /\ pc'[p] = "execute"
        /\ tx'[p].ins = {} /\ tx'[p].outs = {n}
        /\ \A q \in Procs \ {p} : pc'[q] = pc[q] /\ tx'[q] = tx[q]
    BY <1>0, <1>1 DEF CreateNote, Goto, TypeOK, nodeVars
  <2>3. OneEffect(tx'[p])
    BY <2>1, <2>2 DEF OneEffect
  <2> QED
    BY <2>2, <2>3, FundsQuiet
<1>2. ASSUME NEW op, NEW a, Poll(p, op, a)
      PROVE  FundsInv'
  <2>1. /\ log' = log /\ pc'[p] = "sync"
        /\ \A q \in Procs \ {p} : pc'[q] = pc[q] /\ tx'[q] = tx[q]
    BY <1>0, <1>2 DEF Poll, Goto, TypeOK, nodeVars
  <2> QED
    BY <2>1, FundsQuiet
<1>3. \A a \in Wallets : a \in Accounts
  BY DEF Accounts
<1> QED
  BY <1>1, <1>2, <1>3, ConstantFacts DEF StartCall, MintTokens, TransferTokens, BurnTokens,
     ConsumeNotes, SyncAndTrack

LEMMA FundsStep ==
    ASSUME IFunds, NEW p \in Procs, StepCall(p) \/ Disturb(p)
    PROVE  FundsInv'
<1>0. /\ TypeOK /\ "ok" \in Results /\ "err" \in Results /\ "idle" \in Results
      /\ tx[p] \in Requests
  BY DEF IFunds, INote, IStore, TypeInv, TypeOK, Results
<1>q. ASSUME NEW r \in Results, Return(p, r), log' = log
      PROVE  FundsInv'
  BY <1>0, <1>q, QuietLog, QuietFunds, FundsReturn
<1>1. CASE Execute(p)
  <2>1. PICK t \in Requests : t = OnLocalState(tx[p])
    <3>1. tx[p].acct \in Accounts /\ local[tx[p].acct] \in Nat
      BY <1>0 DEF Requests, TypeOK
    <3> QED
      BY <1>0, <3>1 DEF Requests, OnLocalState
  <2>2. /\ pc[p] = "execute" /\ log' = log /\ Executable(p)
        /\ pc'[p] = "submit" /\ tx'[p] = t
        /\ \A q \in Procs \ {p} : pc'[q] = pc[q] /\ tx'[q] = tx[q]
    BY <1>0, <1>1, <2>1 DEF Execute, Goto, TypeOK, nodeVars
  <2>3. /\ t.acct = tx[p].acct /\ t.outs = tx[p].outs /\ t.ins = tx[p].ins
        /\ t.nonce = local[t.acct]
    BY <2>1 DEF OnLocalState
  <2>4. t.nonce \in 0 .. Nonce(t.acct)
    BY <1>0, <2>3, NonceNat DEF Requests, TypeOK, IFunds, INote, IStore, StoreInv, StoreBehindChain
  <2>5. Affordable(t, t.nonce)
    BY <2>2, <2>3 DEF Executable, Affordable
  <2>6. OneEffect(t)
    BY <2>2, <2>3 DEF IFunds, FundsInv, RequestShape, OneEffect
  <2> QED
    BY <2>2, <2>4, <2>5, <2>6, FundsQuiet
<1>2. CASE ExecuteFails(p) \/ SignerFails(p) \/ Reject(p) \/ RpcFails(p) \/ GiveUp(p) \/ CollectEmpty(p)
  BY <1>0, <1>2, <1>q DEF ExecuteFails, SignerFails, Reject, RpcFails, GiveUp, CollectEmpty, Fail, nodeVars
<1>3. CASE Crash(p)
  BY <1>0, <1>3, <1>q DEF Crash, nodeVars
<1>4. CASE Submit(p)
  <2>1. /\ pc[p] = "submit" /\ Acceptable(tx[p]) /\ Accept(tx[p]) /\ UNCHANGED committed
        /\ pc'[p] = "apply" /\ tx' = tx
        /\ \A q \in Procs \ {p} : pc'[q] = pc[q] /\ tx'[q] = tx[q]
    BY <1>0, <1>4 DEF Submit, Goto, TypeOK
  <2>2. OneEffect(tx'[p])
    BY <2>1 DEF IFunds, FundsInv, RequestShape
  <2> QED
    BY <2>1, <2>2, FundsAccept, FundsKept
<1>5. CASE AckLost(p)
  BY <1>0, <1>5, FundsAccept, FundsReturn DEF AckLost, Fail
<1>6. CASE Apply(p)
  <2>1. CASE HasSecondStep(p)
    <3>1. /\ log' = log /\ pc'[p] = "sync"
          /\ \A q \in Procs \ {p} : pc'[q] = pc[q] /\ tx'[q] = tx[q]
      BY <1>0, <1>6, <2>1 DEF Apply, Goto, TypeOK, nodeVars
    <3> QED
      BY <3>1, FundsQuiet
  <2>2. CASE ~HasSecondStep(p)
    BY <1>0, <1>6, <1>q, <2>2 DEF Apply, Succeed, nodeVars
  <2> QED
    BY <2>1, <2>2
<1>7. CASE Sync(p)
  <2>1. CASE call[p].op = "sync"
    BY <1>0, <1>7, <1>q, <2>1 DEF Sync, Succeed, nodeVars
  <2>2. CASE call[p].op # "sync"
    <3>1. /\ log' = log /\ pc'[p] = "list"
          /\ \A q \in Procs \ {p} : pc'[q] = pc[q] /\ tx'[q] = tx[q]
      BY <1>0, <1>7, <2>2 DEF Sync, Goto, TypeOK, nodeVars
    <3> QED
      BY <3>1, FundsQuiet
  <2> QED
    BY <2>1, <2>2
<1>8. CASE ListFinds(p) \/ ListEmpty(p)
  <2>1. /\ log' = log /\ pc'[p] \in {"collect", "sync"}
        /\ \A q \in Procs \ {p} : pc'[q] = pc[q] /\ tx'[q] = tx[q]
    BY <1>0, <1>8 DEF ListFinds, ListEmpty, Goto, TypeOK, nodeVars
  <2> QED
    BY <2>1, FundsQuiet
<1>9. CASE Collect(p)
  <2>1. PICK notes : /\ notes # {}
                     /\ tx' = [tx EXCEPT ![p] = [acct |-> Poller(p), nonce |-> 0,
                                                 ins |-> notes, outs |-> {}]]
    BY <1>9 DEF Collect
  <2>2. /\ log' = log /\ pc'[p] = "execute" /\ tx'[p].ins = notes /\ tx'[p].outs = {}
        /\ \A q \in Procs \ {p} : pc'[q] = pc[q] /\ tx'[q] = tx[q]
    BY <1>0, <1>9, <2>1 DEF Collect, Goto, TypeOK, nodeVars
  <2>3. OneEffect(tx'[p])
    BY <2>1, <2>2 DEF OneEffect
  <2> QED
    BY <2>2, <2>3, FundsQuiet
<1> QED
  BY <1>1, <1>2, <1>3, <1>4, <1>5, <1>6, <1>7, <1>8, <1>9 DEF StepCall, Disturb

LEMMA FundsNext == IFunds /\ [Next]_vars => FundsInv'
<1> SUFFICES ASSUME IFunds, [Next]_vars PROVE FundsInv'
  OBVIOUS
<1>0. TypeOK
  BY DEF IFunds, INote, IStore, TypeInv
<1>s. ASSUME UNCHANGED <<log, pc, tx>>
      PROVE  FundsInv'
  <2>1. \A q \in Procs : pc'[q] = pc[q] /\ tx'[q] = tx[q]
    BY <1>s
  <2>2. FundsHold'
    BY <1>s, QuietFunds
  <2>3. RequestShape'
    BY <1>s DEF IFunds, FundsInv, RequestShape, OneEffect
  <2>4. ASSUME NEW q \in Procs, pc'[q] = "submit"
        PROVE  FundsInv'
    <3>1. PICK t \in Requests : t = tx[q]
      BY <1>0 DEF TypeOK
    <3>2. t.nonce \in 0 .. Nonce(t.acct) /\ Affordable(t, t.nonce)
      BY <1>s, <2>4, <3>1, <1>0, NonceNat DEF Requests, IFunds, FundsInv, SubmitsAffordable
    <3>3. OneEffect(tx'[q])
      BY <1>s, <2>4 DEF IFunds, FundsInv, RequestShape
    <3> QED
      BY <1>s, <2>1, <3>1, <3>2, <3>3, FundsQuiet
  <2> QED
    BY <2>2, <2>3, <2>4 DEF FundsInv, SubmitsAffordable
<1>1. ASSUME NEW p \in Procs, StartCall(p) \/ StepCall(p) \/ Disturb(p)
      PROVE  FundsInv'
  BY <1>1, FundsStart, FundsStep
<1>2. ASSUME NEW a \in Accounts, Include(a)
      PROVE  FundsInv'
  BY <1>2, <1>s DEF Include, procVars
<1>3. CASE UNCHANGED vars
  BY <1>3, <1>s DEF vars, nodeVars, procVars
<1> QED
  BY <1>1, <1>2, <1>3 DEF Next

LEMMA FundsInit == Init => FundsInv
<1> SUFFICES ASSUME Init PROVE FundsInv
  OBVIOUS
<1>1. \A a \in Accounts : Nonce(a) = 0 /\ OutsUpTo(a, 0) = {} /\ InsUpTo(a, 0) = {}
  BY DEF Init, Nonce, OutsUpTo, InsUpTo
<1>2. IssuanceAt(0) = 0 /\ \A w \in Wallets : BalanceAt(w, 0) = 0
  <2>1. Issuer \in Accounts /\ Wallets \subseteq Accounts
    BY DEF Accounts
  <2>2. \A a \in Accounts : Value(OutsUpTo(a, 0)) = 0 /\ Value(InsUpTo(a, 0)) = 0
    BY <1>1, ValueEmpty
  <2> QED
    BY <2>1, <2>2 DEF IssuanceAt, BalanceAt
<1>3. FundsHold
  BY <1>1, <1>2, OperationsAssumption DEF FundsHold, Accounts
<1> QED
  BY <1>3 DEF Init, FundsInv, SubmitsAffordable, RequestShape

-----------------------------------------------------------------------------
(* A cut takes one past or present state of each account.                   *)

CreatedBefore(c)   == UNION {OutsUpTo(a, c[a]) : a \in Accounts}
NullifiedBefore(c) == UNION {InsUpTo(a, c[a]) : a \in Accounts}

\* Where every note that is consumed has been created, the supply is what the
\* wallets hold and what is in flight.
LEMMA CutBalances ==
    ASSUME INote, NEW c \in [Accounts -> Nat], \A a \in Accounts : c[a] <= Nonce(a),
           NullifiedBefore(c) \subseteq CreatedBefore(c)
    PROVE  LET held == Sum([w \in Wallets |-> BalanceAt(w, c[w])], Wallets)
               rest == Value(CreatedBefore(c) \ NullifiedBefore(c))
           IN /\ IssuanceAt(c[Issuer]) = held + rest
              /\ held \in Int /\ rest \in Nat
<1> DEFINE O == [a \in Accounts |-> OutsUpTo(a, c[a])]
           I == [a \in Accounts |-> InsUpTo(a, c[a])]
           VO == [a \in Accounts |-> Value(O[a])]
           VI == [a \in Accounts |-> Value(I[a])]
           B == [w \in Wallets |-> BalanceAt(w, c[w])]
<1>0. /\ TypeOK /\ Issuer \in Accounts /\ Issuer \notin Wallets
      /\ Accounts = Wallets \cup {Issuer} /\ Wallets \subseteq Accounts
      /\ IsFiniteSet(Wallets) /\ IsFiniteSet({Issuer}) /\ IsFiniteSet(Accounts)
  BY NotesAssumption, FS_Singleton, FS_Union DEF Accounts, INote, IStore, TypeInv
<1>1. /\ O \in [Accounts -> SUBSET NoteSet] /\ I \in [Accounts -> SUBSET NoteSet]
  BY <1>0, LogNotes
<1>2. \A a \in Accounts : 1 .. c[a] \subseteq 1 .. Nonce(a)
  BY <1>0, NonceNat
<1>3. \A a, b \in Accounts : a # b => O[a] \cap O[b] = {}
  <2>1. \A a \in Accounts : O[a] \subseteq Sent(a)
    BY <1>2 DEF Sent, OutsUpTo
  <2> QED
    BY <2>1, SentByOne
<1>4. \A a, b \in Accounts : a # b => I[a] \cap I[b] = {}
  <2>1. \A a \in Accounts : \A n \in I[a] : n.target = a
    BY <1>2 DEF InsUpTo, INote, NoteInv, NoteDiscipline, ConsumedByTarget
  <2> QED
    BY <2>1
<1>5. Value(CreatedBefore(c)) = Sum(VO, Accounts)
  <2>1. Value(UNION {O[a] : a \in Accounts}) = Sum([a \in Accounts |-> Value(O[a])], Accounts)
    <3> HIDE DEF O
    <3> QED
      BY <1>0, <1>1, <1>3, ValueByOwner
  <2>2. UNION {O[a] : a \in Accounts} = CreatedBefore(c)
    BY DEF CreatedBefore
  <2> QED
    BY <2>1, <2>2
<1>6. Value(NullifiedBefore(c)) = Sum(VI, Accounts)
  <2>1. Value(UNION {I[a] : a \in Accounts}) = Sum([a \in Accounts |-> Value(I[a])], Accounts)
    <3> HIDE DEF I
    <3> QED
      BY <1>0, <1>1, <1>4, ValueByOwner
  <2>2. UNION {I[a] : a \in Accounts} = NullifiedBefore(c)
    BY DEF NullifiedBefore
  <2> QED
    BY <2>1, <2>2
<1>7. \A a \in Accounts : VO[a] \in Nat /\ VI[a] \in Nat
  <2>1. \A a \in Accounts : O[a] \in SUBSET NoteSet /\ I[a] \in SUBSET NoteSet
    BY <1>1
  <2> HIDE DEF O, I
  <2> QED
    BY <2>1, ValueNat
<1>8. /\ \A w \in Wallets : B[w] = VI[w] - VO[w]
      /\ IssuanceAt(c[Issuer]) = VO[Issuer] - VI[Issuer]
  BY <1>0 DEF BalanceAt, IssuanceAt
<1>9. /\ NullifiedBefore(c) \in SUBSET CreatedBefore(c) /\ CreatedBefore(c) \in SUBSET NoteSet
  BY <1>1 DEF CreatedBefore, NullifiedBefore
<1> HIDE DEF B, VO, VI
<1>10. /\ Sum(VO, Accounts) = Sum(VO, Wallets) + VO[Issuer]
       /\ Sum(VI, Accounts) = Sum(VI, Wallets) + VI[Issuer]
  <2>1. \A f : (\A a \in Accounts : f[a] \in Nat) =>
               Sum(f, Accounts) = Sum(f, Wallets) + f[Issuer]
    <3> SUFFICES ASSUME NEW f, \A a \in Accounts : f[a] \in Nat
                 PROVE  Sum(f, Accounts) = Sum(f, Wallets) + f[Issuer]
      OBVIOUS
    <3>1. Sum(f, Wallets \cup {Issuer}) = Sum(f, Wallets) + Sum(f, {Issuer})
      <4>1. \A x \in Wallets \cup {Issuer} : f[x] \in Int
        BY <1>0
      <4>2. Wallets \cap {Issuer} = {}
        BY <1>0
      <4> QED
        BY <1>0, <4>1, <4>2, SumUnion
    <3>2. Sum(f, {Issuer}) = f[Issuer]
      <4>1. f[Issuer] \in Int
        BY <1>0
      <4> QED
        BY <4>1, SumSingleton
    <3> QED
      BY <1>0, <3>1, <3>2
  <2> QED
    BY <1>7, <2>1
<1>11. Sum(VI, Wallets) = Sum(B, Wallets) + Sum(VO, Wallets)
  <2>1. \A w \in Wallets : B[w] \in Int /\ VO[w] \in Int /\ VI[w] = B[w] + VO[w]
    BY <1>0, <1>7, <1>8
  <2> QED
    BY <1>0, <2>1, SumAdds
<1>12. Sum(B, Wallets) \in Int /\ Sum(VO, Wallets) \in Int
  <2>1. \A w \in Wallets : B[w] \in Int /\ VO[w] \in Int
    BY <1>0, <1>7, <1>8
  <2> QED
    BY <1>0, <2>1, SumInt
<1>13. /\ Value(CreatedBefore(c) \ NullifiedBefore(c))
              = Value(CreatedBefore(c)) - Value(NullifiedBefore(c))
       /\ Value(CreatedBefore(c) \ NullifiedBefore(c)) \in Nat
  BY <1>9, ValueDifference, ValueNat
<1>14. IssuanceAt(c[Issuer]) = Sum(B, Wallets) + Value(CreatedBefore(c) \ NullifiedBefore(c))
  BY <1>0, <1>5, <1>6, <1>7, <1>8, <1>10, <1>11, <1>12, <1>13
<1> QED
  BY <1>12, <1>13, <1>14 DEF B

LEMMA SupplyBalances ==
    ASSUME IFunds
    PROVE  SupplySound
<1>0. /\ INote /\ TypeInv /\ TypeOK /\ FundsHold /\ Issuer \in Accounts /\ Wallets \subseteq Accounts
  BY DEF IFunds, FundsInv, INote, IStore, TypeInv, Accounts
<1> DEFINE c == [a \in Accounts |-> Nonce(a)]
<1>1. c \in [Accounts -> Nat] /\ \A a \in Accounts : c[a] <= Nonce(a)
  BY <1>0, NonceNat
<1>2. CreatedBefore(c) = Created /\ NullifiedBefore(c) = Nullified
  BY DEF CreatedBefore, NullifiedBefore, Created, Nullified
<1>3. Nullified \subseteq Created
  BY <1>0, InBlockCreated DEF INote, NoteInv, NoteDiscipline
<1>4. IssuanceAt(c[Issuer]) = Sum([w \in Wallets |-> BalanceAt(w, c[w])], Wallets)
                              + Value(CreatedBefore(c) \ NullifiedBefore(c))
  <2> HIDE DEF c
  <2> QED
    BY <1>0, <1>1, <1>2, <1>3, CutBalances
<1>5. [w \in Wallets |-> BalanceAt(w, c[w])] = [w \in Wallets |-> BalanceAt(w, Nonce(w))]
  BY <1>0
<1>6. IssuanceAt(Nonce(Issuer))
         = SumFunction([w \in Wallets |-> BalanceAt(w, Nonce(w))]) + Value(Created \ Nullified)
  BY <1>0, <1>2, <1>4, <1>5 DEF SumFunction, Sum
<1>7. IssuanceAt(Nonce(Issuer)) <= MaxSupply
  <2>1. Nonce(Issuer) \in 0 .. Nonce(Issuer)
    BY <1>0, NonceNat
  <2> QED
    BY <1>0, <2>1 DEF FundsHold
<1>8. \A w \in Wallets : BalanceAt(w, Nonce(w)) >= 0
  <2>1. \A w \in Wallets : Nonce(w) \in 0 .. Nonce(w)
    BY <1>0, NonceNat
  <2> QED
    BY <1>0, <2>1 DEF FundsHold
<1> QED
  BY <1>6, <1>7, <1>8 DEF SupplySound

LEMMA FundsInvariant == Spec => []IFunds
<1>1. Init => IFunds
  BY TypeInvInit, StoreInvInit, NoteInvInit, FundsInit DEF IFunds, INote, IStore
<1>2. IFunds /\ [Next]_vars => IFunds'
  BY TypeInvNext, StoreInvNext, NoteInvNext, FundsNext DEF IFunds, INote, IStore
<1> QED
  BY <1>1, <1>2, PTL DEF Spec

\* The tokens that the issuer has distributed are those in the vaults and in
\* notes in flight, at most the maximum supply, and no vault is overdrawn,
\* although mint_tokens, transfer_tokens and burn_tokens have them checked on
\* a local state that lost answers and other processes leave behind.
THEOREM SupplyConserved == Spec => []SupplySound
<1>1. IFunds => SupplySound
  BY SupplyBalances
<1> QED
  BY <1>1, FundsInvariant, PTL

-----------------------------------------------------------------------------
(* The accepted transactions are the steps of the token ledger.             *)

Issuance == IssuanceAt(Nonce(Issuer))
Balance(w) == BalanceAt(w, Nonce(w))
InFlight == Created \ Nullified
UsedIds == {n.id : n \in Created}

\* What an accepted transaction does to the amounts of its account.
LEMMA AcceptMoves ==
    ASSUME IFunds, NEW p \in Procs, pc[p] = "submit", Acceptable(tx[p]), Accept(tx[p]),
           NEW t \in Requests, t = tx[p]
    PROVE  /\ Issuance \in Int /\ \A w \in Wallets : Balance(w) \in Int
           /\ Value(t.outs) \in Nat /\ Value(t.ins) \in Nat
           /\ Issuance' = IF t.acct = Issuer THEN Issuance + Value(t.outs) - Value(t.ins)
                                             ELSE Issuance
           /\ \A w \in Wallets :
                  Balance(w)' = IF t.acct = w THEN Balance(w) - Value(t.outs) + Value(t.ins)
                                              ELSE Balance(w)
<1> DEFINE O(a) == OutsUpTo(a, Nonce(a))
           I(a) == InsUpTo(a, Nonce(a))
<1>1. /\ t.outs \in SUBSET NoteSet /\ t.ins \in SUBSET NoteSet /\ t.acct \in Accounts
      /\ O(t.acct) \in SUBSET NoteSet /\ I(t.acct) \in SUBSET NoteSet
      /\ O(t.acct) \cap t.outs = {} /\ I(t.acct) \cap t.ins = {}
  BY SubmitFacts
<1>2. TypeInv /\ TypeOK /\ Accept(t) /\ Issuer \in Accounts /\ Wallets \subseteq Accounts
  BY DEF IFunds, INote, IStore, TypeInv, Accounts
<1>3. \A a \in Accounts : Value(O(a)) \in Nat /\ Value(I(a)) \in Nat
  <2>1. \A a \in Accounts : O(a) \in SUBSET NoteSet /\ I(a) \in SUBSET NoteSet
    BY <1>2, LogNotes, NonceNat
  <2> HIDE DEF O, I
  <2> QED
    BY <2>1, ValueNat
<1>4. /\ Value(O(t.acct) \cup t.outs) = Value(O(t.acct)) + Value(t.outs)
      /\ Value(I(t.acct) \cup t.ins) = Value(I(t.acct)) + Value(t.ins)
      /\ Value(t.outs) \in Nat /\ Value(t.ins) \in Nat
  <2> HIDE DEF O, I
  <2> QED
    BY <1>1, ValueUnion, ValueNat
<1>5. \A a \in Accounts :
          /\ OutsUpTo(a, Nonce(a))' = IF a = t.acct THEN O(a) \cup t.outs ELSE O(a)
          /\ InsUpTo(a, Nonce(a))' = IF a = t.acct THEN I(a) \cup t.ins ELSE I(a)
  BY <1>2, AcceptSends
<1>6. \A a \in Accounts :
          /\ Value(OutsUpTo(a, Nonce(a)))'
                 = IF a = t.acct THEN Value(O(a)) + Value(t.outs) ELSE Value(O(a))
          /\ Value(InsUpTo(a, Nonce(a)))'
                 = IF a = t.acct THEN Value(I(a)) + Value(t.ins) ELSE Value(I(a))
  <2> SUFFICES ASSUME NEW a \in Accounts
               PROVE  /\ Value(OutsUpTo(a, Nonce(a)))'
                             = IF a = t.acct THEN Value(O(a)) + Value(t.outs) ELSE Value(O(a))
                      /\ Value(InsUpTo(a, Nonce(a)))'
                             = IF a = t.acct THEN Value(I(a)) + Value(t.ins) ELSE Value(I(a))
    OBVIOUS
  <2>1. /\ Value(OutsUpTo(a, Nonce(a)))' = Value(OutsUpTo(a, Nonce(a))')
        /\ Value(InsUpTo(a, Nonce(a)))' = Value(InsUpTo(a, Nonce(a))')
    BY DEF Value
  <2> QED
    BY <1>4, <1>5, <2>1
<1>7. \A a \in Accounts :
          /\ (Value(I(a)) - Value(O(a)))' = IF a = t.acct
                 THEN Value(I(a)) - Value(O(a)) - Value(t.outs) + Value(t.ins)
                 ELSE Value(I(a)) - Value(O(a))
          /\ (Value(O(a)) - Value(I(a)))' = IF a = t.acct
                 THEN Value(O(a)) - Value(I(a)) + Value(t.outs) - Value(t.ins)
                 ELSE Value(O(a)) - Value(I(a))
  BY <1>3, <1>4, <1>6
<1> QED
  BY <1>2, <1>3, <1>4, <1>7 DEF Issuance, Balance, IssuanceAt, BalanceAt

LEMMA LedgerOps ==
    /\ Ledger!Accounts = Accounts /\ Ledger!NoteSet = NoteSet
    /\ \A S : Ledger!Value(S) = Value(S)
    /\ Ledger!ledgerVars = <<Issuance, [w \in Wallets |-> Balance(w)], InFlight, UsedIds>>
<1>1. ASSUME NEW f PROVE Ledger!SumFunction(f) = SumFunction(f)
  BY DEF Ledger!SumFunction, Ledger!SumFunctionOnSet, Ledger!FoldFunctionOnSet,
     Ledger!MapThenFoldSet, SumFunction, SumFunctionOnSet, FoldFunctionOnSet, MapThenFoldSet
<1>2. \A S : Ledger!Value(S) = Value(S)
  BY <1>1 DEF Ledger!Value, Value
<1> QED
  BY <1>2 DEF Ledger!Accounts, Ledger!NoteSet, Accounts, NoteSet,
     Ledger!ledgerVars, Issuance, Balance, InFlight, UsedIds

LEMMA LedgerStutters ==
    ASSUME UNCHANGED log
    PROVE  UNCHANGED Ledger!ledgerVars
<1>1. Created' = Created /\ Nullified' = Nullified
  BY DEF Created, Nullified, OutsUpTo, InsUpTo, Nonce
<1>2. Issuance' = Issuance /\ \A w \in Wallets : Balance(w)' = Balance(w)
  BY DEF Issuance, Balance, IssuanceAt, BalanceAt, OutsUpTo, InsUpTo, Nonce, Value
<1> QED
  BY <1>1, <1>2 DEF Ledger!ledgerVars, Issuance, Balance

\* A transaction that creates a note issues it or pays it from a vault, one
\* that consumes notes redeems them or takes them into a vault.
LEMMA LedgerAccepts ==
    ASSUME IFunds, NEW p \in Procs, pc[p] = "submit", Acceptable(tx[p]), Accept(tx[p]),
           UNCHANGED committed
    PROVE  Ledger!LedgerNext
<1>1. PICK t \in Requests : t = tx[p]
  BY SubmitFacts
<1>2. /\ OneEffect(t) /\ t.acct \in Accounts
      /\ t.outs \in SUBSET NoteSet /\ t.ins \in SUBSET NoteSet
      /\ t.outs \cap Created = {} /\ t.ins \cap Nullified = {} /\ t.ins \subseteq Created
      /\ t.nonce = Nonce(t.acct) /\ Affordable(t, t.nonce)
  BY <1>1, SubmitFacts
<1>3. /\ TypeInv /\ INote /\ Accept(t)
      /\ Issuer \in Accounts /\ Wallets \subseteq Accounts /\ Issuer \notin Wallets
      /\ (t.acct # Issuer => t.acct \in Wallets)
  BY <1>1, <1>2, NotesAssumption DEF IFunds, INote, IStore, Accounts
<1>4. Created' = Created \cup t.outs /\ Nullified' = Nullified \cup t.ins
  BY <1>3, AcceptCreates
<1>5. Nullified \subseteq Created
  BY <1>3, InBlockCreated DEF INote, NoteInv, NoteDiscipline
<1>6. /\ Issuance \in Int /\ \A w \in Wallets : Balance(w) \in Int
      /\ Value(t.outs) \in Nat /\ Value(t.ins) \in Nat
      /\ Issuance' = IF t.acct = Issuer THEN Issuance + Value(t.outs) - Value(t.ins)
                                        ELSE Issuance
      /\ \A w \in Wallets :
             Balance(w)' = IF t.acct = w THEN Balance(w) - Value(t.outs) + Value(t.ins)
                                         ELSE Balance(w)
  BY <1>1, AcceptMoves
<1>7. CASE t.ins = {} /\ \E n \in NoteSet : t.outs = {n}
  <2>1. PICK n \in NoteSet : t.outs = {n}
    BY <1>7
  <2>2. Value(t.outs) = n.amount /\ Value(t.ins) = 0
    BY <1>7, <2>1, ValueSingleton, ValueEmpty
  <2>3. Ledger!PutInFlight(n)
    <3>1. \A m \in Created : m.id # n.id
      BY <1>1, <1>3, <2>1 DEF INote, NoteInv, SerialsFresh, Unsent
    <3>2. n \notin Nullified
      BY <1>5, <3>1
    <3>3. Created' = Created \cup {n} /\ Nullified' = Nullified
      BY <1>4, <1>7, <2>1
    <3>4. (Created \ Nullified)' = (Created \ Nullified) \cup {n}
      BY <3>2, <3>3
    <3>5. {m.id : m \in Created}' = {m.id : m \in Created} \cup {n.id}
      BY <3>3
    <3> QED
      BY <3>1, <3>4, <3>5 DEF Ledger!PutInFlight
  <2>4. CASE t.acct = Issuer
    <3>1. Issuance + n.amount <= MaxSupply
      BY <1>2, <2>2, <2>4 DEF Affordable, Issuance
    <3>2. Issuance' = Issuance + n.amount /\ \A w \in Wallets : Balance(w)' = Balance(w)
      <4>1. Issuance' = Issuance + n.amount - 0
        BY <1>6, <2>2, <2>4
      <4> QED
        BY <1>3, <1>6, <2>2, <2>4, <4>1
    <3>3. Ledger!Issue(n)
      BY <3>1, <3>2 DEF Ledger!Issue, Issuance, Balance
    <3> QED
      BY <2>3, <3>3, LedgerOps DEF Ledger!LedgerNext
  <2>5. CASE t.acct # Issuer
    <3>1. PICK w \in Wallets : w = t.acct
      BY <1>3, <2>5
    <3>2. n.amount <= Balance(w)
      BY <1>2, <2>2, <2>5, <3>1 DEF Affordable, Balance
    <3>3. [v \in Wallets |-> Balance(v)]'
              = [[v \in Wallets |-> Balance(v)] EXCEPT ![w] = @ - n.amount]
      <4>1. \A v \in Wallets : Balance(v)' = IF v = w THEN Balance(v) - n.amount ELSE Balance(v)
        BY <1>6, <2>2, <3>1
      <4> QED
        BY <4>1
    <3>4. Ledger!Pay(w, n)
      <4>1. Issuance' = Issuance
        BY <1>6, <2>5
      <4> QED
        BY <3>2, <3>3, <4>1 DEF Ledger!Pay, Issuance, Balance
    <3> QED
      BY <2>3, <3>4, LedgerOps DEF Ledger!LedgerNext
  <2> QED
    BY <2>4, <2>5
<1>8. CASE t.outs = {} /\ t.ins # {}
  <2>1. Value(t.outs) = 0
    BY <1>8, ValueEmpty
  <2>2. t.ins \in SUBSET (Created \ Nullified)
    BY <1>2
  <2>3. Ledger!TakeFromFlight(t.acct, t.ins)
    <3>1. \A n \in t.ins : n.target = t.acct
      BY <1>1, <1>3 DEF INote, NoteInv, InputsOfAccount
    <3>2. (Created \ Nullified)' = (Created \ Nullified) \ t.ins
      BY <1>4, <1>8
    <3>3. {m.id : m \in Created}' = {m.id : m \in Created}
      BY <1>4, <1>8
    <3> QED
      BY <1>8, <3>1, <3>2, <3>3 DEF Ledger!TakeFromFlight
  <2>4. CASE t.acct = Issuer
    <3>1. Issuance' = Issuance - Value(t.ins) /\ \A w \in Wallets : Balance(w)' = Balance(w)
      <4>1. Issuance' = Issuance + 0 - Value(t.ins)
        BY <1>6, <2>1, <2>4
      <4> QED
        BY <1>3, <1>6, <2>1, <2>4, <4>1
    <3>2. Ledger!Redeem(t.ins)
      BY <2>3, <2>4, <3>1, LedgerOps DEF Ledger!Redeem, Issuance, Balance
    <3> QED
      BY <2>2, <3>2 DEF Ledger!LedgerNext
  <2>5. CASE t.acct # Issuer
    <3>1. PICK w \in Wallets : w = t.acct
      BY <1>3, <2>5
    <3>3. [v \in Wallets |-> Balance(v)]'
              = [[v \in Wallets |-> Balance(v)] EXCEPT ![w] = @ + Value(t.ins)]
      <4>1. \A v \in Wallets : Balance(v)' = IF v = w THEN Balance(v) + Value(t.ins) ELSE Balance(v)
        BY <1>6, <2>1, <3>1
      <4> QED
        BY <4>1
    <3>4. Ledger!Receive(w, t.ins)
      <4>1. Issuance' = Issuance
        BY <1>6, <2>5
      <4> QED
        BY <2>3, <3>1, <3>3, <4>1, LedgerOps DEF Ledger!Receive, Issuance, Balance
    <3> QED
      BY <2>2, <3>4 DEF Ledger!LedgerNext
  <2> QED
    BY <2>4, <2>5
<1> QED
  BY <1>2, <1>7, <1>8 DEF OneEffect

LEMMA LedgerStarts == Init => Ledger!LedgerInit
<1> SUFFICES ASSUME Init PROVE Ledger!LedgerInit
  OBVIOUS
<1>1. \A a \in Accounts : Nonce(a) = 0 /\ OutsUpTo(a, Nonce(a)) = {} /\ InsUpTo(a, Nonce(a)) = {}
  BY DEF Init, Nonce, OutsUpTo, InsUpTo
<1>2. Created = {} /\ Nullified = {}
  BY <1>1 DEF Created, Nullified
<1>3. Issuer \in Accounts /\ Wallets \subseteq Accounts
  BY DEF Accounts
<1>4. \A a \in Accounts : /\ Value(OutsUpTo(a, Nonce(a))) = 0
                          /\ Value(InsUpTo(a, Nonce(a))) = 0
  BY <1>1, ValueEmpty
<1>5. IssuanceAt(Nonce(Issuer)) = 0 /\ \A w \in Wallets : BalanceAt(w, Nonce(w)) = 0
  BY <1>3, <1>4 DEF IssuanceAt, BalanceAt
<1> QED
  BY <1>2, <1>5 DEF Ledger!LedgerInit

LEMMA LedgerSteps == IFunds /\ [Next]_vars => [Ledger!LedgerNext]_(Ledger!ledgerVars)
<1> SUFFICES ASSUME IFunds, [Next]_vars
             PROVE  Ledger!LedgerNext \/ UNCHANGED Ledger!ledgerVars
  OBVIOUS
<1>1. CASE UNCHANGED log
  BY <1>1, LedgerStutters
<1>2. ASSUME NEW p \in Procs, Submit(p) \/ AckLost(p)
      PROVE  Ledger!LedgerNext
  BY <1>2, LedgerAccepts DEF Submit, AckLost
<1>3. ASSUME NEW p \in Procs, StartCall(p)
      PROVE  UNCHANGED log
  BY <1>3 DEF StartCall, MintTokens, TransferTokens, BurnTokens, ConsumeNotes, SyncAndTrack,
     CreateNote, Poll, nodeVars
<1>4. ASSUME NEW p \in Procs, StepCall(p) \/ Disturb(p), ~Submit(p), ~AckLost(p)
      PROVE  UNCHANGED log
  BY <1>4 DEF StepCall, Disturb, Execute, ExecuteFails, Reject, Apply, Sync, ListFinds, ListEmpty,
     GiveUp, Collect, CollectEmpty, SignerFails, RpcFails, Crash, nodeVars
<1>5. ASSUME NEW a \in Accounts, Include(a)
      PROVE  UNCHANGED log
  BY <1>5 DEF Include
<1> QED
  BY <1>1, <1>2, <1>3, <1>4, <1>5 DEF Next, vars, nodeVars

\* The operations implement the token ledger: whatever the processes, the
\* stores, the blocks and the failures do in between, what the node accepts
\* is an issue, a payment, a receipt or a redemption of notes in flight.
THEOREM OperationsImplementLedger == Spec => ImplementsLedger
<1>1. Init => Ledger!LedgerInit
  BY LedgerStarts
<1>2. IFunds /\ [Next]_vars => [Ledger!LedgerNext]_(Ledger!ledgerVars)
  BY LedgerSteps
<1> QED
  BY <1>1, <1>2, FundsInvariant, PTL DEF Spec, ImplementsLedger, Ledger!LedgerSpec

-----------------------------------------------------------------------------
(* What a store has on record is a cut in which every note consumed has     *)
(* been created.                                                            *)

ICut == IPayment /\ CutInv

\* What the node has accepted stays where it is in the logs.
LogExtends ==
    \A a \in Accounts : /\ Nonce(a)' \in Nat /\ Nonce(a) <= Nonce(a)'
                        /\ \A i \in 1 .. Nonce(a) : log'[a][i] = log[a][i]

LEMMA OutsGrow ==
    ASSUME NEW a, NEW j \in Nat, NEW k \in Nat, j <= k
    PROVE  OutsUpTo(a, j) \subseteq OutsUpTo(a, k)
<1>1. 1 .. j \subseteq 1 .. k
  OBVIOUS
<1> QED
  BY <1>1 DEF OutsUpTo

LEMMA SameLogExtends ==
    ASSUME TypeOK, log' = log
    PROVE  LogExtends
BY NonceNat DEF LogExtends, Nonce

\* A step that leaves the stores as they are.
LEMMA CutQuiet ==
    ASSUME ICut, UNCHANGED storeVars, Grows, LogExtends,
           Nullified' \subseteq consumable \cup spending,
           \A q \in Procs : pc'[q] = "apply" =>
               \/ pc[q] = "apply" /\ tx'[q] = tx[q]
               \/ \E t \in Requests :
                      /\ t = tx'[q] /\ t.nonce < Nonce(t.acct)'
                      /\ log'[t.acct][t.nonce + 1] = [ins |-> t.ins, outs |-> t.outs]
    PROVE  CutInv'
<1>0. /\ TypeOK /\ CutInv /\ StoreBehindChain
      /\ expected' = expected /\ consumable' = consumable /\ spending' = spending /\ local' = local
  BY DEF ICut, IPayment, INote, IStore, TypeInv, StoreInv, storeVars
<1>1. AppliedInLog'
  <2> SUFFICES ASSUME NEW q \in Procs, pc'[q] = "apply"
               PROVE  \E t \in Requests :
                          /\ t = tx'[q] /\ t.nonce < Nonce(t.acct)'
                          /\ log'[t.acct][t.nonce + 1] = [ins |-> t.ins, outs |-> t.outs]
    <3> SUFFICES ASSUME NEW q \in Procs, pc'[q] = "apply"
                 PROVE  (LET t == tx[q] IN
                         /\ t.nonce < Nonce(t.acct)
                         /\ log[t.acct][t.nonce + 1] = [ins |-> t.ins, outs |-> t.outs])'
      BY DEF AppliedInLog
    <3>1. PICK t \in Requests :
              /\ t = tx'[q] /\ t.nonce < Nonce(t.acct)'
              /\ log'[t.acct][t.nonce + 1] = [ins |-> t.ins, outs |-> t.outs]
      OBVIOUS
    <3> QED
      BY <3>1 DEF Nonce
  <2>1. CASE pc[q] = "apply" /\ tx'[q] = tx[q]
    <3>1. PICK t \in Requests : t = tx[q]
      BY <1>0 DEF TypeOK
    <3>2. /\ t.nonce < Nonce(t.acct)
          /\ log[t.acct][t.nonce + 1] = [ins |-> t.ins, outs |-> t.outs]
      BY <1>0, <2>1, <3>1 DEF CutInv, AppliedInLog
    <3>3. t.acct \in Accounts /\ t.nonce \in Nat /\ Nonce(t.acct) \in Nat /\ Nonce(t.acct)' \in Nat
      BY <1>0, <3>1, NonceNat DEF Requests, LogExtends
    <3>4. t.nonce < Nonce(t.acct)' /\ log'[t.acct][t.nonce + 1] = log[t.acct][t.nonce + 1]
      BY <3>2, <3>3 DEF LogExtends
    <3> QED
      BY <2>1, <3>1, <3>2, <3>4
  <2>2. CASE \E t \in Requests :
                 /\ t = tx'[q] /\ t.nonce < Nonce(t.acct)'
                 /\ log'[t.acct][t.nonce + 1] = [ins |-> t.ins, outs |-> t.outs]
    BY <2>2
  <2> QED
    BY <2>1, <2>2
<1>2. \A n \in Stored : n \in Created
  BY <1>0 DEF Stored, StoreBehindChain
<1>3. StoredFromHome'
  BY <1>0, <1>2 DEF StoredFromHome, CutInv, Stored, Grows
<1>4. SenderKnown'
  <2> SUFFICES ASSUME NEW n \in Stored, NEW a \in Public, n \in Sent(a)', Home[a] = Home[n.target]
               PROVE  n \in OutsUpTo(a, local[a])'
    BY <1>0 DEF SenderKnown, Stored
  <2>1. a \in Accounts
    BY OperationsAssumption
  <2>2. n \in OutsUpTo(a, local[a])
    BY <1>0, <1>2, <2>1 DEF SenderKnown, CutInv, Grows
  <2>3. local[a] \in Nat /\ local[a] <= Nonce(a) /\ Nonce(a) \in Nat
    BY <1>0, <2>1, NonceNat DEF TypeOK, StoreBehindChain
  <2>4. \A i \in 1 .. local[a] : log'[a][i] = log[a][i]
    BY <2>1, <2>3 DEF LogExtends
  <2>5. n \in UNION {log'[a][i].outs : i \in 1 .. local[a]}
    BY <2>2, <2>4 DEF OutsUpTo
  <2> QED
    BY <1>0, <2>5 DEF OutsUpTo
<1> QED
  BY <1>0, <1>1, <1>3, <1>4 DEF CutInv

\* A step that accepts nothing and leaves the stores as they are.
LEMMA CutIdle ==
    ASSUME ICut, UNCHANGED log, UNCHANGED committed, UNCHANGED storeVars,
           \A q \in Procs : pc'[q] = "apply" => pc[q] = "apply" /\ tx'[q] = tx[q]
    PROVE  CutInv'
<1>1. UNCHANGED nodeVars /\ TypeOK
  BY DEF nodeVars, ICut, IPayment, INote, IStore, TypeInv
<1>2. Nullified' = Nullified /\ Nullified \subseteq consumable \cup spending
  BY <1>1, SameNodeSets DEF ICut, CutInv
<1>3. Grows
  BY <1>1, <1>2, QuietGrows, SameStores
<1>4. LogExtends
  BY <1>1, SameLogExtends
<1> QED
  BY <1>2, <1>3, <1>4, CutQuiet

LEMMA CutAccept ==
    ASSUME ICut, NEW p \in Procs, pc[p] = "submit", Acceptable(tx[p]), Accept(tx[p]),
           UNCHANGED committed, UNCHANGED storeVars,
           \A q \in Procs \ {p} : pc'[q] = "apply" => pc[q] = "apply" /\ tx'[q] = tx[q],
           pc'[p] = "apply" => tx'[p] = tx[p]
    PROVE  CutInv'
<1>0. TypeInv /\ TypeOK /\ INote /\ InputsSeen
  BY DEF ICut, IPayment, INote, IStore, TypeInv, StoreInv
<1>1. PICK t \in Requests : t = tx[p]
  BY <1>0 DEF TypeOK
<1>2. /\ Accept(t) /\ t.outs \cap Created = {} /\ t.nonce = Nonce(t.acct) /\ t.acct \in Accounts
      /\ t.ins \subseteq consumable \cup spending
  BY <1>0, <1>1, SubmitIsNew DEF Acceptable, InputsSeen, Requests
<1>3. Grows
  BY <1>0, <1>2, AcceptGrows
<1>4. LogExtends
  <2>1. \A a \in Accounts : Nonce(a)' \in Nat
    BY <1>0, <1>2, AcceptType DEF Nonce
  <2> QED
    BY <1>0, <1>2, <2>1, AcceptExtends DEF LogExtends
<1>5. Nullified' \subseteq consumable \cup spending
  BY <1>0, <1>2, AcceptCreates DEF ICut, CutInv
<1>6. /\ t.nonce < Nonce(t.acct)'
      /\ log'[t.acct][t.nonce + 1] = [ins |-> t.ins, outs |-> t.outs]
  <2>1. Nonce(t.acct)' = Nonce(t.acct) + 1 /\ Nonce(t.acct) \in Nat
    BY <1>0, <1>2, AcceptExtends, NonceNat DEF Nonce
  <2>2. log'[t.acct][Nonce(t.acct) + 1] = [ins |-> t.ins, outs |-> t.outs]
    BY <1>0, <1>2, AcceptExtends
  <2> QED
    BY <1>2, <2>1, <2>2
<1> QED
  BY <1>1, <1>3, <1>4, <1>5, <1>6, CutQuiet

LEMMA CutApply ==
    ASSUME ICut, NEW p \in Procs, Apply(p)
    PROVE  CutInv'
<1>0. /\ TypeOK /\ INote /\ CutInv /\ InputsSeen
      /\ pc[p] = "apply" /\ StoreTransaction(p, tx[p]) /\ log' = log
      /\ \A q \in Procs : pc'[q] = "apply" => pc[q] = "apply" /\ tx'[q] = tx[q]
  <2>1. TypeOK /\ INote /\ CutInv /\ InputsSeen
    BY DEF ICut, IPayment, INote, IStore, TypeInv, StoreInv
  <2>2. pc[p] = "apply" /\ StoreTransaction(p, tx[p]) /\ log' = log
    BY DEF Apply, nodeVars
  <2>3. \A q \in Procs : pc'[q] = "apply" => pc[q] = "apply" /\ tx'[q] = tx[q]
    BY <2>1, ReturnRequest DEF Apply, Succeed, Goto, TypeOK, Results
  <2> QED
    BY <2>1, <2>2, <2>3
<1>1. PICK t \in Requests : t = tx[p]
  BY <1>0 DEF TypeOK
<1>2. /\ t.acct \in Accounts /\ t.nonce \in Nat /\ t.nonce < Nonce(t.acct)
      /\ log[t.acct][t.nonce + 1] = [ins |-> t.ins, outs |-> t.outs]
      /\ t.outs \subseteq Sent(t.acct) /\ Tracks(p, t.acct)
      /\ t.ins \subseteq consumable \cup spending
  BY <1>0, <1>1 DEF Requests, CutInv, AppliedInLog, ICut, IPayment, PaymentInv, AppliedIsSent,
     SubmitsFromHome, InputsSeen
<1>3. AppliedInLog'
  BY <1>0 DEF CutInv, AppliedInLog, Nonce
<1>4. Nullified' \subseteq consumable' \cup spending'
  <2>1. Nullified' = Nullified
    BY <1>0 DEF Nullified, InsUpTo, Nonce
  <2> QED
    BY <1>0, <2>1 DEF StoreTransaction, CutInv
<1>5. \A n \in Stored' : n \in Stored \/ (n \in t.outs /\ Tracks(p, n.target))
  BY <1>0, <1>1, <1>2 DEF Stored, StoreTransaction
<1>6. \A a \in Accounts : Sent(a)' = Sent(a)
  BY <1>0 DEF Sent, OutsUpTo, Nonce
<1>7. \A n \in t.outs, a \in Accounts : n \in Sent(a) => a = t.acct
  BY <1>0, <1>2, SentByOne
<1>8. StoredFromHome'
  BY <1>0, <1>2, <1>5, <1>6, <1>7 DEF StoredFromHome, CutInv, Tracks
<1>9. SenderKnown'
  <2> SUFFICES ASSUME NEW n \in Stored', NEW a \in Public, n \in Sent(a), Home[a] = Home[n.target]
               PROVE  n \in OutsUpTo(a, local'[a])
    BY <1>0, <1>6, OperationsAssumption DEF SenderKnown, OutsUpTo
  <2>1. a \in Accounts /\ local[a] \in Nat
    BY <1>0, OperationsAssumption DEF TypeOK
  <2>2. PICK k \in Nat : k = local'[a] /\ local[a] <= k /\ (a = t.acct => t.nonce + 1 <= k)
    <3>1. local' = [local EXCEPT ![t.acct] = Later(@, t.nonce + 1)]
      BY <1>0, <1>1 DEF StoreTransaction
    <3>2. local'[a] = IF a = t.acct /\ local[a] < t.nonce + 1 THEN t.nonce + 1 ELSE local[a]
      BY <1>0, <1>2, <2>1, <3>1 DEF TypeOK, Later
    <3> QED
      BY <1>2, <2>1, <3>2
  <2>3. CASE n \in Stored
    BY <1>0, <2>1, <2>2, <2>3, OutsGrow DEF CutInv, SenderKnown
  <2>4. CASE n \in t.outs
    <3>1. a = t.acct
      BY <1>7, <2>1, <2>4
    <3>2. t.nonce + 1 \in 1 .. k /\ n \in log[a][t.nonce + 1].outs
      BY <1>2, <2>2, <2>4, <3>1
    <3> QED
      BY <2>2, <3>2 DEF OutsUpTo
  <2> QED
    BY <1>5, <2>3, <2>4
<1> QED
  BY <1>3, <1>4, <1>8, <1>9 DEF CutInv

LEMMA CutSync ==
    ASSUME ICut, NEW p \in Procs, Sync(p)
    PROVE  CutInv'
<1>0. /\ TypeOK /\ INote /\ CutInv /\ SyncState(p) /\ log' = log
      /\ \A q \in Procs : pc'[q] = "apply" => pc[q] = "apply" /\ tx'[q] = tx[q]
  <2>1. TypeOK /\ INote /\ CutInv /\ InputsSeen
    BY DEF ICut, IPayment, INote, IStore, TypeInv, StoreInv
  <2>2. SyncState(p) /\ log' = log
    BY DEF Sync, nodeVars
  <2>3. \A q \in Procs : pc'[q] = "apply" => pc[q] = "apply" /\ tx'[q] = tx[q]
    BY <2>1, ReturnRequest DEF Sync, Succeed, Goto, TypeOK, Results
  <2> QED
    BY <2>1, <2>2, <2>3
<1>1. AppliedInLog'
  BY <1>0 DEF CutInv, AppliedInLog, Nonce
<1>2. Nullified' \subseteq consumable' \cup spending'
  <2>1. Nullified' = Nullified
    BY <1>0 DEF Nullified, InsUpTo, Nonce
  <2> QED
    BY <1>0, <2>1 DEF SyncState, CutInv
<1>3. \A n \in Stored' : n \in Stored \/ (n \in InBlock /\ Tracks(p, n.target) /\ IsBurnNote(n))
  BY <1>0 DEF Stored, SyncState, Discovered, Consumed
<1>4. \A a \in Accounts : Sent(a)' = Sent(a)
  BY <1>0 DEF Sent, OutsUpTo, Nonce
<1>5. StoredFromHome'
  BY <1>0, <1>3, <1>4 DEF StoredFromHome, CutInv
<1>6. SenderKnown'
  <2> SUFFICES ASSUME NEW n \in Stored', NEW a \in Public, n \in Sent(a), Home[a] = Home[n.target]
               PROVE  n \in OutsUpTo(a, local'[a])
    BY <1>0, <1>4, OperationsAssumption DEF SenderKnown, OutsUpTo
  <2>1. a \in Accounts /\ local[a] \in Nat /\ committed[a] \in Nat
    BY <1>0, OperationsAssumption DEF TypeOK
  <2>2. PICK k \in Nat : k = local'[a] /\ local[a] <= k /\ (Tracks(p, a) => committed[a] <= k)
    BY <1>0, <2>1 DEF SyncState, Later
  <2>3. CASE n \in Stored
    BY <1>0, <2>1, <2>2, <2>3, OutsGrow DEF CutInv, SenderKnown
  <2>4. CASE n \in InBlock /\ Tracks(p, n.target)
    <3>1. PICK b \in Accounts : n \in OutsUpTo(b, committed[b])
      BY <2>4 DEF InBlock
    <3>2. n \in Sent(b)
      <4>1. committed[b] \in Nat /\ Nonce(b) \in Nat /\ committed[b] <= Nonce(b)
        BY <1>0, NonceNat DEF TypeOK, INote, IStore, StoreInv, StoreBehindChain
      <4> QED
        BY <3>1, <4>1, OutsGrow DEF Sent
    <3>3. a = b
      BY <1>0, <2>1, <3>2, SentByOne
    <3>4. committed[a] <= k
      BY <2>2, <2>4 DEF Tracks
    <3> QED
      BY <2>1, <2>2, <3>1, <3>3, <3>4, OutsGrow
  <2> QED
    BY <1>3, <2>3, <2>4
<1> QED
  BY <1>1, <1>2, <1>5, <1>6 DEF CutInv

LEMMA CutNext == ICut /\ [Next]_vars => CutInv'
<1> SUFFICES ASSUME ICut, [Next]_vars PROVE CutInv'
  OBVIOUS
<1>0. /\ TypeOK /\ InputsSeen /\ "ok" \in Results /\ "err" \in Results /\ "idle" \in Results
  BY DEF ICut, IPayment, INote, IStore, TypeInv, StoreInv, Results
<1>1. ASSUME NEW p \in Procs, StartCall(p)
      PROVE  CutInv'
  <2>1. UNCHANGED log /\ UNCHANGED committed /\ UNCHANGED storeVars
    BY <1>1 DEF StartCall, MintTokens, TransferTokens, BurnTokens, ConsumeNotes, SyncAndTrack,
       CreateNote, Poll, nodeVars
  <2>2. \A q \in Procs : pc'[q] = "apply" => pc[q] = "apply" /\ tx'[q] = tx[q]
    BY <1>0, <1>1 DEF StartCall, MintTokens, TransferTokens, BurnTokens, ConsumeNotes, SyncAndTrack,
       CreateNote, Poll, Goto, TypeOK
  <2> QED
    BY <2>1, <2>2, CutIdle
<1>2. ASSUME NEW p \in Procs,
             \/ ExecuteFails(p) \/ SignerFails(p) \/ Reject(p) \/ RpcFails(p)
             \/ GiveUp(p) \/ CollectEmpty(p) \/ Crash(p)
      PROVE  CutInv'
  <2>1. UNCHANGED log /\ UNCHANGED committed /\ UNCHANGED storeVars
    BY <1>2 DEF ExecuteFails, SignerFails, Reject, RpcFails, GiveUp, CollectEmpty, Crash, nodeVars
  <2>2. \A q \in Procs : pc'[q] = "apply" => pc[q] = "apply" /\ tx'[q] = tx[q]
    BY <1>0, <1>2, ReturnRequest
       DEF ExecuteFails, SignerFails, Reject, RpcFails, GiveUp, CollectEmpty, Crash, Fail
  <2> QED
    BY <2>1, <2>2, CutIdle
<1>3. ASSUME NEW p \in Procs, Execute(p) \/ ListFinds(p) \/ ListEmpty(p) \/ Collect(p)
      PROVE  CutInv'
  <2>1. UNCHANGED log /\ UNCHANGED committed /\ UNCHANGED storeVars
    BY <1>3 DEF Execute, ListFinds, ListEmpty, Collect, nodeVars
  <2>2. \A q \in Procs : pc'[q] = "apply" => pc[q] = "apply" /\ tx'[q] = tx[q]
    BY <1>0, <1>3 DEF Execute, ListFinds, ListEmpty, Collect, Goto, TypeOK
  <2> QED
    BY <2>1, <2>2, CutIdle
<1>4. ASSUME NEW p \in Procs, Submit(p)
      PROVE  CutInv'
  BY <1>0, <1>4, CutAccept DEF Submit, Goto, TypeOK
<1>5. ASSUME NEW p \in Procs, AckLost(p)
      PROVE  CutInv'
  <2>1. \A q \in Procs : pc'[q] = "apply" => pc[q] = "apply" /\ tx'[q] = tx[q] /\ q # p
    BY <1>0, <1>5, ReturnRequest DEF AckLost, Fail
  <2> QED
    BY <1>5, <2>1, CutAccept DEF AckLost
<1>6. ASSUME NEW a \in Accounts, Include(a)
      PROVE  CutInv'
  <2>1. /\ log' = log /\ UNCHANGED storeVars /\ pc' = pc /\ tx' = tx
        /\ local' = local /\ expected' = expected /\ consumable' = consumable
        /\ spending' = spending
    BY <1>6 DEF Include, procVars, storeVars
  <2>2. Nullified' = Nullified
    BY <2>1 DEF Nullified, InsUpTo, Nonce
  <2> QED
    BY <2>1, <2>2 DEF ICut, CutInv, AppliedInLog, StoredFromHome, SenderKnown, Stored, Sent,
       OutsUpTo, Nonce
<1>7. CASE UNCHANGED vars
  <2>1. /\ UNCHANGED log /\ UNCHANGED committed /\ UNCHANGED storeVars
        /\ \A q \in Procs : pc'[q] = "apply" => pc[q] = "apply" /\ tx'[q] = tx[q]
    BY <1>7 DEF vars, nodeVars, procVars
  <2> QED
    BY <2>1, CutIdle
<1> QED
  BY <1>1, <1>2, <1>3, <1>4, <1>5, <1>6, <1>7, CutApply, CutSync DEF Next, StepCall, Disturb

LEMMA CutInit == Init => CutInv
BY DEF Init, CutInv, AppliedInLog, StoredFromHome, SenderKnown, Stored, Nullified, InsUpTo, Nonce

\* The public accounts of the issuer's store as that store knows them, the
\* others as they are on the node.
LEMMA KnownBalances ==
    ASSUME IFunds, ICut
    PROVE  SupplyCoversHoldings
<1> DEFINE held == {w \in Wallets \cap Public : Home[w] = Home[Issuer]}
           known == held \cup {Issuer}
           c == [a \in Accounts |-> IF a \in known THEN local[a] ELSE Nonce(a)]
           B == [w \in Wallets |-> BalanceAt(w, c[w])]
<1>0. /\ INote /\ TypeInv /\ TypeOK /\ FundsHold /\ CutInv /\ StoreBehindChain
      /\ Issuer \in Accounts /\ Wallets \subseteq Accounts /\ Issuer \notin Wallets
      /\ IsFiniteSet(Wallets)
  BY NotesAssumption
     DEF IFunds, FundsInv, INote, IStore, TypeInv, StoreInv, ICut, Accounts
<1>1. c \in [Accounts -> Nat] /\ \A a \in Accounts : c[a] <= Nonce(a)
  <2>1. \A a \in Accounts : local[a] \in Nat /\ Nonce(a) \in Nat /\ local[a] <= Nonce(a)
    BY <1>0, NonceNat DEF TypeOK, StoreBehindChain
  <2> QED
    BY <2>1
<1>2. NullifiedBefore(c) \subseteq CreatedBefore(c)
  <2> SUFFICES ASSUME NEW n \in NullifiedBefore(c)
               PROVE  n \in CreatedBefore(c)
    OBVIOUS
  <2>1. n \in Nullified
    <3>1. \A a \in Accounts : 1 .. c[a] \subseteq 1 .. Nonce(a)
      BY <1>0, <1>1, NonceNat
    <3> HIDE DEF c
    <3> QED
      BY <3>1 DEF NullifiedBefore, Nullified, InsUpTo
  <2>2. n \in Stored /\ n \in Created
    BY <1>0, <2>1 DEF CutInv, Stored, StoreBehindChain
  <2>3. PICK b \in Accounts : n \in Sent(b)
    BY <2>2 DEF Created, Sent
  <2>4. CASE b \in known
    <3>1. b \in Public /\ Home[b] = Home[Issuer]
      BY <2>4, OperationsAssumption
    <3>2. Home[b] = Home[n.target]
      BY <1>0, <2>2, <2>3, <3>1 DEF CutInv, StoredFromHome, IsBurnNote
    <3>3. n \in OutsUpTo(b, c[b])
      BY <1>0, <2>2, <2>3, <2>4, <3>1, <3>2 DEF CutInv, SenderKnown
    <3> QED
      BY <3>3 DEF CreatedBefore
  <2>5. CASE b \notin known
    <3>1. n \in OutsUpTo(b, c[b])
      BY <2>3, <2>5 DEF Sent
    <3> QED
      BY <3>1 DEF CreatedBefore
  <2> QED
    BY <2>4, <2>5
<1>3. /\ IssuanceAt(c[Issuer]) = Sum(B, Wallets) + Value(CreatedBefore(c) \ NullifiedBefore(c))
      /\ Sum(B, Wallets) \in Int
      /\ Value(CreatedBefore(c) \ NullifiedBefore(c)) \in Nat
  <2> HIDE DEF c
  <2> QED
    BY <1>0, <1>1, <1>2, CutBalances
<1>4. \A w \in Wallets : B[w] \in Int
  <2>1. \A w \in Wallets : /\ InsUpTo(w, c[w]) \in SUBSET NoteSet
                           /\ OutsUpTo(w, c[w]) \in SUBSET NoteSet
    BY <1>0, <1>1, LogNotes
  <2>2. \A w \in Wallets : Value(InsUpTo(w, c[w])) \in Nat /\ Value(OutsUpTo(w, c[w])) \in Nat
    <3> HIDE DEF c
    <3> QED
      BY <2>1, ValueNat
  <2> QED
    BY <2>2 DEF BalanceAt
<1>5. \A w \in Wallets \ held : B[w] \in Nat
  <2>1. \A w \in Wallets \ held : B[w] = BalanceAt(w, Nonce(w)) /\ Nonce(w) \in 0 .. Nonce(w)
    BY <1>0, NonceNat
  <2> QED
    BY <1>0, <1>4, <2>1 DEF FundsHold
<1>6. Sum(B, Wallets) = Sum(B, held) + Sum(B, Wallets \ held)
  <2>1. /\ IsFiniteSet(held) /\ IsFiniteSet(Wallets \ held)
        /\ held \cap (Wallets \ held) = {} /\ held \cup (Wallets \ held) = Wallets
    BY <1>0, FS_Subset
  <2> HIDE DEF B, held
  <2> QED
    BY <1>4, <2>1, SumUnion
<1>7. /\ Sum(B, held) \in Int /\ Sum(B, Wallets \ held) \in Nat
  <2>1. IsFiniteSet(held) /\ IsFiniteSet(Wallets \ held) /\ held \subseteq Wallets
    BY <1>0, FS_Subset
  <2>2. \A w \in held : B[w] \in Int
    BY <1>4, <2>1
  <2> HIDE DEF B, held
  <2> QED
    BY <1>5, <2>1, <2>2, SumInt, SumNat
<1>8. SumFunction([w \in held |-> ReadBalance(w)]) = Sum(B, held)
  <2>1. IsFiniteSet(held) /\ held \subseteq Wallets
    BY <1>0, FS_Subset
  <2>2. \A w \in held : [v \in held |-> ReadBalance(v)][w] = B[w]
    BY <1>0, <2>1 DEF ReadBalance
  <2>3. Sum([v \in held |-> ReadBalance(v)], held) = Sum(B, held)
    <3> HIDE DEF B, held
    <3> QED
      BY <2>1, <2>2, SumCongruent
  <2> QED
    BY <2>3 DEF SumFunction, Sum
<1>9. ReadTotalSupply = IssuanceAt(c[Issuer])
  BY <1>0 DEF ReadTotalSupply
<1>10. Sum(B, held) <= ReadTotalSupply
  <2> HIDE DEF B, held, c
  <2> QED
    BY <1>3, <1>6, <1>7, <1>9
<1> QED
  BY <1>8, <1>10 DEF SupplyCoversHoldings

\* The table of print_state adds up: the supply read_total_supply returns
\* covers the balances read_balance returns from the same store, although
\* each account is known as of another moment.
THEOREM SupplyCovers == Spec => []SupplyCoversHoldings
<1>1. Init => ICut
  BY TypeInvInit, StoreInvInit, NoteInvInit, PaymentInit, CutInit DEF ICut, IPayment, INote, IStore
<1>2. ICut /\ [Next]_vars => ICut'
  BY TypeInvNext, StoreInvNext, NoteInvNext, PaymentNext, CutNext DEF ICut, IPayment, INote, IStore
<1>3. IFunds /\ ICut => SupplyCoversHoldings
  BY KnownBalances
<1> QED
  BY <1>1, <1>2, <1>3, FundsInvariant, PTL DEF Spec

-----------------------------------------------------------------------------
(* Burns reported and burn notes redeemed.                                  *)

IBurn == IFunds /\ BurnInv

Redeemed == InsUpTo(Issuer, Nonce(Issuer))

LEMMA BurnSetsFinite ==
    ASSUME TypeInv
    PROVE  IsFiniteSet(Claimed) /\ IsFiniteSet(Redeemed)
<1>1. /\ acked \subseteq NoteSet /\ \A q \in Procs : call[q].outs \subseteq NoteSet
      /\ Issuer \in Accounts /\ TypeOK
  BY DEF TypeInv, TypeOK, Calls, Accounts
<1>2. Claimed \in SUBSET NoteSet
  BY <1>1 DEF Claimed, NotesFor
<1>3. Redeemed \in SUBSET NoteSet
  BY <1>1, LogNotes, NonceNat DEF Redeemed
<1> QED
  BY <1>2, <1>3, NotesFinite

LEMMA RedeemedFinite ==
    ASSUME TypeInv'
    PROVE  IsFiniteSet(Redeemed')
<1>1. PICK l \in Seq(Effects) : l = log'[Issuer]
  BY DEF TypeInv, TypeOK, Accounts
<1>2. Redeemed' = UNION {l[i].ins : i \in 1 .. Len(l)}
  BY <1>1 DEF Redeemed, InsUpTo, Nonce
<1>3. \A i \in 1 .. Len(l) : l[i].ins \subseteq NoteSet
  <2>1. \A i \in 1 .. Len(l) : l[i] \in Effects
    OBVIOUS
  <2> QED
    BY <2>1 DEF Effects
<1> QED
  BY <1>2, <1>3, NotesFinite

\* A step of p after which p claims no note but those claimed before.
LEMMA BurnKept ==
    ASSUME IBurn, TypeInv', NEW p \in Procs,
           \A q \in Procs \ {p} : pc'[q] = pc[q] /\ call'[q] = call[q] /\ tx'[q] = tx[q],
           call'[p].op = "burn" => \E n \in NoteSet : call'[p].outs = {n},
           call'[p].op # "burn" => \A n \in call'[p].outs : ~IsBurnNote(n),
           SecondStep(p)' => tx'[p].acct = Issuer /\ pc'[p] # "apply",
           \A n \in acked' \ acked : IsBurnNote(n) => n \in Claimed,
           Redeemed \subseteq Redeemed'
    PROVE  BurnInv'
<1>1. BurnShape'
  BY DEF IBurn, BurnInv, BurnShape, SecondStep
<1>2. Claimed' \subseteq Claimed
  BY DEF Claimed, NotesFor, IsBurnNote, SecondStep
<1>3. IsFiniteSet(Claimed) /\ IsFiniteSet(Redeemed')
  BY BurnSetsFinite, RedeemedFinite DEF IBurn, IFunds, INote, IStore
<1>4. /\ Cardinality(Claimed') <= Cardinality(Claimed)
      /\ Cardinality(Redeemed) <= Cardinality(Redeemed')
      /\ IsFiniteSet(Redeemed) /\ IsFiniteSet(Claimed')
  BY <1>2, <1>3, FS_Subset
<1>5. /\ Cardinality(Claimed') \in Nat /\ Cardinality(Claimed) \in Nat
      /\ Cardinality(Redeemed) \in Nat /\ Cardinality(Redeemed') \in Nat
  BY <1>3, <1>4, FS_CardinalityType
<1>6. Cardinality(Claimed) <= Cardinality(Redeemed)
  BY DEF IBurn, BurnInv, Redeemed
<1>7. Cardinality(Claimed') <= Cardinality(Redeemed')
  BY <1>4, <1>5, <1>6
<1> QED
  BY <1>1, <1>7 DEF BurnInv, Redeemed, Claimed

\* The second transaction of a burn: one note claimed, at least one redeemed.
LEMMA BurnRedeems ==
    ASSUME IBurn, TypeInv', NEW p \in Procs, Submit(p), SecondStep(p)
    PROVE  BurnInv'
<1>0. /\ TypeOK /\ TypeInv /\ pc[p] = "submit" /\ Acceptable(tx[p]) /\ Accept(tx[p])
      /\ pc' = [pc EXCEPT ![p] = "apply"] /\ call' = call /\ tx' = tx /\ acked' = acked
      /\ Issuer \in Accounts
  BY DEF Submit, Goto, IBurn, IFunds, INote, IStore, TypeInv, Accounts
<1>1. PICK n \in NoteSet : call[p].outs = {n}
  BY DEF SecondStep, IBurn, BurnInv, BurnShape
<1>2. PICK t \in Requests : t = tx[p]
  BY <1>0 DEF TypeOK
<1>3. t.outs = {} /\ t.ins # {} /\ t.acct = Issuer /\ Redeemed \cap t.ins = {}
  <2>1. t.acct = Issuer /\ t.outs = {}
    BY <1>2 DEF IBurn, BurnInv, BurnShape, SecondStep
  <2>2. OneEffect(t) /\ t.ins \cap Nullified = {}
    BY <1>0, <1>2, SubmitFacts DEF IBurn
  <2>3. Redeemed \subseteq Nullified
    BY <1>0 DEF Redeemed, Nullified
  <2> QED
    BY <2>1, <2>2, <2>3 DEF OneEffect
<1>4. PICK m : m \in t.ins /\ m \notin Redeemed
  BY <1>3
<1>5. Redeemed' = Redeemed \cup t.ins
  BY <1>0, <1>2, <1>3, AcceptSends DEF Redeemed
<1>6. Claimed' \subseteq Claimed \cup {n}
  BY <1>0, <1>1 DEF Claimed, SecondStep
<1>7. BurnShape'
  <2>1. \A q \in Procs : SecondStep(q)' => SecondStep(q)
    BY <1>0 DEF SecondStep, TypeOK
  <2> QED
    BY <1>0, <2>1 DEF IBurn, BurnInv, BurnShape
<1>8. /\ IsFiniteSet(Claimed) /\ IsFiniteSet(Redeemed) /\ IsFiniteSet(Redeemed')
      /\ Redeemed \cup {m} \subseteq Redeemed'
  BY <1>0, <1>4, <1>5, BurnSetsFinite, RedeemedFinite
<1>9. /\ IsFiniteSet(Claimed \cup {n}) /\ Cardinality(Claimed \cup {n}) <= Cardinality(Claimed) + 1
      /\ Cardinality(Claimed) \in Nat /\ Cardinality(Redeemed) \in Nat
      /\ Cardinality(Redeemed \cup {m}) = Cardinality(Redeemed) + 1
  <2>1. Cardinality(Claimed) \in Nat /\ Cardinality(Redeemed) \in Nat
    BY <1>8, FS_CardinalityType
  <2>2. /\ IsFiniteSet(Claimed \cup {n})
        /\ \/ Cardinality(Claimed \cup {n}) = Cardinality(Claimed)
           \/ Cardinality(Claimed \cup {n}) = Cardinality(Claimed) + 1
    BY <1>8, FS_AddElement
  <2>3. Cardinality(Redeemed \cup {m}) = Cardinality(Redeemed) + 1
    BY <1>4, <1>8, FS_AddElement
  <2> QED
    BY <2>1, <2>2, <2>3
<1>10. /\ Cardinality(Claimed') <= Cardinality(Claimed \cup {n}) /\ IsFiniteSet(Claimed')
       /\ Cardinality(Redeemed \cup {m}) <= Cardinality(Redeemed')
  BY <1>6, <1>8, <1>9, FS_Subset
<1>11. /\ Cardinality(Claimed') \in Nat /\ Cardinality(Claimed \cup {n}) \in Nat
       /\ Cardinality(Redeemed') \in Nat
  BY <1>8, <1>9, <1>10, FS_CardinalityType
<1>12. Cardinality(Claimed) <= Cardinality(Redeemed)
  BY DEF IBurn, BurnInv, Redeemed
<1>13. Cardinality(Claimed') <= Cardinality(Redeemed')
  BY <1>9, <1>10, <1>11, <1>12
<1> QED
  BY <1>7, <1>13 DEF BurnInv, Redeemed, Claimed

LEMMA BurnReturn ==
    ASSUME IBurn, TypeInv', NEW p \in Procs, NEW r \in Results, Return(p, r),
           \A n \in acked' \ acked : IsBurnNote(n) => n \in Claimed,
           Redeemed \subseteq Redeemed'
    PROVE  BurnInv'
<1>1. /\ ~SecondStep(p)' /\ call'[p] \in {call[p], NoCall}
      /\ \A q \in Procs \ {p} : pc'[q] = pc[q] /\ call'[q] = call[q] /\ tx'[q] = tx[q]
  BY DEF Return, Goto, SecondStep, Results, IBurn, IFunds, INote, IStore, TypeInv, TypeOK
<1>2. /\ call'[p].op = "burn" => \E n \in NoteSet : call'[p].outs = {n}
      /\ call'[p].op # "burn" => \A n \in call'[p].outs : ~IsBurnNote(n)
  BY <1>1 DEF IBurn, BurnInv, BurnShape, NoCall
<1> QED
  BY <1>1, <1>2, BurnKept

LEMMA BurnStart ==
    ASSUME IBurn, TypeInv', NEW p \in Procs, StartCall(p)
    PROVE  BurnInv'
<1>0. TypeOK /\ Issuer \notin Wallets /\ Wallets \subseteq Accounts
  BY NotesAssumption DEF IBurn, IFunds, INote, IStore, TypeInv, Accounts
<1>1. ASSUME NEW op, NEW a, NEW t \in Accounts, NEW m \in Amounts, CreateNote(p, op, a, t, m),
             op = "burn" \/ t # Issuer
      PROVE  BurnInv'
  <2> DEFINE n == [id |-> serial + 1, target |-> t, amount |-> m]
  <2>1. n \in NoteSet /\ (op = "burn" \/ ~IsBurnNote(n))
    <3>1. serial + 1 \in 1 .. MaxNotes
      BY <1>0, <1>1, NotesAssumption DEF CreateNote, TypeOK
    <3> QED
      BY <1>1, <3>1 DEF NoteSet, IsBurnNote
  <2>2. /\ log' = log /\ acked' = acked /\ tx'[p].outs = {n}
        /\ call'[p] = [op |-> op, acct |-> a, outs |-> {n}]
        /\ \A q \in Procs \ {p} : pc'[q] = pc[q] /\ call'[q] = call[q] /\ tx'[q] = tx[q]
    BY <1>0, <1>1 DEF CreateNote, Goto, TypeOK, nodeVars
  <2>3. ~SecondStep(p)'
    BY <2>2 DEF SecondStep
  <2>4. Redeemed' = Redeemed
    BY <2>2 DEF Redeemed, InsUpTo, Nonce
  <2>5. /\ call'[p].op = "burn" => \E x \in NoteSet : call'[p].outs = {x}
        /\ call'[p].op # "burn" => \A x \in call'[p].outs : ~IsBurnNote(x)
    BY <2>1, <2>2
  <2> QED
    BY <2>2, <2>3, <2>4, <2>5, BurnKept
<1>2. ASSUME NEW op, NEW a, Poll(p, op, a), op # "burn"
      PROVE  BurnInv'
  <2>1. /\ log' = log /\ acked' = acked /\ pc'[p] = "sync"
        /\ call'[p] = [op |-> op, acct |-> a, outs |-> {}]
        /\ \A q \in Procs \ {p} : pc'[q] = pc[q] /\ call'[q] = call[q] /\ tx'[q] = tx[q]
    BY <1>0, <1>2 DEF Poll, Goto, TypeOK, nodeVars
  <2>2. Redeemed' = Redeemed /\ ~SecondStep(p)'
    BY <2>1 DEF Redeemed, InsUpTo, Nonce, SecondStep
  <2> QED
    BY <1>2, <2>1, <2>2, BurnKept
<1> QED
  BY <1>0, <1>1, <1>2, ConstantFacts DEF StartCall, MintTokens, TransferTokens, BurnTokens,
     ConsumeNotes, SyncAndTrack

LEMMA BurnStep ==
    ASSUME IBurn, TypeInv', NEW p \in Procs, StepCall(p) \/ Disturb(p)
    PROVE  BurnInv'
<1>0. /\ TypeOK /\ TypeInv /\ tx[p] \in Requests
      /\ "ok" \in Results /\ "err" \in Results /\ "idle" \in Results
      /\ call[p].op = "burn" => \E n \in NoteSet : call[p].outs = {n}
      /\ call[p].op # "burn" => \A n \in call[p].outs : ~IsBurnNote(n)
      /\ SecondStep(p) => tx[p].acct = Issuer
  BY DEF IBurn, IFunds, INote, IStore, TypeInv, TypeOK, Results, BurnInv, BurnShape
<1>l. ASSUME log' = log PROVE Redeemed \subseteq Redeemed'
  BY <1>l DEF Redeemed, InsUpTo, Nonce
<1>a. ASSUME Accept(tx[p]) PROVE Redeemed \subseteq Redeemed'
  <2>1. PICK t \in Requests : t = tx[p]
    BY <1>0
  <2>2. Issuer \in Accounts /\ Accept(t)
    BY <1>a, <2>1 DEF Accounts
  <2> QED
    BY <1>0, <2>2, AcceptSends DEF Redeemed
<1>1. CASE Execute(p)
  <2>1. /\ log' = log /\ acked' = acked /\ call' = call
        /\ pc[p] = "execute" /\ pc'[p] = "submit"
        /\ tx'[p].acct = tx[p].acct /\ tx'[p].outs = tx[p].outs
        /\ \A q \in Procs \ {p} : pc'[q] = pc[q] /\ call'[q] = call[q] /\ tx'[q] = tx[q]
    BY <1>0, <1>1 DEF Execute, Goto, OnLocalState, TypeOK, nodeVars
  <2>2. SecondStep(p)' => tx'[p].acct = Issuer /\ pc'[p] # "apply"
    BY <1>0, <2>1 DEF SecondStep
  <2> QED
    BY <1>0, <1>l, <2>1, <2>2, BurnKept
<1>2. CASE ExecuteFails(p) \/ SignerFails(p) \/ Reject(p) \/ RpcFails(p) \/ GiveUp(p) \/ CollectEmpty(p)
  <2>1. Return(p, "err") /\ log' = log /\ acked' = acked
    BY <1>2 DEF ExecuteFails, SignerFails, Reject, RpcFails, GiveUp, CollectEmpty, Fail, nodeVars
  <2> QED
    BY <1>0, <1>l, <2>1, BurnReturn
<1>3. CASE Crash(p)
  <2>1. Return(p, "idle") /\ log' = log /\ acked' = acked
    BY <1>3 DEF Crash, nodeVars
  <2> QED
    BY <1>0, <1>l, <2>1, BurnReturn
<1>4. CASE Submit(p) /\ ~SecondStep(p)
  <2>1. /\ pc[p] = "submit" /\ Accept(tx[p]) /\ acked' = acked /\ call' = call /\ tx' = tx
        /\ \A q \in Procs \ {p} : pc'[q] = pc[q] /\ call'[q] = call[q] /\ tx'[q] = tx[q]
    BY <1>0, <1>4 DEF Submit, Goto, TypeOK
  <2>2. ~SecondStep(p)'
    BY <1>4, <2>1 DEF SecondStep
  <2> QED
    BY <1>0, <1>a, <2>1, <2>2, BurnKept
<1>5. CASE AckLost(p)
  <2>1. Return(p, "err") /\ Accept(tx[p]) /\ acked' = acked
    BY <1>5 DEF AckLost, Fail
  <2> QED
    BY <1>0, <1>a, <2>1, BurnReturn
<1>6. CASE Apply(p) /\ HasSecondStep(p)
  <2>1. /\ log' = log /\ acked' = acked /\ call' = call /\ pc'[p] = "sync"
        /\ \A q \in Procs \ {p} : pc'[q] = pc[q] /\ call'[q] = call[q] /\ tx'[q] = tx[q]
    BY <1>0, <1>6 DEF Apply, Goto, TypeOK, nodeVars
  <2>2. ~SecondStep(p)'
    BY <2>1 DEF SecondStep
  <2> QED
    BY <1>0, <1>l, <2>1, <2>2, BurnKept
<1>7. CASE Apply(p) /\ ~HasSecondStep(p)
  <2>1. pc[p] = "apply" /\ Return(p, "ok") /\ acked' = acked \cup call[p].outs /\ log' = log
    BY <1>7 DEF Apply, Succeed, nodeVars
  <2>2. call[p].op = "burn" => call[p].outs \subseteq Claimed
    BY <1>7, <2>1 DEF HasSecondStep, SecondStep, Claimed
  <2> QED
    BY <1>0, <1>l, <2>1, <2>2, BurnReturn
<1>8. CASE Sync(p)
  <2>1. CASE call[p].op = "sync"
    <3>1. Return(p, "ok") /\ acked' = acked \cup call[p].outs /\ log' = log
      BY <1>8, <2>1 DEF Sync, Succeed, nodeVars
    <3> QED
      BY <1>0, <1>l, <2>1, <3>1, BurnReturn
  <2>2. CASE call[p].op # "sync"
    <3>1. /\ log' = log /\ acked' = acked /\ call' = call /\ pc'[p] = "list"
          /\ \A q \in Procs \ {p} : pc'[q] = pc[q] /\ call'[q] = call[q] /\ tx'[q] = tx[q]
      BY <1>0, <1>8, <2>2 DEF Sync, Goto, TypeOK, nodeVars
    <3>2. ~SecondStep(p)'
      BY <3>1 DEF SecondStep
    <3> QED
      BY <1>0, <1>l, <3>1, <3>2, BurnKept
  <2> QED
    BY <2>1, <2>2
<1>9. CASE ListFinds(p) \/ ListEmpty(p)
  <2>1. /\ log' = log /\ acked' = acked /\ call' = call /\ pc'[p] \in {"collect", "sync"}
        /\ \A q \in Procs \ {p} : pc'[q] = pc[q] /\ call'[q] = call[q] /\ tx'[q] = tx[q]
    BY <1>0, <1>9 DEF ListFinds, ListEmpty, Goto, TypeOK, nodeVars
  <2>2. ~SecondStep(p)'
    BY <2>1 DEF SecondStep
  <2> QED
    BY <1>0, <1>l, <2>1, <2>2, BurnKept
<1>10. CASE Collect(p)
  <2>1. PICK notes : tx' = [tx EXCEPT ![p] = [acct |-> Poller(p), nonce |-> 0,
                                              ins |-> notes, outs |-> {}]]
    BY <1>10 DEF Collect
  <2>2. /\ log' = log /\ acked' = acked /\ call' = call /\ pc'[p] = "execute"
        /\ tx'[p].acct = Poller(p)
        /\ \A q \in Procs \ {p} : pc'[q] = pc[q] /\ call'[q] = call[q] /\ tx'[q] = tx[q]
    BY <1>0, <1>10, <2>1 DEF Collect, Goto, TypeOK, nodeVars
  <2>3. SecondStep(p)' => tx'[p].acct = Issuer /\ pc'[p] # "apply"
    BY <2>2 DEF SecondStep, Poller
  <2> QED
    BY <1>0, <1>l, <2>2, <2>3, BurnKept
<1> QED
  BY <1>1, <1>2, <1>3, <1>4, <1>5, <1>6, <1>7, <1>8, <1>9, <1>10, BurnRedeems DEF StepCall, Disturb

LEMMA BurnNext == IBurn /\ [Next]_vars => BurnInv'
<1> SUFFICES ASSUME IBurn, [Next]_vars PROVE BurnInv'
  OBVIOUS
<1>0. TypeInv'
  BY TypeInvNext DEF IBurn, IFunds, INote, IStore
<1>s. ASSUME UNCHANGED <<log, pc, call, tx, acked>>
      PROVE  BurnInv'
  BY <1>s DEF IBurn, BurnInv, BurnShape, SecondStep, Claimed, InsUpTo, Nonce
<1>1. ASSUME NEW p \in Procs, StartCall(p) \/ StepCall(p) \/ Disturb(p)
      PROVE  BurnInv'
  BY <1>0, <1>1, BurnStart, BurnStep
<1>2. ASSUME NEW a \in Accounts, Include(a)
      PROVE  BurnInv'
  BY <1>2, <1>s DEF Include, procVars
<1>3. CASE UNCHANGED vars
  BY <1>3, <1>s DEF vars, nodeVars, procVars
<1> QED
  BY <1>1, <1>2, <1>3 DEF Next

LEMMA BurnInit == Init => BurnInv
<1> SUFFICES ASSUME Init PROVE BurnInv
  OBVIOUS
<1>1. Nonce(Issuer) = 0 /\ InsUpTo(Issuer, Nonce(Issuer)) = {}
  BY DEF Init, Nonce, InsUpTo, Accounts
<1>2. Claimed = {}
  BY DEF Init, Claimed, NotesFor
<1>3. Cardinality({}) = 0
  BY FS_EmptySet
<1>4. BurnShape
  BY DEF Init, BurnShape, NoCall, SecondStep
<1> QED
  BY <1>1, <1>2, <1>3, <1>4 DEF BurnInv

\* The burns that burn_tokens has reported as done are no more than the burn
\* notes that the issuer has redeemed, whichever call redeemed which note and
\* whatever was retried after a lost answer.
THEOREM BurnsCounted == Spec => []BurnsNeverOvercounted
<1>1. Init => IBurn
  BY TypeInvInit, StoreInvInit, NoteInvInit, FundsInit, BurnInit DEF IBurn, IFunds, INote, IStore
<1>2. IBurn /\ [Next]_vars => IBurn'
  BY TypeInvNext, StoreInvNext, NoteInvNext, FundsNext, BurnNext DEF IBurn, IFunds, INote, IStore
<1>3. IBurn => BurnsNeverOvercounted
  <2> SUFFICES ASSUME IBurn PROVE BurnsNeverOvercounted
    OBVIOUS
  <2>1. /\ TypeInv /\ NotesFor(Issuer, acked) \subseteq Claimed
        /\ Cardinality(Claimed) <= Cardinality(Redeemed)
    BY DEF IBurn, IFunds, INote, IStore, Claimed, BurnInv, Redeemed
  <2>2. /\ Cardinality(NotesFor(Issuer, acked)) <= Cardinality(Claimed)
        /\ Cardinality(NotesFor(Issuer, acked)) \in Nat /\ Cardinality(Claimed) \in Nat
        /\ Cardinality(Redeemed) \in Nat
    BY <2>1, BurnSetsFinite, FS_Subset, FS_CardinalityType
  <2> QED
    BY <2>1, <2>2 DEF BurnsNeverOvercounted, Redeemed
<1> QED
  BY <1>1, <1>2, <1>3, PTL DEF Spec
=============================================================================
