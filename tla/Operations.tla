----------------------------- MODULE Operations -----------------------------
(***************************************************************************)
(* The token operations of integration/src/operations.rs, called by        *)
(* processes that each open a client on a local store, against a Miden     *)
(* node that accepts transactions and puts them in blocks later.           *)
(*                                                                         *)
(* An account's state on the node is its log: the transactions accepted    *)
(* for it, in order.  The length of the log is the account's nonce, and a  *)
(* state of the account is named by its nonce.                             *)
(*                                                                         *)
(*     local[a]   the state the store of a's home knows                    *)
(*     committed[a]  the state in the latest block                         *)
(*     Len(log[a])   the state the node has accepted                       *)
(*                                                                         *)
(* submit_new_transaction is cut where another process, the node or a      *)
(* failure can come in between: execute on the local state (with the       *)
(* keystore's signature), submit, apply to the store.                      *)
(***************************************************************************)
EXTENDS Notes, Sequences

CONSTANTS
    Procs,        \* processes, each with its own Client
    Stores,       \* local stores (store.sqlite3)
    StoreOf,      \* the store a process's client opens
    Home,         \* the store that tracks an account
    Public,       \* accounts whose full state is on the node
    MaxSupply,    \* maximum supply of the issuer
    MaxAttempts,  \* max_attempts of the polling loops (120 in the code)
    Faults        \* failures of this run: "signer", "rpc", "ack", "crash",
                  \* "convert"

ASSUME OperationsAssumption ==
    /\ StoreOf \in [Procs -> Stores]
    /\ Home \in [Accounts -> Stores]
    /\ Issuer \in Public
    /\ Public \subseteq Accounts
    /\ MaxSupply \in Nat
    /\ MaxAttempts \in Nat \ {0}
    /\ Faults \subseteq {"signer", "rpc", "ack", "crash", "convert"}

VARIABLES
    log,         \* node: transactions accepted, per account
    committed,   \* node: how many of them are in a block
    local,       \* stores: nonce of the state known for each account
    expected,    \* stores: notes known from their creation, not seen in a block
    consumable,  \* stores: notes seen in a block and not consumed
    spending,    \* stores: notes with a consuming transaction of the store,
                 \* or seen to be consumed in a block
    serial,      \* ids handed out by the processes' rng
    pc, call, tx, attempt,  \* processes: step, arguments, request, loop count
    acked        \* history: output notes of the calls that returned Ok

nodeVars  == <<log, committed>>
storeVars == <<local, expected, consumable, spending>>
procVars  == <<pc, call, tx, attempt>>
vars      == <<nodeVars, storeVars, procVars, serial, acked>>

Steps   == {"execute", "submit", "apply", "sync", "list", "collect"}
Results == {"idle", "ok", "err"}
Ops     == {"none", "mint", "transfer", "burn", "consume", "sync"}

Effects  == [ins : SUBSET NoteSet, outs : SUBSET NoteSet]
Requests == [acct : Accounts, nonce : Nat,
             ins : SUBSET NoteSet, outs : SUBSET NoteSet]
Calls    == [op : Ops, acct : Accounts, outs : SUBSET NoteSet]

NoCall == [op |-> "none", acct |-> Issuer, outs |-> {}]
NoTx   == [acct |-> Issuer, nonce |-> 0, ins |-> {}, outs |-> {}]

-----------------------------------------------------------------------------
(* The node's state *)

Nonce(a) == Len(log[a])

InsUpTo(a, k)  == UNION {log[a][i].ins  : i \in 1 .. k}
OutsUpTo(a, k) == UNION {log[a][i].outs : i \in 1 .. k}

Created   == UNION {OutsUpTo(a, Nonce(a)) : a \in Accounts}
Nullified == UNION {InsUpTo(a, Nonce(a))  : a \in Accounts}
InBlock   == UNION {OutsUpTo(a, committed[a]) : a \in Accounts}
Spent     == UNION {InsUpTo(a, committed[a])  : a \in Accounts}

\* The vault of wallet w, and the faucet's issuance slot, at nonce k.
BalanceAt(w, k) == Value(InsUpTo(w, k)) - Value(OutsUpTo(w, k))
IssuanceAt(k)   == Value(OutsUpTo(Issuer, k)) - Value(InsUpTo(Issuer, k))

-----------------------------------------------------------------------------
(* Reads of the local store, read_balance and read_total_supply: the Full   *)
(* record of the account, as of the last sync or local transaction.         *)

\* (mutant: adds all the notes of the account in the store, not its
\* consumable ones, to the vault)
ReadBalance_WithNotes(w) ==
    BalanceAt(w, local[w]) + Value(NotesFor(w, expected \cup consumable \cup spending))

ReadBalance(w) == BalanceAt(w, local[w])
ReadTotalSupply == IssuanceAt(local[Issuer])

-----------------------------------------------------------------------------
Tracks(p, a) == Home[a] = StoreOf[p]

Ready(p) == pc[p] \in Results

Goto(p, step) == pc' = [pc EXCEPT ![p] = step]

\* The call of p returns Ok, or leaves with `?` or bail!.
Return(p, result) ==
    /\ pc[p] \in Steps
    /\ Goto(p, result)
    /\ call' = [call EXCEPT ![p] = IF result = "err" THEN @ ELSE NoCall]
    /\ tx' = [tx EXCEPT ![p] = NoTx]
    /\ attempt' = [attempt EXCEPT ![p] = 0]

Succeed(p) ==
    /\ Return(p, "ok")
    /\ acked' = acked \cup call[p].outs

\* (mutant: the error is logged and the call returns Ok)
Fail_Ignored(p) == Succeed(p)

Fail(p) == Return(p, "err") /\ UNCHANGED acked

\* (mutant: the generator is seeded anew for every call)
CreateNote_SameSerial(p, op, acct, target, amount) ==
    LET n == [id |-> 1, target |-> target, amount |-> amount] IN
    /\ Ready(p)
    /\ serial < MaxNotes
    /\ serial' = serial + 1
    /\ call' = [call EXCEPT ![p] = [op |-> op, acct |-> acct, outs |-> {n}]]
    /\ tx' = [tx EXCEPT ![p] = [acct |-> acct, nonce |-> 0,
                                ins |-> {}, outs |-> {n}]]
    /\ Goto(p, "execute")
    /\ UNCHANGED <<nodeVars, storeVars, attempt, acked>>

\* A call that creates a note: its first transaction runs on `acct`.
CreateNote(p, op, acct, target, amount) ==
    LET n == [id |-> serial + 1, target |-> target, amount |-> amount] IN
    /\ Ready(p)
    /\ serial < MaxNotes
    /\ serial' = serial + 1
    /\ call' = [call EXCEPT ![p] = [op |-> op, acct |-> acct, outs |-> {n}]]
    /\ tx' = [tx EXCEPT ![p] = [acct |-> acct, nonce |-> 0,
                                ins |-> {}, outs |-> {n}]]
    /\ Goto(p, "execute")
    /\ UNCHANGED <<nodeVars, storeVars, attempt, acked>>

MintTokens(p, target, amount) ==
    CreateNote(p, "mint", Issuer, target, amount)

TransferTokens(p, sender, recipient, amount) ==
    CreateNote(p, "transfer", sender, recipient, amount)

\* The code does not stop the issuer from being the sender.
BurnTokens(p, sender, amount) ==
    CreateNote(p, "burn", sender, Issuer, amount)

Poll(p, op, acct) ==
    /\ Ready(p)
    /\ call' = [call EXCEPT ![p] = [op |-> op, acct |-> acct, outs |-> {}]]
    /\ attempt' = [attempt EXCEPT ![p] = 1]
    /\ Goto(p, "sync")
    /\ UNCHANGED <<nodeVars, storeVars, tx, serial, acked>>

ConsumeNotes(p, acct) == Poll(p, "consume", acct)

SyncAndTrack(p) == Poll(p, "sync", Issuer)

-----------------------------------------------------------------------------
(* submit_new_transaction *)

\* What the kernel checks when it executes on the account's state k.
Affordable(t, k) ==
    IF t.acct = Issuer THEN IssuanceAt(k) + Value(t.outs) <= MaxSupply
                       ELSE Value(t.outs) <= BalanceAt(t.acct, k)

Executable(p) == Tracks(p, tx[p].acct) /\ Affordable(tx[p], local[tx[p].acct])

\* The request as a transaction on the account state the store knows.
OnLocalState(t) ==
    [acct |-> t.acct, nonce |-> local[t.acct], ins |-> t.ins, outs |-> t.outs]

Execute(p) ==
    /\ pc[p] = "execute"
    /\ Executable(p)
    /\ tx' = [tx EXCEPT ![p] = OnLocalState(@)]
    /\ Goto(p, "submit")
    /\ UNCHANGED <<nodeVars, storeVars, call, attempt, serial, acked>>

ExecuteFails(p) ==
    /\ pc[p] = "execute"
    /\ ~Executable(p)
    /\ Fail(p)
    /\ UNCHANGED <<nodeVars, storeVars, serial>>

\* BraleKeystore::get_signature returns an error during the execution.
SignerFails(p) ==
    /\ "signer" \in Faults
    /\ pc[p] = "execute"
    /\ Fail(p)
    /\ UNCHANGED <<nodeVars, storeVars, serial>>

\* The node takes a transaction on the account's latest state whose input
\* notes have not been nullified.
Acceptable(t) ==
    /\ t.nonce = Nonce(t.acct)
    /\ t.ins \cap Nullified = {}

Accept(t) ==
    log' = [log EXCEPT ![t.acct] = Append(@, [ins |-> t.ins, outs |-> t.outs])]

Submit(p) ==
    /\ pc[p] = "submit"
    /\ Acceptable(tx[p])
    /\ Accept(tx[p])
    /\ Goto(p, "apply")
    /\ UNCHANGED <<committed, storeVars, call, tx, attempt, serial, acked>>

\* The node accepts, and the answer is lost: submit_new_transaction returns
\* an error and the store is not updated.
AckLost(p) ==
    /\ "ack" \in Faults
    /\ pc[p] = "submit"
    /\ Acceptable(tx[p])
    /\ Accept(tx[p])
    /\ Fail(p)
    /\ UNCHANGED <<committed, storeVars, serial>>

\* (mutant: the error of submit_new_transaction is not propagated)
Reject_Ignored(p) ==
    /\ pc[p] = "submit"
    /\ ~Acceptable(tx[p])
    /\ Goto(p, "apply")
    /\ UNCHANGED <<nodeVars, storeVars, call, tx, attempt, serial, acked>>

Reject(p) ==
    /\ pc[p] = "submit"
    /\ ~Acceptable(tx[p])
    /\ Fail(p)
    /\ UNCHANGED <<nodeVars, storeVars, serial>>

\* A remote call fails with no effect on the node.
RpcFails(p) ==
    /\ "rpc" \in Faults
    /\ pc[p] \in {"submit", "sync"}
    /\ Fail(p)
    /\ UNCHANGED <<nodeVars, storeVars, serial>>

Later(j, k) == IF j < k THEN k ELSE j

\* The store records the accepted transaction: the new account state unless
\* it already knows a later one, the output notes for accounts it tracks, the
\* input notes as being consumed.
StoreTransaction(p, t) ==
    /\ local' = [local EXCEPT ![t.acct] = Later(@, t.nonce + 1)]
    /\ expected' = expected \cup
           {n \in t.outs : Tracks(p, n.target) /\ n \notin consumable \cup spending}
    /\ consumable' = consumable \ t.ins
    /\ spending' = spending \cup t.ins

\* (mutant: the burn is done when the burn note is created)
HasSecondStep_Never(p) == FALSE

\* burn_tokens has a second transaction to make once the first is submitted.
HasSecondStep(p) == call[p].op = "burn" /\ tx[p].outs # {}

Apply(p) ==
    /\ pc[p] = "apply"
    /\ StoreTransaction(p, tx[p])
    /\ IF HasSecondStep(p)
       THEN /\ Goto(p, "sync")
            /\ tx' = [tx EXCEPT ![p] = NoTx]
            /\ attempt' = [attempt EXCEPT ![p] = 1]
            /\ UNCHANGED <<call, acked>>
       ELSE Succeed(p)
    /\ UNCHANGED <<nodeVars, serial>>

-----------------------------------------------------------------------------
(* sync_state and the polling loops *)

\* Notes of the blocks that the store of p learns: those it expected, and
\* public notes addressed to an account it tracks.
Discovered(p) ==
    {n \in InBlock : /\ Tracks(p, n.target)
                     /\ n \in expected \/ IsBurnNote(n)
                     /\ n \notin spending \cup Spent}

\* Notes of the store that it finds nullified in a block.
Consumed(p) == {n \in consumable \cap Spent : Tracks(p, n.target)}

\* A private account's state is on the node only as a commitment.
SyncState(p) ==
    /\ local' = [a \in Accounts |->
           IF Tracks(p, a) /\ a \in Public THEN Later(local[a], committed[a])
                                           ELSE local[a]]
    /\ expected' = {n \in expected : ~(Tracks(p, n.target) /\ n \in InBlock)}
    /\ consumable' = (consumable \ Consumed(p)) \cup Discovered(p)
    /\ spending' = spending \cup Consumed(p)

\* A call of sync_and_track is over; a polling loop goes on.
Sync(p) ==
    /\ pc[p] = "sync"
    /\ SyncState(p)
    /\ IF call[p].op = "sync"
       THEN Succeed(p)
       ELSE Goto(p, "list") /\ UNCHANGED <<call, tx, attempt, acked>>
    /\ UNCHANGED <<nodeVars, serial>>

\* (mutant: the notes of the issuer, also for consume_notes)
Poller_Issuer(p) == Issuer

\* Whose notes the loop waits for.
Poller(p) == IF call[p].op = "burn" THEN Issuer ELSE call[p].acct

\* (mutant: get_consumable_notes(None))
Consumable_AnyAccount(p) == {n \in consumable : Tracks(p, n.target)}

\* get_consumable_notes(Some(poller)): all notes of the account, whoever
\* created them.
Consumable(p) ==
    {n \in consumable : n.target = Poller(p) /\ Tracks(p, n.target)}

ListFinds(p) ==
    /\ pc[p] = "list"
    /\ Consumable(p) # {}
    /\ Goto(p, "collect")
    /\ attempt' = [attempt EXCEPT ![p] = 0]
    /\ UNCHANGED <<nodeVars, storeVars, call, tx, serial, acked>>

\* (mutant: one attempt too many)
ListEmpty_OneMore(p) ==
    /\ pc[p] = "list"
    /\ Consumable(p) = {}
    /\ attempt[p] <= MaxAttempts
    /\ attempt' = [attempt EXCEPT ![p] = @ + 1]
    /\ Goto(p, "sync")
    /\ UNCHANGED <<nodeVars, storeVars, call, tx, serial, acked>>

\* (mutant: a loop without a bound)
ListEmpty_Forever(p) ==
    /\ pc[p] = "list"
    /\ Consumable(p) = {}
    /\ Goto(p, "sync")
    /\ UNCHANGED <<nodeVars, storeVars, call, tx, attempt, serial, acked>>

ListEmpty(p) ==
    /\ pc[p] = "list"
    /\ Consumable(p) = {}
    /\ attempt[p] < MaxAttempts
    /\ attempt' = [attempt EXCEPT ![p] = @ + 1]
    /\ Goto(p, "sync")
    /\ UNCHANGED <<nodeVars, storeVars, call, tx, serial, acked>>

GiveUp(p) ==
    /\ pc[p] = "list"
    /\ Consumable(p) = {}
    /\ attempt[p] = MaxAttempts
    /\ Fail(p)
    /\ UNCHANGED <<nodeVars, storeVars, serial>>

\* record.try_into().ok(): records that cannot be made into notes are dropped.
Converted(p) ==
    IF "convert" \in Faults THEN SUBSET Consumable(p) ELSE {Consumable(p)}

\* The notes are listed a second time after the loop, and all of them that
\* can be converted go into one transaction.
Collect(p) ==
    /\ pc[p] = "collect"
    /\ \E notes \in Converted(p) \ {{}} :
           tx' = [tx EXCEPT ![p] = [acct |-> Poller(p), nonce |-> 0,
                                    ins |-> notes, outs |-> {}]]
    /\ Goto(p, "execute")
    /\ UNCHANGED <<nodeVars, storeVars, call, attempt, serial, acked>>

\* Nothing is left the second time: the transaction is refused as empty.
CollectEmpty(p) ==
    /\ pc[p] = "collect"
    /\ {} \in Converted(p)
    /\ Fail(p)
    /\ UNCHANGED <<nodeVars, storeVars, serial>>

-----------------------------------------------------------------------------
\* The process dies; what it had in memory is gone, its store remains.
Crash(p) ==
    /\ "crash" \in Faults
    /\ Return(p, "idle")
    /\ UNCHANGED <<nodeVars, storeVars, serial, acked>>

\* The node puts the next accepted transaction of an account into a block.
Include(a) ==
    /\ committed[a] < Nonce(a)
    /\ committed' = [committed EXCEPT ![a] = @ + 1]
    /\ UNCHANGED <<log, storeVars, procVars, serial, acked>>

Init ==
    /\ log = [a \in Accounts |-> <<>>]
    /\ committed = [a \in Accounts |-> 0]
    /\ local = [a \in Accounts |-> 0]
    /\ expected = {}
    /\ consumable = {}
    /\ spending = {}
    /\ serial = 0
    /\ pc = [p \in Procs |-> "idle"]
    /\ call = [p \in Procs |-> NoCall]
    /\ tx = [p \in Procs |-> NoTx]
    /\ attempt = [p \in Procs |-> 0]
    /\ acked = {}

StartCall(p) ==
    \/ \E w \in Wallets, m \in Amounts : MintTokens(p, w, m)
    \/ \E w, v \in Wallets, m \in Amounts : TransferTokens(p, w, v, m)
    \/ \E a \in Accounts, m \in Amounts : BurnTokens(p, a, m)
    \/ \E a \in Accounts : ConsumeNotes(p, a)
    \/ SyncAndTrack(p)

\* A call goes on by itself until it returns.
StepCall(p) ==
    \/ Execute(p)   \/ ExecuteFails(p)
    \/ Submit(p)    \/ Reject(p)
    \/ Apply(p)
    \/ Sync(p)
    \/ ListFinds(p) \/ ListEmpty(p)    \/ GiveUp(p)
    \/ Collect(p)   \/ CollectEmpty(p)

Disturb(p) == SignerFails(p) \/ AckLost(p) \/ RpcFails(p) \/ Crash(p)

Next ==
    \/ \E p \in Procs : StartCall(p) \/ StepCall(p) \/ Disturb(p)
    \/ \E a \in Accounts : Include(a)

Spec == Init /\ [][Next]_vars

\* A tokio runtime keeps running a call that has been started.
CallFairness == \A p \in Procs : WF_vars(StepCall(p))

FairSpec == Spec /\ CallFairness

\* The node goes on making blocks, and the owners of the wallets ask for
\* their notes again and again.
CollectingSpec ==
    /\ FairSpec
    /\ \A a \in Accounts : WF_vars(Include(a))
    /\ \A p \in Procs, w \in Wallets : SF_vars(ConsumeNotes(p, w))

-----------------------------------------------------------------------------
(* Properties *)

\* Every variable has the values the code gives it; a process that executes
\* or submits has a request, one in a polling loop counts its attempts.
TypeOK ==
    /\ log \in [Accounts -> Seq(Effects)]
    /\ committed \in [Accounts -> Nat]
    /\ local \in [Accounts -> Nat]
    /\ expected \subseteq NoteSet
    /\ consumable \subseteq NoteSet
    /\ spending \subseteq NoteSet
    /\ serial \in 0 .. MaxNotes
    /\ pc \in [Procs -> Steps \cup Results]
    /\ call \in [Procs -> Calls]
    /\ tx \in [Procs -> Requests]
    /\ attempt \in [Procs -> 0 .. MaxAttempts]
    /\ acked \subseteq NoteSet

\* The store of an account never runs ahead of the node, nor does a block:
\* submit_new_transaction updates the store only for a transaction the node
\* accepted, and what a failed or crashed call had in memory never reaches
\* it.  A note the store records exists on the node, one it offers for
\* consumption is in a block, and its record is in one state at a time even
\* when two processes write to the store.
StoreBehindChain ==
    /\ \A a \in Accounts : committed[a] <= Nonce(a) /\ local[a] <= Nonce(a)
    /\ expected \cup consumable \cup spending \subseteq Created
    /\ consumable \cup spending \subseteq InBlock
    /\ expected \cap consumable = {}
    /\ expected \cap spending = {}
    /\ consumable \cap spending = {}

\* What makes StoreBehindChain inductive: the request of a process only has
\* inputs the stores have seen in a block, and by the time the process
\* writes to its store the request is a transaction of the node.
InputsSeen == \A p \in Procs : tx[p].ins \subseteq consumable \cup spending

AppliedIsAccepted ==
    \A p \in Procs : pc[p] = "apply" =>
        /\ tx[p].nonce < Nonce(tx[p].acct)
        /\ tx[p].outs \subseteq Created

StoreInv == StoreBehindChain /\ InputsSeen /\ AppliedIsAccepted

ConsumedOnce ==
    \A a, b \in Accounts : \A i \in 1 .. Nonce(a), j \in 1 .. Nonce(b) :
        \/ a = b /\ i = j
        \/ log[a][i].ins \cap log[b][j].ins = {}

CreatedOnce ==
    \A a, b \in Accounts : \A i \in 1 .. Nonce(a), j \in 1 .. Nonce(b) :
        \/ a = b /\ i = j
        \/ \A m \in log[a][i].outs, n \in log[b][j].outs : m.id # n.id

ConsumedByTarget ==
    \A a \in Accounts : \A i \in 1 .. Nonce(a) : \A n \in log[a][i].ins : n.target = a

\* Notes are created once and consumed at most once, by the account they
\* are addressed to and after their creation is in a block, although the
\* polling loops hand every consumable note of the account to whichever
\* process asks first.
NoteDiscipline ==
    ConsumedOnce /\ CreatedOnce /\ ConsumedByTarget /\ Nullified \subseteq InBlock

\* What makes NoteDiscipline inductive: requests have inputs of their
\* account only, and the notes they are to create bear ids that are handed
\* out and used nowhere else.
InputsOfAccount == \A p \in Procs : \A n \in tx[p].ins : n.target = tx[p].acct

Unsent(p) == pc[p] \in {"execute", "submit"}

SerialsFresh ==
    /\ \A n \in Created : n.id <= serial
    /\ \A p \in Procs : Unsent(p) => \A n \in tx[p].outs :
           n.id <= serial /\ \A m \in Created : m.id # n.id
    /\ \A p, q \in Procs : Unsent(p) /\ Unsent(q) /\ p # q =>
           \A n \in tx[p].outs, m \in tx[q].outs : n.id # m.id

NoteInv == NoteDiscipline /\ InputsOfAccount /\ SerialsFresh

\* Money is neither made nor lost between the faucet, the vaults and the
\* notes in flight; the cap and the balances hold on the node although
\* mint, transfer and burn check them against the local state, which a
\* lost answer or another process leaves behind the node's.
SupplySound ==
    LET Supply == IssuanceAt(Nonce(Issuer))
        Held   == SumFunction([w \in Wallets |-> BalanceAt(w, Nonce(w))])
    IN /\ Supply = Held + Value(Created \ Nullified)
       /\ Supply <= MaxSupply
       /\ \A w \in Wallets : BalanceAt(w, Nonce(w)) >= 0

\* What makes SupplySound inductive: a request on its way to the node can be
\* paid from the state it names, as can all that the node has accepted, and
\* it either creates one note or consumes some.
SubmitsAffordable ==
    \A p \in Procs : pc[p] = "submit" =>
        /\ tx[p].nonce <= Nonce(tx[p].acct)
        /\ Affordable(tx[p], tx[p].nonce)

FundsHold ==
    /\ \A k \in 0 .. Nonce(Issuer) : IssuanceAt(k) <= MaxSupply
    /\ \A w \in Wallets : \A k \in 0 .. Nonce(w) : BalanceAt(w, k) >= 0

OneEffect(t) ==
    \/ t.ins = {} /\ \E n \in NoteSet : t.outs = {n}
    \/ t.outs = {} /\ t.ins # {}

RequestShape ==
    \A p \in Procs : pc[p] \in {"execute", "submit", "apply"} => OneEffect(tx[p])

FundsInv == SubmitsAffordable /\ FundsHold /\ RequestShape

Ledger == INSTANCE TokenLedger WITH
    issuance <- IssuanceAt(Nonce(Issuer)),
    balance  <- [w \in Wallets |-> BalanceAt(w, Nonce(w))],
    inFlight <- Created \ Nullified,
    usedIds  <- {n.id : n \in Created}

\* The accepted transactions are steps of the abstract token ledger; all
\* else (polling, blocks, failures, store updates) is invisible to it.
ImplementsLedger == Ledger!LedgerSpec

\* The burns reported as done never outnumber the burn notes redeemed by
\* the issuer: a burn_tokens that returns Ok may have redeemed the note of
\* another call, but it redeemed one that no other call was paid with.
BurnsNeverOvercounted ==
    Cardinality(NotesFor(Issuer, acked)) <= Cardinality(InsUpTo(Issuer, Nonce(Issuer)))

\* What makes BurnsNeverOvercounted inductive: a burn call has one note and
\* its second transaction is the issuer's; the note counts as claimed from
\* the moment the node accepts that transaction.
SecondStep(p) ==
    pc[p] \in {"execute", "submit", "apply"} /\ call[p].op = "burn" /\ tx[p].outs = {}

BurnShape ==
    \A p \in Procs :
        /\ call[p].op = "burn" => \E n \in NoteSet : call[p].outs = {n}
        /\ call[p].op # "burn" => \A n \in call[p].outs : ~IsBurnNote(n)
        /\ SecondStep(p) => tx[p].acct = Issuer

Claimed ==
    NotesFor(Issuer, acked) \cup
    UNION {call[p].outs : p \in {q \in Procs : pc[q] = "apply" /\ SecondStep(q)}}

BurnInv ==
    /\ BurnShape
    /\ Cardinality(Claimed) <= Cardinality(InsUpTo(Issuer, Nonce(Issuer)))

\* The store still has the details of note n, or n has been consumed, if n
\* was sent between accounts of one store.
Recorded == expected \cup consumable \cup spending \cup Nullified

Sent(a) == OutsUpTo(a, Nonce(a))

Recoverable(n) ==
    \A a \in Accounts : n \in Sent(a) /\ Home[n.target] = Home[a] => n \in Recorded

\* A payment whose call returned Ok, between accounts of one store, is not
\* lost: the private note's details are in the store until the note is
\* consumed, whatever fails or dies afterwards.
AckedPaymentRecoverable == \A n \in acked : Recoverable(n)

\* What makes AckedPaymentRecoverable inductive: a process submits and
\* applies for accounts of its own store only, what it applies is sent, and
\* the note of a call is either the one its request is about to create or
\* is recorded already, as in the second half of a burn.
SubmitsFromHome ==
    \A p \in Procs : pc[p] \in {"submit", "apply"} => Tracks(p, tx[p].acct)

AppliedIsSent ==
    \A p \in Procs : pc[p] = "apply" => tx[p].outs \subseteq Sent(tx[p].acct)

FirstStep(p) ==
    pc[p] \in {"execute", "submit", "apply"} /\ call[p].outs = tx[p].outs

CallRecorded ==
    \A p \in Procs : pc[p] \in Steps =>
        \/ FirstStep(p)
        \/ \A n \in call[p].outs : n \in Created /\ Recoverable(n)

PaymentInv ==
    /\ AckedPaymentRecoverable
    /\ acked \subseteq Created
    /\ SubmitsFromHome /\ AppliedIsSent /\ CallRecorded

\* The table print_state shows adds up: the supply read from the store
\* covers the balances read from the same store, though each is as old as
\* the last sync or transaction of its account.
SupplyCoversHoldings ==
    LET held == {w \in Wallets \cap Public : Home[w] = Home[Issuer]} IN
    SumFunction([w \in held |-> ReadBalance(w)]) <= ReadTotalSupply

\* What makes SupplyCoversHoldings inductive: the transaction a process
\* records is the one the node has at its nonce, and a note that a store has
\* on record is one whose sender it has recorded at least as far.
AppliedInLog ==
    \A p \in Procs : pc[p] = "apply" =>
        LET t == tx[p] IN
        /\ t.nonce < Nonce(t.acct)
        /\ log[t.acct][t.nonce + 1] = [ins |-> t.ins, outs |-> t.outs]

Stored == expected \cup consumable \cup spending

StoredFromHome ==
    \A n \in Stored, a \in Accounts :
        n \in Sent(a) => IsBurnNote(n) \/ Home[a] = Home[n.target]

SenderKnown ==
    \A n \in Stored, a \in Public :
        n \in Sent(a) /\ Home[a] = Home[n.target] => n \in OutsUpTo(a, local[a])

CutInv ==
    /\ AppliedInLog /\ StoredFromHome /\ SenderKnown
    /\ Nullified \subseteq consumable \cup spending

\* A call returns, whatever the node, the signer and the other processes do:
\* the polling loops are bounded.
CallsReturn == \A p \in Procs : pc[p] \in Steps ~> Ready(p)

\* A payment to a wallet that its store has on record is credited in the
\* end, if the owner keeps asking: the loops take whatever is there, other
\* processes may win the race for it, answers may be lost, and still no note
\* is left behind.
PaymentsCollected ==
    \A n \in NoteSet :
        n \in acked \cap Recorded /\ ~IsBurnNote(n) ~> n \in Nullified

-----------------------------------------------------------------------------
(* What the documents say and the code does not do *)

\* burn_tokens logs "burned tokens (issuer consumed burn note)" and returns
\* Ok: the burn note the call created has been consumed.
BurnOkMeansRedeemed == NotesFor(Issuer, acked) \subseteq Nullified

\* "Transaction failed during local execution or at the node" when
\* submit_new_transaction returns an error: a call that ends there has no
\* note on the node.
FailedMeansNoEffect ==
    [][\A p \in Procs : pc[p] \in {"execute", "submit"} /\ pc'[p] = "err"
          => call[p].outs \cap Created' = {}]_vars

\* A recipient that syncs discovers the notes sent to it.
RecipientDiscovers ==
    [][\A p \in Procs : pc[p] = "sync" /\ Sync(p) =>
          \A n \in acked \cap InBlock : Tracks(p, n.target) =>
              n \in consumable' \cup spending' \cup Spent]_vars
=============================================================================
