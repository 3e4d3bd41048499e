------------------------------ MODULE TokenHolders ------------------------------
(***************************************************************************)
(* Lists of the holders of a token at a block: requested by                   *)
(* app/routers/issuer/token_holders.py, and computed from the events of the   *)
(* token and of its exchange by batch/indexer_token_holders.py.              *)
(***************************************************************************)
EXTENDS Integers, Sequences, FiniteSets, SequencesExt, FiniteSetsExt, Functions

CONSTANTS
    Accounts,
    Owner,              \* issuer of the token
    Exchanges,
    FirstExchange,
    ExchangeChanges,    \* the issuer may set another exchange
    StatusFaults,       \* the statement that records a failure may fail as well
    LotSize,            \* INDEXER_BLOCK_LOT_MAX_SIZE
    Supply,             \* units the token is issued with
    MaxBlock,           \* bound on the blocks, each of one event
    MaxLists,           \* bound on the requests
    MaxFaults           \* bound on failures

TokenHoldersAssumption ==
    /\ Owner \in Accounts /\ IsFiniteSet(Exchanges) /\ FirstExchange \in Exchanges
    /\ LotSize \in Nat \ {0}
    /\ ExchangeChanges \in BOOLEAN /\ StatusFaults \in BOOLEAN
    /\ {Supply, MaxBlock, MaxLists, MaxFaults} \subseteq Nat

VARIABLES
    log,        \* event of every block
    wallet,     \* units of an account, neither locked nor deposited
    deposit,    \* units an account has on an exchange
    locked,     \* units of an account that are locked
    true,       \* of every block, what the accounts held after it
    exchange,   \* exchange of the token
    lists,      \* table token_holders_list in the order of id
    holders,    \* table token_holder: of each list, the rows of its accounts
    pc,         \* of the batch: "idle", "start", "lots" or "fail"
    target,     \* list it computes
    from,       \* first block that is not in the book
    book,       \* balance book, with zero for an account without a page
    draft,      \* rows that are not committed
    events,     \* exchange contract whose events are read
    faults      \* number of failures

chain == <<log, wallet, deposit, locked, true, exchange>>
db == <<lists, holders>>
local == <<target, from, book, draft, events>>
vars == <<chain, db, pc, local, faults>>

NoUnits == [hold |-> 0, locked |-> 0]
NoBook == [a \in Accounts |-> NoUnits]
NoRows == [a \in {} |-> NoUnits]

Init ==
    /\ log = <<>> /\ wallet = [a \in Accounts |-> IF a = Owner THEN Supply ELSE 0]
    /\ deposit = [a \in Accounts |-> [x \in Exchanges |-> 0]] /\ locked = [a \in Accounts |-> 0]
    /\ true = <<>> /\ exchange = FirstExchange
    /\ lists = <<>> /\ holders = <<>> /\ pc = "idle" /\ target = 0 /\ from = 0
    /\ book = NoBook /\ draft = NoRows /\ events = FirstExchange /\ faults = 0

-----------------------------------------------------------------------------
(* Chain: one unit is moved by an event of the token or of an exchange.      *)

Moved(f, a, n) == [f EXCEPT ![a] = @ + n]
Pass(f, a, b) == Moved(Moved(f, a, -1), b, 1)
Held(w, d, l) ==
    [a \in Accounts |->
       [hold |-> w[a] + SumFunction(d[a]), locked |-> l[a]]]

Block(event, w, d, l) ==
    /\ Len(log) < MaxBlock /\ log' = Append(log, event)
    /\ wallet' = w /\ deposit' = d /\ locked' = l /\ true' = Append(true, Held(w, d, l))
    /\ UNCHANGED <<exchange, db, pc, local, faults>>

Event(type, a, b, x) == [type |-> type, from |-> a, to |-> b, exchange |-> x]
OfToken(type, a, b) == Event(type, a, b, FirstExchange)

Transfer(a, b) == wallet[a] > 0 /\ Block(OfToken("Transfer", a, b), Pass(wallet, a, b), deposit, locked)
Issue(a) == Block(OfToken("Issue", a, a), Moved(wallet, a, 1), deposit, locked)
Redeem(a) == wallet[a] > 0 /\ Block(OfToken("Redeem", a, a), Moved(wallet, a, -1), deposit, locked)
Lock(a, type) == wallet[a] > 0 /\ Block(OfToken(type, a, a), Moved(wallet, a, -1), deposit, Moved(locked, a, 1))
Unlock(a, b, type) ==
    locked[a] > 0 /\ Block(OfToken(type, a, b), Moved(wallet, b, 1), deposit, Moved(locked, a, -1))
ForceChangeLockedAccount(a, b) ==
    locked[a] > 0 /\ Block(OfToken("ForceChangeLockedAccount", a, b), wallet, deposit, Pass(locked, a, b))

\* To an exchange, from it, and on it.
Deposit(a, x) ==
    /\ wallet[a] > 0 /\ x = exchange
    /\ Block(Event("Deposit", a, a, x), Moved(wallet, a, -1), [deposit EXCEPT ![a][x] = @ + 1], locked)
Withdraw(a, x) ==
    /\ deposit[a][x] > 0
    /\ Block(Event("Withdrawal", a, a, x), Moved(wallet, a, 1), [deposit EXCEPT ![a][x] = @ - 1], locked)
HolderChanged(a, b, x) ==
    /\ deposit[a][x] > 0
    /\ Block(Event("HolderChanged", a, b, x), wallet,
             [deposit EXCEPT ![a][x] = @ - 1, ![b][x] = @ + 1], locked)

SetExchange ==
    /\ ExchangeChanges /\ \E x \in Exchanges \ {exchange} : exchange' = x
    /\ UNCHANGED <<log, wallet, deposit, locked, true, db, pc, local, faults>>

ChainStep ==
    \/ \E a \in Accounts : Issue(a) \/ Redeem(a) \/ Lock(a, "Lock") \/ Lock(a, "ForceLock")
    \/ \E a, b \in Accounts :
          a # b /\ (Transfer(a, b) \/ ForceChangeLockedAccount(a, b)
                    \/ \E x \in Exchanges : HolderChanged(a, b, x))
    \/ \E a, b \in Accounts : Unlock(a, b, "Unlock") \/ Unlock(a, b, "ForceUnlock")
    \/ \E a \in Accounts, x \in Exchanges : Deposit(a, x) \/ Withdraw(a, x)
    \/ SetExchange

-----------------------------------------------------------------------------
(* API.                                                                    *)

\* A list of the block that has not failed is returned instead of a new one.
CreateTokenHoldersCollection(block) ==
    /\ Len(lists) < MaxLists /\ block <= Len(log)
    /\ \A i \in DOMAIN lists : lists[i].block = block => lists[i].status = "failed"
    /\ lists' = Append(lists, [block |-> block, status |-> "pending"])
    /\ holders' = Append(holders, NoRows)
    /\ UNCHANGED <<chain, pc, local, faults>>

-----------------------------------------------------------------------------
(* Batch.                                                                  *)

\* Any list that is pending, and the exchange the token has now.
LoadTarget ==
    /\ pc = "idle" /\ pc' = "start" /\ events' = exchange
    /\ \E i \in {j \in DOMAIN lists : lists[j].status = "pending"} : target' = i
    /\ UNCHANGED <<chain, db, from, book, draft, faults>>

\* Mutant: the block of the checkpoint is read again.
LoadCheckpoint_SameBlock ==
    /\ pc = "start" /\ pc' = "lots"
    /\ LET done == {i \in DOMAIN lists : lists[i].status = "done" /\ lists[i].block < lists[target].block}
       IN  IF done = {}
           THEN from' = 0 /\ UNCHANGED book
           ELSE LET last == CHOOSE i \in done : \A j \in done : lists[j].block <= lists[i].block
                IN  /\ from' = lists[last].block
                    /\ book' = [a \in Accounts |->
                          IF a \notin DOMAIN holders[last] THEN book[a]
                          ELSE [hold |-> book[a].hold + holders[last][a].hold,
                                locked |-> book[a].locked + holders[last][a].locked]]
    /\ UNCHANGED <<chain, db, target, draft, events, faults>>

\* The newest list of an earlier block is added to the book; the rest is read from the
\* block after it.
LoadCheckpoint ==
    /\ pc = "start" /\ pc' = "lots"
    /\ LET done == {i \in DOMAIN lists : lists[i].status = "done" /\ lists[i].block < lists[target].block}
       IN  IF done = {}
           THEN from' = 0 /\ UNCHANGED book
           ELSE LET last == CHOOSE i \in done : \A j \in done : lists[j].block <= lists[i].block
                IN  /\ from' = lists[last].block + 1
                    /\ book' = [a \in Accounts |->
                          IF a \notin DOMAIN holders[last] THEN book[a]
                          ELSE [hold |-> book[a].hold + holders[last][a].hold,
                                locked |-> book[a].locked + holders[last][a].locked]]
    /\ UNCHANGED <<chain, db, target, draft, events, faults>>

\* What the events of a lot add to an account, type by type; deposits and withdrawals
\* are skipped, and of the exchanges one is read.
EventsOf(type, first, last) == {n \in first..last : n \in DOMAIN log /\ log[n].type = type}
Out(type, a, first, last) == Cardinality({n \in EventsOf(type, first, last) : log[n].from = a})
In(type, a, first, last) == Cardinality({n \in EventsOf(type, first, last) : log[n].to = a})
OnExchange(type, x, first, last) == {n \in EventsOf(type, first, last) : log[n].exchange = x}

ProcessTransfer(a, m, n) ==
    LET changed == OnExchange("HolderChanged", events, m, n)
    IN  In("Transfer", a, m, n) - Out("Transfer", a, m, n)
        + Cardinality({i \in changed : log[i].to = a}) - Cardinality({i \in changed : log[i].from = a})
ProcessIssue(a, m, n) == In("Issue", a, m, n)
ProcessRedeem(a, m, n) == Out("Redeem", a, m, n)
ProcessLock(a, m, n) == Out("Lock", a, m, n)
ProcessForceLock(a, m, n) == Out("ForceLock", a, m, n)

\* Of an unlocking event: what leaves the locked units of one, and goes to another.
ProcessUnlock(a, m, n) == [out |-> Out("Unlock", a, m, n), in |-> In("Unlock", a, m, n)]
ProcessForceUnlock(a, m, n) == [out |-> Out("ForceUnlock", a, m, n), in |-> In("ForceUnlock", a, m, n)]
ProcessForceChangeLockedAccount(a, m, n) ==
    In("ForceChangeLockedAccount", a, m, n) - Out("ForceChangeLockedAccount", a, m, n)

Stored(a, m, n) ==
    LET lock == ProcessLock(a, m, n) + ProcessForceLock(a, m, n)
        unlock == ProcessUnlock(a, m, n)
        force == ProcessForceUnlock(a, m, n)
    IN  [hold |-> book[a].hold + ProcessTransfer(a, m, n) + ProcessIssue(a, m, n)
                  - ProcessRedeem(a, m, n) - lock + unlock.in + force.in,
         locked |-> book[a].locked + lock - unlock.out - force.out
                    + ProcessForceChangeLockedAccount(a, m, n)]

\* Rows of the accounts in the book except the issuer's: the ones that are there, and
\* those with a balance.
SaveHolders(b) ==
    LET new == {a \in Accounts \ {Owner} : b[a].hold > 0 \/ b[a].locked > 0}
    IN  [a \in DOMAIN draft \cup new |-> b[a]]

NextLot == from..Min({from + LotSize - 1, lists[target].block})

ProcessAll ==
    /\ pc = "lots" /\ from <= lists[target].block
    /\ LET b == [a \in Accounts |-> Stored(a, from, Max(NextLot))]
       IN  book' = b /\ draft' = SaveHolders(b)
    /\ from' = Max(NextLot) + 1
    /\ UNCHANGED <<chain, db, pc, target, events, faults>>

Reset == target' = 0 /\ from' = 0 /\ book' = NoBook /\ draft' = NoRows /\ UNCHANGED events

\* Accounts that hold nothing are left out; rows and status in one commit.
UpdateStatusDone ==
    /\ pc = "lots" /\ from > lists[target].block /\ pc' = "idle"
    /\ holders' = [holders EXCEPT ![target] =
                     [a \in {c \in DOMAIN draft : draft[c] # NoUnits} |-> draft[a]]]
    /\ lists' = [lists EXCEPT ![target].status = "done"]
    /\ Reset /\ UNCHANGED <<chain, faults>>

\* The chain or the database fails: what was not committed is rolled back.
CollectFails ==
    /\ pc \in {"start", "lots"} /\ pc' = "fail" /\ faults < MaxFaults /\ faults' = faults + 1
    /\ draft' = NoRows /\ UNCHANGED <<chain, db, target, from, book, events>>

UpdateStatusFailed ==
    /\ pc = "fail" /\ pc' = "idle" /\ lists' = [lists EXCEPT ![target].status = "failed"]
    /\ Reset /\ UNCHANGED <<chain, holders, faults>>

\* The status cannot be written: the list stays pending, and the book is kept.
UpdateStatusFails ==
    /\ pc = "fail" /\ StatusFaults /\ pc' = "idle" /\ target' = 0 /\ from' = 0
    /\ UNCHANGED <<chain, db, book, draft, events, faults>>

\* The container ends and starts the process again.
Crash ==
    /\ pc # "idle" /\ pc' = "idle" /\ faults < MaxFaults /\ faults' = faults + 1
    /\ Reset /\ UNCHANGED <<chain, db>>

Collect == LoadTarget \/ LoadCheckpoint \/ ProcessAll \/ UpdateStatusDone \/ UpdateStatusFailed

Next ==
    \/ ChainStep \/ \E block \in 1..MaxBlock : CreateTokenHoldersCollection(block)
    \/ Collect \/ CollectFails \/ UpdateStatusFails \/ Crash

Spec == Init /\ [][Next]_vars

-----------------------------------------------------------------------------
(* Queries.                                                                *)

ListAllTokenHoldersCollections == lists
RetrieveTokenHoldersCollection(i) == [status |-> lists[i].status, holders |-> holders[i]]

-----------------------------------------------------------------------------
(* Properties.                                                             *)

\* Every variable keeps its type; between two collections nothing is left of a book,
\* unless a status could not be written.
TypeOK ==
    /\ \A i \in DOMAIN lists : lists[i].block \in 1..Len(log) /\ lists[i].status \in {"pending", "done", "failed"}
    /\ Len(holders) = Len(lists) /\ Len(true) = Len(log) /\ exchange \in Exchanges /\ events \in Exchanges
    /\ (pc = "idle") = (target = 0) /\ (pc # "idle" => lists[target].status = "pending")
    /\ (pc = "idle" /\ ~StatusFaults => book = NoBook /\ draft = NoRows)
    /\ \A i \in DOMAIN lists : lists[i].status # "done" => holders[i] = NoRows

\* A list that is done shows the accounts other than the issuer that held units at its
\* block, with what they held, wherever the computation started and whatever the order
\* of the lists, the lots and the failures.
ListIsTrue ==
    \A i \in DOMAIN ListAllTokenHoldersCollections :
       LET shown == RetrieveTokenHoldersCollection(i)
           held == true[lists[i].block]
       IN  shown.status = "done" =>
             /\ DOMAIN shown.holders = {a \in Accounts \ {Owner} : held[a] # NoUnits}
             /\ \A a \in DOMAIN shown.holders : shown.holders[a] = held[a]

Settled(i) == i \in DOMAIN lists /\ lists[i].status # "pending"
=============================================================================
