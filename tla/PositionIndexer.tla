---------------------------- MODULE PositionIndexer ----------------------------
(***************************************************************************)
(* The index of positions and locks of one token, and what the API shows of *)
(* it: batch/indexer_position_bond.py and batch/indexer_position_share.py,  *)
(* which differ in the type of the token only.  Events of a range of blocks *)
(* only tell which accounts to look at: what is written is read from the    *)
(* contracts when the handler runs, at the latest block of that moment.     *)
(*                                                                         *)
(* Block k of the chain holds event k.  Every operation moves one unit from *)
(* a place of one account to a place of another or the same account.       *)
(***************************************************************************)
EXTENDS Integers, Sequences, FiniteSets, SequencesExt, FiniteSetsExt, Functions, TLC

CONSTANTS
    Accounts,       \* holders, the issuer among them
    Issuer,         \* issuer of the token
    Exchanges,      \* exchange, escrow and DVP contracts
    NoExchange,     \* zero address as tradable exchange
    Operations,     \* operations that may occur, of OperationNames
    Supply,         \* bound on what is issued to an account, and the first issue
    MaxBlocks,      \* bound on blocks
    Lot,            \* INDEXER_BLOCK_LOT_MAX_SIZE
    MaxAborts,      \* bound on passes that fail and restarts of the process
    Errors          \* TRUE if indexing locks may fail

PositionAssumption ==
    /\ Issuer \in Accounts /\ NoExchange \notin Exchanges
    /\ {Supply, MaxBlocks, MaxAborts} \subseteq Nat
    /\ Lot \in Nat \ {0} /\ Errors \in BOOLEAN

VARIABLES
    chain,      \* units at each place of each account
    log,        \* events, one per block
    tradable,   \* tradable exchange of the token
    status,     \* token.token_status
    db,         \* committed tables; blocks whose events (missed) or rows (lost)
                \* have not been indexed
    work,       \* the same tables as the open session sees them
    loaded,     \* the token is in token_list (memory)
    init,       \* init_position_synced of the token (memory)
    exchanges,  \* exchange_address_list (memory)
    events,     \* notification_events (memory)
    pc,         \* where the pass is: "list", "height" or a handler
    span,       \* block_from - 1, block_to and latest_block of the pass
    past        \* what has gone wrong so far

world == <<chain, log, tradable, status>>
memory == <<loaded, init, exchanges>>
vars == <<world, db, work, memory, events, pc, span, past>>

OnToken == {"unissued", "balance", "pending", "locked"}
OnExchange == {"exchange", "commitment"}
Places == (OnToken \X {NoExchange}) \cup (OnExchange \X Exchanges)

Init ==
    /\ chain = [a \in Accounts |-> [p \in Places |->
                    IF p[1] = "unissued" \/ (p[1] = "balance" /\ a = Issuer) THEN Supply ELSE 0]]
    /\ log = <<>> /\ tradable = NoExchange /\ status = "PENDING"
    /\ db = [position |-> <<>>, locked |-> <<>>, rows |-> <<>>, notes |-> <<>>,
             synced |-> 0, initial |-> FALSE, missed |-> {}, lost |-> {}]
    /\ work = db
    /\ loaded = FALSE /\ init = FALSE /\ exchanges = {}
    /\ events = <<>> /\ pc = "list" /\ span = [from |-> 0, to |-> 0, latest |-> 0]
    /\ past = [aborts |-> 0, moved |-> FALSE]

-----------------------------------------------------------------------------
(* The contracts.                                                          *)

Emit(type, a, b, x) == log' = Append(log, [type |-> type, from |-> a, to |-> b, at |-> x])

\* One unit moves from place p of a to place q of b.
Move(operation, type, a, p, b, q, x) ==
    /\ operation \in Operations /\ Len(log) < MaxBlocks
    /\ chain[a][p] > 0
    /\ chain' = [chain EXCEPT ![a][p] = @ - 1, ![b][q] = @ + 1]
    /\ Emit(type, a, b, x)
    /\ UNCHANGED <<tradable, status, db, work, memory, events, pc, span, past>>

OnlyToken(operation, a, p, b, q) ==
    Move(operation, operation, a, <<p, NoExchange>>, b, <<q, NoExchange>>, NoExchange)

\* The API works on a token whose status is SUCCEEDED.
Issue(a) == status = "SUCCEEDED" /\ OnlyToken("Issue", a, "unissued", a, "balance")
Redeem(a) == status = "SUCCEEDED" /\ OnlyToken("Redeem", a, "balance", a, "unissued")
Transfer(a, b) ==
    status = "SUCCEEDED" /\ a # b /\ OnlyToken("Transfer", a, "balance", b, "balance")
ForceLock(a) == status = "SUCCEEDED" /\ OnlyToken("ForceLock", a, "balance", a, "locked")
ForceUnlock(a, b) == OnlyToken("ForceUnlock", a, "locked", b, "balance")
ForceChangeLockedAccount(a, b) ==
    a # b /\ OnlyToken("ForceChangeLockedAccount", a, "locked", b, "locked")
Lock(a) == OnlyToken("Lock", a, "balance", a, "locked")
Unlock(a, b) == OnlyToken("Unlock", a, "locked", b, "balance")
ApplyForTransfer(a) == OnlyToken("ApplyForTransfer", a, "balance", a, "pending")
CancelTransfer(a) == OnlyToken("CancelTransfer", a, "pending", a, "balance")
ApproveTransfer(a, b) == a # b /\ OnlyToken("ApproveTransfer", a, "pending", b, "balance")

\* Deposits and withdrawals are transfers to and from a contract.
Deposit(a) ==
    /\ tradable # NoExchange
    /\ Move("Deposit", "Transfer", a, <<"balance", NoExchange>>, a, <<"exchange", tradable>>, tradable)
Withdraw(a, x) ==
    Move("Withdraw", "Transfer", a, <<"exchange", x>>, a, <<"balance", NoExchange>>, x)

CommitEvents == {"Agree", "NewOrder", "EscrowCreated", "DeliveryCreated"}
ReleaseEvents == {"CancelOrder", "ForceCancelOrder", "SettlementNG",
                  "EscrowCanceled", "DeliveryCanceled", "DeliveryAborted"}
SettleEvents == {"SettlementOK", "HolderChanged"}

OfExchange(type, a, b, x) ==
    \/ /\ type \in CommitEvents /\ a = b
       /\ Move(type, type, a, <<"exchange", x>>, a, <<"commitment", x>>, x)
    \/ /\ type \in ReleaseEvents /\ a = b
       /\ Move(type, type, a, <<"commitment", x>>, a, <<"exchange", x>>, x)
    \/ /\ type \in SettleEvents /\ a # b
       /\ Move(type, type, a, <<"commitment", x>>, b, <<"exchange", x>>, x)

\* The issuer sets another tradable exchange.
SetExchange(x) ==
    /\ "SetExchange" \in Operations /\ x # tradable
    /\ tradable' = x
    /\ past' = [past EXCEPT !.moved = @ \/ tradable # NoExchange]
    /\ UNCHANGED <<chain, log, status, db, work, memory, events, pc, span>>

-----------------------------------------------------------------------------
(* What the handlers read and write.                                       *)

OnTokenOf(a, p) == chain[a][<<p, NoExchange>>]

\* balanceOf and pendingTransfer of accounts
TokenParts(who) ==
    [a \in who |-> [balance |-> OnTokenOf(a, "balance"), pending |-> OnTokenOf(a, "pending")]]

\* their balances and commitments of an exchange
ExchangeParts(who, x) ==
    [a \in who |->
        [exchange |-> IF x = NoExchange THEN 0 ELSE chain[a][<<"exchange", x>>],
         commitment |-> IF x = NoExchange THEN 0 ELSE chain[a][<<"commitment", x>>]]]

\* both, at the exchange that is tradable now
AllParts(who) == [a \in who |-> ExchangeParts(who, tradable)[a] @@ TokenParts(who)[a]]

NoPosition == [balance |-> 0, pending |-> 0, exchange |-> 0, commitment |-> 0]

\* Fields that are not given keep their value, or are 0 in a new row.
SinkOnPosition(table, parts) ==
    [a \in DOMAIN parts |->
        parts[a] @@ (IF a \in DOMAIN table THEN table[a] ELSE NoPosition)] @@ table

SinkOnLockedPosition(table, who) == [a \in who |-> OnTokenOf(a, "locked")] @@ table

\* The token is usable: its status becomes SUCCEEDED, and the first position
\* of the issuer is written beside it.
Register ==
    LET First(tables) ==
            [tables EXCEPT !.position = (Issuer :> [NoPosition EXCEPT !.balance = Supply]) @@ @]
    IN  /\ status = "PENDING" /\ status' = "SUCCEEDED"
        /\ db' = First(db) /\ work' = First(work)
        /\ UNCHANGED <<chain, log, tradable, memory, events, pc, span, past>>

\* Blocks of the range with an event of these types; the contracts asked are
\* the token, when it is loaded, and the exchanges of the list.
Logs(types) ==
    {k \in span.from + 1..span.to : log[k].type \in types /\ loaded}
From(blocks) == {log[k].from : k \in blocks}
To(blocks) == {log[k].to : k \in blocks}

Entries(blocks, category) ==
    [n \in 1..Cardinality(blocks) |->
        [block |-> SetToSortSeq(blocks, <)[n], category |-> category]]

Handlers == <<"issuer", "issue", "transfer", "lock", "force_lock", "unlock",
              "force_unlock", "change", "redeem", "apply", "cancel", "approve",
              "exchange", "escrow", "dvp", "end">>

At(handler) ==
    /\ pc = handler
    /\ pc' = Handlers[CHOOSE n \in 2..Len(Handlers) : Handlers[n - 1] = handler]
    /\ UNCHANGED <<world, db, memory, span, past>>

SyncPositions(handler, parts) ==
    /\ At(handler)
    /\ work' = [work EXCEPT !.position = SinkOnPosition(@, parts)]
    /\ UNCHANGED events

(* The handlers of __sync_all.                                             *)

\* The first position of the issuer, which has no event.  The flag in memory
\* is the one that was read with the token.
SyncIssuer ==
    /\ At("issuer")
    /\ work' = IF loaded /\ ~init
               THEN [work EXCEPT !.position = SinkOnPosition(@, TokenParts({Issuer})),
                                 !.initial = TRUE]
               ELSE work
    /\ UNCHANGED events

SyncIssue == SyncPositions("issue", TokenParts(To(Logs({"Issue"}))))

\* Contracts are left out: see Deposit and Withdraw.
SyncTransfer ==
    SyncPositions("transfer", AllParts(From(Logs({"Transfer"})) \cup To(Logs({"Transfer"}))))

SyncRedeem == SyncPositions("redeem", TokenParts(To(Logs({"Redeem"}))))
SyncApplyForTransfer == SyncPositions("apply", TokenParts(From(Logs({"ApplyForTransfer"}))))
SyncCancelTransfer == SyncPositions("cancel", TokenParts(From(Logs({"CancelTransfer"}))))
SyncApproveTransfer ==
    SyncPositions("approve", TokenParts(From(Logs({"ApproveTransfer"}))
                                        \cup To(Logs({"ApproveTransfer"}))))


\* Rows of the events and locked amounts of the accounts.
IndexLocks(rows, who) ==
    [work EXCEPT !.rows = @ \o rows, !.locked = SinkOnLockedPosition(@, who)]

\* An error there is caught and ignored: the first rows, and when all rows are
\* there some of the amounts, have been written.
IndexSomeLocks(blocks, rows, who) ==
    {[IndexLocks(SubSeq(rows, 1, n), some) EXCEPT !.lost = @ \cup blocks] :
        n \in {n \in 0..Len(rows) : Errors}, some \in {{}}}
    \cup {[IndexLocks(rows, some) EXCEPT !.lost = @ \cup blocks] :
        some \in {some \in SUBSET who : Errors}}

\* Positions are brought up to date outside of what is caught.
LockHandler(handler, type, category, recipients) ==
    LET blocks == Logs({type})
        rows == Entries(blocks, category)
        who == From(blocks)
    IN  /\ At(handler)
        /\ \E table \in {IndexLocks(rows, who)} \cup IndexSomeLocks(blocks, rows, who) :
              work' = [table EXCEPT !.position = SinkOnPosition(@, TokenParts(recipients))]
        /\ events' = events \o rows

SyncLock == LockHandler("lock", "Lock", "Lock", From(Logs({"Lock"})))
SyncForceLock == LockHandler("force_lock", "ForceLock", "Lock", From(Logs({"ForceLock"})))
SyncUnlock == LockHandler("unlock", "Unlock", "Unlock", To(Logs({"Unlock"})))
SyncForceUnlock ==
    LockHandler("force_unlock", "ForceUnlock", "Unlock", To(Logs({"ForceUnlock"})))

\* An unlock of the account before and a lock of the account after; here the
\* positions are inside of what is caught.
SyncForceChangeLockedAccount ==
    LET blocks == Logs({"ForceChangeLockedAccount"})
        rows == FlattenSeq([n \in 1..Cardinality(blocks) |->
                    <<Entries(blocks, "Unlock")[n], Entries(blocks, "Lock")[n]>>])
        who == From(blocks) \cup To(blocks)
        whole == IndexLocks(rows, who)
    IN  /\ At("change")
        /\ \/ work' = [whole EXCEPT !.position = SinkOnPosition(@, AllParts(who))]
           \/ work' \in IndexSomeLocks(blocks, rows, who)
        /\ events' = events \o rows

\* Events of the contracts in the list; the loop over contracts is one step.
SyncContracts(handler, one, both) ==
    LET blocks == {k \in Logs(one \cup both) : log[k].at \in exchanges}
        Touched(x) == LET own == {k \in blocks : log[k].at = x}
                      IN  From(own) \cup To({k \in own : log[k].type \in both})
        Sink(table, x) == SinkOnPosition(table, ExchangeParts(Touched(x), x))
    IN  /\ At(handler)
        /\ work' = [work EXCEPT !.position = FoldSet(LAMBDA x, table : Sink(table, x), @, exchanges)]
        /\ UNCHANGED events

SyncExchange ==
    SyncContracts("exchange", {"NewOrder", "CancelOrder", "ForceCancelOrder", "Agree",
                               "SettlementNG"}, {"SettlementOK"})
SyncEscrow ==
    SyncContracts("escrow", {"EscrowCreated", "EscrowCanceled"}, {"HolderChanged"})
SyncDvp ==
    SyncContracts("dvp", {"DeliveryCreated", "DeliveryCanceled", "DeliveryAborted"},
                  {"HolderChanged"})

-----------------------------------------------------------------------------
(* A pass: sync_new_logs.                                                  *)

\* The token once it is SUCCEEDED, with its flag; then the exchanges.
GetContractList ==
    /\ pc = "list" /\ pc' = "height"
    /\ loaded' = (status = "SUCCEEDED")
    /\ init' = IF loaded THEN init ELSE db.initial
    /\ exchanges' = {x \in {tradable} : loaded' /\ x # NoExchange}
    /\ UNCHANGED <<world, db, work, events, span, past>>

Lowest(m, n) == IF m < n THEN m ELSE n

\* block_number of the chain, and the block the index has reached.
StartSync ==
    /\ pc = "height"
    /\ IF db.synced >= Len(log)
       THEN pc' = "list" /\ UNCHANGED span
       ELSE /\ pc' = "issuer"
            /\ span' = [from |-> db.synced, to |-> Lowest(db.synced + Lot, Len(log)),
                        latest |-> Len(log)]
    /\ UNCHANGED <<world, db, work, memory, events, past>>

\* The next lot of blocks.
NextLot ==
    /\ pc = "end" /\ span.to < span.latest
    /\ pc' = "issuer"
    /\ span' = [span EXCEPT !.from = span.to, !.to = Lowest(span.to + Lot, span.latest)]
    /\ UNCHANGED <<world, db, work, memory, events, past>>

\* Events of the pass that the lists left out.
Overlooked ==
    {k \in db.synced + 1..span.latest :
        \/ ~loaded
        \/ log[k].type # "Transfer" /\ log[k].at \notin exchanges \cup {NoExchange}}

\* Mutant: the first lot is taken for the whole pass.
Commit_FirstLot ==
    /\ pc = "end"
    /\ db' = [work EXCEPT !.synced = span.latest, !.notes = @ \o events,
                          !.missed = @ \cup Overlooked]
    /\ work' = db' /\ events' = <<>> /\ pc' = "list"
    /\ UNCHANGED <<world, memory, span, past>>

\* Block number and notifications are part of the commit.
Commit ==
    /\ pc = "end" /\ span.to = span.latest
    /\ db' = [work EXCEPT !.synced = span.latest, !.notes = @ \o events,
                          !.missed = @ \cup Overlooked]
    /\ work' = db' /\ events' = <<>> /\ pc' = "list"
    /\ UNCHANGED <<world, memory, span, past>>

\* Mutant: the notifications of the pass stay in memory.
Rollback_KeepEvents ==
    /\ pc \notin {"list", "height"} /\ past.aborts < MaxAborts
    /\ work' = db /\ pc' = "list"
    /\ past' = [past EXCEPT !.aborts = @ + 1]
    /\ UNCHANGED <<world, db, memory, events, span>>

Rollback ==
    /\ pc \notin {"list", "height"} /\ past.aborts < MaxAborts
    /\ work' = db /\ events' = <<>> /\ pc' = "list"
    /\ past' = [past EXCEPT !.aborts = @ + 1]
    /\ UNCHANGED <<world, db, memory, span>>

Restart ==
    /\ past.aborts < MaxAborts
    /\ work' = db /\ events' = <<>> /\ pc' = "list"
    /\ loaded' = FALSE /\ init' = FALSE /\ exchanges' = {}
    /\ past' = [past EXCEPT !.aborts = @ + 1]
    /\ UNCHANGED <<world, db, span>>

Sync == \/ SyncIssuer \/ SyncIssue \/ SyncTransfer \/ SyncLock \/ SyncForceLock
        \/ SyncUnlock \/ SyncForceUnlock \/ SyncForceChangeLockedAccount
        \/ SyncRedeem \/ SyncApplyForTransfer \/ SyncCancelTransfer
        \/ SyncApproveTransfer \/ SyncExchange \/ SyncEscrow \/ SyncDvp

Contracts ==
    \E a, b \in Accounts :
       \/ Transfer(a, b) \/ Unlock(a, b) \/ ForceUnlock(a, b)
       \/ ForceChangeLockedAccount(a, b) \/ ApproveTransfer(a, b)
       \/ /\ a = b
          /\ \/ Issue(a) \/ Redeem(a) \/ Lock(a) \/ ForceLock(a)
             \/ ApplyForTransfer(a) \/ CancelTransfer(a) \/ Deposit(a)
             \/ \E x \in Exchanges : Withdraw(a, x)
       \/ \E x \in Exchanges, type \in CommitEvents \cup ReleaseEvents \cup SettleEvents :
             OfExchange(type, a, b, x)

Next == \/ Contracts \/ Register
        \/ \E x \in Exchanges \cup {NoExchange} : SetExchange(x)
        \/ GetContractList \/ StartSync \/ Sync \/ NextLot \/ Commit \/ Rollback \/ Restart

Spec == Init /\ [][Next]_vars

\* What the loop of main does, whose passes go on after every error.
Pass == GetContractList \/ StartSync \/ Sync \/ NextLot \/ Commit

-----------------------------------------------------------------------------
(* What the API shows.                                                     *)

LockedOf(a) == IF a \in DOMAIN db.locked THEN db.locked[a] ELSE 0

\* GET position of an account; 0 when there is no row.
RetrievePosition(a) ==
    (IF a \in DOMAIN db.position THEN db.position[a] ELSE NoPosition) @@ [locked |-> LockedOf(a)]

\* Accounts listed as holders.
ListHolders(include_former) ==
    {a \in DOMAIN db.position :
        include_former \/ \E field \in DOMAIN RetrievePosition(a) : RetrievePosition(a)[field] # 0}

CountHolders ==
    Cardinality({a \in DOMAIN db.position :
                    \/ \E field \in DOMAIN NoPosition : db.position[a][field] # 0
                    \/ LockedOf(a) # 0})

ListLocked == {a \in DOMAIN db.locked : db.locked[a] > 0}

\* Lock and unlock events, and those of an account.
AccountOf(row) ==
    LET e == log[row.block]
    IN  IF row.category = "Lock" THEN e.to ELSE e.from
LockEventsOf(a, category) ==
    SelectSeq(db.rows, LAMBDA row : AccountOf(row) = a /\ row.category = category)

-----------------------------------------------------------------------------
(* Properties.                                                             *)

Amount == 0..(Supply + 1) * Cardinality(Accounts)
Position == [balance : Amount, pending : Amount, exchange : Amount, commitment : Amount]
Entry == [block : 1..Len(log), category : {"Lock", "Unlock"}]

IsTable(table) ==
    /\ DOMAIN table.position \subseteq Accounts
    /\ \A a \in DOMAIN table.position : table.position[a] \in Position
    /\ DOMAIN table.locked \subseteq Accounts
    /\ \A a \in DOMAIN table.locked : table.locked[a] \in Amount
    /\ table.rows \in Seq(Entry) /\ table.notes \in Seq(Entry)
    /\ table.synced \in 0..Len(log) /\ table.initial \in BOOLEAN
    /\ table.missed \subseteq 1..table.synced /\ table.lost \subseteq 1..Len(log)

\* Every variable keeps its type: no amount is negative, no lot ends behind the chain.
TypeOK ==
    /\ chain \in [Accounts -> [Places -> Amount]]
    /\ log \in Seq([type : STRING, from : Accounts, to : Accounts,
                    at : Exchanges \cup {NoExchange}])
    /\ tradable \in Exchanges \cup {NoExchange} /\ status \in {"PENDING", "SUCCEEDED"}
    /\ IsTable(db)
    /\ loaded \in BOOLEAN /\ init \in BOOLEAN /\ exchanges \subseteq Exchanges
    /\ events \in Seq(Entry) /\ pc \in {"list", "height"} \cup ToSet(Handlers)
    /\ span.from <= span.to /\ span.to <= span.latest /\ span.latest <= Len(log)
    /\ past.aborts \in 0..MaxAborts /\ past.moved \in BOOLEAN

Touches(k, a) == a \in {log[k].from, log[k].to}

\* Blocks that the index has not seen, or has seen without this contract.
Unseen == db.missed \cup (db.synced + 1..Len(log))

\* Whatever order events of a range are handled in, however long after the
\* block the contracts are read, and whichever passes failed: an account that no
\* unseen event touches has the balance and the pending amount of the token.
PositionsMatch ==
    \A a \in Accounts :
       (/\ \A k \in Unseen : ~Touches(k, a)
        /\ a = Issuer => db.initial)
       => /\ RetrievePosition(a).balance = OnTokenOf(a, "balance")
          /\ RetrievePosition(a).pending = OnTokenOf(a, "pending")

\* So has the issuer, even when its first events were missed because the
\* token was registered during a pass: its first position is read afterwards.
IssuerMatches ==
    (/\ db.initial
     /\ \A k \in db.synced + 1..Len(log) : ~Touches(k, Issuer))
    => RetrievePosition(Issuer).balance = OnTokenOf(Issuer, "balance")

\* The same of what is locked, when no error was ignored in its blocks.
LocksMatch ==
    \A a \in Accounts :
       (\A k \in Unseen \cup db.lost : ~Touches(k, a)) => LockedOf(a) = OnTokenOf(a, "locked")

\* The same of the exchange, unless the token was moved to another one.
ExchangeMatches ==
    ~past.moved =>
       \A a \in Accounts :
          (\A k \in Unseen : ~Touches(k, a))
          => /\ RetrievePosition(a).exchange = ExchangeParts({a}, tradable)[a].exchange
             /\ RetrievePosition(a).commitment = ExchangeParts({a}, tradable)[a].commitment

\* Holders are those who have something, and the list and the count agree; whoever
\* has something locked is among them, unless an event of the account was missed or
\* an error was ignored in its block.
HoldersShown ==
    /\ CountHolders = Cardinality(ListHolders(FALSE))
    /\ \A a \in ListLocked :
          (\A k \in db.missed \cup db.lost : ~Touches(k, a)) => a \in ListHolders(FALSE)
    /\ (Unseen = {} /\ db.lost = {} /\ ~past.moved /\ db.initial) =>
          ListHolders(FALSE) =
             {a \in Accounts : \E p \in Places : p[1] # "unissued" /\ chain[a][p] > 0}

Kinds(k) ==
    CASE log[k].type \in {"Lock", "ForceLock"} -> <<"Lock">>
      [] log[k].type \in {"Unlock", "ForceUnlock"} -> <<"Unlock">>
      [] log[k].type = "ForceChangeLockedAccount" -> <<"Unlock", "Lock">>
      [] OTHER -> <<>>

OfBlock(entries, k) == SelectSeq(entries, LAMBDA entry : entry.block = k)

\* The issuer is notified of every lock and unlock once, in spite of failed
\* passes and of errors that were ignored.
NotifiedOnce ==
    \A k \in 1..Len(log) :
       OfBlock(db.notes, k) =
          IF k \in Unseen THEN <<>>
          ELSE [n \in DOMAIN Kinds(k) |-> [block |-> k, category |-> Kinds(k)[n]]]

\* The history of locks and unlocks that the API lists accounts for what is
\* locked.
LockHistoryAddsUp ==
    (Unseen = {} /\ db.lost = {}) =>
       \A a \in Accounts :
          Len(LockEventsOf(a, "Lock")) - Len(LockEventsOf(a, "Unlock")) = LockedOf(a)
=============================================================================
