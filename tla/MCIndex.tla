------------------------------- MODULE MCIndex -------------------------------
(* The components that follow events of the chains.  They share no state, so  *)
(* a behaviour is one of a single component with one choice of constants, its *)
(* scenario.  Variables of the same name are one variable; those the component *)
(* does not have are None.                                                   *)
EXTENDS Integers, Sequences, TLC

CONSTANTS
    Scenarios,      \* scenarios of the run
    None,
    Issuer, Alice, Bob, DEX, DEX2, NoExchange, Zero,    \* accounts and contracts
    t1, t2, e1,                                         \* applications
    r1, r2,                                             \* API requests
    Fin, Data, NoTemplate,                              \* sources of ledgers
    add, burn, NoOp,                                     \* operations of IbetWST
    Lot,            \* blocks of a lot
    Requests,       \* API requests for an approval
    MaxBlocks, MaxAborts, MaxLists, MaxLedgers, MaxEdits, MaxFaults,
    MaxLocks, MaxLate                                   \* bounds

VARIABLES
    chain, log, tradable, status, db, work, loaded, init, exchanges, events, pc, span,
    past, blocks, owned, listed, utxo, synced, watched, template, data, edits, holders,
    trades, info, requests, ledgers, asked, todo, cur, complete, aborts, history, request,
    wallet, deposit, locked, true, exchange, lists, target, from, book, draft, faults,
    lockLog, eth, final, wst, btx, deployed, row, whitelist, token, flight, bound, txs,
    scenario

Two == {Issuer, Alice}

-----------------------------------------------------------------------------
(* Scenarios.                                                              *)

Balances == INSTANCE PositionIndexer WITH
    Accounts <- Two, Exchanges <- {DEX}, Supply <- 1, Errors <- FALSE, MaxAborts <- 0,
    Operations <- {"Issue", "Transfer", "Redeem", "ApplyForTransfer", "CancelTransfer",
                   "ApproveTransfer", "ForceLock", "ForceUnlock"}
Locks == INSTANCE PositionIndexer WITH
    Accounts <- Two, Exchanges <- {DEX}, Supply <- 1, Errors <- TRUE,
    Operations <- {"Lock", "Unlock", "ForceChangeLockedAccount"}
Trades == INSTANCE PositionIndexer WITH
    Accounts <- Two, Exchanges <- {DEX}, Supply <- 1, Errors <- FALSE,
    MaxAborts <- 0,
    Operations <- {"Transfer", "Deposit", "Withdraw", "SetExchange", "Agree", "SettlementOK",
                   "SettlementNG", "EscrowCreated", "HolderChanged", "DeliveryAborted"}

\* Unspent amounts: operations of the issuer, and the other changes of a holder.
Spending == INSTANCE UTXO WITH
    Holders <- Two, Supply <- 2, Kinds <- {"Issue", "Redeem", "Transfer", "Reallocation"},
    MaxAborts <- 0
Changes == INSTANCE UTXO WITH
    Holders <- Two, Supply <- 2, MaxBlocks <- 2,
    Kinds <- {"Transfer", "Unlock", "ForceChangeLockedAccount", "HolderChanged"}

FinOnly == <<[detail |-> "holders", source |-> Fin]>>
Both == <<[detail |-> "holders", source |-> Fin], [detail |-> "others", source |-> Data]>>
DataFirst == <<[detail |-> "holders", source |-> Data], [detail |-> "others", source |-> Fin]>>

Ledgers == INSTANCE Ledger WITH
    Accounts <- Two, DataIds <- {Data}, Templates <- {DataFirst, Both},
    MaxRequests <- MaxLedgers, MaxTrades <- 1

\* Two requests of the API; one and lots of blocks; a value that overflows.
Approvals == INSTANCE TransferApproval WITH
    OnToken <- {t1, t2}, OnEscrow <- {}, Huge <- {}, Undated <- {}, MaxAborts <- 0
Indexing == INSTANCE TransferApproval WITH
    OnToken <- {t1}, OnEscrow <- {e1}, Huge <- {}, Undated <- {t1}, Requests <- {r1}
Outcomes == INSTANCE TransferApproval WITH
    OnToken <- {t1}, OnEscrow <- {}, Huge <- {}, Undated <- {}, Requests <- {r1}
Overflow == INSTANCE TransferApproval WITH
    OnToken <- {t1, t2}, OnEscrow <- {}, Huge <- {t2}, Undated <- {}, Requests <- {r1},
    MaxAborts <- 0

\* One exchange for ever, or a second one.
Collecting == INSTANCE TokenHolders WITH
    Accounts <- Two, Owner <- Issuer, Exchanges <- {DEX}, FirstExchange <- DEX,
    ExchangeChanges <- FALSE, StatusFaults <- FALSE, LotSize <- Lot, Supply <- 1,
    MaxBlock <- MaxBlocks
Statuses == INSTANCE TokenHolders WITH
    Accounts <- Two, Owner <- Issuer, Exchanges <- {DEX, DEX2}, FirstExchange <- DEX,
    ExchangeChanges <- TRUE, StatusFaults <- TRUE, LotSize <- Lot, Supply <- 1,
    MaxBlock <- 2, MaxLists <- 2

\* The bridge: two locks and a reorganisation; what is done by hand; Lock events
\* given up and an issuer whose account is deleted; transfers and burns only.
Bridge == INSTANCE WSTBridge WITH
    Accounts <- {Alice}, Amounts <- {1}, MaxRequests <- 1,
    MaxReorgs <- 1, MaxSkips <- 0, MaxUnlocks <- 0, MaxDeletions <- 0
Books == INSTANCE WSTBridge WITH
    Accounts <- {Alice, Bob}, Amounts <- {1}, MaxLocks <- 1, MaxRequests <- 2,
    MaxReorgs <- 0, MaxSkips <- 0, MaxLate <- 0, MaxUnlocks <- 1, MaxDeletions <- 0
Gaps == INSTANCE WSTBridge WITH
    Accounts <- {Alice}, Amounts <- {1}, MaxRequests <- 1,
    MaxReorgs <- 0, MaxSkips <- 1, MaxLate <- 0, MaxUnlocks <- 0, MaxDeletions <- 1
\* Two operations of IbetWST that compete for nonces.
Sending == INSTANCE WSTTx WITH
    Ops <- {add, burn}, Kind <- (add :> "add") @@ (burn :> "other"),
    Accounts <- {Alice, Bob}, Target <- (add :> Alice) @@ (burn :> Bob), Listed <- {Bob},
    Orphans <- {}, MaxTx <- 2, MaxStale <- 1, MaxLost <- 1, MaxReorg <- 1

\* A row of a former master account beside one that is sent.
Former == INSTANCE WSTTx WITH
    Ops <- {add, burn}, Kind <- (add :> "add") @@ (burn :> "other"),
    Accounts <- {Alice, Bob}, Target <- (add :> Alice) @@ (burn :> Bob), Listed <- {Bob},
    Orphans <- {burn}, MaxTx <- 2, MaxStale <- 0, MaxLost <- 0, MaxReorg <- 0

ASSUME ScenarioAssumption ==
       /\ Balances!PositionAssumption /\ Locks!PositionAssumption /\ Trades!PositionAssumption
       /\ Spending!UTXOAssumption /\ Changes!UTXOAssumption /\ Ledgers!LedgerAssumption
       /\ Approvals!TransferApprovalAssumption /\ Indexing!TransferApprovalAssumption
       /\ Outcomes!TransferApprovalAssumption /\ Overflow!TransferApprovalAssumption
       /\ Collecting!TokenHoldersAssumption /\ Statuses!TokenHoldersAssumption
       /\ Bridge!BridgeAssumption /\ Books!BridgeAssumption /\ Gaps!BridgeAssumption

-----------------------------------------------------------------------------
(* The variables a component does not have.                                *)

NotPosition == <<blocks, owned, listed, utxo, synced, watched, template, data, edits,
                  holders, trades, info, requests, ledgers, asked, todo, cur, complete,
                  aborts, history, request, wallet, deposit, locked, true, exchange, lists,
                  target, from, book, draft, faults, lockLog, eth, final, wst, btx,
                  deployed, row, whitelist, token, flight, bound, txs>>

NotPositionYet ==
    /\ blocks = None /\ owned = None /\ listed = None /\ utxo = None /\ synced = None
    /\ watched = None /\ template = None /\ data = None /\ edits = None /\ holders = None
    /\ trades = None /\ info = None /\ requests = None /\ ledgers = None /\ asked = None
    /\ todo = None /\ cur = None /\ complete = None /\ aborts = None /\ history = None
    /\ request = None /\ wallet = None /\ deposit = None /\ locked = None /\ true = None
    /\ exchange = None /\ lists = None /\ target = None /\ from = None /\ book = None
    /\ draft = None /\ faults = None /\ lockLog = None /\ eth = None /\ final = None
    /\ wst = None /\ btx = None /\ deployed = None /\ row = None /\ whitelist = None
    /\ token = None /\ flight = None /\ bound = None /\ txs = None

NotUTXO == <<chain, log, tradable, db, work, loaded, init, exchanges, events, template,
              data, edits, holders, trades, info, requests, ledgers, asked, todo, cur,
              complete, aborts, history, request, wallet, deposit, locked, true, exchange,
              lists, target, from, book, draft, faults, lockLog, eth, final, wst, btx,
              deployed, row, whitelist, token, flight, bound, txs>>

NotUTXOYet ==
    /\ chain = None /\ log = None /\ tradable = None /\ db = None /\ work = None
    /\ loaded = None /\ init = None /\ exchanges = None /\ events = None /\ template = None
    /\ data = None /\ edits = None /\ holders = None /\ trades = None /\ info = None
    /\ requests = None /\ ledgers = None /\ asked = None /\ todo = None /\ cur = None
    /\ complete = None /\ aborts = None /\ history = None /\ request = None
    /\ wallet = None /\ deposit = None /\ locked = None /\ true = None /\ exchange = None
    /\ lists = None /\ target = None /\ from = None /\ book = None /\ draft = None
    /\ faults = None /\ lockLog = None /\ eth = None /\ final = None /\ wst = None
    /\ btx = None /\ deployed = None /\ row = None /\ whitelist = None /\ token = None
    /\ flight = None /\ bound = None /\ txs = None

NotLedger == <<chain, log, tradable, status, db, loaded, init, exchanges, events, span,
                past, blocks, owned, listed, utxo, synced, watched, history, request,
                wallet, deposit, locked, true, exchange, lists, target, from, book, draft,
                faults, lockLog, eth, final, wst, btx, deployed, row, whitelist, token,
                flight, bound, txs>>

NotLedgerYet ==
    /\ chain = None /\ log = None /\ tradable = None /\ status = None /\ db = None
    /\ loaded = None /\ init = None /\ exchanges = None /\ events = None /\ span = None
    /\ past = None /\ blocks = None /\ owned = None /\ listed = None /\ utxo = None
    /\ synced = None /\ watched = None /\ history = None /\ request = None /\ wallet = None
    /\ deposit = None /\ locked = None /\ true = None /\ exchange = None /\ lists = None
    /\ target = None /\ from = None /\ book = None /\ draft = None /\ faults = None
    /\ lockLog = None /\ eth = None /\ final = None /\ wst = None /\ btx = None
    /\ deployed = None /\ row = None /\ whitelist = None /\ token = None /\ flight = None
    /\ bound = None /\ txs = None

NotApproval == <<tradable, work, loaded, init, exchanges, events, blocks, owned, utxo,
                  synced, template, data, edits, holders, trades, info, requests, ledgers,
                  asked, todo, cur, complete, aborts, wallet, deposit, locked, true,
                  exchange, lists, target, from, book, draft, faults, lockLog, eth, final,
                  wst, btx, deployed, row, whitelist, token, flight, bound, txs>>

NotApprovalYet ==
    /\ tradable = None /\ work = None /\ loaded = None /\ init = None /\ exchanges = None
    /\ events = None /\ blocks = None /\ owned = None /\ utxo = None /\ synced = None
    /\ template = None /\ data = None /\ edits = None /\ holders = None /\ trades = None
    /\ info = None /\ requests = None /\ ledgers = None /\ asked = None /\ todo = None
    /\ cur = None /\ complete = None /\ aborts = None /\ wallet = None /\ deposit = None
    /\ locked = None /\ true = None /\ exchange = None /\ lists = None /\ target = None
    /\ from = None /\ book = None /\ draft = None /\ faults = None /\ lockLog = None
    /\ eth = None /\ final = None /\ wst = None /\ btx = None /\ deployed = None
    /\ row = None /\ whitelist = None /\ token = None /\ flight = None /\ bound = None
    /\ txs = None

NotHolders == <<chain, tradable, status, db, work, loaded, init, exchanges, span, past,
                 blocks, owned, listed, utxo, synced, watched, template, data, edits,
                 trades, info, requests, ledgers, asked, todo, cur, complete, aborts,
                 history, request, lockLog, eth, final, wst, btx, deployed, row, whitelist,
                 token, flight, bound, txs>>

NotHoldersYet ==
    /\ chain = None /\ tradable = None /\ status = None /\ db = None /\ work = None
    /\ loaded = None /\ init = None /\ exchanges = None /\ span = None /\ past = None
    /\ blocks = None /\ owned = None /\ listed = None /\ utxo = None /\ synced = None
    /\ watched = None /\ template = None /\ data = None /\ edits = None /\ trades = None
    /\ info = None /\ requests = None /\ ledgers = None /\ asked = None /\ todo = None
    /\ cur = None /\ complete = None /\ aborts = None /\ history = None /\ request = None
    /\ lockLog = None /\ eth = None /\ final = None /\ wst = None /\ btx = None
    /\ deployed = None /\ row = None /\ whitelist = None /\ token = None /\ flight = None
    /\ bound = None /\ txs = None

NotBridge == <<chain, log, tradable, status, db, work, loaded, init, exchanges, events,
                span, past, blocks, owned, listed, utxo, template, data, edits, holders,
                trades, info, requests, ledgers, asked, cur, complete, aborts, history,
                request, wallet, deposit, true, exchange, lists, target, from, book, draft,
                row, whitelist, token, flight, bound, txs>>

NotBridgeYet ==
    /\ chain = None /\ log = None /\ tradable = None /\ status = None /\ db = None
    /\ work = None /\ loaded = None /\ init = None /\ exchanges = None /\ events = None
    /\ span = None /\ past = None /\ blocks = None /\ owned = None /\ listed = None
    /\ utxo = None /\ template = None /\ data = None /\ edits = None /\ holders = None
    /\ trades = None /\ info = None /\ requests = None /\ ledgers = None /\ asked = None
    /\ cur = None /\ complete = None /\ aborts = None /\ history = None /\ request = None
    /\ wallet = None /\ deposit = None /\ true = None /\ exchange = None /\ lists = None
    /\ target = None /\ from = None /\ book = None /\ draft = None /\ row = None
    /\ whitelist = None /\ token = None /\ flight = None /\ bound = None /\ txs = None

NotWST == <<log, tradable, status, db, work, loaded, init, exchanges, events, span, past,
             blocks, owned, listed, utxo, synced, watched, template, data, edits, holders,
             trades, info, requests, ledgers, asked, cur, complete, aborts, history,
             request, wallet, deposit, locked, true, exchange, lists, target, from, book,
             draft, lockLog, eth, wst, btx, deployed>>

NotWSTYet ==
    /\ log = None /\ tradable = None /\ status = None /\ db = None /\ work = None
    /\ loaded = None /\ init = None /\ exchanges = None /\ events = None /\ span = None
    /\ past = None /\ blocks = None /\ owned = None /\ listed = None /\ utxo = None
    /\ synced = None /\ watched = None /\ template = None /\ data = None /\ edits = None
    /\ holders = None /\ trades = None /\ info = None /\ requests = None /\ ledgers = None
    /\ asked = None /\ cur = None /\ complete = None /\ aborts = None /\ history = None
    /\ request = None /\ wallet = None /\ deposit = None /\ locked = None /\ true = None
    /\ exchange = None /\ lists = None /\ target = None /\ from = None /\ book = None
    /\ draft = None /\ lockLog = None /\ eth = None /\ wst = None /\ btx = None
    /\ deployed = None

Init ==
    /\ scenario \in Scenarios
    /\ \/ scenario = "balances" /\ Balances!Init /\ NotPositionYet
       \/ scenario = "locks" /\ Locks!Init /\ NotPositionYet
       \/ scenario = "trades" /\ Trades!Init /\ NotPositionYet
       \/ scenario = "spending" /\ Spending!Init /\ NotUTXOYet
       \/ scenario = "changes" /\ Changes!Init /\ NotUTXOYet
       \/ scenario = "ledgers" /\ Ledgers!Init /\ NotLedgerYet
       \/ scenario = "approvals" /\ Approvals!Init /\ NotApprovalYet
       \/ scenario = "indexing" /\ Indexing!Init /\ NotApprovalYet
       \/ scenario = "outcomes" /\ Outcomes!Init /\ NotApprovalYet
       \/ scenario = "overflow" /\ Overflow!Init /\ NotApprovalYet
       \/ scenario = "collecting" /\ Collecting!Init /\ NotHoldersYet
       \/ scenario = "statuses" /\ Statuses!Init /\ NotHoldersYet
       \/ scenario = "bridge" /\ Bridge!Init /\ NotBridgeYet
       \/ scenario = "books" /\ Books!Init /\ NotBridgeYet
       \/ scenario = "gaps" /\ Gaps!Init /\ NotBridgeYet
       \/ scenario = "sending" /\ Sending!Init /\ NotWSTYet
       \/ scenario = "former" /\ Former!Init /\ NotWSTYet

Next ==
    \/ scenario = "balances" /\ Balances!Next /\ UNCHANGED <<NotPosition, scenario>>
    \/ scenario = "locks" /\ Locks!Next /\ UNCHANGED <<NotPosition, scenario>>
    \/ scenario = "trades" /\ Trades!Next /\ UNCHANGED <<NotPosition, scenario>>
    \/ scenario = "spending" /\ Spending!Next /\ UNCHANGED <<NotUTXO, scenario>>
    \/ scenario = "changes" /\ Changes!Next /\ UNCHANGED <<NotUTXO, scenario>>
    \/ scenario = "ledgers" /\ Ledgers!Next /\ UNCHANGED <<NotLedger, scenario>>
    \/ scenario = "approvals" /\ Approvals!Next /\ UNCHANGED <<NotApproval, scenario>>
    \/ scenario = "indexing" /\ Indexing!Next /\ UNCHANGED <<NotApproval, scenario>>
    \/ scenario = "outcomes" /\ Outcomes!Next /\ UNCHANGED <<NotApproval, scenario>>
    \/ scenario = "overflow" /\ Overflow!Next /\ UNCHANGED <<NotApproval, scenario>>
    \/ scenario = "collecting" /\ Collecting!Next /\ UNCHANGED <<NotHolders, scenario>>
    \/ scenario = "statuses" /\ Statuses!Next /\ UNCHANGED <<NotHolders, scenario>>
    \/ scenario = "bridge" /\ Bridge!Next /\ UNCHANGED <<NotBridge, scenario>>
    \/ scenario = "books" /\ Books!Next /\ UNCHANGED <<NotBridge, scenario>>
    \/ scenario = "gaps" /\ Gaps!Next /\ UNCHANGED <<NotBridge, scenario>>
    \/ scenario = "sending" /\ Sending!Next /\ UNCHANGED <<NotWST, scenario>>
    \/ scenario = "former" /\ Former!Next /\ UNCHANGED <<NotWST, scenario>>

vars == <<chain, log, tradable, status, db, work, loaded, init, exchanges, events, pc,
          span, past, blocks, owned, listed, utxo, synced, watched, template, data, edits,
          holders, trades, info, requests, ledgers, asked, todo, cur, complete, aborts,
          history, request, wallet, deposit, locked, true, exchange, lists, target, from,
          book, draft, faults, lockLog, eth, final, wst, btx, deployed, row, whitelist,
          token, flight, bound, txs, scenario>>

Spec == Init /\ [][Next]_vars

(* The loops of the processes run for ever, pass after pass, whatever error a  *)
(* pass ends with; six hours pass; chains grow and blocks become final.  A pass *)
(* of the bridge may fail, but not for ever, nor does its node stay silent     *)
(* whenever the monitor asks for the receipt of a row.  As a behaviour has one  *)
(* scenario, actions of different ones share a fairness condition.             *)

Position(s, A) == scenario = s /\ A /\ UNCHANGED <<NotPosition, scenario>>
Unspent(s, A) == scenario = s /\ A /\ UNCHANGED <<NotUTXO, scenario>>
OfLedger(s, A) == scenario = s /\ A /\ UNCHANGED <<NotLedger, scenario>>
Approval(s, A) == scenario = s /\ A /\ UNCHANGED <<NotApproval, scenario>>
Holder(s, A) == scenario = s /\ A /\ UNCHANGED <<NotHolders, scenario>>
OfBridge(A) == scenario = "bridge" /\ A /\ UNCHANGED <<NotBridge, scenario>>
OfWST(A) == scenario = "sending" /\ A /\ UNCHANGED <<NotWST, scenario>>

Fairness ==
    /\ WF_vars(\/ Position("locks", Locks!Pass) \/ Unspent("changes", Changes!Pass)
               \/ OfLedger("ledgers", Ledgers!Pass)
               \/ Approval("outcomes", Outcomes!Pass) \/ Approval("overflow", Overflow!Pass) \/ Holder("statuses", Statuses!Collect)
               \/ OfBridge(Bridge!Finalize) \/ OfWST(Sending!Finalize))
    /\ WF_vars(\/ OfLedger("ledgers", 1 \in DOMAIN requests /\ Ledgers!TimeLimit(1))
               \/ OfBridge(Bridge!LoadList) \/ OfWST(Sending!StartPass))
    /\ WF_vars(OfBridge(Bridge!SelectPending) \/ OfWST(Sending!SelectRows))
    /\ WF_vars(OfWST(Sending!EndPass)) /\ WF_vars(OfWST(Sending!RecordSent))
    /\ WF_vars(OfWST(Sending!Mine))
    /\ SF_vars(OfBridge(Bridge!IbetToEthAll) \/ OfWST(Sending!MonitorRow(add)))
    /\ SF_vars(OfBridge(Bridge!EthToIbetAll) \/ OfWST(Sending!MonitorRow(burn)))
    /\ SF_vars(OfBridge(Bridge!ExecuteAny))

FairSpec == Spec /\ Fairness

-----------------------------------------------------------------------------
(* Properties.                                                             *)

Operation(k) == IF k = 1 THEN add ELSE burn

\* The variables of every component keep their types.
TypeOK ==
    /\ scenario = "balances" => Balances!TypeOK
    /\ scenario = "spending" => Spending!TypeOK
    /\ scenario = "ledgers" => Ledgers!TypeOK
    /\ scenario = "approvals" => Approvals!TypeOK
    /\ scenario = "collecting" => Collecting!TypeOK
    /\ scenario = "bridge" => Bridge!TypeOK
    /\ scenario = "former" => Former!TypeOK

\* Positions, locks and exchange balances that the API shows are those of the chain
\* for every account no unseen event touches, and the list of holders agrees.
PositionsAreCurrent ==
    /\ scenario = "balances" => Balances!PositionsMatch /\ Balances!IssuerMatches
    /\ scenario = "locks" => Locks!LocksMatch /\ Locks!HoldersShown
    /\ scenario = "trades" => Trades!ExchangeMatches

\* Every lock and unlock is notified once and the history of them adds up to what is
\* locked, in spite of failed passes and ignored errors.
LockEventsOnce == scenario = "locks" => Locks!NotifiedOnce /\ Locks!LockHistoryAddsUp

\* Unspent amounts add up to what an account owns and are dated as if every event had
\* been applied in its turn.
UnspentAddsUp ==
    /\ scenario = "spending" => Spending!AsInOrder /\ Spending!DatesAreReal
    /\ scenario = "changes" => Changes!AddsUp

\* A ledger is made once of the data of its request and is flagged exactly when
\* personal information was missing.
LedgersAreTrue ==
    scenario = "ledgers" => /\ Ledgers!ShowsTheRequest /\ Ledgers!FlagTellsMissing
                            /\ Ledgers!OncePerRequest /\ Ledgers!LatestTellsMissing

\* The status of an approval is true ahead of the index, recorded once, and the index
\* is what the events give in their order.
ApprovalsAreTrue ==
    /\ scenario = "approvals" => Approvals!StatusIsTrue /\ Approvals!RecordedOnce
    /\ scenario = "indexing" => Indexing!RowsMatch /\ Indexing!StatusIsTrue

\* The issuer is notified of every approval event once, in spite of failed passes.
ApprovalsNotifiedOnce == scenario = "indexing" => Indexing!NotifiedOnce

\* A list of holders that is done shows what they held at its block.
HolderListsAreTrue == scenario = "collecting" => Collecting!ListIsTrue

\* The bridge mints every lock once, and keeps one row for each final burn or transfer.
BridgeRowsOnce ==
    /\ scenario = "bridge" => Bridge!MintedOnce /\ Bridge!RowPerEvent
    /\ scenario = "gaps" => Gaps!MintedOnce /\ Gaps!RowPerEvent

\* What is locked on ibet covers the supply on Ethereum, account by account when all
\* rows are executed.
BridgeIsBacked ==
    /\ scenario = "bridge" => Bridge!Backed
    /\ scenario = "books" => Books!BooksAgree

\* A row of the bridge that has a result keeps it, and with it what was executed.
BridgeResultsStay == [][scenario = "bridge" => Bridge!ResultStays]_vars

\* What block, request, application or row k calls for, and that it is there.
Due(k) ==
    \/ scenario = "locks" /\ Len(log) >= k
    \/ scenario = "changes" /\ Len(blocks) >= k
    \/ scenario = "ledgers" /\ k \in DOMAIN requests
    \/ scenario = "outcomes" /\ k = 1 /\ Outcomes!Decided(t1)
    \/ scenario = "statuses" /\ k \in DOMAIN lists
    \/ scenario = "bridge" /\ Bridge!FinalBurn(k)
    \/ scenario = "sending" /\ row[Operation(k)].status = "SENT"
Done(k) ==
    \/ scenario = "locks" /\ db.synced >= k
    \/ scenario = "changes" /\ synced >= k
    \/ scenario = "ledgers" /\ Ledgers!Completed(k)
    \/ scenario = "outcomes" /\ k = 1 /\ Outcomes!OutcomeShown(t1)
    \/ scenario = "statuses" /\ Statuses!Settled(k)
    \/ scenario = "bridge" /\ Bridge!BurnSettled(k)
    \/ scenario = "sending" /\ Sending!Ended(Operation(k))

\* Whatever is on a chain is in its index in the end: positions, unspent amounts and
\* outcomes of approvals; ledgers and lists of holders that are requested are finished;
\* final burns are settled on ibet, and transactions that are sent are finalized.
IndexesCatchUp == \A k \in 1..2 : Due(k) ~> Done(k)


\* What a comment of the approval indexer says of a value that overflows: it is
\* suppressed, so the other applications are indexed all the same.
OverflowIsSuppressed == Overflow!OverflowIsSuppressed
=============================================================================
