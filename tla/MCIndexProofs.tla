---------------------------- MODULE MCIndexProofs ----------------------------
(* The properties that the runs of MCIndex check of the bridge, of approvals, of  *)
(* ledgers and of lists of holders, for every value of the constants that MCIndex *)
(* leaves open: the theorems of IndexProofs at the constants of the scenarios.  An *)
(* instance of them serves a scenario of the bridge and others of approvals,    *)
(* ledgers or lists, as their constants have nothing to do with each other.      *)
EXTENDS MCIndex, TLAPS

BridgeP == INSTANCE IndexProofs WITH
    approvals <- db, truth <- true, reached <- from,
    Accounts <- {Alice}, Amounts <- {1}, MaxRequests <- 1,
    MaxReorgs <- 1, MaxSkips <- 0, MaxUnlocks <- 0, MaxDeletions <- 0,
    OnToken <- {t1}, OnEscrow <- {e1}, Huge <- {}, Undated <- {t1}, Requests <- {r1},
    Owners <- {}, DataIds <- {}, Templates <- {}, MaxTrades <- 0,
    Investors <- {}, Markets <- {}, Market <- DEX, ExchangeChanges <- FALSE,
    StatusFaults <- FALSE, Issued <- 0
BooksP == INSTANCE IndexProofs WITH
    approvals <- db, truth <- true, reached <- from,
    Accounts <- {Alice, Bob}, Amounts <- {1}, MaxLocks <- 1, MaxRequests <- 2,
    MaxReorgs <- 0, MaxSkips <- 0, MaxLate <- 0, MaxUnlocks <- 1, MaxDeletions <- 0,
    OnToken <- {t1, t2}, OnEscrow <- {}, Huge <- {}, Undated <- {}, MaxAborts <- 0,
    Owners <- {}, DataIds <- {}, Templates <- {}, MaxTrades <- 0,
    Investors <- Two, Markets <- {DEX}, Market <- DEX, ExchangeChanges <- FALSE,
    StatusFaults <- FALSE, Issued <- 1
GapsP == INSTANCE IndexProofs WITH
    approvals <- db, truth <- true, reached <- from,
    Accounts <- {Alice}, Amounts <- {1}, MaxRequests <- 1,
    MaxReorgs <- 0, MaxSkips <- 1, MaxLate <- 0, MaxUnlocks <- 0, MaxDeletions <- 1,
    OnToken <- {}, OnEscrow <- {}, Huge <- {}, Undated <- {},
    Owners <- Two, DataIds <- {Data}, Templates <- {DataFirst, Both}, MaxTrades <- 1,
    Investors <- {}, Markets <- {}, Market <- DEX, ExchangeChanges <- FALSE,
    StatusFaults <- FALSE, Issued <- 0

-----------------------------------------------------------------------------
(* What is defined in a scenario is what its instance of the proofs speaks of: *)
(* two names of one definition, so each step only expands them.               *)

LEMMA BridgeSets ==
    /\ \A S : Bridge!Cardinality(S) = BridgeP!Cardinality(S)
    /\ \A f : Bridge!SumFunction(f) = BridgeP!SumFunction(f)
  BY Zenon DEF Bridge!Cardinality, Bridge!IsFiniteSet, Bridge!SumFunction,
     Bridge!SumFunctionOnSet, Bridge!FoldFunctionOnSet, Bridge!MapThenFoldSet,
     BridgeP!Cardinality, BridgeP!IsFiniteSet, BridgeP!SumFunction,
     BridgeP!SumFunctionOnSet, BridgeP!FoldFunctionOnSet, BridgeP!MapThenFoldSet

LEMMA BridgeSteps ==
    ASSUME Bridge!Next
    PROVE  BridgeP!Next
  <1>1. /\ \A a, v, bridge : Bridge!Lock(a, v, bridge) = BridgeP!Lock(a, v, bridge)
        /\ \A a, v : Bridge!ForceUnlock(a, v) = BridgeP!ForceUnlock(a, v)
    BY BridgeSets, Zenon DEF Bridge!Lock, Bridge!db, Bridge!monitor, Bridge!ForceUnlock,
       Bridge!BurnsSeen, BridgeP!Lock, BridgeP!db, BridgeP!monitor, BridgeP!ForceUnlock,
       BridgeP!BurnsSeen
  <1>2. /\ \A a : Bridge!Balance(a) = BridgeP!Balance(a)
        /\ \A r : Bridge!Request(r) = BridgeP!Request(r)
    BY BridgeSets, Zenon DEF Bridge!Balance, Bridge!Request, Bridge!Requested,
       Bridge!Inserted, Bridge!chains, Bridge!monitor, BridgeP!Balance, BridgeP!Request,
       BridgeP!Requested, BridgeP!Inserted, BridgeP!chains, BridgeP!monitor
  <1>3. /\ \A a, b, v : Bridge!RequestTransfer(a, b, v) = BridgeP!RequestTransfer(a, b, v)
        /\ \A a, v : Bridge!RequestBurn(a, v) = BridgeP!RequestBurn(a, v)
        /\ \A a, v : Bridge!RequestForceBurn(a, v) = BridgeP!RequestForceBurn(a, v)
    BY <1>2, Zenon DEF Bridge!RequestTransfer, Bridge!RequestBurn, Bridge!RequestForceBurn,
       Bridge!Row, BridgeP!RequestTransfer, BridgeP!RequestBurn, BridgeP!RequestForceBurn,
       BridgeP!Row
  <1>4. /\ Bridge!DeleteAccount = BridgeP!DeleteAccount
        /\ Bridge!Deploy = BridgeP!Deploy
        /\ \A i : Bridge!Mine(i) = BridgeP!Mine(i)
        /\ \A i : Bridge!FinalizeRow(i) = BridgeP!FinalizeRow(i)
        /\ Bridge!Reorg = BridgeP!Reorg
        /\ Bridge!Finalize = BridgeP!Finalize
    BY BridgeSets, Zenon DEF Bridge!DeleteAccount, Bridge!chains, Bridge!db, Bridge!monitor,
       Bridge!Deploy, Bridge!Mine, Bridge!Balance, Bridge!Moved, Bridge!FinalizeRow,
       Bridge!Reorg, Bridge!Finalize, BridgeP!DeleteAccount, BridgeP!chains, BridgeP!db,
       BridgeP!monitor, BridgeP!Deploy, BridgeP!Mine, BridgeP!Balance, BridgeP!Moved,
       BridgeP!FinalizeRow, BridgeP!Reorg, BridgeP!Finalize
  <1>5. /\ Bridge!LoadList = BridgeP!LoadList
        /\ Bridge!IbetToEth = BridgeP!IbetToEth
        /\ Bridge!EthToIbet = BridgeP!EthToIbet
        /\ Bridge!AbortPass = BridgeP!AbortPass
        /\ Bridge!Restart = BridgeP!Restart
    BY BridgeSets, Zenon DEF Bridge!LoadList, Bridge!chains, Bridge!db, Bridge!IbetToEth,
       Bridge!BridgeLocks, Bridge!Inserted, Bridge!MintRow, Bridge!Row, Bridge!EthToIbet,
       Bridge!Upto, Bridge!Burns, Bridge!Transfers, Bridge!UnlockRow, Bridge!ChangeRow,
       Bridge!AbortPass, Bridge!Restart, BridgeP!LoadList, BridgeP!chains, BridgeP!db,
       BridgeP!IbetToEth, BridgeP!BridgeLocks, BridgeP!Inserted, BridgeP!MintRow,
       BridgeP!Row, BridgeP!EthToIbet, BridgeP!Upto, BridgeP!Burns, BridgeP!Transfers,
       BridgeP!UnlockRow, BridgeP!ChangeRow, BridgeP!AbortPass, BridgeP!Restart
  <1>6. /\ Bridge!SelectPending = BridgeP!SelectPending
        /\ Bridge!EndPass = BridgeP!EndPass
        /\ \A j : Bridge!Execute(j) = BridgeP!Execute(j)
        /\ \A j : Bridge!ExecuteLate(j) = BridgeP!ExecuteLate(j)
    BY BridgeSets, Zenon DEF Bridge!SelectPending, Bridge!Pending, Bridge!chains, Bridge!db,
       Bridge!monitor, Bridge!EndPass, Bridge!Execute, Bridge!Covered, Bridge!Moved,
       Bridge!ExecuteLate, BridgeP!SelectPending, BridgeP!Pending, BridgeP!chains,
       BridgeP!db, BridgeP!monitor, BridgeP!EndPass, BridgeP!Execute, BridgeP!Covered,
       BridgeP!Moved, BridgeP!ExecuteLate
  <1> QED
    BY <1>1, <1>3, <1>4, <1>5, <1>6, Zenon DEF Bridge!Next, Bridge!Users, BridgeP!Next,
       BridgeP!Users

LEMMA BridgeStays ==
    ASSUME UNCHANGED vars
    PROVE  UNCHANGED BridgeP!vars
  BY Zenon DEF vars, BridgeP!vars, BridgeP!chains, BridgeP!db, BridgeP!monitor

LEMMA BridgeSame ==
    /\ Bridge!Init = BridgeP!Init
    /\ Bridge!MintedOnce = BridgeP!MintedOnce
    /\ Bridge!RowPerEvent = BridgeP!RowPerEvent
    /\ Bridge!ResultStays = BridgeP!ResultStays
    /\ Bridge!BridgeAssumption = BridgeP!BridgeAssumption
    /\ Bridge!Backed = BridgeP!Backed
  BY BridgeSets, Zenon DEF Bridge!Init, Bridge!NoBalance, Bridge!MintedOnce, Bridge!Mints,
     Bridge!RowPerEvent, Bridge!Rows, Bridge!ResultStays, Bridge!BridgeAssumption,
     Bridge!Backed, Bridge!Balance, Bridge!Unmined, Bridge!IsFiniteSet, BridgeP!Init,
     BridgeP!NoBalance, BridgeP!MintedOnce, BridgeP!Mints, BridgeP!RowPerEvent,
     BridgeP!Rows, BridgeP!ResultStays, BridgeP!BridgeAssumption, BridgeP!Backed,
     BridgeP!Balance, BridgeP!Unmined, BridgeP!IsFiniteSet

LEMMA BooksSets ==
    /\ \A S : Books!Cardinality(S) = BooksP!Cardinality(S)
    /\ \A f : Books!SumFunction(f) = BooksP!SumFunction(f)
  BY Zenon DEF Books!Cardinality, Books!IsFiniteSet, Books!SumFunction,
     Books!SumFunctionOnSet, Books!FoldFunctionOnSet, Books!MapThenFoldSet,
     BooksP!Cardinality, BooksP!IsFiniteSet, BooksP!SumFunction, BooksP!SumFunctionOnSet,
     BooksP!FoldFunctionOnSet, BooksP!MapThenFoldSet

LEMMA BooksSteps ==
    ASSUME Books!Next
    PROVE  BooksP!Next
  <1>1. /\ \A a, v, bridge : Books!Lock(a, v, bridge) = BooksP!Lock(a, v, bridge)
        /\ \A a, v : Books!ForceUnlock(a, v) = BooksP!ForceUnlock(a, v)
    BY BooksSets, Zenon DEF Books!Lock, Books!db, Books!monitor, Books!ForceUnlock,
       Books!BurnsSeen, BooksP!Lock, BooksP!db, BooksP!monitor, BooksP!ForceUnlock,
       BooksP!BurnsSeen
  <1>2. /\ \A a : Books!Balance(a) = BooksP!Balance(a)
        /\ \A r : Books!Request(r) = BooksP!Request(r)
    BY BooksSets, Zenon DEF Books!Balance, Books!Request, Books!Requested, Books!Inserted,
       Books!chains, Books!monitor, BooksP!Balance, BooksP!Request, BooksP!Requested,
       BooksP!Inserted, BooksP!chains, BooksP!monitor
  <1>3. /\ \A a, b, v : Books!RequestTransfer(a, b, v) = BooksP!RequestTransfer(a, b, v)
        /\ \A a, v : Books!RequestBurn(a, v) = BooksP!RequestBurn(a, v)
        /\ \A a, v : Books!RequestForceBurn(a, v) = BooksP!RequestForceBurn(a, v)
    BY <1>2, Zenon DEF Books!RequestTransfer, Books!RequestBurn, Books!RequestForceBurn,
       Books!Row, BooksP!RequestTransfer, BooksP!RequestBurn, BooksP!RequestForceBurn,
       BooksP!Row
  <1>4. /\ Books!DeleteAccount = BooksP!DeleteAccount
        /\ Books!Deploy = BooksP!Deploy
        /\ \A i : Books!Mine(i) = BooksP!Mine(i)
        /\ \A i : Books!FinalizeRow(i) = BooksP!FinalizeRow(i)
        /\ Books!Reorg = BooksP!Reorg
        /\ Books!Finalize = BooksP!Finalize
    BY BooksSets, Zenon DEF Books!DeleteAccount, Books!chains, Books!db, Books!monitor,
       Books!Deploy, Books!Mine, Books!Balance, Books!Moved, Books!FinalizeRow, Books!Reorg,
       Books!Finalize, BooksP!DeleteAccount, BooksP!chains, BooksP!db, BooksP!monitor,
       BooksP!Deploy, BooksP!Mine, BooksP!Balance, BooksP!Moved, BooksP!FinalizeRow,
       BooksP!Reorg, BooksP!Finalize
  <1>5. /\ Books!LoadList = BooksP!LoadList
        /\ Books!IbetToEth = BooksP!IbetToEth
        /\ Books!EthToIbet = BooksP!EthToIbet
        /\ Books!AbortPass = BooksP!AbortPass
        /\ Books!Restart = BooksP!Restart
    BY BooksSets, Zenon DEF Books!LoadList, Books!chains, Books!db, Books!IbetToEth,
       Books!BridgeLocks, Books!Inserted, Books!MintRow, Books!Row, Books!EthToIbet,
       Books!Upto, Books!Burns, Books!Transfers, Books!UnlockRow, Books!ChangeRow,
       Books!AbortPass, Books!Restart, BooksP!LoadList, BooksP!chains, BooksP!db,
       BooksP!IbetToEth, BooksP!BridgeLocks, BooksP!Inserted, BooksP!MintRow, BooksP!Row,
       BooksP!EthToIbet, BooksP!Upto, BooksP!Burns, BooksP!Transfers, BooksP!UnlockRow,
       BooksP!ChangeRow, BooksP!AbortPass, BooksP!Restart
  <1>6. /\ Books!SelectPending = BooksP!SelectPending
        /\ Books!EndPass = BooksP!EndPass
        /\ \A j : Books!Execute(j) = BooksP!Execute(j)
        /\ \A j : Books!ExecuteLate(j) = BooksP!ExecuteLate(j)
    BY BooksSets, Zenon DEF Books!SelectPending, Books!Pending, Books!chains, Books!db,
       Books!monitor, Books!EndPass, Books!Execute, Books!Covered, Books!Moved,
       Books!ExecuteLate, BooksP!SelectPending, BooksP!Pending, BooksP!chains, BooksP!db,
       BooksP!monitor, BooksP!EndPass, BooksP!Execute, BooksP!Covered, BooksP!Moved,
       BooksP!ExecuteLate
  <1> QED
    BY <1>1, <1>3, <1>4, <1>5, <1>6, Zenon DEF Books!Next, Books!Users, BooksP!Next, BooksP!Users

LEMMA BooksStays ==
    ASSUME UNCHANGED vars
    PROVE  UNCHANGED BooksP!vars
  BY Zenon DEF vars, BooksP!vars, BooksP!chains, BooksP!db, BooksP!monitor

LEMMA BooksSame ==
    /\ Books!Init = BooksP!Init
    /\ Books!BridgeAssumption = BooksP!BridgeAssumption
    /\ Books!BooksAgree = BooksP!BooksAgree
  BY BooksSets, Zenon DEF Books!Init, Books!NoBalance, Books!BridgeAssumption,
     Books!BooksAgree, Books!NotAcross, Books!IsFiniteSet, BooksP!Init, BooksP!NoBalance,
     BooksP!BridgeAssumption, BooksP!BooksAgree, BooksP!NotAcross, BooksP!IsFiniteSet

LEMMA GapsSets ==
    /\ \A S : Gaps!Cardinality(S) = GapsP!Cardinality(S)
  BY Zenon DEF Gaps!Cardinality, Gaps!IsFiniteSet, GapsP!Cardinality, GapsP!IsFiniteSet

LEMMA GapsSteps ==
    ASSUME Gaps!Next
    PROVE  GapsP!Next
  <1>1. /\ \A a, v, bridge : Gaps!Lock(a, v, bridge) = GapsP!Lock(a, v, bridge)
        /\ \A a, v : Gaps!ForceUnlock(a, v) = GapsP!ForceUnlock(a, v)
    BY GapsSets, Zenon DEF Gaps!Lock, Gaps!db, Gaps!monitor, Gaps!ForceUnlock,
       Gaps!BurnsSeen, GapsP!Lock, GapsP!db, GapsP!monitor, GapsP!ForceUnlock,
       GapsP!BurnsSeen
  <1>2. /\ \A a : Gaps!Balance(a) = GapsP!Balance(a)
        /\ \A r : Gaps!Request(r) = GapsP!Request(r)
    BY GapsSets, Zenon DEF Gaps!Balance, Gaps!Request, Gaps!Requested, Gaps!Inserted,
       Gaps!chains, Gaps!monitor, GapsP!Balance, GapsP!Request, GapsP!Requested,
       GapsP!Inserted, GapsP!chains, GapsP!monitor
  <1>3. /\ \A a, b, v : Gaps!RequestTransfer(a, b, v) = GapsP!RequestTransfer(a, b, v)
        /\ \A a, v : Gaps!RequestBurn(a, v) = GapsP!RequestBurn(a, v)
        /\ \A a, v : Gaps!RequestForceBurn(a, v) = GapsP!RequestForceBurn(a, v)
    BY <1>2, Zenon DEF Gaps!RequestTransfer, Gaps!RequestBurn, Gaps!RequestForceBurn,
       Gaps!Row, GapsP!RequestTransfer, GapsP!RequestBurn, GapsP!RequestForceBurn, GapsP!Row
  <1>4. /\ Gaps!DeleteAccount = GapsP!DeleteAccount
        /\ Gaps!Deploy = GapsP!Deploy
        /\ \A i : Gaps!Mine(i) = GapsP!Mine(i)
        /\ \A i : Gaps!FinalizeRow(i) = GapsP!FinalizeRow(i)
        /\ Gaps!Reorg = GapsP!Reorg
        /\ Gaps!Finalize = GapsP!Finalize
    BY GapsSets, Zenon DEF Gaps!DeleteAccount, Gaps!chains, Gaps!db, Gaps!monitor,
       Gaps!Deploy, Gaps!Mine, Gaps!Balance, Gaps!Moved, Gaps!FinalizeRow, Gaps!Reorg,
       Gaps!Finalize, GapsP!DeleteAccount, GapsP!chains, GapsP!db, GapsP!monitor,
       GapsP!Deploy, GapsP!Mine, GapsP!Balance, GapsP!Moved, GapsP!FinalizeRow, GapsP!Reorg,
       GapsP!Finalize
  <1>5. /\ Gaps!LoadList = GapsP!LoadList
        /\ Gaps!IbetToEth = GapsP!IbetToEth
        /\ Gaps!EthToIbet = GapsP!EthToIbet
        /\ Gaps!AbortPass = GapsP!AbortPass
        /\ Gaps!Restart = GapsP!Restart
    BY GapsSets, Zenon DEF Gaps!LoadList, Gaps!chains, Gaps!db, Gaps!IbetToEth,
       Gaps!BridgeLocks, Gaps!Inserted, Gaps!MintRow, Gaps!Row, Gaps!EthToIbet, Gaps!Upto,
       Gaps!Burns, Gaps!Transfers, Gaps!UnlockRow, Gaps!ChangeRow, Gaps!AbortPass,
       Gaps!Restart, GapsP!LoadList, GapsP!chains, GapsP!db, GapsP!IbetToEth,
       GapsP!BridgeLocks, GapsP!Inserted, GapsP!MintRow, GapsP!Row, GapsP!EthToIbet,
       GapsP!Upto, GapsP!Burns, GapsP!Transfers, GapsP!UnlockRow, GapsP!ChangeRow,
       GapsP!AbortPass, GapsP!Restart
  <1>6. /\ Gaps!SelectPending = GapsP!SelectPending
        /\ Gaps!EndPass = GapsP!EndPass
        /\ \A j : Gaps!Execute(j) = GapsP!Execute(j)
        /\ \A j : Gaps!ExecuteLate(j) = GapsP!ExecuteLate(j)
    BY GapsSets, Zenon DEF Gaps!SelectPending, Gaps!Pending, Gaps!chains, Gaps!db,
       Gaps!monitor, Gaps!EndPass, Gaps!Execute, Gaps!Covered, Gaps!Moved, Gaps!ExecuteLate,
       GapsP!SelectPending, GapsP!Pending, GapsP!chains, GapsP!db, GapsP!monitor,
       GapsP!EndPass, GapsP!Execute, GapsP!Covered, GapsP!Moved, GapsP!ExecuteLate
  <1> QED
    BY <1>1, <1>3, <1>4, <1>5, <1>6, Zenon DEF Gaps!Next, Gaps!Users, GapsP!Next, GapsP!Users

LEMMA GapsStays ==
    ASSUME UNCHANGED vars
    PROVE  UNCHANGED GapsP!vars
  BY Zenon DEF vars, GapsP!vars, GapsP!chains, GapsP!db, GapsP!monitor

LEMMA GapsSame ==
    /\ Gaps!Init = GapsP!Init
    /\ Gaps!MintedOnce = GapsP!MintedOnce
    /\ Gaps!RowPerEvent = GapsP!RowPerEvent
    /\ Gaps!BridgeAssumption = GapsP!BridgeAssumption
  BY GapsSets, Zenon DEF Gaps!Init, Gaps!NoBalance, Gaps!MintedOnce, Gaps!Mints,
     Gaps!RowPerEvent, Gaps!Rows, Gaps!BridgeAssumption, Gaps!IsFiniteSet, GapsP!Init,
     GapsP!NoBalance, GapsP!MintedOnce, GapsP!Mints, GapsP!RowPerEvent, GapsP!Rows,
     GapsP!BridgeAssumption, GapsP!IsFiniteSet

-----------------------------------------------------------------------------
(* The invariant.                                                          *)

BridgeInv ==
    /\ scenario = "bridge" => BridgeP!MoneyInv
    /\ scenario = "books" => BooksP!MoneyInv
    /\ scenario = "gaps" => GapsP!MoneyInv

LEMMA BridgeAssumed ==
    BridgeP!BridgeAssumption /\ BooksP!BridgeAssumption /\ GapsP!BridgeAssumption
  BY ScenarioAssumption, BridgeSame, BooksSame, GapsSame, Zenon

LEMMA BridgeBegins ==
    ASSUME Init
    PROVE  BridgeInv
  <1>1. ASSUME scenario = "bridge" PROVE BridgeP!MoneyInv
    <2>1. BridgeP!Init
      BY <1>1, BridgeSame, Zenon DEF Init
    <2> QED
      BY <2>1, BridgeAssumed, BridgeP!Initially, BridgeP!MoneyInitially, Zenon DEF BridgeP!MoneyInv
  <1>2. ASSUME scenario = "books" PROVE BooksP!MoneyInv
    <2>1. BooksP!Init
      BY <1>2, BooksSame, Zenon DEF Init
    <2> QED
      BY <2>1, BridgeAssumed, BooksP!Initially, BooksP!MoneyInitially, Zenon DEF BooksP!MoneyInv
  <1>3. ASSUME scenario = "gaps" PROVE GapsP!MoneyInv
    <2>1. GapsP!Init
      BY <1>3, GapsSame, Zenon DEF Init
    <2> QED
      BY <2>1, BridgeAssumed, GapsP!Initially, GapsP!MoneyInitially, Zenon DEF GapsP!MoneyInv
  <1> QED
    BY <1>1, <1>2, <1>3, Zenon DEF BridgeInv

\* A step is one of its scenario, or of nothing.
LEMMA OwnSteps ==
    ASSUME [Next]_vars
    PROVE  /\ scenario' = scenario
           /\ scenario = "bridge" => [BridgeP!Next]_BridgeP!vars
           /\ scenario = "books" => [BooksP!Next]_BooksP!vars
           /\ scenario = "gaps" => [GapsP!Next]_GapsP!vars
  <1>1. CASE UNCHANGED vars
    BY <1>1, BridgeStays, BooksStays, GapsStays, Zenon DEF vars
  <1>2. CASE Next
    <2>1. scenario' = scenario
      BY <1>2, Zenon DEF Next
    <2>2. ASSUME scenario = "bridge" PROVE Bridge!Next
      BY <1>2, <2>2, Zenon DEF Next
    <2>3. ASSUME scenario = "books" PROVE Books!Next
      BY <1>2, <2>3, Zenon DEF Next
    <2>4. ASSUME scenario = "gaps" PROVE Gaps!Next
      BY <1>2, <2>4, Zenon DEF Next
    <2> QED
      BY <2>1, <2>2, <2>3, <2>4, BridgeSteps, BooksSteps, GapsSteps, Zenon
  <1> QED
    BY <1>1, <1>2, Zenon

LEMMA BridgeGoesOn ==
    ASSUME BridgeInv, [Next]_vars
    PROVE  BridgeInv'
  <1>1. ASSUME scenario = "bridge" PROVE BridgeP!MoneyInv'
    BY <1>1, BridgeAssumed, OwnSteps, BridgeP!MoneyNext, Zenon DEF BridgeInv
  <1>2. ASSUME scenario = "books" PROVE BooksP!MoneyInv'
    BY <1>2, BridgeAssumed, OwnSteps, BooksP!MoneyNext, Zenon DEF BridgeInv
  <1>3. ASSUME scenario = "gaps" PROVE GapsP!MoneyInv'
    BY <1>3, BridgeAssumed, OwnSteps, GapsP!MoneyNext, Zenon DEF BridgeInv
  <1> QED
    BY <1>1, <1>2, <1>3, OwnSteps, Zenon DEF BridgeInv

LEMMA BridgeInvariant == Spec => []BridgeInv
  BY BridgeBegins, BridgeGoesOn, PTL DEF Spec

-----------------------------------------------------------------------------
(* Approvals.                                                              *)

LEMMA ApprovalsSame ==
    /\ Approvals!Next => BooksP!Approval!Next
    /\ Approvals!Init = BooksP!Approval!Init
    /\ Approvals!TransferApprovalAssumption = BooksP!Approval!TransferApprovalAssumption
    /\ Approvals!StatusIsTrue = BooksP!Approval!StatusIsTrue
    /\ Approvals!RecordedOnce = BooksP!Approval!RecordedOnce
  BY ZenonT(60) DEF Approvals!Next, Approvals!Applications, Approvals!ApplyForTransfer,
     Approvals!Emit, Approvals!pass, Approvals!FinishEscrow, Approvals!CancelByApplicant,
     Approvals!TokenIsIssued, Approvals!contracts, Approvals!SetTradableExchange,
     Approvals!GetContractList, Approvals!StartSync, Approvals!Commit, Approvals!Unknown,
     Approvals!Events, Approvals!Overflows, Approvals!Before, Approvals!LotOf,
     Approvals!SyncAll, Approvals!Handlers, Approvals!Rows,
     Approvals!SinkOnTransferApproval, Approvals!Row, Approvals!NewRow,
     Approvals!InsertNotifications, Approvals!Notes, Approvals!RegisterNotification,
     Approvals!Rollback, Approvals!Operations, Approvals!StartUpdate, Approvals!Idle,
     Approvals!Contains, Approvals!ApproveTransfer, Approvals!Now, Approvals!Approvable,
     Approvals!GoTo, Approvals!Answer, Approvals!CancelAfterRevert,
     Approvals!CancelTransfer, Approvals!RecordOperation, Approvals!Init,
     Approvals!TransferApprovalAssumption, Approvals!StatusIsTrue, Approvals!StatusOf,
     Approvals!Done, Approvals!RecordedOnce, Approvals!ListHistory, BooksP!Approval!Next,
     BooksP!Approval!Applications, BooksP!Approval!ApplyForTransfer, BooksP!Approval!Emit,
     BooksP!Approval!pass, BooksP!Approval!FinishEscrow, BooksP!Approval!CancelByApplicant,
     BooksP!Approval!TokenIsIssued, BooksP!Approval!contracts,
     BooksP!Approval!SetTradableExchange, BooksP!Approval!GetContractList,
     BooksP!Approval!StartSync, BooksP!Approval!Commit, BooksP!Approval!Unknown,
     BooksP!Approval!Events, BooksP!Approval!Overflows, BooksP!Approval!Before,
     BooksP!Approval!LotOf, BooksP!Approval!SyncAll, BooksP!Approval!Handlers,
     BooksP!Approval!Rows, BooksP!Approval!SinkOnTransferApproval, BooksP!Approval!Row,
     BooksP!Approval!NewRow, BooksP!Approval!InsertNotifications, BooksP!Approval!Notes,
     BooksP!Approval!RegisterNotification, BooksP!Approval!Rollback,
     BooksP!Approval!Operations, BooksP!Approval!StartUpdate, BooksP!Approval!Idle,
     BooksP!Approval!Contains, BooksP!Approval!ApproveTransfer, BooksP!Approval!Now,
     BooksP!Approval!Approvable, BooksP!Approval!GoTo, BooksP!Approval!Answer,
     BooksP!Approval!CancelAfterRevert, BooksP!Approval!CancelTransfer,
     BooksP!Approval!RecordOperation, BooksP!Approval!Init,
     BooksP!Approval!TransferApprovalAssumption, BooksP!Approval!StatusIsTrue,
     BooksP!Approval!StatusOf, BooksP!Approval!Done, BooksP!Approval!RecordedOnce,
     BooksP!Approval!ListHistory

LEMMA ApprovalsHolds ==
    /\ Approvals!Init => BooksP!ApprovalInv
    /\ BooksP!ApprovalInv /\ (Approvals!Next \/ UNCHANGED vars) => BooksP!ApprovalInv'
    /\ BooksP!ApprovalInv => Approvals!StatusIsTrue /\ Approvals!RecordedOnce
  <1>1. BooksP!ApprovalAssumption
    BY ScenarioAssumption, ApprovalsSame, Zenon DEF BooksP!ApprovalAssumption
  <1>2. UNCHANGED vars => UNCHANGED BooksP!Approval!vars
    BY Zenon DEF vars, BooksP!Approval!vars, BooksP!Approval!contracts, BooksP!Approval!pass
  <1> QED
    BY <1>1, <1>2, ApprovalsSame, BooksP!ApprovalInitially, BooksP!ApprovalPreserved,
       BooksP!ApprovalTruth, Zenon

LEMMA IndexingSame ==
    /\ Indexing!Next => BridgeP!Approval!Next
    /\ Indexing!Init = BridgeP!Approval!Init
    /\ Indexing!TransferApprovalAssumption = BridgeP!Approval!TransferApprovalAssumption
    /\ Indexing!RowsMatch = BridgeP!Approval!RowsMatch
    /\ Indexing!StatusIsTrue = BridgeP!Approval!StatusIsTrue
    /\ Indexing!NotifiedOnce = BridgeP!Approval!NotifiedOnce
  BY ZenonT(60) DEF Indexing!Next, Indexing!Applications, Indexing!ApplyForTransfer,
     Indexing!Emit, Indexing!pass, Indexing!FinishEscrow, Indexing!CancelByApplicant,
     Indexing!TokenIsIssued, Indexing!contracts, Indexing!SetTradableExchange,
     Indexing!GetContractList, Indexing!StartSync, Indexing!Commit, Indexing!Unknown,
     Indexing!Events, Indexing!Overflows, Indexing!Before, Indexing!LotOf, Indexing!SyncAll,
     Indexing!Handlers, Indexing!Rows, Indexing!SinkOnTransferApproval, Indexing!Row,
     Indexing!NewRow, Indexing!InsertNotifications, Indexing!Notes,
     Indexing!RegisterNotification, Indexing!Rollback, Indexing!Operations,
     Indexing!StartUpdate, Indexing!Idle, Indexing!Contains, Indexing!ApproveTransfer,
     Indexing!Now, Indexing!Approvable, Indexing!GoTo, Indexing!Answer,
     Indexing!CancelAfterRevert, Indexing!CancelTransfer, Indexing!RecordOperation,
     Indexing!Init, Indexing!TransferApprovalAssumption, Indexing!RowsMatch,
     Indexing!StatusIsTrue, Indexing!StatusOf, Indexing!Done, Indexing!NotifiedOnce,
     BridgeP!Approval!Next, BridgeP!Approval!Applications,
     BridgeP!Approval!ApplyForTransfer, BridgeP!Approval!Emit, BridgeP!Approval!pass,
     BridgeP!Approval!FinishEscrow, BridgeP!Approval!CancelByApplicant,
     BridgeP!Approval!TokenIsIssued, BridgeP!Approval!contracts,
     BridgeP!Approval!SetTradableExchange, BridgeP!Approval!GetContractList,
     BridgeP!Approval!StartSync, BridgeP!Approval!Commit, BridgeP!Approval!Unknown,
     BridgeP!Approval!Events, BridgeP!Approval!Overflows, BridgeP!Approval!Before,
     BridgeP!Approval!LotOf, BridgeP!Approval!SyncAll, BridgeP!Approval!Handlers,
     BridgeP!Approval!Rows, BridgeP!Approval!SinkOnTransferApproval, BridgeP!Approval!Row,
     BridgeP!Approval!NewRow, BridgeP!Approval!InsertNotifications, BridgeP!Approval!Notes,
     BridgeP!Approval!RegisterNotification, BridgeP!Approval!Rollback,
     BridgeP!Approval!Operations, BridgeP!Approval!StartUpdate, BridgeP!Approval!Idle,
     BridgeP!Approval!Contains, BridgeP!Approval!ApproveTransfer, BridgeP!Approval!Now,
     BridgeP!Approval!Approvable, BridgeP!Approval!GoTo, BridgeP!Approval!Answer,
     BridgeP!Approval!CancelAfterRevert, BridgeP!Approval!CancelTransfer,
     BridgeP!Approval!RecordOperation, BridgeP!Approval!Init,
     BridgeP!Approval!TransferApprovalAssumption, BridgeP!Approval!RowsMatch,
     BridgeP!Approval!StatusIsTrue, BridgeP!Approval!StatusOf, BridgeP!Approval!Done,
     BridgeP!Approval!NotifiedOnce

LEMMA IndexingHolds ==
    /\ Indexing!Init => BridgeP!ApprovalInv
    /\ BridgeP!ApprovalInv /\ (Indexing!Next \/ UNCHANGED vars) => BridgeP!ApprovalInv'
    /\ BridgeP!ApprovalInv => Indexing!RowsMatch /\ Indexing!StatusIsTrue /\ Indexing!NotifiedOnce
  <1>1. BridgeP!ApprovalAssumption
    BY ScenarioAssumption, IndexingSame, Zenon DEF BridgeP!ApprovalAssumption
  <1>2. UNCHANGED vars => UNCHANGED BridgeP!Approval!vars
    BY Zenon DEF vars, BridgeP!Approval!vars, BridgeP!Approval!contracts,
       BridgeP!Approval!pass
  <1> QED
    BY <1>1, <1>2, IndexingSame, BridgeP!ApprovalInitially, BridgeP!ApprovalPreserved,
       BridgeP!ApprovalTruth, BridgeP!ApprovalMatch, Zenon

ApprovalsInv ==
    /\ scenario = "approvals" => BooksP!ApprovalInv
    /\ scenario = "indexing" => BridgeP!ApprovalInv

LEMMA ApprovalsInvariant == Spec => []ApprovalsInv
  <1>1. Init => ApprovalsInv
    <2>1. Init /\ scenario = "approvals" => Approvals!Init
      BY Zenon DEF Init
    <2>2. Init /\ scenario = "indexing" => Indexing!Init
      BY Zenon DEF Init
    <2> QED
      BY <2>1, <2>2, ApprovalsHolds, IndexingHolds, Zenon DEF ApprovalsInv
  <1>2. ApprovalsInv /\ [Next]_vars => ApprovalsInv'
    <2>1. [Next]_vars /\ scenario = "approvals" => Approvals!Next \/ UNCHANGED vars
      BY Zenon DEF Next
    <2>2. [Next]_vars /\ scenario = "indexing" => Indexing!Next \/ UNCHANGED vars
      BY Zenon DEF Next
    <2> QED
      BY <2>1, <2>2, OwnSteps, ApprovalsHolds, IndexingHolds, Zenon DEF ApprovalsInv
  <1> QED
    BY <1>1, <1>2, PTL DEF Spec

-----------------------------------------------------------------------------
(* Ledgers.                                                                *)

LEMMA LedgersSame ==
    /\ Ledgers!Next => GapsP!Ledger!Next
    /\ Ledgers!Init = GapsP!Ledger!Init
    /\ Ledgers!LedgerAssumption = GapsP!Ledger!LedgerAssumption
    /\ Ledgers!ShowsTheRequest = GapsP!Ledger!ShowsTheRequest
    /\ Ledgers!FlagTellsMissing = GapsP!Ledger!FlagTellsMissing
    /\ Ledgers!OncePerRequest = GapsP!Ledger!OncePerRequest
    /\ Ledgers!LatestTellsMissing = GapsP!Ledger!LatestTellsMissing
  BY ZenonT(60) DEF Ledgers!Next, Ledgers!CreateUpdateTemplate,
     Ledgers!RequestLedgerCreation, Ledgers!SourcesOf, Ledgers!CreateLedgerInputDataset,
     Ledgers!DatasetFromIbetfin, Ledgers!DatasetFromDB, Ledgers!session,
     Ledgers!DeleteTemplate, Ledgers!tables, Ledgers!CreateDetailsData,
     Ledgers!UpdateDetailsData, Ledgers!DeleteDetailsData, Ledgers!UtxoChanged, Ledgers!api,
     Ledgers!InfoChanged, Ledgers!TimeLimit, Ledgers!SyncRequest, Ledgers!Unset,
     Ledgers!Named, Ledgers!StartPass, Ledgers!Finalize, Ledgers!FinalizeLedger,
     Ledgers!DetailsOf, Ledgers!RowsOf, Ledgers!EndRequest, Ledgers!EndPass, Ledgers!Abort,
     Ledgers!Init, Ledgers!LedgerAssumption, Ledgers!Sources, Ledgers!ShowsTheRequest,
     Ledgers!FlagTellsMissing, Ledgers!OncePerRequest, Ledgers!LatestTellsMissing,
     Ledgers!LatestFlags, GapsP!Ledger!Next, GapsP!Ledger!CreateUpdateTemplate,
     GapsP!Ledger!RequestLedgerCreation, GapsP!Ledger!SourcesOf,
     GapsP!Ledger!CreateLedgerInputDataset, GapsP!Ledger!DatasetFromIbetfin,
     GapsP!Ledger!DatasetFromDB, GapsP!Ledger!session, GapsP!Ledger!DeleteTemplate,
     GapsP!Ledger!tables, GapsP!Ledger!CreateDetailsData, GapsP!Ledger!UpdateDetailsData,
     GapsP!Ledger!DeleteDetailsData, GapsP!Ledger!UtxoChanged, GapsP!Ledger!api,
     GapsP!Ledger!InfoChanged, GapsP!Ledger!TimeLimit, GapsP!Ledger!SyncRequest,
     GapsP!Ledger!Unset, GapsP!Ledger!Named, GapsP!Ledger!StartPass, GapsP!Ledger!Finalize,
     GapsP!Ledger!FinalizeLedger, GapsP!Ledger!DetailsOf, GapsP!Ledger!RowsOf,
     GapsP!Ledger!EndRequest, GapsP!Ledger!EndPass, GapsP!Ledger!Abort, GapsP!Ledger!Init,
     GapsP!Ledger!LedgerAssumption, GapsP!Ledger!Sources, GapsP!Ledger!ShowsTheRequest,
     GapsP!Ledger!FlagTellsMissing, GapsP!Ledger!OncePerRequest,
     GapsP!Ledger!LatestTellsMissing, GapsP!Ledger!LatestFlags

LEMMA LedgersHolds ==
    /\ Ledgers!Init => GapsP!LedgerInv
    /\ GapsP!LedgerInv /\ (Ledgers!Next \/ UNCHANGED vars) => GapsP!LedgerInv'
    /\ GapsP!LedgerInv => /\ Ledgers!ShowsTheRequest /\ Ledgers!FlagTellsMissing
                         /\ Ledgers!OncePerRequest /\ Ledgers!LatestTellsMissing
  <1>1. GapsP!TheLedgerAssumption
    BY ScenarioAssumption, LedgersSame, Zenon DEF GapsP!TheLedgerAssumption
  <1>2. UNCHANGED vars => UNCHANGED GapsP!Ledger!vars
    BY Zenon DEF vars, GapsP!Ledger!vars, GapsP!Ledger!api, GapsP!Ledger!tables,
       GapsP!Ledger!session
  <1> QED
    BY <1>1, <1>2, LedgersSame, GapsP!LedgerInitially, GapsP!LedgerPreserved,
       GapsP!LedgerTruth, Zenon

LedgersInv == scenario = "ledgers" => GapsP!LedgerInv

LEMMA LedgersInvariant == Spec => []LedgersInv
  <1>1. Init => LedgersInv
    <2>1. Init /\ scenario = "ledgers" => Ledgers!Init
      BY Zenon DEF Init
    <2> QED
      BY <2>1, LedgersHolds, Zenon DEF LedgersInv
  <1>2. LedgersInv /\ [Next]_vars => LedgersInv'
    <2>1. [Next]_vars /\ scenario = "ledgers" => Ledgers!Next \/ UNCHANGED vars
      BY Zenon DEF Next
    <2> QED
      BY <2>1, OwnSteps, LedgersHolds, Zenon DEF LedgersInv
  <1> QED
    BY <1>1, <1>2, PTL DEF Spec

-----------------------------------------------------------------------------
(* Lists of holders.                                                       *)

LEMMA CollectingSets ==
    /\ \A S : Collecting!Cardinality(S) = BooksP!HolderList!Cardinality(S)
    /\ \A f : Collecting!SumFunction(f) = BooksP!HolderList!SumFunction(f)
    /\ \A S : Collecting!Min(S) = BooksP!HolderList!Min(S)
    /\ \A S : Collecting!Max(S) = BooksP!HolderList!Max(S)
  BY Zenon DEF Collecting!Cardinality, Collecting!IsFiniteSet, Collecting!SumFunction,
     Collecting!SumFunctionOnSet, Collecting!FoldFunctionOnSet, Collecting!MapThenFoldSet,
     Collecting!Min, Collecting!Max, BooksP!HolderList!Cardinality,
     BooksP!HolderList!IsFiniteSet, BooksP!HolderList!SumFunction,
     BooksP!HolderList!SumFunctionOnSet, BooksP!HolderList!FoldFunctionOnSet,
     BooksP!HolderList!MapThenFoldSet, BooksP!HolderList!Min, BooksP!HolderList!Max

LEMMA CollectingSteps == Collecting!Next => BooksP!HolderList!Next
  <1>1. \A w, d, l : Collecting!Held(w, d, l) = BooksP!HolderList!Held(w, d, l)
    BY Zenon DEF Collecting!Held, Collecting!SumFunction, Collecting!SumFunctionOnSet,
       Collecting!FoldFunctionOnSet, Collecting!MapThenFoldSet, BooksP!HolderList!Held,
       BooksP!HolderList!SumFunction, BooksP!HolderList!SumFunctionOnSet,
       BooksP!HolderList!FoldFunctionOnSet, BooksP!HolderList!MapThenFoldSet
  <1>2. \A event, w, d, l : Collecting!Block(event, w, d, l) = BooksP!HolderList!Block(event, w, d, l)
    BY CollectingSets, <1>1, Zenon DEF Collecting!Block, Collecting!db, Collecting!local,
       BooksP!HolderList!Block, BooksP!HolderList!db, BooksP!HolderList!local
  <1>3. /\ \A a, b : Collecting!Transfer(a, b) = BooksP!HolderList!Transfer(a, b)
        /\ \A a : Collecting!Issue(a) = BooksP!HolderList!Issue(a)
        /\ \A a : Collecting!Redeem(a) = BooksP!HolderList!Redeem(a)
        /\ \A a, type : Collecting!Lock(a, type) = BooksP!HolderList!Lock(a, type)
    BY CollectingSets, <1>2, Zenon DEF Collecting!Transfer, Collecting!OfToken,
       Collecting!Event, Collecting!Pass, Collecting!Moved, Collecting!Issue,
       Collecting!Redeem, Collecting!Lock, BooksP!HolderList!Transfer,
       BooksP!HolderList!OfToken, BooksP!HolderList!Event, BooksP!HolderList!Pass,
       BooksP!HolderList!Moved, BooksP!HolderList!Issue, BooksP!HolderList!Redeem,
       BooksP!HolderList!Lock
  <1>4. /\ \A a, b, type : Collecting!Unlock(a, b, type) = BooksP!HolderList!Unlock(a, b, type)
        /\ \A a, b : Collecting!ForceChangeLockedAccount(a, b) = BooksP!HolderList!ForceChangeLockedAccount(a, b)
    BY CollectingSets, <1>2, Zenon DEF Collecting!Unlock, Collecting!OfToken,
       Collecting!Event, Collecting!Moved, Collecting!ForceChangeLockedAccount,
       Collecting!Pass, BooksP!HolderList!Unlock, BooksP!HolderList!OfToken,
       BooksP!HolderList!Event, BooksP!HolderList!Moved,
       BooksP!HolderList!ForceChangeLockedAccount, BooksP!HolderList!Pass
  <1>5. /\ \A a, x : Collecting!Deposit(a, x) = BooksP!HolderList!Deposit(a, x)
        /\ \A a, x : Collecting!Withdraw(a, x) = BooksP!HolderList!Withdraw(a, x)
        /\ \A a, b, x : Collecting!HolderChanged(a, b, x) = BooksP!HolderList!HolderChanged(a, b, x)
    BY CollectingSets, <1>2, Zenon DEF Collecting!Deposit, Collecting!Event,
       Collecting!Moved, Collecting!Withdraw, Collecting!HolderChanged,
       BooksP!HolderList!Deposit, BooksP!HolderList!Event, BooksP!HolderList!Moved,
       BooksP!HolderList!Withdraw, BooksP!HolderList!HolderChanged
  <1>6. /\ Collecting!SetExchange = BooksP!HolderList!SetExchange
        /\ \A block : Collecting!CreateTokenHoldersCollection(block) = BooksP!HolderList!CreateTokenHoldersCollection(block)
    BY CollectingSets, Zenon DEF Collecting!SetExchange, Collecting!db, Collecting!local,
       Collecting!CreateTokenHoldersCollection, Collecting!NoRows, Collecting!NoUnits,
       Collecting!chain, BooksP!HolderList!SetExchange, BooksP!HolderList!db,
       BooksP!HolderList!local, BooksP!HolderList!CreateTokenHoldersCollection,
       BooksP!HolderList!NoRows, BooksP!HolderList!NoUnits, BooksP!HolderList!chain
  <1>7. Collecting!ChainStep = BooksP!HolderList!ChainStep
    BY CollectingSets, <1>3, <1>4, <1>5, <1>6, Zenon DEF Collecting!ChainStep,
       BooksP!HolderList!ChainStep
  <1>8. /\ Collecting!LoadTarget = BooksP!HolderList!LoadTarget
        /\ Collecting!LoadCheckpoint = BooksP!HolderList!LoadCheckpoint
    BY CollectingSets, Zenon DEF Collecting!LoadTarget, Collecting!chain, Collecting!db,
       Collecting!LoadCheckpoint, BooksP!HolderList!LoadTarget, BooksP!HolderList!chain,
       BooksP!HolderList!db, BooksP!HolderList!LoadCheckpoint
  <1>9. /\ \A type, a, m, n : Collecting!Out(type, a, m, n) = BooksP!HolderList!Out(type, a, m, n)
        /\ \A type, a, m, n : Collecting!In(type, a, m, n) = BooksP!HolderList!In(type, a, m, n)
    BY Zenon DEF Collecting!Out, Collecting!Cardinality, Collecting!IsFiniteSet,
       Collecting!EventsOf, Collecting!In, BooksP!HolderList!Out,
       BooksP!HolderList!Cardinality, BooksP!HolderList!IsFiniteSet,
       BooksP!HolderList!EventsOf, BooksP!HolderList!In
  <1>10. \A a, m, n : Collecting!ProcessTransfer(a, m, n) = BooksP!HolderList!ProcessTransfer(a, m, n)
    BY <1>9, Zenon DEF Collecting!ProcessTransfer, Collecting!OnExchange,
       Collecting!EventsOf, Collecting!Cardinality, Collecting!IsFiniteSet,
       BooksP!HolderList!ProcessTransfer, BooksP!HolderList!OnExchange,
       BooksP!HolderList!EventsOf, BooksP!HolderList!Cardinality,
       BooksP!HolderList!IsFiniteSet
  <1>11. \A a, m, n : Collecting!Stored(a, m, n) = BooksP!HolderList!Stored(a, m, n)
    BY <1>9, <1>10, SMT DEF Collecting!Stored, Collecting!ProcessLock,
       Collecting!ProcessForceLock, Collecting!ProcessUnlock, Collecting!ProcessForceUnlock,
       Collecting!ProcessIssue, Collecting!ProcessRedeem,
       Collecting!ProcessForceChangeLockedAccount, BooksP!HolderList!Stored,
       BooksP!HolderList!ProcessLock, BooksP!HolderList!ProcessForceLock,
       BooksP!HolderList!ProcessUnlock, BooksP!HolderList!ProcessForceUnlock,
       BooksP!HolderList!ProcessIssue, BooksP!HolderList!ProcessRedeem,
       BooksP!HolderList!ProcessForceChangeLockedAccount
  <1>12. /\ \A b : Collecting!SaveHolders(b) = BooksP!HolderList!SaveHolders(b)
        /\ Collecting!NextLot = BooksP!HolderList!NextLot
    BY CollectingSets, Zenon DEF Collecting!SaveHolders, Collecting!NextLot,
       BooksP!HolderList!SaveHolders, BooksP!HolderList!NextLot
  <1>13. Collecting!ProcessAll = BooksP!HolderList!ProcessAll
    BY CollectingSets, <1>11, <1>12, Zenon DEF Collecting!ProcessAll, Collecting!chain,
       Collecting!db, BooksP!HolderList!ProcessAll, BooksP!HolderList!chain,
       BooksP!HolderList!db
  <1>14. /\ Collecting!UpdateStatusDone = BooksP!HolderList!UpdateStatusDone
        /\ Collecting!UpdateStatusFailed = BooksP!HolderList!UpdateStatusFailed
    BY CollectingSets, Zenon DEF Collecting!UpdateStatusDone, Collecting!NoUnits,
       Collecting!Reset, Collecting!NoBook, Collecting!NoRows, Collecting!chain,
       Collecting!UpdateStatusFailed, BooksP!HolderList!UpdateStatusDone,
       BooksP!HolderList!NoUnits, BooksP!HolderList!Reset, BooksP!HolderList!NoBook,
       BooksP!HolderList!NoRows, BooksP!HolderList!chain,
       BooksP!HolderList!UpdateStatusFailed
  <1>15. /\ Collecting!CollectFails = BooksP!HolderList!CollectFails
        /\ Collecting!UpdateStatusFails = BooksP!HolderList!UpdateStatusFails
        /\ Collecting!Crash = BooksP!HolderList!Crash
    BY CollectingSets, Zenon DEF Collecting!CollectFails, Collecting!NoRows,
       Collecting!NoUnits, Collecting!chain, Collecting!db, Collecting!UpdateStatusFails,
       Collecting!Crash, Collecting!Reset, Collecting!NoBook,
       BooksP!HolderList!CollectFails, BooksP!HolderList!NoRows, BooksP!HolderList!NoUnits,
       BooksP!HolderList!chain, BooksP!HolderList!db, BooksP!HolderList!UpdateStatusFails,
       BooksP!HolderList!Crash, BooksP!HolderList!Reset, BooksP!HolderList!NoBook
  <1> QED
    BY <1>6, <1>7, <1>8, <1>13, <1>14, <1>15, Zenon DEF Collecting!Next, Collecting!Collect,
       BooksP!HolderList!Next, BooksP!HolderList!Collect

LEMMA CollectingSame ==
    /\ Collecting!Init = BooksP!HolderList!Init
    /\ Collecting!TokenHoldersAssumption = BooksP!HolderList!TokenHoldersAssumption
    /\ Collecting!ListIsTrue = BooksP!HolderList!ListIsTrue
  BY CollectingSets, Zenon DEF Collecting!Init, Collecting!NoBook, Collecting!NoUnits,
     Collecting!NoRows, Collecting!TokenHoldersAssumption, Collecting!ListIsTrue,
     Collecting!ListAllTokenHoldersCollections, Collecting!RetrieveTokenHoldersCollection,
     Collecting!IsFiniteSet, BooksP!HolderList!Init, BooksP!HolderList!NoBook,
     BooksP!HolderList!NoUnits, BooksP!HolderList!NoRows,
     BooksP!HolderList!TokenHoldersAssumption, BooksP!HolderList!ListIsTrue,
     BooksP!HolderList!ListAllTokenHoldersCollections,
     BooksP!HolderList!RetrieveTokenHoldersCollection, BooksP!HolderList!IsFiniteSet

LEMMA CollectingHolds ==
    /\ Collecting!Init => BooksP!HolderInv
    /\ BooksP!HolderInv /\ (Collecting!Next \/ UNCHANGED vars) => BooksP!HolderInv'
    /\ BooksP!HolderInv => Collecting!ListIsTrue
  <1>1. BooksP!HolderAssumption
    BY ScenarioAssumption, CollectingSame, Zenon DEF BooksP!HolderAssumption
  <1>2. UNCHANGED vars => UNCHANGED BooksP!HolderList!vars
    BY Zenon DEF vars, BooksP!HolderList!vars, BooksP!HolderList!chain,
       BooksP!HolderList!db, BooksP!HolderList!local
  <1>3. BooksP!HolderInv => BooksP!HolderList!ListIsTrue
    BY Zenon DEF BooksP!HolderInv
  <1> QED
    BY <1>1, <1>2, <1>3, CollectingSteps, CollectingSame, BooksP!HolderInitially,
       BooksP!HolderPreserved, Zenon

CollectingInv == scenario = "collecting" => BooksP!HolderInv

LEMMA CollectingInvariant == Spec => []CollectingInv
  <1>1. Init => CollectingInv
    <2>1. Init /\ scenario = "collecting" => Collecting!Init
      BY Zenon DEF Init
    <2> QED
      BY <2>1, CollectingHolds, Zenon DEF CollectingInv
  <1>2. CollectingInv /\ [Next]_vars => CollectingInv'
    <2>1. [Next]_vars /\ scenario = "collecting" => Collecting!Next \/ UNCHANGED vars
      BY Zenon DEF Next
    <2> QED
      BY <2>1, OwnSteps, CollectingHolds, Zenon DEF CollectingInv
  <1> QED
    BY <1>1, <1>2, PTL DEF Spec

-----------------------------------------------------------------------------
(* The theorems.                                                           *)

\* In the scenarios of the bridge a lock is minted once, and a final burn or transfer
\* has one row for ibet, whatever is aborted, reorganised or started again.
THEOREM BridgeOnce == Spec => []BridgeRowsOnce
  <1>1. ASSUME BridgeInv PROVE BridgeRowsOnce
    <2>1. ASSUME scenario = "bridge" PROVE Bridge!MintedOnce /\ Bridge!RowPerEvent
      <3>1. BridgeP!IInv
        BY <1>1, <2>1, Zenon DEF BridgeInv, BridgeP!MoneyInv
      <3> QED
        BY <3>1, BridgeAssumed, BridgeP!MintsOnce, BridgeP!RowsOnce, BridgeSame, Zenon
    <2>2. ASSUME scenario = "gaps" PROVE Gaps!MintedOnce /\ Gaps!RowPerEvent
      <3>1. GapsP!IInv
        BY <1>1, <2>2, Zenon DEF BridgeInv, GapsP!MoneyInv
      <3> QED
        BY <3>1, BridgeAssumed, GapsP!MintsOnce, GapsP!RowsOnce, GapsSame, Zenon
    <2> QED
      BY <2>1, <2>2, Zenon DEF BridgeRowsOnce
  <1> QED
    BY <1>1, BridgeInvariant, PTL

\* What is locked covers the supply on Ethereum, with reorganisations and transactions
\* mined late; account by account when all rows are executed and nothing was undone.
THEOREM BridgeCovered == Spec => []BridgeIsBacked
  <1>1. ASSUME BridgeInv PROVE BridgeIsBacked
    <2>1. ASSUME scenario = "bridge" PROVE Bridge!Backed
      BY <1>1, <2>1, BridgeAssumed, BridgeP!Covers, BridgeSame, Zenon DEF BridgeInv
    <2>2. ASSUME scenario = "books" PROVE Books!BooksAgree
      BY <1>1, <2>2, BridgeAssumed, BooksP!Agrees, BooksSame, Zenon DEF BridgeInv
    <2> QED
      BY <2>1, <2>2, Zenon DEF BridgeIsBacked
  <1> QED
    BY <1>1, BridgeInvariant, PTL

\* No step of the bridge's scenario changes a row that has a result.
THEOREM BridgeResults == Spec => BridgeResultsStay
  <1>1. ASSUME BridgeInv, [Next]_vars PROVE [scenario = "bridge" => Bridge!ResultStays]_vars
    <2>1. ASSUME scenario = "bridge" PROVE Bridge!ResultStays
      <3>1. BridgeP!IInv
        BY <1>1, <2>1, Zenon DEF BridgeInv, BridgeP!MoneyInv
      <3>2. [BridgeP!Next]_BridgeP!vars
        BY <1>1, <2>1, OwnSteps, Zenon
      <3> QED
        BY <3>1, <3>2, BridgeAssumed, BridgeP!KeepsResults, BridgeSame, Zenon
    <2> QED
      BY <2>1, Zenon
  <1> QED
    BY <1>1, BridgeInvariant, PTL DEF Spec, BridgeResultsStay

\* The status that is shown of an application is true of its contract and an operation
\* is recorded once, with two requests at the same time; the index is what the events
\* give in their order, for every size of a lot and any failed passes.
THEOREM ApprovalTruth == Spec => []ApprovalsAreTrue
  <1>1. ApprovalsInv => ApprovalsAreTrue
    BY ApprovalsHolds, IndexingHolds, Zenon DEF ApprovalsInv, ApprovalsAreTrue
  <1> QED
    BY <1>1, ApprovalsInvariant, PTL

\* The issuer is notified once of every event of an approval that concerns him.
THEOREM ApprovalNotices == Spec => []ApprovalsNotifiedOnce
  <1>1. ApprovalsInv => ApprovalsNotifiedOnce
    BY IndexingHolds, Zenon DEF ApprovalsInv, ApprovalsNotifiedOnce
  <1> QED
    BY <1>1, ApprovalsInvariant, PTL

\* A ledger shows the data of the moment its request was made, once for each request, and
\* tells when personal information was missing, with any requests, edits of the data,
\* trades and failed passes.
THEOREM LedgerTruth == Spec => []LedgersAreTrue
  <1>1. LedgersInv => LedgersAreTrue
    BY LedgersHolds, Zenon DEF LedgersInv, LedgersAreTrue
  <1> QED
    BY <1>1, LedgersInvariant, PTL

\* A list of holders that is done shows what everybody but the issuer held at its block,
\* whatever list it started from, for every size of a lot, with any requests, events,
\* failures and restarts.
THEOREM HolderListTruth == Spec => []HolderListsAreTrue
  <1>1. CollectingInv => HolderListsAreTrue
    BY CollectingHolds, Zenon DEF CollectingInv, HolderListsAreTrue
  <1> QED
    BY <1>1, CollectingInvariant, PTL
==============================================================================
