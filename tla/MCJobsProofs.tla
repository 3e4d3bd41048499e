----------------------------- MODULE MCJobsProofs -----------------------------
(* Properties that a run of MCJobs checks, for every value of the constants that *)
(* MCJobs leaves open, the bound on failures among them: the theorems of       *)
(* JobProofs at the constants of the scenarios.  What JobProofs has for another *)
(* component is given any value.                                            *)
EXTENDS MCJobs, TLAPS

RegisteringP == INSTANCE JobProofs WITH
    Workers <- {w1, w2}, Uploads <- {1, 2, 3}, Rows <- {r1, r2, r3, r4}, UploadOf <- UploadOfRow,
    IssuerOf <- TwoIssuers, NoAccount <- {i2}, NoRsaKey <- {}, Unbound <- {3}, WorkerLotSize <- 2,
    Shares <- {}, Redemptions <- {}, Batched <- {}, LotSize <- 2, Lot <- 2, MaxSingles <- 0, KeyFaults <- FALSE,
    Events <- {}, TypeOf <- (t1 :> "bond") @@ (t2 :> "share"), At <- <<>>, End <- 0, Errors <- FALSE, MaxDeletions <- 0,
    Tokens <- {t1, t2}, Items <- {a1, a2}, ItemsOf <- (t1 :> {a1, a2}) @@ (t2 :> {a1}), WithWST <- {t1},
    TokenType <- "bond", Version <- 2509, Readers <- {q1}, Updaters <- {x1, x2}, UseCache <- TRUE,
    Request <- (x1 :> {"interest_rate", "memo"}) @@ (x2 :> {"interest_rate"}),
    Accounts <- {a1}, Intervals <- {1}, Generations <- {2}, Passphrases <- {p1}, FirstPassphrase <- p1,
    MaxTime <- 3, MaxKeys <- 2, MaxMessages <- 2,
    Holders <- {}, Contracts <- {c1}, FirstContract <- c1, ContractChanges <- FALSE, PassphraseChanges <- 0,
    MaxWrites <- 0, MaxEvents <- 0
LotsP == INSTANCE JobProofs WITH
    Uploads <- {u1}, Shares <- {}, Redemptions <- {}, Batched <- {u1}, Rows <- {r1, r2, r3},
    UploadOf <- OneUpload({r1, r2, r3}), LotSize <- 2, Lot <- 2, KeyFaults <- FALSE, MaxSingles <- 0,
    NoAccount <- {}, NoRsaKey <- {}, Unbound <- {}, WorkerLotSize <- 2,
    Workers <- {w1}, Events <- {e1, e2}, IssuerOf <- (e1 :> i1) @@ (e2 :> i1),
    TypeOf <- (e1 :> "share") @@ (e2 :> "share"), At <- (e1 :> 0) @@ (e2 :> 0),
    End <- 0, Errors <- TRUE, MaxDeletions <- 1,
    Tokens <- {}, Items <- {}, ItemsOf <- <<>>, WithWST <- {},
    TokenType <- "bond", Version <- 2509, Readers <- {}, Updaters <- {}, UseCache <- FALSE, Request <- <<>>,
    Accounts <- {}, Intervals <- {}, Generations <- {}, Passphrases <- {}, FirstPassphrase <- p1,
    MaxTime <- 0, MaxKeys <- 0, MaxMessages <- 0,
    Holders <- {}, Contracts <- {c1}, FirstContract <- c1, ContractChanges <- FALSE, PassphraseChanges <- 0,
    MaxWrites <- 0, MaxEvents <- 0
KindsP == INSTANCE JobProofs WITH
    Uploads <- {u1, u2}, Shares <- {u1}, Redemptions <- {u2}, Batched <- {}, Rows <- {r1, r2},
    UploadOf <- OneEach, LotSize <- 2, Lot <- 2, KeyFaults <- TRUE, MaxSingles <- 0,
    Workers <- {}, IssuerOf <- <<>>,
    NoAccount <- {}, NoRsaKey <- {}, Unbound <- {}, WorkerLotSize <- 2,
    Events <- {}, TypeOf <- (t1 :> "bond") @@ (t2 :> "share"), At <- <<>>, End <- 0, Errors <- FALSE, MaxDeletions <- 0,
    Tokens <- {t1, t2}, Items <- {a1, a2}, ItemsOf <- (t1 :> {a1, a2}) @@ (t2 :> {}), WithWST <- {t1},
    TokenType <- "share", Version <- 2509, Readers <- {}, Updaters <- {x1, x2}, UseCache <- FALSE,
    Request <- (x1 :> {"dividends", "memo"}) @@ (x2 :> {"status", "memo"}),
    Accounts <- {}, Intervals <- {}, Generations <- {}, Passphrases <- {}, FirstPassphrase <- p1,
    MaxTime <- 0, MaxKeys <- 0, MaxMessages <- 0,
    Holders <- {}, Contracts <- {c1}, FirstContract <- c1, ContractChanges <- FALSE, PassphraseChanges <- 0,
    MaxWrites <- 0, MaxEvents <- 0
ScheduledP == INSTANCE JobProofs WITH
    Workers <- {w1, w2}, Events <- {e1, e2}, IssuerOf <- (e1 :> i1) @@ (e2 :> i1),
    TypeOf <- (e1 :> "bond") @@ (e2 :> "share"), At <- (e1 :> 1) @@ (e2 :> 0),
    End <- 1, KeyFaults <- TRUE, Errors <- TRUE, MaxDeletions <- 1, MaxFaults <- 1,
    Uploads <- {}, Rows <- {}, UploadOf <- <<>>,
    NoAccount <- {}, NoRsaKey <- {}, Unbound <- {}, WorkerLotSize <- 2,
    Shares <- {}, Redemptions <- {}, Batched <- {}, LotSize <- 2, Lot <- 2, MaxSingles <- 0,
    Tokens <- {}, Items <- {}, ItemsOf <- <<>>, WithWST <- {},
    TokenType <- "bond", Version <- 2509, Readers <- {}, Updaters <- {}, UseCache <- FALSE, Request <- <<>>,
    Accounts <- {}, Intervals <- {}, Generations <- {}, Passphrases <- {p1}, FirstPassphrase <- p1,
    MaxTime <- 0, MaxKeys <- 2, MaxMessages <- 0,
    Holders <- {h1, h2}, Contracts <- {c1}, FirstContract <- c1, ContractChanges <- FALSE,
    PassphraseChanges <- 0, MaxWrites <- 2, MaxEvents <- 3
HistoriesP == INSTANCE JobProofs WITH
    Uploads <- {u1, u2}, Shares <- {u2}, Redemptions <- {u2}, Batched <- {u2}, Rows <- {r1, r2},
    UploadOf <- OneEach, LotSize <- 2, Lot <- 2, KeyFaults <- FALSE, MaxSingles <- 1, MaxFaults <- 0,
    Holders <- {h1}, Contracts <- {c1, c2}, FirstContract <- c1, ContractChanges <- TRUE,
    PassphraseChanges <- 1, Passphrases <- {p1, p2}, MaxKeys <- 2, MaxWrites <- 2, MaxEvents <- 3,
    Workers <- {}, IssuerOf <- <<>>,
    NoAccount <- {}, NoRsaKey <- {}, Unbound <- {}, WorkerLotSize <- 2,
    Events <- {}, TypeOf <- <<>>, At <- <<>>, End <- 0, Errors <- FALSE, MaxDeletions <- 0,
    Tokens <- {}, Items <- {}, ItemsOf <- <<>>, WithWST <- {},
    TokenType <- "bond", Version <- 2509, Readers <- {}, Updaters <- {}, UseCache <- FALSE, Request <- <<>>,
    Accounts <- {}, Intervals <- {}, Generations <- {}, FirstPassphrase <- p1, MaxTime <- 0, MaxMessages <- 0

-----------------------------------------------------------------------------
(* What is defined in a scenario is what its instance of the proofs speaks of:  *)
(* two names of one definition, so the first lemma of each only expands them.  *)

LEMMA RegisteringSame ==
    /\ Registering!Next => RegisteringP!Next
    /\ Registering!Init = RegisteringP!Init
    /\ Registering!BatchRegisterAssumption = RegisteringP!BatchRegisterAssumption
    /\ Registering!OneWorker = RegisteringP!OneWorker
    /\ Registering!ReportIsTrue = RegisteringP!ReportIsTrue
    /\ Registering!RegisteredOnce = RegisteringP!RegisteredOnce
  BY ZenonT(60) DEF Registering!Next,
     Registering!InitiateBondTokenBatchPersonalInfoRegistration, Registering!Initiate,
     Registering!work, Registering!InitiateShareTokenBatchPersonalInfoRegistration,
     Registering!Work, Registering!GetFirst, Registering!Preferred, Registering!Candidates,
     Registering!Locked, Registering!InOrder, Registering!Cardinality,
     Registering!IsFiniteSet, Registering!db, Registering!GetRest, Registering!Others,
     Registering!SetOf, Registering!IssuerMissing, Registering!FinishUpload,
     Registering!GetRegistrationData, Registering!RowsOf, Registering!RegisterInfo,
     Registering!Result, Registering!Fault, Registering!NoContract, Registering!WorkerEnds,
     Registering!SinkOnFinishRegisterProcess, Registering!NothingSent, Registering!Finish,
     Registering!Abort, Registering!Lost, Registering!Restart, Registering!NoClaims,
     Registering!AllIdle, Registering!NoLists, Registering!NoneSent, Registering!Init,
     Registering!BatchRegisterAssumption, Registering!OneWorker, Registering!ReportIsTrue,
     Registering!RegisteredOnce, RegisteringP!Next,
     RegisteringP!InitiateBondTokenBatchPersonalInfoRegistration, RegisteringP!Initiate,
     RegisteringP!work, RegisteringP!InitiateShareTokenBatchPersonalInfoRegistration,
     RegisteringP!Work, RegisteringP!GetFirst, RegisteringP!Preferred,
     RegisteringP!Candidates, RegisteringP!Locked, RegisteringP!InOrder,
     RegisteringP!Cardinality, RegisteringP!IsFiniteSet, RegisteringP!db,
     RegisteringP!GetRest, RegisteringP!Others, RegisteringP!SetOf,
     RegisteringP!IssuerMissing, RegisteringP!FinishUpload,
     RegisteringP!GetRegistrationData, RegisteringP!RowsOf, RegisteringP!RegisterInfo,
     RegisteringP!Result, RegisteringP!Fault, RegisteringP!NoContract,
     RegisteringP!WorkerEnds, RegisteringP!SinkOnFinishRegisterProcess,
     RegisteringP!NothingSent, RegisteringP!Finish, RegisteringP!Abort, RegisteringP!Lost,
     RegisteringP!Restart, RegisteringP!NoClaims, RegisteringP!AllIdle,
     RegisteringP!NoLists, RegisteringP!NoneSent, RegisteringP!Init,
     RegisteringP!BatchRegisterAssumption, RegisteringP!OneWorker,
     RegisteringP!ReportIsTrue, RegisteringP!RegisteredOnce

LEMMA RegisteringHolds ==
    /\ Registering!Init => RegisteringP!IInv
    /\ RegisteringP!IInv /\ (Registering!Next \/ UNCHANGED vars) => RegisteringP!IInv'
    /\ RegisteringP!IInv => Registering!OneWorker
    /\ RegisteringP!IInv => Registering!ReportIsTrue
    /\ RegisteringP!IInv => Registering!RegisteredOnce
  <1>1. RegisteringP!BatchRegisterAssumption
    BY ScenarioAssumption, RegisteringSame, Zenon
  <1>2. UNCHANGED vars => UNCHANGED RegisteringP!vars
    BY Zenon DEF vars, RegisteringP!vars, RegisteringP!db, RegisteringP!work
  <1> QED
    BY <1>1, <1>2, RegisteringSame, RegisteringP!Initially, RegisteringP!Preserved,
       RegisteringP!Apart, RegisteringP!Truth, RegisteringP!Bounded, Zenon

LEMMA LotsSame ==
    /\ Lots!Next => LotsP!Issue!Next
    /\ Lots!Init = LotsP!Issue!Init
    /\ Lots!BatchIssueRedeemAssumption = LotsP!Issue!BatchIssueRedeemAssumption
    /\ Lots!ExecutedOnce = LotsP!Issue!ExecutedOnce
  <1>1. Lots!SyncNewLogs = LotsP!Issue!SyncNewLogs
    BY ZenonT(60) DEF Lots!SyncNewLogs, Lots!SyncAll, Lots!OfCategory, Lots!LotStarts,
       Lots!Lesser, Lots!Cardinality, Lots!IsFiniteSet, Lots!db, Lots!chain, Lots!local,
       LotsP!Issue!SyncNewLogs, LotsP!Issue!SyncAll, LotsP!Issue!OfCategory,
       LotsP!Issue!LotStarts, LotsP!Issue!Lesser, LotsP!Issue!Cardinality,
       LotsP!Issue!IsFiniteSet, LotsP!Issue!db, LotsP!Issue!chain, LotsP!Issue!local
  <1>2. Lots!Next => LotsP!Issue!Next
    BY <1>1, ZenonT(60) DEF Lots!Next, Lots!IssueAdditionalBondsInBatch,
       Lots!CreateUpload, Lots!Type, Lots!Category, Lots!chain, Lots!local,
       Lots!IssueAdditionalSharesInBatch, Lots!RedeemBondsInBatch,
       Lots!RedeemSharesInBatch, Lots!IssueAdditionalBond, Lots!SingleRequest,
       Lots!Mined, Lots!db, Lots!IssueAdditionalShare, Lots!RedeemBond,
       Lots!RedeemShare, Lots!MineLate, Lots!ProcessorStep, Lots!StartPass,
       Lots!Injection, Lots!IsInjective, Lots!EndPass, Lots!AfterPass, Lots!Save,
       Lots!PauseUpload, Lots!NoKey, Lots!SinkOnNotification, Lots!StartUpload,
       Lots!Pending, Lots!RowsOf, Lots!Send, Lots!Chunks, Lots!ToSend, Lots!Cardinality,
       Lots!IsFiniteSet, Lots!EndUpload, Lots!Failed, Lots!Shutdown, Lots!Fault,
       Lots!Forget, Lots!Restart, LotsP!Issue!Next,
       LotsP!Issue!IssueAdditionalBondsInBatch, LotsP!Issue!CreateUpload,
       LotsP!Issue!Type, LotsP!Issue!Category, LotsP!Issue!chain, LotsP!Issue!local,
       LotsP!Issue!IssueAdditionalSharesInBatch, LotsP!Issue!RedeemBondsInBatch,
       LotsP!Issue!RedeemSharesInBatch, LotsP!Issue!IssueAdditionalBond,
       LotsP!Issue!SingleRequest, LotsP!Issue!Mined, LotsP!Issue!db,
       LotsP!Issue!IssueAdditionalShare, LotsP!Issue!RedeemBond,
       LotsP!Issue!RedeemShare, LotsP!Issue!MineLate, LotsP!Issue!ProcessorStep,
       LotsP!Issue!StartPass, LotsP!Issue!Injection, LotsP!Issue!IsInjective,
       LotsP!Issue!EndPass, LotsP!Issue!AfterPass, LotsP!Issue!Save,
       LotsP!Issue!PauseUpload, LotsP!Issue!NoKey, LotsP!Issue!SinkOnNotification,
       LotsP!Issue!StartUpload, LotsP!Issue!Pending, LotsP!Issue!RowsOf,
       LotsP!Issue!Send, LotsP!Issue!Chunks, LotsP!Issue!ToSend,
       LotsP!Issue!Cardinality, LotsP!Issue!IsFiniteSet, LotsP!Issue!EndUpload,
       LotsP!Issue!Failed, LotsP!Issue!Shutdown, LotsP!Issue!Fault, LotsP!Issue!Forget,
       LotsP!Issue!Restart
  <1>3. /\ Lots!Init = LotsP!Issue!Init
        /\ Lots!BatchIssueRedeemAssumption = LotsP!Issue!BatchIssueRedeemAssumption
        /\ Lots!ExecutedOnce = LotsP!Issue!ExecutedOnce
    BY ZenonT(60) DEF Lots!Init, Lots!BatchIssueRedeemAssumption, Lots!IsFiniteSet,
       Lots!ExecutedOnce, Lots!Times, Lots!Cardinality, LotsP!Issue!Init,
       LotsP!Issue!BatchIssueRedeemAssumption, LotsP!Issue!IsFiniteSet,
       LotsP!Issue!ExecutedOnce, LotsP!Issue!Times, LotsP!Issue!Cardinality
  <1> QED
    BY <1>2, <1>3, Zenon

LEMMA LotsHolds ==
    /\ Lots!Init => LotsP!IssueInv
    /\ LotsP!IssueInv /\ (Lots!Next \/ UNCHANGED vars) => LotsP!IssueInv'
    /\ LotsP!IssueInv => Lots!ExecutedOnce
  <1>1. LotsP!IssueAssumption
    BY ScenarioAssumption, LotsSame, Zenon DEF LotsP!IssueAssumption
  <1>2. UNCHANGED vars => UNCHANGED LotsP!Issue!vars
    BY Zenon DEF vars, LotsP!Issue!vars, LotsP!Issue!db, LotsP!Issue!chain,
       LotsP!Issue!local
  <1> QED
    BY <1>1, <1>2, LotsSame, LotsP!IssueInitially, LotsP!IssuePreserved, LotsP!IssueBounded,
       Zenon

LEMMA KindsSame ==
    /\ Kinds!Next => KindsP!Issue!Next
    /\ Kinds!Init = KindsP!Issue!Init
    /\ Kinds!BatchIssueRedeemAssumption = KindsP!Issue!BatchIssueRedeemAssumption
    /\ Kinds!ReportIsTrue = KindsP!Issue!ReportIsTrue
  <1>1. Kinds!SyncNewLogs = KindsP!Issue!SyncNewLogs
    BY ZenonT(60) DEF Kinds!SyncNewLogs, Kinds!SyncAll, Kinds!OfCategory,
       Kinds!LotStarts, Kinds!Lesser, Kinds!Cardinality, Kinds!IsFiniteSet, Kinds!db,
       Kinds!chain, Kinds!local, KindsP!Issue!SyncNewLogs, KindsP!Issue!SyncAll,
       KindsP!Issue!OfCategory, KindsP!Issue!LotStarts, KindsP!Issue!Lesser,
       KindsP!Issue!Cardinality, KindsP!Issue!IsFiniteSet, KindsP!Issue!db,
       KindsP!Issue!chain, KindsP!Issue!local
  <1>2. Kinds!Next => KindsP!Issue!Next
    BY <1>1, ZenonT(60) DEF Kinds!Next, Kinds!IssueAdditionalBondsInBatch,
       Kinds!CreateUpload, Kinds!Type, Kinds!Category, Kinds!chain, Kinds!local,
       Kinds!IssueAdditionalSharesInBatch, Kinds!RedeemBondsInBatch,
       Kinds!RedeemSharesInBatch, Kinds!IssueAdditionalBond, Kinds!SingleRequest,
       Kinds!Mined, Kinds!db, Kinds!IssueAdditionalShare, Kinds!RedeemBond,
       Kinds!RedeemShare, Kinds!MineLate, Kinds!ProcessorStep, Kinds!StartPass,
       Kinds!Injection, Kinds!IsInjective, Kinds!EndPass, Kinds!AfterPass, Kinds!Save,
       Kinds!PauseUpload, Kinds!NoKey, Kinds!SinkOnNotification, Kinds!StartUpload,
       Kinds!Pending, Kinds!RowsOf, Kinds!Send, Kinds!Chunks, Kinds!ToSend,
       Kinds!Cardinality, Kinds!IsFiniteSet, Kinds!EndUpload, Kinds!Failed,
       Kinds!Shutdown, Kinds!Fault, Kinds!Forget, Kinds!Restart, KindsP!Issue!Next,
       KindsP!Issue!IssueAdditionalBondsInBatch, KindsP!Issue!CreateUpload,
       KindsP!Issue!Type, KindsP!Issue!Category, KindsP!Issue!chain, KindsP!Issue!local,
       KindsP!Issue!IssueAdditionalSharesInBatch, KindsP!Issue!RedeemBondsInBatch,
       KindsP!Issue!RedeemSharesInBatch, KindsP!Issue!IssueAdditionalBond,
       KindsP!Issue!SingleRequest, KindsP!Issue!Mined, KindsP!Issue!db,
       KindsP!Issue!IssueAdditionalShare, KindsP!Issue!RedeemBond,
       KindsP!Issue!RedeemShare, KindsP!Issue!MineLate, KindsP!Issue!ProcessorStep,
       KindsP!Issue!StartPass, KindsP!Issue!Injection, KindsP!Issue!IsInjective,
       KindsP!Issue!EndPass, KindsP!Issue!AfterPass, KindsP!Issue!Save,
       KindsP!Issue!PauseUpload, KindsP!Issue!NoKey, KindsP!Issue!SinkOnNotification,
       KindsP!Issue!StartUpload, KindsP!Issue!Pending, KindsP!Issue!RowsOf,
       KindsP!Issue!Send, KindsP!Issue!Chunks, KindsP!Issue!ToSend,
       KindsP!Issue!Cardinality, KindsP!Issue!IsFiniteSet, KindsP!Issue!EndUpload,
       KindsP!Issue!Failed, KindsP!Issue!Shutdown, KindsP!Issue!Fault,
       KindsP!Issue!Forget, KindsP!Issue!Restart
  <1>3. /\ Kinds!Init = KindsP!Issue!Init
        /\ Kinds!BatchIssueRedeemAssumption = KindsP!Issue!BatchIssueRedeemAssumption
        /\ Kinds!ReportIsTrue = KindsP!Issue!ReportIsTrue
    BY ZenonT(60) DEF Kinds!Init, Kinds!BatchIssueRedeemAssumption, Kinds!IsFiniteSet,
       Kinds!ReportIsTrue, Kinds!Cardinality, Kinds!Answers,
       Kinds!RetrieveBatchAdditionalBondIssueStatus, Kinds!RetrieveStatus, Kinds!Type,
       Kinds!Category, Kinds!NotFound, Kinds!RowsOf,
       Kinds!RetrieveBatchAdditionalShareIssueStatus,
       Kinds!RetrieveBatchBondRedemptionStatus, Kinds!RetrieveBatchRedeem,
       Kinds!ListAllBatchAdditionalBondIssue, Kinds!ListUploads,
       Kinds!ListAllBatchAdditionalShareIssue, Kinds!ListAllBatchBondRedemption,
       Kinds!ListAllBatchShareRedemption, KindsP!Issue!Init,
       KindsP!Issue!BatchIssueRedeemAssumption, KindsP!Issue!IsFiniteSet,
       KindsP!Issue!ReportIsTrue, KindsP!Issue!Cardinality, KindsP!Issue!Answers,
       KindsP!Issue!RetrieveBatchAdditionalBondIssueStatus, KindsP!Issue!RetrieveStatus,
       KindsP!Issue!Type, KindsP!Issue!Category, KindsP!Issue!NotFound,
       KindsP!Issue!RowsOf, KindsP!Issue!RetrieveBatchAdditionalShareIssueStatus,
       KindsP!Issue!RetrieveBatchBondRedemptionStatus, KindsP!Issue!RetrieveBatchRedeem,
       KindsP!Issue!ListAllBatchAdditionalBondIssue, KindsP!Issue!ListUploads,
       KindsP!Issue!ListAllBatchAdditionalShareIssue,
       KindsP!Issue!ListAllBatchBondRedemption, KindsP!Issue!ListAllBatchShareRedemption
  <1> QED
    BY <1>2, <1>3, Zenon

LEMMA KindsHolds ==
    /\ Kinds!Init => KindsP!IssueInv
    /\ KindsP!IssueInv /\ (Kinds!Next \/ UNCHANGED vars) => KindsP!IssueInv'
    /\ KindsP!IssueInv => Kinds!ReportIsTrue
  <1>1. KindsP!IssueAssumption
    BY ScenarioAssumption, KindsSame, Zenon DEF KindsP!IssueAssumption
  <1>2. UNCHANGED vars => UNCHANGED KindsP!Issue!vars
    BY Zenon DEF vars, KindsP!Issue!vars, KindsP!Issue!db, KindsP!Issue!chain,
       KindsP!Issue!local
  <1> QED
    BY <1>1, <1>2, KindsSame, KindsP!IssueInitially, KindsP!IssuePreserved,
       KindsP!IssueTruth, Zenon

LEMMA HistoriesSame ==
    /\ Histories!Next => HistoriesP!Issue!Next
    /\ Histories!Init = HistoriesP!Issue!Init
    /\ Histories!BatchIssueRedeemAssumption = HistoriesP!Issue!BatchIssueRedeemAssumption
    /\ Histories!HistoryIsComplete = HistoriesP!Issue!HistoryIsComplete
  <1>1. Histories!SyncNewLogs = HistoriesP!Issue!SyncNewLogs
    BY ZenonT(60) DEF Histories!SyncNewLogs, Histories!SyncAll, Histories!OfCategory,
       Histories!LotStarts, Histories!Lesser, Histories!Cardinality,
       Histories!IsFiniteSet, Histories!db, Histories!chain, Histories!local,
       HistoriesP!Issue!SyncNewLogs, HistoriesP!Issue!SyncAll,
       HistoriesP!Issue!OfCategory, HistoriesP!Issue!LotStarts, HistoriesP!Issue!Lesser,
       HistoriesP!Issue!Cardinality, HistoriesP!Issue!IsFiniteSet, HistoriesP!Issue!db,
       HistoriesP!Issue!chain, HistoriesP!Issue!local
  <1>2. Histories!Next => HistoriesP!Issue!Next
    BY <1>1, ZenonT(60) DEF Histories!Next, Histories!IssueAdditionalBondsInBatch,
       Histories!CreateUpload, Histories!Type, Histories!Category, Histories!chain,
       Histories!local, Histories!IssueAdditionalSharesInBatch,
       Histories!RedeemBondsInBatch, Histories!RedeemSharesInBatch,
       Histories!IssueAdditionalBond, Histories!SingleRequest, Histories!Mined,
       Histories!db, Histories!IssueAdditionalShare, Histories!RedeemBond,
       Histories!RedeemShare, Histories!MineLate, Histories!ProcessorStep,
       Histories!StartPass, Histories!Injection, Histories!IsInjective,
       Histories!EndPass, Histories!AfterPass, Histories!Save, Histories!PauseUpload,
       Histories!NoKey, Histories!SinkOnNotification, Histories!StartUpload,
       Histories!Pending, Histories!RowsOf, Histories!Send, Histories!Chunks,
       Histories!ToSend, Histories!Cardinality, Histories!IsFiniteSet,
       Histories!EndUpload, Histories!Failed, Histories!Shutdown, Histories!Fault,
       Histories!Forget, Histories!Restart, HistoriesP!Issue!Next,
       HistoriesP!Issue!IssueAdditionalBondsInBatch, HistoriesP!Issue!CreateUpload,
       HistoriesP!Issue!Type, HistoriesP!Issue!Category, HistoriesP!Issue!chain,
       HistoriesP!Issue!local, HistoriesP!Issue!IssueAdditionalSharesInBatch,
       HistoriesP!Issue!RedeemBondsInBatch, HistoriesP!Issue!RedeemSharesInBatch,
       HistoriesP!Issue!IssueAdditionalBond, HistoriesP!Issue!SingleRequest,
       HistoriesP!Issue!Mined, HistoriesP!Issue!db,
       HistoriesP!Issue!IssueAdditionalShare, HistoriesP!Issue!RedeemBond,
       HistoriesP!Issue!RedeemShare, HistoriesP!Issue!MineLate,
       HistoriesP!Issue!ProcessorStep, HistoriesP!Issue!StartPass,
       HistoriesP!Issue!Injection, HistoriesP!Issue!IsInjective,
       HistoriesP!Issue!EndPass, HistoriesP!Issue!AfterPass, HistoriesP!Issue!Save,
       HistoriesP!Issue!PauseUpload, HistoriesP!Issue!NoKey,
       HistoriesP!Issue!SinkOnNotification, HistoriesP!Issue!StartUpload,
       HistoriesP!Issue!Pending, HistoriesP!Issue!RowsOf, HistoriesP!Issue!Send,
       HistoriesP!Issue!Chunks, HistoriesP!Issue!ToSend, HistoriesP!Issue!Cardinality,
       HistoriesP!Issue!IsFiniteSet, HistoriesP!Issue!EndUpload,
       HistoriesP!Issue!Failed, HistoriesP!Issue!Shutdown, HistoriesP!Issue!Fault,
       HistoriesP!Issue!Forget, HistoriesP!Issue!Restart
  <1>3. /\ Histories!Init = HistoriesP!Issue!Init
        /\ Histories!BatchIssueRedeemAssumption = HistoriesP!Issue!BatchIssueRedeemAssumption
        /\ Histories!HistoryIsComplete = HistoriesP!Issue!HistoryIsComplete
    BY ZenonT(60) DEF Histories!Init, Histories!BatchIssueRedeemAssumption,
       Histories!IsFiniteSet, Histories!HistoryIsComplete,
       Histories!ListBondAdditionalIssuanceHistory, Histories!History,
       Histories!ListShareAdditionalIssuanceHistory,
       Histories!ListBondRedemptionHistory, Histories!ListShareRedeemHistory,
       HistoriesP!Issue!Init, HistoriesP!Issue!BatchIssueRedeemAssumption,
       HistoriesP!Issue!IsFiniteSet, HistoriesP!Issue!HistoryIsComplete,
       HistoriesP!Issue!ListBondAdditionalIssuanceHistory, HistoriesP!Issue!History,
       HistoriesP!Issue!ListShareAdditionalIssuanceHistory,
       HistoriesP!Issue!ListBondRedemptionHistory,
       HistoriesP!Issue!ListShareRedeemHistory
  <1> QED
    BY <1>2, <1>3, Zenon

LEMMA HistoriesHolds ==
    /\ Histories!Init => HistoriesP!IssueInv
    /\ HistoriesP!IssueInv /\ (Histories!Next \/ UNCHANGED vars) => HistoriesP!IssueInv'
    /\ HistoriesP!IssueInv => Histories!HistoryIsComplete
  <1>1. HistoriesP!IssueAssumption
    BY ScenarioAssumption, HistoriesSame, Zenon DEF HistoriesP!IssueAssumption
  <1>2. UNCHANGED vars => UNCHANGED HistoriesP!Issue!vars
    BY Zenon DEF vars, HistoriesP!Issue!vars, HistoriesP!Issue!db, HistoriesP!Issue!chain,
       HistoriesP!Issue!local
  <1> QED
    BY <1>1, <1>2, HistoriesSame, HistoriesP!IssueInitially, HistoriesP!IssuePreserved,
       HistoriesP!IssueHistory, Zenon

LEMMA ScheduledSame ==
    /\ Scheduled!Next => ScheduledP!Sched!Next
    /\ Scheduled!Init = ScheduledP!Sched!Init
    /\ Scheduled!ScheduledEventsAssumption = ScheduledP!Sched!ScheduledEventsAssumption
    /\ Scheduled!ExecutedOnce = ScheduledP!Sched!ExecutedOnce
    /\ Scheduled!StatusIsTrue = ScheduledP!Sched!StatusIsTrue
  <1>1. \A w : Scheduled!WorkerStep(w) = ScheduledP!Sched!WorkerStep(w)
    BY ZenonT(60) DEF Scheduled!WorkerStep, Scheduled!StartPass, Scheduled!Goto,
       Scheduled!db, Scheduled!Claim, Scheduled!Due, Scheduled!Range, Scheduled!Earlier,
       Scheduled!Id, Scheduled!LoadEvents, Scheduled!InOrder, Scheduled!Cardinality,
       Scheduled!IsFiniteSet, Scheduled!Nobody, Scheduled!ReleaseProcessingIssuer,
       Scheduled!Released, Scheduled!LeavePass, Scheduled!local, Scheduled!NoKey,
       Scheduled!Finish, Scheduled!Execute, Scheduled!ExecuteFails, Scheduled!Save,
       ScheduledP!Sched!WorkerStep, ScheduledP!Sched!StartPass, ScheduledP!Sched!Goto,
       ScheduledP!Sched!db, ScheduledP!Sched!Claim, ScheduledP!Sched!Due,
       ScheduledP!Sched!Range, ScheduledP!Sched!Earlier, ScheduledP!Sched!Id,
       ScheduledP!Sched!LoadEvents, ScheduledP!Sched!InOrder, ScheduledP!Sched!Cardinality,
       ScheduledP!Sched!IsFiniteSet, ScheduledP!Sched!Nobody,
       ScheduledP!Sched!ReleaseProcessingIssuer, ScheduledP!Sched!Released,
       ScheduledP!Sched!LeavePass, ScheduledP!Sched!local, ScheduledP!Sched!NoKey,
       ScheduledP!Sched!Finish, ScheduledP!Sched!Execute, ScheduledP!Sched!ExecuteFails,
       ScheduledP!Sched!Save
  <1>2. Scheduled!Next => ScheduledP!Sched!Next
    BY <1>1, ZenonT(60) DEF Scheduled!Next, Scheduled!ScheduleBondTokenUpdateEvent,
       Scheduled!Schedule, Scheduled!IsInjective, Scheduled!Range, Scheduled!Known,
       Scheduled!local, Scheduled!ScheduleShareTokenUpdateEvent, Scheduled!Requests,
       Scheduled!Cardinality, Scheduled!IsFiniteSet,
       Scheduled!ScheduleBondTokenUpdateEventsInBatch,
       Scheduled!ScheduleShareTokenUpdateEventsInBatch,
       Scheduled!DeleteScheduledBondTokenUpdateEvent, Scheduled!Delete, Scheduled!Without,
       Scheduled!Id, Scheduled!DeleteScheduledShareTokenUpdateEvent, Scheduled!SaveFails,
       Scheduled!Released, Scheduled!Goto, Scheduled!Nobody, Scheduled!db, Scheduled!Tick,
       Scheduled!Shutdown, Scheduled!Crash, Scheduled!Restart, ScheduledP!Sched!Next,
       ScheduledP!Sched!ScheduleBondTokenUpdateEvent, ScheduledP!Sched!Schedule,
       ScheduledP!Sched!IsInjective, ScheduledP!Sched!Range, ScheduledP!Sched!Known,
       ScheduledP!Sched!local, ScheduledP!Sched!ScheduleShareTokenUpdateEvent,
       ScheduledP!Sched!Requests, ScheduledP!Sched!Cardinality,
       ScheduledP!Sched!IsFiniteSet, ScheduledP!Sched!ScheduleBondTokenUpdateEventsInBatch,
       ScheduledP!Sched!ScheduleShareTokenUpdateEventsInBatch,
       ScheduledP!Sched!DeleteScheduledBondTokenUpdateEvent, ScheduledP!Sched!Delete,
       ScheduledP!Sched!Without, ScheduledP!Sched!Id,
       ScheduledP!Sched!DeleteScheduledShareTokenUpdateEvent, ScheduledP!Sched!SaveFails,
       ScheduledP!Sched!Released, ScheduledP!Sched!Goto, ScheduledP!Sched!Nobody,
       ScheduledP!Sched!db, ScheduledP!Sched!Tick, ScheduledP!Sched!Shutdown,
       ScheduledP!Sched!Crash, ScheduledP!Sched!Restart
  <1>3. /\ Scheduled!Init = ScheduledP!Sched!Init
        /\ Scheduled!ScheduledEventsAssumption = ScheduledP!Sched!ScheduledEventsAssumption
        /\ Scheduled!ExecutedOnce = ScheduledP!Sched!ExecutedOnce
        /\ Scheduled!StatusIsTrue = ScheduledP!Sched!StatusIsTrue
    BY ZenonT(60) DEF Scheduled!Init, Scheduled!Nobody, Scheduled!ScheduledEventsAssumption,
       Scheduled!IsFiniteSet, Scheduled!Issuers, Scheduled!ExecutedOnce,
       Scheduled!Cardinality, Scheduled!StatusIsTrue, Scheduled!Answers,
       Scheduled!RetrieveScheduledBondTokenUpdateEvent, Scheduled!RetrieveEvent,
       Scheduled!Range, Scheduled!NotFound,
       Scheduled!RetrieveScheduledShareTokenUpdateEvent, Scheduled!ListAllScheduledEvents,
       Scheduled!ListAllScheduledBondTokenUpdateEvents, Scheduled!ListEvents,
       Scheduled!ListAllScheduledShareTokenUpdateEvents, ScheduledP!Sched!Init,
       ScheduledP!Sched!Nobody, ScheduledP!Sched!ScheduledEventsAssumption,
       ScheduledP!Sched!IsFiniteSet, ScheduledP!Sched!Issuers,
       ScheduledP!Sched!ExecutedOnce, ScheduledP!Sched!Cardinality,
       ScheduledP!Sched!StatusIsTrue, ScheduledP!Sched!Answers,
       ScheduledP!Sched!RetrieveScheduledBondTokenUpdateEvent,
       ScheduledP!Sched!RetrieveEvent, ScheduledP!Sched!Range, ScheduledP!Sched!NotFound,
       ScheduledP!Sched!RetrieveScheduledShareTokenUpdateEvent,
       ScheduledP!Sched!ListAllScheduledEvents,
       ScheduledP!Sched!ListAllScheduledBondTokenUpdateEvents, ScheduledP!Sched!ListEvents,
       ScheduledP!Sched!ListAllScheduledShareTokenUpdateEvents
  <1> QED
    BY <1>1, <1>2, <1>3, Zenon

LEMMA ScheduledHolds ==
    /\ Scheduled!Init => ScheduledP!EventInv
    /\ ScheduledP!EventInv /\ (Scheduled!Next \/ UNCHANGED vars) => ScheduledP!EventInv'
    /\ ScheduledP!EventInv => Scheduled!ExecutedOnce
    /\ ScheduledP!EventInv => Scheduled!StatusIsTrue
  <1>1. ScheduledP!EventAssumption
    BY ScenarioAssumption, ScheduledSame, Zenon DEF ScheduledP!EventAssumption
  <1>2. UNCHANGED vars => UNCHANGED ScheduledP!Sched!vars
    BY Zenon DEF vars, ScheduledP!Sched!vars, ScheduledP!Sched!db, ScheduledP!Sched!local
  <1> QED
    BY <1>1, <1>2, ScheduledSame, ScheduledP!EventInitially, ScheduledP!EventPreserved,
       ScheduledP!EventBounded, ScheduledP!EventTruth, Zenon

LEMMA SameDateSame ==
    /\ SameDate!Next => LotsP!Sched!Next
    /\ SameDate!Init = LotsP!Sched!Init
    /\ SameDate!ScheduledEventsAssumption = LotsP!Sched!ScheduledEventsAssumption
    /\ SameDate!CarriedOutInOrder = LotsP!Sched!CarriedOutInOrder
  <1>1. \A w : SameDate!WorkerStep(w) = LotsP!Sched!WorkerStep(w)
    BY ZenonT(60) DEF SameDate!WorkerStep, SameDate!StartPass, SameDate!Goto, SameDate!db,
       SameDate!Claim, SameDate!Due, SameDate!Range, SameDate!Earlier, SameDate!Id,
       SameDate!LoadEvents, SameDate!InOrder, SameDate!Cardinality, SameDate!IsFiniteSet,
       SameDate!Nobody, SameDate!ReleaseProcessingIssuer, SameDate!Released,
       SameDate!LeavePass, SameDate!local, SameDate!NoKey, SameDate!Finish,
       SameDate!Execute, SameDate!ExecuteFails, SameDate!Save, LotsP!Sched!WorkerStep,
       LotsP!Sched!StartPass, LotsP!Sched!Goto, LotsP!Sched!db, LotsP!Sched!Claim,
       LotsP!Sched!Due, LotsP!Sched!Range, LotsP!Sched!Earlier, LotsP!Sched!Id,
       LotsP!Sched!LoadEvents, LotsP!Sched!InOrder, LotsP!Sched!Cardinality,
       LotsP!Sched!IsFiniteSet, LotsP!Sched!Nobody, LotsP!Sched!ReleaseProcessingIssuer,
       LotsP!Sched!Released, LotsP!Sched!LeavePass, LotsP!Sched!local, LotsP!Sched!NoKey,
       LotsP!Sched!Finish, LotsP!Sched!Execute, LotsP!Sched!ExecuteFails, LotsP!Sched!Save
  <1>2. SameDate!Next => LotsP!Sched!Next
    BY <1>1, ZenonT(60) DEF SameDate!Next, SameDate!ScheduleBondTokenUpdateEvent,
       SameDate!Schedule, SameDate!IsInjective, SameDate!Range, SameDate!Known,
       SameDate!local, SameDate!ScheduleShareTokenUpdateEvent, SameDate!Requests,
       SameDate!Cardinality, SameDate!IsFiniteSet,
       SameDate!ScheduleBondTokenUpdateEventsInBatch,
       SameDate!ScheduleShareTokenUpdateEventsInBatch,
       SameDate!DeleteScheduledBondTokenUpdateEvent, SameDate!Delete, SameDate!Without,
       SameDate!Id, SameDate!DeleteScheduledShareTokenUpdateEvent, SameDate!SaveFails,
       SameDate!Released, SameDate!Goto, SameDate!Nobody, SameDate!db, SameDate!Tick,
       SameDate!Shutdown, SameDate!Crash, SameDate!Restart, LotsP!Sched!Next,
       LotsP!Sched!ScheduleBondTokenUpdateEvent, LotsP!Sched!Schedule,
       LotsP!Sched!IsInjective, LotsP!Sched!Range, LotsP!Sched!Known, LotsP!Sched!local,
       LotsP!Sched!ScheduleShareTokenUpdateEvent, LotsP!Sched!Requests,
       LotsP!Sched!Cardinality, LotsP!Sched!IsFiniteSet,
       LotsP!Sched!ScheduleBondTokenUpdateEventsInBatch,
       LotsP!Sched!ScheduleShareTokenUpdateEventsInBatch,
       LotsP!Sched!DeleteScheduledBondTokenUpdateEvent, LotsP!Sched!Delete,
       LotsP!Sched!Without, LotsP!Sched!Id,
       LotsP!Sched!DeleteScheduledShareTokenUpdateEvent, LotsP!Sched!SaveFails,
       LotsP!Sched!Released, LotsP!Sched!Goto, LotsP!Sched!Nobody, LotsP!Sched!db,
       LotsP!Sched!Tick, LotsP!Sched!Shutdown, LotsP!Sched!Crash, LotsP!Sched!Restart
  <1>3. /\ SameDate!Init = LotsP!Sched!Init
        /\ SameDate!ScheduledEventsAssumption = LotsP!Sched!ScheduledEventsAssumption
        /\ SameDate!CarriedOutInOrder = LotsP!Sched!CarriedOutInOrder
    BY ZenonT(60) DEF SameDate!Init, SameDate!Nobody, SameDate!ScheduledEventsAssumption,
       SameDate!IsFiniteSet, SameDate!Issuers, SameDate!CarriedOutInOrder, SameDate!Range,
       SameDate!Earlier, SameDate!Id, LotsP!Sched!Init, LotsP!Sched!Nobody,
       LotsP!Sched!ScheduledEventsAssumption, LotsP!Sched!IsFiniteSet, LotsP!Sched!Issuers,
       LotsP!Sched!CarriedOutInOrder, LotsP!Sched!Range, LotsP!Sched!Earlier, LotsP!Sched!Id
  <1> QED
    BY <1>1, <1>2, <1>3, Zenon

LEMMA SameDateHolds ==
    /\ SameDate!Init => LotsP!EventInv
    /\ LotsP!EventInv /\ (SameDate!Next \/ UNCHANGED vars) => LotsP!EventInv'
    /\ LotsP!EventInv /\ (SameDate!Next \/ UNCHANGED vars) => SameDate!CarriedOutInOrder
  <1>1. LotsP!EventAssumption
    BY ScenarioAssumption, SameDateSame, Zenon DEF LotsP!EventAssumption
  <1>2. UNCHANGED vars => UNCHANGED LotsP!Sched!vars
    BY Zenon DEF vars, LotsP!Sched!vars, LotsP!Sched!db, LotsP!Sched!local
  <1> QED
    BY <1>1, <1>2, SameDateSame, LotsP!EventInitially, LotsP!EventPreserved,
       LotsP!EventsInTurn, Zenon

LEMMA IssuingSame ==
    /\ Issuing!Next => RegisteringP!Token!Next
    /\ Issuing!Init = RegisteringP!Token!Init
    /\ Issuing!TokenIssueAssumption = RegisteringP!Token!TokenIssueAssumption
    /\ Issuing!IssueIsTrue = RegisteringP!Token!IssueIsTrue
  BY ZenonT(60) DEF Issuing!Next, Issuing!IssueBondToken, Issuing!Deploy, Issuing!At,
     Issuing!Fault, Issuing!db, Issuing!chain, Issuing!batch, Issuing!IssueShareToken,
     Issuing!RegisterAtOnce, Issuing!IsUpdate, Issuing!Register, Issuing!CommitPending,
     Issuing!Rows, Issuing!CommitSucceeded, Issuing!Holds, Issuing!RequestFails,
     Issuing!FaultAt, Issuing!BatchStep, Issuing!GetUpdateTokenList, Issuing!Cardinality,
     Issuing!IsFiniteSet, Issuing!Pending, Issuing!PassEnds, Issuing!ShutdownSeen,
     Issuing!GetPrivateKey, Issuing!Goto, Issuing!UpdateItem, Issuing!Unset,
     Issuing!Updated, Issuing!UpdateFails, Issuing!RegisterInBatch,
     Issuing!AlreadyRegistered, Issuing!RegisterFails, Issuing!SaveFailed, Issuing!Settled,
     Issuing!SaveSucceeded, Issuing!PassFails, Issuing!Shutdown, Issuing!Crash,
     Issuing!Restart, Issuing!Init, Issuing!TokenIssueAssumption, Issuing!IssueIsTrue,
     Issuing!Answer, Issuing!RetrieveBondToken, Issuing!Retrieve, Issuing!Range,
     Issuing!RetrieveShareToken, Issuing!Count, Issuing!Told, RegisteringP!Token!Next,
     RegisteringP!Token!IssueBondToken, RegisteringP!Token!Deploy, RegisteringP!Token!At,
     RegisteringP!Token!Fault, RegisteringP!Token!db, RegisteringP!Token!chain,
     RegisteringP!Token!batch, RegisteringP!Token!IssueShareToken,
     RegisteringP!Token!RegisterAtOnce, RegisteringP!Token!IsUpdate,
     RegisteringP!Token!Register, RegisteringP!Token!CommitPending, RegisteringP!Token!Rows,
     RegisteringP!Token!CommitSucceeded, RegisteringP!Token!Holds,
     RegisteringP!Token!RequestFails, RegisteringP!Token!FaultAt,
     RegisteringP!Token!BatchStep, RegisteringP!Token!GetUpdateTokenList,
     RegisteringP!Token!Cardinality, RegisteringP!Token!IsFiniteSet,
     RegisteringP!Token!Pending, RegisteringP!Token!PassEnds,
     RegisteringP!Token!ShutdownSeen, RegisteringP!Token!GetPrivateKey,
     RegisteringP!Token!Goto, RegisteringP!Token!UpdateItem, RegisteringP!Token!Unset,
     RegisteringP!Token!Updated, RegisteringP!Token!UpdateFails,
     RegisteringP!Token!RegisterInBatch, RegisteringP!Token!AlreadyRegistered,
     RegisteringP!Token!RegisterFails, RegisteringP!Token!SaveFailed,
     RegisteringP!Token!Settled, RegisteringP!Token!SaveSucceeded,
     RegisteringP!Token!PassFails, RegisteringP!Token!Shutdown, RegisteringP!Token!Crash,
     RegisteringP!Token!Restart, RegisteringP!Token!Init,
     RegisteringP!Token!TokenIssueAssumption, RegisteringP!Token!IssueIsTrue,
     RegisteringP!Token!Answer, RegisteringP!Token!RetrieveBondToken,
     RegisteringP!Token!Retrieve, RegisteringP!Token!Range,
     RegisteringP!Token!RetrieveShareToken, RegisteringP!Token!Count,
     RegisteringP!Token!Told

LEMMA IssuingHolds ==
    /\ Issuing!Init => RegisteringP!TokenInv
    /\ RegisteringP!TokenInv /\ (Issuing!Next \/ UNCHANGED vars) => RegisteringP!TokenInv'
    /\ RegisteringP!TokenInv => Issuing!IssueIsTrue
  <1>1. RegisteringP!TokenAssumption
    BY ScenarioAssumption, IssuingSame, Zenon DEF RegisteringP!TokenAssumption
  <1>2. UNCHANGED vars => UNCHANGED RegisteringP!Token!vars
    BY Zenon DEF vars, RegisteringP!Token!vars, RegisteringP!Token!db,
       RegisteringP!Token!chain, RegisteringP!Token!batch
  <1> QED
    BY <1>1, <1>2, IssuingSame, RegisteringP!TokenInitially, RegisteringP!TokenPreserved,
       RegisteringP!TokenIssueTrue, Zenon

LEMMA ListingSame ==
    /\ Listing!Next => KindsP!Token!Next
    /\ Listing!Init = KindsP!Token!Init
    /\ Listing!TokenIssueAssumption = KindsP!Token!TokenIssueAssumption
    /\ Listing!ListedIsShown = KindsP!Token!ListedIsShown
  BY ZenonT(60) DEF Listing!Next, Listing!IssueBondToken, Listing!Deploy, Listing!At,
     Listing!Fault, Listing!db, Listing!chain, Listing!batch, Listing!IssueShareToken,
     Listing!RegisterAtOnce, Listing!IsUpdate, Listing!Register, Listing!CommitPending,
     Listing!Rows, Listing!CommitSucceeded, Listing!Holds, Listing!RequestFails,
     Listing!FaultAt, Listing!BatchStep, Listing!GetUpdateTokenList, Listing!Cardinality,
     Listing!IsFiniteSet, Listing!Pending, Listing!PassEnds, Listing!ShutdownSeen,
     Listing!GetPrivateKey, Listing!Goto, Listing!UpdateItem, Listing!Unset,
     Listing!Updated, Listing!UpdateFails, Listing!RegisterInBatch,
     Listing!AlreadyRegistered, Listing!RegisterFails, Listing!SaveFailed, Listing!Settled,
     Listing!SaveSucceeded, Listing!PassFails, Listing!Shutdown, Listing!Crash,
     Listing!Restart, Listing!Init, Listing!TokenIssueAssumption, Listing!ListedIsShown,
     Listing!Answer, Listing!RetrieveBondToken, Listing!Retrieve, Listing!Range,
     Listing!RetrieveShareToken, KindsP!Token!Next, KindsP!Token!IssueBondToken,
     KindsP!Token!Deploy, KindsP!Token!At, KindsP!Token!Fault, KindsP!Token!db,
     KindsP!Token!chain, KindsP!Token!batch, KindsP!Token!IssueShareToken,
     KindsP!Token!RegisterAtOnce, KindsP!Token!IsUpdate, KindsP!Token!Register,
     KindsP!Token!CommitPending, KindsP!Token!Rows, KindsP!Token!CommitSucceeded,
     KindsP!Token!Holds, KindsP!Token!RequestFails, KindsP!Token!FaultAt,
     KindsP!Token!BatchStep, KindsP!Token!GetUpdateTokenList, KindsP!Token!Cardinality,
     KindsP!Token!IsFiniteSet, KindsP!Token!Pending, KindsP!Token!PassEnds,
     KindsP!Token!ShutdownSeen, KindsP!Token!GetPrivateKey, KindsP!Token!Goto,
     KindsP!Token!UpdateItem, KindsP!Token!Unset, KindsP!Token!Updated,
     KindsP!Token!UpdateFails, KindsP!Token!RegisterInBatch, KindsP!Token!AlreadyRegistered,
     KindsP!Token!RegisterFails, KindsP!Token!SaveFailed, KindsP!Token!Settled,
     KindsP!Token!SaveSucceeded, KindsP!Token!PassFails, KindsP!Token!Shutdown,
     KindsP!Token!Crash, KindsP!Token!Restart, KindsP!Token!Init,
     KindsP!Token!TokenIssueAssumption, KindsP!Token!ListedIsShown, KindsP!Token!Answer,
     KindsP!Token!RetrieveBondToken, KindsP!Token!Retrieve, KindsP!Token!Range,
     KindsP!Token!RetrieveShareToken

LEMMA ListingHolds ==
    /\ Listing!Init => KindsP!TokenInv
    /\ KindsP!TokenInv /\ (Listing!Next \/ UNCHANGED vars) => KindsP!TokenInv'
    /\ KindsP!TokenInv => Listing!ListedIsShown
  <1>1. KindsP!TokenAssumption
    BY ScenarioAssumption, ListingSame, Zenon DEF KindsP!TokenAssumption
  <1>2. UNCHANGED vars => UNCHANGED KindsP!Token!vars
    BY Zenon DEF vars, KindsP!Token!vars, KindsP!Token!db, KindsP!Token!chain,
       KindsP!Token!batch
  <1> QED
    BY <1>1, <1>2, ListingSame, KindsP!TokenInitially, KindsP!TokenPreserved,
       KindsP!TokenListedShown, Zenon

LEMMA RatesSame ==
    /\ Rates!Next => RegisteringP!Attr!Next
    /\ Rates!Init = RegisteringP!Attr!Init
    /\ Rates!TokenAttributesAssumption = RegisteringP!Attr!TokenAttributesAssumption
    /\ Rates!ShownIsCurrent = RegisteringP!Attr!ShownIsCurrent
  <1>1. \A w : Rates!GetStep(w) = RegisteringP!Attr!GetStep(w)
    BY ZenonT(60) DEF Rates!GetStep, Rates!GetFromCache, Rates!Valid, Rates!Usable,
       Rates!Supported, Rates!Since, Rates!AfterGet, Rates!Goto, Rates!StartRead,
       Rates!NoFill, Rates!Attributes, Rates!ReadAttribute, Rates!CreateCache,
       Rates!CommitCache, RegisteringP!Attr!GetStep, RegisteringP!Attr!GetFromCache,
       RegisteringP!Attr!Valid, RegisteringP!Attr!Usable, RegisteringP!Attr!Supported,
       RegisteringP!Attr!Since, RegisteringP!Attr!AfterGet, RegisteringP!Attr!Goto,
       RegisteringP!Attr!StartRead, RegisteringP!Attr!NoFill, RegisteringP!Attr!Attributes,
       RegisteringP!Attr!ReadAttribute, RegisteringP!Attr!CreateCache,
       RegisteringP!Attr!CommitCache
  <1>2. \A w : Rates!UpdateStep(w) = RegisteringP!Attr!UpdateStep(w)
    BY ZenonT(60) DEF Rates!UpdateStep, Rates!Refuse, Rates!Supported, Rates!Since,
       Rates!Goto, Rates!local, Rates!Attributes, Rates!SendAttribute, Rates!Before,
       Rates!Order, Rates!BondTerms, Rates!BondRedemption, Rates!BondFlags,
       Rates!BondContracts, Rates!ShareContracts, Rates!ShareFlags, Rates!ShareTerms,
       Rates!Mined, Rates!Fault, Rates!RecordAttrUpdate, Rates!Processes,
       Rates!RecordOperation, RegisteringP!Attr!UpdateStep, RegisteringP!Attr!Refuse,
       RegisteringP!Attr!Supported, RegisteringP!Attr!Since, RegisteringP!Attr!Goto,
       RegisteringP!Attr!local, RegisteringP!Attr!Attributes,
       RegisteringP!Attr!SendAttribute, RegisteringP!Attr!Before, RegisteringP!Attr!Order,
       RegisteringP!Attr!BondTerms, RegisteringP!Attr!BondRedemption,
       RegisteringP!Attr!BondFlags, RegisteringP!Attr!BondContracts,
       RegisteringP!Attr!ShareContracts, RegisteringP!Attr!ShareFlags,
       RegisteringP!Attr!ShareTerms, RegisteringP!Attr!Mined, RegisteringP!Attr!Fault,
       RegisteringP!Attr!RecordAttrUpdate, RegisteringP!Attr!Processes,
       RegisteringP!Attr!RecordOperation
  <1>3. Rates!Next => RegisteringP!Attr!Next
    BY <1>1, <1>2, ZenonT(60) DEF Rates!Next, Rates!Processes, Rates!GetBond,
       Rates!GetShare, Rates!ReadFails, Rates!Fault, Rates!Goto, Rates!NoFill,
       Rates!UpdateBondToken, Rates!UpdateShareToken, Rates!Crash, Rates!Attributes,
       Rates!MineLate, Rates!Mined, Rates!local, Rates!Expire, RegisteringP!Attr!Next,
       RegisteringP!Attr!Processes, RegisteringP!Attr!GetBond, RegisteringP!Attr!GetShare,
       RegisteringP!Attr!ReadFails, RegisteringP!Attr!Fault, RegisteringP!Attr!Goto,
       RegisteringP!Attr!NoFill, RegisteringP!Attr!UpdateBondToken,
       RegisteringP!Attr!UpdateShareToken, RegisteringP!Attr!Crash,
       RegisteringP!Attr!Attributes, RegisteringP!Attr!MineLate, RegisteringP!Attr!Mined,
       RegisteringP!Attr!local, RegisteringP!Attr!Expire
  <1>4. /\ Rates!Init = RegisteringP!Attr!Init
        /\ Rates!TokenAttributesAssumption = RegisteringP!Attr!TokenAttributesAssumption
        /\ Rates!ShownIsCurrent = RegisteringP!Attr!ShownIsCurrent
    BY ZenonT(60) DEF Rates!Init, Rates!Attributes, Rates!Processes, Rates!NoFill,
       Rates!TokenAttributesAssumption, Rates!Range, Rates!Order, Rates!BondTerms,
       Rates!BondRedemption, Rates!BondFlags, Rates!BondContracts, Rates!ShareContracts,
       Rates!ShareFlags, Rates!ShareTerms, Rates!ShownIsCurrent, Rates!Valid, Rates!Usable,
       Rates!Shown, RegisteringP!Attr!Init, RegisteringP!Attr!Attributes,
       RegisteringP!Attr!Processes, RegisteringP!Attr!NoFill,
       RegisteringP!Attr!TokenAttributesAssumption, RegisteringP!Attr!Range,
       RegisteringP!Attr!Order, RegisteringP!Attr!BondTerms,
       RegisteringP!Attr!BondRedemption, RegisteringP!Attr!BondFlags,
       RegisteringP!Attr!BondContracts, RegisteringP!Attr!ShareContracts,
       RegisteringP!Attr!ShareFlags, RegisteringP!Attr!ShareTerms,
       RegisteringP!Attr!ShownIsCurrent, RegisteringP!Attr!Valid, RegisteringP!Attr!Usable,
       RegisteringP!Attr!Shown
  <1> QED
    BY <1>1, <1>2, <1>3, <1>4, Zenon

LEMMA RatesHolds ==
    /\ Rates!Init => RegisteringP!AttrInv
    /\ RegisteringP!AttrInv /\ (Rates!Next \/ UNCHANGED vars) => RegisteringP!AttrInv'
    /\ RegisteringP!AttrInv => Rates!ShownIsCurrent
  <1>1. RegisteringP!AttrAssumption
    BY ScenarioAssumption, RatesSame, Zenon DEF RegisteringP!AttrAssumption
  <1>2. UNCHANGED vars => UNCHANGED RegisteringP!Attr!vars
    BY Zenon DEF vars, RegisteringP!Attr!vars, RegisteringP!Attr!local
  <1> QED
    BY <1>1, <1>2, RatesSame, RegisteringP!AttrInitially, RegisteringP!AttrPreserved,
       RegisteringP!AttrShownTrue, Zenon

LEMMA OverlapsSame ==
    /\ Overlaps!Next => KindsP!Attr!Next
    /\ Overlaps!Init = KindsP!Attr!Init
    /\ Overlaps!TokenAttributesAssumption = KindsP!Attr!TokenAttributesAssumption
    /\ Overlaps!HistoryIsTrue = KindsP!Attr!HistoryIsTrue
  <1>1. \A w : Overlaps!GetStep(w) = KindsP!Attr!GetStep(w)
    BY ZenonT(60) DEF Overlaps!GetStep, Overlaps!GetFromCache, Overlaps!Valid,
       Overlaps!Usable, Overlaps!Supported, Overlaps!Since, Overlaps!AfterGet,
       Overlaps!Goto, Overlaps!StartRead, Overlaps!NoFill, Overlaps!Attributes,
       Overlaps!ReadAttribute, Overlaps!CreateCache, Overlaps!CommitCache,
       KindsP!Attr!GetStep, KindsP!Attr!GetFromCache, KindsP!Attr!Valid, KindsP!Attr!Usable,
       KindsP!Attr!Supported, KindsP!Attr!Since, KindsP!Attr!AfterGet, KindsP!Attr!Goto,
       KindsP!Attr!StartRead, KindsP!Attr!NoFill, KindsP!Attr!Attributes,
       KindsP!Attr!ReadAttribute, KindsP!Attr!CreateCache, KindsP!Attr!CommitCache
  <1>2. \A w : Overlaps!UpdateStep(w) = KindsP!Attr!UpdateStep(w)
    BY ZenonT(60) DEF Overlaps!UpdateStep, Overlaps!Refuse, Overlaps!Supported,
       Overlaps!Since, Overlaps!Goto, Overlaps!local, Overlaps!Attributes,
       Overlaps!SendAttribute, Overlaps!Before, Overlaps!Order, Overlaps!BondTerms,
       Overlaps!BondRedemption, Overlaps!BondFlags, Overlaps!BondContracts,
       Overlaps!ShareContracts, Overlaps!ShareFlags, Overlaps!ShareTerms, Overlaps!Mined,
       Overlaps!Fault, Overlaps!RecordAttrUpdate, Overlaps!Processes,
       Overlaps!RecordOperation, KindsP!Attr!UpdateStep, KindsP!Attr!Refuse,
       KindsP!Attr!Supported, KindsP!Attr!Since, KindsP!Attr!Goto, KindsP!Attr!local,
       KindsP!Attr!Attributes, KindsP!Attr!SendAttribute, KindsP!Attr!Before,
       KindsP!Attr!Order, KindsP!Attr!BondTerms, KindsP!Attr!BondRedemption,
       KindsP!Attr!BondFlags, KindsP!Attr!BondContracts, KindsP!Attr!ShareContracts,
       KindsP!Attr!ShareFlags, KindsP!Attr!ShareTerms, KindsP!Attr!Mined, KindsP!Attr!Fault,
       KindsP!Attr!RecordAttrUpdate, KindsP!Attr!Processes, KindsP!Attr!RecordOperation
  <1>3. Overlaps!Next => KindsP!Attr!Next
    BY <1>1, <1>2, ZenonT(60) DEF Overlaps!Next, Overlaps!Processes, Overlaps!GetBond,
       Overlaps!GetShare, Overlaps!ReadFails, Overlaps!Fault, Overlaps!Goto,
       Overlaps!NoFill, Overlaps!UpdateBondToken, Overlaps!UpdateShareToken, Overlaps!Crash,
       Overlaps!Attributes, Overlaps!MineLate, Overlaps!Mined, Overlaps!local,
       Overlaps!Expire, KindsP!Attr!Next, KindsP!Attr!Processes, KindsP!Attr!GetBond,
       KindsP!Attr!GetShare, KindsP!Attr!ReadFails, KindsP!Attr!Fault, KindsP!Attr!Goto,
       KindsP!Attr!NoFill, KindsP!Attr!UpdateBondToken, KindsP!Attr!UpdateShareToken,
       KindsP!Attr!Crash, KindsP!Attr!Attributes, KindsP!Attr!MineLate, KindsP!Attr!Mined,
       KindsP!Attr!local, KindsP!Attr!Expire
  <1>4. /\ Overlaps!Init = KindsP!Attr!Init
        /\ Overlaps!TokenAttributesAssumption = KindsP!Attr!TokenAttributesAssumption
        /\ Overlaps!HistoryIsTrue = KindsP!Attr!HistoryIsTrue
    BY ZenonT(60) DEF Overlaps!Init, Overlaps!Attributes, Overlaps!Processes,
       Overlaps!NoFill, Overlaps!TokenAttributesAssumption, Overlaps!Range, Overlaps!Order,
       Overlaps!BondTerms, Overlaps!BondRedemption, Overlaps!BondFlags,
       Overlaps!BondContracts, Overlaps!ShareContracts, Overlaps!ShareFlags,
       Overlaps!ShareTerms, Overlaps!HistoryIsTrue, Overlaps!OperationLog,
       Overlaps!ListBondOperationLogHistory, Overlaps!ListShareOperationLogHistory,
       Overlaps!Replayed, KindsP!Attr!Init, KindsP!Attr!Attributes, KindsP!Attr!Processes,
       KindsP!Attr!NoFill, KindsP!Attr!TokenAttributesAssumption, KindsP!Attr!Range,
       KindsP!Attr!Order, KindsP!Attr!BondTerms, KindsP!Attr!BondRedemption,
       KindsP!Attr!BondFlags, KindsP!Attr!BondContracts, KindsP!Attr!ShareContracts,
       KindsP!Attr!ShareFlags, KindsP!Attr!ShareTerms, KindsP!Attr!HistoryIsTrue,
       KindsP!Attr!OperationLog, KindsP!Attr!ListBondOperationLogHistory,
       KindsP!Attr!ListShareOperationLogHistory, KindsP!Attr!Replayed
  <1> QED
    BY <1>1, <1>2, <1>3, <1>4, Zenon

LEMMA OverlapsHolds ==
    /\ Overlaps!Init => KindsP!AttrInv
    /\ KindsP!AttrInv /\ (Overlaps!Next \/ UNCHANGED vars) => KindsP!AttrInv'
    /\ KindsP!AttrInv => Overlaps!HistoryIsTrue
  <1>1. KindsP!AttrAssumption
    BY ScenarioAssumption, OverlapsSame, Zenon DEF KindsP!AttrAssumption
  <1>2. UNCHANGED vars => UNCHANGED KindsP!Attr!vars
    BY Zenon DEF vars, KindsP!Attr!vars, KindsP!Attr!local
  <1> QED
    BY <1>1, <1>2, OverlapsSame, KindsP!AttrInitially, KindsP!AttrPreserved,
       KindsP!AttrHistoryTrue, Zenon

LEMMA MessagingSame ==
    /\ Messaging!Next => RegisteringP!Msg!Next
    /\ Messaging!Init = RegisteringP!Msg!Init
    /\ Messaging!E2EMessagingAssumption = RegisteringP!Msg!E2EMessagingAssumption
    /\ Messaging!MessageIsRead = RegisteringP!Msg!MessageIsRead
  BY ZenonT(60) DEF Messaging!Next, Messaging!Tick, Messaging!api, Messaging!Rotation,
     Messaging!GetAccountList, Messaging!IdleRot, Messaging!EndOfList,
     Messaging!GetLatestKey, Messaging!Newest, Messaging!AutoGenerateRsaKey,
     Messaging!SetPublicKey, Messaging!RotateRsaKey, Messaging!Row, Messaging!Exceeding,
     Messaging!Cardinality, Messaging!IsFiniteSet, Messaging!AutoGenerateFails,
     Messaging!Indexer, Messaging!SyncAll, Messaging!SyncMessage, Messaging!Readable,
     Messaging!SetBlockNumber, Messaging!IdleIx, Messaging!Crash, Messaging!CreateAccount,
     Messaging!DeleteAccount, Messaging!SendMessage, Messaging!MessagesSent, Messaging!Is,
     Messaging!ChangeRsaPassphrase, Messaging!UpdateRsaKey, Messaging!RegisterAccount,
     Messaging!Init, Messaging!E2EMessagingAssumption, Messaging!MessageIsRead,
     Messaging!ListAllMessages, RegisteringP!Msg!Next, RegisteringP!Msg!Tick,
     RegisteringP!Msg!api, RegisteringP!Msg!Rotation, RegisteringP!Msg!GetAccountList,
     RegisteringP!Msg!IdleRot, RegisteringP!Msg!EndOfList, RegisteringP!Msg!GetLatestKey,
     RegisteringP!Msg!Newest, RegisteringP!Msg!AutoGenerateRsaKey,
     RegisteringP!Msg!SetPublicKey, RegisteringP!Msg!RotateRsaKey, RegisteringP!Msg!Row,
     RegisteringP!Msg!Exceeding, RegisteringP!Msg!Cardinality, RegisteringP!Msg!IsFiniteSet,
     RegisteringP!Msg!AutoGenerateFails, RegisteringP!Msg!Indexer, RegisteringP!Msg!SyncAll,
     RegisteringP!Msg!SyncMessage, RegisteringP!Msg!Readable,
     RegisteringP!Msg!SetBlockNumber, RegisteringP!Msg!IdleIx, RegisteringP!Msg!Crash,
     RegisteringP!Msg!CreateAccount, RegisteringP!Msg!DeleteAccount,
     RegisteringP!Msg!SendMessage, RegisteringP!Msg!MessagesSent, RegisteringP!Msg!Is,
     RegisteringP!Msg!ChangeRsaPassphrase, RegisteringP!Msg!UpdateRsaKey,
     RegisteringP!Msg!RegisterAccount, RegisteringP!Msg!Init,
     RegisteringP!Msg!E2EMessagingAssumption, RegisteringP!Msg!MessageIsRead,
     RegisteringP!Msg!ListAllMessages

LEMMA MessagingHolds ==
    /\ Messaging!Init => RegisteringP!MsgInv
    /\ RegisteringP!MsgInv /\ (Messaging!Next \/ UNCHANGED vars) => RegisteringP!MsgInv'
    /\ RegisteringP!MsgInv => Messaging!MessageIsRead
  <1>1. RegisteringP!MsgAssumption
    BY ScenarioAssumption, MessagingSame, Zenon DEF RegisteringP!MsgAssumption
  <1>2. UNCHANGED vars => UNCHANGED RegisteringP!Msg!vars
    BY Zenon DEF vars, RegisteringP!Msg!vars, RegisteringP!Msg!api
  <1> QED
    BY <1>1, <1>2, MessagingSame, RegisteringP!MsgInitially, RegisteringP!MsgPreserved,
       RegisteringP!MsgRead, Zenon

LEMMA RecordingSame ==
    /\ Recording!Next => ScheduledP!Info!Next
    /\ Recording!Init = ScheduledP!Info!Init
    /\ Recording!PersonalInfoAssumption = ScheduledP!Info!PersonalInfoAssumption
    /\ Recording!HistoryIsComplete = ScheduledP!Info!HistoryIsComplete
    /\ Recording!KeyForgottenUnused = ScheduledP!Info!KeyForgottenUnused
  BY ZenonT(60) DEF Recording!Next, Recording!CreateIssuerRsaKey, Recording!chain,
     Recording!ChangeIssuerRsaPassphrase, Recording!GenerateRsaKey,
     Recording!RegisterBondTokenHolderPersonalInfo, Recording!RegisterPersonalInfo,
     Recording!db, Recording!RegisterShareTokenHolderPersonalInfo,
     Recording!RegisterOffChain, Recording!RegisterInfo, Recording!Write,
     Recording!RegisterInfoFails, Recording!Fault, Recording!SetContract,
     Recording!Indexer, Recording!RefreshPersonalInfoList, Recording!Opened,
     Recording!SyncRange, Recording!SinkOnPersonalInfo, Recording!Before,
     Recording!SetBlockNumber, Recording!IdleIx, Recording!IndexerFails,
     Recording!Modifier, Recording!GetTemporaryList, Recording!NoTemp, Recording!NoPem,
     Recording!IdleMod, Recording!ModifyPersonalInfo, Recording!Empty,
     Recording!ModifyInfo, Recording!SinkOnAccount, Recording!ModifyFails,
     Recording!Init, Recording!PersonalInfoAssumption, Recording!HistoryIsComplete,
     Recording!KeyForgottenUnused, ScheduledP!Info!Next,
     ScheduledP!Info!CreateIssuerRsaKey, ScheduledP!Info!chain,
     ScheduledP!Info!ChangeIssuerRsaPassphrase, ScheduledP!Info!GenerateRsaKey,
     ScheduledP!Info!RegisterBondTokenHolderPersonalInfo,
     ScheduledP!Info!RegisterPersonalInfo, ScheduledP!Info!db,
     ScheduledP!Info!RegisterShareTokenHolderPersonalInfo,
     ScheduledP!Info!RegisterOffChain, ScheduledP!Info!RegisterInfo,
     ScheduledP!Info!Write, ScheduledP!Info!RegisterInfoFails, ScheduledP!Info!Fault,
     ScheduledP!Info!SetContract, ScheduledP!Info!Indexer,
     ScheduledP!Info!RefreshPersonalInfoList, ScheduledP!Info!Opened,
     ScheduledP!Info!SyncRange, ScheduledP!Info!SinkOnPersonalInfo,
     ScheduledP!Info!Before, ScheduledP!Info!SetBlockNumber, ScheduledP!Info!IdleIx,
     ScheduledP!Info!IndexerFails, ScheduledP!Info!Modifier,
     ScheduledP!Info!GetTemporaryList, ScheduledP!Info!NoTemp, ScheduledP!Info!NoPem,
     ScheduledP!Info!IdleMod, ScheduledP!Info!ModifyPersonalInfo, ScheduledP!Info!Empty,
     ScheduledP!Info!ModifyInfo, ScheduledP!Info!SinkOnAccount,
     ScheduledP!Info!ModifyFails, ScheduledP!Info!Init,
     ScheduledP!Info!PersonalInfoAssumption, ScheduledP!Info!HistoryIsComplete,
     ScheduledP!Info!KeyForgottenUnused

LEMMA RecordingHolds ==
    /\ Recording!Init => ScheduledP!InfoInv
    /\ ScheduledP!InfoInv /\ (Recording!Next \/ UNCHANGED vars) => ScheduledP!InfoInv'
    /\ ScheduledP!InfoInv => Recording!HistoryIsComplete
    /\ ScheduledP!InfoInv /\ (Recording!Next \/ UNCHANGED vars) => Recording!KeyForgottenUnused
  <1>1. ScheduledP!InfoAssumption
    BY ScenarioAssumption, RecordingSame, Zenon DEF ScheduledP!InfoAssumption
  <1>2. UNCHANGED vars => UNCHANGED ScheduledP!Info!vars
    BY Zenon DEF vars, ScheduledP!Info!vars, ScheduledP!Info!db, ScheduledP!Info!chain
  <1> QED
    BY <1>1, <1>2, RecordingSame, ScheduledP!InfoInitially, ScheduledP!InfoPreserved, ScheduledP!InfoForgotten,
       ScheduledP!InfoComplete, Zenon

LEMMA ForgettingSame ==
    /\ Forgetting!Next => HistoriesP!Info!Next
    /\ Forgetting!Init = HistoriesP!Info!Init
    /\ Forgetting!PersonalInfoAssumption = HistoriesP!Info!PersonalInfoAssumption
    /\ Forgetting!KeyForgottenUnused = HistoriesP!Info!KeyForgottenUnused
  BY ZenonT(60) DEF Forgetting!Next, Forgetting!CreateIssuerRsaKey, Forgetting!chain,
     Forgetting!ChangeIssuerRsaPassphrase, Forgetting!GenerateRsaKey,
     Forgetting!RegisterBondTokenHolderPersonalInfo, Forgetting!RegisterPersonalInfo,
     Forgetting!db, Forgetting!RegisterShareTokenHolderPersonalInfo,
     Forgetting!RegisterOffChain, Forgetting!RegisterInfo, Forgetting!Write,
     Forgetting!RegisterInfoFails, Forgetting!Fault, Forgetting!SetContract,
     Forgetting!Indexer, Forgetting!RefreshPersonalInfoList, Forgetting!Opened,
     Forgetting!SyncRange, Forgetting!SinkOnPersonalInfo, Forgetting!Before,
     Forgetting!SetBlockNumber, Forgetting!IdleIx, Forgetting!IndexerFails,
     Forgetting!Modifier, Forgetting!GetTemporaryList, Forgetting!NoTemp,
     Forgetting!NoPem, Forgetting!IdleMod, Forgetting!ModifyPersonalInfo,
     Forgetting!Empty, Forgetting!ModifyInfo, Forgetting!SinkOnAccount,
     Forgetting!ModifyFails, Forgetting!Init, Forgetting!PersonalInfoAssumption,
     Forgetting!KeyForgottenUnused, HistoriesP!Info!Next,
     HistoriesP!Info!CreateIssuerRsaKey, HistoriesP!Info!chain,
     HistoriesP!Info!ChangeIssuerRsaPassphrase, HistoriesP!Info!GenerateRsaKey,
     HistoriesP!Info!RegisterBondTokenHolderPersonalInfo,
     HistoriesP!Info!RegisterPersonalInfo, HistoriesP!Info!db,
     HistoriesP!Info!RegisterShareTokenHolderPersonalInfo,
     HistoriesP!Info!RegisterOffChain, HistoriesP!Info!RegisterInfo,
     HistoriesP!Info!Write, HistoriesP!Info!RegisterInfoFails, HistoriesP!Info!Fault,
     HistoriesP!Info!SetContract, HistoriesP!Info!Indexer,
     HistoriesP!Info!RefreshPersonalInfoList, HistoriesP!Info!Opened,
     HistoriesP!Info!SyncRange, HistoriesP!Info!SinkOnPersonalInfo,
     HistoriesP!Info!Before, HistoriesP!Info!SetBlockNumber, HistoriesP!Info!IdleIx,
     HistoriesP!Info!IndexerFails, HistoriesP!Info!Modifier,
     HistoriesP!Info!GetTemporaryList, HistoriesP!Info!NoTemp, HistoriesP!Info!NoPem,
     HistoriesP!Info!IdleMod, HistoriesP!Info!ModifyPersonalInfo, HistoriesP!Info!Empty,
     HistoriesP!Info!ModifyInfo, HistoriesP!Info!SinkOnAccount,
     HistoriesP!Info!ModifyFails, HistoriesP!Info!Init,
     HistoriesP!Info!PersonalInfoAssumption, HistoriesP!Info!KeyForgottenUnused

LEMMA ForgettingHolds ==
    /\ Forgetting!Init => HistoriesP!InfoInv
    /\ HistoriesP!InfoInv /\ (Forgetting!Next \/ UNCHANGED vars) => HistoriesP!InfoInv'
    /\ HistoriesP!InfoInv /\ (Forgetting!Next \/ UNCHANGED vars) => Forgetting!KeyForgottenUnused
  <1>1. HistoriesP!InfoAssumption
    BY ScenarioAssumption, ForgettingSame, Zenon DEF HistoriesP!InfoAssumption
  <1>2. UNCHANGED vars => UNCHANGED HistoriesP!Info!vars
    BY Zenon DEF vars, HistoriesP!Info!vars, HistoriesP!Info!db, HistoriesP!Info!chain
  <1> QED
    BY <1>1, <1>2, ForgettingSame, HistoriesP!InfoInitially, HistoriesP!InfoPreserved, HistoriesP!InfoForgotten, Zenon

-----------------------------------------------------------------------------
(* The invariant.                                                          *)

JobInv ==
    /\ scenario = "registering" => RegisteringP!IInv
    /\ scenario = "lots" => LotsP!IssueInv
    /\ scenario = "kinds" => KindsP!IssueInv
    /\ scenario = "scheduled" => ScheduledP!EventInv
    /\ scenario = "sameDate" => LotsP!EventInv
    /\ scenario = "issuing" => RegisteringP!TokenInv
    /\ scenario = "listing" => KindsP!TokenInv
    /\ scenario = "rates" => RegisteringP!AttrInv
    /\ scenario = "overlaps" => KindsP!AttrInv
    /\ scenario = "messaging" => RegisteringP!MsgInv
    /\ scenario = "histories" => HistoriesP!IssueInv
    /\ scenario = "recording" => ScheduledP!InfoInv
    /\ scenario = "forgetting" => HistoriesP!InfoInv

LEMMA Begins ==
    ASSUME Init
    PROVE  JobInv
  <1>1. /\ scenario = "registering" => Registering!Init
        /\ scenario = "lots" => Lots!Init
        /\ scenario = "kinds" => Kinds!Init
        /\ scenario = "scheduled" => Scheduled!Init
        /\ scenario = "sameDate" => SameDate!Init
        /\ scenario = "issuing" => Issuing!Init
        /\ scenario = "listing" => Listing!Init
        /\ scenario = "rates" => Rates!Init
        /\ scenario = "overlaps" => Overlaps!Init
        /\ scenario = "messaging" => Messaging!Init
        /\ scenario = "histories" => Histories!Init
        /\ scenario = "recording" => Recording!Init
        /\ scenario = "forgetting" => Forgetting!Init
    BY Zenon DEF Init
  <1> QED
    BY <1>1, RegisteringHolds, LotsHolds, KindsHolds, ScheduledHolds, SameDateHolds, IssuingHolds,
       ListingHolds, RatesHolds, OverlapsHolds, MessagingHolds, HistoriesHolds, RecordingHolds,
       ForgettingHolds, Zenon DEF JobInv

\* A step is one of its scenario, or of nothing.
LEMMA OwnSteps ==
    ASSUME [Next]_vars
    PROVE  /\ scenario' = scenario
           /\ scenario = "registering" => Registering!Next \/ UNCHANGED vars
           /\ scenario = "lots" => Lots!Next \/ UNCHANGED vars
           /\ scenario = "kinds" => Kinds!Next \/ UNCHANGED vars
           /\ scenario = "scheduled" => Scheduled!Next \/ UNCHANGED vars
           /\ scenario = "sameDate" => SameDate!Next \/ UNCHANGED vars
           /\ scenario = "issuing" => Issuing!Next \/ UNCHANGED vars
           /\ scenario = "listing" => Listing!Next \/ UNCHANGED vars
           /\ scenario = "rates" => Rates!Next \/ UNCHANGED vars
           /\ scenario = "overlaps" => Overlaps!Next \/ UNCHANGED vars
           /\ scenario = "messaging" => Messaging!Next \/ UNCHANGED vars
           /\ scenario = "histories" => Histories!Next \/ UNCHANGED vars
           /\ scenario = "recording" => Recording!Next \/ UNCHANGED vars
           /\ scenario = "forgetting" => Forgetting!Next \/ UNCHANGED vars
  <1>1. CASE UNCHANGED vars
    BY <1>1, Zenon DEF vars
  <1>2. CASE Next
    BY <1>2, Zenon DEF Next
  <1> QED
    BY <1>1, <1>2, Zenon

LEMMA GoesOn ==
    ASSUME JobInv, [Next]_vars
    PROVE  JobInv'
  <1>1. scenario' = "registering" => RegisteringP!IInv'
    BY OwnSteps, RegisteringHolds, Zenon DEF JobInv
  <1>2. scenario' = "lots" => LotsP!IssueInv'
    BY OwnSteps, LotsHolds, Zenon DEF JobInv
  <1>3. scenario' = "kinds" => KindsP!IssueInv'
    BY OwnSteps, KindsHolds, Zenon DEF JobInv
  <1>4. scenario' = "scheduled" => ScheduledP!EventInv'
    BY OwnSteps, ScheduledHolds, Zenon DEF JobInv
  <1>5. scenario' = "sameDate" => LotsP!EventInv'
    BY OwnSteps, SameDateHolds, Zenon DEF JobInv
  <1>6. scenario' = "issuing" => RegisteringP!TokenInv'
    BY OwnSteps, IssuingHolds, Zenon DEF JobInv
  <1>7. scenario' = "listing" => KindsP!TokenInv'
    BY OwnSteps, ListingHolds, Zenon DEF JobInv
  <1>8. scenario' = "rates" => RegisteringP!AttrInv'
    BY OwnSteps, RatesHolds, Zenon DEF JobInv
  <1>9. scenario' = "overlaps" => KindsP!AttrInv'
    BY OwnSteps, OverlapsHolds, Zenon DEF JobInv
  <1>10. scenario' = "messaging" => RegisteringP!MsgInv'
    BY OwnSteps, MessagingHolds, Zenon DEF JobInv
  <1>11. scenario' = "histories" => HistoriesP!IssueInv'
    BY OwnSteps, HistoriesHolds, Zenon DEF JobInv
  <1>12. scenario' = "recording" => ScheduledP!InfoInv'
    BY OwnSteps, RecordingHolds, Zenon DEF JobInv
  <1>13. scenario' = "forgetting" => HistoriesP!InfoInv'
    BY OwnSteps, ForgettingHolds, Zenon DEF JobInv
  <1> QED
    BY <1>1, <1>2, <1>3, <1>4, <1>5, <1>6, <1>7, <1>8, <1>9, <1>10, <1>11, <1>12, <1>13, Zenon
       DEF JobInv

LEMMA JobInvariant == Spec => []JobInv
  BY Begins, GoesOn, PTL DEF Spec

-----------------------------------------------------------------------------
(* The theorems.                                                           *)

\* In the scenario of the batch registration no upload is worked on twice at a time, the
\* API tells of uploads and rows what happened, and a row is registered again only when
\* its result was lost, whatever number of failures there may be.
THEOREM RegistrationTruth == Spec => []RegistrationsAreTrue
  <1>1. JobInv => RegistrationsAreTrue
    BY RegisteringHolds, Zenon DEF JobInv, RegistrationsAreTrue
  <1> QED
    BY <1>1, JobInvariant, PTL

\* In the scenarios of issues and redemptions a row is executed once, in spite of any
\* number of restarts and refused commits, and the status and the notification of an
\* upload say what happened.
THEOREM UploadTruth == Spec => []UploadsAreTrue
  <1>1. JobInv => UploadsAreTrue
    BY LotsHolds, KindsHolds, Zenon DEF JobInv, UploadsAreTrue
  <1> QED
    BY <1>1, JobInvariant, PTL

\* In the scenario of the scheduled events of an issuer no two workers carry them out at a
\* time, an event is carried out once unless the commit of its status was lost, and what
\* the API answers of an event is what became of it.
THEOREM EventTruth == Spec => []EventsAreTrue
  <1>1. JobInv => EventsAreTrue
    BY ScheduledHolds, Zenon DEF JobInv, EventsAreTrue
  <1> QED
    BY <1>1, JobInvariant, PTL

\* In the scenarios of the issue of tokens a token that is shown is complete, and a token that
\* is listed is shown unless the answer to its registration was lost, whatever number of
\* failures and restarts there may be.
THEOREM TokenTruth == Spec => []TokensAreTrue
  <1>1. JobInv => TokensAreTrue
    BY IssuingHolds, ListingHolds, Zenon DEF JobInv, TokensAreTrue
  <1> QED
    BY <1>1, JobInvariant, PTL

\* In the scenarios of updates of a token a query shows the attributes of the chain, or such as
\* were changed since the last record of an update, and the log of operations adds up to
\* them, whatever number of failures there may be.
THEOREM AttributeTruth == Spec => []AttributesAreTrue
  <1>1. JobInv => AttributesAreTrue
    BY RatesHolds, OverlapsHolds, Zenon DEF JobInv, AttributesAreTrue
  <1> QED
    BY <1>1, JobInvariant, PTL

\* In the scenario of messages a message is read with the key of its time, once, though the
\* keys are renewed and the passes end at any point, whatever number of failures there may be.
THEOREM MessageTruth == Spec => []MessagesAreRead
  <1>1. JobInv => MessagesAreRead
    BY MessagingHolds, Zenon DEF JobInv, MessagesAreRead
  <1> QED
    BY <1>1, JobInvariant, PTL

\* In the scenario of events of one date a worker carries them out in the order in which
\* they were posted, whatever number of failures there may be.
THEOREM EventSequence == Spec => EventsInOrder
  <1>1. JobInv /\ [Next]_vars => [scenario = "sameDate" => SameDate!CarriedOutInOrder]_vars
    BY OwnSteps, SameDateHolds, Zenon DEF JobInv
  <1> QED
    BY <1>1, JobInvariant, PTL DEF Spec, EventsInOrder

\* In the scenarios of histories of issues and redemptions and of personal information every
\* event of the blocks that are indexed is there, once, and once more only if the indexer
\* failed, whatever is mined between two passes or late.
THEOREM HistoryTruth == Spec => []HistoriesAreComplete
  <1>1. JobInv => HistoriesAreComplete
    BY HistoriesHolds, RecordingHolds, Zenon DEF JobInv, HistoriesAreComplete
  <1> QED
    BY <1>1, JobInvariant, PTL

\* In the scenarios of the key of an issuer a former key is forgotten only when nothing the
\* last pass knew of needs it, though passphrase and contract are changed.
THEOREM KeySafety == Spec => KeyForgottenUnused
  <1>1. JobInv /\ [Next]_vars => [/\ scenario = "forgetting" => Forgetting!KeyForgottenUnused
                                  /\ scenario = "recording" => Recording!KeyForgottenUnused]_vars
    BY OwnSteps, RecordingHolds, ForgettingHolds, Zenon DEF JobInv
  <1> QED
    BY <1>1, JobInvariant, PTL DEF Spec, KeyForgottenUnused
==============================================================================
