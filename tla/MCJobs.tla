-------------------------------- MODULE MCJobs --------------------------------
(* The components that carry out what the API was asked for.  They share no    *)
(* state, so a behaviour is one of a single component with one choice of       *)
(* constants, its scenario.  Variables of the same name are one variable; those *)
(* the component does not have are None.                                      *)
EXTENDS Integers, Sequences, TLC

CONSTANTS
    Scenarios,              \* scenarios of the run
    None,
    r1, r2, r3, r4,         \* rows of uploads
    u1, u2,                 \* uploads
    i1, i2,                 \* issuers
    w1, w2, NoWorker,       \* workers
    e1, e2,                 \* scheduled events
    t1, t2, a1, a2,         \* tokens, items or accounts
    q1, x1, x2, Initial,    \* a query and updates, and what was there before
    h1, h2, c1, c2,         \* holders and contracts
    p1, p2,                 \* passphrases
    d1, seller, buyer,      \* a DVP delivery and its parties
    MaxFaults               \* bound on failures

VARIABLES
    upload, row, notes, singles, mempool, log, pc, uploads, left, chunk, outcome, shutdown,
    index, past, chain, cache, got, fill, rows, status, soft, now, filter, issuer, list,
    claimed, request, tokens, updates, positions, utxos, wst, set, listed, account, temp,
    contract, record, events, history, synced, flight, ix, mod, notices, registered,
    processing, lock, sent, faults, lost, interval, generation, keys, opening, rot, used,
    executed, cur, rest, result, stopping, procs, phase, todo, txs, balance, delivery,
    crashes, scenario

-----------------------------------------------------------------------------
(* Scenarios.                                                              *)

OneUpload(R) == [r \in R |-> u1]
OneEach == (r1 :> u1) @@ (r2 :> u2)

\* Issues and redemptions: a transaction for two rows of three; uploads of two kinds
\* and missing keys; single requests beside an upload; one that is stopped.
Lots == INSTANCE BatchIssueRedeem WITH
    Uploads <- {u1}, Shares <- {}, Redemptions <- {}, Batched <- {u1}, Rows <- {r1, r2, r3},
    UploadOf <- OneUpload({r1, r2, r3}), LotSize <- 2, Lot <- 2, KeyFaults <- FALSE, MaxSingles <- 0
Kinds == INSTANCE BatchIssueRedeem WITH
    Uploads <- {u1, u2}, Shares <- {u1}, Redemptions <- {u2}, Batched <- {}, Rows <- {r1, r2},
    UploadOf <- OneEach, LotSize <- 2, Lot <- 2, KeyFaults <- TRUE, MaxSingles <- 0
Histories == INSTANCE BatchIssueRedeem WITH
    Uploads <- {u1, u2}, Shares <- {u2}, Redemptions <- {u2}, Batched <- {u2}, Rows <- {r1, r2},
    UploadOf <- OneEach, LotSize <- 2, Lot <- 2, KeyFaults <- FALSE, MaxSingles <- 1, MaxFaults <- 0
Stopping == INSTANCE BatchIssueRedeem WITH
    Uploads <- {u1}, Shares <- {u1}, Redemptions <- {u1}, Batched <- {u1}, Rows <- {r1, r2},
    UploadOf <- OneUpload({r1, r2}), LotSize <- 1, Lot <- 2, KeyFaults <- FALSE, MaxSingles <- 0

\* Updates of the same attribute; with the log of operations; one that needs a later
\* version of the contract.
Rates == INSTANCE TokenAttributes WITH
    TokenType <- "bond", Version <- 2509, Readers <- {q1}, Updaters <- {x1, x2}, UseCache <- TRUE,
    Request <- (x1 :> {"interest_rate", "memo"}) @@ (x2 :> {"interest_rate"})
Overlaps == INSTANCE TokenAttributes WITH
    TokenType <- "share", Version <- 2509, Readers <- {}, Updaters <- {x1, x2}, UseCache <- FALSE,
    Request <- (x1 :> {"dividends", "memo"}) @@ (x2 :> {"status", "memo"})
Versions == INSTANCE TokenAttributes WITH
    TokenType <- "bond", Version <- 2312, Readers <- {q1}, Updaters <- {x1, x2}, UseCache <- TRUE,
    Request <- (x1 :> {"interest_rate"}) @@ (x2 :> {"purpose"})

\* Scheduled events of one issuer: of two types and dates; of one date; of bonds.
Scheduled == INSTANCE ScheduledEvents WITH
    Workers <- {w1, w2}, Events <- {e1, e2}, IssuerOf <- (e1 :> i1) @@ (e2 :> i1),
    TypeOf <- (e1 :> "bond") @@ (e2 :> "share"), At <- (e1 :> 1) @@ (e2 :> 0),
    End <- 1, KeyFaults <- TRUE, Errors <- TRUE, MaxDeletions <- 1, MaxFaults <- 1
SameDate == INSTANCE ScheduledEvents WITH
    Workers <- {w1}, Events <- {e1, e2}, IssuerOf <- (e1 :> i1) @@ (e2 :> i1),
    TypeOf <- (e1 :> "share") @@ (e2 :> "share"), At <- (e1 :> 0) @@ (e2 :> 0),
    End <- 0, KeyFaults <- FALSE, Errors <- TRUE, MaxDeletions <- 1
DatedBonds == INSTANCE ScheduledEvents WITH
    Workers <- {w1, w2}, Events <- {e1, e2}, IssuerOf <- (e1 :> i1) @@ (e2 :> i1),
    TypeOf <- (e1 :> "bond") @@ (e2 :> "bond"), At <- (e1 :> 1) @@ (e2 :> 0),
    End <- 1, KeyFaults <- FALSE, Errors <- TRUE, MaxDeletions <- 0, MaxFaults <- 1

\* The issue of a bond with two items to set, and of a share with one or none.
Issuing == INSTANCE TokenIssue WITH
    Tokens <- {t1, t2}, TypeOf <- (t1 :> "bond") @@ (t2 :> "share"), Items <- {a1, a2},
    ItemsOf <- (t1 :> {a1, a2}) @@ (t2 :> {a1}), WithWST <- {t1}
Listing == INSTANCE TokenIssue WITH
    Tokens <- {t1, t2}, TypeOf <- (t1 :> "bond") @@ (t2 :> "share"), Items <- {a1, a2},
    ItemsOf <- (t1 :> {a1, a2}) @@ (t2 :> {}), WithWST <- {t1}

\* The key of an issuer: another contract and another passphrase; two holders; a record
\* that comes late; no change but that of the key.
Forgetting == INSTANCE PersonalInfo WITH
    Holders <- {h1}, Contracts <- {c1, c2}, FirstContract <- c1, ContractChanges <- TRUE,
    PassphraseChanges <- 1, Passphrases <- {p1, p2}, MaxKeys <- 2, MaxWrites <- 2,
    MaxFaults <- 0, MaxEvents <- 3
Recording == INSTANCE PersonalInfo WITH
    Holders <- {h1, h2}, Contracts <- {c1}, FirstContract <- c1, ContractChanges <- FALSE,
    PassphraseChanges <- 0, Passphrases <- {p1}, MaxKeys <- 2, MaxWrites <- 2,
    MaxFaults <- 1, MaxEvents <- 3
Late == INSTANCE PersonalInfo WITH
    Holders <- {h1}, Contracts <- {c1}, FirstContract <- c1, ContractChanges <- FALSE,
    PassphraseChanges <- 0, Passphrases <- {p1}, MaxKeys <- 2, MaxWrites <- 1,
    MaxFaults <- 0, MaxEvents <- 9
Changing == INSTANCE PersonalInfo WITH
    Holders <- {h1}, Contracts <- {c1}, FirstContract <- c1, ContractChanges <- FALSE,
    PassphraseChanges <- 0, Passphrases <- {p1}, MaxKeys <- 2, MaxWrites <- 2,
    MaxFaults <- 1, MaxEvents <- 9

\* Uploads 1 and 2 of an issuer, the first one of two rows, and 3 of another issuer, who
\* has no account or no RSA key.
UploadOfRow == (r1 :> 1) @@ (r2 :> 1) @@ (r3 :> 2) @@ (r4 :> 3)
TwoIssuers == (1 :> i1) @@ (2 :> i1) @@ (3 :> i2)
Registering == INSTANCE BatchRegister WITH
    Workers <- {w1, w2}, Uploads <- {1, 2, 3}, Rows <- {r1, r2, r3, r4}, UploadOf <- UploadOfRow,
    IssuerOf <- TwoIssuers, NoAccount <- {i2}, NoRsaKey <- {}, Unbound <- {3}, WorkerLotSize <- 2
Keyless == INSTANCE BatchRegister WITH
    Workers <- {w1, w2}, Uploads <- {1, 2, 3}, Rows <- {r1, r2, r3, r4}, UploadOf <- UploadOfRow,
    IssuerOf <- TwoIssuers, NoAccount <- {}, NoRsaKey <- {i2}, Unbound <- {2}, WorkerLotSize <- 2,
    MaxFaults <- 1

\* Messages of one account; changes of its settings; renewals without an end.
Messaging == INSTANCE E2EMessaging WITH
    Accounts <- {a1}, Intervals <- {1}, Generations <- {2}, Passphrases <- {p1}, FirstPassphrase <- p1,
    MaxTime <- 3, MaxKeys <- 2, MaxMessages <- 2
Settings == INSTANCE E2EMessaging WITH
    Accounts <- {a1}, Intervals <- {0, 1}, Generations <- {0, 1}, Passphrases <- {p1, p2},
    FirstPassphrase <- p1, MaxTime <- 3, MaxKeys <- 2, MaxMessages <- 0
Renewing == INSTANCE E2EMessaging WITH
    Accounts <- {a1}, Intervals <- {0, 1}, Generations <- {1}, Passphrases <- {p1}, FirstPassphrase <- p1,
    MaxTime <- 3, MaxKeys <- 5, MaxMessages <- 0

\* Two uploads of transfers, and a DVP delivery that is refused nothing.
Transfers == INSTANCE BulkTransfer WITH
    Workers <- {w1, w2}, Issuers <- {i1}, Uploads <- 1..2, Rows <- {r1, r2, r3},
    UploadOf <- (r1 :> 1) @@ (r2 :> 1) @@ (r3 :> 2), IssuerOf <- (1 :> i1) @@ (2 :> i1),
    NoKey <- {}, WorkerLotSize <- 2, TxLotSize <- 2, MaxFault <- 1, MaxDeath <- 1, MaxLost <- 0
Deliveries == INSTANCE DVPAsyncTx WITH
    Seller <- seller, Buyer <- buyer, Requests <- {d1}, Amount <- d1 :> 1, Rejected <- {},
    Managed <- {seller, buyer}, MaxTx <- 4, MaxApiCrash <- 0, MaxSendCrash <- 0,
    MaxAbandon <- 0, MaxLost <- 0

ASSUME ScenarioAssumption ==
    /\ Lots!BatchIssueRedeemAssumption /\ Kinds!BatchIssueRedeemAssumption
    /\ Histories!BatchIssueRedeemAssumption /\ Stopping!BatchIssueRedeemAssumption
    /\ Rates!TokenAttributesAssumption /\ Overlaps!TokenAttributesAssumption
    /\ Versions!TokenAttributesAssumption
    /\ Scheduled!ScheduledEventsAssumption /\ SameDate!ScheduledEventsAssumption
    /\ DatedBonds!ScheduledEventsAssumption
    /\ Issuing!TokenIssueAssumption /\ Listing!TokenIssueAssumption
    /\ Forgetting!PersonalInfoAssumption /\ Recording!PersonalInfoAssumption
    /\ Late!PersonalInfoAssumption /\ Changing!PersonalInfoAssumption
    /\ Registering!BatchRegisterAssumption /\ Keyless!BatchRegisterAssumption
    /\ Messaging!E2EMessagingAssumption /\ Settings!E2EMessagingAssumption
    /\ Renewing!E2EMessagingAssumption

-----------------------------------------------------------------------------
(* The variables a component does not have.                                *)

NotIssue == <<chain, cache, got, fill, rows, status, soft, now, filter, issuer, list,
               claimed, request, tokens, updates, positions, utxos, wst, set, listed,
               account, temp, contract, record, events, history, synced, flight, ix, mod,
               notices, registered, processing, lock, sent, faults, lost, interval,
               generation, keys, opening, rot, used, executed, cur, rest, result, stopping,
               procs, phase, todo, txs, balance, delivery, crashes>>

NotIssueYet ==
    /\ chain = None /\ cache = None /\ got = None /\ fill = None /\ rows = None
    /\ status = None /\ soft = None /\ now = None /\ filter = None /\ issuer = None
    /\ list = None /\ claimed = None /\ request = None /\ tokens = None /\ updates = None
    /\ positions = None /\ utxos = None /\ wst = None /\ set = None /\ listed = None
    /\ account = None /\ temp = None /\ contract = None /\ record = None /\ events = None
    /\ history = None /\ synced = None /\ flight = None /\ ix = None /\ mod = None
    /\ notices = None /\ registered = None /\ processing = None /\ lock = None
    /\ sent = None /\ faults = None /\ lost = None /\ interval = None /\ generation = None
    /\ keys = None /\ opening = None /\ rot = None /\ used = None /\ executed = None
    /\ cur = None /\ rest = None /\ result = None /\ stopping = None /\ procs = None
    /\ phase = None /\ todo = None /\ txs = None /\ balance = None /\ delivery = None
    /\ crashes = None

NotAttributes == <<upload, row, notes, singles, uploads, chunk, outcome, shutdown, index,
                    rows, status, soft, now, filter, issuer, list, claimed, request,
                    tokens, updates, positions, utxos, wst, set, listed, account, temp,
                    contract, record, events, history, synced, flight, ix, mod, notices,
                    registered, processing, lock, sent, faults, lost, interval, generation,
                    keys, opening, rot, used, executed, cur, rest, result, stopping, procs,
                    phase, todo, txs, balance, delivery, crashes>>

NotAttributesYet ==
    /\ upload = None /\ row = None /\ notes = None /\ singles = None /\ uploads = None
    /\ chunk = None /\ outcome = None /\ shutdown = None /\ index = None /\ rows = None
    /\ status = None /\ soft = None /\ now = None /\ filter = None /\ issuer = None
    /\ list = None /\ claimed = None /\ request = None /\ tokens = None /\ updates = None
    /\ positions = None /\ utxos = None /\ wst = None /\ set = None /\ listed = None
    /\ account = None /\ temp = None /\ contract = None /\ record = None /\ events = None
    /\ history = None /\ synced = None /\ flight = None /\ ix = None /\ mod = None
    /\ notices = None /\ registered = None /\ processing = None /\ lock = None
    /\ sent = None /\ faults = None /\ lost = None /\ interval = None /\ generation = None
    /\ keys = None /\ opening = None /\ rot = None /\ used = None /\ executed = None
    /\ cur = None /\ rest = None /\ result = None /\ stopping = None /\ procs = None
    /\ phase = None /\ todo = None /\ txs = None /\ balance = None /\ delivery = None
    /\ crashes = None

NotEvents == <<upload, row, singles, mempool, uploads, left, chunk, index, cache, got,
                fill, request, tokens, updates, positions, utxos, wst, set, listed,
                account, temp, contract, record, events, history, synced, flight, ix, mod,
                notices, registered, processing, lock, sent, faults, lost, interval,
                generation, keys, opening, rot, used, executed, cur, rest, result,
                stopping, procs, phase, todo, txs, balance, delivery, crashes>>

NotEventsYet ==
    /\ upload = None /\ row = None /\ singles = None /\ mempool = None /\ uploads = None
    /\ left = None /\ chunk = None /\ index = None /\ cache = None /\ got = None
    /\ fill = None /\ request = None /\ tokens = None /\ updates = None /\ positions = None
    /\ utxos = None /\ wst = None /\ set = None /\ listed = None /\ account = None
    /\ temp = None /\ contract = None /\ record = None /\ events = None /\ history = None
    /\ synced = None /\ flight = None /\ ix = None /\ mod = None /\ notices = None
    /\ registered = None /\ processing = None /\ lock = None /\ sent = None
    /\ faults = None /\ lost = None /\ interval = None /\ generation = None /\ keys = None
    /\ opening = None /\ rot = None /\ used = None /\ executed = None /\ cur = None
    /\ rest = None /\ result = None /\ stopping = None /\ procs = None /\ phase = None
    /\ todo = None /\ txs = None /\ balance = None /\ delivery = None /\ crashes = None

NotTokens == <<upload, row, singles, mempool, log, uploads, left, chunk, index, chain,
                cache, got, fill, rows, soft, now, filter, issuer, claimed, account, temp,
                contract, record, events, history, synced, flight, ix, mod, notices,
                registered, processing, lock, sent, faults, lost, interval, generation,
                keys, opening, rot, used, executed, cur, rest, result, stopping, procs,
                phase, todo, txs, balance, delivery, crashes>>

NotTokensYet ==
    /\ upload = None /\ row = None /\ singles = None /\ mempool = None /\ log = None
    /\ uploads = None /\ left = None /\ chunk = None /\ index = None /\ chain = None
    /\ cache = None /\ got = None /\ fill = None /\ rows = None /\ soft = None
    /\ now = None /\ filter = None /\ issuer = None /\ claimed = None /\ account = None
    /\ temp = None /\ contract = None /\ record = None /\ events = None /\ history = None
    /\ synced = None /\ flight = None /\ ix = None /\ mod = None /\ notices = None
    /\ registered = None /\ processing = None /\ lock = None /\ sent = None
    /\ faults = None /\ lost = None /\ interval = None /\ generation = None /\ keys = None
    /\ opening = None /\ rot = None /\ used = None /\ executed = None /\ cur = None
    /\ rest = None /\ result = None /\ stopping = None /\ procs = None /\ phase = None
    /\ todo = None /\ txs = None /\ balance = None /\ delivery = None /\ crashes = None

NotInfo == <<upload, row, notes, singles, mempool, log, pc, uploads, left, chunk, outcome,
              shutdown, chain, cache, got, fill, rows, status, soft, now, filter, issuer,
              list, claimed, request, tokens, updates, positions, utxos, wst, set, listed,
              notices, registered, processing, lock, sent, faults, lost, interval,
              generation, keys, opening, rot, used, executed, cur, rest, result, stopping,
              procs, phase, todo, txs, balance, delivery, crashes>>

NotInfoYet ==
    /\ upload = None /\ row = None /\ notes = None /\ singles = None /\ mempool = None
    /\ log = None /\ pc = None /\ uploads = None /\ left = None /\ chunk = None
    /\ outcome = None /\ shutdown = None /\ chain = None /\ cache = None /\ got = None
    /\ fill = None /\ rows = None /\ status = None /\ soft = None /\ now = None
    /\ filter = None /\ issuer = None /\ list = None /\ claimed = None /\ request = None
    /\ tokens = None /\ updates = None /\ positions = None /\ utxos = None /\ wst = None
    /\ set = None /\ listed = None /\ notices = None /\ registered = None
    /\ processing = None /\ lock = None /\ sent = None /\ faults = None /\ lost = None
    /\ interval = None /\ generation = None /\ keys = None /\ opening = None /\ rot = None
    /\ used = None /\ executed = None /\ cur = None /\ rest = None /\ result = None
    /\ stopping = None /\ procs = None /\ phase = None /\ todo = None /\ txs = None
    /\ balance = None /\ delivery = None /\ crashes = None

NotRegister == <<upload, row, notes, singles, mempool, log, uploads, chunk, outcome,
                  shutdown, index, past, chain, cache, got, fill, soft, now, filter,
                  issuer, claimed, request, tokens, updates, positions, utxos, wst, set,
                  listed, account, temp, contract, record, events, history, synced, flight,
                  ix, mod, interval, generation, keys, opening, rot, used, executed, cur,
                  rest, result, stopping, procs, phase, todo, txs, balance, delivery,
                  crashes>>

NotRegisterYet ==
    /\ upload = None /\ row = None /\ notes = None /\ singles = None /\ mempool = None
    /\ log = None /\ uploads = None /\ chunk = None /\ outcome = None /\ shutdown = None
    /\ index = None /\ past = None /\ chain = None /\ cache = None /\ got = None
    /\ fill = None /\ soft = None /\ now = None /\ filter = None /\ issuer = None
    /\ claimed = None /\ request = None /\ tokens = None /\ updates = None
    /\ positions = None /\ utxos = None /\ wst = None /\ set = None /\ listed = None
    /\ account = None /\ temp = None /\ contract = None /\ record = None /\ events = None
    /\ history = None /\ synced = None /\ flight = None /\ ix = None /\ mod = None
    /\ interval = None /\ generation = None /\ keys = None /\ opening = None /\ rot = None
    /\ used = None /\ executed = None /\ cur = None /\ rest = None /\ result = None
    /\ stopping = None /\ procs = None /\ phase = None /\ todo = None /\ txs = None
    /\ balance = None /\ delivery = None /\ crashes = None

NotE2E == <<upload, row, notes, singles, mempool, pc, uploads, left, chunk, outcome,
             shutdown, past, chain, cache, got, fill, rows, soft, filter, issuer, list,
             claimed, request, tokens, updates, positions, utxos, wst, set, listed,
             account, temp, contract, record, events, history, flight, mod, notices,
             registered, processing, lock, sent, faults, lost, executed, cur, rest, result,
             stopping, procs, phase, todo, txs, balance, delivery, crashes>>

NotE2EYet ==
    /\ upload = None /\ row = None /\ notes = None /\ singles = None /\ mempool = None
    /\ pc = None /\ uploads = None /\ left = None /\ chunk = None /\ outcome = None
    /\ shutdown = None /\ past = None /\ chain = None /\ cache = None /\ got = None
    /\ fill = None /\ rows = None /\ soft = None /\ filter = None /\ issuer = None
    /\ list = None /\ claimed = None /\ request = None /\ tokens = None /\ updates = None
    /\ positions = None /\ utxos = None /\ wst = None /\ set = None /\ listed = None
    /\ account = None /\ temp = None /\ contract = None /\ record = None /\ events = None
    /\ history = None /\ flight = None /\ mod = None /\ notices = None /\ registered = None
    /\ processing = None /\ lock = None /\ sent = None /\ faults = None /\ lost = None
    /\ executed = None /\ cur = None /\ rest = None /\ result = None /\ stopping = None
    /\ procs = None /\ phase = None /\ todo = None /\ txs = None /\ balance = None
    /\ delivery = None /\ crashes = None

NotBulk == <<upload, row, notes, singles, mempool, log, uploads, outcome, shutdown, index,
              past, chain, cache, got, fill, soft, now, filter, issuer, list, claimed,
              request, tokens, updates, positions, utxos, wst, set, listed, account, temp,
              contract, record, events, history, synced, flight, ix, mod, registered, sent,
              interval, generation, keys, opening, rot, used, procs, phase, todo, txs,
              balance, delivery, crashes>>

NotBulkYet ==
    /\ upload = None /\ row = None /\ notes = None /\ singles = None /\ mempool = None
    /\ log = None /\ uploads = None /\ outcome = None /\ shutdown = None /\ index = None
    /\ past = None /\ chain = None /\ cache = None /\ got = None /\ fill = None
    /\ soft = None /\ now = None /\ filter = None /\ issuer = None /\ list = None
    /\ claimed = None /\ request = None /\ tokens = None /\ updates = None
    /\ positions = None /\ utxos = None /\ wst = None /\ set = None /\ listed = None
    /\ account = None /\ temp = None /\ contract = None /\ record = None /\ events = None
    /\ history = None /\ synced = None /\ flight = None /\ ix = None /\ mod = None
    /\ registered = None /\ sent = None /\ interval = None /\ generation = None
    /\ keys = None /\ opening = None /\ rot = None /\ used = None /\ procs = None
    /\ phase = None /\ todo = None /\ txs = None /\ balance = None /\ delivery = None
    /\ crashes = None

NotDVP == <<upload, row, notes, singles, mempool, log, pc, uploads, left, chunk, outcome,
             shutdown, index, past, chain, cache, got, fill, rows, status, soft, now,
             filter, issuer, list, claimed, tokens, updates, positions, utxos, wst, set,
             listed, account, temp, contract, record, events, history, synced, flight, ix,
             mod, notices, registered, processing, lock, sent, faults, lost, interval,
             generation, keys, opening, rot, used, executed, cur, rest, result, stopping>>

NotDVPYet ==
    /\ upload = None /\ row = None /\ notes = None /\ singles = None /\ mempool = None
    /\ log = None /\ pc = None /\ uploads = None /\ left = None /\ chunk = None
    /\ outcome = None /\ shutdown = None /\ index = None /\ past = None /\ chain = None
    /\ cache = None /\ got = None /\ fill = None /\ rows = None /\ status = None
    /\ soft = None /\ now = None /\ filter = None /\ issuer = None /\ list = None
    /\ claimed = None /\ tokens = None /\ updates = None /\ positions = None
    /\ utxos = None /\ wst = None /\ set = None /\ listed = None /\ account = None
    /\ temp = None /\ contract = None /\ record = None /\ events = None /\ history = None
    /\ synced = None /\ flight = None /\ ix = None /\ mod = None /\ notices = None
    /\ registered = None /\ processing = None /\ lock = None /\ sent = None
    /\ faults = None /\ lost = None /\ interval = None /\ generation = None /\ keys = None
    /\ opening = None /\ rot = None /\ used = None /\ executed = None /\ cur = None
    /\ rest = None /\ result = None /\ stopping = None

Init ==
    /\ scenario \in Scenarios
    /\ \/ scenario = "lots" /\ Lots!Init /\ NotIssueYet
       \/ scenario = "kinds" /\ Kinds!Init /\ NotIssueYet
       \/ scenario = "histories" /\ Histories!Init /\ NotIssueYet
       \/ scenario = "stopping" /\ Stopping!Init /\ NotIssueYet
       \/ scenario = "rates" /\ Rates!Init /\ NotAttributesYet
       \/ scenario = "overlaps" /\ Overlaps!Init /\ NotAttributesYet
       \/ scenario = "versions" /\ Versions!Init /\ NotAttributesYet
       \/ scenario = "scheduled" /\ Scheduled!Init /\ NotEventsYet
       \/ scenario = "sameDate" /\ SameDate!Init /\ NotEventsYet
       \/ scenario = "datedBonds" /\ DatedBonds!Init /\ NotEventsYet
       \/ scenario = "issuing" /\ Issuing!Init /\ NotTokensYet
       \/ scenario = "listing" /\ Listing!Init /\ NotTokensYet
       \/ scenario = "forgetting" /\ Forgetting!Init /\ NotInfoYet
       \/ scenario = "recording" /\ Recording!Init /\ NotInfoYet
       \/ scenario = "late" /\ Late!Init /\ NotInfoYet
       \/ scenario = "changing" /\ Changing!Init /\ NotInfoYet
       \/ scenario = "registering" /\ Registering!Init /\ NotRegisterYet
       \/ scenario = "keyless" /\ Keyless!Init /\ NotRegisterYet
       \/ scenario = "messaging" /\ Messaging!Init /\ NotE2EYet
       \/ scenario = "settings" /\ Settings!Init /\ NotE2EYet
       \/ scenario = "renewing" /\ Renewing!Init /\ NotE2EYet
       \/ scenario = "transfers" /\ Transfers!Init /\ NotBulkYet
       \/ scenario = "deliveries" /\ Deliveries!Init /\ NotDVPYet

Next ==
    \/ scenario = "lots" /\ Lots!Next /\ UNCHANGED <<NotIssue, scenario>>
    \/ scenario = "kinds" /\ Kinds!Next /\ UNCHANGED <<NotIssue, scenario>>
    \/ scenario = "histories" /\ Histories!Next /\ UNCHANGED <<NotIssue, scenario>>
    \/ scenario = "stopping" /\ Stopping!Next /\ UNCHANGED <<NotIssue, scenario>>
    \/ scenario = "rates" /\ Rates!Next /\ UNCHANGED <<NotAttributes, scenario>>
    \/ scenario = "overlaps" /\ Overlaps!Next /\ UNCHANGED <<NotAttributes, scenario>>
    \/ scenario = "versions" /\ Versions!Next /\ UNCHANGED <<NotAttributes, scenario>>
    \/ scenario = "scheduled" /\ Scheduled!Next /\ UNCHANGED <<NotEvents, scenario>>
    \/ scenario = "sameDate" /\ SameDate!Next /\ UNCHANGED <<NotEvents, scenario>>
    \/ scenario = "datedBonds" /\ DatedBonds!Next /\ UNCHANGED <<NotEvents, scenario>>
    \/ scenario = "issuing" /\ Issuing!Next /\ UNCHANGED <<NotTokens, scenario>>
    \/ scenario = "listing" /\ Listing!Next /\ UNCHANGED <<NotTokens, scenario>>
    \/ scenario = "forgetting" /\ Forgetting!Next /\ UNCHANGED <<NotInfo, scenario>>
    \/ scenario = "recording" /\ Recording!Next /\ UNCHANGED <<NotInfo, scenario>>
    \/ scenario = "late" /\ Late!Next /\ UNCHANGED <<NotInfo, scenario>>
    \/ scenario = "changing" /\ Changing!Next /\ UNCHANGED <<NotInfo, scenario>>
    \/ scenario = "registering" /\ Registering!Next /\ UNCHANGED <<NotRegister, scenario>>
    \/ scenario = "keyless" /\ Keyless!Next /\ UNCHANGED <<NotRegister, scenario>>
    \/ scenario = "messaging" /\ Messaging!Next /\ UNCHANGED <<NotE2E, scenario>>
    \/ scenario = "settings" /\ Settings!Next /\ UNCHANGED <<NotE2E, scenario>>
    \/ scenario = "renewing" /\ Renewing!Next /\ UNCHANGED <<NotE2E, scenario>>
    \/ scenario = "transfers" /\ Transfers!Next /\ UNCHANGED <<NotBulk, scenario>>
    \/ scenario = "deliveries" /\ Deliveries!Next /\ UNCHANGED <<NotDVP, scenario>>

vars == <<upload, row, notes, singles, mempool, log, pc, uploads, left, chunk, outcome,
          shutdown, index, past, chain, cache, got, fill, rows, status, soft, now, filter,
          issuer, list, claimed, request, tokens, updates, positions, utxos, wst, set,
          listed, account, temp, contract, record, events, history, synced, flight, ix,
          mod, notices, registered, processing, lock, sent, faults, lost, interval,
          generation, keys, opening, rot, used, executed, cur, rest, result, stopping,
          procs, phase, todo, txs, balance, delivery, crashes, scenario>>

Spec == Init /\ [][Next]_vars

(* The batch processes run for ever, pass after pass, and a process that ended *)
(* is started again; their workers get their turn and asyncio's lock is given   *)
(* in the order of the requests (SF); time passes and pending transactions are *)
(* mined.  A row of the DVP tables is not skipped for ever (SF): the nodes       *)
(* answer eventually.  As a behaviour has one scenario, actions of different ones *)
(* share a fairness condition.                                                *)

OfIssue(A) == scenario = "stopping" /\ A /\ UNCHANGED <<NotIssue, scenario>>
OfAttributes(A) == scenario = "versions" /\ A /\ UNCHANGED <<NotAttributes, scenario>>
OfEvents(A) == scenario = "datedBonds" /\ A /\ UNCHANGED <<NotEvents, scenario>>
OfTokens(A) == scenario = "issuing" /\ A /\ UNCHANGED <<NotTokens, scenario>>
OfInfo(A) == scenario = "changing" /\ A /\ UNCHANGED <<NotInfo, scenario>>
OfRegister(A) == scenario = "keyless" /\ A /\ UNCHANGED <<NotRegister, scenario>>
OfE2E(A) == scenario = "renewing" /\ A /\ UNCHANGED <<NotE2E, scenario>>
OfBulk(A) == scenario = "transfers" /\ A /\ UNCHANGED <<NotBulk, scenario>>
OfDVP(A) == scenario = "deliveries" /\ A /\ UNCHANGED <<NotDVP, scenario>>

HandleRow(i) == i \in DOMAIN procs /\ Deliveries!HandleRow(i)
Mine(i) == i \in DOMAIN txs /\ Deliveries!Mine(i)

Fairness ==
    /\ WF_vars(\/ OfIssue(Stopping!ProcessorStep) \/ OfAttributes(Versions!UpdateStep(x1))
               \/ OfEvents(DatedBonds!WorkerStep(w1)) \/ OfTokens(Issuing!BatchStep)
               \/ OfInfo(Changing!GenerateRsaKey) \/ OfRegister(Keyless!Work(w1))
               \/ OfE2E(Renewing!Rotation) \/ OfBulk(Transfers!Work(w1)) \/ OfDVP(Deliveries!Processor))
    /\ WF_vars(\/ OfIssue(Stopping!Restart) \/ OfAttributes(Versions!UpdateStep(x2))
               \/ OfEvents(DatedBonds!WorkerStep(w2)) \/ OfTokens(Issuing!Restart)
               \/ OfInfo(Changing!Indexer) \/ OfRegister(Keyless!Work(w2))
               \/ OfBulk(Transfers!Work(w2)) \/ OfDVP(Deliveries!IndexDelivery))
    /\ WF_vars(\/ OfAttributes(Versions!GetStep(x1)) \/ OfEvents(DatedBonds!Tick)
               \/ OfInfo(Changing!Modifier) \/ OfBulk(Transfers!Restart)
               \/ OfDVP(Deliveries!InsertProcess(d1)))
    /\ WF_vars(\/ OfAttributes(Versions!GetStep(x2)) \/ OfEvents(DatedBonds!Restart)
               \/ OfInfo(Changing!RegisterInfo) \/ OfDVP(Mine(1)))
    /\ WF_vars(OfAttributes(Versions!GetStep(q1)) \/ OfDVP(Mine(2)))
    /\ WF_vars(OfAttributes(Versions!Expire) \/ OfDVP(Mine(3)))
    /\ WF_vars(OfDVP(Mine(4)))
    /\ SF_vars(\/ OfRegister(Keyless!GetFirst(w1)) \/ OfBulk(Transfers!PickFirst(w1))
               \/ OfDVP(HandleRow(1)))
    /\ SF_vars(\/ OfRegister(Keyless!GetFirst(w2)) \/ OfBulk(Transfers!PickFirst(w2))
               \/ OfDVP(HandleRow(2)))
    /\ SF_vars(OfBulk(Transfers!Release(w1)) \/ OfDVP(HandleRow(3)))
    /\ SF_vars(OfBulk(Transfers!Release(w2)) \/ OfDVP(HandleRow(4)))

FairSpec == Spec /\ Fairness

-----------------------------------------------------------------------------
(* Properties.                                                             *)

\* The variables of every component keep their types.
TypeOK ==
    /\ scenario = "lots" => Lots!TypeOK
    /\ scenario = "rates" => Rates!TypeOK
    /\ scenario = "scheduled" => Scheduled!TypeOK
    /\ scenario = "issuing" => Issuing!TypeOK
    /\ scenario = "forgetting" => Forgetting!TypeOK
    /\ scenario = "registering" => Registering!TypeOK
    /\ scenario = "settings" => Settings!TypeOK

\* Rows of issues and redemptions are executed once, in spite of restarts and of
\* commits that fail, and the status and notification of an upload say what happened.
UploadsAreTrue ==
    /\ scenario = "lots" => Lots!ExecutedOnce
    /\ scenario = "kinds" => Kinds!ReportIsTrue

\* The histories of issues and redemptions and of personal information have every event
\* of the blocks that are indexed, each once.
HistoriesAreComplete ==
    /\ scenario = "histories" => Histories!HistoryIsComplete
    /\ scenario = "recording" => Recording!HistoryIsComplete

\* Attributes that are shown are those of the chain or were changed since the last
\* record of an update, and the log of operations adds up to them.
AttributesAreTrue ==
    /\ scenario = "rates" => Rates!ShownIsCurrent
    /\ scenario = "overlaps" => Overlaps!HistoryIsTrue

\* A scheduled event is carried out once at most, by one worker, and its status, the log
\* and the notifications agree.
EventsAreTrue == scenario = "scheduled" => Scheduled!ExecutedOnce /\ Scheduled!StatusIsTrue

\* Scheduled updates of an issuer are carried out in their order.
EventsInOrder == [][scenario = "sameDate" => SameDate!CarriedOutInOrder]_vars

\* A token that is shown is complete, and a token that is listed is shown, unless the
\* answer to its registration was lost.
TokensAreTrue ==
    /\ scenario = "issuing" => Issuing!IssueIsTrue
    /\ scenario = "listing" => Listing!ListedIsShown

\* The former key of an issuer is forgotten only when no indexed record needs it.
KeyForgottenUnused ==
    [][/\ scenario = "forgetting" => Forgetting!KeyForgottenUnused
       /\ scenario = "recording" => Recording!KeyForgottenUnused]_vars

\* Registrations of an upload are made by one worker, once, and reported as they are.
RegistrationsAreTrue ==
    scenario = "registering" =>
       Registering!OneWorker /\ Registering!ReportIsTrue /\ Registering!RegisteredOnce

\* A message is indexed with the key of its time, once.
MessagesAreRead == scenario = "messaging" => Messaging!MessageIsRead

\* What upload, event, token, key, row or call k is waiting for, and that it is there.
Due(k) ==
    \/ scenario = "stopping" /\ k = 1 /\ upload[u1] = "open"
    \/ scenario = "versions" /\ k = 1 /\ Versions!Quiet
    \/ scenario = "datedBonds" /\ \E e \in {IF k = 1 THEN e1 ELSE e2} :
          e \in {rows[i] : i \in DOMAIN rows} /\ (k = 1 => now = 1)
    \/ scenario = "issuing" /\ Issuing!Answer(IF k = 1 THEN t1 ELSE t2) = "unavailable"
    \/ scenario = "changing" /\ (k = 1 => account.status = "changing")
    \/ scenario = "keyless" /\ status[k] = "pending"
    \/ scenario = "renewing" /\ k = 1
    \/ scenario = "transfers" /\ status[k] = "pending"
    \/ scenario = "deliveries" /\ (k = 1 => request[d1] = "accepted") /\ (k = 2 => Len(procs) = 2)
Done(k) ==
    \/ scenario = "stopping" /\ upload[u1] = "processed"
    \/ scenario = "versions" /\ Versions!Shown = chain
    \/ scenario = "datedBonds" /\ DatedBonds!Settled(IF k = 1 THEN e1 ELSE e2)
    \/ scenario = "issuing" /\ status[IF k = 1 THEN t1 ELSE t2] # 0
    \/ scenario = "changing" /\ IF k = 1 THEN account.status = "set" ELSE Changing!IndexIsCurrent
    \/ scenario = "keyless" /\ status[k] \in {"done", "failed"}
    \/ scenario = "renewing" /\ Renewing!PublishedIsReadable(a1)
    \/ scenario = "transfers" /\ Transfers!SettledOrHidden(k)
    \/ scenario = "deliveries" /\ (k = 1 => Deliveries!Delivered(d1)) /\ Deliveries!Succeeded(k)

\* Whatever was accepted comes to an end, in spite of restarts and failures: uploads,
\* scheduled events, issues, changes of keys, transfers and deliveries; queries show the
\* attributes of the chain, the index the personal information, and a published key is
\* one that can be read with.
JobsEnd == \A k \in 1..2 : Due(k) ~> Done(k)

\* What the docstring of process says of a key change: personal information is encrypted
\* again.  It fails for a record that comes late.
AllUpdated == scenario = "late" => Late!AllUpdated
=============================================================================
