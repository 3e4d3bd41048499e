----------------------------- MODULE BatchIssueRedeem ----------------------------
(***************************************************************************)
(* Additional issues and redemptions: single ones and uploads of the API    *)
(* (app/routers/issuer/bond.py and share.py, which are alike), the processor *)
(* of uploads (batch/processor_batch_issue_redeem.py) and the index the      *)
(* history is read from (batch/indexer_issue_redeem.py).                     *)
(***************************************************************************)
EXTENDS Integers, Sequences, FiniteSets, Functions

CONSTANTS
    Uploads,        \* uploads of a bond and of a share
    Shares,         \* those of the share
    Redemptions,    \* those of category REDEEM, the others are of ISSUE
    Batched,        \* those of a token of version 24.9 or later
    Rows,           \* rows of all uploads
    UploadOf,       \* upload of a row
    LotSize,        \* BULK_TX_LOT_SIZE
    Lot,            \* INDEXER_BLOCK_LOT_MAX_SIZE
    KeyFaults,      \* the key of the issuer may be missing or unreadable
    MaxSingles,     \* bound on single issues and redemptions
    MaxFaults       \* bound on crashes and on database errors

BatchIssueRedeemAssumption ==
    /\ IsFiniteSet(Uploads) /\ Shares \cup Redemptions \cup Batched \subseteq Uploads
    /\ IsFiniteSet(Rows) /\ UploadOf \in [Rows -> Uploads]
    /\ LotSize \in Nat \ {0} /\ Lot \in Nat \ {0} /\ KeyFaults \in BOOLEAN
    /\ MaxSingles \in Nat /\ MaxFaults \in Nat

VARIABLES
    upload,     \* table batch_issue_redeem_upload: "none", "open" or "processed"
    row,        \* batch_issue_redeem.status: 0 pending, 1 succeeded, 2 failed
    notes,      \* notifications of uploads
    singles,    \* issues and redemptions that are not of an upload
    mempool,    \* transactions nobody waits for any more
    log,        \* events of the chain; a transaction is a set of rows
    pc,         \* the processor: "off", "idle", "upload", "row" or "save"
    uploads,    \* upload_list that is left
    left,       \* batch_data_list of rows that are sent one by one
    chunk,      \* rows of the transaction that was sent
    outcome,    \* what it came to
    shutdown,   \* is_shutdown
    index,      \* rows of each block in table idx_issue_redeem, by category, and its block number
    past        \* faults so far, rows in them and rows mined late

db == <<upload, row, notes>>
chain == <<mempool, log>>
local == <<uploads, left, chunk, outcome>>
vars == <<db, singles, chain, pc, local, shutdown, index, past>>

RowsOf(u) == {r \in Rows : UploadOf[r] = u}
Pending(u) == {r \in RowsOf(u) : row[r] = 0}
Type(u) == IF u \in Shares THEN "share" ELSE "bond"
Category(u) == IF u \in Redemptions THEN "Redeem" ELSE "Issue"

Init ==
    /\ upload = [u \in Uploads |-> "none"] /\ row = [r \in Rows |-> 0] /\ notes = <<>>
    /\ singles = 0 /\ mempool = {} /\ log = <<>>
    /\ pc = "idle" /\ uploads = <<>> /\ left = {} /\ chunk = {} /\ outcome = "none"
    /\ shutdown = FALSE
    /\ index = [rows |-> <<>>, synced |-> 0]
    /\ past = [faults |-> 0, lost |-> {}, late |-> {}]

-----------------------------------------------------------------------------
(* API and chain.                                                          *)

\* An upload and its rows, in one commit.
CreateUpload(u, type, category) ==
    /\ upload[u] = "none" /\ Type(u) = type /\ Category(u) = category
    /\ upload' = [upload EXCEPT ![u] = "open"]
    /\ UNCHANGED <<row, notes, singles, chain, pc, local, shutdown, index, past>>

IssueAdditionalBondsInBatch(u) == CreateUpload(u, "bond", "Issue")
IssueAdditionalSharesInBatch(u) == CreateUpload(u, "share", "Issue")
RedeemBondsInBatch(u) == CreateUpload(u, "bond", "Redeem")
RedeemSharesInBatch(u) == CreateUpload(u, "share", "Redeem")

Mined(rows, type, category) ==
    log' = Append(log, [rows |-> rows, type |-> type, category |-> category])

\* Answered when the transaction is mined.
SingleRequest(type, category) ==
    /\ singles < MaxSingles /\ singles' = singles + 1
    /\ Mined({}, type, category)
    /\ UNCHANGED <<db, mempool, pc, local, shutdown, index, past>>

IssueAdditionalBond == SingleRequest("bond", "Issue")
IssueAdditionalShare == SingleRequest("share", "Issue")
RedeemBond == SingleRequest("bond", "Redeem")
RedeemShare == SingleRequest("share", "Redeem")

\* A transaction whose wait was given up is mined after all.
MineLate(t) ==
    /\ t \in mempool /\ mempool' = mempool \ {t}
    /\ LET u == UploadOf[CHOOSE r \in t : TRUE] IN Mined(t, Type(u), Category(u))
    /\ past' = [past EXCEPT !.late = @ \cup t]
    /\ UNCHANGED <<db, singles, pc, local, shutdown, index>>

-----------------------------------------------------------------------------
(* The processor.                                                          *)

AfterPass == IF shutdown THEN "off" ELSE "idle"

\* Uploads that are not processed, in the order of their creation, which may be any.
StartPass ==
    /\ pc = "idle" /\ ~shutdown /\ pc' = "upload"
    /\ LET open == {u \in Uploads : upload[u] = "open"}
       IN  uploads' \in Injection(1..Cardinality(open), open)
    /\ UNCHANGED <<db, singles, chain, left, chunk, outcome, shutdown, index, past>>

\* The pass ends, or is left because of the flag.
EndPass ==
    /\ pc = "upload" /\ (uploads = <<>> \/ shutdown)
    /\ pc' = AfterPass
    /\ uploads' = <<>>
    /\ UNCHANGED <<db, singles, chain, left, chunk, outcome, shutdown, index, past>>

SinkOnNotification(u, code, errors) ==
    notes' = Append(notes, [upload |-> u, code |-> code, errors |-> errors])

\* 1 no account, 2 the keyfile cannot be decoded: nothing is sent.
NoKey(u) ==
    /\ pc = "upload" /\ ~shutdown /\ uploads # <<>> /\ u = Head(uploads)
    /\ KeyFaults /\ \E code \in {1, 2} : SinkOnNotification(u, code, {})
    /\ upload' = [upload EXCEPT ![u] = "processed"]
    /\ uploads' = Tail(uploads)
    /\ UNCHANGED <<row, singles, chain, pc, left, chunk, outcome, shutdown, index, past>>

\* The rows of an upload of an old token are read once.
StartUpload(u) ==
    /\ pc = "upload" /\ ~shutdown /\ uploads # <<>> /\ u = Head(uploads)
    /\ pc' = "row" /\ left' = Pending(u)
    /\ UNCHANGED <<db, singles, chain, uploads, chunk, outcome, shutdown, index, past>>

\* Rows that are still to be sent: those that are pending now, or were when they were read.
ToSend(u) == IF u \in Batched THEN Pending(u) ELSE left

\* Rows of the next transaction: up to LotSize of them, or any single one.
Chunks(u) ==
    LET most == IF u \in Batched THEN LotSize ELSE 1
    IN  {c \in SUBSET ToSend(u) :
            c # {} /\ (Cardinality(c) = most \/ (Cardinality(c) < most /\ c = ToSend(u)))}

\* additional_issue, redeem and the bulk calls: mined, or failed because it was
\* refused, reverted or not mined in time; what happens after the transaction is
\* mined does not fail the call.
Send(u) ==
    /\ pc = "row" /\ ~shutdown /\ u = Head(uploads)
    /\ \E c \in Chunks(u) :
          /\ chunk' = c /\ pc' = "save"
          /\ \/ outcome' = "mined" /\ Mined(c, Type(u), Category(u)) /\ UNCHANGED mempool
             \/ outcome' = "failed" /\ UNCHANGED chain
             \/ outcome' = "failed" /\ mempool' = mempool \cup {c} /\ UNCHANGED log
    /\ UNCHANGED <<db, singles, uploads, left, shutdown, index, past>>

\* Mutant: rows of a transaction that failed stay pending.
Save_Retry ==
    /\ pc = "save" /\ pc' = "row"
    /\ row' = [r \in Rows |-> IF r \in chunk /\ outcome = "mined" THEN 1 ELSE row[r]]
    /\ left' = left \ chunk /\ chunk' = {} /\ outcome' = "none"
    /\ UNCHANGED <<upload, notes, singles, chain, uploads, shutdown, index, past>>

\* The status of the rows is committed.
Save ==
    /\ pc = "save" /\ pc' = "row"
    /\ row' = [r \in Rows |-> IF r \notin chunk THEN row[r] ELSE IF outcome = "mined" THEN 1 ELSE 2]
    /\ left' = left \ chunk /\ chunk' = {} /\ outcome' = "none"
    /\ UNCHANGED <<upload, notes, singles, chain, uploads, shutdown, index, past>>

Failed(u) == {r \in RowsOf(u) : row[r] = 2}

\* Every row has been tried: the notification with the failed ones.
EndUpload(u) ==
    /\ pc = "row" /\ ~shutdown /\ u = Head(uploads) /\ ToSend(u) = {}
    /\ SinkOnNotification(u, IF Failed(u) = {} THEN 0 ELSE 3, Failed(u))
    /\ upload' = [upload EXCEPT ![u] = "processed"]
    /\ uploads' = Tail(uploads) /\ pc' = "upload"
    /\ UNCHANGED <<row, singles, chain, left, chunk, outcome, shutdown, index, past>>

\* The flag is seen between two transactions.
PauseUpload ==
    /\ pc = "row" /\ shutdown /\ pc' = "off"
    /\ uploads' = <<>> /\ left' = {}
    /\ UNCHANGED <<db, singles, chain, chunk, outcome, shutdown, index, past>>

Forget == uploads' = <<>> /\ left' = {} /\ chunk' = {} /\ outcome' = "none"

\* SIGTERM, seen while the processor sleeps.
Shutdown ==
    /\ ~shutdown /\ past.faults < MaxFaults
    /\ shutdown' = TRUE /\ past' = [past EXCEPT !.faults = @ + 1]
    /\ pc' = IF pc = "idle" THEN "off" ELSE pc
    /\ UNCHANGED <<db, singles, chain, local, index>>

\* The process dies, or the database refuses a commit and the pass ends.
Fault ==
    /\ pc \notin {"off", "idle"} /\ past.faults < MaxFaults
    /\ past' = [past EXCEPT !.faults = @ + 1, !.lost = @ \cup chunk]
    /\ pc' \in {"off", AfterPass} /\ Forget
    /\ UNCHANGED <<db, singles, chain, shutdown, index>>

Restart ==
    /\ pc = "off" /\ pc' = "idle" /\ shutdown' = FALSE
    /\ UNCHANGED <<db, singles, chain, local, index, past>>

-----------------------------------------------------------------------------
(* The index.                                                              *)

Lesser(m, n) == IF m < n THEN m ELSE n

\* The blocks before the lots up to the latest block.
LotStarts == {index.synced + n * Lot : n \in 0..(Len(log) - index.synced - 1) \div Lot}

\* The events of a category are read lot by lot and token after token: what finds block k.
OfCategory(k, category) ==
    {f \in [lot : LotStarts, type : {"bond", "share"}] :
        /\ k \in f.lot + 1..Lesser(f.lot + Lot, Len(log))
        /\ log[k].type = f.type /\ log[k].category = category}

\* Rows of block k by category.
SyncAll(k) == [category \in {"Issue", "Redeem"} |->
    (IF k \in DOMAIN index.rows THEN index.rows[k][category] ELSE 0) + Cardinality(OfCategory(k, category))]

\* Every lot up to the latest block in one commit.
SyncNewLogs ==
    /\ index.synced < Len(log)
    /\ index' = [rows |-> [k \in 1..Len(log) |-> SyncAll(k)], synced |-> Len(log)]
    /\ UNCHANGED <<db, singles, chain, pc, local, shutdown, past>>

ProcessorStep ==
    \/ StartPass \/ EndPass \/ Save \/ PauseUpload
    \/ \E u \in Uploads : NoKey(u) \/ StartUpload(u) \/ Send(u) \/ EndUpload(u)

Next ==
    \/ \E u \in Uploads : \/ IssueAdditionalBondsInBatch(u) \/ IssueAdditionalSharesInBatch(u)
                          \/ RedeemBondsInBatch(u) \/ RedeemSharesInBatch(u)
    \/ IssueAdditionalBond \/ IssueAdditionalShare \/ RedeemBond \/ RedeemShare
    \/ \E t \in SUBSET Rows : MineLate(t)
    \/ ProcessorStep \/ Shutdown \/ Fault \/ Restart \/ SyncNewLogs

Spec == Init /\ [][Next]_vars

-----------------------------------------------------------------------------
(* Queries.                                                                *)

NotFound == [processed |-> "not found"]

\* The status of an upload, row by row; an endpoint knows its own kind of upload.
RetrieveStatus(u, type, category) ==
    IF upload[u] = "none" \/ Type(u) # type \/ Category(u) # category THEN NotFound
    ELSE [processed |-> upload[u] = "processed", results |-> [r \in RowsOf(u) |-> row[r]]]

RetrieveBatchAdditionalBondIssueStatus(u) == RetrieveStatus(u, "bond", "Issue")
RetrieveBatchAdditionalShareIssueStatus(u) == RetrieveStatus(u, "share", "Issue")
RetrieveBatchBondRedemptionStatus(u) == RetrieveStatus(u, "bond", "Redeem")
RetrieveBatchRedeem(u) == RetrieveStatus(u, "share", "Redeem")
Answers(u) == {RetrieveBatchAdditionalBondIssueStatus(u), RetrieveBatchAdditionalShareIssueStatus(u),
               RetrieveBatchBondRedemptionStatus(u), RetrieveBatchRedeem(u)} \ {NotFound}

\* The uploads of one kind.
ListUploads(type, category) ==
    {u \in Uploads : upload[u] # "none" /\ Type(u) = type /\ Category(u) = category}

ListAllBatchAdditionalBondIssue == ListUploads("bond", "Issue")
ListAllBatchAdditionalShareIssue == ListUploads("share", "Issue")
ListAllBatchBondRedemption == ListUploads("bond", "Redeem")
ListAllBatchShareRedemption == ListUploads("share", "Redeem")

\* The history of a token: the number of rows of a block.
History(type, category) ==
    [k \in {k \in DOMAIN index.rows : log[k].type = type /\ index.rows[k][category] > 0} |->
        index.rows[k][category]]

ListBondAdditionalIssuanceHistory == History("bond", "Issue")
ListShareAdditionalIssuanceHistory == History("share", "Issue")
ListBondRedemptionHistory == History("bond", "Redeem")
ListShareRedeemHistory == History("share", "Redeem")

-----------------------------------------------------------------------------
(* Properties.                                                             *)

\* Every variable keeps its type.
TypeOK ==
    /\ upload \in [Uploads -> {"none", "open", "processed"}] /\ row \in [Rows -> 0..2]
    /\ \A i \in DOMAIN notes : notes[i].upload \in Uploads /\ notes[i].code \in 0..3
    /\ \A k \in DOMAIN log : log[k].rows \subseteq Rows /\ log[k].category \in {"Issue", "Redeem"}
                             /\ log[k].type \in {"bond", "share"}
    /\ pc \in {"off", "idle", "upload", "row", "save"}
    /\ chunk \subseteq Rows /\ (chunk # {}) = (pc = "save")
    /\ (pc = "row" => uploads # <<>>) /\ index.synced \in 0..Len(log)

Times(r) == Cardinality({k \in DOMAIN log : r \in log[k].rows})

\* A row is executed once at most, unless the commit after its transaction was
\* lost, and what is reported is so: a failed row is executed only if it was mined
\* after the wait for it was given up.
ExecutedOnce ==
    \A r \in Rows \ past.lost :
       /\ Times(r) <= 1
       /\ row[r] = 1 => Times(r) = 1
       /\ (row[r] = 2 /\ r \notin past.late) => Times(r) = 0

\* An upload is shown by the endpoints of its kind only. Its notification is the
\* only one and stays true: 0 every row succeeded, 3 the rows it names failed and
\* the others succeeded. What the API shows as processed has been notified of.
ReportIsTrue ==
    /\ \A u \in Uploads :
          LET own == {i \in DOMAIN notes : notes[i].upload = u}
          IN  /\ Cardinality(Answers(u)) = IF upload[u] = "none" THEN 0 ELSE 1
              /\ \A status \in Answers(u) :
                    /\ Cardinality(own) = IF status.processed THEN 1 ELSE 0
                    /\ \A i \in own : notes[i].code \in {0, 3} =>
                          /\ notes[i].code = 3 <=> notes[i].errors # {}
                          /\ \A r \in RowsOf(u) :
                                status.results[r] = IF r \in notes[i].errors THEN 2 ELSE 1
    /\ ListAllBatchAdditionalBondIssue \cup ListAllBatchAdditionalShareIssue
          \cup ListAllBatchBondRedemption \cup ListAllBatchShareRedemption
       = {u \in Uploads : Answers(u) # {}}

\* The four histories together have every event of the indexed blocks once, with
\* single requests and transactions mined late, each under its own kind.
HistoryIsComplete ==
    LET Shown(h, k) == IF k \in DOMAIN h THEN h[k] ELSE 0
    IN  \A k \in DOMAIN log :
           /\ Shown(ListBondAdditionalIssuanceHistory, k) + Shown(ListShareAdditionalIssuanceHistory, k)
              + Shown(ListBondRedemptionHistory, k) + Shown(ListShareRedeemHistory, k)
              = IF k <= index.synced THEN 1 ELSE 0
           /\ \A r \in log[k].rows : k <= index.synced =>
                 (k \in DOMAIN ListShareRedeemHistory <=> UploadOf[r] \in Shares \cap Redemptions)

=============================================================================
