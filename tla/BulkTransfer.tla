---------------------------- MODULE BulkTransfer ----------------------------
(***************************************************************************)
(* batch/processor_bulk_transfer.py: asyncio workers share out the bulk     *)
(* transfer uploads of all issuers and execute their transfers on the       *)
(* chain, one transaction per lot of rows.                                  *)
(*                                                                         *)
(* The workers exclude each other through the module-level dictionary       *)
(* processing_issuer, which lives in memory only; what survives a crash is  *)
(* the status of the uploads and of their rows.  An upload is the number    *)
(* of its `created` timestamp in their order.                               *)
(***************************************************************************)
EXTENDS Integers, FiniteSets

CONSTANTS
    Workers,        \* asyncio tasks of the processor
    NoWorker,       \* nobody holds the lock
    Uploads,        \* bulk_transfer_upload rows, in the order of `created`
    Rows,           \* bulk_transfer rows
    UploadOf,       \* [Rows -> Uploads]
    Issuers,
    IssuerOf,       \* [Uploads -> Issuers]
    NoKey,          \* issuers without a usable account or key
    WorkerLotSize,  \* BULK_TRANSFER_WORKER_LOT_SIZE, uploads per cycle
    TxLotSize,      \* BULK_TX_LOT_SIZE, rows per transaction
    MaxFault,       \* bound on crashes, aborted cycles and stops
    MaxDeath,       \* bound on workers that end with an unexpected exception
    MaxLost         \* bound on sends whose result is lost before the commit

ASSUME BulkAssumption ==
    /\ NoWorker \notin Workers
    /\ Uploads \subseteq Nat \ {0}
    /\ IsFiniteSet(Workers) /\ IsFiniteSet(Uploads) /\ IsFiniteSet(Rows)
    /\ UploadOf \in [Rows -> Uploads]
    /\ IssuerOf \in [Uploads -> Issuers]
    /\ NoKey \subseteq Issuers
    /\ WorkerLotSize \in Nat \ {0} /\ TxLotSize \in Nat \ {0}
    /\ MaxFault \in Nat /\ MaxDeath \in Nat /\ MaxLost \in Nat

VARIABLES
    status,      \* status of each upload; "absent" before it is posted
    rows,        \* status of each row
    executed,    \* how often the chain has executed each row's transfer
    notices,     \* error notifications inserted for each upload
    processing,  \* processing_issuer: the uploads each worker has claimed
    lock,        \* holder of the asyncio lock, or NoWorker
    pc,          \* where each worker is
    cur, rest,   \* the worker's upload_list: current element, later ones
    left,        \* rows of cur that the worker still has to send
    chunk,       \* rows of the transaction in flight
    result,      \* what the worker is about to record for chunk
    stopping,    \* is_shutdown
    faults,      \* failures of each kind so far
    lost         \* sends whose result was lost

db == <<status, rows, notices>>
mem == <<processing, lock, pc, cur, rest, left, chunk, result>>
vars == <<db, executed, mem, stopping, faults, lost>>

NoUpload == 0

RowsOf(u) == {r \in Rows : UploadOf[r] = u}
Oldest(S) == {u \in S : \A v \in S : u <= v}

Init ==
    /\ status = [u \in Uploads |-> "absent"]
    /\ rows = [r \in Rows |-> "pending"]
    /\ executed = [r \in Rows |-> 0]
    /\ notices = [u \in Uploads |-> 0]
    /\ processing = [w \in Workers |-> {}]
    /\ lock = NoWorker
    /\ pc = [w \in Workers |-> "idle"]
    /\ cur = [w \in Workers |-> NoUpload]
    /\ rest = [w \in Workers |-> {}]
    /\ left = [w \in Workers |-> {}]
    /\ chunk = [w \in Workers |-> {}]
    /\ result = [w \in Workers |-> "pending"]
    /\ stopping = FALSE
    /\ faults = [stop |-> 0, death |-> 0]
    /\ lost = 0

\* API bulk_transfer: the upload and its rows are committed together.  The
\* commits of concurrent calls may come in another order than `created`.
Post(u) ==
    /\ status[u] = "absent"
    /\ status' = [status EXCEPT ![u] = "pending"]
    /\ UNCHANGED <<rows, notices, executed, mem, stopping, faults, lost>>

-----------------------------------------------------------------------------
(* __get_uploads: two statements under the lock.                            *)

Locked == UNION {processing[w] : w \in Workers}

\* Mutant: upload_id.notin_(locked_update_id) is dropped.
Candidates_IgnoreLocked == {u \in Uploads : status[u] = "pending"}

Candidates == {u \in Uploads : status[u] = "pending" /\ u \notin Locked}

\* Issuers no worker is processing come first.
Preferred ==
    {u \in Candidates : \A v \in Locked : IssuerOf[u] # IssuerOf[v]}

PickFirst(w) ==
    /\ pc[w] = "idle" /\ ~stopping
    /\ lock = NoWorker
    /\ lock' = w
    /\ pc' = [pc EXCEPT ![w] = "picking"]
    /\ LET first == IF Preferred # {} THEN Preferred ELSE Candidates
       IN  \/ first = {} /\ UNCHANGED cur
           \/ \E u \in Oldest(first) : cur' = [cur EXCEPT ![w] = u]
    /\ UNCHANGED <<db, executed, processing, rest, left, chunk, result,
                   stopping, faults, lost>>

\* The other uploads of the issuer: ORDER BY created OFFSET 1 LIMIT lot - 1.
OthersOf(u) ==
    LET same == {v \in Candidates : IssuerOf[v] = IssuerOf[u]}
        rank(v) == Cardinality({x \in same : x < v})
    IN  {v \in same : rank(v) \in 1..(WorkerLotSize - 1)}

\* Mutant: the claims are assigned for an empty list too, without a filter.
PickRest_ClaimsNothing(w) ==
    /\ pc[w] = "picking"
    /\ pc' = [pc EXCEPT ![w] = IF cur[w] = NoUpload THEN "idle" ELSE "next"]
    /\ rest' = [rest EXCEPT ![w] = IF cur[w] = NoUpload THEN {} ELSE OthersOf(cur[w])]
    /\ processing' = [processing EXCEPT ![w] = {cur[w]} \cup rest'[w]]
    /\ lock' = NoWorker
    /\ UNCHANGED <<db, executed, cur, left, chunk, result, stopping, faults, lost>>

PickRest(w) ==
    /\ pc[w] = "picking"
    /\ IF cur[w] = NoUpload
         THEN /\ pc' = [pc EXCEPT ![w] = "idle"]
              /\ processing' = [processing EXCEPT ![w] = {}]
              /\ UNCHANGED rest
         ELSE /\ pc' = [pc EXCEPT ![w] = "next"]
              /\ rest' = [rest EXCEPT ![w] = OthersOf(cur[w])]
              /\ processing' = [processing EXCEPT ![w] = {cur[w]} \cup OthersOf(cur[w])]
    /\ lock' = NoWorker
    /\ UNCHANGED <<db, executed, cur, left, chunk, result, stopping, faults, lost>>

-----------------------------------------------------------------------------
(* process: the uploads of the list, one after the other.                   *)

\* The upload is given up, with a notification, without touching its rows.
FailUpload(w) ==
    /\ pc[w] = "next" /\ ~stopping
    /\ IssuerOf[cur[w]] \in NoKey
    /\ status' = [status EXCEPT ![cur[w]] = "failed"]
    /\ notices' = [notices EXCEPT ![cur[w]] = @ + 1]
    /\ pc' = [pc EXCEPT ![w] = "release"]
    /\ UNCHANGED <<rows, executed, processing, lock, cur, rest, left, chunk,
                   result, stopping, faults, lost>>

\* Mutant: __get_transfer_data does not look at the status of the rows.
LoadTransfers_AnyStatus(w) ==
    /\ pc[w] = "next" /\ ~stopping
    /\ IssuerOf[cur[w]] \notin NoKey
    /\ left' = [left EXCEPT ![w] = RowsOf(cur[w])]
    /\ pc' = [pc EXCEPT ![w] = "send"]
    /\ UNCHANGED <<db, executed, processing, lock, cur, rest, chunk, result,
                   stopping, faults, lost>>

LoadTransfers(w) ==
    /\ pc[w] = "next" /\ ~stopping
    /\ IssuerOf[cur[w]] \notin NoKey
    /\ left' = [left EXCEPT ![w] = {r \in RowsOf(cur[w]) : rows[r] = "pending"}]
    /\ pc' = [pc EXCEPT ![w] = "send"]
    /\ UNCHANGED <<db, executed, processing, lock, cur, rest, chunk, result,
                   stopping, faults, lost>>

\* Mutant: the list is not split into lots.
SendChunk_WholeList(w) ==
    /\ pc[w] = "send" /\ ~stopping /\ left[w] # {}
    /\ chunk' = [chunk EXCEPT ![w] = left[w]]
    /\ executed' = [r \in Rows |-> IF r \in left[w] THEN executed[r] + 1
                                   ELSE executed[r]]
    /\ result' = [result EXCEPT ![w] = "succeeded"]
    /\ pc' = [pc EXCEPT ![w] = "save"]
    /\ UNCHANGED <<db, processing, lock, cur, rest, left, stopping, faults, lost>>

\* One waiting transaction.  A revert or a send that fails is recorded as
\* failed; so is a transaction that is mined after the wait has timed out.
SendChunk(w) ==
    /\ pc[w] = "send" /\ ~stopping
    /\ \E lot \in SUBSET left[w] :
          /\ lot # {}
          /\ Cardinality(lot) = TxLotSize \/ lot = left[w]
          /\ Cardinality(lot) <= TxLotSize
          /\ chunk' = [chunk EXCEPT ![w] = lot]
          /\ \E outcome \in {"mined", "not mined", "mined late"} :
                /\ executed' = IF outcome = "not mined" THEN executed
                               ELSE [r \in Rows |-> IF r \in lot THEN executed[r] + 1
                                                    ELSE executed[r]]
                /\ result' = [result EXCEPT ![w] =
                                IF outcome = "mined" THEN "succeeded" ELSE "failed"]
    /\ pc' = [pc EXCEPT ![w] = "save"]
    /\ UNCHANGED <<db, processing, lock, cur, rest, left, stopping, faults, lost>>

\* Mutant: the result is written to every row of the upload.
SaveChunk_WholeUpload(w) ==
    /\ pc[w] = "save"
    /\ rows' = [r \in Rows |-> IF r \in RowsOf(cur[w]) THEN result[w] ELSE rows[r]]
    /\ left' = [left EXCEPT ![w] = @ \ chunk[w]]
    /\ chunk' = [chunk EXCEPT ![w] = {}]
    /\ pc' = [pc EXCEPT ![w] = "send"]
    /\ UNCHANGED <<status, notices, executed, processing, lock, cur, rest,
                   result, stopping, faults, lost>>

SaveChunk(w) ==
    /\ pc[w] = "save"
    /\ rows' = [r \in Rows |-> IF r \in chunk[w] THEN result[w] ELSE rows[r]]
    /\ left' = [left EXCEPT ![w] = @ \ chunk[w]]
    /\ chunk' = [chunk EXCEPT ![w] = {}]
    /\ pc' = [pc EXCEPT ![w] = "send"]
    /\ UNCHANGED <<status, notices, executed, processing, lock, cur, rest,
                   result, stopping, faults, lost>>

\* Mutant: the rows are looked at with the status of the first selection.
FinishUpload_ChecksPending(w) ==
    /\ pc[w] = "send" /\ left[w] = {}
    /\ IF \E r \in RowsOf(cur[w]) : rows[r] = "pending"
         THEN /\ status' = [status EXCEPT ![cur[w]] = "failed"]
              /\ notices' = [notices EXCEPT ![cur[w]] = @ + 1]
         ELSE /\ status' = [status EXCEPT ![cur[w]] = "succeeded"]
              /\ UNCHANGED notices
    /\ pc' = [pc EXCEPT ![w] = "release"]
    /\ UNCHANGED <<rows, executed, processing, lock, cur, rest, left, chunk,
                   result, stopping, faults, lost>>

\* "Register upload results"; is_shutdown is not looked at any more.
FinishUpload(w) ==
    /\ pc[w] = "send" /\ left[w] = {}
    /\ IF \E r \in RowsOf(cur[w]) : rows[r] = "failed"
         THEN /\ status' = [status EXCEPT ![cur[w]] = "failed"]
              /\ notices' = [notices EXCEPT ![cur[w]] = @ + 1]
         ELSE /\ status' = [status EXCEPT ![cur[w]] = "succeeded"]
              /\ UNCHANGED notices
    /\ pc' = [pc EXCEPT ![w] = "release"]
    /\ UNCHANGED <<rows, executed, processing, lock, cur, rest, left, chunk,
                   result, stopping, faults, lost>>

\* __release_processing_issuer, then the next element of the list.
Release(w) ==
    /\ pc[w] = "release" /\ lock = NoWorker
    /\ processing' = [processing EXCEPT ![w] = @ \ {cur[w]}]
    /\ IF rest[w] = {}
         THEN /\ pc' = [pc EXCEPT ![w] = "idle"]
              /\ cur' = [cur EXCEPT ![w] = NoUpload]
              /\ UNCHANGED rest
         ELSE /\ pc' = [pc EXCEPT ![w] = "next"]
              /\ \E u \in Oldest(rest[w]) :
                    /\ cur' = [cur EXCEPT ![w] = u]
                    /\ rest' = [rest EXCEPT ![w] = @ \ {u}]
    /\ UNCHANGED <<db, executed, lock, left, chunk, result, stopping, faults, lost>>

-----------------------------------------------------------------------------
(* Failures and restarts.                                                  *)

\* The worker drops what it is doing; its session and the lock are released.
Drop(w, next) ==
    /\ pc[w] = "save" => lost < MaxLost
    /\ lost' = IF pc[w] = "save" THEN lost + 1 ELSE lost
    /\ pc' = [pc EXCEPT ![w] = next]
    /\ cur' = [cur EXCEPT ![w] = NoUpload]
    /\ rest' = [rest EXCEPT ![w] = {}]
    /\ left' = [left EXCEPT ![w] = {}]
    /\ chunk' = [chunk EXCEPT ![w] = {}]
    /\ lock' = IF lock = w THEN NoWorker ELSE lock
    /\ UNCHANGED <<db, executed, processing, result, stopping>>

\* SQLAlchemyError or ServiceUnavailableError ends the worker's cycle: what it
\* claimed stays claimed until its own next cycle.
Abort(w) ==
    /\ pc[w] \in {"picking", "next", "send", "save"}
    /\ faults.stop < MaxFault
    /\ faults' = [faults EXCEPT !.stop = @ + 1]
    /\ Drop(w, "idle")

\* Any other exception (a connection that cannot be opened is an OSError) ends
\* the task; nobody looks at it before the process is stopped.
Die(w) ==
    /\ pc[w] \in {"idle", "next", "send", "save"}
    /\ faults.death < MaxDeath
    /\ faults' = [faults EXCEPT !.death = @ + 1]
    /\ Drop(w, "dead")

\* The memory of a process that has just started.
Reset ==
    /\ processing' = [w \in Workers |-> {}]
    /\ lock' = NoWorker
    /\ pc' = [w \in Workers |-> "idle"]
    /\ cur' = [w \in Workers |-> NoUpload]
    /\ rest' = [w \in Workers |-> {}]
    /\ left' = [w \in Workers |-> {}]
    /\ chunk' = [w \in Workers |-> {}]
    /\ result' = [w \in Workers |-> "pending"]

\* The process dies and is started again: only the database survives.  A
\* SIGTERM ends the other workers in this way too when one of them is dead.
Crash ==
    LET saving == {w \in Workers : pc[w] = "save"}
    IN  /\ faults.stop < MaxFault
        /\ lost + Cardinality(saving) <= MaxLost
        /\ faults' = [faults EXCEPT !.stop = @ + 1]
        /\ lost' = lost + Cardinality(saving)
        /\ Reset
        /\ stopping' = FALSE
        /\ UNCHANGED <<db, executed>>

\* SIGTERM; every worker leaves at the next point where it looks at the flag.
Sigterm ==
    /\ ~stopping
    /\ faults.stop < MaxFault
    /\ faults' = [faults EXCEPT !.stop = @ + 1]
    /\ stopping' = TRUE
    /\ UNCHANGED <<db, executed, mem, lost>>

Leave(w) ==
    /\ stopping
    /\ pc[w] \in {"idle", "next"} \/ (pc[w] = "send" /\ left[w] # {})
    /\ pc' = [pc EXCEPT ![w] = "exited"]
    /\ UNCHANGED <<db, executed, processing, lock, cur, rest, left, chunk, result,
                   stopping, faults, lost>>

Restart ==
    /\ \A w \in Workers : pc[w] \in {"exited", "dead"}
    /\ stopping
    /\ Reset
    /\ stopping' = FALSE
    /\ UNCHANGED <<db, executed, faults, lost>>

-----------------------------------------------------------------------------
Work(w) == \/ PickRest(w) \/ FailUpload(w) \/ LoadTransfers(w)
           \/ SendChunk(w) \/ SaveChunk(w) \/ FinishUpload(w) \/ Leave(w)

Next == \/ \E u \in Uploads : Post(u)
        \/ \E w \in Workers : PickFirst(w) \/ Work(w) \/ Release(w) \/ Abort(w) \/ Die(w)
        \/ Crash \/ Sigterm \/ Restart

Spec == Init /\ [][Next]_vars

-----------------------------------------------------------------------------
(* Properties.                                                             *)

PC == {"idle", "picking", "next", "send", "save", "release", "exited", "dead"}

\* Every variable keeps its type.
TypeOK ==
    /\ status \in [Uploads -> {"absent", "pending", "succeeded", "failed"}]
    /\ rows \in [Rows -> {"pending", "succeeded", "failed"}]
    /\ executed \in [Rows -> Nat]
    /\ notices \in [Uploads -> Nat]
    /\ processing \in [Workers -> SUBSET Uploads]
    /\ lock \in Workers \cup {NoWorker}
    /\ pc \in [Workers -> PC]
    /\ cur \in [Workers -> Uploads \cup {NoUpload}]
    /\ rest \in [Workers -> SUBSET Uploads]
    /\ left \in [Workers -> SUBSET Rows]
    /\ chunk \in [Workers -> SUBSET Rows]
    /\ result \in [Workers -> {"pending", "succeeded", "failed"}]
    /\ stopping \in BOOLEAN
    /\ faults \in [stop : Nat, death : Nat]
    /\ lost \in Nat

Busy(w) == pc[w] \in {"send", "save"}

\* Two workers never process the same upload, although the claims are made by
\* two statements, outlive an aborted cycle and vanish with the process.
OneWorkerPerUpload ==
    \A v, w \in Workers : Busy(v) /\ Busy(w) /\ cur[v] = cur[w] => v = w

\* The chain executes the transfer of a row once, and once more only for each
\* send whose result was lost between the transaction and the commit; a
\* graceful stop, an aborted cycle or a crash elsewhere repeats nothing.
RepeatsNeedLoss ==
    \A r \in Rows : executed[r] <= 1 + lost

\* What the tables say of a finished upload: succeeded only when every row is,
\* failed only with a notification and, unless the issuer has no key, with
\* every row settled and one of them failed.
ResultMatchesRows ==
    \A u \in Uploads :
        /\ status[u] = "succeeded" =>
              \A r \in RowsOf(u) : rows[r] = "succeeded" /\ executed[r] > 0
        /\ status[u] = "failed" =>
              /\ notices[u] > 0
              /\ \/ IssuerOf[u] \in NoKey
                 \/ /\ \A r \in RowsOf(u) : rows[r] # "pending"
                    /\ \E r \in RowsOf(u) : rows[r] = "failed"

\* A row or an upload that is settled stays as it is, through duplicated
\* lists, restarts and repeated cycles.
SettledForGood ==
    [][/\ \A r \in Rows : rows[r] # "pending" => rows'[r] = rows[r]
       /\ \A u \in Uploads : status[u] \in {"succeeded", "failed"}
                                => status'[u] = status[u]]_vars

\* A dead worker's claims are never released.
HiddenByDead(u) ==
    \/ \E w \in Workers : pc[w] = "dead" /\ u \in processing[w]
    \/ \A w \in Workers : pc[w] = "dead"

\* An upload is settled, or a worker that has died hides it: a claim left
\* behind by an aborted cycle or a stopped process does not.
SettledOrHidden(u) == status[u] \in {"succeeded", "failed"} \/ HiddenByDead(u)

\* What BulkTransferBatch promises of the tables and the chain, whatever the
\* workers do; the transactions in flight are those of every worker.
Batch == INSTANCE BulkTransferBatch WITH
            Keyless <- {u \in Uploads : IssuerOf[u] \in NoKey},
            Lots <- {lot \in SUBSET Rows : lot # {} /\ Cardinality(lot) <= TxLotSize},
            MayForget <- MaxLost > 0,
            flight <- UNION {chunk[w] : w \in Workers}

\* The workers implement the batch: each upload is settled once, from rows
\* that were sent in lots, and a row is sent again only if a result was lost.
ImplementsBatch == Batch!Spec
=============================================================================
