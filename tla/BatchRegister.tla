------------------------------ MODULE BatchRegister ------------------------------
(***************************************************************************)
(* Batch registration of personal information: uploads of the API (bond.py,  *)
(* share.py) and the workers that register their rows on the chain, one       *)
(* transaction a row (batch/processor_batch_register_personal_info.py).       *)
(* An upload is the number of its `created` timestamp.                       *)
(***************************************************************************)
EXTENDS Integers, Sequences, FiniteSets

CONSTANTS
    Workers, NoWorker,
    Uploads,        \* batch_register_personal_info_upload
    Rows, UploadOf, \* batch_register_personal_info
    IssuerOf,       \* issuer of an upload
    NoAccount,      \* issuers that have no account
    NoRsaKey,       \* issuers that have no RSA key
    Unbound,        \* uploads whose token has no PersonalInfo contract
    WorkerLotSize,  \* BATCH_REGISTER_PERSONAL_INFO_WORKER_LOT_SIZE
    MaxFaults       \* bound on aborted passes, lost answers and restarts

BatchRegisterAssumption ==
    /\ IsFiniteSet(Workers) /\ NoWorker \notin Workers
    /\ IsFiniteSet(Uploads) /\ Uploads \subseteq Nat \ {0}
    /\ UploadOf \in [Rows -> Uploads] /\ WorkerLotSize \in Nat \ {0} /\ MaxFaults \in Nat

VARIABLES
    status,      \* of an upload: absent, pending, done or failed
    rows,        \* of a row: 0 pending, 1 succeeded, 2 failed
    notices,     \* error notifications of an upload
    registered,  \* how often the chain registered the information of a row
    processing,  \* processing_issuer: the uploads each worker has claimed
    lock,        \* who holds the asyncio lock
    pc, list,    \* where a worker is, and its uploads
    left, sent,  \* rows it has read, and the row whose result it is to record
    faults,
    lost         \* of a row: results that were not recorded

db == <<status, rows, notices>>
work == <<processing, lock, pc, list, left, sent>>
vars == <<db, registered, work, faults, lost>>

NothingSent == [row |-> "none", result |-> 0]
RowsOf(u) == {r \in Rows : UploadOf[r] = u}
SetOf(s) == {s[i] : i \in DOMAIN s}

\* The uploads of S, oldest first: one sequence, when S is finite.
InOrder(S) ==
    {s \in [1..Cardinality(S) -> S] : \A i, j \in DOMAIN s : i < j => s[i] < s[j]}

\* What is in the memory of a process that starts.
NoClaims == [w \in Workers |-> {}]
AllIdle == [w \in Workers |-> "idle"]
NoLists == [w \in Workers |-> <<>>]
NoneSent == [w \in Workers |-> NothingSent]

Init ==
    /\ status = [u \in Uploads |-> "absent"] /\ rows = [r \in Rows |-> 0]
    /\ notices = [u \in Uploads |-> 0] /\ registered = [r \in Rows |-> 0]
    /\ processing = NoClaims /\ lock = NoWorker /\ pc = AllIdle
    /\ list = NoLists /\ left = NoClaims /\ sent = NoneSent
    /\ faults = 0 /\ lost = [r \in Rows |-> 0]

Fault == faults < MaxFaults /\ faults' = faults + 1

-----------------------------------------------------------------------------
(* API.                                                                    *)

\* The upload and its rows are committed together, not always in the order of `created`.
Initiate(u) ==
    /\ status[u] = "absent" /\ status' = [status EXCEPT ![u] = "pending"]
    /\ UNCHANGED <<rows, notices, registered, work, faults, lost>>

InitiateBondTokenBatchPersonalInfoRegistration(u) == Initiate(u)
InitiateShareTokenBatchPersonalInfoRegistration(u) == Initiate(u)

\* Uploads of the issuer, whatever the token; rows of the token.
ListBatchRegistrations(i, s) == {u \in Uploads : IssuerOf[u] = i /\ status[u] \in s}
ListAllBondTokenBatchPersonalInfoRegistration(i, s) == ListBatchRegistrations(i, s)
ListAllShareTokenBatchPersonalInfoRegistration(i, s) == ListBatchRegistrations(i, s)
RetrieveBatchRegistration(u) == [status |-> status[u], results |-> {<<r, rows[r]>> : r \in RowsOf(u)}]
RetrieveBondTokenPersonalInfoBatchRegistrationStatus(u) == RetrieveBatchRegistration(u)
RetrieveShareTokenPersonalInfoBatchRegistrationStatus(u) == RetrieveBatchRegistration(u)

-----------------------------------------------------------------------------
(* __get_uploads: two statements under the lock.                           *)

Locked == UNION {processing[w] : w \in Workers}

Candidates == {u \in Uploads : status[u] = "pending" /\ u \notin Locked}
Preferred == {u \in Candidates : \A v \in Locked : IssuerOf[v] # IssuerOf[u]}

GetFirst(w) ==
    /\ pc[w] = "idle" /\ lock = NoWorker /\ lock' = w /\ pc' = [pc EXCEPT ![w] = "get"]
    /\ LET first == IF Preferred # {} THEN Preferred ELSE Candidates
       IN  \E s \in InOrder({u \in first : \A v \in first : u <= v}) :
              list' = [list EXCEPT ![w] = s]
    /\ UNCHANGED <<db, registered, processing, left, sent, faults, lost>>

\* The uploads of that issuer but the oldest, up to the lot.
Others(u) ==
    {SubSeq(same, 2, IF Len(same) < WorkerLotSize THEN Len(same) ELSE WorkerLotSize) :
        same \in InOrder({v \in Candidates : IssuerOf[v] = IssuerOf[u]})}

GetRest(w) ==
    /\ pc[w] = "get" /\ lock' = NoWorker
    /\ \E all \in IF list[w] = <<>> THEN {<<>>}
                 ELSE {list[w] \o others : others \in Others(Head(list[w]))} :
           /\ list' = [list EXCEPT ![w] = all]
           /\ processing' = [processing EXCEPT ![w] = SetOf(all)]
           /\ pc' = [pc EXCEPT ![w] = IF all = <<>> THEN "idle" ELSE "next"]
    /\ UNCHANGED <<db, registered, left, sent, faults, lost>>

-----------------------------------------------------------------------------
(* process.                                                                *)

\* The result and its notification are one commit; the claim that is released after it
\* is of an upload that is not pending any more.
FinishUpload(w, u, result) ==
    /\ status' = [status EXCEPT ![u] = result]
    /\ notices' = [notices EXCEPT ![u] = @ + (IF result = "failed" THEN 1 ELSE 0)]
    /\ processing' = [processing EXCEPT ![w] = @ \ {u}]
    /\ list' = [list EXCEPT ![w] = Tail(@)]
    /\ pc' = [pc EXCEPT ![w] = IF Len(list[w]) = 1 THEN "idle" ELSE "next"]
    /\ UNCHANGED <<rows, registered, lock, left, sent, faults, lost>>

IssuerMissing(w) ==
    /\ pc[w] = "next" /\ IssuerOf[Head(list[w])] \in NoAccount
    /\ FinishUpload(w, Head(list[w]), "failed")

\* Mutant: the rows are read whatever their status.
GetRegistrationData_All(w) ==
    /\ pc[w] = "next" /\ IssuerOf[Head(list[w])] \notin NoAccount
    /\ left' = [left EXCEPT ![w] = RowsOf(Head(list[w]))] /\ pc' = [pc EXCEPT ![w] = "rows"]
    /\ UNCHANGED <<db, registered, processing, lock, list, sent, faults, lost>>

\* The contracts of the issuer's tokens are loaded, and the rows that are pending.
GetRegistrationData(w) ==
    /\ pc[w] = "next" /\ IssuerOf[Head(list[w])] \notin NoAccount
    /\ left' = [left EXCEPT ![w] = {r \in RowsOf(Head(list[w])) : rows[r] = 0}]
    /\ pc' = [pc EXCEPT ![w] = "rows"]
    /\ UNCHANGED <<db, registered, processing, lock, list, sent, faults, lost>>

Result(w, r, result) ==
    /\ left' = [left EXCEPT ![w] = @ \ {r}]
    /\ sent' = [sent EXCEPT ![w] = [row |-> r, result |-> result]]
    /\ pc' = [pc EXCEPT ![w] = "commit"]

\* The token has a contract and the transaction succeeds, is not mined, or is mined after
\* the time that was waited.
RegisterInfo(w) ==
    /\ pc[w] = "rows" /\ Head(list[w]) \notin Unbound /\ IssuerOf[Head(list[w])] \notin NoRsaKey
    /\ \E r \in left[w] :
          \/ Result(w, r, 1) /\ registered' = [registered EXCEPT ![r] = @ + 1] /\ UNCHANGED faults
          \/ Fault /\ Result(w, r, 2) /\ UNCHANGED registered
          \/ Fault /\ Result(w, r, 2) /\ registered' = [registered EXCEPT ![r] = @ + 1]
    /\ UNCHANGED <<db, processing, lock, list, lost>>

NoContract(w) ==
    /\ pc[w] = "rows" /\ Head(list[w]) \in Unbound
    /\ \E r \in left[w] : Result(w, r, 2)
    /\ UNCHANGED <<db, registered, processing, lock, list, faults, lost>>

\* Without a passphrase the decryption raises what nobody catches: the worker ends, and
\* what it has claimed stays claimed.
WorkerEnds(w) ==
    /\ pc[w] = "rows" /\ left[w] # {}
    /\ Head(list[w]) \notin Unbound /\ IssuerOf[Head(list[w])] \in NoRsaKey
    /\ pc' = [pc EXCEPT ![w] = "ended"] /\ left' = [left EXCEPT ![w] = {}]
    /\ UNCHANGED <<db, registered, processing, lock, list, sent, faults, lost>>

SinkOnFinishRegisterProcess(w) ==
    /\ pc[w] = "commit" /\ rows' = [rows EXCEPT ![sent[w].row] = sent[w].result]
    /\ sent' = [sent EXCEPT ![w] = NothingSent] /\ pc' = [pc EXCEPT ![w] = "rows"]
    /\ UNCHANGED <<status, notices, registered, processing, lock, list, left, faults, lost>>

\* Mutant: all claims of the worker are released.
Finish_ReleaseAll(w) ==
    /\ pc[w] = "rows" /\ left[w] = {}
    /\ LET failed == \E r \in RowsOf(Head(list[w])) : rows[r] = 2
       IN  /\ status' = [status EXCEPT ![Head(list[w])] = IF failed THEN "failed" ELSE "done"]
           /\ notices' = [notices EXCEPT ![Head(list[w])] = @ + (IF failed THEN 1 ELSE 0)]
    /\ processing' = [processing EXCEPT ![w] = {}] /\ list' = [list EXCEPT ![w] = Tail(@)]
    /\ pc' = [pc EXCEPT ![w] = IF Len(list[w]) = 1 THEN "idle" ELSE "next"]
    /\ UNCHANGED <<rows, registered, lock, left, sent, faults, lost>>

Finish(w) ==
    /\ pc[w] = "rows" /\ left[w] = {}
    /\ FinishUpload(w, Head(list[w]),
          IF \E r \in RowsOf(Head(list[w])) : rows[r] = 2 THEN "failed" ELSE "done")

Lost(W) == [r \in Rows |-> lost[r] + Cardinality({w \in W : sent[w].row = r})]

\* The database or the node fails outside of a transaction: the worker begins anew, with
\* its claims as they are until it reads uploads again.
Abort(w) ==
    /\ pc[w] \in {"next", "rows", "commit"} /\ Fault /\ lost' = Lost({w})
    /\ pc' = [pc EXCEPT ![w] = "idle"] /\ list' = [list EXCEPT ![w] = <<>>]
    /\ left' = [left EXCEPT ![w] = {}] /\ sent' = [sent EXCEPT ![w] = NothingSent]
    /\ UNCHANGED <<db, registered, processing, lock>>

\* The process is killed, or stopped between two rows, and started again.
Restart ==
    /\ Fault /\ lost' = Lost(Workers)
    /\ processing' = NoClaims /\ lock' = NoWorker /\ pc' = AllIdle
    /\ list' = NoLists /\ left' = NoClaims /\ sent' = NoneSent
    /\ UNCHANGED <<db, registered>>

Work(w) ==
    \/ GetFirst(w) \/ GetRest(w) \/ IssuerMissing(w) \/ GetRegistrationData(w)
    \/ RegisterInfo(w) \/ NoContract(w) \/ WorkerEnds(w) \/ SinkOnFinishRegisterProcess(w) \/ Finish(w)

Next ==
    \/ \E u \in Uploads : \/ InitiateBondTokenBatchPersonalInfoRegistration(u)
                          \/ InitiateShareTokenBatchPersonalInfoRegistration(u)
    \/ \E w \in Workers : Work(w) \/ Abort(w)
    \/ Restart

Spec == Init /\ [][Next]_vars

-----------------------------------------------------------------------------
(* Properties.                                                             *)

\* Every variable keeps its type, and a worker has claimed what it works on.
TypeOK ==
    /\ \A u \in Uploads : status[u] \in {"absent", "pending", "done", "failed"}
    /\ \A r \in Rows : rows[r] \in 0..2
    /\ lock \in Workers \cup {NoWorker}
    /\ \A w \in Workers :
          /\ pc[w] \in {"idle", "get", "next", "rows", "commit", "ended"} /\ (pc[w] = "get") = (lock = w)
          /\ pc[w] \in {"next", "rows", "commit", "ended"} =>
                list[w] # <<>> /\ SetOf(list[w]) \ {u \in Uploads : status[u] # "pending"} \subseteq processing[w]

\* No two workers register the rows of the same upload.
OneWorker ==
    \A v, w \in Workers : v # w => processing[v] \cap processing[w] = {}

\* What the status of an upload says is what happened to its rows; a failure is notified.
ReportIsTrue ==
    \A u \in Uploads :
       /\ status[u] = "done" =>
             (\A r \in RowsOf(u) : rows[r] = 1 /\ registered[r] > 0) /\ notices[u] = 0
       /\ status[u] = "failed" =>
             (IssuerOf[u] \in NoAccount \/ \E r \in RowsOf(u) : rows[r] = 2) /\ notices[u] > 0

\* A row is registered again only when the result of its registration was not recorded.
RegisteredOnce == \A r \in Rows : registered[r] <= 1 + lost[r]

=============================================================================
