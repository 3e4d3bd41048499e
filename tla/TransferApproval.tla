----------------------------- MODULE TransferApproval ----------------------------
(***************************************************************************)
(* Transfers of a token that the issuer must approve: applications on the   *)
(* token or on an escrow, the index of them                                 *)
(* (batch/indexer_transfer_approval.py) and the API with which the issuer    *)
(* approves or cancels them and sees their status (app/routers/issuer/       *)
(* bond.py and share.py, which are alike).                                  *)
(***************************************************************************)
EXTENDS Integers, Sequences, FiniteSets, SequencesExt

CONSTANTS
    OnToken,        \* applications to the token contract
    OnEscrow,       \* applications to the escrow contract
    Huge,           \* those whose value is larger than sys.maxsize
    Undated,        \* those whose data is no number
    Requests,       \* API requests under way
    Lot,            \* INDEXER_BLOCK_LOT_MAX_SIZE
    MaxAborts       \* bound on passes that fail for other reasons

Applications == OnToken \cup OnEscrow

TransferApprovalAssumption ==
    /\ OnToken \cap OnEscrow = {} /\ Huge \cup Undated \subseteq Applications
    /\ Lot \in Nat \ {0} /\ MaxAborts \in Nat

VARIABLES
    chain,      \* state of each application in its contract
    log,        \* one event for each block
    status,     \* token.token_status
    listed,     \* the escrow is the tradable exchange of a token
    db,         \* committed: index, number of notifications of an event, block number
    history,    \* table transfer_approval_history: operations of an application
    request,    \* API requests
    pc,         \* the pass: "list", "height" or "range"
    watched,    \* applications whose contract is in the lists
    span,       \* blocks of the pass
    past        \* applications that were overlooked, passes that failed

contracts == <<chain, log>>
pass == <<pc, watched, span>>
vars == <<contracts, status, listed, db, history, request, pass, past>>

Idle == [at |-> "idle"]
Operations == {"APPROVE", "CANCEL"}

Init ==
    /\ chain = [a \in Applications |-> "none"] /\ log = <<>>
    /\ status = "PENDING" /\ listed = FALSE
    /\ db = [rows |-> <<>>, notes |-> <<>>, synced |-> 0]
    /\ history = [a \in Applications |-> <<>>]
    /\ request = [r \in Requests |-> Idle]
    /\ pc = "list" /\ watched = {} /\ span = [from |-> 0, to |-> 0]
    /\ past = [overlooked |-> {}, aborts |-> 0]

-----------------------------------------------------------------------------
(* The contracts.                                                          *)

Emit(a, type, by, state) ==
    /\ log' = Append(log, [app |-> a, type |-> type, by |-> by])
    /\ chain' = [chain EXCEPT ![a] = state]

ApplyForTransfer(a) ==
    /\ chain[a] = "none" /\ Emit(a, "ApplyFor", "other", "applied")
    /\ UNCHANGED <<status, listed, db, history, request, pass, past>>

FinishEscrow(a) ==
    /\ a \in OnEscrow /\ chain[a] = "applied" /\ Emit(a, "EscrowFinish", "other", "finished")
    /\ UNCHANGED <<status, listed, db, history, request, pass, past>>

\* The applicant, or somebody who takes part in the escrow.
CancelByApplicant(a) ==
    /\ chain[a] = "applied" /\ Emit(a, "Cancel", "other", "cancelled")
    /\ UNCHANGED <<status, listed, db, history, request, pass, past>>

Approvable(a) == chain[a] = IF a \in OnToken THEN "applied" ELSE "finished"

TokenIsIssued ==
    /\ status = "PENDING" /\ status' = "SUCCEEDED"
    /\ UNCHANGED <<contracts, listed, db, history, request, pass, past>>

SetTradableExchange ==
    /\ OnEscrow # {} /\ listed' = ~listed
    /\ UNCHANGED <<contracts, status, db, history, request, pass, past>>

-----------------------------------------------------------------------------
(* The index.                                                              *)

\* Tokens stay once they are loaded; exchanges are those of today.
GetContractList ==
    /\ pc = "list" /\ pc' = "height"
    /\ watched' = IF status = "SUCCEEDED"
                  THEN OnToken \cup (IF listed THEN OnEscrow ELSE {}) ELSE {}
    /\ UNCHANGED <<contracts, status, listed, db, history, request, span, past>>

StartSync ==
    /\ pc = "height"
    /\ IF db.synced >= Len(log)
       THEN pc' = "list" /\ UNCHANGED span
       ELSE pc' = "range" /\ span' = [from |-> db.synced, to |-> Len(log)]
    /\ UNCHANGED <<contracts, status, listed, db, history, request, watched, past>>

NewRow(a) == [approved |-> FALSE, cancelled |-> FALSE, finished |-> FALSE, dated |-> a \notin Undated]

\* Mutant: an application that is seen again starts anew.
Sink_Anew(row, a, types) ==
    [(IF "Approve" \in types THEN NewRow(a) ELSE row) EXCEPT
        !.cancelled = @ \/ "Cancel" \in types, !.approved = @ \/ "Approve" \in types,
        !.finished = @ \/ ("EscrowFinish" \in types /\ "Approve" \notin types)]

\* Each event sets a column of the row and leaves the others alone; an application
\* that is seen again keeps its row.
SinkOnTransferApproval(row, a, types) ==
    [row EXCEPT !.cancelled = @ \/ "Cancel" \in types,
                !.finished = @ \/ "EscrowFinish" \in types,
                !.approved = @ \/ "Approve" \in types]

\* Events of the pass, of the contracts in the lists.  A value that overflows is
\* passed over.
Overflows(k) == log[k].type = "ApplyFor" /\ log[k].app \in Huge
Events == {k \in span.from + 1..span.to : log[k].app \in watched /\ ~Overflows(k)}

\* The place of an event: its lot, then the handler, those of tokens first.
LotOf(k) == (k - span.from - 1) \div Lot
Handlers == <<"ApplyFor", "Cancel", "EscrowFinish", "Approve">>
SyncAll(k) == (IF log[k].app \in OnToken THEN 0 ELSE 4) + (CHOOSE i \in DOMAIN Handlers : Handlers[i] = log[k].type)

Before(j, k) ==
    \/ LotOf(j) < LotOf(k)
    \/ LotOf(j) = LotOf(k) /\ SyncAll(j) < SyncAll(k)
    \/ LotOf(j) = LotOf(k) /\ SyncAll(j) = SyncAll(k) /\ j < k

\* An event of an application without a row: merge(None) is an error.
Unknown ==
    \E k \in Events :
       /\ log[k].type # "ApplyFor" /\ log[k].app \notin DOMAIN db.rows
       /\ \A j \in Events : Before(j, k) => log[j].app # log[k].app \/ log[j].type # "ApplyFor"

\* Others apply, cancel and finish; the issuer approves.
RegisterNotification(k) ==
    IF log[k].by = "issuer" THEN log[k].type = "Approve" ELSE log[k].type # "Approve"

Row(a) == IF a \in DOMAIN db.rows THEN db.rows[a] ELSE NewRow(a)

Rows ==
    [a \in DOMAIN db.rows \cup {log[k].app : k \in Events} |->
       SinkOnTransferApproval(Row(a), a, {log[k].type : k \in {j \in Events : log[j].app = a}})]

Notes(k) == IF k \in DOMAIN db.notes THEN db.notes[k] ELSE 0
InsertNotifications ==
    [k \in 1..span.to |-> Notes(k) + (IF k \in Events /\ RegisterNotification(k) THEN 1 ELSE 0)]

\* All lots, the block number and the notifications are one commit.
Commit ==
    /\ pc = "range" /\ ~Unknown /\ pc' = "list"
    /\ db' = [rows |-> Rows, synced |-> span.to, notes |-> InsertNotifications]
    /\ past' = [past EXCEPT !.overlooked = @ \cup
                  {log[k].app : k \in {j \in span.from + 1..span.to : log[j].app \notin watched \/ Overflows(j)}}]
    /\ UNCHANGED <<contracts, status, listed, history, request, watched, span>>

\* Mutant: notifications of a pass that fails are registered.
Rollback_Notify ==
    /\ pc = "range" /\ pc' = "list"
    /\ IF Unknown THEN UNCHANGED past
       ELSE past.aborts < MaxAborts /\ past' = [past EXCEPT !.aborts = @ + 1]
    /\ db' = IF Unknown THEN db ELSE [db EXCEPT !.notes = InsertNotifications]
    /\ UNCHANGED <<contracts, status, listed, history, request, watched, span>>

\* Rolled back, because of an unknown application or anything else; the events
\* to notify of are cleared.
Rollback ==
    /\ pc = "range" /\ pc' = "list"
    /\ IF Unknown THEN UNCHANGED past
       ELSE past.aborts < MaxAborts /\ past' = [past EXCEPT !.aborts = @ + 1]
    /\ UNCHANGED <<contracts, status, listed, db, history, request, watched, span>>

-----------------------------------------------------------------------------
(* The API: update_*_token_transfer_approval_status.                        *)

\* Checks against the index and the history; personal information is there.
StartUpdate(r, a, op) ==
    /\ request[r] = Idle /\ status = "SUCCEEDED" /\ a \in DOMAIN db.rows
    /\ ~db.rows[a].approved /\ ~db.rows[a].cancelled
    /\ a \in OnEscrow => db.rows[a].finished /\ op = "APPROVE"
    /\ ~Contains(history[a], op)
    /\ request' = [request EXCEPT ![r] = [at |-> op, app |-> a, op |-> op]]
    /\ UNCHANGED <<contracts, status, listed, db, history, pass, past>>

Now(r, at) == request[r].at = at
GoTo(r, at) == request' = [request EXCEPT ![r].at = at]
Answer(r) == request' = [request EXCEPT ![r] = Idle]

\* approve_transfer of the token or of the escrow.  The call may fail without
\* a receipt, the transaction mined or not.
ApproveTransfer(r) ==
    LET a == request[r].app
    IN  /\ Now(r, "APPROVE")
        /\ \/ /\ Approvable(a) /\ Emit(a, "Approve", "issuer", "approved")
              /\ GoTo(r, "record") \/ Answer(r)
           \/ /\ IF a \in OnToken THEN GoTo(r, "reverted") ELSE Answer(r)
              /\ UNCHANGED contracts
           \/ Answer(r) /\ UNCHANGED contracts
        /\ UNCHANGED <<status, listed, db, history, pass, past>>

\* A reverted approval cancels the application and is answered as an error.
CancelAfterRevert(r) ==
    LET a == request[r].app
    IN  /\ Now(r, "reverted") /\ Answer(r)
        /\ \/ chain[a] = "applied" /\ Emit(a, "Cancel", "issuer", "cancelled")
           \/ UNCHANGED contracts
        /\ UNCHANGED <<status, listed, db, history, pass, past>>

CancelTransfer(r) ==
    LET a == request[r].app
    IN  /\ Now(r, "CANCEL")
        /\ \/ /\ chain[a] = "applied" /\ Emit(a, "Cancel", "issuer", "cancelled")
              /\ GoTo(r, "record") \/ Answer(r)
           \/ Answer(r) /\ UNCHANGED contracts
        /\ UNCHANGED <<status, listed, db, history, pass, past>>

RecordOperation(r) ==
    /\ Now(r, "record") /\ Answer(r)
    /\ history' = [history EXCEPT ![request[r].app] = Append(@, request[r].op)]
    /\ UNCHANGED <<contracts, status, listed, db, pass, past>>

Next ==
    \/ \E a \in Applications : ApplyForTransfer(a) \/ FinishEscrow(a) \/ CancelByApplicant(a)
    \/ TokenIsIssued \/ SetTradableExchange
    \/ GetContractList \/ StartSync \/ Commit \/ Rollback
    \/ \E r \in Requests :
          \/ \E a \in Applications, op \in Operations : StartUpdate(r, a, op)
          \/ ApproveTransfer(r) \/ CancelAfterRevert(r) \/ CancelTransfer(r) \/ RecordOperation(r)

Spec == Init /\ [][Next]_vars

\* What the loop of main does; a pass that fails without a cause is not fair.
Pass == GetContractList \/ StartSync \/ Commit \/ (Rollback /\ Unknown)

-----------------------------------------------------------------------------
(* Queries.                                                                *)

Done(a, op) == Contains(history[a], op)

\* 0 unapproved, 1 escrow finished, 2 transferred, 3 cancelled: from the index,
\* or from an operation whose event is not indexed yet.
StatusOf(a) ==
    CASE db.rows[a].finished /\ ~db.rows[a].approved /\ history[a] = <<>> -> 1
      [] db.rows[a].approved \/ Done(a, "APPROVE") -> 2
      [] db.rows[a].cancelled \/ Done(a, "CANCEL") -> 3
      [] OTHER -> 0

\* The outer join with the history gives a row for each operation.
ListHistory == [a \in DOMAIN db.rows |-> IF history[a] = <<>> THEN 1 ELSE Len(history[a])]

CountByStatus(s) == Cardinality({a \in DOMAIN db.rows : StatusOf(a) = s})

-----------------------------------------------------------------------------
(* Properties.                                                             *)

States == {"none", "applied", "finished", "approved", "cancelled"}
Bools == [approved : BOOLEAN, cancelled : BOOLEAN, finished : BOOLEAN, dated : BOOLEAN]

\* Every variable keeps its type; an application is never both approved and
\* cancelled in the index.
TypeOK ==
    /\ chain \in [Applications -> States]
    /\ \A k \in DOMAIN log : log[k].app \in Applications
    /\ DOMAIN db.rows \subseteq Applications /\ db.synced \in 0..Len(log)
    /\ \A a \in DOMAIN db.rows : db.rows[a] \in Bools /\ ~(db.rows[a].approved /\ db.rows[a].cancelled)
    /\ \A a \in Applications : \A i \in DOMAIN history[a] : history[a][i] \in Operations
    /\ span.from <= span.to /\ span.to <= Len(log) /\ past.overlooked \subseteq Applications

\* The index is what the events give in their order, although it reads them type
\* by type and the escrow after the token, for what it has not overlooked.
RowsMatch ==
    \A a \in DOMAIN db.rows \ past.overlooked :
       LET seen == {log[k].type : k \in {j \in 1..db.synced : log[j].app = a}}
       IN  /\ db.rows[a].approved = ("Approve" \in seen)
           /\ db.rows[a].cancelled = ("Cancel" \in seen)
           /\ db.rows[a].finished = ("EscrowFinish" \in seen)

\* The status that is shown is true of the contract, ahead of the index as well,
\* whatever requests ran at the same time: who is told of a transfer or a
\* cancellation can rely on it.
StatusIsTrue ==
    \A a \in DOMAIN db.rows :
       /\ StatusOf(a) = 2 => chain[a] = "approved"
       /\ StatusOf(a) = 3 => chain[a] = "cancelled"
       /\ StatusOf(a) = 1 => chain[a] \in {"finished", "approved"}

\* An operation that was recorded shows in the status at once, and once in the
\* list: two requests never both record one.
RecordedOnce ==
    \A a \in DOMAIN db.rows :
       /\ ListHistory[a] = 1
       /\ history[a] # <<>> => StatusOf(a) \in {2, 3}

\* The issuer is told once of what others do and of the approvals, in spite of
\* passes that failed.
NotifiedOnce ==
    \A k \in 1..Len(log) :
       LET told == Notes(k)
       IN  /\ told <= 1
           /\ (k <= db.synced /\ log[k].app \notin past.overlooked /\ RegisterNotification(k)) => told = 1
           /\ ~RegisterNotification(k) => told = 0

Stuck == \E k \in db.synced + 1..Len(log) : log[k].app \in past.overlooked

Decided(a) == chain[a] \in {"approved", "cancelled"}

\* The index shows the outcome, unless an application it overlooked stands in the way.
OutcomeShown(a) ==
    \/ Stuck \/ a \in past.overlooked
    \/ a \in DOMAIN db.rows /\ (db.rows[a].approved \/ db.rows[a].cancelled)

\* A value that overflows is suppressed ("suppress overflow"): the other
\* applications are indexed all the same.
OverflowIsSuppressed ==
    \A a \in OnToken \ Huge :
       (chain[a] # "none" /\ status = "SUCCEEDED") ~> (a \in DOMAIN db.rows \/ a \in past.overlooked)
=============================================================================
