--------------------------------- MODULE Ledger ---------------------------------
(***************************************************************************)
(* Ledgers of one token: requests with the data they were made of           *)
(* (app/utils/ibet_ledger_utils.py), the processor that waits for personal   *)
(* information and finalizes them (batch/processor_create_ledger.py), and the *)
(* API of templates and off-chain data (app/routers/issuer/ledger.py).       *)
(***************************************************************************)
EXTENDS Integers, Sequences, FiniteSets, SequencesExt, Functions

CONSTANTS
    Accounts, Issuer,   \* accounts that hold the token; its issuer is one
    Fin,                \* data source of LedgerDataType.IBET_FIN
    DataIds,            \* identifiers of off-chain data (LedgerDataType.DB)
    NoTemplate,         \* the token has no template
    Templates,          \* sequences of [detail, source]
    MaxRequests,        \* bound on requests
    MaxEdits,           \* bound on edits of off-chain data
    MaxTrades,          \* bound on changes of the holders
    MaxAborts           \* bound on passes that fail or are shut down

Sources == DataIds \cup {Fin}

LedgerAssumption ==
    /\ Issuer \in Accounts /\ Fin \notin DataIds
    /\ \A t \in Templates : t \in Seq([detail : {t[i].detail : i \in DOMAIN t}, source : Sources])
    /\ MaxRequests \in Nat /\ MaxEdits \in Nat /\ MaxTrades \in Nat /\ MaxAborts \in Nat

VARIABLES
    template,   \* tables ledger_template and ledger_details_template
    data,       \* table ledger_details_data: edit that gave it, or 0
    edits,      \* edits so far
    holders,    \* accounts with an amount in table utxo
    trades,     \* changes of the holders so far
    info,       \* table idx_personal_info: "none", "nameless" or "named"
    requests,   \* table ledger_creation_request and its data
    ledgers,    \* table ledger
    asked,      \* data of each request when it was made
    pc,         \* the processor: "idle", "pass" or "finalize"
    todo,       \* req_list
    cur,        \* req
    work,       \* its data, not committed
    complete,   \* initial_unset_count == final_set_count
    aborts

api == <<template, data, edits>>
tables == <<requests, ledgers, asked>>
session == <<pc, todo, cur, work, complete>>
vars == <<api, holders, trades, info, tables, session, aborts>>

Init ==
    /\ template = NoTemplate /\ data = [d \in DataIds |-> 0] /\ edits = 0
    /\ holders = {Issuer} /\ trades = 0 /\ info = [a \in Accounts |-> "none"]
    /\ requests = <<>> /\ ledgers = <<>> /\ asked = <<>>
    /\ pc = "idle" /\ todo = {} /\ cur = 0 /\ work = <<>> /\ complete = FALSE /\ aborts = 0

-----------------------------------------------------------------------------
(* Requests.                                                               *)

\* Holders of the utxo table, without names, or the off-chain data; 0 if there is
\* none.
DatasetFromIbetfin == [a \in holders' |-> "unset"]
DatasetFromDB(d) == data'[d]
CreateLedgerInputDataset(source) ==
    IF source = Fin THEN DatasetFromIbetfin ELSE DatasetFromDB(source)

SourcesOf(t) == {t[i].source : i \in DOMAIN t}

\* One set of data for each source of the template; nothing without a template.
RequestLedgerCreation ==
    IF template' = NoTemplate
    THEN UNCHANGED <<requests, asked>>
    ELSE LET rows == [s \in SourcesOf(template') |-> CreateLedgerInputDataset(s)]
         IN  /\ Len(requests) < MaxRequests
             /\ requests' = Append(requests, [status |-> "PROCESSING", rows |-> rows, old |-> FALSE])
             /\ asked' = Append(asked, rows)

-----------------------------------------------------------------------------
(* API, and what creates requests.                                         *)

\* Details that the body does not have are deleted.
CreateUpdateTemplate(t) ==
    /\ template' = t
    /\ UNCHANGED <<data, edits, holders, trades>>
    /\ RequestLedgerCreation
    /\ UNCHANGED <<info, ledgers, session, aborts>>

DeleteTemplate ==
    /\ template # NoTemplate /\ template' = NoTemplate
    /\ UNCHANGED <<data, edits, holders, trades, info, tables, session, aborts>>

\* No request: no template has the new identifier yet.
CreateDetailsData(d) ==
    /\ data[d] = 0 /\ edits < MaxEdits /\ edits' = edits + 1
    /\ data' = [data EXCEPT ![d] = edits']
    /\ UNCHANGED <<template, holders, trades, info, tables, session, aborts>>

UpdateDetailsData(d) ==
    /\ edits < MaxEdits /\ edits' = edits + 1
    /\ data' = [data EXCEPT ![d] = edits']
    /\ UNCHANGED <<template, holders, trades>>
    /\ RequestLedgerCreation
    /\ UNCHANGED <<info, ledgers, session, aborts>>

DeleteDetailsData(d) ==
    /\ data[d] # 0 /\ data' = [data EXCEPT ![d] = 0]
    /\ UNCHANGED <<template, edits, holders, trades, info, tables, session, aborts>>

\* create_utxo has events of the token; a request that cannot be stored is
\* given up.
UtxoChanged(accounts) ==
    /\ trades < MaxTrades /\ trades' = trades + 1
    /\ holders' = accounts /\ holders' # holders /\ UNCHANGED api
    /\ \/ RequestLedgerCreation
       \/ UNCHANGED <<requests, asked>>
    /\ UNCHANGED <<info, ledgers, session, aborts>>

\* Personal information is indexed, changed or deleted.
InfoChanged(a, value) ==
    /\ a # Issuer /\ value # info[a] /\ info' = [info EXCEPT ![a] = value]
    /\ UNCHANGED <<api, holders, trades, tables, session, aborts>>

\* Six hours after the request.
TimeLimit(r) ==
    /\ r \in DOMAIN requests /\ requests[r].status = "PROCESSING"
    /\ requests' = [requests EXCEPT ![r].old = TRUE]
    /\ UNCHANGED <<api, holders, trades, info, ledgers, asked, session, aborts>>

-----------------------------------------------------------------------------
(* The processor.                                                          *)

StartPass ==
    /\ pc = "idle" /\ pc' = "pass"
    /\ todo' = {r \in DOMAIN requests : requests[r].status = "PROCESSING"}
    /\ UNCHANGED <<api, holders, trades, info, tables, cur, work, complete, aborts>>

\* Rows without a name, those of the issuer left out.  "nameless" is a name
\* that is still null.
Unset(rows) ==
    IF Fin \in DOMAIN rows
    THEN {a \in DOMAIN rows[Fin] \ {Issuer} : rows[Fin][a] # "named"}
    ELSE {}

Named(rows, found) ==
    [s \in DOMAIN rows |->
        IF s = Fin THEN [a \in DOMAIN rows[s] |-> IF a \in found THEN info[a] ELSE rows[s][a]]
                   ELSE rows[s]]

SyncRequest(r) ==
    /\ pc = "pass" /\ r \in todo /\ pc' = "finalize" /\ cur' = r
    /\ LET unset == Unset(requests[r].rows)
           found == {a \in unset : info[a] # "none"}
       IN  /\ work' = Named(requests[r].rows, found)
           /\ complete' = (unset = found)
    /\ UNCHANGED <<api, holders, trades, info, tables, todo, aborts>>

\* Rows of a source; there are none of a source the request did not have.
RowsOf(rows, source) ==
    IF source \in DOMAIN rows THEN rows[source] ELSE IF source = Fin THEN <<>> ELSE 0

DetailsOf(rows, missing) ==
    [i \in DOMAIN template |->
        [detail |-> template[i].detail, source |-> template[i].source,
         rows |-> RowsOf(rows, template[i].source),
         flag |-> missing /\ template[i].source = Fin]]

\* The ledger in the form of the template of today, and the rows deleted;
\* nothing if the template is gone.
FinalizeLedger(missing) ==
    IF template = NoTemplate
    THEN /\ requests' = [requests EXCEPT ![cur].status = "COMPLETED", ![cur].rows = work]
         /\ UNCHANGED ledgers
    ELSE /\ requests' = [requests EXCEPT ![cur].status = "COMPLETED", ![cur].rows = <<>>]
         /\ ledgers' = Append(ledgers, [request |-> cur, details |-> DetailsOf(work, missing)])

EndRequest == cur' = 0 /\ work' = <<>> /\ complete' = FALSE

\* Mutant: the status is left to the next pass.
Finalize_StatusLater ==
    /\ pc = "finalize" /\ pc' = "pass" /\ todo' = todo \ {cur}
    /\ requests' = [requests EXCEPT ![cur].rows = work]
    /\ ledgers' = IF (complete \/ requests[cur].old) /\ template # NoTemplate
                  THEN Append(ledgers, [request |-> cur, details |-> DetailsOf(work, ~complete)])
                  ELSE ledgers
    /\ EndRequest /\ UNCHANGED <<api, holders, trades, info, asked, aborts>>

\* Commit of one request.
Finalize ==
    /\ pc = "finalize" /\ pc' = "pass" /\ todo' = todo \ {cur}
    /\ IF complete \/ requests[cur].old
       THEN FinalizeLedger(~complete)
       ELSE requests' = [requests EXCEPT ![cur].rows = work] /\ UNCHANGED ledgers
    /\ EndRequest /\ UNCHANGED <<api, holders, trades, info, asked, aborts>>

EndPass ==
    /\ pc = "pass" /\ todo = {} /\ pc' = "idle"
    /\ UNCHANGED <<api, holders, trades, info, tables, todo, cur, work, complete, aborts>>

\* A shutdown before the next request, or an error at any point.
Abort ==
    /\ pc # "idle" /\ pc' = "idle" /\ todo' = {} /\ EndRequest
    /\ aborts < MaxAborts /\ aborts' = aborts + 1
    /\ UNCHANGED <<api, holders, trades, info, tables>>

Next ==
    \/ \E t \in Templates : CreateUpdateTemplate(t)
    \/ DeleteTemplate
    \/ \E d \in DataIds : CreateDetailsData(d) \/ UpdateDetailsData(d) \/ DeleteDetailsData(d)
    \/ \E h \in SUBSET Accounts : UtxoChanged(h)
    \/ \E a \in Accounts, v \in {"none", "nameless", "named"} : InfoChanged(a, v)
    \/ \E r \in 1..MaxRequests : TimeLimit(r) \/ SyncRequest(r)
    \/ StartPass \/ Finalize \/ EndPass \/ Abort

Spec == Init /\ [][Next]_vars

\* What the loop of main does, whose passes go on after every error.
Pass == StartPass \/ (\E r \in todo : SyncRequest(r)) \/ Finalize \/ EndPass

-----------------------------------------------------------------------------
(* Queries.                                                                *)

\* History of a ledger with the latest information (latest_flg = 1), by the
\* template of today; a flag stays for the details behind.
LatestFlags(ledger) ==
    LET fin == IF template = NoTemplate THEN {}
               ELSE {template[i].detail : i \in {j \in DOMAIN template : template[j].source = Fin}}
        Missing(d) == /\ d.detail \in fin /\ d.source = Fin
                      /\ \E a \in DOMAIN d.rows \ {Issuer} : info[a] = "none"
    IN  [i \in DOMAIN ledger.details |-> \E j \in 1..i : Missing(ledger.details[j])]

-----------------------------------------------------------------------------
(* Properties.                                                             *)

IsRows(rows) ==
    \A s \in DOMAIN rows :
       IF s = Fin THEN rows[s] \in [DOMAIN rows[s] -> {"unset", "nameless", "named"}]
                  ELSE rows[s] \in 0..edits

\* Every variable keeps its type, and a pass works on requests it has found.
TypeOK ==
    /\ template \in Templates \cup {NoTemplate} /\ data \in [DataIds -> 0..edits]
    /\ holders \subseteq Accounts /\ info \in [Accounts -> {"none", "nameless", "named"}]
    /\ \A r \in DOMAIN requests : /\ requests[r].status \in {"PROCESSING", "COMPLETED"}
                                  /\ IsRows(requests[r].rows) /\ requests[r].old \in BOOLEAN
    /\ \A l \in DOMAIN ledgers : ledgers[l].request \in DOMAIN requests
    /\ Len(asked) = Len(requests) /\ todo \subseteq DOMAIN requests /\ IsRows(work)
    /\ pc = "finalize" => cur \in todo /\ requests[cur].status = "PROCESSING"

\* A ledger shows the accounts and the data of the moment its request was made,
\* however long it waited and whatever other requests of the token did, in
\* every detail whose source was in the template then.
ShowsTheRequest ==
    \A l \in DOMAIN ledgers : \A i \in DOMAIN ledgers[l].details :
       LET d == ledgers[l].details[i]
           rows == asked[ledgers[l].request]
       IN  d.source \in DOMAIN rows =>
              IF d.source = Fin THEN DOMAIN d.rows = DOMAIN rows[Fin]
                                ELSE d.rows = rows[d.source]

\* A ledger that is not flagged has asked for everybody's personal information
\* and found it; one that is flagged has waited for six hours and lacks some.
FlagTellsMissing ==
    \A l \in DOMAIN ledgers : \A i \in DOMAIN ledgers[l].details :
       LET d == ledgers[l].details[i]
       IN  d.source = Fin =>
              IF d.flag THEN requests[ledgers[l].request].old
              ELSE \A a \in DOMAIN d.rows \ {Issuer} : d.rows[a] # "unset"

\* A request gives one ledger at most, in spite of passes that fail, and its
\* data is dropped with it.
OncePerRequest ==
    \A l \in DOMAIN ledgers :
       /\ \A m \in DOMAIN ledgers : ledgers[m].request = ledgers[l].request => m = l
       /\ requests[ledgers[l].request].status = "COMPLETED"
       /\ requests[ledgers[l].request].rows = <<>>

\* Once everybody has information no query flags a ledger, and as long as
\* somebody it lists under today's template has none, its last detail is flagged.
LatestTellsMissing ==
    \A l \in DOMAIN ledgers :
       LET details == ledgers[l].details
           flags == LatestFlags(ledgers[l])
           fin == {i \in DOMAIN details : details[i].source = Fin}
           lacking == {i \in fin : \E a \in DOMAIN details[i].rows \ {Issuer} : info[a] = "none"}
       IN  /\ lacking = {} => \A i \in DOMAIN details : ~flags[i]
           /\ (lacking # {} /\ template # NoTemplate
                 /\ \A i \in fin : \E j \in DOMAIN template :
                       template[j].detail = details[i].detail /\ template[j].source = Fin)
              => flags[Len(details)]

Completed(r) == r \in DOMAIN requests /\ requests[r].status = "COMPLETED"
=============================================================================
