------------------------------- MODULE TokenIssue -------------------------------
(***************************************************************************)
(* Issue of a bond or share: the endpoints of app/routers/issuer/bond.py and  *)
(* share.py, and batch/processor_update_token.py, which sets the items a      *)
(* contract is not deployed with and registers the token in TokenList.        *)
(***************************************************************************)
EXTENDS Integers, Sequences, FiniteSets, Functions

CONSTANTS
    Tokens,         \* tokens that may be issued
    TypeOf,         \* "bond" or "share"
    Items,          \* items a contract is not deployed with
    ItemsOf,        \* of each token, the ones the request sets
    WithWST,        \* tokens whose request activates IbetWST
    MaxFaults       \* bound on failures

TokenIssueAssumption ==
    /\ TypeOf \in [Tokens -> {"bond", "share"}] /\ ItemsOf \in [Tokens -> SUBSET Items]
    /\ WithWST \subseteq Tokens /\ MaxFaults \in Nat

VARIABLES
    request,    \* of a token: "none", "deployed", "listed", "issued" or "error"
    tokens,     \* table token in the order of id
    status,     \* token_status: 0 pending, 1 succeeded, 2 failed
    updates,    \* table update_token, with its status, in the order of id
    positions,  \* tokens with the initial position of their issuer
    utxos,      \* tokens with the initial UTXO of their issuer
    wst,        \* tokens with a transaction that deploys their IbetWST
    notes,      \* notifications of type ISSUE_ERROR
    set,        \* of each contract, the items that are set
    listed,     \* TokenList
    pc,         \* of the batch: "idle", "next", "update", "register" or "save"
    list,       \* what is left of the update_token rows it has read
    outcome,    \* of the row it is about to settle
    shutdown,
    past        \* number of failures, and tokens whose registration may have been lost

db == <<tokens, status, updates, positions, utxos, wst, notes>>
chain == <<set, listed>>
batch == <<pc, list, outcome, shutdown>>
vars == <<request, db, chain, batch, past>>

Init ==
    /\ request = [t \in Tokens |-> "none"]
    /\ tokens = <<>> /\ status = [t \in Tokens |-> 0] /\ updates = <<>>
    /\ positions = <<>> /\ utxos = <<>> /\ wst = {} /\ notes = <<>>
    /\ set = [t \in Tokens |-> {}] /\ listed = {}
    /\ pc = "idle" /\ list = <<>> /\ outcome = "none" /\ shutdown = FALSE
    /\ past = [faults |-> 0, lost |-> {}]

IsUpdate(t) == ItemsOf[t] # {}
At(t, where) == request' = [request EXCEPT ![t] = where]
Fault == past.faults < MaxFaults /\ past' = [past EXCEPT !.faults = @ + 1]
FaultAt(t) ==
    past.faults < MaxFaults /\ past' = [faults |-> past.faults + 1, lost |-> past.lost \cup {t}]

-----------------------------------------------------------------------------
(* API.                                                                    *)

\* The contract is deployed, or the request fails; what is deployed late is not known
\* to the application.
Deploy(t, type) ==
    /\ request[t] = "none" /\ TypeOf[t] = type
    /\ \/ At(t, "deployed") /\ UNCHANGED past
       \/ At(t, "error") /\ Fault
    /\ UNCHANGED <<db, chain, batch>>

IssueBondToken(t) == Deploy(t, "bond")
IssueShareToken(t) == Deploy(t, "share")

\* TokenList.register by the issuer: refused for an address that is registered.
Register(t) == t \notin listed /\ listed' = listed \cup {t}

\* A token with no item to set is registered by the request.
RegisterAtOnce(t) ==
    /\ request[t] = "deployed" /\ ~IsUpdate(t) /\ Register(t) /\ At(t, "listed")
    /\ UNCHANGED <<db, set, batch, past>>

\* The rows of an issue, in one commit: with items to set, pending; otherwise with the
\* position and the UTXO of the issuer, succeeded.
Rows(t, state) ==
    /\ tokens' = Append(tokens, t) /\ status' = [status EXCEPT ![t] = state]
    /\ wst' = IF t \in WithWST THEN wst \cup {t} ELSE wst

Holds(t) == positions' = Append(positions, t) /\ utxos' = Append(utxos, t)

CommitPending(t) ==
    /\ request[t] = "deployed" /\ IsUpdate(t) /\ Rows(t, 0) /\ At(t, "issued")
    /\ updates' = Append(updates, [token |-> t, status |-> 0])
    /\ UNCHANGED <<positions, utxos, notes, chain, batch, past>>

CommitSucceeded(t) ==
    /\ request[t] = "listed" /\ Rows(t, 1) /\ Holds(t) /\ At(t, "issued")
    /\ UNCHANGED <<updates, notes, chain, batch, past>>

\* An error, a lost answer or a crash after the contract was deployed: no row is
\* written; the registration may have been carried out, or be carried out later.
RequestFails(t) ==
    /\ request[t] \in {"deployed", "listed"} /\ At(t, "error")
    /\ \/ t \notin listed /\ Fault /\ UNCHANGED listed
       \/ ~IsUpdate(t) /\ FaultAt(t) /\ listed' = listed \cup {t}
    /\ UNCHANGED <<db, set, batch>>

-----------------------------------------------------------------------------
(* Batch.                                                                  *)

Pending == {i \in DOMAIN updates : updates[i].status = 0}

\* The tokens of the pending rows in the order of id.
GetUpdateTokenList ==
    /\ pc = "idle" /\ ~shutdown /\ pc' = "next"
    /\ \E s \in [1..Cardinality(Pending) -> Pending] :
          /\ \A i, j \in DOMAIN s : i < j => s[i] < s[j]
          /\ list' = [i \in DOMAIN s |-> updates[s[i]].token]
    /\ UNCHANGED <<request, db, chain, outcome, shutdown, past>>

PassEnds ==
    /\ pc = "next" /\ (list = <<>> \/ shutdown) /\ pc' = IF shutdown THEN "off" ELSE "idle"
    /\ list' = <<>> /\ UNCHANGED <<request, db, chain, outcome, shutdown, past>>

ShutdownSeen ==
    /\ pc = "idle" /\ shutdown /\ pc' = "off"
    /\ UNCHANGED <<request, db, chain, list, outcome, shutdown, past>>

Goto(where, result) == pc' = where /\ outcome' = result

\* The account or its key is missing: codes 0 and 1.
GetPrivateKey ==
    /\ pc = "next" /\ list # <<>> /\ ~shutdown
    /\ \/ Goto("update", "none") /\ UNCHANGED past
       \/ \E code \in {"no account", "no key"} : Goto("save", code) /\ Fault
    /\ UNCHANGED <<request, db, chain, list, shutdown>>

\* update() of the contract sends a transaction for every item the request sets, also
\* for those that an earlier pass has set; one that is reverted, refused or not
\* answered in time is code 2, and may be carried out all the same.
Unset == ItemsOf[Head(list)] \ set[Head(list)]

UpdateItem ==
    /\ pc = "update"
    /\ \E i \in Unset : set' = [set EXCEPT ![Head(list)] = @ \cup {i}]
    /\ UNCHANGED <<request, db, listed, batch, past>>

\* Mutant: the token is registered before its items are set.
Updated_RegisterFirst ==
    /\ pc = "update" /\ Head(list) \notin listed /\ listed' = listed \cup {Head(list)}
    /\ Goto("register", "none")
    /\ UNCHANGED <<request, db, set, list, shutdown, past>>

Updated ==
    /\ pc = "update" /\ Unset = {} /\ Goto("register", "none")
    /\ UNCHANGED <<request, db, chain, list, shutdown, past>>

UpdateFails ==
    /\ pc = "update" /\ Goto("save", "not sent") /\ Fault
    /\ \/ UNCHANGED set
       \/ \E i \in Unset : set' = [set EXCEPT ![Head(list)] = @ \cup {i}]
    /\ UNCHANGED <<request, db, listed, list, shutdown>>

RegisterInBatch ==
    /\ pc = "register" /\ Register(Head(list)) /\ Goto("save", "registered")
    /\ UNCHANGED <<request, db, set, list, shutdown, past>>

AlreadyRegistered ==
    /\ pc = "register" /\ Head(list) \in listed /\ Goto("save", "not sent")
    /\ UNCHANGED <<request, db, chain, list, shutdown, past>>

RegisterFails ==
    /\ pc = "register" /\ Head(list) \notin listed /\ Goto("save", "not sent")
    /\ \/ Fault /\ UNCHANGED listed
       \/ FaultAt(Head(list)) /\ listed' = listed \cup {Head(list)}
    /\ UNCHANGED <<request, db, set, list, shutdown>>

Settled(t, s) ==
    updates' = [i \in DOMAIN updates |->
                  IF updates[i].token = t THEN [updates[i] EXCEPT !.status = s] ELSE updates[i]]

\* The status of update_token and of token, and a notification, in one commit.
SaveFailed ==
    /\ pc = "save" /\ outcome # "registered"
    /\ Settled(Head(list), 2) /\ status' = [status EXCEPT ![Head(list)] = 2]
    /\ notes' = Append(notes, [token |-> Head(list), code |-> outcome])
    /\ Goto("next", "none") /\ list' = Tail(list)
    /\ UNCHANGED <<request, tokens, positions, utxos, wst, chain, shutdown, past>>

\* The same with the position and the UTXO of the issuer.
SaveSucceeded ==
    /\ pc = "save" /\ outcome = "registered"
    /\ Settled(Head(list), 1) /\ status' = [status EXCEPT ![Head(list)] = 1] /\ Holds(Head(list))
    /\ Goto("next", "none") /\ list' = Tail(list)
    /\ UNCHANGED <<request, tokens, wst, notes, chain, shutdown, past>>

\* The block of the deployment cannot be read, a statement or the commit fails: the
\* pass ends with an error and writes nothing.
PassFails ==
    /\ pc # "idle" /\ pc # "off"
    /\ IF list # <<>> /\ Head(list) \in listed THEN FaultAt(Head(list)) ELSE Fault
    /\ Goto("idle", "none") /\ list' = <<>>
    /\ UNCHANGED <<request, db, chain, shutdown>>

Shutdown ==
    /\ ~shutdown /\ shutdown' = TRUE /\ Fault
    /\ UNCHANGED <<request, db, chain, pc, list, outcome>>

Crash ==
    /\ pc # "off" /\ Goto("off", "none") /\ list' = <<>> /\ shutdown' = TRUE
    /\ IF list # <<>> /\ Head(list) \in listed THEN FaultAt(Head(list)) ELSE Fault
    /\ UNCHANGED <<request, db, chain>>

Restart ==
    /\ pc = "off" /\ pc' = "idle" /\ shutdown' = FALSE
    /\ UNCHANGED <<request, db, chain, list, outcome, past>>

BatchStep ==
    \/ GetUpdateTokenList \/ PassEnds \/ ShutdownSeen \/ GetPrivateKey \/ UpdateItem \/ Updated
    \/ UpdateFails \/ RegisterInBatch \/ AlreadyRegistered \/ RegisterFails
    \/ SaveFailed \/ SaveSucceeded

Next ==
    \/ \E t \in Tokens :
          \/ IssueBondToken(t) \/ IssueShareToken(t) \/ RegisterAtOnce(t)
          \/ CommitPending(t) \/ CommitSucceeded(t) \/ RequestFails(t)
    \/ BatchStep \/ PassFails \/ Shutdown \/ Crash \/ Restart

Spec == Init /\ [][Next]_vars

-----------------------------------------------------------------------------
(* Queries.                                                                *)

\* A failed token is not found; a pending one is temporarily unavailable.
Retrieve(t, type) ==
    IF t \notin Range(tokens) \/ TypeOf[t] # type \/ status[t] = 2 THEN "not found"
    ELSE IF status[t] = 0 THEN "unavailable" ELSE "shown"
RetrieveBondToken(t) == Retrieve(t, "bond")
RetrieveShareToken(t) == Retrieve(t, "share")
Answer(t) == IF TypeOf[t] = "bond" THEN RetrieveBondToken(t) ELSE RetrieveShareToken(t)

\* The lists show every row, whatever its status.
ListAll(type) == {t \in Range(tokens) : TypeOf[t] = type}
ListAllBondTokens == ListAll("bond")
ListAllShareTokens == ListAll("share")
ListAllIssuedTokens == tokens

-----------------------------------------------------------------------------
(* Properties.                                                             *)

\* Every variable keeps its type.
TypeOK ==
    /\ request \in [Tokens -> {"none", "deployed", "listed", "issued", "error"}]
    /\ Range(tokens) = {t \in Tokens : request[t] = "issued"} /\ status \in [Tokens -> 0..2]
    /\ \A i \in DOMAIN updates : updates[i].status = status[updates[i].token]
    /\ wst = WithWST \cap Range(tokens) /\ set \in [Tokens -> SUBSET Items] /\ listed \subseteq Tokens
    /\ pc \in {"idle", "next", "update", "register", "save", "off"}
    /\ (pc \in {"update", "register", "save"} => list # <<>>) /\ (pc \in {"idle", "off"} => list = <<>>)
    /\ ListAllBondTokens \cup ListAllShareTokens = Range(ListAllIssuedTokens)

Count(seq, t) == Cardinality({i \in DOMAIN seq : seq[i] = t})
Told(t) == Cardinality({i \in DOMAIN notes : notes[i].token = t})

\* A token that is shown has the items its request set, is in TokenList, and its issuer
\* has one initial position and one UTXO; any other token has neither. A failed token
\* has one notification, and no other token has one.
IssueIsTrue ==
    \A t \in Tokens :
       /\ Answer(t) = "shown" => ItemsOf[t] \subseteq set[t] /\ t \in listed
       /\ Count(positions, t) = (IF Answer(t) = "shown" THEN 1 ELSE 0)
       /\ Count(utxos, t) = Count(positions, t)
       /\ Told(t) = (IF status[t] = 2 THEN 1 ELSE 0)

\* A token in TokenList is shown, or about to be, unless the answer to its registration
\* or the commit after it was lost: a request or a pass that fails for another reason
\* leaves nothing in the list.
ListedIsShown ==
    \A t \in listed \ past.lost :
       \/ Answer(t) = "shown" \/ request[t] = "listed"
       \/ (pc = "save" /\ Head(list) = t /\ outcome = "registered")

=============================================================================
