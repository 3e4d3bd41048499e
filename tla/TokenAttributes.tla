----------------------------- MODULE TokenAttributes -----------------------------
(***************************************************************************)
(* The attributes of one token: get() with the cache and update() with one   *)
(* transaction per attribute (app/model/ibet/token.py), their callers in the *)
(* API (app/routers/issuer/bond.py, share.py), and the cache indexer         *)
(* (batch/indexer_token_cache.py).                                           *)
(***************************************************************************)
EXTENDS Integers, Sequences, FiniteSets, Functions

CONSTANTS
    TokenType,      \* "bond" or "share"
    Version,        \* version of the token: 2206, 2312, 2406, 2409, 2509
    Readers,        \* processes that read the token: queries, the indexer
    Updaters,       \* updates: by the API, by a scheduled event, after the issue
    Request,        \* attributes an update sets
    Initial,        \* value of an attribute before any update
    UseCache,       \* TOKEN_CACHE
    MaxFaults       \* bound on failures

-----------------------------------------------------------------------------
(* The order in which update() sends its transactions.                     *)

BondTerms == <<"face_value", "face_value_currency", "purpose", "interest_rate",
               "interest_payment_date">>
BondRedemption == <<"interest_payment_currency", "redemption_value",
                    "redemption_value_currency", "redemption_date", "base_fx_rate">>
BondFlags == <<"transferable", "status", "is_offering", "is_redeemed",
               "tradable_exchange_contract_address">>
BondContracts == <<"personal_info_contract_address", "require_personal_info_registered",
                   "contact_information", "privacy_policy", "transfer_approval_required", "memo">>
ShareContracts == <<"tradable_exchange_contract_address", "personal_info_contract_address",
                    "require_personal_info_registered", "dividends", "cancellation_date">>
ShareFlags == <<"contact_information", "privacy_policy", "status", "transferable", "is_offering">>
ShareTerms == <<"transfer_approval_required", "principal_value", "is_canceled", "memo">>

Order == IF TokenType = "bond" THEN BondTerms \o BondRedemption \o BondFlags \o BondContracts
         ELSE ShareContracts \o ShareFlags \o ShareTerms

\* Version of the token contract that came with an attribute.
Since(a) ==
    CASE a = "require_personal_info_registered" -> 2406
      [] TokenType = "bond" /\ a \in {"face_value_currency", "interest_payment_currency",
                                      "redemption_value_currency", "base_fx_rate"} -> 2312
      [] TokenType = "bond" /\ a \in {"redemption_date", "purpose"} -> 2409
      [] OTHER -> 0

TokenAttributesAssumption ==
    /\ TokenType \in {"bond", "share"} /\ Version \in Nat /\ UseCache \in BOOLEAN
    /\ Readers \cap Updaters = {} /\ Initial \notin Updaters /\ MaxFaults \in Nat
    /\ Request \in [Updaters -> SUBSET Range(Order)]

Attributes == UNION {Request[x] : x \in Updaters}
Processes == Readers \cup Updaters

VARIABLES
    chain,      \* attributes of the contract: the update that set them
    mempool,    \* transactions nobody waits for any more
    cache,      \* row of token_cache: none, or one with its attributes
    log,        \* token_update_operation_log
    pc,         \* "idle", "read", "stamp", "send", "record", "log", and how it ended
    got,        \* attributes a process has read
    fill,       \* what a process is about to write to the cache
    left,       \* attributes an update has still to send
    past        \* faults, changes since the last record, updates of the same time

ended == {"done", "error", "lost", "refused"}
local == <<got, fill, left>>
vars == <<chain, mempool, cache, log, pc, local, past>>

NoFill == [insert |-> FALSE, outdated |-> FALSE, raced |-> FALSE]

Init ==
    /\ chain = [a \in Attributes |-> Initial] /\ mempool = {} /\ cache = <<>> /\ log = <<>>
    /\ pc = [p \in Processes |-> "idle"]
    /\ got = [p \in Processes |-> <<>>] /\ fill = [p \in Processes |-> NoFill]
    /\ left = [x \in Updaters |-> {}]
    /\ past = [faults |-> 0, dirty |-> {}, overlapped |-> {}]

Goto(p, where) == pc' = [pc EXCEPT ![p] = where]
Fault == past.faults < MaxFaults /\ past' = [past EXCEPT !.faults = @ + 1]

-----------------------------------------------------------------------------
(* get().                                                                  *)

\* Mutant: an entry counts until it expires.
Usable_IgnoreUpdates(row) == UseCache /\ ~row.expired

\* Not expired, and no update is recorded after it was made.
Usable(row) == UseCache /\ ~row.outdated /\ ~row.expired
Valid == cache # <<>> /\ Usable(cache[1])

\* An update begins with get(); one that needs a later version is refused.
Supported(x) == \A a \in Request[x] : Version >= Since(a)
AfterGet(p) ==
    /\ Goto(p, IF p \in Readers THEN "idle" ELSE "send")
    /\ left' = IF p \in Readers THEN left ELSE [left EXCEPT ![p] = Request[p]]
    /\ past' = IF p \in Readers THEN past
               ELSE LET others == {y \in Updaters : pc[y] \in {"send", "record", "log"}}
                    IN  [past EXCEPT !.overlapped =
                            @ \cup others \cup IF others = {} THEN {} ELSE {p}]

GetFromCache(p) ==
    /\ pc[p] = "idle" /\ Valid /\ (p \in Updaters => Supported(p))
    /\ AfterGet(p)
    /\ UNCHANGED <<chain, mempool, cache, log, got, fill>>

Refuse(x) ==
    /\ pc[x] = "idle" /\ ~Supported(x) /\ Goto(x, "refused")
    /\ UNCHANGED <<chain, mempool, cache, log, local, past>>

StartRead(p) ==
    /\ pc[p] = "idle" /\ ~Valid /\ (p \in Updaters => Supported(p))
    /\ Goto(p, "read") /\ got' = [got EXCEPT ![p] = <<>>] /\ fill' = [fill EXCEPT ![p] = NoFill]
    /\ UNCHANGED <<chain, mempool, cache, log, left, past>>

\* The calls run three at a time, in no order.
ReadAttribute(p, a) ==
    /\ pc[p] = "read" /\ a \in Attributes \ DOMAIN got[p]
    /\ got' = [got EXCEPT ![p] = [b \in DOMAIN @ \cup {a} |-> IF b = a THEN chain[a] ELSE @[b]]]
    /\ UNCHANGED <<chain, mempool, cache, log, pc, fill, left, past>>

\* One of the calls fails: ServiceUnavailableError.
ReadFails(p) ==
    /\ pc[p] = "read" /\ Fault /\ Goto(p, IF p \in Readers THEN "idle" ELSE "error")
    /\ got' = [got EXCEPT ![p] = <<>>] /\ fill' = [fill EXCEPT ![p] = NoFill]
    /\ UNCHANGED <<chain, mempool, cache, log, left>>

\* create_cache: the entry with its date, merged into the table as it is now.
CreateCache(p) ==
    /\ pc[p] = "read" /\ DOMAIN got[p] = Attributes /\ UseCache
    /\ Goto(p, "stamp") /\ fill' = [fill EXCEPT ![p].insert = cache = <<>>]
    /\ UNCHANGED <<chain, mempool, cache, log, got, left, past>>

\* The commit; it is rolled back when the row appeared or disappeared meanwhile.
CommitCache(p) ==
    /\ \/ pc[p] = "stamp"
          /\ cache' = IF fill[p].insert = (cache = <<>>)
                      THEN <<[attrs |-> got[p], outdated |-> fill[p].outdated,
                              raced |-> fill[p].raced, expired |-> FALSE]>>
                      ELSE cache
       \/ pc[p] = "read" /\ DOMAIN got[p] = Attributes /\ ~UseCache /\ UNCHANGED cache
    /\ AfterGet(p) /\ got' = [got EXCEPT ![p] = <<>>] /\ fill' = [fill EXCEPT ![p] = NoFill]
    /\ UNCHANGED <<chain, mempool, log>>

Expire ==
    /\ cache # <<>> /\ ~cache[1].expired /\ cache' = <<[cache[1] EXCEPT !.expired = TRUE]>>
    /\ UNCHANGED <<chain, mempool, log, pc, local, past>>

-----------------------------------------------------------------------------
(* update().                                                               *)

Before(a) == {Order[i] : i \in {k \in DOMAIN Order : \A j \in 1..k : Order[j] # a}}

Mined(x, a) == chain' = [chain EXCEPT ![a] = x]

\* The next transaction: mined; refused or reverted; or given up while it is pending.
SendAttribute(x, a) ==
    /\ pc[x] = "send" /\ a \in left[x] /\ Before(a) \cap left[x] = {}
    /\ \/ Mined(x, a) /\ left' = [left EXCEPT ![x] = @ \ {a}]
          /\ past' = [past EXCEPT !.dirty = @ \cup {a}] /\ UNCHANGED <<mempool, pc>>
       \/ Fault /\ Goto(x, "error") /\ UNCHANGED <<chain, mempool, left>>
       \/ Fault /\ Goto(x, "error") /\ mempool' = mempool \cup {<<x, a>>} /\ UNCHANGED <<chain, left>>
    /\ UNCHANGED <<cache, log, got, fill>>

MineLate(x, a) ==
    /\ <<x, a>> \in mempool /\ mempool' = mempool \ {<<x, a>>}
    /\ Mined(x, a) /\ past' = [past EXCEPT !.dirty = @ \cup {a}]
    /\ UNCHANGED <<cache, log, pc, local>>

\* The record dates every entry back that is not committed yet, the entry that is
\* there is deleted; an error of the database is only logged.
RecordAttrUpdate(x) ==
    /\ pc[x] = "send" /\ left[x] = {} /\ Goto(x, "log")
    /\ \/ cache' = <<>> /\ past' = [past EXCEPT !.dirty = {}]
          /\ fill' = [p \in Processes |->
                         CASE pc[p] = "stamp" -> [fill[p] EXCEPT !.outdated = TRUE]
                           [] pc[p] = "read" -> [fill[p] EXCEPT !.raced = TRUE]
                           [] OTHER -> fill[p]]
       \/ Fault /\ UNCHANGED <<cache, fill>>
    /\ UNCHANGED <<chain, mempool, log, got, left>>

\* The operation log, and the answer of the API.
RecordOperation(x) ==
    /\ pc[x] = "log" /\ Goto(x, "done") /\ log' = Append(log, x)
    /\ UNCHANGED <<chain, mempool, cache, local, past>>

\* The process of an update ends, or its commit is refused.
Crash(x) ==
    /\ pc[x] \in {"read", "stamp", "send", "log"} /\ Fault /\ Goto(x, "lost")
    /\ got' = [got EXCEPT ![x] = <<>>] /\ fill' = [fill EXCEPT ![x] = NoFill]
    /\ UNCHANGED <<chain, mempool, cache, log, left>>

GetStep(p) ==
    GetFromCache(p) \/ StartRead(p) \/ (\E a \in Attributes : ReadAttribute(p, a))
    \/ CreateCache(p) \/ CommitCache(p)
UpdateStep(x) ==
    Refuse(x) \/ (\E a \in Attributes : SendAttribute(x, a)) \/ RecordAttrUpdate(x) \/ RecordOperation(x)

\* The two classes and the two endpoints differ in their attributes.
GetBond(p) == TokenType = "bond" /\ GetStep(p)
GetShare(p) == TokenType = "share" /\ GetStep(p)
UpdateBondToken(x) == TokenType = "bond" /\ UpdateStep(x)
UpdateShareToken(x) == TokenType = "share" /\ UpdateStep(x)

Next ==
    \/ \E p \in Processes : GetBond(p) \/ GetShare(p) \/ ReadFails(p)
    \/ \E x \in Updaters : \/ UpdateBondToken(x) \/ UpdateShareToken(x) \/ Crash(x)
                           \/ \E a \in Attributes : MineLate(x, a)
    \/ Expire

Spec == Init /\ [][Next]_vars

-----------------------------------------------------------------------------
(* Queries.                                                                *)

\* What a query would show: the entry of the cache, if it is valid, or the chain.
Shown == IF Valid THEN cache[1].attrs ELSE chain

\* The operation log of a token, and the value its newest entry gives an attribute.
ListBondOperationLogHistory == IF TokenType = "bond" THEN log ELSE <<>>
ListShareOperationLogHistory == IF TokenType = "share" THEN log ELSE <<>>
OperationLog == ListBondOperationLogHistory \o ListShareOperationLogHistory
Replayed(a) ==
    LET setters == {i \in DOMAIN OperationLog : a \in Request[OperationLog[i]]}
    IN  IF setters = {} THEN Initial
        ELSE OperationLog[CHOOSE i \in setters : \A j \in setters : j <= i]

-----------------------------------------------------------------------------
(* Properties.                                                             *)

\* Every variable keeps its type.
TypeOK ==
    /\ chain \in [Attributes -> Updaters \cup {Initial}]
    /\ mempool \subseteq Updaters \X Attributes /\ Len(cache) <= 1
    /\ cache # <<>> => cache[1].attrs \in [Attributes -> Updaters \cup {Initial}]
    /\ IsInjective(log) /\ Range(log) \subseteq Updaters
    /\ \A p \in Processes : /\ pc[p] \in {"idle", "read", "stamp", "send", "log"} \cup ended
                            /\ DOMAIN got[p] \subseteq Attributes
                            /\ (pc[p] \notin {"read", "stamp"} => got[p] = <<>> /\ fill[p] = NoFill)
    /\ left \in [Updaters -> SUBSET Attributes] /\ past.faults \in 0..MaxFaults

\* A query shows an old value of an attribute only if the attribute was changed
\* after the last recorded update (one is on its way, failed half way, was given up
\* or could not be recorded), or the entry was read while an update was recorded.
ShownIsCurrent ==
    (Valid => ~cache[1].raced) => \A a \in Attributes : Shown[a] # chain[a] => a \in past.dirty

\* Only updates that were carried out in full are in the operation log, and if
\* none failed and no two were under way together, it tells the attributes.
HistoryIsTrue ==
    /\ \A x \in Range(OperationLog) : pc[x] = "done" /\ left[x] = {}
    /\ (\A x \in Updaters : pc[x] \in {"idle", "done", "refused"}) =>
          \A a \in Attributes : chain[a] # Replayed(a) =>
             {x \in Updaters : a \in Request[x]} \cap past.overlapped # {}

\* No update comes any more, in full, half way or late.
Quiet == mempool = {} /\ \A x \in Updaters : pc[x] \in ended
=============================================================================
