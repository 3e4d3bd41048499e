------------------------------- MODULE WSTTx -------------------------------
(***************************************************************************)
(* The Ethereum transactions of IbetWST: rows of eth_ibet_wst_tx that the   *)
(* API inserts, batch/processor_eth_wst_send_tx.py sends and                *)
(* batch/processor_eth_wst_monitor_txreceipt.py follows until their block   *)
(* is final, over a chain that may drop blocks that are not.                *)
(*                                                                         *)
(* Every row is sent by the master account, so that one sequence of nonces  *)
(* is enough: block k of the model is the block that holds the account's    *)
(* transaction with nonce k.  A hash is a position in txs, 0 is NULL.       *)
(***************************************************************************)
EXTENDS Integers, Sequences, FiniteSets

CONSTANTS
    Ops,        \* rows of eth_ibet_wst_tx
    NoOp,
    Kind,       \* [Ops -> {"deploy", "add", "delete", "other"}]: tx_type
    Accounts,   \* accounts of the whitelist table
    Target,     \* [Ops -> Accounts]: account of an "add" or "delete"
    Listed,     \* accounts whitelisted, and in the table, at the start
    Orphans,    \* rows whose tx_sender is no longer an account of the server
    MaxTx,      \* bound on transactions sent
    MaxStale,   \* bound on nonces that are lower than the next one
    MaxLost,    \* bound on sends that are not committed
    MaxReorg    \* bound on reorganisations

ASSUME WSTAssumption ==
    /\ NoOp \notin Ops
    /\ Kind \in [Ops -> {"deploy", "add", "delete", "other"}]
    /\ Target \in [Ops -> Accounts]
    /\ Listed \subseteq Accounts
    /\ Orphans \subseteq Ops
    /\ MaxTx \in Nat /\ MaxStale \in Nat /\ MaxLost \in Nat /\ MaxReorg \in Nat

VARIABLES
    row,        \* status, tx (tx_hash, which determines tx_nonce), finalized
    whitelist,  \* idx_eth_ibet_wst_whitelist
    token,      \* transaction that created token.ibet_wst_address, or 0
    flight,     \* row whose transaction is sent and not committed, or NoOp
    pc,         \* where the monitor is
    bound,      \* finalized_block_number of its pass
    todo,       \* the rest of its wst_tx_list
    txs,        \* transactions accepted by a node
    chain,      \* transactions mined, by nonce, and whether they succeeded
    final,      \* blocks that are final
    faults      \* stale nonces, lost sends and reorganisations so far

db == <<row, whitelist, token>>
monitor == <<pc, bound, todo>>
eth == <<txs, chain, final>>
vars == <<db, flight, monitor, eth, faults>>

NoRow == [status |-> "absent", tx |-> 0, finalized |-> FALSE]

Init ==
    /\ row = [o \in Ops |-> NoRow]
    /\ whitelist = Listed
    /\ token = 0
    /\ flight = NoOp
    /\ pc = "idle" /\ bound = 0 /\ todo = {}
    /\ txs = <<>> /\ chain = <<>> /\ final = 0
    /\ faults = [stale |-> 0, lost |-> 0, reorg |-> 0]

\* The API inserts the row; for a deployment together with the token.
Insert(o) ==
    /\ row[o].status = "absent"
    /\ row' = [row EXCEPT ![o].status = "PENDING"]
    /\ UNCHANGED <<whitelist, token, flight, monitor, eth, faults>>

-----------------------------------------------------------------------------
(* ProcessorEthWSTSendTx.run: one row at a time.  A row whose transaction   *)
(* cannot be built or is refused stays as it is.                            *)

\* The transaction sender has no account.
Refuse(o) ==
    /\ flight = NoOp
    /\ row[o].status = "PENDING" /\ o \in Orphans
    /\ row' = [row EXCEPT ![o].status = "FAILED"]
    /\ UNCHANGED <<whitelist, token, flight, monitor, eth, faults>>

Nonces == {txs[t].nonce : t \in DOMAIN txs}

\* The pending count of a node that knows every transaction.
IsNext(n) == n \in Nat \ (Nonces \cup {0}) /\ 1..(n - 1) \subseteq Nonces

\* send_transaction: a node that was reached by fail-over, restarted or has
\* dropped transactions answers with a lower count, but none is final.
SendTx(o) ==
    /\ flight = NoOp
    /\ row[o].status = "PENDING" /\ o \notin Orphans
    /\ Len(txs) < MaxTx
    /\ \E n \in (final + 1)..(Len(txs) + 1) :
          /\ \/ IsNext(n) /\ UNCHANGED faults
             \/ /\ n \in Nonces /\ faults.stale < MaxStale
                /\ faults' = [faults EXCEPT !.stale = @ + 1]
          /\ txs' = Append(txs, [op |-> o, nonce |-> n])
    /\ flight' = o
    /\ UNCHANGED <<db, monitor, chain, final>>

\* Mutant: the hash is not saved.
RecordSent_NoHash ==
    /\ flight # NoOp
    /\ row' = [row EXCEPT ![flight].status = "SENT"]
    /\ flight' = NoOp
    /\ UNCHANGED <<whitelist, token, monitor, eth, faults>>

RecordSent ==
    /\ flight # NoOp
    /\ row' = [row EXCEPT ![flight] =
                  [status |-> "SENT", tx |-> Len(txs), finalized |-> FALSE]]
    /\ flight' = NoOp
    /\ UNCHANGED <<whitelist, token, monitor, eth, faults>>

\* The process ends, or the commit fails and the loop continues: the row is
\* still PENDING without a hash.
LoseSent ==
    /\ flight # NoOp
    /\ faults.lost < MaxLost
    /\ faults' = [faults EXCEPT !.lost = @ + 1]
    /\ flight' = NoOp
    /\ UNCHANGED <<db, monitor, eth>>

-----------------------------------------------------------------------------
(* Ethereum.                                                               *)

IsMined(t) == txs[t].nonce \in DOMAIN chain /\ chain[txs[t].nonce].tx = t
Succeeded(t) == IsMined(t) /\ chain[txs[t].nonce].ok
IsFinal(t) == IsMined(t) /\ txs[t].nonce <= final

Executed(o) == \E t \in DOMAIN txs : txs[t].op = o /\ Succeeded(t)

\* Any transaction with the next nonce; an authorization is good for one
\* success, a deployment needs none.
Mine ==
    \E t \in DOMAIN txs, ok \in BOOLEAN :
        /\ txs[t].nonce = Len(chain) + 1
        /\ ok => Kind[txs[t].op] = "deploy" \/ ~Executed(txs[t].op)
        /\ chain' = Append(chain, [tx |-> t, ok |-> ok])
        /\ UNCHANGED <<db, flight, monitor, txs, final, faults>>

Reorg ==
    /\ faults.reorg < MaxReorg
    /\ faults' = [faults EXCEPT !.reorg = @ + 1]
    /\ \E n \in final..(Len(chain) - 1) : chain' = SubSeq(chain, 1, n)
    /\ UNCHANGED <<db, flight, monitor, txs, final>>

Finalize ==
    /\ final < Len(chain)
    /\ final' = final + 1
    /\ UNCHANGED <<db, flight, monitor, txs, chain, faults>>

-----------------------------------------------------------------------------
(* ProcessorEthWSTMonitorTxReceipt.run                                     *)

\* Mutant: the number of the latest block is taken for the finalized one.
StartPass_Latest ==
    /\ pc = "idle"
    /\ bound' = Len(chain)
    /\ pc' = "select"
    /\ UNCHANGED <<db, flight, todo, eth, faults>>

StartPass ==
    /\ pc = "idle"
    /\ bound' = final
    /\ pc' = "select"
    /\ UNCHANGED <<db, flight, todo, eth, faults>>

\* Mutant: the status SUCCEEDED is not selected.
SelectRows_SentOnly ==
    /\ pc = "select"
    /\ todo' = {o \in Ops : /\ row[o].status \in {"SENT", "FAILED"}
                            /\ row[o].tx # 0 /\ ~row[o].finalized}
    /\ pc' = "rows"
    /\ UNCHANGED <<db, flight, bound, eth, faults>>

SelectRows ==
    /\ pc = "select"
    /\ todo' = {o \in Ops : /\ row[o].status \in {"SENT", "SUCCEEDED", "FAILED"}
                            /\ row[o].tx # 0 /\ ~row[o].finalized}
    /\ pc' = "rows"
    /\ UNCHANGED <<db, flight, bound, eth, faults>>

\* Mutant: only reflect_unfinalized_tx writes the table.
NewWhitelist_Unfinalized(o, ok, isFinal) ==
    CASE ok /\ ~isFinal /\ Kind[o] = "add" -> whitelist \cup {Target[o]}
      [] ok /\ ~isFinal /\ Kind[o] = "delete" -> whitelist \ {Target[o]}
      [] OTHER -> whitelist

\* AccountWhiteListAdded and AccountWhiteListDeleted, final or not.
NewWhitelist(o, ok, isFinal) ==
    CASE ok /\ Kind[o] = "add" -> whitelist \cup {Target[o]}
      [] ok /\ Kind[o] = "delete" -> whitelist \ {Target[o]}
      [] OTHER -> whitelist

\* Mutant: the address is set as soon as the deployment has succeeded.
NewToken_Unfinalized(o, ok, isFinal) ==
    IF ok /\ Kind[o] = "deploy" THEN row[o].tx ELSE token

NewToken(o, ok, isFinal) ==
    IF ok /\ isFinal /\ Kind[o] = "deploy" THEN row[o].tx ELSE token

\* Mutant: duplicates are looked for before the transaction is final.
Duplicates_Unfinalized(o, ok, isFinal) ==
    {p \in Ops \ {o} : /\ ok
                       /\ row[p].status = "SENT" /\ ~row[p].finalized
                       /\ txs[row[p].tx].nonce = txs[row[o].tx].nonce}

\* Mutant: duplicates are looked for by sender only.
Duplicates_AnyNonce(o, ok, isFinal) ==
    {p \in Ops \ {o} : /\ ok /\ isFinal
                       /\ row[p].status = "SENT" /\ ~row[p].finalized}

\* duplicate_tx_list of finalize_tx: only those that are SENT.
Duplicates(o, ok, isFinal) ==
    {p \in Ops \ {o} : /\ ok /\ isFinal
                       /\ row[p].status = "SENT" /\ ~row[p].finalized
                       /\ txs[row[p].tx].nonce = txs[row[o].tx].nonce}

\* The row's receipt is found: status, finalized flag, and what follows from
\* them, in one commit.  The list has no order.
MonitorRow(o) ==
    /\ pc = "rows" /\ o \in todo
    /\ IsMined(row[o].tx)
    /\ LET ok == Succeeded(row[o].tx)
           isFinal == txs[row[o].tx].nonce <= bound
       IN  /\ row' = [p \in Ops |->
                  CASE p = o ->
                         [status |-> IF ok THEN "SUCCEEDED" ELSE "FAILED",
                          tx |-> row[o].tx, finalized |-> isFinal]
                    [] p \in Duplicates(o, ok, isFinal) ->
                         [status |-> "FAILED", tx |-> row[p].tx, finalized |-> TRUE]
                    [] OTHER -> row[p]]
           /\ whitelist' = NewWhitelist(o, ok, isFinal)
           /\ token' = NewToken(o, ok, isFinal)
    /\ todo' = todo \ {o}
    /\ UNCHANGED <<flight, pc, bound, eth, faults>>

\* No receipt for the rows that are left, an error in one of them, or a
\* restart of the process.
EndPass ==
    /\ pc = "rows"
    /\ todo' = {}
    /\ pc' = "idle"
    /\ UNCHANGED <<db, flight, bound, eth, faults>>

-----------------------------------------------------------------------------
Next == \/ \E o \in Ops : Insert(o) \/ Refuse(o) \/ SendTx(o) \/ MonitorRow(o)
        \/ RecordSent \/ LoseSent
        \/ Mine \/ Reorg \/ Finalize
        \/ StartPass \/ SelectRows \/ EndPass

Spec == Init /\ [][Next]_vars

-----------------------------------------------------------------------------
(* Properties.                                                             *)

Statuses == {"absent", "PENDING", "SENT", "SUCCEEDED", "FAILED"}
Rows == [status : Statuses, tx : 0..Len(txs), finalized : BOOLEAN]

\* Every variable keeps its type; a row that was sent has its hash.
TypeOK ==
    /\ row \in [Ops -> Rows]
    /\ \A o \in Ops : row[o].status \in {"SENT", "SUCCEEDED"} => row[o].tx # 0
    /\ whitelist \subseteq Accounts
    /\ token \in 0..Len(txs)
    /\ flight \in Ops \cup {NoOp}
    /\ pc \in {"idle", "select", "rows"}
    /\ todo \subseteq Ops
    /\ txs \in Seq([op : Ops, nonce : Nat \ {0}])
    /\ chain \in Seq([tx : DOMAIN txs, ok : BOOLEAN])
    /\ final \in 0..Len(chain)
    /\ bound \in Nat
    /\ faults \in [stale : Nat, lost : Nat, reorg : Nat]

Sends(o) == {t \in DOMAIN txs : txs[t].op = o}
Taken(t) == txs[t].nonce <= final /\ ~IsMined(t)

\* A row that is finalized says what the final part of the chain says, which
\* no reorganisation can change: SUCCEEDED when its transaction succeeded there,
\* FAILED when it was reverted there or can never be mined.
FinalizedIsFinal ==
    \A o \in Ops : row[o].finalized =>
        LET t == row[o].tx
        IN  \/ row[o].status = "SUCCEEDED" /\ IsFinal(t) /\ Succeeded(t)
            \/ /\ row[o].status = "FAILED"
               /\ Taken(t) \/ (IsFinal(t) /\ ~Succeeded(t))

\* The verdict on a row is given once: a later receipt, another row with the
\* nonce or a pass over an old list never changes it.
FinalizedForGood ==
    [][\A o \in Ops : row[o].finalized => row'[o] = row[o]]_vars

\* A row is not given up while its operation is, or may still be, executed,
\* unless it was sent more than once.
FailedNeverExecuted ==
    \A o \in Ops :
        row[o].finalized /\ row[o].status = "FAILED" /\ Cardinality(Sends(o)) = 1
            => ~Executed(o) /\ \A t \in Sends(o) : txs[t].nonce <= final

\* The address of the WST of a token is that of a contract that exists on the
\* final chain, although the deployment may have been sent twice or dropped by
\* a reorganisation after its first receipt.
DeployedIsFinal ==
    token # 0 => IsFinal(token) /\ Succeeded(token) /\ Kind[txs[token].op] = "deploy"

\* Once a change of the whitelist is final the table shows it, unless another
\* change of the same account has been sent.
WhitelistShows ==
    \A o \in Ops :
        (/\ row[o].finalized /\ row[o].status = "SUCCEEDED"
         /\ \A p \in Ops \ {o} : Target[p] = Target[o] => Sends(p) = {})
            => /\ Kind[o] = "add" => Target[o] \in whitelist
               /\ Kind[o] = "delete" => Target[o] \notin whitelist

\* A row that is finalized, or whose nonce another transaction has taken for good.
Ended(o) == row[o].finalized \/ (row[o].tx # 0 /\ Taken(row[o].tx))
=============================================================================
