------------------------------ MODULE DVPAsyncTx ------------------------------
(***************************************************************************)
(* Asynchronous DVP (delivery versus payment) processing.                  *)
(*                                                                         *)
(*   - the issuer API deposits tokens in the DVP contract and inserts a    *)
(*     DVPAsyncProcess row             (app/routers/issuer/settlement_     *)
(*     issuer.py);                                                         *)
(*   - batch/processor_dvp_async_tx.py sends the step transaction of every *)
(*     row without waiting, polls its receipt, and sends the compensating  *)
(*     (revert) transaction of a createDelivery that was reverted;         *)
(*   - batch/indexer_dvp_delivery.py turns the Canceled / Finished /       *)
(*     Aborted events of the contract into new rows, whose step 1 is a     *)
(*     withdrawPartial;                                                    *)
(*   - the DVP contract and the chain are external.                        *)
(*                                                                         *)
(* One token on one DVP contract.  A transaction hash is the position of   *)
(* the transaction in txs; 0 stands for the step-0 transaction, which is   *)
(* always complete when the row is inserted, and for NULL.                 *)
(***************************************************************************)
EXTENDS Integers, Sequences, FiniteSetsExt

CONSTANTS
    Requests,       \* createDelivery requests made through the API
    Amount,         \* [Requests -> Nat \ {0}], amount of each request
    Rejected,       \* requests whose createDelivery the contract refuses
    Seller, Buyer,  \* issuer account and counterparty of the deliveries
    Managed,        \* the accounts registered (and not deleted) in ibet-Prime
    MaxTx,          \* bound on the transactions the processor sends
    MaxApiCrash,    \* bound on API calls that die between deposit and commit
    MaxSendCrash,   \* bound on processor deaths between a send and its commit
    MaxAbandon,     \* bound on passes of the processor that are cut short
    MaxLost         \* bound on transactions that are accepted, never mined

Accounts == {Seller, Buyer}

ASSUME DVPAssumption ==
    /\ Amount \in [Requests -> Nat \ {0}]
    /\ Rejected \subseteq Requests
    /\ Seller # Buyer
    /\ Seller \in Managed
    /\ Managed \subseteq Accounts
    /\ MaxTx \in Nat /\ MaxApiCrash \in Nat
    /\ MaxSendCrash \in Nat /\ MaxAbandon \in Nat /\ MaxLost \in Nat

VARIABLES
    request,   \* state of each API call
    procs,     \* table dvp_async_process, rows in order of their id
    phase,     \* the loop of Processor.process that is running
    todo,      \* rows its SELECT returned that are not handled yet
    txs,       \* transactions sent without waiting, in the order sent
    balance,   \* deposit of each account in the DVP contract
    delivery,  \* deliveries of the DVP contract, in order of their id
    crashes    \* how often each bounded failure has happened

vars == <<request, procs, phase, todo, txs, balance, delivery, crashes>>

CloseType == [canceled |-> "CANCEL_DELIVERY", finished |-> "FINISH_DELIVERY",
              aborted |-> "ABORT_DELIVERY"]

\* Who withdraws once a delivery is closed: the buyer when it is finished.
Withdrawer(status) == IF status = "finished" THEN Buyer ELSE Seller

NewProcess(type, account, amount, ref) ==
    [process_type |-> type, issuer |-> account, amount |-> amount, ref |-> ref,
     process_status |-> "PROCESSING", step |-> 0,
     step_tx_hash |-> 0, step_tx_status |-> "DONE",
     revert_tx_hash |-> 0, revert_tx_status |-> "NONE"]

Init ==
    /\ request = [d \in Requests |-> "new"]
    /\ procs = << >>
    /\ phase = "idle"
    /\ todo = {}
    /\ txs = << >>
    /\ balance = [a \in Accounts |-> 0]
    /\ delivery = << >>
    /\ crashes = [api |-> 0, send |-> 0, abandon |-> 0, lost |-> 0]

-----------------------------------------------------------------------------
(* API: create_dvp_delivery.  The deposit is a waiting forced_transfer; the *)
(* row is inserted afterwards, in another transaction.                      *)

Deposit(d) ==
    /\ request[d] = "new"
    /\ request' = [request EXCEPT ![d] = "deposited"]
    /\ balance' = [balance EXCEPT ![Seller] = @ + Amount[d]]
    /\ UNCHANGED <<procs, phase, todo, txs, delivery, crashes>>

InsertProcess(d) ==
    /\ request[d] = "deposited"
    /\ request' = [request EXCEPT ![d] = "accepted"]
    /\ procs' = Append(procs, NewProcess("CREATE_DELIVERY", Seller, Amount[d], d))
    /\ UNCHANGED <<phase, todo, txs, balance, delivery, crashes>>

\* The server dies, its commit fails, or forced_transfer times out although
\* it is mined: the tokens are in the contract and no row says so.
ApiCrash(d) ==
    /\ request[d] = "deposited"
    /\ crashes.api < MaxApiCrash
    /\ request' = [request EXCEPT ![d] = "orphaned"]
    /\ crashes' = [crashes EXCEPT !.api = @ + 1]
    /\ UNCHANGED <<procs, phase, todo, txs, balance, delivery>>

-----------------------------------------------------------------------------
(* The chain.                                                              *)

\* send_transaction_no_wait takes the nonce from the mined count, so a node
\* refuses a second transaction of an account while one is pending.
CanSend(a) ==
    /\ Len(txs) < MaxTx
    /\ \A i \in DOMAIN txs : txs[i].from = a => txs[i].status # "pending"

Send(i, kind) ==
    txs' = Append(txs, [from |-> procs[i].issuer, kind |-> kind, proc |-> i,
                        amount |-> procs[i].amount, status |-> "pending"])

\* What the DVP contract does with a transaction.
Succeeds(tx) ==
    /\ balance[tx.from] >= tx.amount
    /\ tx.kind = "createDelivery" => procs[tx.proc].ref \notin Rejected

Mine(i) ==
    /\ txs[i].status = "pending"
    /\ txs' = [txs EXCEPT ![i].status =
                  IF Succeeds(txs[i]) THEN "success" ELSE "reverted"]
    /\ IF Succeeds(txs[i])
         THEN /\ balance' = [balance EXCEPT ![txs[i].from] = @ - txs[i].amount]
              /\ delivery' = IF txs[i].kind = "createDelivery"
                               THEN Append(delivery,
                                      [tx |-> i, amount |-> txs[i].amount,
                                       status |-> "created", indexed |-> FALSE])
                               ELSE delivery
         ELSE UNCHANGED <<balance, delivery>>
    /\ UNCHANGED <<request, procs, phase, todo, crashes>>

\* Accepted by a node that loses it (restart, fail-over to another node).
Lose(i) ==
    /\ txs[i].status = "pending"
    /\ crashes.lost < MaxLost
    /\ txs' = [txs EXCEPT ![i].status = "lost"]
    /\ crashes' = [crashes EXCEPT !.lost = @ + 1]
    /\ UNCHANGED <<request, procs, phase, todo, balance, delivery>>

\* cancel_delivery by the seller, confirm by the buyer, finish_delivery or
\* abort_delivery by the paying agent once the buyer has confirmed.
Confirm(k) ==
    /\ delivery[k].status = "created"
    /\ delivery' = [delivery EXCEPT ![k].status = "confirmed"]
    /\ UNCHANGED <<request, procs, phase, todo, txs, balance, crashes>>

Close(k, status) ==
    /\ delivery[k].status = IF status = "canceled" THEN "created" ELSE "confirmed"
    /\ delivery' = [delivery EXCEPT ![k].status = status]
    /\ balance' = [balance EXCEPT ![Withdrawer(status)] = @ + delivery[k].amount]
    /\ UNCHANGED <<request, procs, phase, todo, txs, crashes>>

-----------------------------------------------------------------------------
(* batch/indexer_dvp_delivery.py: one run of __sync_all, committed together *)
(* with the block number it has reached.                                    *)

\* __sink_on_delivery inserts a row only for an account it knows.
Unindexed ==
    {k \in DOMAIN delivery : /\ ~delivery[k].indexed
                             /\ delivery[k].status \in DOMAIN CloseType}

\* __sync_all reads the events type by type.
TypeRank == [canceled |-> 1, finished |-> 2, aborted |-> 3]

ClosedBefore(k, l) ==
    LET rk == TypeRank[delivery[k].status]
        rl == TypeRank[delivery[l].status]
    IN  rk < rl \/ (rk = rl /\ k < l)

InOrder(order) ==
    \A n, m \in DOMAIN order : n < m => ClosedBefore(order[n], order[m])

\* Mutant: the block number is not saved with the rows.
IndexDelivery_KeepsBlock ==
    /\ Unindexed # {}
    /\ LET mine == {k \in Unindexed : Withdrawer(delivery[k].status) \in Managed}
           row(k) == NewProcess(CloseType[delivery[k].status],
                                Withdrawer(delivery[k].status),
                                delivery[k].amount, k)
       IN  \E order \in [1..Cardinality(mine) -> mine] :
              /\ InOrder(order)
              /\ Len(procs) < MaxTx
              /\ procs' = procs \o [n \in DOMAIN order |-> row(order[n])]
    /\ UNCHANGED <<request, phase, todo, txs, balance, delivery, crashes>>

IndexDelivery ==
    /\ Unindexed # {}
    /\ delivery' = [k \in DOMAIN delivery |->
                      [delivery[k] EXCEPT !.indexed = @ \/ k \in Unindexed]]
    /\ LET mine == {k \in Unindexed : Withdrawer(delivery[k].status) \in Managed}
           row(k) == NewProcess(CloseType[delivery[k].status],
                                Withdrawer(delivery[k].status),
                                delivery[k].amount, k)
       IN  \E order \in [1..Cardinality(mine) -> mine] :
              /\ InOrder(order)
              /\ procs' = procs \o [n \in DOMAIN order |-> row(order[n])]
    /\ UNCHANGED <<request, phase, todo, txs, balance, crashes>>

-----------------------------------------------------------------------------
(* batch/processor_dvp_async_tx.py: process() runs three loops in turn,     *)
(* each over the rows its SELECT returned when it started.                  *)

\* Mutant: rows whose step transaction is pending are sent again.
SelectSend_AlsoPending ==
    {i \in DOMAIN procs : /\ procs[i].process_status = "PROCESSING"
                          /\ procs[i].step_tx_status \in {"DONE", "RETRY", "PENDING"}}

SelectSend ==
    {i \in DOMAIN procs : /\ procs[i].process_status = "PROCESSING"
                          /\ procs[i].step_tx_status \in {"DONE", "RETRY"}}

SelectSync ==
    {i \in DOMAIN procs : /\ procs[i].process_status = "PROCESSING"
                          /\ procs[i].step_tx_status = "PENDING"}

SelectRevert ==
    {i \in DOMAIN procs : /\ procs[i].process_status = "PROCESSING"
                          /\ procs[i].revert_tx_status = "PENDING"}

NextPhase ==
    /\ todo = {}
    /\ \/ phase = "idle"   /\ phase' = "send"   /\ todo' = SelectSend
       \/ phase = "send"   /\ phase' = "sync"   /\ todo' = SelectSync
       \/ phase = "sync"   /\ phase' = "revert" /\ todo' = SelectRevert
       \/ phase = "revert" /\ phase' = "idle"   /\ todo' = {}
    /\ UNCHANGED <<request, procs, txs, balance, delivery, crashes>>

Handle(p, i) == phase = p /\ i \in todo /\ todo' = todo \ {i} /\ UNCHANGED phase

\* The row is left as it is: no key, send refused, receipt not available.
SkipRow(i) ==
    /\ \E p \in {"send", "sync", "revert"} : Handle(p, i)
    /\ UNCHANGED <<request, procs, txs, balance, delivery, crashes>>

\* SIGTERM, a database error or a crash: the rest of the pass is abandoned.
Abandon ==
    /\ phase # "idle"
    /\ crashes.abandon < MaxAbandon
    /\ crashes' = [crashes EXCEPT !.abandon = @ + 1]
    /\ phase' = "idle"
    /\ todo' = {}
    /\ UNCHANGED <<request, procs, txs, balance, delivery>>

\* db_session.commit() of the row.
Commit(i, row) == procs' = [procs EXCEPT ![i] = row]

StepTx(i) == IF procs[i].process_type = "CREATE_DELIVERY"
               THEN "createDelivery" ELSE "withdrawPartial"

\* Mutant: the step is counted up instead of set.
SendStepTx_CountsUp(i) ==
    /\ Handle("send", i)
    /\ CanSend(procs[i].issuer)
    /\ Send(i, StepTx(i))
    /\ Commit(i, [procs[i] EXCEPT !.step = @ + 1,
                                  !.step_tx_hash = Len(txs) + 1,
                                  !.step_tx_status = "PENDING"])
    /\ UNCHANGED <<request, balance, delivery, crashes>>

SendStepTx(i) ==
    /\ Handle("send", i)
    /\ CanSend(procs[i].issuer)
    /\ Send(i, StepTx(i))
    /\ Commit(i, [procs[i] EXCEPT !.step = 1,
                                  !.step_tx_hash = Len(txs) + 1,
                                  !.step_tx_status = "PENDING"])
    /\ UNCHANGED <<request, balance, delivery, crashes>>

StepReceipt(i) == txs[procs[i].step_tx_hash].status

\* Mutant: a receipt is taken for a success.
SyncStepTxSuccess_AnyReceipt(i) ==
    /\ Handle("sync", i)
    /\ StepReceipt(i) \in {"success", "reverted"}
    /\ Commit(i, [procs[i] EXCEPT !.step_tx_status = "DONE",
                                  !.process_status = IF procs[i].step = 1 THEN "DONE_SUCCESS" ELSE @])
    /\ UNCHANGED <<request, txs, balance, delivery, crashes>>

SyncStepTxSuccess(i) ==
    /\ Handle("sync", i)
    /\ StepReceipt(i) = "success"
    /\ Commit(i, [procs[i] EXCEPT !.step_tx_status = "DONE",
                                  !.process_status = IF procs[i].step = 1 THEN "DONE_SUCCESS" ELSE @])
    /\ UNCHANGED <<request, txs, balance, delivery, crashes>>

\* A withdrawPartial that was reverted is simply tried again.
SyncStepTxRetry(i) ==
    /\ Handle("sync", i)
    /\ StepReceipt(i) = "reverted"
    /\ procs[i].process_type # "CREATE_DELIVERY"
    /\ Commit(i, [procs[i] EXCEPT !.step_tx_hash = 0,
                                  !.step_tx_status = "RETRY"])
    /\ UNCHANGED <<request, txs, balance, delivery, crashes>>

\* A createDelivery that was reverted is compensated by a withdrawPartial.
SyncStepTxRevert(i) ==
    /\ Handle("sync", i)
    /\ StepReceipt(i) = "reverted"
    /\ procs[i].process_type = "CREATE_DELIVERY"
    /\ CanSend(procs[i].issuer)
    /\ Send(i, "withdrawPartial")
    /\ Commit(i, [procs[i] EXCEPT !.step_tx_status = "FAILED",
                                  !.revert_tx_hash = Len(txs) + 1,
                                  !.revert_tx_status = "PENDING"])
    /\ UNCHANGED <<request, balance, delivery, crashes>>

\* The loop over the revert transactions waits for the receipt of the STEP
\* transaction, as the code does.
SyncRevertTx(i) ==
    /\ Handle("revert", i)
    /\ IF StepReceipt(i) = "reverted"
         THEN /\ CanSend(procs[i].issuer)
              /\ Send(i, "withdrawPartial")
              /\ Commit(i, [procs[i] EXCEPT !.revert_tx_hash = Len(txs) + 1,
                                            !.revert_tx_status = "PENDING"])
         ELSE /\ StepReceipt(i) = "success"
              /\ Commit(i, [procs[i] EXCEPT !.process_status = "DONE_FAILED",
                                            !.revert_tx_status = "DONE"])
              /\ UNCHANGED txs
    /\ UNCHANGED <<request, balance, delivery, crashes>>

\* Sent, but the process dies or the database fails before the commit.
SendCrash(i) ==
    /\ i \in todo
    /\ CanSend(procs[i].issuer)
    /\ crashes.send < MaxSendCrash
    /\ \/ phase = "send" /\ Send(i, StepTx(i))
       \/ /\ phase \in {"sync", "revert"}
          /\ procs[i].process_type = "CREATE_DELIVERY"
          /\ StepReceipt(i) = "reverted"
          /\ Send(i, "withdrawPartial")
    /\ crashes' = [crashes EXCEPT !.send = @ + 1]
    /\ phase' = "idle"
    /\ todo' = {}
    /\ UNCHANGED <<request, procs, balance, delivery>>

-----------------------------------------------------------------------------
Api == \E d \in Requests : Deposit(d) \/ InsertProcess(d) \/ ApiCrash(d)

Chain == \/ \E i \in DOMAIN txs : Mine(i) \/ Lose(i)
         \/ \E k \in DOMAIN delivery :
               \/ Confirm(k)
               \/ \E status \in DOMAIN CloseType : Close(k, status)

HandleRow(i) == \/ SendStepTx(i)
                \/ SyncStepTxSuccess(i) \/ SyncStepTxRetry(i)
                \/ SyncStepTxRevert(i)  \/ SyncRevertTx(i)

Processor == \/ NextPhase
             \/ \E i \in todo : HandleRow(i) \/ SkipRow(i)

Next == \/ Api \/ Chain \/ IndexDelivery \/ Processor \/ Abandon
        \/ \E i \in todo : SendCrash(i)

Spec == Init /\ [][Next]_vars

-----------------------------------------------------------------------------
(* Properties.                                                             *)

ProcessType == {"CREATE_DELIVERY", "CANCEL_DELIVERY", "FINISH_DELIVERY",
                "ABORT_DELIVERY"}

Row == [process_type : ProcessType, issuer : Accounts,
        amount : Nat \ {0}, ref : Requests \cup Nat,
        process_status : {"PROCESSING", "DONE_SUCCESS", "DONE_FAILED"},
        step : {0, 1}, step_tx_hash : Nat,
        step_tx_status : {"DONE", "RETRY", "PENDING", "FAILED"},
        revert_tx_hash : Nat,
        revert_tx_status : {"NONE", "PENDING", "DONE"}]

Tx == [from : Accounts, kind : {"createDelivery", "withdrawPartial"},
       proc : Nat, amount : Nat \ {0},
       status : {"pending", "success", "reverted", "lost"}]

Delivery == [tx : Nat, amount : Nat \ {0}, indexed : BOOLEAN,
             status : {"created", "confirmed"} \cup DOMAIN CloseType]

\* Every variable keeps its type: rows, transactions, deliveries, the
\* processor's loop and the balances of the contract.
TypeOK ==
    /\ request \in [Requests -> {"new", "deposited", "accepted", "orphaned"}]
    /\ procs \in Seq(Row)
    /\ phase \in {"idle", "send", "sync", "revert"}
    /\ todo \subseteq DOMAIN procs
    /\ txs \in Seq(Tx)
    /\ balance \in [Accounts -> Nat]
    /\ delivery \in Seq(Delivery)
    /\ crashes \in [api : Nat, send : Nat, abandon : Nat, lost : Nat]

\* A row that says DONE_SUCCESS names a transaction that the processor sent
\* for that very row, of the kind its type asks for, and that was executed.
SuccessMeansExecuted ==
    \A i \in DOMAIN procs :
        procs[i].process_status = "DONE_SUCCESS" =>
            LET h == procs[i].step_tx_hash
            IN  /\ h \in DOMAIN txs
                /\ txs[h].proc = i
                /\ txs[h].kind = StepTx(i)
                /\ txs[h].status = "success"

\* Two loops, restarts and lost transactions notwithstanding, the processor
\* forgets the hash of a step transaction only after that transaction was
\* reverted on the chain, and never touches a row that is done.
StepTxKeptUntilReverted ==
    [][\A i \in DOMAIN procs :
          LET h == procs[i].step_tx_hash
          IN  /\ h # 0 /\ procs'[i].step_tx_hash # h => txs[h].status = "reverted"
              /\ procs[i].process_status # "PROCESSING" => procs'[i] = procs[i]]_vars

Executed(i, kind) ==
    {h \in DOMAIN txs : /\ txs[h].proc = i /\ txs[h].kind = kind
                        /\ txs[h].status = "success"}

\* While no send is cut off from its commit, a row has its step executed at
\* most once, and a closed delivery is withdrawn through at most one row.
StepExecutedOnce ==
    crashes.send = 0 =>
        /\ \A i \in DOMAIN procs : Cardinality(Executed(i, StepTx(i))) <= 1
        /\ \A i, j \in DOMAIN procs :
              /\ procs[i].process_type # "CREATE_DELIVERY"
              /\ procs[j].process_type # "CREATE_DELIVERY"
              /\ procs[i].ref = procs[j].ref
              => i = j

\* Tokens of account a that rows still have to use, and tokens of closed
\* deliveries whose event is not indexed yet.
Owed(a) ==
    LET rows == {i \in DOMAIN procs : /\ procs[i].issuer = a
                                      /\ Executed(i, StepTx(i)) = {}}
        fresh == {k \in Unindexed : Withdrawer(delivery[k].status) = a}
        calls == {d \in Requests : request[d] \in {"deposited", "orphaned"}}
    IN  SumFunction([i \in rows |-> procs[i].amount])
        + SumFunction([k \in fresh |-> delivery[k].amount])
        + (IF a = Seller THEN SumFunction([d \in calls |-> Amount[d]]) ELSE 0)

\* While the contract refuses no createDelivery and no send is cut off from
\* its commit, the deposit of an account in the DVP contract is exactly what
\* its unfinished rows, calls and unindexed events still need: no row can
\* take the tokens of another, none is left behind except by an orphaned call.
DepositsCoverRows ==
    crashes.send = 0 /\ Rejected = {} =>
        \A a \in Managed : balance[a] = Owed(a)

\* A row has succeeded, or a call has led to a delivery.
Succeeded(i) == i \in DOMAIN procs /\ procs[i].process_status = "DONE_SUCCESS"
Delivered(d) == \E i \in DOMAIN procs : procs[i].ref = d /\ Executed(i, "createDelivery") # {}

\* The comment "<Reverted> -> Resend revert transaction" of
\* __sync_revert_tx_result: a revert transaction is sent again only if the
\* previous revert transaction of the row was reverted.
RevertResentOnlyIfReverted ==
    [][\A i \in DOMAIN procs :
          LET h == procs[i].revert_tx_hash
          IN  h # 0 /\ procs'[i].revert_tx_hash # h => txs[h].status = "reverted"]_vars
=============================================================================
