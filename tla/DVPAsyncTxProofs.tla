-------------------------- MODULE DVPAsyncTxProofs --------------------------
(* What the DVP processor guarantees for any number of requests and         *)
(* transactions, with crashes, lost transactions and rejected deliveries.   *)
EXTENDS DVPAsyncTx, Sums, FiniteSetTheorems, SequenceTheorems, TLAPS

\* Replacing an element of a sequence keeps its type and its domain.
LEMMA ReplaceInSeq ==
    ASSUME NEW S, NEW s \in Seq(S), NEW i \in DOMAIN s, NEW e \in S
    PROVE  /\ [s EXCEPT ![i] = e] \in Seq(S)
           /\ DOMAIN [s EXCEPT ![i] = e] = DOMAIN s
  BY ExceptSeq

\* Appending keeps what is there, at the same places.
LEMMA AppendToSeq ==
    ASSUME NEW S, NEW s \in Seq(S), NEW e \in S
    PROVE  /\ Append(s, e) \in Seq(S)
           /\ DOMAIN Append(s, e) = DOMAIN s \cup {Len(s) + 1}
           /\ \A i \in DOMAIN s : Append(s, e)[i] = s[i]
           /\ Append(s, e)[Len(s) + 1] = e
           /\ Len(s) + 1 \notin DOMAIN s
  <1>1. Append(s, e) \in Seq(S) /\ Len(Append(s, e)) = Len(s) + 1
    BY AppendProperties
  <1>2. DOMAIN s = 1..Len(s) /\ DOMAIN Append(s, e) = 1..(Len(s) + 1) /\ Len(s) \in Nat
    BY <1>1, LenProperties
  <1> QED
    BY <1>1, <1>2, AppendProperties

-----------------------------------------------------------------------------
(* The inductive invariant.  A pass handles only rows that still match its  *)
(* SELECT, although it reads them once at its start, because a row leaves   *)
(* todo when it is changed.                                                 *)

TodoInv ==
    /\ phase = "idle" => todo = {}
    /\ phase = "send" => todo \subseteq SelectSend
    /\ phase = "sync" => todo \subseteq SelectSync
    /\ phase = "revert" => todo \subseteq SelectRevert

RowOK(r, i) ==
    /\ r.step_tx_hash # 0 =>
          /\ r.step_tx_hash \in DOMAIN txs
          /\ txs[r.step_tx_hash].proc = i
          /\ txs[r.step_tx_hash].kind = StepTx(i)
    /\ r.step_tx_status = "PENDING" => r.step_tx_hash # 0 /\ r.step = 1
    /\ r.step_tx_status \in {"DONE", "RETRY"} /\ r.process_status = "PROCESSING"
          => r.step_tx_hash = 0
    /\ r.process_status = "DONE_SUCCESS" =>
          r.step_tx_hash # 0 /\ txs[r.step_tx_hash].status = "success"

RowInv == \A i \in DOMAIN procs : RowOK(procs[i], i)

IInv == TypeOK /\ TodoInv /\ RowInv

\* Sending appends one transaction, of the row's issuer and for that row.
LEMMA SendAppends ==
    ASSUME TypeOK, NEW i \in DOMAIN procs,
           NEW kind \in {"createDelivery", "withdrawPartial"}, Send(i, kind)
    PROVE  /\ txs' \in Seq(Tx)
           /\ DOMAIN txs \subseteq DOMAIN txs'
           /\ \A h \in DOMAIN txs : txs'[h] = txs[h]
           /\ Len(txs) + 1 \in Nat \ {0}
           /\ Len(txs) + 1 \in DOMAIN txs'
           /\ txs'[Len(txs) + 1].proc = i
           /\ txs'[Len(txs) + 1].kind = kind
  <1> DEFINE tx == [from |-> procs[i].issuer, kind |-> kind, proc |-> i,
                    amount |-> procs[i].amount, status |-> "pending"]
  <1>1. procs[i] \in Row /\ i \in Nat /\ Len(txs) \in Nat
    BY ElementOfSeq, LenProperties DEF TypeOK
  <1>2. tx \in Tx
    BY <1>1 DEF Tx, Row
  <1>3. txs' = Append(txs, tx) /\ txs \in Seq(Tx)
    BY DEF Send, TypeOK
  <1>4. tx.proc = i /\ tx.kind = kind
    OBVIOUS
  <1> HIDE DEF tx
  <1> QED
    BY <1>1, <1>2, <1>3, <1>4, AppendToSeq

\* A commit changes one row of the table.
LEMMA CommitReplaces ==
    ASSUME TypeOK, NEW i \in DOMAIN procs, NEW row \in Row, Commit(i, row)
    PROVE  /\ procs' \in Seq(Row)
           /\ DOMAIN procs' = DOMAIN procs
           /\ procs'[i] = row
           /\ \A j \in DOMAIN procs : j # i => procs'[j] = procs[j]
  BY ReplaceInSeq DEF Commit, TypeOK

\* A step transaction is of one of the two kinds the contract knows.
LEMMA StepTxKind ==
    ASSUME NEW i
    PROVE  StepTx(i) \in {"createDelivery", "withdrawPartial"}
  BY DEF StepTx

\* The rows a SELECT returns are rows of the table.
LEMMA SelectsRows ==
    /\ SelectSend \subseteq DOMAIN procs
    /\ SelectSync \subseteq DOMAIN procs
    /\ SelectRevert \subseteq DOMAIN procs
  BY DEF SelectSend, SelectSync, SelectRevert

\* A freshly inserted row is well typed.
LEMMA NewRow ==
    ASSUME NEW type \in ProcessType, NEW a \in Accounts,
           NEW n \in Nat \ {0}, NEW ref \in Requests \cup Nat
    PROVE  NewProcess(type, a, n, ref) \in Row
  BY DEF NewProcess, Row

\* The API and the indexer only append rows.
LEMMA IndexAppends ==
    ASSUME TypeOK, IndexDelivery
    PROVE  /\ procs' \in Seq(Row)
           /\ delivery' \in Seq(Delivery)
           /\ DOMAIN procs \subseteq DOMAIN procs'
           /\ \A i \in DOMAIN procs : procs'[i] = procs[i]
           /\ \A i \in DOMAIN procs' \ DOMAIN procs :
                 /\ procs'[i].step_tx_hash = 0
                 /\ procs'[i].step_tx_status = "DONE"
                 /\ procs'[i].process_status = "PROCESSING"
  <1> DEFINE mine == {k \in Unindexed : Withdrawer(delivery[k].status) \in Managed}
             row(k) == NewProcess(CloseType[delivery[k].status],
                                  Withdrawer(delivery[k].status),
                                  delivery[k].amount, k)
  <1>1. PICK order \in [1..Cardinality(mine) -> mine] :
           procs' = procs \o [n \in DOMAIN order |-> row(order[n])]
    BY DEF IndexDelivery
  <1> DEFINE rows == [n \in DOMAIN order |-> row(order[n])]
  <1>2. delivery \in [1..Len(delivery) -> Delivery] /\ Len(delivery) \in Nat
    BY LenProperties DEF TypeOK
  <1>3. Cardinality(mine) \in Nat
    <2>1. IsFiniteSet(1..Len(delivery))
      BY <1>2, FS_Interval
    <2>2. mine \subseteq 1..Len(delivery)
      BY <1>2 DEF Unindexed
    <2> QED
      BY <2>1, <2>2, FS_Subset, FS_CardinalityType
  <1>4. \A k \in mine : /\ row(k) \in Row
                        /\ row(k).step_tx_hash = 0
                        /\ row(k).step_tx_status = "DONE"
                        /\ row(k).process_status = "PROCESSING"
    <2> SUFFICES ASSUME NEW k \in mine
                 PROVE  /\ row(k) \in Row
                        /\ row(k).step_tx_hash = 0
                        /\ row(k).step_tx_status = "DONE"
                        /\ row(k).process_status = "PROCESSING"
      OBVIOUS
    <2>1. /\ k \in Nat
          /\ delivery[k] \in Delivery
          /\ delivery[k].status \in DOMAIN CloseType
      BY <1>2 DEF Unindexed
    <2>2. CloseType[delivery[k].status] \in ProcessType
      BY <2>1 DEF CloseType, ProcessType
    <2>3. delivery[k].amount \in Nat \ {0}
      BY <2>1 DEF Delivery
    <2>4. Withdrawer(delivery[k].status) \in Accounts
      BY DEF Withdrawer, Accounts
    <2>5. row(k) \in Row
      BY <2>1, <2>2, <2>3, <2>4, NewRow
    <2> QED
      BY <2>5 DEF NewProcess
  <1> HIDE DEF mine, row
  <1>5. rows \in Seq(Row) /\ Len(rows) = Cardinality(mine)
    <2>1. rows \in [1..Cardinality(mine) -> Row]
      BY <1>4
    <2> QED
      BY <1>3, <2>1
  <1>6. \A n \in 1..Len(rows) : rows[n] = row(order[n]) /\ order[n] \in mine
    BY <1>5
  <1> HIDE DEF rows
  <1>7. procs' = procs \o rows /\ procs \in Seq(Row)
    BY <1>1 DEF rows, TypeOK
  <1>8. /\ procs' \in Seq(Row)
        /\ Len(procs') = Len(procs) + Len(rows)
        /\ \A i \in 1..Len(procs) + Len(rows) :
              procs'[i] = IF i <= Len(procs) THEN procs[i] ELSE rows[i - Len(procs)]
    BY <1>5, <1>7, ConcatProperties
  <1>9. /\ DOMAIN procs = 1..Len(procs) /\ DOMAIN procs' = 1..Len(procs')
        /\ Len(procs) \in Nat /\ Len(rows) \in Nat
    BY <1>5, <1>7, <1>8, LenProperties
  <1>10. /\ DOMAIN procs \subseteq DOMAIN procs'
         /\ \A i \in DOMAIN procs : procs'[i] = procs[i]
    BY <1>8, <1>9
  <1>11. \A i \in DOMAIN procs' \ DOMAIN procs :
            /\ procs'[i].step_tx_hash = 0
            /\ procs'[i].step_tx_status = "DONE"
            /\ procs'[i].process_status = "PROCESSING"
    <2> SUFFICES ASSUME NEW i \in DOMAIN procs' \ DOMAIN procs
                 PROVE  /\ procs'[i].step_tx_hash = 0
                        /\ procs'[i].step_tx_status = "DONE"
                        /\ procs'[i].process_status = "PROCESSING"
      OBVIOUS
    <2>1. procs'[i] = rows[i - Len(procs)] /\ i - Len(procs) \in 1..Len(rows)
      BY <1>8, <1>9
    <2> QED
      BY <2>1, <1>6, <1>4
  <1>12. delivery' \in Seq(Delivery)
    <2>1. delivery' = [k \in DOMAIN delivery |->
                        [delivery[k] EXCEPT !.indexed = @ \/ k \in Unindexed]]
      BY DEF IndexDelivery
    <2>2. \A k \in 1..Len(delivery) :
             [delivery[k] EXCEPT !.indexed = @ \/ k \in Unindexed] \in Delivery
      BY <1>2 DEF Delivery
    <2>3. delivery' \in [1..Len(delivery) -> Delivery]
      BY <1>2, <2>1, <2>2
    <2> QED
      BY <1>2, <2>3
  <1> QED
    BY <1>8, <1>10, <1>11, <1>12

-----------------------------------------------------------------------------
(* Type correctness.                                                       *)

LEMMA TypingInit == Init => TypeOK
  <1> SUFFICES ASSUME Init PROVE TypeOK
    OBVIOUS
  <1>1. procs \in Seq(Row) /\ txs \in Seq(Tx) /\ delivery \in Seq(Delivery)
    BY DEF Init
  <1> QED
    BY <1>1 DEF Init, TypeOK, Accounts

\* Mining executes one pending transaction.
LEMMA TypingMine ==
    ASSUME TypeOK, NEW h \in DOMAIN txs, Mine(h) \/ Lose(h)
    PROVE  /\ TypeOK'
           /\ DOMAIN txs' = DOMAIN txs
           /\ \A g \in DOMAIN txs : /\ txs'[g].proc = txs[g].proc
                                    /\ txs'[g].kind = txs[g].kind
                                    /\ txs[g].status # "pending" =>
                                          txs'[g].status = txs[g].status
  <1>1. /\ DOMAIN txs = 1..Len(txs)
        /\ \A g \in DOMAIN txs : txs[g] \in Tx
        /\ h \in Nat
    BY LenProperties, ElementOfSeq DEF TypeOK
  <1>2. PICK st \in {"success", "reverted", "lost"} :
            txs' = [txs EXCEPT ![h] = [txs[h] EXCEPT !.status = st]]
    BY DEF Mine, Lose
  <1>3. [txs[h] EXCEPT !.status = st] \in Tx
    BY <1>1 DEF Tx
  <1>4. txs' \in Seq(Tx) /\ DOMAIN txs' = DOMAIN txs
    BY <1>2, <1>3, ReplaceInSeq DEF TypeOK
  <1>5. txs[h].status = "pending"
    BY DEF Mine, Lose
  <1>6. \A g \in DOMAIN txs : /\ txs'[g].proc = txs[g].proc
                              /\ txs'[g].kind = txs[g].kind
                              /\ txs[g].status # "pending" =>
                                    txs'[g].status = txs[g].status
    <2>1. \A g \in DOMAIN txs :
             txs'[g] = IF g = h THEN [txs[h] EXCEPT !.status = st] ELSE txs[g]
      BY <1>1, <1>2
    <2>2. /\ [txs[h] EXCEPT !.status = st].proc = txs[h].proc
          /\ [txs[h] EXCEPT !.status = st].kind = txs[h].kind
      BY <1>1 DEF Tx
    <2> QED
      BY <1>5, <2>1, <2>2
  <1>7. balance' \in [Accounts -> Nat]
    <2>1. CASE Succeeds(txs[h]) /\ Mine(h)
      <3>1. txs[h].from \in Accounts /\ txs[h].amount \in Nat
        BY <1>1 DEF Tx
      <3>2. balance[txs[h].from] >= txs[h].amount
        BY <2>1 DEF Succeeds
      <3>3. balance[txs[h].from] - txs[h].amount \in Nat
        BY <3>1, <3>2 DEF TypeOK
      <3> QED
        BY <2>1, <3>1, <3>3 DEF Mine, TypeOK
    <2>2. CASE ~(Succeeds(txs[h]) /\ Mine(h))
      BY <2>2 DEF Mine, Lose, TypeOK
    <2> QED
      BY <2>1, <2>2
  <1>8. delivery' \in Seq(Delivery)
    <2>1. CASE delivery' = delivery
      BY <2>1 DEF TypeOK
    <2>2. CASE delivery' = Append(delivery, [tx |-> h, amount |-> txs[h].amount,
                                     status |-> "created", indexed |-> FALSE])
      <3>1. [tx |-> h, amount |-> txs[h].amount,
             status |-> "created", indexed |-> FALSE] \in Delivery
        BY <1>1 DEF Tx, Delivery
      <3> QED
        BY <2>2, <3>1, AppendProperties DEF TypeOK
    <2> QED
      BY <2>1, <2>2 DEF Mine, Lose
  <1>9. crashes' \in [api : Nat, send : Nat, abandon : Nat, lost : Nat]
    <2>1. crashes \in [api : Nat, send : Nat, abandon : Nat, lost : Nat]
      BY DEF TypeOK
    <2>2. crashes' = crashes \/ crashes' = [crashes EXCEPT !.lost = @ + 1]
      BY DEF Mine, Lose
    <2> QED
      BY <2>1, <2>2
  <1>10. /\ request' = request /\ procs' = procs /\ phase' = phase /\ todo' = todo
    BY DEF Mine, Lose
  <1> QED
    BY <1>4, <1>6, <1>7, <1>8, <1>9, <1>10 DEF TypeOK

\* Closing or confirming a delivery.
LEMMA TypingClose ==
    ASSUME TypeOK, NEW k \in DOMAIN delivery,
           Confirm(k) \/ \E status \in DOMAIN CloseType : Close(k, status)
    PROVE  TypeOK'
  <1>1. /\ \A l \in DOMAIN delivery : delivery[l] \in Delivery
        /\ k \in DOMAIN delivery
    BY LenProperties, ElementOfSeq DEF TypeOK
  <1>2. PICK st \in {"confirmed"} \cup DOMAIN CloseType :
            delivery' = [delivery EXCEPT ![k] = [delivery[k] EXCEPT !.status = st]]
    BY DEF Confirm, Close
  <1>3. [delivery[k] EXCEPT !.status = st] \in Delivery
    BY <1>1 DEF Delivery
  <1>4. delivery' \in Seq(Delivery)
    BY <1>2, <1>3, ReplaceInSeq DEF TypeOK
  <1>5. balance' \in [Accounts -> Nat]
    <2>1. delivery[k].amount \in Nat
      BY <1>1 DEF Delivery
    <2>2. \A status : Withdrawer(status) \in Accounts
      BY DEF Withdrawer, Accounts
    <2>3. \/ balance' = balance
          \/ \E a \in Accounts : balance' = [balance EXCEPT ![a] = @ + delivery[k].amount]
      BY <2>2 DEF Confirm, Close
    <2>4. balance \in [Accounts -> Nat]
      BY DEF TypeOK
    <2> QED
      BY <2>1, <2>3, <2>4
  <1> QED
    BY <1>4, <1>5 DEF Confirm, Close, TypeOK

\* What the handlers save is a well-typed row.
LEMMA SavedRows ==
    ASSUME NEW r \in Row, NEW h \in Nat
    PROVE  /\ [r EXCEPT !.step = 1, !.step_tx_hash = h,
                        !.step_tx_status = "PENDING"] \in Row
           /\ [r EXCEPT !.step_tx_status = "FAILED", !.revert_tx_hash = h,
                        !.revert_tx_status = "PENDING"] \in Row
           /\ [r EXCEPT !.revert_tx_hash = h, !.revert_tx_status = "PENDING"] \in Row
  BY DEF Row

\* A handler that sends a transaction for row i and saves the row.
LEMMA HandlerTypes ==
    ASSUME TypeOK, NEW i \in DOMAIN procs, HandleRow(i)
    PROVE  /\ procs' \in Seq(Row)
           /\ txs' \in Seq(Tx)
           /\ DOMAIN procs' = DOMAIN procs
  <1>1. procs[i] \in Row /\ Len(txs) + 1 \in Nat
    BY LenProperties, ElementOfSeq DEF TypeOK
  <1>2. txs \in Seq(Tx)
    BY DEF TypeOK
  <1>3. CASE SendStepTx(i)
    <2>1. [procs[i] EXCEPT !.step = 1, !.step_tx_hash = Len(txs) + 1,
                           !.step_tx_status = "PENDING"] \in Row
      BY <1>1, SavedRows
    <2>2. txs' \in Seq(Tx)
      BY <1>3, SendAppends, StepTxKind DEF SendStepTx
    <2>3. Commit(i, [procs[i] EXCEPT !.step = 1, !.step_tx_hash = Len(txs) + 1,
                                     !.step_tx_status = "PENDING"])
      BY <1>3 DEF SendStepTx
    <2> QED
      BY <2>1, <2>2, <2>3, CommitReplaces
  <1>4. CASE SyncStepTxSuccess(i)
    <2>1. [procs[i] EXCEPT !.step_tx_status = "DONE",
                           !.process_status =
                              IF procs[i].step = 1 THEN "DONE_SUCCESS" ELSE @] \in Row
      BY <1>1 DEF Row
    <2> QED
      BY <1>2, <1>4, <2>1, CommitReplaces DEF SyncStepTxSuccess
  <1>5. CASE SyncStepTxRetry(i)
    <2>1. [procs[i] EXCEPT !.step_tx_hash = 0, !.step_tx_status = "RETRY"] \in Row
      BY <1>1 DEF Row
    <2> QED
      BY <1>2, <1>5, <2>1, CommitReplaces DEF SyncStepTxRetry
  <1>6. CASE SyncStepTxRevert(i)
    <2>1. [procs[i] EXCEPT !.step_tx_status = "FAILED",
                           !.revert_tx_hash = Len(txs) + 1,
                           !.revert_tx_status = "PENDING"] \in Row
      BY <1>1, SavedRows
    <2>2. txs' \in Seq(Tx)
      BY <1>6, SendAppends DEF SyncStepTxRevert
    <2>3. Commit(i, [procs[i] EXCEPT !.step_tx_status = "FAILED",
                                     !.revert_tx_hash = Len(txs) + 1,
                                     !.revert_tx_status = "PENDING"])
      BY <1>6 DEF SyncStepTxRevert
    <2> QED
      BY <2>1, <2>2, <2>3, CommitReplaces
  <1>7. CASE SyncRevertTx(i)
    <2>1. [procs[i] EXCEPT !.revert_tx_hash = Len(txs) + 1,
                           !.revert_tx_status = "PENDING"] \in Row
      BY <1>1, SavedRows
    <2>2. [procs[i] EXCEPT !.process_status = "DONE_FAILED",
                           !.revert_tx_status = "DONE"] \in Row
      BY <1>1 DEF Row
    <2>3. txs' \in Seq(Tx)
      BY <1>2, <1>7, SendAppends DEF SyncRevertTx
    <2>4. \/ Commit(i, [procs[i] EXCEPT !.revert_tx_hash = Len(txs) + 1,
                                        !.revert_tx_status = "PENDING"])
          \/ Commit(i, [procs[i] EXCEPT !.process_status = "DONE_FAILED",
                                        !.revert_tx_status = "DONE"])
      BY <1>7 DEF SyncRevertTx
    <2> QED
      BY <2>1, <2>2, <2>3, <2>4, CommitReplaces
  <1> QED
    BY <1>3, <1>4, <1>5, <1>6, <1>7 DEF HandleRow

LEMMA TypingNext == TypeOK /\ [Next]_vars => TypeOK'
  <1> SUFFICES ASSUME TypeOK, [Next]_vars PROVE TypeOK'
    OBVIOUS
  <1>1. ASSUME NEW d \in Requests, Deposit(d) \/ InsertProcess(d) \/ ApiCrash(d)
        PROVE  TypeOK'
    <2>1. Amount[d] \in Nat \ {0} /\ Seller \in Accounts
      BY DVPAssumption DEF Accounts
    <2>2. request' \in [Requests -> {"new", "deposited", "accepted", "orphaned"}]
      BY <1>1 DEF Deposit, InsertProcess, ApiCrash, TypeOK
    <2>3. procs' \in Seq(Row) /\ DOMAIN procs \subseteq DOMAIN procs'
      <3>1. NewProcess("CREATE_DELIVERY", Seller, Amount[d], d) \in Row
        BY <2>1, NewRow DEF ProcessType
      <3>2. procs \in Seq(Row)
        BY DEF TypeOK
      <3> QED
        BY <1>1, <3>1, <3>2, AppendToSeq DEF Deposit, InsertProcess, ApiCrash
    <2>4. balance' \in [Accounts -> Nat]
      <3>1. balance \in [Accounts -> Nat]
        BY DEF TypeOK
      <3>2. balance' = balance \/ balance' = [balance EXCEPT ![Seller] = @ + Amount[d]]
        BY <1>1 DEF Deposit, InsertProcess, ApiCrash
      <3> QED
        BY <2>1, <3>1, <3>2
    <2>5. crashes' \in [api : Nat, send : Nat, abandon : Nat, lost : Nat]
      <3>1. crashes \in [api : Nat, send : Nat, abandon : Nat, lost : Nat]
        BY DEF TypeOK
      <3>2. crashes' = crashes \/ crashes' = [crashes EXCEPT !.api = @ + 1]
        BY <1>1 DEF Deposit, InsertProcess, ApiCrash
      <3> QED
        BY <3>1, <3>2
    <2>6. phase' = phase /\ todo' = todo /\ txs' = txs /\ delivery' = delivery
      BY <1>1 DEF Deposit, InsertProcess, ApiCrash
    <2> QED
      BY <2>2, <2>3, <2>4, <2>5, <2>6 DEF TypeOK
  <1>2. CASE Chain
    BY <1>2, TypingMine, TypingClose DEF Chain
  <1>3. CASE IndexDelivery
    BY <1>3, IndexAppends DEF IndexDelivery, TypeOK
  <1>4. CASE NextPhase
    BY <1>4, SelectsRows DEF NextPhase, TypeOK
  <1>5. ASSUME NEW i \in todo, HandleRow(i)
        PROVE  TypeOK'
    <2>1. /\ i \in DOMAIN procs
          /\ procs' \in Seq(Row) /\ txs' \in Seq(Tx) /\ DOMAIN procs' = DOMAIN procs
      BY <1>5, HandlerTypes DEF TypeOK
    <2>2. /\ phase' = phase /\ todo' = todo \ {i}
          /\ request' = request /\ balance' = balance
          /\ delivery' = delivery /\ crashes' = crashes
      BY <1>5 DEF HandleRow, Handle, SendStepTx, SyncStepTxSuccess, SyncStepTxRetry,
                  SyncStepTxRevert, SyncRevertTx
    <2> QED
      BY <2>1, <2>2 DEF TypeOK
  <1>6. ASSUME NEW i \in todo, SkipRow(i)
        PROVE  TypeOK'
    BY <1>6 DEF SkipRow, Handle, TypeOK
  <1>7. ASSUME Abandon \/ \E i \in todo : SendCrash(i)
        PROVE  TypeOK'
    <2>1. crashes' \in [api : Nat, send : Nat, abandon : Nat, lost : Nat]
      <3>1. crashes \in [api : Nat, send : Nat, abandon : Nat, lost : Nat]
        BY DEF TypeOK
      <3>2. \/ crashes' = [crashes EXCEPT !.abandon = @ + 1]
            \/ crashes' = [crashes EXCEPT !.send = @ + 1]
        BY <1>7 DEF Abandon, SendCrash
      <3> QED
        BY <3>1, <3>2
    <2>2. txs' \in Seq(Tx)
      BY <1>7, SendAppends, StepTxKind DEF Abandon, SendCrash, TypeOK
    <2> QED
      BY <1>7, <2>1, <2>2 DEF Abandon, SendCrash, TypeOK
  <1>8. CASE UNCHANGED vars
    BY <1>8 DEF vars, TypeOK
  <1> QED
    BY <1>1, <1>2, <1>3, <1>4, <1>5, <1>6, <1>7, <1>8 DEF Next, Api, Processor

\* Every variable keeps its type, for any requests, amounts and failures.
THEOREM Typing == Spec => []TypeOK
  BY TypingInit, TypingNext, PTL DEF Spec

-----------------------------------------------------------------------------
(* Safety.                                                                 *)

LEMMA InvInit == Init => IInv
  <1> SUFFICES ASSUME Init PROVE IInv
    OBVIOUS
  <1>1. TypeOK
    BY TypingInit
  <1>2. procs = << >> /\ todo = {} /\ phase = "idle"
    BY DEF Init
  <1>3. RowInv /\ TodoInv
    BY <1>2 DEF RowInv, TodoInv
  <1> QED
    BY <1>1, <1>3 DEF IInv

\* While the rows and the loop stay the same, and the chain only mines what is
\* pending, the invariant stays true.
LEMMA SameRows ==
    ASSUME IInv, TypeOK', procs' = procs, phase' = phase, todo' = todo,
           DOMAIN txs \subseteq DOMAIN txs',
           \A h \in DOMAIN txs : /\ txs'[h].proc = txs[h].proc
                                 /\ txs'[h].kind = txs[h].kind
                                 /\ txs[h].status = "success" =>
                                       txs'[h].status = "success"
    PROVE  IInv'
  <1>1. TodoInv'
    BY DEF IInv, TodoInv, SelectSend, SelectSync, SelectRevert
  <1>2. RowInv'
    BY DEF IInv, RowInv, RowOK, StepTx
  <1> QED
    BY <1>1, <1>2 DEF IInv

\* Rows are appended, none of them handled yet.
LEMMA NewRows ==
    ASSUME IInv, TypeOK', phase' = phase, todo' = todo, txs' = txs,
           DOMAIN procs \subseteq DOMAIN procs',
           \A i \in DOMAIN procs : procs'[i] = procs[i],
           \A i \in DOMAIN procs' \ DOMAIN procs :
                 /\ procs'[i].step_tx_hash = 0
                 /\ procs'[i].step_tx_status = "DONE"
                 /\ procs'[i].process_status = "PROCESSING"
    PROVE  IInv'
  <1>1. TodoInv'
    BY DEF IInv, TodoInv, SelectSend, SelectSync, SelectRevert
  <1>2. RowInv'
    BY DEF IInv, RowInv, RowOK, StepTx
  <1> QED
    BY <1>1, <1>2 DEF IInv

\* Row i, and only row i, is saved; it leaves todo.
LEMMA OneRow ==
    ASSUME IInv, TypeOK', NEW i \in todo, phase' = phase, todo' = todo \ {i},
           DOMAIN procs' = DOMAIN procs,
           \A j \in DOMAIN procs : j # i => procs'[j] = procs[j],
           procs'[i].process_type = procs[i].process_type,
           DOMAIN txs \subseteq DOMAIN txs',
           \A h \in DOMAIN txs : txs'[h] = txs[h],
           RowOK(procs[i], i)'
    PROVE  IInv'
  <1>1. TodoInv'
    BY DEF IInv, TodoInv, SelectSend, SelectSync, SelectRevert
  <1>2. ASSUME NEW j \in DOMAIN procs' PROVE RowOK(procs[j], j)'
    <2>1. CASE j = i
      BY <2>1
    <2>2. CASE j # i
      BY <2>2 DEF IInv, RowInv, RowOK, StepTx
    <2> QED
      BY <2>1, <2>2
  <1> QED
    BY <1>1, <1>2 DEF IInv, RowInv

\* The row a handler has just saved keeps the invariant.
LEMMA HandledRow ==
    ASSUME IInv, TypeOK', NEW i \in todo, HandleRow(i)
    PROVE  IInv'
  <1>1. /\ i \in DOMAIN procs /\ procs[i] \in Row /\ RowOK(procs[i], i)
        /\ Len(txs) + 1 \in Nat \ {0} /\ procs \in Seq(Row) /\ txs \in Seq(Tx)
        /\ TypeOK
    <2>1. TypeOK /\ i \in DOMAIN procs
      BY DEF IInv, TypeOK
    <2> QED
      BY <2>1, LenProperties, ElementOfSeq DEF IInv, TypeOK, RowInv
  <1>2. phase' = phase /\ todo' = todo \ {i}
    BY DEF HandleRow, Handle, SendStepTx, SyncStepTxSuccess, SyncStepTxRetry,
           SyncStepTxRevert, SyncRevertTx
  <1> DEFINE Saved(row) ==
               /\ DOMAIN procs' = DOMAIN procs
               /\ procs'[i] = row
               /\ \A j \in DOMAIN procs : j # i => procs'[j] = procs[j]
             Kept == /\ DOMAIN txs \subseteq DOMAIN txs'
                     /\ \A h \in DOMAIN txs : txs'[h] = txs[h]
  <1>3. \A row : row \in Row /\ Commit(i, row) => Saved(row)
    BY <1>1, CommitReplaces
  <1>4. CASE SendStepTx(i)
    <2> DEFINE row == [procs[i] EXCEPT !.step = 1, !.step_tx_hash = Len(txs) + 1,
                                       !.step_tx_status = "PENDING"]
    <2>1. row \in Row /\ Commit(i, row)
      BY <1>1, <1>4, SavedRows DEF SendStepTx
    <2>2. Saved(row)
      BY <1>3, <2>1
    <2>3. /\ Kept /\ Len(txs) + 1 \in DOMAIN txs'
          /\ txs'[Len(txs) + 1].proc = i /\ txs'[Len(txs) + 1].kind = StepTx(i)
      BY <1>1, <1>4, SendAppends, StepTxKind DEF SendStepTx
    <2>4. /\ row.step_tx_hash = Len(txs) + 1 /\ row.step = 1
          /\ row.step_tx_status = "PENDING"
          /\ row.process_status = procs[i].process_status
          /\ row.process_type = procs[i].process_type
      BY <1>1 DEF Row
    <2>5. procs[i].process_status = "PROCESSING"
      BY <1>4 DEF IInv, TodoInv, SendStepTx, Handle, SelectSend
    <2> HIDE DEF row
    <2>6. RowOK(procs[i], i)'
      BY <1>1, <2>2, <2>3, <2>4, <2>5 DEF RowOK, StepTx
    <2> QED
      BY <1>2, <2>2, <2>3, <2>4, <2>6, OneRow
  <1>5. CASE SyncStepTxSuccess(i)
    <2> DEFINE row == [procs[i] EXCEPT !.step_tx_status = "DONE",
                           !.process_status =
                              IF procs[i].step = 1 THEN "DONE_SUCCESS" ELSE @]
    <2>1. row \in Row /\ Commit(i, row)
      BY <1>1, <1>5 DEF Row, SyncStepTxSuccess
    <2>2. Saved(row) /\ txs' = txs
      BY <1>3, <1>5, <2>1 DEF SyncStepTxSuccess
    <2>3. /\ procs[i].step_tx_status = "PENDING"
          /\ txs[procs[i].step_tx_hash].status = "success"
      BY <1>5 DEF IInv, TodoInv, SyncStepTxSuccess, Handle, SelectSync, StepReceipt
    <2>4. procs[i].step = 1 /\ procs[i].step_tx_hash # 0
      BY <1>1, <2>3 DEF RowOK
    <2>5. /\ row.step_tx_hash = procs[i].step_tx_hash
          /\ row.step_tx_status = "DONE" /\ row.process_status = "DONE_SUCCESS"
          /\ row.process_type = procs[i].process_type
      BY <1>1, <2>4 DEF Row
    <2> HIDE DEF row
    <2>6. RowOK(procs[i], i)'
      BY <1>1, <2>2, <2>3, <2>4, <2>5 DEF RowOK, StepTx
    <2> QED
      BY <1>2, <2>2, <2>5, <2>6, OneRow
  <1>6. CASE SyncStepTxRetry(i)
    <2> DEFINE row == [procs[i] EXCEPT !.step_tx_hash = 0, !.step_tx_status = "RETRY"]
    <2>1. row \in Row /\ Commit(i, row)
      BY <1>1, <1>6 DEF Row, SyncStepTxRetry
    <2>2. Saved(row) /\ txs' = txs
      BY <1>3, <1>6, <2>1 DEF SyncStepTxRetry
    <2>3. procs[i].process_status = "PROCESSING"
      BY <1>6 DEF IInv, TodoInv, SyncStepTxRetry, Handle, SelectSync
    <2>4. /\ row.step_tx_hash = 0 /\ row.step_tx_status = "RETRY"
          /\ row.process_status = "PROCESSING"
          /\ row.process_type = procs[i].process_type
      BY <1>1, <2>3 DEF Row
    <2> HIDE DEF row
    <2>5. RowOK(procs[i], i)'
      BY <2>2, <2>4 DEF RowOK
    <2> QED
      BY <1>2, <2>2, <2>4, <2>5, OneRow
  <1>7. CASE SyncStepTxRevert(i)
    <2> DEFINE row == [procs[i] EXCEPT !.step_tx_status = "FAILED",
                                       !.revert_tx_hash = Len(txs) + 1,
                                       !.revert_tx_status = "PENDING"]
    <2>1. row \in Row /\ Commit(i, row)
      BY <1>1, <1>7, SavedRows DEF SyncStepTxRevert
    <2>2. Saved(row) /\ Kept
      BY <1>1, <1>3, <1>7, <2>1, SendAppends DEF SyncStepTxRevert
    <2>3. procs[i].process_status = "PROCESSING"
      BY <1>7 DEF IInv, TodoInv, SyncStepTxRevert, Handle, SelectSync
    <2>4. /\ row.step_tx_hash = procs[i].step_tx_hash
          /\ row.step_tx_status = "FAILED" /\ row.process_status = "PROCESSING"
          /\ row.process_type = procs[i].process_type
      BY <1>1, <2>3 DEF Row
    <2> HIDE DEF row
    <2>5. RowOK(procs[i], i)'
      BY <1>1, <2>2, <2>4 DEF RowOK, StepTx
    <2> QED
      BY <1>2, <2>2, <2>4, <2>5, OneRow
  <1>8. CASE SyncRevertTx(i)
    <2>1. PICK row \in Row :
             /\ Commit(i, row) /\ Kept
             /\ row.step_tx_hash = procs[i].step_tx_hash
             /\ row.step_tx_status = procs[i].step_tx_status
             /\ row.step = procs[i].step
             /\ row.process_type = procs[i].process_type
             /\ row.process_status \in {"PROCESSING", "DONE_FAILED"}
      <3>1. procs[i].process_status = "PROCESSING"
        BY <1>8 DEF IInv, TodoInv, SyncRevertTx, Handle, SelectRevert
      <3>2. CASE StepReceipt(i) = "reverted"
        <4> DEFINE row == [procs[i] EXCEPT !.revert_tx_hash = Len(txs) + 1,
                                           !.revert_tx_status = "PENDING"]
        <4>1. row \in Row /\ Commit(i, row) /\ Kept
          BY <1>1, <1>8, <3>2, SavedRows, SendAppends DEF SyncRevertTx
        <4>2. /\ row.step_tx_hash = procs[i].step_tx_hash
              /\ row.step_tx_status = procs[i].step_tx_status
              /\ row.step = procs[i].step
              /\ row.process_type = procs[i].process_type
              /\ row.process_status = "PROCESSING"
          BY <1>1, <3>1 DEF Row
        <4> QED
          BY <4>1, <4>2
      <3>3. CASE StepReceipt(i) # "reverted"
        <4> DEFINE row == [procs[i] EXCEPT !.process_status = "DONE_FAILED",
                                           !.revert_tx_status = "DONE"]
        <4>1. row \in Row /\ Commit(i, row) /\ txs' = txs
          BY <1>1, <1>8, <3>3 DEF SyncRevertTx, Row
        <4>2. /\ row.step_tx_hash = procs[i].step_tx_hash
              /\ row.step_tx_status = procs[i].step_tx_status
              /\ row.step = procs[i].step
              /\ row.process_type = procs[i].process_type
              /\ row.process_status = "DONE_FAILED"
          BY <1>1 DEF Row
        <4> QED
          BY <4>1, <4>2
      <3> QED
        BY <3>2, <3>3
    <2>2. Saved(row)
      BY <1>3, <2>1
    <2>3. procs[i].process_status = "PROCESSING"
      BY <1>8 DEF IInv, TodoInv, SyncRevertTx, Handle, SelectRevert
    <2>4. RowOK(procs[i], i)'
      BY <1>1, <2>1, <2>2, <2>3 DEF RowOK, StepTx
    <2> QED
      BY <1>2, <2>1, <2>2, <2>4, OneRow
  <1> QED
    BY <1>4, <1>5, <1>6, <1>7, <1>8 DEF HandleRow

\* The call that inserts a row appends it.
LEMMA InsertAppends ==
    ASSUME TypeOK, NEW d \in Requests, InsertProcess(d)
    PROVE  /\ DOMAIN procs \subseteq DOMAIN procs'
           /\ \A i \in DOMAIN procs : procs'[i] = procs[i]
           /\ \A i \in DOMAIN procs' \ DOMAIN procs :
                 /\ procs'[i].step_tx_hash = 0
                 /\ procs'[i].step_tx_status = "DONE"
                 /\ procs'[i].process_status = "PROCESSING"
  <1> DEFINE row == NewProcess("CREATE_DELIVERY", Seller, Amount[d], d)
  <1>1. row \in Row
    BY DVPAssumption, NewRow DEF ProcessType, Accounts
  <1>2. /\ row.step_tx_hash = 0 /\ row.step_tx_status = "DONE"
        /\ row.process_status = "PROCESSING"
    BY DEF NewProcess
  <1>3. procs' = Append(procs, row) /\ procs \in Seq(Row)
    BY DEF InsertProcess, TypeOK
  <1> HIDE DEF row
  <1> QED
    BY <1>1, <1>2, <1>3, AppendToSeq

LEMMA InvNext == IInv /\ [Next]_vars => IInv'
  <1> SUFFICES ASSUME IInv, [Next]_vars PROVE IInv'
    OBVIOUS
  <1>1. TypeOK /\ TypeOK'
    BY TypingNext DEF IInv
  <1>2. ASSUME NEW d \in Requests, Deposit(d) \/ ApiCrash(d)
        PROVE  IInv'
    BY <1>1, <1>2, SameRows DEF Deposit, ApiCrash
  <1>3. ASSUME NEW d \in Requests, InsertProcess(d)
        PROVE  IInv'
    <2>1. phase' = phase /\ todo' = todo /\ txs' = txs
      BY <1>3 DEF InsertProcess
    <2> QED
      BY <1>1, <1>3, <2>1, InsertAppends, NewRows
  <1>4. ASSUME NEW h \in DOMAIN txs, Mine(h) \/ Lose(h)
        PROVE  IInv'
    <2>1. procs' = procs /\ phase' = phase /\ todo' = todo
      BY <1>4 DEF Mine, Lose
    <2>2. /\ DOMAIN txs' = DOMAIN txs
          /\ \A g \in DOMAIN txs : /\ txs'[g].proc = txs[g].proc
                                   /\ txs'[g].kind = txs[g].kind
                                   /\ txs[g].status # "pending" =>
                                         txs'[g].status = txs[g].status
      <3>1. TypeOK /\ (Mine(h) \/ Lose(h))
        BY <1>1, <1>4
      <3>2. DOMAIN txs' = DOMAIN txs
        BY <3>1, TypingMine
      <3>3. ASSUME NEW g \in DOMAIN txs
            PROVE  /\ txs'[g].proc = txs[g].proc
                   /\ txs'[g].kind = txs[g].kind
                   /\ txs[g].status # "pending" => txs'[g].status = txs[g].status
        BY <3>1, TypingMine
      <3> QED
        BY <3>2, <3>3
    <2> QED
      BY <1>1, <2>1, <2>2, SameRows
  <1>5. ASSUME NEW k \in DOMAIN delivery,
               Confirm(k) \/ \E status \in DOMAIN CloseType : Close(k, status)
        PROVE  IInv'
    BY <1>1, <1>5, SameRows DEF Confirm, Close
  <1>6. CASE IndexDelivery
    <2>1. phase' = phase /\ todo' = todo /\ txs' = txs
      BY <1>6 DEF IndexDelivery
    <2> QED
      BY <1>1, <1>6, <2>1, IndexAppends, NewRows
  <1>7. CASE NextPhase
    <2>1. procs' = procs /\ txs' = txs
      BY <1>7 DEF NextPhase
    <2>2. TodoInv'
      BY <1>7, <2>1 DEF NextPhase, TodoInv, SelectSend, SelectSync, SelectRevert
    <2>3. RowInv'
      BY <2>1 DEF IInv, RowInv, RowOK, StepTx
    <2> QED
      BY <1>1, <2>2, <2>3 DEF IInv
  <1>8. ASSUME NEW i \in todo, SkipRow(i)
        PROVE  IInv'
    <2>1. procs' = procs /\ txs' = txs /\ phase' = phase /\ todo' \subseteq todo
      BY <1>8 DEF SkipRow, Handle
    <2>2. TodoInv'
      BY <2>1 DEF IInv, TodoInv, SelectSend, SelectSync, SelectRevert
    <2>3. RowInv'
      BY <2>1 DEF IInv, RowInv, RowOK, StepTx
    <2> QED
      BY <1>1, <2>2, <2>3 DEF IInv
  <1>9. ASSUME Abandon \/ \E i \in todo : SendCrash(i)
        PROVE  IInv'
    <2>1. procs' = procs /\ phase' = "idle" /\ todo' = {}
      BY <1>9 DEF Abandon, SendCrash
    <2>2. /\ DOMAIN txs \subseteq DOMAIN txs'
          /\ \A h \in DOMAIN txs : txs'[h] = txs[h]
      BY <1>1, <1>9, SendAppends, StepTxKind DEF Abandon, SendCrash, TypeOK
    <2>3. TodoInv' /\ RowInv'
      BY <2>1, <2>2 DEF IInv, TodoInv, RowInv, RowOK, StepTx
    <2> QED
      BY <1>1, <2>3 DEF IInv
  <1>10. CASE UNCHANGED vars
    BY <1>1, <1>10, SameRows DEF vars
  <1> QED
    BY <1>1, <1>2, <1>3, <1>4, <1>5, <1>6, <1>7, <1>8, <1>9, <1>10, HandledRow
       DEF Next, Api, Chain, Processor

LEMMA InvImpliesSafe == IInv => SuccessMeansExecuted
  BY DEF IInv, RowInv, RowOK, SuccessMeansExecuted

\* A row that says DONE_SUCCESS names its own transaction, executed, whatever
\* crashes, losses and rejections the run has seen.
THEOREM SafetySuccess == Spec => []SuccessMeansExecuted
  BY InvInit, InvNext, InvImpliesSafe, PTL DEF Spec

-----------------------------------------------------------------------------
(* What a step may do to a row.                                            *)

Kept(i) ==
    LET h == procs[i].step_tx_hash
    IN  /\ h # 0 /\ procs'[i].step_tx_hash # h => txs[h].status = "reverted"
        /\ procs[i].process_status # "PROCESSING" => procs'[i] = procs[i]

\* A handler keeps the hash of its row, or replaces one that is 0 or reverted.
LEMMA HandlerKeeps ==
    ASSUME IInv, NEW i \in todo, HandleRow(i), NEW j \in DOMAIN procs
    PROVE  Kept(j)
  <1>1. /\ i \in DOMAIN procs /\ procs[i] \in Row /\ RowOK(procs[i], i)
        /\ procs \in Seq(Row)
    <2>1. TypeOK /\ i \in DOMAIN procs
      BY DEF IInv, TypeOK
    <2> QED
      BY <2>1, LenProperties, ElementOfSeq DEF IInv, TypeOK, RowInv
  <1>2. CASE j # i
    <2>1. procs'[j] = procs[j]
      BY <1>1, <1>2 DEF HandleRow, SendStepTx, SyncStepTxSuccess, SyncStepTxRetry,
                        SyncStepTxRevert, SyncRevertTx, Commit
    <2> QED
      BY <2>1 DEF Kept
  <1>3. CASE j = i
    <2>1. procs[i].process_status = "PROCESSING"
      BY DEF IInv, TodoInv, HandleRow, Handle, SendStepTx, SyncStepTxSuccess,
             SyncStepTxRetry, SyncStepTxRevert, SyncRevertTx,
             SelectSend, SelectSync, SelectRevert
    <2>2. CASE SendStepTx(i)
      <3>1. procs[i].step_tx_status \in {"DONE", "RETRY"}
        BY <2>2 DEF IInv, TodoInv, SendStepTx, Handle, SelectSend
      <3> QED
        BY <1>1, <1>3, <2>1, <3>1 DEF RowOK, Kept
    <2>3. CASE SyncStepTxRetry(i)
      BY <1>3, <2>1, <2>3 DEF SyncStepTxRetry, StepReceipt, Kept
    <2>4. CASE SyncStepTxSuccess(i) \/ SyncStepTxRevert(i) \/ SyncRevertTx(i)
      <3>1. procs'[i].step_tx_hash = procs[i].step_tx_hash
        <4>3. CASE SyncStepTxSuccess(i)
          BY <1>1, <4>3 DEF SyncStepTxSuccess, Commit, Row
        <4>4. CASE SyncStepTxRevert(i)
          BY <1>1, <4>4 DEF SyncStepTxRevert, Commit, Row
        <4>5. CASE SyncRevertTx(i)
          <5>1. DOMAIN procs' = DOMAIN procs /\ procs[i] \in Row
            BY <1>1, <4>5 DEF SyncRevertTx, Commit
          <5>2. CASE Commit(i, [procs[i] EXCEPT !.revert_tx_hash = Len(txs) + 1,
                                                !.revert_tx_status = "PENDING"])
            BY <1>1, <5>2 DEF Commit, Row
          <5>3. CASE Commit(i, [procs[i] EXCEPT !.process_status = "DONE_FAILED",
                                                !.revert_tx_status = "DONE"])
            BY <1>1, <5>3 DEF Commit, Row
          <5> QED
            BY <4>5, <5>2, <5>3, Zenon DEF SyncRevertTx
        <4> QED
          BY <2>4, <4>3, <4>4, <4>5
      <3> QED
        BY <1>3, <2>1, <3>1 DEF Kept
    <2> QED
      BY <2>2, <2>3, <2>4 DEF HandleRow
  <1> QED
    BY <1>2, <1>3

LEMMA StepKeeps == IInv /\ [Next]_vars => [\A i \in DOMAIN procs : Kept(i)]_vars
  <1> SUFFICES ASSUME IInv, Next, NEW j \in DOMAIN procs PROVE Kept(j)
    BY DEF vars
  <1>1. TypeOK
    BY DEF IInv
  <1>2. ASSUME NEW i \in todo, HandleRow(i) PROVE Kept(j)
    BY <1>2, HandlerKeeps
  <1>3. ASSUME procs'[j] = procs[j] PROVE Kept(j)
    BY <1>3 DEF Kept
  <1>4. ASSUME NEW d \in Requests, Deposit(d) \/ InsertProcess(d) \/ ApiCrash(d)
        PROVE  Kept(j)
    BY <1>1, <1>3, <1>4, InsertAppends DEF Deposit, ApiCrash
  <1>5. CASE IndexDelivery
    BY <1>1, <1>3, <1>5, IndexAppends
  <1>6. CASE \/ Chain \/ NextPhase \/ Abandon
             \/ \E i \in todo : SkipRow(i) \/ SendCrash(i)
    <2>1. procs' = procs
      BY <1>6 DEF Chain, Mine, Lose, Confirm, Close, NextPhase, Abandon, SkipRow, SendCrash
    <2> QED
      BY <1>3, <2>1
  <1> QED
    BY <1>2, <1>4, <1>5, <1>6 DEF Next, Api, Processor

\* No crash, restart or pair of loops makes the processor forget a step
\* transaction that may still succeed, or touch a row that is done.
THEOREM StepsKeepTx == Spec => StepTxKeptUntilReverted
  <1>1. IInv /\ [Next]_vars =>
           [\A i \in DOMAIN procs :
              LET h == procs[i].step_tx_hash
              IN  /\ h # 0 /\ procs'[i].step_tx_hash # h => txs[h].status = "reverted"
                  /\ procs[i].process_status # "PROCESSING" => procs'[i] = procs[i]]_vars
    BY StepKeeps DEF Kept
  <1> QED
    BY <1>1, InvInit, InvNext, PTL DEF Spec, StepTxKeptUntilReverted

-----------------------------------------------------------------------------
(* Once per row.  While no send is cut off from its commit, the hash a row   *)
(* keeps is the only step transaction of the row that was not reverted; and *)
(* the rows of closed deliveries are told apart by the delivery.            *)

Calls == {d \in Requests : request[d] \in {"deposited", "orphaned"}}

\* Closed deliveries whose event gives a row, and that row.
Known == {k \in Unindexed : Withdrawer(delivery[k].status) \in Managed}

RowFor(k) == NewProcess(CloseType[delivery[k].status],
                        Withdrawer(delivery[k].status), delivery[k].amount, k)

\* Whose row it is.
PartyOK(r) ==
    /\ r.issuer \in Managed
    /\ r.revert_tx_status = "PENDING" =>
          r.step_tx_hash # 0 /\ r.process_type = "CREATE_DELIVERY"
    /\ r.process_type # "CREATE_DELIVERY" =>
          r.ref \in DOMAIN delivery /\ delivery[r.ref].indexed

PartyInv == \A i \in DOMAIN procs : PartyOK(procs[i])

CloseInv ==
    /\ \A k \in DOMAIN delivery :
          delivery[k].indexed => delivery[k].status \in DOMAIN CloseType
    /\ \A i, j \in DOMAIN procs :
          /\ procs[i].process_type # "CREATE_DELIVERY"
          /\ procs[j].process_type # "CREATE_DELIVERY"
          /\ procs[i].ref = procs[j].ref
          => i = j

\* A transaction moves the amount of its row, for the issuer of its row.
TxInv ==
    \A h \in DOMAIN txs :
        LET i == txs[h].proc
        IN  /\ i \in DOMAIN procs
            /\ txs[h].from = procs[i].issuer
            /\ txs[h].amount = procs[i].amount

IsStep(h) == txs[h].kind = StepTx(txs[h].proc)

OnceInv ==
    crashes.send = 0 =>
        \A h \in DOMAIN txs :
            IsStep(h) /\ txs[h].status # "reverted" =>
                procs[txs[h].proc].step_tx_hash = h

SInv == IInv /\ PartyInv /\ CloseInv /\ TxInv /\ OnceInv

\* What never changes in a row.
SameParty(r, s) ==
    /\ r.process_type = s.process_type /\ r.issuer = s.issuer
    /\ r.amount = s.amount /\ r.ref = s.ref

\* What a handler does, to its row and to the chain.
HandlerStep(i) ==
    /\ DOMAIN procs' = DOMAIN procs
    /\ \A j \in DOMAIN procs : j # i => procs'[j] = procs[j]
    /\ SameParty(procs'[i], procs[i])
    /\ procs'[i].revert_tx_status = "PENDING" =>
          \/ procs[i].revert_tx_status = "PENDING"
          \/ procs[i].step_tx_hash # 0 /\ procs[i].process_type = "CREATE_DELIVERY"
    /\ \/ /\ txs' = txs
          /\ procs'[i].step_tx_hash = procs[i].step_tx_hash
       \/ /\ txs' = txs
          /\ procs'[i].step_tx_hash = 0 /\ StepReceipt(i) = "reverted"
          /\ procs[i].step_tx_hash # 0
          /\ procs[i].process_type # "CREATE_DELIVERY"
       \/ /\ Send(i, StepTx(i))
          /\ procs[i].step_tx_hash = 0 /\ procs'[i].step_tx_hash = Len(txs) + 1
       \/ /\ Send(i, "withdrawPartial")
          /\ procs[i].process_type = "CREATE_DELIVERY"
          /\ StepReceipt(i) = "reverted" /\ procs[i].step_tx_hash # 0
          /\ procs'[i].step_tx_hash = procs[i].step_tx_hash

LEMMA HandlerDoes ==
    ASSUME SInv, NEW i \in todo, HandleRow(i)
    PROVE  HandlerStep(i)
  <1>1. /\ i \in DOMAIN procs /\ procs[i] \in Row /\ RowOK(procs[i], i)
        /\ procs \in Seq(Row) /\ TypeOK /\ PartyOK(procs[i])
    <2>1. TypeOK /\ i \in DOMAIN procs
      BY DEF SInv, IInv, TypeOK
    <2> QED
      BY <2>1, LenProperties, ElementOfSeq DEF SInv, IInv, TypeOK, RowInv, PartyInv
  <1>2. ASSUME NEW row, Commit(i, row)
        PROVE  /\ DOMAIN procs' = DOMAIN procs
               /\ \A j \in DOMAIN procs : j # i => procs'[j] = procs[j]
               /\ procs'[i] = row
    BY <1>1, <1>2 DEF Commit
  <1>3. procs[i].process_status = "PROCESSING"
    BY DEF SInv, IInv, TodoInv, HandleRow, Handle, SendStepTx, SyncStepTxSuccess,
           SyncStepTxRetry, SyncStepTxRevert, SyncRevertTx,
           SelectSend, SelectSync, SelectRevert
  <1>4. CASE SendStepTx(i)
    <2> DEFINE row == [procs[i] EXCEPT !.step = 1, !.step_tx_hash = Len(txs) + 1,
                                       !.step_tx_status = "PENDING"]
    <2>1. /\ row.step_tx_hash = Len(txs) + 1 /\ SameParty(row, procs[i])
          /\ row.revert_tx_status = procs[i].revert_tx_status
      BY <1>1 DEF Row, SameParty
    <2>2. Commit(i, row) /\ Send(i, StepTx(i))
      BY <1>4 DEF SendStepTx
    <2>3. procs[i].step_tx_hash = 0
      <3>1. procs[i].step_tx_status \in {"DONE", "RETRY"}
        BY <1>4 DEF SInv, IInv, TodoInv, SendStepTx, Handle, SelectSend
      <3> QED
        BY <1>1, <1>3, <3>1 DEF RowOK
    <2> HIDE DEF row
    <2> QED
      BY <1>2, <2>1, <2>2, <2>3 DEF HandlerStep
  <1>5. CASE SyncStepTxSuccess(i)
    <2> DEFINE row == [procs[i] EXCEPT !.step_tx_status = "DONE",
                           !.process_status =
                              IF procs[i].step = 1 THEN "DONE_SUCCESS" ELSE @]
    <2>1. /\ row.step_tx_hash = procs[i].step_tx_hash /\ SameParty(row, procs[i])
          /\ row.revert_tx_status = procs[i].revert_tx_status
      BY <1>1 DEF Row, SameParty
    <2>2. Commit(i, row) /\ txs' = txs
      BY <1>5 DEF SyncStepTxSuccess
    <2> HIDE DEF row
    <2> QED
      BY <1>2, <2>1, <2>2 DEF HandlerStep
  <1>6. CASE SyncStepTxRetry(i)
    <2> DEFINE row == [procs[i] EXCEPT !.step_tx_hash = 0, !.step_tx_status = "RETRY"]
    <2>1. /\ row.step_tx_hash = 0 /\ SameParty(row, procs[i])
          /\ row.revert_tx_status = procs[i].revert_tx_status
      BY <1>1 DEF Row, SameParty
    <2>2. /\ Commit(i, row) /\ txs' = txs /\ StepReceipt(i) = "reverted"
          /\ procs[i].process_type # "CREATE_DELIVERY"
      BY <1>6 DEF SyncStepTxRetry
    <2>3. procs[i].step_tx_hash # 0
      BY <1>1, <1>6 DEF SInv, IInv, TodoInv, SyncStepTxRetry, Handle, SelectSync, RowOK
    <2> HIDE DEF row
    <2> QED
      BY <1>2, <2>1, <2>2, <2>3 DEF HandlerStep
  <1>7. CASE SyncStepTxRevert(i)
    <2> DEFINE row == [procs[i] EXCEPT !.step_tx_status = "FAILED",
                                       !.revert_tx_hash = Len(txs) + 1,
                                       !.revert_tx_status = "PENDING"]
    <2>1. row.step_tx_hash = procs[i].step_tx_hash /\ SameParty(row, procs[i])
      BY <1>1 DEF Row, SameParty
    <2>2. /\ Commit(i, row) /\ Send(i, "withdrawPartial")
          /\ StepReceipt(i) = "reverted"
          /\ procs[i].process_type = "CREATE_DELIVERY"
      BY <1>7 DEF SyncStepTxRevert
    <2>3. procs[i].step_tx_hash # 0
      BY <1>1, <1>7 DEF SInv, IInv, TodoInv, SyncStepTxRevert, Handle, SelectSync, RowOK
    <2> HIDE DEF row
    <2> QED
      BY <1>2, <2>1, <2>2, <2>3 DEF HandlerStep
  <1>8. CASE SyncRevertTx(i)
    <2>1. procs[i].revert_tx_status = "PENDING"
      BY <1>8 DEF SInv, IInv, TodoInv, SyncRevertTx, Handle, SelectRevert
    <2>2. procs[i].step_tx_hash # 0 /\ procs[i].process_type = "CREATE_DELIVERY"
      BY <1>1, <2>1 DEF PartyOK
    <2>3. CASE StepReceipt(i) = "reverted"
      <3> DEFINE row == [procs[i] EXCEPT !.revert_tx_hash = Len(txs) + 1,
                                         !.revert_tx_status = "PENDING"]
      <3>1. row.step_tx_hash = procs[i].step_tx_hash /\ SameParty(row, procs[i])
        BY <1>1 DEF Row, SameParty
      <3>2. Commit(i, row) /\ Send(i, "withdrawPartial")
        BY <1>8, <2>3 DEF SyncRevertTx
      <3> HIDE DEF row
      <3> QED
        BY <1>2, <2>1, <2>2, <2>3, <3>1, <3>2 DEF HandlerStep
    <2>4. CASE StepReceipt(i) # "reverted"
      <3> DEFINE row == [procs[i] EXCEPT !.process_status = "DONE_FAILED",
                                         !.revert_tx_status = "DONE"]
      <3>1. row.step_tx_hash = procs[i].step_tx_hash /\ SameParty(row, procs[i])
        BY <1>1 DEF Row, SameParty
      <3>2. Commit(i, row) /\ txs' = txs
        BY <1>8, <2>4 DEF SyncRevertTx
      <3> HIDE DEF row
      <3> QED
        BY <1>2, <2>1, <3>1, <3>2 DEF HandlerStep
    <2> QED
      BY <2>3, <2>4
  <1> QED
    BY <1>4, <1>5, <1>6, <1>7, <1>8 DEF HandleRow

\* The transaction a handler sends.
LEMMA SendDoes ==
    ASSUME TypeOK, NEW i \in DOMAIN procs, NEW kind, Send(i, kind)
    PROVE  LET h == Len(txs) + 1
           IN  /\ DOMAIN txs' = DOMAIN txs \cup {h} /\ h \notin DOMAIN txs
               /\ \A g \in DOMAIN txs : txs'[g] = txs[g]
               /\ txs'[h].from = procs[i].issuer /\ txs'[h].amount = procs[i].amount
               /\ txs'[h].proc = i /\ txs'[h].kind = kind
               /\ txs'[h].status = "pending"
  <1> DEFINE tx == [from |-> procs[i].issuer, kind |-> kind, proc |-> i,
                    amount |-> procs[i].amount, status |-> "pending"]
             h == Len(txs) + 1
  <1>1. txs' = Append(txs, tx) /\ txs \in Seq(Tx)
    BY DEF Send, TypeOK
  <1>2. /\ DOMAIN txs = 1..Len(txs) /\ Len(txs) \in Nat
        /\ DOMAIN Append(txs, tx) = 1..Len(txs) + 1
        /\ \A g \in DOMAIN txs : Append(txs, tx)[g] = txs[g]
        /\ Append(txs, tx)[h] = tx
    BY <1>1
  <1>3. /\ tx.from = procs[i].issuer /\ tx.amount = procs[i].amount
        /\ tx.proc = i /\ tx.kind = kind /\ tx.status = "pending"
    OBVIOUS
  <1> HIDE DEF tx
  <1> QED
    BY <1>1, <1>2, <1>3

\* The indexer appends the row of every known closed delivery, once.
LEMMA IndexRows ==
    ASSUME TypeOK, IndexDelivery
    PROVE  LET New == DOMAIN procs' \ DOMAIN procs
           IN  /\ DOMAIN procs \subseteq DOMAIN procs'
               /\ \A i \in DOMAIN procs : procs'[i] = procs[i]
               /\ \A i \in New : procs'[i].ref \in Known /\ procs'[i] = RowFor(procs'[i].ref)
               /\ \A i, j \in New : procs'[i].ref = procs'[j].ref => i = j
               /\ \A k \in Known : \E i \in New : procs'[i].ref = k
  <1> DEFINE row(k) == NewProcess(CloseType[delivery[k].status],
                                  Withdrawer(delivery[k].status),
                                  delivery[k].amount, k)
  <1>1. PICK order \in [1..Cardinality(Known) -> Known] :
           /\ InOrder(order)
           /\ procs' = procs \o [n \in DOMAIN order |-> row(order[n])]
    BY DEF IndexDelivery, Known
  <1> DEFINE rows == [n \in DOMAIN order |-> row(order[n])]
             num == Cardinality(Known)
  <1>2. delivery \in [1..Len(delivery) -> Delivery] /\ Len(delivery) \in Nat
    BY LenProperties DEF TypeOK
  <1>3. IsFiniteSet(Known) /\ num \in Nat
    <2>1. IsFiniteSet(1..Len(delivery))
      BY <1>2, FS_Interval
    <2>2. Known \subseteq 1..Len(delivery)
      BY <1>2 DEF Known, Unindexed
    <2> QED
      BY <2>1, <2>2, FS_Subset, FS_CardinalityType
  <1>4. \A k \in Known : k \in Nat /\ delivery[k].status \in {"canceled", "finished", "aborted"}
    BY <1>2 DEF Known, Unindexed, CloseType
  <1>5. \A n, m \in 1..num : n < m => order[n] # order[m]
    <2> SUFFICES ASSUME NEW n \in 1..num, NEW m \in 1..num, n < m, order[n] = order[m]
                 PROVE  FALSE
      OBVIOUS
    <2>1. ClosedBefore(order[n], order[n]) /\ order[n] \in Known
      BY <1>1 DEF InOrder
    <2>2. TypeRank[delivery[order[n]].status] \in Int
      BY <1>4, <2>1 DEF TypeRank
    <2> QED
      BY <1>4, <2>1, <2>2 DEF ClosedBefore
  <1>6. \A n, m \in 1..num : order[n] = order[m] => n = m
    BY <1>3, <1>5
  <1>7. \A k \in Known : \E n \in 1..num : order[n] = k
    <2>1. order \in Injection(1..num, Known)
      BY <1>6 DEF Injection, IsInjective
    <2>2. Cardinality(1..num) = num
      BY <1>3, FS_Interval
    <2>3. order \in Surjection(1..num, Known)
      BY <1>3, <2>1, <2>2, FS_Injection
    <2> QED
      BY <2>3 DEF Surjection
  <1>8. \A k : row(k).ref = k /\ row(k) = RowFor(k)
    BY DEF NewProcess, RowFor
  <1>9. procs \in Seq(Row)
    BY DEF TypeOK
  <1> HIDE DEF row
  <1>10. rows \in Seq({row(k) : k \in Known}) /\ Len(rows) = num
    BY <1>3
  <1>11. \A n \in 1..num : rows[n] = row(order[n]) /\ order[n] \in Known
    OBVIOUS
  <1>12. procs' = procs \o rows
    BY <1>1
  <1> HIDE DEF rows, num
  <1>13. /\ DOMAIN procs = 1..Len(procs) /\ Len(procs) \in Nat /\ num \in Nat
         /\ DOMAIN procs' = 1..(Len(procs) + num)
         /\ \A i \in 1..Len(procs) : procs'[i] = procs[i]
         /\ \A i \in DOMAIN procs' \ DOMAIN procs : procs'[i] = rows[i - Len(procs)]
    <2> DEFINE Any == Row \cup {row(k) : k \in Known}
    <2>1. procs \in Seq(Any) /\ rows \in Seq(Any)
      BY <1>9, <1>10
    <2> HIDE DEF Any
    <2>2. /\ procs' \in Seq(Any)
          /\ Len(procs') = Len(procs) + Len(rows)
          /\ \A i \in 1..Len(procs) + Len(rows) :
                procs'[i] = IF i <= Len(procs) THEN procs[i] ELSE rows[i - Len(procs)]
      BY <1>12, <2>1, ConcatProperties
    <2>3. /\ DOMAIN procs = 1..Len(procs) /\ DOMAIN procs' = 1..Len(procs')
          /\ Len(procs) \in Nat
      BY <2>1, <2>2, LenProperties
    <2> QED
      BY <1>3, <1>10, <2>2, <2>3
  <1>14. \A i \in DOMAIN procs' \ DOMAIN procs :
            /\ i - Len(procs) \in 1..num
            /\ procs'[i] = row(order[i - Len(procs)])
    BY <1>11, <1>13
  <1>15. \A i \in DOMAIN procs' \ DOMAIN procs :
            procs'[i].ref = order[i - Len(procs)] /\ procs'[i].ref \in Known
    BY <1>8, <1>11, <1>14
  <1>16. \A i, j \in DOMAIN procs' \ DOMAIN procs : procs'[i].ref = procs'[j].ref => i = j
    BY <1>6, <1>13, <1>14, <1>15
  <1>17. \A k \in Known : \E i \in DOMAIN procs' \ DOMAIN procs : procs'[i].ref = k
    <2> SUFFICES ASSUME NEW k \in Known
                 PROVE  \E i \in DOMAIN procs' \ DOMAIN procs : procs'[i].ref = k
      OBVIOUS
    <2>1. PICK n \in 1..num : order[n] = k
      BY <1>7
    <2>2. Len(procs) + n \in DOMAIN procs' \ DOMAIN procs /\ (Len(procs) + n) - Len(procs) = n
      BY <1>13
    <2> QED
      BY <1>15, <2>1, <2>2
  <1>18. \A i \in DOMAIN procs' \ DOMAIN procs : procs'[i] = RowFor(procs'[i].ref)
    BY <1>8, <1>14, <1>15
  <1> QED
    BY <1>13, <1>15, <1>16, <1>17, <1>18

\* What the indexer does to the deliveries.
LEMMA IndexMarks ==
    ASSUME TypeOK, IndexDelivery
    PROVE  /\ DOMAIN delivery' = DOMAIN delivery
           /\ \A k \in DOMAIN delivery :
                 /\ delivery'[k].status = delivery[k].status
                 /\ delivery'[k].amount = delivery[k].amount
                 /\ delivery'[k].indexed = (delivery[k].indexed \/ k \in Unindexed)
  <1>1. \A k \in DOMAIN delivery : delivery[k] \in Delivery
    BY LenProperties, ElementOfSeq DEF TypeOK
  <1>2. delivery' = [k \in DOMAIN delivery |->
                        [delivery[k] EXCEPT !.indexed = @ \/ k \in Unindexed]]
    BY DEF IndexDelivery
  <1>3. \A k \in DOMAIN delivery :
           delivery'[k] = [delivery[k] EXCEPT !.indexed = @ \/ k \in Unindexed]
    BY <1>2
  <1> QED
    BY <1>1, <1>2, <1>3 DEF Delivery

Once == PartyInv /\ CloseInv /\ TxInv /\ OnceInv

\* Nothing it speaks of changes but the status of pending transactions, the
\* progress of deliveries that are not indexed, and new deliveries.
LEMMA OnceSameRows ==
    ASSUME SInv, procs' = procs, crashes'.send = crashes.send,
           DOMAIN txs' = DOMAIN txs,
           \A h \in DOMAIN txs :
              /\ txs'[h].proc = txs[h].proc /\ txs'[h].kind = txs[h].kind
              /\ txs'[h].from = txs[h].from /\ txs'[h].amount = txs[h].amount
              /\ txs[h].status = "reverted" => txs'[h].status = "reverted",
           DOMAIN delivery \subseteq DOMAIN delivery',
           \A k \in DOMAIN delivery' \ DOMAIN delivery : ~delivery'[k].indexed,
           \A k \in DOMAIN delivery :
              /\ delivery'[k].indexed = delivery[k].indexed
              /\ delivery[k].indexed => delivery'[k].status = delivery[k].status
    PROVE  Once'
  <1>1. PartyInv'
    BY DEF SInv, PartyInv, PartyOK
  <1>2. CloseInv'
    BY DEF SInv, CloseInv
  <1>3. TxInv'
    BY DEF SInv, TxInv
  <1>4. OnceInv'
    BY DEF SInv, OnceInv, TxInv, IsStep, StepTx
  <1> QED
    BY <1>1, <1>2, <1>3, <1>4 DEF Once

\* Rows are appended: those of deliveries that were not indexed before, and
\* those of the API.
LEMMA OnceNewRows ==
    ASSUME SInv, txs' = txs, crashes' = crashes,
           DOMAIN procs \subseteq DOMAIN procs',
           \A i \in DOMAIN procs : procs'[i] = procs[i],
           DOMAIN delivery' = DOMAIN delivery,
           \A k \in DOMAIN delivery :
              /\ delivery'[k].status = delivery[k].status
              /\ delivery'[k].indexed = (delivery[k].indexed \/ k \in Unindexed)
              /\ delivery'[k].indexed => delivery[k].indexed \/ k \in Unindexed,
           \A i \in DOMAIN procs' \ DOMAIN procs :
              /\ procs'[i].issuer \in Managed /\ procs'[i].revert_tx_status = "NONE"
              /\ procs'[i].process_type # "CREATE_DELIVERY" =>
                    procs'[i].ref \in Unindexed /\ delivery'[procs'[i].ref].indexed,
           \A i, j \in DOMAIN procs' \ DOMAIN procs :
              /\ procs'[i].process_type # "CREATE_DELIVERY"
              /\ procs'[j].process_type # "CREATE_DELIVERY"
              /\ procs'[i].ref = procs'[j].ref
              => i = j
    PROVE  Once'
  <1>1. PartyInv'
    <2> SUFFICES ASSUME NEW i \in DOMAIN procs' PROVE PartyOK(procs[i])'
      BY DEF PartyInv
    <2>1. CASE i \in DOMAIN procs
      BY <2>1 DEF SInv, PartyInv, PartyOK
    <2>2. CASE i \notin DOMAIN procs
      BY <2>2 DEF PartyOK, Unindexed
    <2> QED
      BY <2>1, <2>2
  <1>2. CloseInv'
    <2>1. \A k \in DOMAIN delivery' :
             delivery'[k].indexed => delivery'[k].status \in DOMAIN CloseType
      BY DEF SInv, CloseInv, Unindexed
    <2>2. ASSUME NEW i \in DOMAIN procs', NEW j \in DOMAIN procs',
                 procs'[i].process_type # "CREATE_DELIVERY",
                 procs'[j].process_type # "CREATE_DELIVERY",
                 procs'[i].ref = procs'[j].ref
          PROVE  i = j
      <3>1. CASE i \in DOMAIN procs /\ j \in DOMAIN procs
        BY <2>2, <3>1 DEF SInv, CloseInv
      <3>2. CASE i \notin DOMAIN procs /\ j \notin DOMAIN procs
        BY <2>2, <3>2
      <3>3. ASSUME NEW n \in DOMAIN procs, NEW m \in DOMAIN procs' \ DOMAIN procs,
                   procs'[n].process_type # "CREATE_DELIVERY",
                   procs'[m].process_type # "CREATE_DELIVERY",
                   procs'[n].ref = procs'[m].ref
            PROVE  FALSE
        <4>1. delivery[procs[n].ref].indexed
          BY <3>3 DEF SInv, PartyInv, PartyOK
        <4>2. procs'[m].ref \in Unindexed
          BY <3>3
        <4> QED
          BY <3>3, <4>1, <4>2 DEF Unindexed
      <3> QED
        BY <2>2, <3>1, <3>2, <3>3
    <2> QED
      BY <2>1, <2>2 DEF CloseInv
  <1>3. TxInv'
    BY DEF SInv, TxInv
  <1>4. OnceInv'
    BY DEF SInv, OnceInv, TxInv, IsStep, StepTx
  <1> QED
    BY <1>1, <1>2, <1>3, <1>4 DEF Once

\* A handler gives a row a new step transaction only when its former one is
\* forgotten, and forgets one only when it was reverted.
LEMMA OnceHandler ==
    ASSUME SInv, NEW i \in todo, HandleRow(i)
    PROVE  Once'
  <1>1. /\ i \in DOMAIN procs /\ TypeOK /\ HandlerStep(i)
        /\ delivery' = delivery /\ crashes' = crashes
    BY HandlerDoes DEF SInv, IInv, TypeOK, HandleRow, SendStepTx, SyncStepTxSuccess,
                       SyncStepTxRetry, SyncStepTxRevert, SyncRevertTx
  <1>2. DOMAIN procs' = DOMAIN procs /\ \A j \in DOMAIN procs : SameParty(procs'[j], procs[j])
    BY <1>1 DEF HandlerStep, SameParty
  <1>3. PartyInv'
    <2>1. ASSUME NEW j \in DOMAIN procs PROVE PartyOK(procs[j])'
      <3>1. PartyOK(procs[j])
        BY DEF SInv, PartyInv
      <3>2. CASE j = i
        <4>1. procs'[i].revert_tx_status = "PENDING" =>
                 procs'[i].step_tx_hash # 0 /\ procs'[i].process_type = "CREATE_DELIVERY"
          <5>1. Len(txs) + 1 # 0
            BY <1>1, LenProperties DEF TypeOK
          <5> QED
            BY <1>1, <3>1, <3>2, <5>1 DEF HandlerStep, PartyOK, SameParty
        <4> QED
          BY <1>1, <1>2, <3>1, <3>2, <4>1 DEF PartyOK, SameParty
      <3>3. CASE j # i
        BY <1>1, <3>1, <3>3 DEF HandlerStep, PartyOK
      <3> QED
        BY <3>2, <3>3
    <2> QED
      BY <1>2, <2>1 DEF PartyInv
  <1>4. CloseInv'
    BY <1>1, <1>2 DEF SInv, CloseInv, SameParty
  <1> DEFINE new == Len(txs) + 1
  <1>5. \/ txs' = txs
        \/ \E kind : /\ Send(i, kind)
                     /\ DOMAIN txs' = DOMAIN txs \cup {new} /\ new \notin DOMAIN txs
                     /\ \A g \in DOMAIN txs : txs'[g] = txs[g]
                     /\ txs'[new].from = procs[i].issuer
                     /\ txs'[new].amount = procs[i].amount
                     /\ txs'[new].proc = i /\ txs'[new].kind = kind
    BY <1>1, SendDoes DEF HandlerStep
  <1> HIDE DEF new
  <1>6. TxInv'
    BY <1>1, <1>2, <1>5 DEF SInv, TxInv, SameParty
  <1>7. ASSUME crashes.send = 0, NEW h \in DOMAIN txs,
               IsStep(h), txs[h].status # "reverted"
        PROVE  procs'[txs[h].proc].step_tx_hash = h
    <2>1. procs[txs[h].proc].step_tx_hash = h /\ txs[h].proc \in DOMAIN procs /\ h # 0
      <3>1. DOMAIN txs = 1..Len(txs)
        BY <1>1, LenProperties DEF TypeOK
      <3> QED
        BY <1>7, <3>1 DEF SInv, OnceInv, TxInv
    <2>2. CASE txs[h].proc # i
      BY <1>1, <2>1, <2>2 DEF HandlerStep
    <2>3. CASE txs[h].proc = i
      <3>1. StepReceipt(i) # "reverted" /\ procs[i].step_tx_hash # 0
        BY <1>7, <2>1, <2>3 DEF StepReceipt
      <3>2. procs'[i].step_tx_hash = procs[i].step_tx_hash
        BY <1>1, <3>1 DEF HandlerStep
      <3> QED
        BY <2>1, <2>3, <3>2
    <2> QED
      BY <2>2, <2>3
  <1>8. \A h \in DOMAIN txs : txs[h].proc \in DOMAIN procs /\ txs'[h] = txs[h]
                              /\ StepTx(txs[h].proc)' = StepTx(txs[h].proc)
    BY <1>2, <1>5 DEF SInv, TxInv, StepTx, SameParty
  <1>9. ASSUME NEW h \in DOMAIN txs', h \notin DOMAIN txs, IsStep(h)'
        PROVE  procs'[txs'[h].proc].step_tx_hash = h
    <2>1. h = new /\ txs'[h].proc = i
      BY <1>5, <1>9
    <2>2. CASE Send(i, StepTx(i)) /\ procs'[i].step_tx_hash = Len(txs) + 1
      BY <2>1, <2>2 DEF new
    <2>3. CASE Send(i, "withdrawPartial") /\ procs[i].process_type = "CREATE_DELIVERY"
      <3>1. txs'[h].kind = "withdrawPartial"
        BY <1>1, <2>1, <2>3, SendDoes DEF new
      <3>2. StepTx(i)' = "createDelivery"
        BY <1>1, <1>2, <2>3 DEF StepTx, SameParty
      <3> QED
        BY <1>9, <2>1, <3>1, <3>2 DEF IsStep
    <2> QED
      BY <1>1, <1>9, <2>2, <2>3 DEF HandlerStep
  <1>10. OnceInv'
    <2> SUFFICES ASSUME crashes.send = 0, NEW h \in DOMAIN txs',
                        IsStep(h)', txs'[h].status # "reverted"
                 PROVE  procs'[txs'[h].proc].step_tx_hash = h
      BY <1>1 DEF OnceInv
    <2>1. CASE h \in DOMAIN txs
      <3>1. IsStep(h) /\ txs[h].status # "reverted"
        BY <1>8, <2>1 DEF IsStep
      <3> QED
        BY <1>7, <1>8, <2>1, <3>1
    <2>2. CASE h \notin DOMAIN txs
      BY <1>9, <2>2
    <2> QED
      BY <2>1, <2>2
  <1> QED
    BY <1>3, <1>4, <1>6, <1>10 DEF Once

\* A send that is cut off from its commit.
LEMMA OnceCrash ==
    ASSUME SInv, NEW i \in todo, SendCrash(i)
    PROVE  Once'
  <1>1. /\ i \in DOMAIN procs /\ TypeOK /\ procs' = procs /\ delivery' = delivery
        /\ crashes.send \in Nat /\ crashes'.send = crashes.send + 1
    BY DEF SInv, IInv, TypeOK, SendCrash
  <1>2. PartyInv' /\ CloseInv'
    BY <1>1 DEF SInv, PartyInv, PartyOK, CloseInv
  <1>3. PICK kind : Send(i, kind)
    BY DEF SendCrash
  <1>4. TxInv'
    BY <1>1, <1>3, SendDoes DEF SInv, TxInv
  <1>5. OnceInv'
    BY <1>1 DEF OnceInv
  <1> QED
    BY <1>2, <1>4, <1>5 DEF Once

\* What mining, losing, confirming and closing leave as it is.
LEMMA ChainKeeps ==
    ASSUME TypeOK, CloseInv, Chain
    PROVE  /\ DOMAIN txs' = DOMAIN txs
           /\ \A h \in DOMAIN txs :
                /\ txs'[h].proc = txs[h].proc /\ txs'[h].kind = txs[h].kind
                /\ txs'[h].from = txs[h].from /\ txs'[h].amount = txs[h].amount
                /\ txs[h].status = "reverted" => txs'[h].status = "reverted"
           /\ DOMAIN delivery \subseteq DOMAIN delivery'
           /\ \A k \in DOMAIN delivery' \ DOMAIN delivery : ~delivery'[k].indexed
           /\ \A k \in DOMAIN delivery :
                /\ delivery'[k].indexed = delivery[k].indexed
                /\ delivery[k].indexed => delivery'[k].status = delivery[k].status
           /\ procs' = procs /\ crashes'.send = crashes.send
  <1>1. /\ \A h \in DOMAIN txs : txs[h] \in Tx
        /\ \A k \in DOMAIN delivery : delivery[k] \in Delivery
        /\ delivery \in Seq(Delivery)
    BY LenProperties, ElementOfSeq DEF TypeOK
  <1>2. crashes \in [api : Nat, send : Nat, abandon : Nat, lost : Nat]
    BY DEF TypeOK
  <1>3. ASSUME NEW h \in DOMAIN txs, Mine(h) \/ Lose(h)
        PROVE  /\ DOMAIN txs' = DOMAIN txs
               /\ \A g \in DOMAIN txs :
                    /\ txs'[g].proc = txs[g].proc /\ txs'[g].kind = txs[g].kind
                    /\ txs'[g].from = txs[g].from /\ txs'[g].amount = txs[g].amount
                    /\ txs[g].status = "reverted" => txs'[g].status = "reverted"
    <2>1. PICK st : txs' = [txs EXCEPT ![h] = [txs[h] EXCEPT !.status = st]]
      BY <1>3 DEF Mine, Lose
    <2>2. txs[h].status = "pending"
      BY <1>3 DEF Mine, Lose
    <2>3. \A g \in DOMAIN txs :
             txs'[g] = IF g = h THEN [txs[h] EXCEPT !.status = st] ELSE txs[g]
      BY <2>1
    <2>4. /\ [txs[h] EXCEPT !.status = st].proc = txs[h].proc
          /\ [txs[h] EXCEPT !.status = st].kind = txs[h].kind
          /\ [txs[h] EXCEPT !.status = st].from = txs[h].from
          /\ [txs[h] EXCEPT !.status = st].amount = txs[h].amount
      BY <1>1 DEF Tx
    <2> QED
      BY <2>1, <2>2, <2>3, <2>4
  <1>4. ASSUME NEW h \in DOMAIN txs, Mine(h) \/ Lose(h)
        PROVE  /\ DOMAIN delivery \subseteq DOMAIN delivery'
               /\ \A k \in DOMAIN delivery' \ DOMAIN delivery : ~delivery'[k].indexed
               /\ \A k \in DOMAIN delivery : delivery'[k] = delivery[k]
    <2> DEFINE d == [tx |-> h, amount |-> txs[h].amount,
                     status |-> "created", indexed |-> FALSE]
    <2>1. d \in Delivery /\ ~d.indexed
      <3>1. txs[h].amount \in Nat \ {0} /\ h \in Nat
        BY <1>1, LenProperties DEF Tx, TypeOK
      <3> QED
        BY <3>1 DEF Delivery
    <2>2. delivery' = delivery \/ delivery' = Append(delivery, d)
      BY <1>4 DEF Mine, Lose
    <2> HIDE DEF d
    <2> QED
      BY <1>1, <2>1, <2>2, AppendToSeq
  <1>5. ASSUME NEW h \in DOMAIN txs, Mine(h) \/ Lose(h)
        PROVE  procs' = procs /\ crashes'.send = crashes.send
    BY <1>2, <1>5 DEF Mine, Lose
  <1>6. ASSUME NEW k \in DOMAIN delivery,
               Confirm(k) \/ \E status \in DOMAIN CloseType : Close(k, status)
        PROVE  /\ DOMAIN delivery' = DOMAIN delivery
               /\ \A l \in DOMAIN delivery :
                    /\ delivery'[l].indexed = delivery[l].indexed
                    /\ delivery[l].indexed => delivery'[l].status = delivery[l].status
               /\ txs' = txs /\ procs' = procs /\ crashes' = crashes
    <2>1. PICK st : delivery' = [delivery EXCEPT ![k] = [delivery[k] EXCEPT !.status = st]]
      BY <1>6 DEF Confirm, Close
    <2>2. ~delivery[k].indexed
      <3>1. delivery[k].status \in {"created", "confirmed"}
        BY <1>6 DEF Confirm, Close
      <3> QED
        BY <3>1 DEF CloseInv, CloseType
    <2>3. \A l \in DOMAIN delivery :
             delivery'[l] = IF l = k THEN [delivery[k] EXCEPT !.status = st] ELSE delivery[l]
      BY <2>1
    <2>4. [delivery[k] EXCEPT !.status = st].indexed = delivery[k].indexed
      BY <1>1 DEF Delivery
    <2>5. txs' = txs /\ procs' = procs /\ crashes' = crashes
      BY <1>6 DEF Confirm, Close
    <2> QED
      BY <2>1, <2>2, <2>3, <2>4, <2>5
  <1> QED
    BY <1>3, <1>4, <1>5, <1>6 DEF Chain

LEMMA OnceNext == SInv /\ [Next]_vars => SInv'
  <1> SUFFICES ASSUME SInv, [Next]_vars PROVE SInv'
    OBVIOUS
  <1>1. IInv' /\ TypeOK /\ TypeOK' /\ CloseInv
    BY InvNext, TypingNext DEF SInv, IInv
  <1>2. ASSUME procs' = procs, txs' = txs, delivery' = delivery, crashes'.send = crashes.send
        PROVE  Once'
    BY <1>2, OnceSameRows
  <1>3. crashes \in [api : Nat, send : Nat, abandon : Nat, lost : Nat]
    BY <1>1 DEF TypeOK
  <1>4. ASSUME NEW d \in Requests, Deposit(d) \/ ApiCrash(d)
        PROVE  Once'
    <2>1. procs' = procs /\ txs' = txs /\ delivery' = delivery
      BY <1>4 DEF Deposit, ApiCrash
    <2>2. crashes'.send = crashes.send
      BY <1>3, <1>4 DEF Deposit, ApiCrash
    <2> QED
      BY <1>2, <2>1, <2>2
  <1>5. ASSUME NEW d \in Requests, InsertProcess(d)
        PROVE  Once'
    <2> DEFINE row == NewProcess("CREATE_DELIVERY", Seller, Amount[d], d)
    <2>1. row \in Row
      BY DVPAssumption, NewRow DEF ProcessType, Accounts
    <2>2. /\ row.issuer \in Managed /\ row.revert_tx_status = "NONE"
          /\ row.process_type = "CREATE_DELIVERY"
      BY DVPAssumption DEF NewProcess
    <2>3. procs' = Append(procs, row) /\ procs \in Seq(Row)
      BY <1>1, <1>5 DEF InsertProcess, TypeOK
    <2>4. /\ txs' = txs /\ delivery' = delivery /\ crashes' = crashes
      BY <1>5 DEF InsertProcess
    <2> HIDE DEF row
    <2>5. /\ DOMAIN procs \subseteq DOMAIN procs'
          /\ \A i \in DOMAIN procs : procs'[i] = procs[i]
          /\ \A i \in DOMAIN procs' \ DOMAIN procs : procs'[i] = row
      BY <2>1, <2>3, AppendToSeq
    <2>6. PartyInv' /\ CloseInv'
      BY <2>2, <2>4, <2>5 DEF SInv, PartyInv, PartyOK, CloseInv
    <2>7. TxInv' /\ OnceInv'
      BY <2>4, <2>5 DEF SInv, TxInv, OnceInv, IsStep, StepTx
    <2> QED
      BY <2>6, <2>7 DEF Once
  <1>6. ASSUME Chain PROVE Once'
    BY <1>1, <1>6, ChainKeeps, OnceSameRows
  <1>7. ASSUME IndexDelivery PROVE Once'
    <2>1. txs' = txs /\ crashes' = crashes
      BY <1>7 DEF IndexDelivery
    <2> DEFINE New == DOMAIN procs' \ DOMAIN procs
    <2>2. /\ DOMAIN procs \subseteq DOMAIN procs'
          /\ \A i \in DOMAIN procs : procs'[i] = procs[i]
          /\ \A i \in New : procs'[i].ref \in Known /\ procs'[i] = RowFor(procs'[i].ref)
          /\ \A i, j \in New : procs'[i].ref = procs'[j].ref => i = j
      BY <1>1, <1>7, IndexRows
    <2>3. /\ DOMAIN delivery' = DOMAIN delivery
          /\ \A k \in DOMAIN delivery :
                /\ delivery'[k].status = delivery[k].status
                /\ delivery'[k].indexed = (delivery[k].indexed \/ k \in Unindexed)
      BY <1>1, <1>7, IndexMarks
    <2>4. \A k \in Known : k \in Unindexed /\ k \in DOMAIN delivery
                           /\ Withdrawer(delivery[k].status) \in Managed
      BY DEF Known, Unindexed
    <2>5. \A k : RowFor(k).issuer = Withdrawer(delivery[k].status)
                 /\ RowFor(k).revert_tx_status = "NONE"
      BY DEF RowFor, NewProcess
    <2>6. ASSUME NEW i \in New
          PROVE  /\ procs'[i].issuer \in Managed
                 /\ procs'[i].revert_tx_status = "NONE"
                 /\ procs'[i].ref \in Unindexed /\ delivery'[procs'[i].ref].indexed
      <3>1. PICK k \in Known : procs'[i].ref = k /\ procs'[i] = RowFor(k)
        BY <2>2
      <3>2. delivery'[k].indexed
        BY <2>3, <2>4
      <3> QED
        BY <2>4, <2>5, <3>1, <3>2
    <2>7. \A k \in DOMAIN delivery :
             delivery'[k].indexed => delivery[k].indexed \/ k \in Unindexed
      BY <2>3
    <2>8. \A i, j \in New :
             /\ procs'[i].process_type # "CREATE_DELIVERY"
             /\ procs'[j].process_type # "CREATE_DELIVERY"
             /\ procs'[i].ref = procs'[j].ref
             => i = j
      BY <2>2
    <2> QED
      BY <2>1, <2>2, <2>3, <2>6, <2>7, <2>8, OnceNewRows
  <1>8. ASSUME NEW i \in todo, HandleRow(i)
        PROVE  Once'
    BY <1>8, OnceHandler
  <1>9. ASSUME NEW i \in todo, SendCrash(i)
        PROVE  Once'
    BY <1>9, OnceCrash
  <1>10. ASSUME NextPhase \/ \E i \in todo : SkipRow(i) PROVE Once'
    BY <1>2, <1>10 DEF NextPhase, SkipRow
  <1>11. ASSUME Abandon PROVE Once'
    BY <1>2, <1>3, <1>11 DEF Abandon
  <1>12. ASSUME UNCHANGED vars PROVE Once'
    BY <1>2, <1>12 DEF vars
  <1> QED
    BY <1>1, <1>4, <1>5, <1>6, <1>7, <1>8, <1>9, <1>10, <1>11, <1>12
       DEF Next, Api, Processor, Once, SInv

LEMMA OnceInit == Init => SInv
  <1> SUFFICES ASSUME Init PROVE SInv
    OBVIOUS
  <1>1. procs = << >> /\ txs = << >> /\ delivery = << >>
    BY DEF Init
  <1>2. PartyInv /\ CloseInv /\ TxInv /\ OnceInv
    BY <1>1 DEF PartyInv, CloseInv, TxInv, OnceInv
  <1> QED
    BY <1>2, InvInit DEF SInv

LEMMA OnceImpliesSafe == SInv => StepExecutedOnce
  <1> SUFFICES ASSUME SInv, crashes.send = 0, NEW i \in DOMAIN procs
               PROVE  Cardinality(Executed(i, StepTx(i))) <= 1
    BY DEF StepExecutedOnce, SInv, CloseInv
  <1> DEFINE h == procs[i].step_tx_hash
             E == Executed(i, StepTx(i))
  <1>1. E \subseteq {h}
    BY DEF SInv, OnceInv, Executed, IsStep
  <1>2. E = {} \/ E = {h}
    BY <1>1
  <1>3. Cardinality({}) = 0 /\ Cardinality({h}) = 1
    BY FS_EmptySet, FS_Singleton
  <1> QED
    BY <1>2, <1>3

\* While no send is cut off from its commit, every row has its step executed
\* at most once, and every closed delivery is withdrawn through at most one
\* row, whatever is lost, rejected or cut short.
THEOREM StepsOnce == Spec => []StepExecutedOnce
  BY OnceInit, OnceNext, OnceImpliesSafe, PTL DEF Spec

-----------------------------------------------------------------------------
(* The deposits.  While the contract refuses nothing, no step transaction   *)
(* can be reverted: the deposit it needs is there, and is owed to its row.  *)

Rows(a) == {i \in DOMAIN procs : procs[i].issuer = a /\ Executed(i, StepTx(i)) = {}}
Fresh(a) == {k \in Unindexed : Withdrawer(delivery[k].status) = a}

RowSum(a) == SumFunction([i \in Rows(a) |-> procs[i].amount])
FreshSum(a) == SumFunction([k \in Fresh(a) |-> delivery[k].amount])
CallSum == SumFunction([d \in Calls |-> Amount[d]])

Covered ==
    crashes.send = 0 /\ Rejected = {} =>
        /\ \A h \in DOMAIN txs : IsStep(h) /\ txs[h].status # "reverted"
        /\ \A a \in Managed : balance[a] = Owed(a)

AInv == SInv /\ IsFiniteSet(Calls) /\ Covered

LEMMA OwedIs ==
    ASSUME NEW a
    PROVE  Owed(a) = RowSum(a) + FreshSum(a) + (IF a = Seller THEN CallSum ELSE 0)
  BY DEF Owed, RowSum, FreshSum, CallSum, Rows, Fresh, Calls

\* The sums are over finitely many positive amounts.
LEMMA SumsTyped ==
    ASSUME TypeOK, IsFiniteSet(Calls), NEW a
    PROVE  /\ IsFiniteSet(Rows(a)) /\ IsFiniteSet(Fresh(a))
           /\ \A i \in Rows(a) : procs[i].amount \in Nat
           /\ \A k \in Fresh(a) : delivery[k].amount \in Nat
           /\ \A d \in Calls : Amount[d] \in Nat
           /\ RowSum(a) \in Nat /\ FreshSum(a) \in Nat /\ CallSum \in Nat
  <1>1. /\ Len(procs) \in Nat /\ DOMAIN procs = 1..Len(procs)
        /\ Len(delivery) \in Nat /\ DOMAIN delivery = 1..Len(delivery)
        /\ \A i \in DOMAIN procs : procs[i] \in Row
        /\ \A k \in DOMAIN delivery : delivery[k] \in Delivery
    BY LenProperties, ElementOfSeq DEF TypeOK
  <1>2. IsFiniteSet(DOMAIN procs) /\ IsFiniteSet(DOMAIN delivery)
    BY <1>1, FS_Interval
  <1>3. Rows(a) \subseteq DOMAIN procs /\ Fresh(a) \subseteq DOMAIN delivery
    BY DEF Rows, Fresh, Unindexed
  <1>4. IsFiniteSet(Rows(a)) /\ IsFiniteSet(Fresh(a))
    BY <1>2, <1>3, FS_Subset
  <1>5. /\ \A i \in Rows(a) : procs[i].amount \in Nat
        /\ \A k \in Fresh(a) : delivery[k].amount \in Nat
    BY <1>1, <1>3 DEF Row, Delivery
  <1>6. \A d \in Calls : Amount[d] \in Nat
    BY DVPAssumption DEF Calls
  <1>7. RowSum(a) \in Nat
    BY <1>4, <1>5, TotalType DEF RowSum
  <1>8. FreshSum(a) \in Nat
    BY <1>4, <1>5, TotalType DEF FreshSum
  <1>9. CallSum \in Nat
    BY <1>6, TotalType DEF CallSum
  <1> QED
    BY <1>4, <1>5, <1>6, <1>7, <1>8, <1>9

\* Rows keep what they need as long as nothing of theirs is executed.
LEMMA RowSumSame ==
    ASSUME TypeOK, NEW a, DOMAIN procs' = DOMAIN procs,
           \A i \in DOMAIN procs :
              /\ SameParty(procs'[i], procs[i])
              /\ Executed(i, StepTx(i))' = Executed(i, StepTx(i))
    PROVE  Rows(a)' = Rows(a) /\ RowSum(a)' = RowSum(a)
  <1>1. Rows(a)' = Rows(a)
    BY DEF Rows, SameParty
  <1>2. \A i \in Rows(a) : procs'[i].amount = procs[i].amount
    BY DEF Rows, SameParty
  <1>3. [i \in Rows(a)' |-> procs'[i].amount] = [i \in Rows(a) |-> procs[i].amount]
    BY <1>1, <1>2
  <1> QED
    BY <1>1, <1>3 DEF RowSum

LEMMA FreshSumSame ==
    ASSUME NEW a, Fresh(a)' = Fresh(a),
           \A k \in Fresh(a) : delivery'[k].amount = delivery[k].amount
    PROVE  FreshSum(a)' = FreshSum(a)
  <1>1. [k \in Fresh(a)' |-> delivery'[k].amount] = [k \in Fresh(a) |-> delivery[k].amount]
    OBVIOUS
  <1> QED
    BY <1>1 DEF FreshSum

\* What executes for a row is decided by the transactions with a receipt.
LEMMA ExecutedSame ==
    ASSUME NEW i, StepTx(i)' = StepTx(i), DOMAIN txs \subseteq DOMAIN txs',
           \A h \in DOMAIN txs' \ DOMAIN txs : txs'[h].status # "success",
           \A h \in DOMAIN txs :
              /\ txs'[h].proc = txs[h].proc /\ txs'[h].kind = txs[h].kind
              /\ txs'[h].status = "success" <=> txs[h].status = "success"
    PROVE  Executed(i, StepTx(i))' = Executed(i, StepTx(i))
  BY DEF Executed

\* Requests, rows, receipts and closed deliveries all stay the same.
LEMMA OwedSame ==
    ASSUME TypeOK, request' = request, delivery' = delivery, DOMAIN procs' = DOMAIN procs,
           \A i \in DOMAIN procs :
              /\ SameParty(procs'[i], procs[i])
              /\ Executed(i, StepTx(i))' = Executed(i, StepTx(i)),
           NEW a
    PROVE  Owed(a)' = Owed(a)
  <1>1. RowSum(a)' = RowSum(a)
    BY RowSumSame
  <1>2. Fresh(a)' = Fresh(a)
    BY DEF Fresh, Unindexed
  <1>3. FreshSum(a)' = FreshSum(a)
    BY <1>2, FreshSumSame
  <1>4. Calls' = Calls
    BY DEF Calls
  <1>5. CallSum' = CallSum
    BY <1>4 DEF CallSum
  <1>6. Owed(a)' = RowSum(a)' + FreshSum(a)' + (IF a = Seller THEN CallSum' ELSE 0)
    BY DEF Owed, RowSum, FreshSum, CallSum, Rows, Fresh, Calls
  <1> QED
    BY <1>1, <1>3, <1>5, <1>6, OwedIs

LEMMA OwedAfter ==
    ASSUME NEW a
    PROVE  Owed(a)' = RowSum(a)' + FreshSum(a)' + (IF a = Seller THEN CallSum' ELSE 0)
  BY DEF Owed, RowSum, FreshSum, CallSum, Rows, Fresh, Calls

LEMMA AccountsManaged ==
    \A a \in Managed : a \in Accounts
  BY DVPAssumption

\* The API deposits, and owes what it deposited until it inserts the row.
LEMMA CoverApi ==
    ASSUME AInv, NEW d \in Requests, Deposit(d) \/ InsertProcess(d) \/ ApiCrash(d)
    PROVE  IsFiniteSet(Calls') /\ Covered'
  <1>1. /\ TypeOK /\ IsFiniteSet(Calls) /\ Amount[d] \in Nat /\ Seller \in Accounts
        /\ request \in [Requests -> {"new", "deposited", "accepted", "orphaned"}]
        /\ balance \in [Accounts -> Nat] /\ procs \in Seq(Row)
        /\ crashes \in [api : Nat, send : Nat, abandon : Nat, lost : Nat]
    BY DVPAssumption DEF AInv, SInv, IInv, TypeOK, Accounts
  <1>2. txs' = txs /\ delivery' = delivery /\ crashes'.send = crashes.send
    BY <1>1 DEF Deposit, InsertProcess, ApiCrash
  <1>3. \A a : Fresh(a)' = Fresh(a) /\ FreshSum(a)' = FreshSum(a)
    BY <1>2 DEF Fresh, Unindexed, FreshSum
  <1>4. CASE Deposit(d)
    <2>1. Calls' = Calls \cup {d} /\ d \notin Calls
      BY <1>1, <1>4 DEF Deposit, Calls
    <2>2. IsFiniteSet(Calls')
      BY <1>1, <2>1, FS_AddElement
    <2>3. CallSum' = Amount[d] + CallSum
      <3>1. \A c \in Calls \cup {d} : Amount[c] \in Int
        BY DVPAssumption, <1>1 DEF Calls
      <3> DEFINE f == [c \in Calls |-> Amount[c]]
                 g == [c \in Calls \cup {d} |-> Amount[c]]
      <3>2. /\ DOMAIN f = Calls /\ DOMAIN g = Calls \cup {d}
            /\ \A c \in Calls : f[c] \in Int /\ g[c] = f[c]
            /\ g[d] = Amount[d] /\ g[d] \in Int
        BY <3>1
      <3>3. CallSum = SumFunction(f) /\ CallSum' = SumFunction(g)
        BY <2>1 DEF CallSum
      <3> HIDE DEF f, g
      <3> QED
        BY <1>1, <2>1, <3>2, <3>3, TotalAdd
    <2>4. procs' = procs
      BY <1>4 DEF Deposit
    <2>5. \A a : RowSum(a)' = RowSum(a)
      BY <1>2, <2>4 DEF RowSum, Rows, Executed, StepTx
    <2>6. \A a \in Accounts : balance'[a] = IF a = Seller THEN balance[a] + Amount[d] ELSE balance[a]
      BY <1>1, <1>4 DEF Deposit
    <2>7. ASSUME NEW a \in Managed, balance[a] = Owed(a) PROVE balance'[a] = Owed(a)'
      <3>1. RowSum(a) \in Nat /\ FreshSum(a) \in Nat /\ CallSum \in Nat
        BY <1>1, SumsTyped
      <3>2. balance[a] = RowSum(a) + FreshSum(a) + (IF a = Seller THEN CallSum ELSE 0)
        BY <2>7, OwedIs
      <3>3. Owed(a)' = RowSum(a) + FreshSum(a)
                         + (IF a = Seller THEN Amount[d] + CallSum ELSE 0)
        BY <1>3, <2>3, <2>5, OwedAfter
      <3>4. balance'[a] = IF a = Seller THEN balance[a] + Amount[d] ELSE balance[a]
        BY <2>6, AccountsManaged
      <3> QED
        BY <1>1, <3>1, <3>2, <3>3, <3>4
    <2>8. Covered'
      BY <1>2, <2>4, <2>7 DEF AInv, Covered, IsStep, StepTx
    <2> QED
      BY <2>2, <2>8
  <1>5. CASE InsertProcess(d)
    <2> DEFINE row == NewProcess("CREATE_DELIVERY", Seller, Amount[d], d)
    <2>0. PICK new : new = Len(procs) + 1
      OBVIOUS
    <2>1. Calls = Calls' \cup {d} /\ d \notin Calls'
      BY <1>1, <1>5 DEF InsertProcess, Calls
    <2>2. IsFiniteSet(Calls')
      BY <1>1, <2>1, FS_Subset
    <2>3. CallSum = Amount[d] + CallSum'
      <3>1. \A c \in Calls' \cup {d} : Amount[c] \in Int
        BY DVPAssumption, <1>1 DEF Calls
      <3> DEFINE f == [c \in Calls' |-> Amount[c]]
                 g == [c \in Calls' \cup {d} |-> Amount[c]]
      <3>2. /\ DOMAIN f = Calls' /\ DOMAIN g = Calls' \cup {d}
            /\ \A c \in Calls' : f[c] \in Int /\ g[c] = f[c]
            /\ g[d] = Amount[d] /\ g[d] \in Int
        BY <3>1
      <3>3. CallSum' = SumFunction(f) /\ CallSum = SumFunction(g)
        BY <2>1 DEF CallSum
      <3> HIDE DEF f, g
      <3> QED
        BY <2>1, <2>2, <3>2, <3>3, TotalAdd
    <2>4. row \in Row /\ row.issuer = Seller /\ row.amount = Amount[d]
      BY DVPAssumption, NewRow DEF ProcessType, Accounts, NewProcess
    <2>5. procs' = Append(procs, row) /\ balance' = balance
      BY <1>5 DEF InsertProcess
    <2> HIDE DEF row
    <2>6. /\ DOMAIN procs' = DOMAIN procs \cup {new} /\ new \notin DOMAIN procs
          /\ \A i \in DOMAIN procs : procs'[i] = procs[i]
          /\ procs'[new] = row
      BY <1>1, <2>0, <2>4, <2>5, AppendToSeq
    <2>7. \A i \in DOMAIN procs : Executed(i, StepTx(i))' = Executed(i, StepTx(i))
      BY <1>2, <2>6 DEF Executed, StepTx
    <2>8. Executed(new, StepTx(new))' = {}
      <3>1. \A h \in DOMAIN txs : txs[h].proc # new
        BY <2>6 DEF AInv, SInv, TxInv
      <3> QED
        BY <1>2, <3>1 DEF Executed
    <2>9. ASSUME NEW a
          PROVE  RowSum(a)' = IF a = Seller THEN RowSum(a) + Amount[d] ELSE RowSum(a)
      <3>1. Rows(a)' = IF a = Seller THEN Rows(a) \cup {new} ELSE Rows(a)
        BY <2>4, <2>6, <2>7, <2>8 DEF Rows
      <3> DEFINE f == [i \in Rows(a) |-> procs[i].amount]
                 g == [i \in Rows(a)' |-> procs'[i].amount]
      <3>2. RowSum(a) = SumFunction(f) /\ RowSum(a)' = SumFunction(g)
        BY DEF RowSum
      <3>3. /\ IsFiniteSet(Rows(a)) /\ \A i \in Rows(a) : procs[i].amount \in Int
            /\ Rows(a) \subseteq DOMAIN procs /\ RowSum(a) \in Nat
        <4>1. Rows(a) \subseteq DOMAIN procs
          BY DEF Rows
        <4>2. /\ IsFiniteSet(Rows(a)) /\ \A i \in Rows(a) : procs[i].amount \in Nat
              /\ RowSum(a) \in Nat
          BY <1>1, SumsTyped
        <4> QED
          BY <4>1, <4>2
      <3>4. /\ DOMAIN f = Rows(a) /\ DOMAIN g = Rows(a)'
            /\ \A i \in Rows(a) : f[i] \in Int /\ g[i] = f[i]
        BY <2>6, <3>1, <3>3
      <3>5. CASE a = Seller
        <4>1. g[new] = Amount[d] /\ new \notin Rows(a)
          BY <2>4, <2>6, <3>1, <3>3, <3>5
        <4> HIDE DEF f, g
        <4>2. /\ IsFiniteSet(DOMAIN f) /\ \A i \in DOMAIN f : f[i] \in Int
              /\ new \notin DOMAIN f /\ DOMAIN g = DOMAIN f \cup {new}
              /\ (\A i \in DOMAIN f : g[i] = f[i]) /\ g[new] \in Int
          BY <1>1, <3>1, <3>3, <3>4, <3>5, <4>1
        <4>3. SumFunction(g) = g[new] + SumFunction(f)
          BY <4>2, TotalAdd
        <4> QED
          BY <1>1, <3>2, <3>3, <3>5, <4>1, <4>3
      <3>6. CASE a # Seller
        <4> HIDE DEF f, g
        <4> QED
          BY <3>1, <3>2, <3>3, <3>4, <3>6, TotalSame
      <3> QED
        BY <3>5, <3>6
    <2>10. ASSUME NEW a \in Managed, balance[a] = Owed(a) PROVE balance'[a] = Owed(a)'
      <3>1. RowSum(a) \in Nat /\ FreshSum(a) \in Nat /\ CallSum \in Nat
        BY <1>1, SumsTyped
      <3>2. CallSum' \in Nat
        <4>1. \A c \in Calls' : Amount[c] \in Nat
          BY DVPAssumption, <1>1, <2>1 DEF Calls
        <4>2. CallSum' = SumFunction([c \in Calls' |-> Amount[c]])
          BY DEF CallSum
        <4> QED
          BY <2>2, <4>1, <4>2, TotalType
      <3>3. balance[a] = RowSum(a) + FreshSum(a)
                           + (IF a = Seller THEN Amount[d] + CallSum' ELSE 0)
        BY <2>3, <2>10, OwedIs
      <3>4. Owed(a)' = (IF a = Seller THEN RowSum(a) + Amount[d] ELSE RowSum(a))
                         + FreshSum(a) + (IF a = Seller THEN CallSum' ELSE 0)
        BY <1>3, <2>9, OwedAfter
      <3> QED
        BY <1>1, <2>5, <3>1, <3>2, <3>3, <3>4
    <2>11. Covered'
      <3>1. \A h \in DOMAIN txs : IsStep(h)' = IsStep(h)
        BY <1>2, <2>6 DEF AInv, SInv, TxInv, IsStep, StepTx
      <3> QED
        BY <1>2, <2>10, <3>1 DEF AInv, Covered
    <2> QED
      BY <2>2, <2>11
  <1>6. CASE ApiCrash(d)
    <2>1. Calls' = Calls /\ procs' = procs /\ balance' = balance
      BY <1>1, <1>6 DEF ApiCrash, Calls
    <2>2. CallSum' = CallSum
      BY <2>1 DEF CallSum
    <2>3. \A a : RowSum(a)' = RowSum(a)
      BY <1>2, <2>1 DEF RowSum, Rows, Executed, StepTx
    <2>4. \A a : Owed(a)' = Owed(a)
      BY <1>3, <2>2, <2>3, OwedIs, OwedAfter
    <2> QED
      BY <1>1, <1>2, <2>1, <2>4 DEF AInv, Covered, IsStep, StepTx
  <1> QED
    BY <1>4, <1>5, <1>6

\* A transaction that waits to be mined is the step of a row whose step is
\* not executed, and whose amount is in the contract.
LEMMA PendingIsOwed ==
    ASSUME AInv, crashes.send = 0, Rejected = {}, NEW h \in DOMAIN txs,
           txs[h].status = "pending"
    PROVE  /\ txs[h].proc \in Rows(txs[h].from) /\ txs[h].from \in Managed
           /\ procs[txs[h].proc].amount = txs[h].amount
           /\ txs[h].kind = StepTx(txs[h].proc)
           /\ Succeeds(txs[h])
  <1> DEFINE i == txs[h].proc
             a == txs[h].from
  <1>1. /\ i \in DOMAIN procs /\ a = procs[i].issuer /\ txs[h].amount = procs[i].amount
        /\ a \in Managed /\ IsStep(h) /\ TypeOK /\ IsFiniteSet(Calls)
    BY DEF AInv, SInv, IInv, TxInv, PartyInv, PartyOK, Covered
  <1>2. Executed(i, StepTx(i)) = {}
    <2> SUFFICES ASSUME NEW g \in Executed(i, StepTx(i)) PROVE FALSE
      OBVIOUS
    <2>1. /\ g \in DOMAIN txs /\ txs[g].proc = i /\ IsStep(g) /\ txs[g].status = "success"
      BY DEF Executed, IsStep
    <2>2. procs[i].step_tx_hash = g /\ procs[i].step_tx_hash = h
      BY <1>1, <2>1 DEF AInv, SInv, OnceInv
    <2> QED
      BY <2>1, <2>2
  <1>3. i \in Rows(a)
    BY <1>1, <1>2 DEF Rows
  <1> HIDE DEF i, a
  <1>4. balance[a] >= procs[i].amount
    <2> DEFINE g == [j \in Rows(a) |-> procs[j].amount]
               f == [j \in Rows(a) \ {i} |-> procs[j].amount]
    <2>1. /\ IsFiniteSet(Rows(a)) /\ RowSum(a) \in Nat /\ FreshSum(a) \in Nat
          /\ CallSum \in Nat /\ \A j \in Rows(a) : procs[j].amount \in Nat
      BY <1>1, SumsTyped
    <2>2. RowSum(a) = SumFunction(g)
      BY DEF RowSum
    <2>3. /\ IsFiniteSet(DOMAIN f) /\ \A j \in DOMAIN f : f[j] \in Nat
          /\ i \notin DOMAIN f /\ DOMAIN g = DOMAIN f \cup {i}
          /\ (\A j \in DOMAIN f : g[j] = f[j]) /\ g[i] = procs[i].amount /\ g[i] \in Nat
      BY <1>3, <2>1, FS_Subset
    <2> HIDE DEF f, g
    <2>4. SumFunction(f) \in Nat
      BY <2>3, TotalType
    <2>5. SumFunction(g) = g[i] + SumFunction(f)
      <3>1. (\A j \in DOMAIN f : f[j] \in Int) /\ g[i] \in Int
        BY <2>3
      <3> QED
        BY <2>3, <3>1, TotalAdd
    <2>6. balance[a] = RowSum(a) + FreshSum(a) + (IF a = Seller THEN CallSum ELSE 0)
      BY <1>1, OwedIs DEF AInv, Covered
    <2> QED
      BY <2>1, <2>2, <2>3, <2>4, <2>5, <2>6
  <1>5. Succeeds(txs[h])
    BY <1>1, <1>4 DEF Succeeds, i, a
  <1> QED
    BY <1>1, <1>3, <1>5 DEF i, a, IsStep

\* Mining a transaction pays out what its row is owed; losing it, nothing.
LEMMA CoverMine ==
    ASSUME AInv, NEW h \in DOMAIN txs, Mine(h) \/ Lose(h)
    PROVE  Covered'
  <1> SUFFICES ASSUME crashes'.send = 0, Rejected = {}
               PROVE  /\ \A g \in DOMAIN txs' : IsStep(g)' /\ txs'[g].status # "reverted"
                      /\ \A a \in Managed : balance'[a] = Owed(a)'
    BY DEF Covered
  <1>1. /\ TypeOK /\ IsFiniteSet(Calls) /\ balance \in [Accounts -> Nat]
        /\ crashes \in [api : Nat, send : Nat, abandon : Nat, lost : Nat]
        /\ \A g \in DOMAIN txs : txs[g] \in Tx
        /\ CloseInv /\ TxInv
    BY LenProperties, ElementOfSeq DEF AInv, SInv, IInv, TypeOK
  <1>2. crashes.send = 0 /\ txs[h].status = "pending"
    BY <1>1 DEF Mine, Lose
  <1>0. PICK i, w, m : i = txs[h].proc /\ w = txs[h].from /\ m = txs[h].amount
    OBVIOUS
  <1>3. /\ i \in Rows(w) /\ w \in Managed /\ procs[i].amount = m
        /\ txs[h].kind = StepTx(i) /\ Succeeds(txs[h])
        /\ m \in Nat /\ w \in Accounts
    BY <1>0, <1>1, <1>2, PendingIsOwed, AccountsManaged DEF Tx
  <1>4. PICK st \in {"success", "lost"} :
           /\ txs' = [txs EXCEPT ![h] = [txs[h] EXCEPT !.status = st]]
           /\ balance' = IF st = "success" THEN [balance EXCEPT ![w] = @ - m] ELSE balance
    BY <1>0, <1>3 DEF Mine, Lose
  <1>5. /\ DOMAIN txs' = DOMAIN txs
        /\ \A g \in DOMAIN txs :
              /\ txs'[g].proc = txs[g].proc /\ txs'[g].kind = txs[g].kind
              /\ txs'[g].status = IF g = h THEN st ELSE txs[g].status
    <2>1. \A g \in DOMAIN txs :
             txs'[g] = IF g = h THEN [txs[h] EXCEPT !.status = st] ELSE txs[g]
      BY <1>4
    <2>2. /\ [txs[h] EXCEPT !.status = st].proc = txs[h].proc
          /\ [txs[h] EXCEPT !.status = st].kind = txs[h].kind
          /\ [txs[h] EXCEPT !.status = st].status = st
      BY <1>1 DEF Tx
    <2> QED
      BY <1>4, <2>1, <2>2
  <1>6. procs' = procs /\ Calls' = Calls
    BY DEF Mine, Lose, Calls
  <1>7. \A g \in DOMAIN txs' : IsStep(g)' /\ txs'[g].status # "reverted"
    BY <1>2, <1>5, <1>6 DEF AInv, Covered, IsStep, StepTx
  <1>8. \A a : FreshSum(a)' = FreshSum(a)
    <2> SUFFICES ASSUME NEW a PROVE FreshSum(a)' = FreshSum(a)
      OBVIOUS
    <2> DEFINE d == [tx |-> h, amount |-> m, status |-> "created", indexed |-> FALSE]
    <2>1. /\ DOMAIN delivery \subseteq DOMAIN delivery'
          /\ \A k \in DOMAIN delivery : delivery'[k] = delivery[k]
          /\ \A k \in DOMAIN delivery' \ DOMAIN delivery : delivery'[k].status = "created"
      <3>1. d \in Delivery /\ d.status = "created" /\ delivery \in Seq(Delivery)
        <4>1. h \in Nat /\ m \in Nat \ {0}
          BY <1>0, <1>1, LenProperties DEF TypeOK, Tx
        <4> QED
          BY <1>1, <4>1 DEF Delivery, TypeOK
      <3>2. delivery' = delivery \/ delivery' = Append(delivery, d)
        BY <1>0 DEF Mine, Lose
      <3> HIDE DEF d
      <3> QED
        BY <3>1, <3>2, AppendToSeq
    <2>2. Unindexed' = Unindexed
      BY <2>1 DEF Unindexed, CloseType
    <2>3. Fresh(a)' = Fresh(a) /\ \A k \in Fresh(a) : delivery'[k].amount = delivery[k].amount
      BY <2>1, <2>2 DEF Fresh, Unindexed
    <2> QED
      BY <2>3, FreshSumSame
  <1>9. CallSum' = CallSum
    BY <1>6 DEF CallSum
  <1>10. \A j \in DOMAIN procs : j # i \/ st = "lost" =>
            Executed(j, StepTx(j))' = Executed(j, StepTx(j))
    BY <1>0, <1>2, <1>5, <1>6 DEF Executed, StepTx
  <1>11. CASE st = "lost"
    <2>1. \A a : RowSum(a)' = RowSum(a)
      BY <1>1, <1>6, <1>10, <1>11, RowSumSame DEF SameParty
    <2>2. \A a : Owed(a)' = Owed(a)
      BY <1>8, <1>9, <2>1, OwedIs, OwedAfter
    <2> QED
      BY <1>2, <1>4, <1>7, <1>11, <2>2 DEF AInv, Covered
  <1>12. CASE st = "success"
    <2>1. h \in Executed(i, StepTx(i))'
      BY <1>0, <1>3, <1>5, <1>6, <1>12 DEF Executed, StepTx
    <2>2. \A a : Rows(a)' = Rows(a) \ {i}
      BY <1>6, <1>10, <1>12, <2>1 DEF Rows
    <2>3. ASSUME NEW a PROVE RowSum(a) = IF a = w THEN m + RowSum(a)' ELSE RowSum(a)'
      <3> DEFINE f == [j \in Rows(a)' |-> procs'[j].amount]
                 g == [j \in Rows(a) |-> procs[j].amount]
      <3>1. RowSum(a) = SumFunction(g) /\ RowSum(a)' = SumFunction(f)
        BY DEF RowSum
      <3>2. IsFiniteSet(Rows(a)) /\ \A j \in Rows(a) : procs[j].amount \in Nat
        BY <1>1, SumsTyped
      <3>3. i \in Rows(a) => a = w
        BY <1>3 DEF Rows
      <3>4. /\ IsFiniteSet(DOMAIN f) /\ \A j \in DOMAIN f : f[j] \in Int /\ g[j] = f[j]
            /\ DOMAIN f = Rows(a) \ {i} /\ DOMAIN g = Rows(a)
            /\ i \notin DOMAIN f
        BY <1>6, <2>2, <3>2, FS_Subset
      <3>5. a = w => g[i] = m
        BY <1>3
      <3> HIDE DEF f, g
      <3>6. CASE a = w
        <4>1. DOMAIN g = DOMAIN f \cup {i} /\ g[i] \in Int
          BY <1>3, <3>4, <3>5, <3>6
        <4>2. SumFunction(g) = g[i] + SumFunction(f)
          BY <3>4, <4>1, TotalAdd
        <4> QED
          BY <3>1, <3>5, <3>6, <4>2
      <3>7. CASE a # w
        <4>1. DOMAIN g = DOMAIN f
          BY <3>3, <3>4, <3>7
        <4> QED
          BY <3>1, <3>4, <3>7, <4>1, TotalSame
      <3> QED
        BY <3>6, <3>7
    <2>4. ASSUME NEW a \in Managed PROVE balance'[a] = Owed(a)'
      <3>1. RowSum(a) \in Nat /\ FreshSum(a) \in Nat /\ CallSum \in Nat
        BY <1>1, SumsTyped
      <3>2. RowSum(a)' \in Int
        <4>1. /\ IsFiniteSet(Rows(a)) /\ \A j \in Rows(a) : procs[j].amount \in Nat
          BY <1>1, SumsTyped
        <4>2. /\ IsFiniteSet(Rows(a)') /\ \A j \in Rows(a)' : procs'[j].amount \in Int
          BY <1>6, <2>2, <4>1, FS_Subset
        <4>3. RowSum(a)' = SumFunction([j \in Rows(a)' |-> procs'[j].amount])
          BY DEF RowSum
        <4> QED
          BY <4>2, <4>3, TotalType
      <3>3. balance[a] = RowSum(a) + FreshSum(a) + (IF a = Seller THEN CallSum ELSE 0)
        BY <1>2, OwedIs DEF AInv, Covered
      <3>4. Owed(a)' = RowSum(a)' + FreshSum(a) + (IF a = Seller THEN CallSum ELSE 0)
        BY <1>8, <1>9, OwedAfter
      <3>5. balance'[a] = IF a = w THEN balance[a] - m ELSE balance[a]
        BY <1>1, <1>4, <1>12, AccountsManaged
      <3> QED
        BY <1>3, <2>3, <3>1, <3>2, <3>3, <3>4, <3>5
    <2> QED
      BY <1>7, <2>4
  <1> QED
    BY <1>11, <1>12

\* Closing a delivery pays the deposit back, and its event is not indexed yet.
LEMMA CoverClose ==
    ASSUME AInv, NEW k \in DOMAIN delivery,
           Confirm(k) \/ \E status \in DOMAIN CloseType : Close(k, status)
    PROVE  Covered'
  <1>1. /\ TypeOK /\ IsFiniteSet(Calls) /\ balance \in [Accounts -> Nat]
        /\ delivery[k] \in Delivery /\ CloseInv
    BY LenProperties, ElementOfSeq DEF AInv, SInv, IInv, TypeOK
  <1>2. /\ txs' = txs /\ procs' = procs /\ crashes' = crashes
        /\ Calls' = Calls /\ delivery[k].status \in {"created", "confirmed"}
    BY DEF Confirm, Close, Calls
  <1>3. ~delivery[k].indexed /\ k \notin Unindexed
    BY <1>1, <1>2 DEF CloseInv, Unindexed, CloseType
  <1>4. PICK st : delivery' = [delivery EXCEPT ![k] = [delivery[k] EXCEPT !.status = st]]
                  /\ \/ st = "confirmed" /\ balance' = balance
                     \/ /\ st \in DOMAIN CloseType
                        /\ balance' = [balance EXCEPT ![Withdrawer(st)] = @ + delivery[k].amount]
    BY DEF Confirm, Close
  <1>5. /\ DOMAIN delivery' = DOMAIN delivery
        /\ \A l \in DOMAIN delivery :
              /\ delivery'[l].amount = delivery[l].amount
              /\ delivery'[l].indexed = delivery[l].indexed
              /\ delivery'[l].status = IF l = k THEN st ELSE delivery[l].status
    <2>1. \A l \in DOMAIN delivery :
             delivery'[l] = IF l = k THEN [delivery[k] EXCEPT !.status = st] ELSE delivery[l]
      BY <1>4
    <2>2. /\ [delivery[k] EXCEPT !.status = st].amount = delivery[k].amount
          /\ [delivery[k] EXCEPT !.status = st].indexed = delivery[k].indexed
          /\ [delivery[k] EXCEPT !.status = st].status = st
      BY <1>1 DEF Delivery
    <2> QED
      BY <1>4, <2>1, <2>2
  <1>6. CallSum' = CallSum /\ \A a : RowSum(a)' = RowSum(a)
    BY <1>2 DEF CallSum, RowSum, Rows, Executed, StepTx
  <1>7. \A h \in DOMAIN txs : IsStep(h)' = IsStep(h)
    BY <1>2 DEF IsStep, StepTx
  <1>8. CASE st = "confirmed" /\ balance' = balance
    <2>1. Unindexed' = Unindexed
      BY <1>3, <1>5, <1>8 DEF Unindexed, CloseType
    <2>2. \A a : /\ Fresh(a)' = Fresh(a)
                 /\ \A l \in Fresh(a) : delivery'[l].amount = delivery[l].amount
      BY <1>3, <1>5, <2>1 DEF Fresh, Unindexed
    <2>3. \A a : FreshSum(a)' = FreshSum(a)
      BY <2>2, FreshSumSame
    <2>4. \A a : Owed(a)' = Owed(a)
      BY <1>6, <2>3, OwedIs, OwedAfter
    <2> QED
      BY <1>2, <1>7, <1>8, <2>4 DEF AInv, Covered
  <1>9. CASE st \in DOMAIN CloseType
    <2>0. PICK w, m : w = Withdrawer(st) /\ m = delivery[k].amount
      OBVIOUS
    <2>1. m \in Nat /\ w \in Accounts /\ balance' = [balance EXCEPT ![w] = @ + m]
      BY <1>1, <1>4, <1>9, <2>0 DEF Delivery, Withdrawer, Accounts, CloseType
    <2>2. Unindexed' = Unindexed \cup {k}
      BY <1>3, <1>5, <1>9 DEF Unindexed
    <2>3. \A a : Fresh(a)' = IF a = w THEN Fresh(a) \cup {k} ELSE Fresh(a)
      BY <1>3, <1>5, <2>0, <2>2 DEF Fresh, Unindexed
    <2>4. ASSUME NEW a PROVE FreshSum(a)' = IF a = w THEN m + FreshSum(a) ELSE FreshSum(a)
      <3> DEFINE f == [l \in Fresh(a) |-> delivery[l].amount]
                 g == [l \in Fresh(a)' |-> delivery'[l].amount]
      <3>1. FreshSum(a) = SumFunction(f) /\ FreshSum(a)' = SumFunction(g)
        BY DEF FreshSum
      <3>2. IsFiniteSet(Fresh(a)) /\ \A l \in Fresh(a) : delivery[l].amount \in Nat
        BY <1>1, SumsTyped
      <3>3. Fresh(a) \subseteq DOMAIN delivery /\ k \notin Fresh(a)
        BY <1>3 DEF Fresh, Unindexed
      <3>4. /\ DOMAIN f = Fresh(a) /\ IsFiniteSet(DOMAIN f) /\ k \notin DOMAIN f
            /\ \A l \in DOMAIN f : f[l] \in Int /\ g[l] = f[l]
        BY <1>5, <2>3, <3>2, <3>3
      <3>5. DOMAIN g = IF a = w THEN Fresh(a) \cup {k} ELSE Fresh(a)
        BY <2>3
      <3>6. a = w => g[k] = m
        BY <1>5, <2>0, <2>3
      <3> HIDE DEF f, g
      <3>7. CASE a = w
        <4>1. DOMAIN g = DOMAIN f \cup {k} /\ g[k] \in Int
          BY <2>1, <3>4, <3>5, <3>6, <3>7
        <4>2. SumFunction(g) = g[k] + SumFunction(f)
          BY <3>4, <4>1, TotalAdd
        <4> QED
          BY <3>1, <3>6, <3>7, <4>2
      <3>8. CASE a # w
        BY <3>1, <3>4, <3>5, <3>8, TotalSame
      <3> QED
        BY <3>7, <3>8
    <2>5. ASSUME NEW a \in Managed, balance[a] = Owed(a) PROVE balance'[a] = Owed(a)'
      <3>1. RowSum(a) \in Nat /\ FreshSum(a) \in Nat /\ CallSum \in Nat
        BY <1>1, SumsTyped
      <3>2. balance[a] = RowSum(a) + FreshSum(a) + (IF a = Seller THEN CallSum ELSE 0)
        BY <2>5, OwedIs
      <3>3. Owed(a)' = RowSum(a) + FreshSum(a)' + (IF a = Seller THEN CallSum ELSE 0)
        BY <1>6, OwedAfter
      <3>4. balance'[a] = IF a = w THEN balance[a] + m ELSE balance[a]
        BY <1>1, <2>1, AccountsManaged
      <3> QED
        BY <2>1, <2>4, <3>1, <3>2, <3>3, <3>4
    <2> QED
      BY <1>2, <1>7, <2>5 DEF AInv, Covered
  <1> QED
    BY <1>4, <1>8, <1>9

\* Indexing the events moves what is owed from deliveries to rows.
LEMMA CoverIndex ==
    ASSUME AInv, IndexDelivery
    PROVE  IsFiniteSet(Calls') /\ Covered'
  <1>1. TypeOK /\ TypeOK' /\ IsFiniteSet(Calls)
    <2>1. SInv /\ [Next]_vars
      BY DEF AInv, Next
    <2> QED
      BY <2>1, OnceNext DEF AInv, SInv, IInv
  <1>2. /\ txs' = txs /\ request' = request /\ balance' = balance /\ crashes' = crashes
        /\ Calls' = Calls
    BY DEF IndexDelivery, Calls
  <1>3. CallSum' = CallSum
    BY <1>2 DEF CallSum
  <1>4. PICK New : New = DOMAIN procs' \ DOMAIN procs
    OBVIOUS
  <1>5. /\ DOMAIN procs' = DOMAIN procs \cup New /\ DOMAIN procs \cap New = {}
        /\ \A i \in DOMAIN procs : procs'[i] = procs[i]
        /\ \A i \in New : procs'[i].ref \in Known /\ procs'[i] = RowFor(procs'[i].ref)
        /\ \A i, j \in New : procs'[i].ref = procs'[j].ref => i = j
        /\ \A k \in Known : \E i \in New : procs'[i].ref = k
    BY <1>1, <1>4, IndexRows
  <1>6. /\ DOMAIN delivery' = DOMAIN delivery
        /\ \A k \in Unindexed : delivery'[k].indexed
        /\ \A k \in DOMAIN delivery : /\ delivery'[k].status = delivery[k].status
                                      /\ delivery'[k].indexed = (delivery[k].indexed \/ k \in Unindexed)
    <2>1. Unindexed \subseteq DOMAIN delivery
      BY DEF Unindexed
    <2> QED
      BY <1>1, <2>1, IndexMarks
  <1>7. Unindexed' = {}
    BY <1>6 DEF Unindexed
  <1>8. \A a : Fresh(a)' = {} /\ FreshSum(a)' = 0
    <2> SUFFICES ASSUME NEW a PROVE Fresh(a)' = {} /\ FreshSum(a)' = 0
      OBVIOUS
    <2>1. Fresh(a)' = {}
      BY <1>7 DEF Fresh
    <2>2. FreshSum(a)' = SumFunction([k \in {} |-> delivery'[k].amount])
      BY <2>1 DEF FreshSum
    <2> QED
      BY <2>1, <2>2, TotalEmpty
  <1>9. \A i \in DOMAIN procs : Executed(i, StepTx(i))' = Executed(i, StepTx(i))
    BY <1>2, <1>5 DEF Executed, StepTx
  <1>10. \A i \in New : Executed(i, StepTx(i))' = {}
    <2>1. \A h \in DOMAIN txs : txs[h].proc \notin New
      BY <1>5 DEF AInv, SInv, TxInv
    <2> QED
      BY <1>2, <2>1 DEF Executed
  <1>11. ASSUME NEW a \in Managed PROVE RowSum(a)' = RowSum(a) + FreshSum(a)
    <2> DEFINE Own == {i \in New : procs'[i].issuer = a}
               f == [i \in Rows(a) |-> procs[i].amount]
               g == [i \in Own |-> procs'[i].amount]
               h == [i \in Rows(a)' |-> procs'[i].amount]
               e == [k \in Fresh(a) |-> delivery[k].amount]
               b == [i \in Own |-> procs'[i].ref]
    <2>1. Rows(a)' = Rows(a) \cup Own
      BY <1>5, <1>9, <1>10 DEF Rows
    <2>2. /\ IsFiniteSet(Rows(a)) /\ IsFiniteSet(Fresh(a))
          /\ \A i \in Rows(a) : procs[i].amount \in Nat
          /\ \A k \in Fresh(a) : delivery[k].amount \in Nat
          /\ Rows(a) \subseteq DOMAIN procs
      <3>1. Rows(a) \subseteq DOMAIN procs
        BY DEF Rows
      <3> QED
        BY <1>1, <3>1, SumsTyped
    <2>3. IsFiniteSet(Own)
      <3>1. procs' \in Seq(Row)
        BY <1>1 DEF TypeOK
      <3>2. Len(procs') \in Nat /\ DOMAIN procs' = 1..Len(procs')
        BY <3>1, LenProperties
      <3>3. IsFiniteSet(DOMAIN procs')
        BY <3>2, FS_Interval
      <3>4. Own \subseteq DOMAIN procs'
        BY <1>5
      <3> HIDE DEF Own
      <3> QED
        BY <3>3, <3>4, FS_Subset
    <2>4. /\ RowSum(a) = SumFunction(f) /\ RowSum(a)' = SumFunction(h)
          /\ FreshSum(a) = SumFunction(e)
      BY DEF RowSum, FreshSum
    <2>5. \A k \in Known : RowFor(k).issuer = Withdrawer(delivery[k].status)
                           /\ RowFor(k).amount = delivery[k].amount /\ k \in Unindexed
      BY DEF RowFor, NewProcess, Known
    <2>6. ASSUME NEW i \in Own
          PROVE  b[i] \in Fresh(a) /\ g[i] = e[b[i]] /\ g[i] \in Int
      <3>1. PICK k \in Known : procs'[i].ref = k /\ procs'[i] = RowFor(k)
        BY <1>5
      <3>2. k \in Fresh(a) /\ procs'[i].amount = delivery[k].amount
        BY <2>5, <3>1 DEF Fresh
      <3> QED
        BY <2>2, <3>1, <3>2
    <2>7. \A i, j \in Own : b[i] = b[j] => i = j
      BY <1>5
    <2>8. ASSUME NEW k \in Fresh(a) PROVE \E i \in Own : b[i] = k
      <3>1. k \in Known
        BY DEF Fresh, Known
      <3>2. PICK i \in New : procs'[i].ref = k
        BY <1>5, <3>1
      <3>3. procs'[i].issuer = a
        BY <1>5, <2>5, <3>1, <3>2 DEF Fresh
      <3> QED
        BY <3>2, <3>3
    <2>9. /\ DOMAIN f = Rows(a) /\ DOMAIN g = Own /\ DOMAIN h = Rows(a) \cup Own
          /\ DOMAIN e = Fresh(a) /\ DOMAIN f \cap DOMAIN g = {}
          /\ \A i \in DOMAIN f : f[i] \in Int /\ h[i] = f[i]
          /\ \A i \in DOMAIN g : h[i] = g[i]
      BY <1>5, <2>1, <2>2
    <2> HIDE DEF Own, f, g, h, e, b
    <2>10. SumFunction(g) = SumFunction(e)
      BY <2>2, <2>3, <2>6, <2>7, <2>8, <2>9, TotalRename
    <2>11. SumFunction(h) = SumFunction(f) + SumFunction(g)
      BY <2>2, <2>3, <2>6, <2>9, TotalJoin
    <2> QED
      BY <2>4, <2>10, <2>11
  <1>12. ASSUME NEW a \in Managed, balance[a] = Owed(a) PROVE balance'[a] = Owed(a)'
    <2>1. RowSum(a) \in Nat /\ FreshSum(a) \in Nat /\ CallSum \in Nat
      BY <1>1, SumsTyped
    <2>2. balance[a] = RowSum(a) + FreshSum(a) + (IF a = Seller THEN CallSum ELSE 0)
      BY <1>12, OwedIs
    <2>3. Owed(a)' = RowSum(a)' + 0 + (IF a = Seller THEN CallSum ELSE 0)
      BY <1>3, <1>8, OwedAfter
    <2> QED
      BY <1>2, <1>11, <2>1, <2>2, <2>3
  <1>13. \A h \in DOMAIN txs : IsStep(h)' = IsStep(h)
    BY <1>2, <1>5 DEF AInv, SInv, TxInv, IsStep, StepTx
  <1> QED
    BY <1>1, <1>2, <1>12, <1>13 DEF AInv, Covered

\* A handler moves no tokens, and has no reverted transaction to deal with.
LEMMA CoverHandler ==
    ASSUME AInv, NEW i \in todo, HandleRow(i)
    PROVE  IsFiniteSet(Calls') /\ Covered'
  <1>1. /\ TypeOK /\ IsFiniteSet(Calls) /\ i \in DOMAIN procs /\ RowOK(procs[i], i)
        /\ HandlerStep(i)
    <2>1. TypeOK /\ RowInv /\ i \in DOMAIN procs
      BY DEF AInv, SInv, IInv, TypeOK
    <2> QED
      BY <2>1, HandlerDoes DEF AInv, RowInv
  <1>2. /\ request' = request /\ delivery' = delivery /\ crashes' = crashes
        /\ balance' = balance /\ Calls' = Calls
    BY DEF HandleRow, SendStepTx, SyncStepTxSuccess, SyncStepTxRetry, SyncStepTxRevert,
           SyncRevertTx, Calls
  <1> SUFFICES ASSUME crashes.send = 0, Rejected = {} PROVE Covered'
    BY <1>1, <1>2 DEF Covered
  <1>3. DOMAIN procs' = DOMAIN procs /\ \A j \in DOMAIN procs : SameParty(procs'[j], procs[j])
    BY <1>1 DEF HandlerStep, SameParty
  <1>4. \A j \in DOMAIN procs : StepTx(j)' = StepTx(j)
    BY <1>3 DEF StepTx, SameParty
  <1>5. procs[i].step_tx_hash # 0 => StepReceipt(i) # "reverted"
    BY <1>1 DEF AInv, Covered, RowOK, StepReceipt
  <1>6. txs' = txs \/ Send(i, StepTx(i))
    BY <1>1, <1>5 DEF HandlerStep
  <1>7. PICK new : new = Len(txs) + 1
    OBVIOUS
  <1>8. \/ txs' = txs
        \/ /\ DOMAIN txs' = DOMAIN txs \cup {new}
           /\ \A g \in DOMAIN txs : txs'[g] = txs[g]
           /\ txs'[new].proc = i /\ txs'[new].kind = StepTx(i)
           /\ txs'[new].status = "pending"
    BY <1>1, <1>6, <1>7, SendDoes
  <1>9. \A j \in DOMAIN procs : Executed(j, StepTx(j))' = Executed(j, StepTx(j))
    BY <1>4, <1>8 DEF Executed
  <1>10. \A a : Owed(a)' = Owed(a)
    BY <1>1, <1>2, <1>3, <1>9, OwedSame
  <1>11. ASSUME NEW h \in DOMAIN txs' PROVE IsStep(h)' /\ txs'[h].status # "reverted"
    <2>1. CASE h \in DOMAIN txs
      <3>1. /\ txs'[h] = txs[h] /\ txs[h].proc \in DOMAIN procs
            /\ IsStep(h) /\ txs[h].status # "reverted"
        BY <1>8, <2>1 DEF AInv, SInv, TxInv, Covered
      <3> QED
        BY <1>4, <3>1 DEF IsStep
    <2>2. CASE h \notin DOMAIN txs
      BY <1>1, <1>4, <1>8, <2>2 DEF IsStep
    <2> QED
      BY <2>1, <2>2
  <1> QED
    BY <1>2, <1>10, <1>11 DEF AInv, Covered

LEMMA CoverNext == AInv /\ [Next]_vars => AInv'
  <1> SUFFICES ASSUME AInv, [Next]_vars PROVE IsFiniteSet(Calls') /\ Covered'
    BY OnceNext DEF AInv
  <1>1. /\ TypeOK /\ IsFiniteSet(Calls)
        /\ crashes \in [api : Nat, send : Nat, abandon : Nat, lost : Nat]
    BY DEF AInv, SInv, IInv, TypeOK
  <1>2. ASSUME NEW d \in Requests, Deposit(d) \/ InsertProcess(d) \/ ApiCrash(d)
        PROVE  IsFiniteSet(Calls') /\ Covered'
    BY <1>2, CoverApi
  <1>3. ASSUME NEW h \in DOMAIN txs, Mine(h) \/ Lose(h)
        PROVE  IsFiniteSet(Calls') /\ Covered'
    <2>1. Calls' = Calls
      BY <1>3 DEF Mine, Lose, Calls
    <2> QED
      BY <1>1, <1>3, <2>1, CoverMine
  <1>4. ASSUME NEW k \in DOMAIN delivery,
               Confirm(k) \/ \E status \in DOMAIN CloseType : Close(k, status)
        PROVE  IsFiniteSet(Calls') /\ Covered'
    <2>1. Calls' = Calls
      BY <1>4 DEF Confirm, Close, Calls
    <2> QED
      BY <1>1, <1>4, <2>1, CoverClose
  <1>5. ASSUME IndexDelivery PROVE IsFiniteSet(Calls') /\ Covered'
    BY <1>5, CoverIndex
  <1>6. ASSUME NEW i \in todo, HandleRow(i)
        PROVE  IsFiniteSet(Calls') /\ Covered'
    BY <1>6, CoverHandler
  <1>7. ASSUME NEW i \in todo, SendCrash(i)
        PROVE  IsFiniteSet(Calls') /\ Covered'
    <2>1. Calls' = Calls /\ crashes'.send # 0
      BY <1>1, <1>7 DEF SendCrash, Calls
    <2> QED
      BY <1>1, <2>1 DEF Covered
  <1>8. ASSUME \/ NextPhase \/ Abandon \/ UNCHANGED vars
               \/ \E i \in todo : SkipRow(i)
        PROVE  IsFiniteSet(Calls') /\ Covered'
    <2>1. /\ request' = request /\ procs' = procs /\ txs' = txs /\ delivery' = delivery
          /\ balance' = balance
      BY <1>8 DEF NextPhase, Abandon, SkipRow, vars
    <2>2. crashes'.send = crashes.send
      <3>1. crashes' = crashes \/ crashes' = [crashes EXCEPT !.abandon = @ + 1]
        BY <1>8 DEF NextPhase, Abandon, SkipRow, vars
      <3> QED
        BY <1>1, <3>1
    <2>3. Calls' = Calls /\ \A a : Owed(a)' = Owed(a)
      BY <2>1 DEF Calls, Owed, Executed, StepTx, Unindexed
    <2>4. \A h \in DOMAIN txs : IsStep(h)' = IsStep(h)
      BY <2>1 DEF IsStep, StepTx
    <2> QED
      BY <1>1, <2>1, <2>2, <2>3, <2>4 DEF AInv, Covered
  <1> QED
    BY <1>2, <1>3, <1>4, <1>5, <1>6, <1>7, <1>8 DEF Next, Api, Chain, Processor

LEMMA CoverInit == Init => AInv
  <1> SUFFICES ASSUME Init PROVE AInv
    OBVIOUS
  <1>1. procs = << >> /\ txs = << >> /\ delivery = << >> /\ Calls = {}
    BY DEF Init, Calls
  <1>2. \A a : Rows(a) = {} /\ Fresh(a) = {}
    BY <1>1 DEF Rows, Fresh, Unindexed
  <1>3. \A a : RowSum(a) = 0 /\ FreshSum(a) = 0
    <2> SUFFICES ASSUME NEW a PROVE RowSum(a) = 0 /\ FreshSum(a) = 0
      OBVIOUS
    <2>1. /\ RowSum(a) = SumFunction([i \in {} |-> procs[i].amount])
          /\ FreshSum(a) = SumFunction([k \in {} |-> delivery[k].amount])
      BY <1>2 DEF RowSum, FreshSum
    <2> QED
      BY <2>1, TotalEmpty
  <1>4. CallSum = 0
    <2>1. CallSum = SumFunction([d \in {} |-> Amount[d]])
      BY <1>1 DEF CallSum
    <2> QED
      BY <2>1, TotalEmpty
  <1>5. \A a \in Managed : balance[a] = Owed(a)
    BY <1>3, <1>4, OwedIs, AccountsManaged DEF Init
  <1> QED
    BY <1>1, <1>5, OnceInit, FS_EmptySet DEF AInv, Covered

LEMMA CoverImpliesSafe == AInv => DepositsCoverRows
  BY DEF AInv, Covered, DepositsCoverRows

\* The tokens an account has in the contract are exactly those its rows,
\* calls and unindexed events still need, for any amounts and deliveries.
THEOREM Deposits == Spec => []DepositsCoverRows
  BY CoverInit, CoverNext, CoverImpliesSafe, PTL DEF Spec
=============================================================================
