---------------------------- MODULE WSTTxProofs ----------------------------
(* What the rows of eth_ibet_wst_tx promise for any number of operations,   *)
(* transactions, stale nonces, lost sends and reorganisations.              *)
EXTENDS WSTTx, FiniteSetTheorems, SequenceTheorems, TLAPS

Tx == [op : Ops, nonce : Nat \ {0}]
Block == [tx : DOMAIN txs, ok : BOOLEAN]

\* Appending keeps what is there, at the same places.
LEMMA AppendKeeps ==
    ASSUME NEW S, NEW s \in Seq(S), NEW e \in S
    PROVE  /\ Append(s, e) \in Seq(S)
           /\ Len(Append(s, e)) = Len(s) + 1
           /\ DOMAIN Append(s, e) = 1..(Len(s) + 1)
           /\ \A i \in DOMAIN s : Append(s, e)[i] = s[i]
           /\ Append(s, e)[Len(s) + 1] = e
  <1>1. Append(s, e) \in Seq(S) /\ Len(Append(s, e)) = Len(s) + 1
    BY AppendProperties
  <1>2. DOMAIN s = 1..Len(s) /\ DOMAIN Append(s, e) = 1..(Len(s) + 1) /\ Len(s) \in Nat
    BY <1>1, LenProperties
  <1> QED
    BY <1>1, <1>2, AppendProperties

\* A transaction that is sent is appended, for the row in flight.
LEMMA SendAppends ==
    ASSUME TypeOK, NEW o \in Ops, SendTx(o)
    PROVE  /\ txs' \in Seq(Tx)
           /\ Len(txs) \in Nat /\ Len(txs') = Len(txs) + 1
           /\ DOMAIN txs = 1..Len(txs) /\ DOMAIN txs' = 1..(Len(txs) + 1)
           /\ \A t \in DOMAIN txs : txs'[t] = txs[t]
           /\ txs'[Len(txs) + 1].op = o
           /\ faults' \in [stale : Nat, lost : Nat, reorg : Nat]
  <1>1. txs \in Seq(Tx) /\ Len(txs) \in Nat /\ DOMAIN txs = 1..Len(txs)
    BY LenProperties DEF TypeOK, Tx
  <1>2. PICK n \in (final + 1)..(Len(txs) + 1) :
            /\ txs' = Append(txs, [op |-> o, nonce |-> n])
            /\ faults' = faults \/ faults' = [faults EXCEPT !.stale = @ + 1]
    BY DEF SendTx
  <1>3. final \in Nat
    <2>1. Len(chain) \in Nat
      BY LenProperties DEF TypeOK
    <2> QED
      BY <2>1 DEF TypeOK
  <1>4. [op |-> o, nonce |-> n] \in Tx
    BY <1>1, <1>2, <1>3 DEF Tx
  <1>5. faults' \in [stale : Nat, lost : Nat, reorg : Nat]
    BY <1>2 DEF TypeOK
  <1> QED
    BY <1>1, <1>2, <1>4, <1>5, AppendKeeps

\* What is final stays: transactions are only added, and blocks are only
\* dropped above the final one.
LEMMA EthGrows ==
    ASSUME TypeOK, [Next]_vars
    PROVE  /\ txs' \in Seq(Tx)
           /\ DOMAIN txs = 1..Len(txs) /\ DOMAIN txs' = 1..Len(txs')
           /\ Len(txs) \in Nat /\ Len(txs') \in Nat /\ Len(txs) <= Len(txs')
           /\ \A t \in DOMAIN txs : txs'[t] = txs[t]
           /\ chain' \in Seq(Block')
           /\ final' \in 0..Len(chain') /\ final <= final' /\ final \in Nat
           /\ \A k \in 1..final : k \in DOMAIN chain' /\ chain'[k] = chain[k]
  <1>1. /\ txs \in Seq(Tx) /\ Len(txs) \in Nat /\ DOMAIN txs = 1..Len(txs)
        /\ chain \in Seq(Block) /\ Len(chain) \in Nat /\ DOMAIN chain = 1..Len(chain)
        /\ final \in 0..Len(chain)
    BY LenProperties DEF TypeOK, Tx, Block
  <1>2. CASE \E o \in Ops : SendTx(o)
    <2>1. PICK o \in Ops : SendTx(o)
      BY <1>2
    <2>2. /\ txs' \in Seq(Tx) /\ Len(txs') = Len(txs) + 1
          /\ DOMAIN txs' = 1..(Len(txs) + 1)
          /\ \A t \in DOMAIN txs : txs'[t] = txs[t]
      BY <2>1, SendAppends
    <2>3. chain' = chain /\ final' = final
      BY <2>1 DEF SendTx
    <2>4. Block \subseteq Block'
      BY <1>1, <2>2 DEF Block
    <2>5. chain' \in Seq(Block')
      BY <1>1, <2>3, <2>4, SeqMonotonic
    <2> QED
      BY <1>1, <2>2, <2>3, <2>5
  <1>3. CASE Mine
    <2>1. PICK t \in DOMAIN txs, ok \in BOOLEAN :
              chain' = Append(chain, [tx |-> t, ok |-> ok])
      BY <1>3 DEF Mine
    <2>2. txs' = txs /\ final' = final /\ Block' = Block
      BY <1>3 DEF Mine, Block
    <2>3. [tx |-> t, ok |-> ok] \in Block
      BY DEF Block
    <2>4. /\ chain' \in Seq(Block) /\ Len(chain') = Len(chain) + 1
          /\ DOMAIN chain' = 1..(Len(chain) + 1)
          /\ \A i \in DOMAIN chain : chain'[i] = chain[i]
      BY <1>1, <2>1, <2>3, AppendKeeps
    <2> QED
      BY <1>1, <2>2, <2>4
  <1>4. CASE Reorg
    <2>1. PICK n \in final..(Len(chain) - 1) : chain' = SubSeq(chain, 1, n)
      BY <1>4 DEF Reorg
    <2>2. txs' = txs /\ final' = final /\ Block' = Block
      BY <1>4 DEF Reorg, Block
    <2>3. n \in Nat /\ n < Len(chain) /\ \A i \in 1..n : chain[i] \in Block
      BY <1>1, <2>1, ElementOfSeq
    <2>4. /\ chain' \in Seq(Block)
          /\ Len(chain') = IF 1 <= n THEN n - 1 + 1 ELSE 0
          /\ \A i \in 1..(n - 1 + 1) : chain'[i] = chain[1 + i - 1]
      BY <2>1, <2>3, SubSeqProperties
    <2>5. Len(chain') = n /\ DOMAIN chain' = 1..n /\ \A i \in 1..n : chain'[i] = chain[i]
      BY <2>3, <2>4, LenProperties
    <2> QED
      BY <1>1, <2>1, <2>2, <2>4, <2>5
  <1>5. CASE Finalize
    BY <1>1, <1>5 DEF Finalize, Block
  <1>6. CASE UNCHANGED eth
    BY <1>1, <1>6 DEF eth, Block
  <1> QED
    BY <1>2, <1>3, <1>4, <1>5, <1>6
    DEF Next, vars, Insert, Refuse, MonitorRow, RecordSent, LoseSent, StartPass,
        SelectRows, EndPass

\* So the final verdict on a transaction stays.
LEMMA VerdictStays ==
    ASSUME TypeOK, [Next]_vars, NEW t \in DOMAIN txs
    PROVE  /\ t \in DOMAIN txs' /\ txs'[t] = txs[t]
           /\ IsFinal(t) => IsFinal(t)' /\ (Succeeded(t)' <=> Succeeded(t))
           /\ Taken(t) => Taken(t)'
  <1>1. /\ t \in DOMAIN txs' /\ txs'[t] = txs[t] /\ txs[t].nonce \in Nat \ {0}
    <2>1. txs \in Seq(Tx)
      BY DEF TypeOK, Tx
    <2>2. t \in 1..Len(txs) /\ t \in DOMAIN txs' /\ txs'[t] = txs[t]
      BY EthGrows
    <2>3. txs[t] \in Tx
      BY <2>1, <2>2, ElementOfSeq
    <2> QED
      BY <2>2, <2>3 DEF Tx
  <1>2. txs[t].nonce <= final =>
            /\ txs[t].nonce \in 1..final
            /\ txs[t].nonce \in DOMAIN chain /\ txs[t].nonce \in DOMAIN chain'
            /\ chain'[txs[t].nonce] = chain[txs[t].nonce]
            /\ txs[t].nonce <= final'
    <2>1. DOMAIN chain = 1..Len(chain) /\ Len(chain) \in Nat /\ final \in 0..Len(chain)
      BY LenProperties DEF TypeOK
    <2>2. Len(chain') \in Nat
      BY EthGrows, LenProperties
    <2>3. /\ final \in Nat /\ final' \in Nat /\ final <= final'
          /\ \A k \in 1..final : k \in DOMAIN chain' /\ chain'[k] = chain[k]
      BY <2>2, EthGrows
    <2>4. txs[t].nonce <= final => txs[t].nonce \in 1..final
      BY <1>1, <2>3
    <2> QED
      BY <1>1, <2>1, <2>3, <2>4
  <1> QED
    BY <1>1, <1>2 DEF IsFinal, IsMined, Succeeded, Taken

-----------------------------------------------------------------------------
(* The inductive invariant.  A row that is still on the monitor's list      *)
(* after it was finalized lost its nonce to another row of the list, so     *)
(* that its receipt will not be found.                                      *)

RowInv ==
    \A o \in Ops :
        /\ row[o].tx # 0 => txs[row[o].tx].op = o
        /\ row[o].status \in {"absent", "PENDING"} => row[o].tx = 0
        /\ row[o].finalized => row[o].tx # 0 /\ row[o].status \in {"SUCCEEDED", "FAILED"}

FlightInv ==
    flight # NoOp => /\ row[flight].status = "PENDING"
                     /\ Len(txs) \in DOMAIN txs /\ txs[Len(txs)].op = flight

PassInv ==
    /\ bound <= final
    /\ \A o \in todo : row[o].tx # 0 /\ (row[o].finalized => Taken(row[o].tx))

IInv == /\ TypeOK /\ RowInv /\ FlightInv /\ PassInv
        /\ FinalizedIsFinal /\ DeployedIsFinal /\ WhitelistShows

\* What the hash of a row refers to.
LEMMA HashRefers ==
    ASSUME TypeOK, NEW o \in Ops, row[o].tx # 0
    PROVE  /\ row[o].tx \in DOMAIN txs
           /\ txs[row[o].tx] \in Tx
  <1>1. row[o] \in Rows
    BY DEF TypeOK
  <1>2. DOMAIN txs = 1..Len(txs) /\ Len(txs) \in Nat /\ txs \in Seq(Tx)
    BY LenProperties DEF TypeOK, Tx
  <1>3. row[o].tx \in 1..Len(txs)
    BY <1>1, <1>2 DEF Rows
  <1> QED
    BY <1>2, <1>3, ElementOfSeq

\* Initially nothing is sent.
LEMMA Initially == Init => IInv
  <1> SUFFICES ASSUME Init PROVE IInv
    OBVIOUS
  <1>1. txs = <<>> /\ chain = <<>> /\ Len(txs) = 0 /\ Len(chain) = 0
    BY EmptySeq DEF Init
  <1>2. txs \in Seq([op : Ops, nonce : Nat \ {0}]) /\ chain \in Seq([tx : DOMAIN txs, ok : BOOLEAN])
    BY <1>1, EmptySeq
  <1>3. \A o \in Ops : row[o] = NoRow
    BY DEF Init
  <1>4. row \in [Ops -> Rows]
    BY <1>1 DEF Init, NoRow, Rows, Statuses
  <1>5. TypeOK
    BY <1>1, <1>2, <1>3, <1>4, WSTAssumption DEF Init, TypeOK, NoRow
  <1> QED
    BY <1>3, <1>5 DEF IInv, Init, RowInv, FlightInv, PassInv, FinalizedIsFinal,
                      DeployedIsFinal, WhitelistShows, NoRow

-----------------------------------------------------------------------------
(* What every step keeps.                                                  *)

Verdict(o) ==
    row[o].finalized =>
        LET t == row[o].tx
        IN  \/ row[o].status = "SUCCEEDED" /\ IsFinal(t) /\ Succeeded(t)
            \/ /\ row[o].status = "FAILED"
               /\ Taken(t) \/ (IsFinal(t) /\ ~Succeeded(t))

\* A verdict given earlier still holds.
LEMMA VerdictKept ==
    ASSUME IInv, [Next]_vars, NEW o \in Ops, row'[o].finalized => row'[o] = row[o]
    PROVE  Verdict(o)'
  <1> SUFFICES ASSUME row'[o].finalized PROVE Verdict(o)'
    BY DEF Verdict
  <1>1. row'[o] = row[o] /\ row[o].finalized
    OBVIOUS
  <1>2. row[o].tx \in DOMAIN txs
    BY <1>1, HashRefers DEF IInv, RowInv
  <1>3. Verdict(o)
    BY DEF IInv, FinalizedIsFinal, Verdict
  <1>4. /\ IsFinal(row[o].tx) => IsFinal(row[o].tx)' /\ (Succeeded(row[o].tx)' <=> Succeeded(row[o].tx))
        /\ Taken(row[o].tx) => Taken(row[o].tx)'
    <2> DEFINE t == row[o].tx
    <2>1. /\ IsFinal(t) => txs[t].nonce \in 1..final
          /\ Taken(t) => txs[t].nonce \in 1..final
      <3>1. txs[t].nonce \in Nat \ {0} /\ final \in Nat
        BY <1>1, HashRefers, EthGrows DEF IInv, RowInv, Tx
      <3> QED
        BY <3>1 DEF IsFinal, Taken
    <2>2. /\ txs'[t] = txs[t] /\ final <= final' /\ final \in Nat /\ final' \in Nat
          /\ \A k \in 1..final : k \in DOMAIN chain' /\ chain'[k] = chain[k]
      <3>1. Len(chain') \in Nat
        BY EthGrows, LenProperties DEF IInv
      <3> QED
        BY <3>1, <1>2, EthGrows DEF IInv
    <2>3. \A k \in 1..final : k \in DOMAIN chain
      <3>1. DOMAIN chain = 1..Len(chain) /\ Len(chain) \in Nat /\ final \in 0..Len(chain)
        BY LenProperties DEF IInv, TypeOK
      <3> QED
        BY <3>1
    <2>4. row'[o].tx = t
      BY <1>1
    <2> QED
      BY <2>1, <2>2, <2>3, <2>4 DEF IsFinal, IsMined, Succeeded, Taken
  <1> QED
    BY <1>1, <1>3, <1>4 DEF Verdict

\* The address of a deployed contract stays that of a final deployment.
LEMMA TokenKept ==
    ASSUME IInv, [Next]_vars, token' = token
    PROVE  DeployedIsFinal'
  <1> SUFFICES ASSUME token # 0 PROVE DeployedIsFinal'
    BY DEF DeployedIsFinal
  <1>1. token \in DOMAIN txs
    <2>1. DOMAIN txs = 1..Len(txs) /\ Len(txs) \in Nat
      BY LenProperties DEF IInv, TypeOK
    <2> QED
      BY <2>1 DEF IInv, TypeOK
  <1>2. PICK t \in DOMAIN txs : t = token
    BY <1>1
  <1>3. IsFinal(t) /\ Succeeded(t) /\ Kind[txs[t].op] = "deploy"
    BY <1>2 DEF IInv, DeployedIsFinal
  <1>4. txs'[t] = txs[t] /\ IsFinal(t)' /\ Succeeded(t)'
    BY <1>3, VerdictStays DEF IInv
  <1> QED
    BY <1>2, <1>3, <1>4 DEF DeployedIsFinal, IsFinal, Succeeded, IsMined

\* A transaction that was sent stays sent.
LEMMA SendsKept ==
    ASSUME TypeOK, [Next]_vars, NEW o
    PROVE  Sends(o) \subseteq Sends(o)'
  BY VerdictStays DEF Sends

\* The whitelist still shows what it showed when neither it nor a finalized row
\* has changed.
LEMMA TableKept ==
    ASSUME IInv, [Next]_vars, whitelist' = whitelist,
           \A o \in Ops : row'[o].finalized => row'[o] = row[o]
    PROVE  WhitelistShows'
  <1> SUFFICES ASSUME NEW o \in Ops,
                      row'[o].finalized, row'[o].status = "SUCCEEDED",
                      \A p \in Ops \ {o} : Target[p] = Target[o] => Sends(p)' = {}
               PROVE  /\ Kind[o] = "add" => Target[o] \in whitelist'
                      /\ Kind[o] = "delete" => Target[o] \notin whitelist'
    BY DEF WhitelistShows
  <1>1. \A p \in Ops \ {o} : Target[p] = Target[o] => Sends(p) = {}
    BY SendsKept DEF IInv
  <1>2. row[o].finalized /\ row[o].status = "SUCCEEDED"
    OBVIOUS
  <1> QED
    BY <1>1, <1>2 DEF IInv, WhitelistShows

\* The rows on the monitor's list keep what the list asked for.
LEMMA PassKept ==
    ASSUME IInv, [Next]_vars, bound' = bound, todo' \subseteq todo,
           \A o \in todo' : row'[o] = row[o]
    PROVE  PassInv'
  <1>1. bound' <= final'
    <2>1. final \in Nat /\ final <= final' /\ Len(chain') \in Nat /\ final' \in 0..Len(chain')
      BY EthGrows, LenProperties DEF IInv
    <2> QED
      BY <2>1 DEF IInv, PassInv, TypeOK
  <1>2. ASSUME NEW o \in todo'
        PROVE  (row[o].tx # 0 /\ (row[o].finalized => Taken(row[o].tx)))'
    <2>1. o \in Ops /\ row'[o] = row[o] /\ row[o].tx # 0
          /\ (row[o].finalized => Taken(row[o].tx))
      BY <1>2 DEF IInv, PassInv, TypeOK
    <2>2. PICK t \in DOMAIN txs : t = row[o].tx
      BY <2>1, HashRefers DEF IInv
    <2>3. Taken(t) => Taken(t)'
      BY VerdictStays DEF IInv
    <2> QED
      BY <2>1, <2>2, <2>3 DEF Taken, IsMined
  <1> QED
    BY <1>1, <1>2 DEF PassInv, Taken, IsMined

\* Types that no step disturbs.
LEMMA TypesKept ==
    ASSUME TypeOK, [Next]_vars
    PROVE  /\ Rows \subseteq Rows'
           /\ txs' \in Seq([op : Ops, nonce : Nat \ {0}])
           /\ chain' \in Seq([tx : DOMAIN txs', ok : BOOLEAN])
           /\ final' \in 0..Len(chain')
           /\ 0..Len(txs) \subseteq 0..Len(txs')
  BY EthGrows DEF Rows, Tx, Block

-----------------------------------------------------------------------------
(* One lemma per group of actions.                                         *)

\* The chain moves, or nothing does.
LEMMA ChainStep ==
    ASSUME IInv, [Next]_vars, Mine \/ Reorg \/ Finalize \/ UNCHANGED vars
    PROVE  IInv'
  <1>1. /\ row' = row /\ whitelist' = whitelist /\ token' = token /\ flight' = flight
        /\ pc' = pc /\ bound' = bound /\ todo' = todo /\ txs' = txs
    BY DEF Mine, Reorg, Finalize, vars, db, monitor, eth
  <1>2. faults' \in [stale : Nat, lost : Nat, reorg : Nat]
    <2>1. faults \in [stale : Nat, lost : Nat, reorg : Nat]
      BY DEF IInv, TypeOK
    <2>2. faults' = faults \/ faults' = [faults EXCEPT !.reorg = @ + 1]
      BY DEF Mine, Reorg, Finalize, vars
    <2>3. [faults EXCEPT !.reorg = @ + 1] \in [stale : Nat, lost : Nat, reorg : Nat]
      BY <2>1
    <2> QED
      BY <2>1, <2>2, <2>3
  <1>3. TypeOK'
    BY <1>1, <1>2, TypesKept DEF IInv, TypeOK, Rows
  <1>4. RowInv' /\ FlightInv'
    BY <1>1 DEF IInv, RowInv, FlightInv
  <1>5. PassInv'
    BY <1>1, PassKept
  <1>6. FinalizedIsFinal'
    BY <1>1, VerdictKept DEF FinalizedIsFinal, Verdict
  <1>7. DeployedIsFinal' /\ WhitelistShows'
    BY <1>1, TokenKept, TableKept
  <1> QED
    BY <1>3, <1>4, <1>5, <1>6, <1>7 DEF IInv

\* A pass of the monitor begins or ends.
LEMMA PassStep ==
    ASSUME IInv, [Next]_vars, StartPass \/ SelectRows \/ EndPass
    PROVE  IInv'
  <1>1. /\ row' = row /\ whitelist' = whitelist /\ token' = token /\ flight' = flight
        /\ txs' = txs /\ chain' = chain /\ final' = final /\ faults' = faults
    BY DEF StartPass, SelectRows, EndPass, db, eth
  <1>2. bound' = bound \/ bound' = final
    BY DEF StartPass, SelectRows, EndPass
  <1>3. /\ todo' \subseteq Ops /\ pc' \in {"idle", "select", "rows"}
        /\ \/ todo' \subseteq todo
           \/ \A o \in todo' : row[o].tx # 0 /\ ~row[o].finalized
    BY DEF StartPass, SelectRows, EndPass, IInv, TypeOK
  <1>4. final \in Nat
    BY EthGrows DEF IInv
  <1>5. TypeOK'
    BY <1>1, <1>2, <1>3, <1>4 DEF IInv, TypeOK, Rows
  <1>6. RowInv' /\ FlightInv'
    BY <1>1 DEF IInv, RowInv, FlightInv
  <1>7. PassInv'
    BY <1>1, <1>2, <1>3, <1>4 DEF IInv, PassInv, Taken, IsMined
  <1>8. FinalizedIsFinal'
    BY <1>1, VerdictKept DEF FinalizedIsFinal, Verdict
  <1>9. DeployedIsFinal' /\ WhitelistShows'
    BY <1>1, TokenKept, TableKept
  <1> QED
    BY <1>5, <1>6, <1>7, <1>8, <1>9 DEF IInv

\* A transaction is sent: its row is untouched until the commit.
LEMMA SendStep ==
    ASSUME IInv, [Next]_vars, NEW o \in Ops, SendTx(o)
    PROVE  IInv'
  <1>1. /\ row' = row /\ whitelist' = whitelist /\ token' = token /\ flight' = o
        /\ pc' = pc /\ bound' = bound /\ todo' = todo /\ row[o].status = "PENDING"
    BY DEF SendTx, db, monitor
  <1>2. /\ Len(txs) \in Nat /\ Len(txs') = Len(txs) + 1
        /\ DOMAIN txs' = 1..(Len(txs) + 1)
        /\ \A t \in DOMAIN txs : txs'[t] = txs[t]
        /\ txs'[Len(txs) + 1].op = o
        /\ faults' \in [stale : Nat, lost : Nat, reorg : Nat]
    BY SendAppends DEF IInv
  <1>3. TypeOK'
    <2>1. row' \in [Ops -> Rows']
      BY <1>1, TypesKept DEF IInv, TypeOK
    <2>2. token' \in 0..Len(txs')
      BY <1>1, TypesKept DEF IInv, TypeOK
    <2> QED
      BY <1>1, <1>2, <2>1, <2>2, TypesKept DEF IInv, TypeOK
  <1>4. RowInv'
    <2>1. \A p \in Ops : row[p].tx # 0 => txs'[row[p].tx] = txs[row[p].tx]
      BY <1>2, HashRefers DEF IInv
    <2> QED
      BY <1>1, <2>1 DEF IInv, RowInv
  <1>5. FlightInv'
    BY <1>1, <1>2 DEF FlightInv
  <1>6. PassInv'
    BY <1>1, PassKept
  <1>7. FinalizedIsFinal'
    BY <1>1, VerdictKept DEF FinalizedIsFinal, Verdict
  <1>8. DeployedIsFinal' /\ WhitelistShows'
    BY <1>1, TokenKept, TableKept
  <1> QED
    BY <1>3, <1>4, <1>5, <1>6, <1>7, <1>8 DEF IInv

\* A row without a verdict is written, or its sending is forgotten.
LEMMA RowStep ==
    ASSUME IInv, [Next]_vars,
           (\E o \in Ops : Insert(o) \/ Refuse(o)) \/ RecordSent \/ LoseSent
    PROVE  IInv'
  <1>1. /\ whitelist' = whitelist /\ token' = token
        /\ pc' = pc /\ bound' = bound /\ todo' = todo
        /\ txs' = txs /\ chain' = chain /\ final' = final
    BY DEF Insert, Refuse, RecordSent, LoseSent, db, monitor, eth
  <1>2. /\ faults' \in [stale : Nat, lost : Nat, reorg : Nat]
        /\ flight' = flight \/ flight' = NoOp
    <2>1. faults \in [stale : Nat, lost : Nat, reorg : Nat]
      BY DEF IInv, TypeOK
    <2>2. faults' = faults \/ faults' = [faults EXCEPT !.lost = @ + 1]
      BY DEF Insert, Refuse, RecordSent, LoseSent
    <2>3. [faults EXCEPT !.lost = @ + 1] \in [stale : Nat, lost : Nat, reorg : Nat]
      BY <2>1
    <2>4. flight' = flight \/ flight' = NoOp
      BY DEF Insert, Refuse, RecordSent, LoseSent
    <2> QED
      BY <2>1, <2>2, <2>3, <2>4
  <1>3. PICK o \in Ops :
           /\ \A p \in Ops \ {o} : row'[p] = row[p]
           /\ \/ row'[o] = row[o]
              \/ /\ row[o].status = "absent" /\ flight' = flight
                 /\ row' = [row EXCEPT ![o].status = "PENDING"]
              \/ /\ row[o].status = "PENDING" /\ flight = NoOp /\ flight' = NoOp
                 /\ row' = [row EXCEPT ![o].status = "FAILED"]
              \/ /\ o = flight /\ flight # NoOp /\ flight' = NoOp
                 /\ row' = [row EXCEPT ![o] = [status |-> "SENT", tx |-> Len(txs),
                                               finalized |-> FALSE]]
           /\ row' = row \/ row' = [row EXCEPT ![o] = row'[o]]
    <2>1. CASE \E o \in Ops : Insert(o)
      BY <2>1 DEF Insert, IInv, TypeOK
    <2>2. CASE \E o \in Ops : Refuse(o)
      BY <2>2 DEF Refuse, IInv, TypeOK
    <2>3. CASE RecordSent
      <3>1. flight \in Ops
        BY <2>3 DEF RecordSent, IInv, TypeOK
      <3> QED
        BY <2>3, <3>1 DEF RecordSent, IInv, TypeOK
    <2>4. CASE LoseSent
      <3>1. flight \in Ops
        BY <2>4 DEF LoseSent, IInv, TypeOK
      <3> QED
        BY <2>4, <3>1 DEF LoseSent, db
    <2> QED
      BY <2>1, <2>2, <2>3, <2>4
  <1>4. /\ row[o] \in Rows /\ row \in [Ops -> Rows]
        /\ Len(txs) \in Nat /\ DOMAIN txs = 1..Len(txs)
    BY EthGrows DEF IInv, TypeOK
  <1>5. \/ row'[o] = row[o]
        \/ /\ row[o].status = "absent" /\ flight' = flight
           /\ row'[o].status = "PENDING" /\ row'[o].tx = 0 /\ ~row'[o].finalized
        \/ /\ row[o].status = "PENDING" /\ flight' = NoOp
           /\ row'[o].status = "FAILED" /\ row'[o].tx = 0 /\ ~row'[o].finalized
        \/ /\ row[o].status = "PENDING" /\ o = flight /\ flight # NoOp /\ flight' = NoOp
           /\ row'[o].status = "SENT" /\ row'[o].tx = Len(txs) /\ ~row'[o].finalized
    BY <1>3, <1>4 DEF IInv, RowInv, FlightInv, Rows
  <1>6. row'[o] \in Rows
    <2>1. Len(txs) \in 0..Len(txs)
      BY <1>4
    <2>2. [status |-> "SENT", tx |-> Len(txs), finalized |-> FALSE] \in Rows
      BY <2>1 DEF Rows, Statuses
    <2>3. /\ [row[o] EXCEPT !.status = "PENDING"] \in Rows
          /\ [row[o] EXCEPT !.status = "FAILED"] \in Rows
      BY <1>4 DEF Rows, Statuses
    <2>4. \/ row'[o] = row[o]
          \/ row'[o] = [row[o] EXCEPT !.status = "PENDING"]
          \/ row'[o] = [row[o] EXCEPT !.status = "FAILED"]
          \/ row'[o] = [status |-> "SENT", tx |-> Len(txs), finalized |-> FALSE]
      BY <1>3, <1>4
    <2> QED
      BY <1>4, <2>2, <2>3, <2>4
  <1>7. row' \in [Ops -> Rows]
    BY <1>3, <1>4, <1>6
  <1>8. \A p \in Ops : row'[p].finalized => row'[p] = row[p]
    BY <1>3, <1>5
  <1>9. \A p \in todo : row'[p] = row[p]
    BY <1>3, <1>5 DEF IInv, PassInv, RowInv, TypeOK
  <1>10. flight # NoOp => Len(txs) # 0 /\ txs[Len(txs)].op = flight
    BY <1>4 DEF IInv, FlightInv
  <1>11. \A p \in Ops : row'[p].status \in {"SENT", "SUCCEEDED"} => row'[p].tx # 0
    BY <1>3, <1>5, <1>10 DEF IInv, TypeOK
  <1>12. TypeOK'
    BY <1>1, <1>2, <1>7, <1>11 DEF IInv, TypeOK, Rows
  <1>13. RowInv'
    BY <1>1, <1>3, <1>5, <1>10 DEF IInv, RowInv
  <1>14. FlightInv'
    <2> SUFFICES ASSUME flight' # NoOp PROVE FlightInv'
      BY DEF FlightInv
    <2>1. flight' = flight /\ flight # NoOp
      BY <1>2
    <2>2. /\ flight \in Ops /\ row[flight].status = "PENDING"
          /\ Len(txs) \in DOMAIN txs /\ txs[Len(txs)].op = flight
      BY <2>1 DEF IInv, FlightInv, TypeOK
    <2>3. row'[flight].status = "PENDING"
      BY <1>3, <1>5, <2>1, <2>2
    <2> QED
      BY <1>1, <2>1, <2>2, <2>3 DEF FlightInv
  <1>15. PassInv'
    BY <1>1, <1>9, PassKept
  <1>16. FinalizedIsFinal'
    BY <1>8, VerdictKept DEF FinalizedIsFinal, Verdict
  <1>17. DeployedIsFinal' /\ WhitelistShows'
    BY <1>1, <1>8, TokenKept, TableKept
  <1> QED
    BY <1>12, <1>13, <1>14, <1>15, <1>16, <1>17 DEF IInv

\* A receipt is taken: the row was not finalized before, and the rows that are
\* given up with it have lost their nonce on the final chain.
LEMMA MonitorStep ==
    ASSUME IInv, [Next]_vars, NEW o \in Ops, MonitorRow(o)
    PROVE  IInv'
  <1> DEFINE t == row[o].tx
             ok == Succeeded(t)
             isFinal == txs[t].nonce <= bound
             D == Duplicates(o, ok, isFinal)
             result == [status |-> IF ok THEN "SUCCEEDED" ELSE "FAILED",
                        tx |-> t, finalized |-> isFinal]
             dropped(p) == [status |-> "FAILED", tx |-> row[p].tx, finalized |-> TRUE]
  <1>1. /\ o \in todo /\ IsMined(t) /\ todo' = todo \ {o}
        /\ flight' = flight /\ pc' = pc /\ bound' = bound /\ faults' = faults
        /\ txs' = txs /\ chain' = chain /\ final' = final
        /\ whitelist' = NewWhitelist(o, ok, isFinal)
        /\ token' = NewToken(o, ok, isFinal)
        /\ row' = [p \in Ops |-> CASE p = o -> result
                                   [] p \in D -> dropped(p)
                                   [] OTHER -> row[p]]
    BY DEF MonitorRow, eth
  <1>2. /\ o \notin D /\ D \subseteq Ops
        /\ row'[o] = result
        /\ \A p \in D : row'[p] = dropped(p)
        /\ \A p \in Ops \ (D \cup {o}) : row'[p] = row[p]
    BY <1>1 DEF Duplicates
  <1>3. /\ t \in DOMAIN txs /\ t # 0 /\ txs[t].op = o /\ txs[t].nonce \in Nat \ {0}
        /\ ~row[o].finalized
    BY <1>1, HashRefers DEF IInv, PassInv, RowInv, Taken, Tx
  <1>4. bound <= final /\ bound \in Nat /\ final \in Nat
    BY EthGrows DEF IInv, PassInv, TypeOK
  <1>5. isFinal => IsFinal(t)
    BY <1>1, <1>3, <1>4 DEF IsFinal
  <1>6. ASSUME NEW p \in D
        PROVE  /\ row[p].tx \in DOMAIN txs /\ row[p].tx # 0 /\ txs[row[p].tx].op = p
               /\ Taken(row[p].tx)
               /\ ok /\ row[p].status = "SENT" /\ ~row[p].finalized
    <2>1. /\ p \in Ops /\ p # o /\ row[p].status = "SENT" /\ ~row[p].finalized
          /\ txs[row[p].tx].nonce = txs[t].nonce /\ ok /\ isFinal
      BY DEF Duplicates
    <2>2. row[p].tx # 0 /\ row[p].tx \in DOMAIN txs /\ txs[row[p].tx].op = p
      BY <2>1, HashRefers DEF IInv, TypeOK, RowInv
    <2>3. row[p].tx # t
      BY <1>3, <2>1, <2>2
    <2>4. Taken(row[p].tx)
      BY <1>1, <1>3, <1>5, <2>1, <2>3 DEF Taken, IsMined, IsFinal
    <2> QED
      BY <2>1, <2>2, <2>4
  <1>7. row \in [Ops -> Rows] /\ DOMAIN txs = 1..Len(txs) /\ Len(txs) \in Nat
    BY EthGrows DEF IInv, TypeOK
  <1>8. result \in Rows /\ \A p \in D : dropped(p) \in Rows
    BY <1>3, <1>6, <1>7 DEF Rows, Statuses
  <1>9. row' \in [Ops -> Rows]
    BY <1>1, <1>2, <1>7, <1>8
  <1>10. result.status \in {"SUCCEEDED", "FAILED"} /\ result.tx = t
         /\ (result.status = "SUCCEEDED" <=> ok) /\ result.finalized = isFinal
    OBVIOUS
  <1>11. \A p \in D : /\ dropped(p).status = "FAILED" /\ dropped(p).tx = row[p].tx
                      /\ dropped(p).finalized
    OBVIOUS
  <1>12. /\ ~ok => whitelist' = whitelist
         /\ ok /\ Kind[o] = "add" => whitelist' = whitelist \cup {Target[o]}
         /\ ok /\ Kind[o] = "delete" => whitelist' = whitelist \ {Target[o]}
         /\ Kind[o] \notin {"add", "delete"} => whitelist' = whitelist
    BY <1>1 DEF NewWhitelist
  <1>13. token' = token \/ (token' = t /\ ok /\ isFinal /\ Kind[o] = "deploy")
    BY <1>1 DEF NewToken
  <1> HIDE DEF ok, isFinal, D, result, dropped
  <1>14. TypeOK'
    <2>1. whitelist' \subseteq Accounts
      BY <1>12, WSTAssumption DEF IInv, TypeOK
    <2>2. token' \in 0..Len(txs)
      BY <1>3, <1>7, <1>13 DEF IInv, TypeOK
    <2>3. \A p \in Ops : row'[p].status \in {"SENT", "SUCCEEDED"} => row'[p].tx # 0
      <3>1. \A p \in Ops : row[p].status \in {"SENT", "SUCCEEDED"} => row[p].tx # 0
        BY DEF IInv, TypeOK
      <3>2. row'[o].tx # 0
        BY <1>2, <1>3, <1>10
      <3>3. \A p \in D : row'[p].status = "FAILED"
        BY <1>2, <1>11
      <3> QED
        BY <1>2, <3>1, <3>2, <3>3
    <2> QED
      BY <1>1, <1>9, <2>1, <2>2, <2>3 DEF IInv, TypeOK, Rows
  <1>15. RowInv'
    <2> SUFFICES ASSUME NEW p \in Ops
                 PROVE  /\ row'[p].tx # 0 => txs[row'[p].tx].op = p
                        /\ row'[p].status \in {"absent", "PENDING"} => row'[p].tx = 0
                        /\ row'[p].finalized => /\ row'[p].tx # 0
                                                /\ row'[p].status \in {"SUCCEEDED", "FAILED"}
      BY <1>1 DEF RowInv
    <2>1. CASE p = o
      BY <1>2, <1>3, <1>10, <2>1
    <2>2. CASE p \in D
      BY <1>2, <1>6, <1>11, <2>2
    <2>3. CASE p \notin D \cup {o}
      BY <1>2, <2>3 DEF IInv, RowInv
    <2> QED
      BY <2>1, <2>2, <2>3
  <1>16. FlightInv'
    <2> SUFFICES ASSUME flight # NoOp
                 PROVE  /\ row'[flight].status = "PENDING"
                        /\ Len(txs) \in DOMAIN txs /\ txs[Len(txs)].op = flight
      BY <1>1 DEF FlightInv
    <2>1. /\ flight \in Ops /\ row[flight].status = "PENDING" /\ row[flight].tx = 0
          /\ Len(txs) \in DOMAIN txs /\ txs[Len(txs)].op = flight
      BY DEF IInv, FlightInv, RowInv, TypeOK
    <2>2. flight # o /\ flight \notin D
      BY <1>3, <1>6, <2>1
    <2> QED
      BY <1>2, <2>1, <2>2
  <1>17. PassInv'
    <2>1. ASSUME NEW p \in todo'
          PROVE  row'[p].tx # 0 /\ (row'[p].finalized => Taken(row[p].tx) /\ row'[p].tx = row[p].tx)
      <3>1. p \in Ops /\ p # o /\ row[p].tx # 0 /\ (row[p].finalized => Taken(row[p].tx))
        BY <1>1, <2>1 DEF IInv, PassInv, TypeOK
      <3> QED
        BY <1>2, <1>6, <1>11, <3>1
    <2>2. \A u : Taken(u)
                 => /\ txs'[u].nonce <= final'
                    /\ ~(txs'[u].nonce \in DOMAIN chain' /\ chain'[txs'[u].nonce].tx = u)
      BY <1>1 DEF Taken, IsMined
    <2>3. \A p \in todo' : row'[p].finalized => Taken(row'[p].tx)
      BY <2>1
    <2>4. bound' <= final'
      BY <1>1, <1>4
    <2> QED
      BY <2>1, <2>2, <2>3, <2>4 DEF PassInv, Taken, IsMined
  <1>18. FinalizedIsFinal'
    <2>1. ASSUME NEW p \in Ops PROVE Verdict(p)'
      <3>1. CASE p = o
        BY <1>1, <1>2, <1>5, <1>10, <3>1
        DEF Verdict, ok, IsFinal, Succeeded, IsMined
      <3>2. CASE p \in D
        BY <1>1, <1>2, <1>6, <1>11, <3>2 DEF Verdict, Taken, IsMined
      <3>3. CASE p \notin D \cup {o}
        BY <1>2, <3>3, VerdictKept
      <3> QED
        BY <3>1, <3>2, <3>3
    <2> QED
      BY <2>1 DEF FinalizedIsFinal, Verdict
  <1>19. DeployedIsFinal'
    <2>1. CASE token' = token
      BY <2>1, TokenKept
    <2>2. CASE token' = t /\ ok /\ isFinal /\ Kind[o] = "deploy"
      BY <1>1, <1>3, <1>5, <2>2 DEF DeployedIsFinal, ok, IsFinal, Succeeded, IsMined
    <2> QED
      BY <1>13, <2>1, <2>2
  <1>20. WhitelistShows'
    <2> SUFFICES ASSUME NEW q \in Ops,
                        row'[q].finalized, row'[q].status = "SUCCEEDED",
                        \A p \in Ops \ {q} : Target[p] = Target[q] => Sends(p) = {}
                 PROVE  /\ Kind[q] = "add" => Target[q] \in whitelist'
                        /\ Kind[q] = "delete" => Target[q] \notin whitelist'
      BY <1>1 DEF WhitelistShows, Sends
    <2>1. CASE q = o
      BY <1>2, <1>10, <1>12, <2>1
    <2>2. CASE q # o
      <3>1. q \notin D /\ row'[q] = row[q]
        BY <1>2, <1>11, <2>2
      <3>2. Target[o] # Target[q]
        <4>1. t \in Sends(o)
          BY <1>3 DEF Sends
        <4> QED
          BY <2>2, <4>1
      <3>3. /\ Kind[q] = "add" => Target[q] \in whitelist
            /\ Kind[q] = "delete" => Target[q] \notin whitelist
        BY <3>1 DEF IInv, WhitelistShows
      <3> QED
        BY <1>12, <3>2, <3>3
    <2> QED
      BY <2>1, <2>2
  <1> QED
    BY <1>14, <1>15, <1>16, <1>17, <1>18, <1>19, <1>20 DEF IInv

-----------------------------------------------------------------------------
(* The theorems.                                                           *)

\* The invariant is inductive.
LEMMA Inductive == Spec => []IInv
  <1>1. IInv /\ [Next]_vars => IInv'
    <2> SUFFICES ASSUME IInv, [Next]_vars PROVE IInv'
      OBVIOUS
    <2>1. CASE Mine \/ Reorg \/ Finalize \/ UNCHANGED vars
      BY <2>1, ChainStep
    <2>2. CASE StartPass \/ SelectRows \/ EndPass
      BY <2>2, PassStep
    <2>3. CASE \E o \in Ops : SendTx(o)
      BY <2>3, SendStep
    <2>4. CASE (\E o \in Ops : Insert(o) \/ Refuse(o)) \/ RecordSent \/ LoseSent
      BY <2>4, RowStep
    <2>5. CASE \E o \in Ops : MonitorRow(o)
      BY <2>5, MonitorStep
    <2> QED
      BY <2>1, <2>2, <2>3, <2>4, <2>5 DEF Next
  <1> QED
    BY Initially, <1>1, PTL DEF Spec

\* Rows, tables, hashes, chain and places keep their types, whatever is lost,
\* dropped or sent twice.
THEOREM Typing == Spec => []TypeOK
  <1>1. IInv => TypeOK
    BY DEF IInv
  <1> QED
    BY <1>1, Inductive, PTL

\* The finalized flag of processor_eth_wst_monitor_txreceipt.py is given only to
\* what no reorganisation can change.
THEOREM Finality == Spec => []FinalizedIsFinal
  <1>1. IInv => FinalizedIsFinal
    BY DEF IInv
  <1> QED
    BY <1>1, Inductive, PTL

\* token.ibet_wst_address is the address of a contract on the final chain.
THEOREM Deployment == Spec => []DeployedIsFinal
  <1>1. IInv => DeployedIsFinal
    BY DEF IInv
  <1> QED
    BY <1>1, Inductive, PTL

\* The whitelist table shows every final change that has no rival.
THEOREM Whitelisting == Spec => []WhitelistShows
  <1>1. IInv => WhitelistShows
    BY DEF IInv
  <1> QED
    BY <1>1, Inductive, PTL

\* A row is given up as FAILED only when its operation has not been and cannot be
\* executed, unless a lost send made the processor send it again.
THEOREM NeverExecuted == Spec => []FailedNeverExecuted
  <1>1. IInv => FailedNeverExecuted
    <2> SUFFICES ASSUME IInv, NEW o \in Ops, row[o].finalized,
                        row[o].status = "FAILED", Cardinality(Sends(o)) = 1
                 PROVE  ~Executed(o) /\ \A t \in Sends(o) : txs[t].nonce <= final
      BY DEF FailedNeverExecuted
    <2>1. row[o].tx \in Sends(o)
      BY HashRefers DEF IInv, RowInv, Sends
    <2>2. Sends(o) = {row[o].tx}
      <3>1. IsFiniteSet(Sends(o))
        <4>1. DOMAIN txs = 1..Len(txs) /\ Len(txs) \in Nat
          BY LenProperties DEF IInv, TypeOK
        <4>2. IsFiniteSet(1..Len(txs))
          BY <4>1, FS_Interval
        <4> QED
          BY <4>1, <4>2, FS_Subset DEF Sends
      <3>2. PICK x : Sends(o) = {x}
        BY <3>1, FS_Singleton
      <3> QED
        BY <2>1, <3>2
    <2>3. Taken(row[o].tx) \/ (IsFinal(row[o].tx) /\ ~Succeeded(row[o].tx))
      BY DEF IInv, FinalizedIsFinal
    <2>4. txs[row[o].tx].nonce <= final /\ ~Succeeded(row[o].tx)
      BY <2>3 DEF Taken, IsFinal, Succeeded
    <2> QED
      BY <2>2, <2>4 DEF Executed, Sends
  <1> QED
    BY <1>1, Inductive, PTL

\* No later step changes the verdict on a row.
THEOREM VerdictForGood == Spec => FinalizedForGood
  <1>1. IInv /\ [Next]_vars => [\A o \in Ops : row[o].finalized => row'[o] = row[o]]_vars
    <2> SUFFICES ASSUME IInv, Next, NEW o \in Ops, row[o].finalized
                 PROVE  row'[o] = row[o]
      BY DEF vars, db
    <2>1. row[o].status \in {"SUCCEEDED", "FAILED"} /\ row \in [Ops -> Rows]
      BY DEF IInv, RowInv, TypeOK
    <2>2. ASSUME NEW p \in Ops, Insert(p) \/ Refuse(p) PROVE row'[o] = row[o]
      BY <2>1, <2>2 DEF Insert, Refuse
    <2>3. ASSUME RecordSent PROVE row'[o] = row[o]
      BY <2>1, <2>3 DEF RecordSent, IInv, FlightInv
    <2>4. ASSUME NEW p \in Ops, MonitorRow(p) PROVE row'[o] = row[o]
      <3>1. p \in todo /\ IsMined(row[p].tx)
        BY <2>4 DEF MonitorRow
      <3>2. ~row[p].finalized
        BY <3>1 DEF IInv, PassInv, Taken
      <3>3. \A ok, isFinal : o \notin Duplicates(p, ok, isFinal)
        BY DEF Duplicates
      <3> QED
        BY <2>4, <3>2, <3>3 DEF MonitorRow
    <2>5. ASSUME NEW p \in Ops, SendTx(p) PROVE row'[o] = row[o]
      BY <2>5 DEF SendTx, db
    <2>6. ASSUME \/ LoseSent \/ Mine \/ Reorg \/ Finalize
                 \/ StartPass \/ SelectRows \/ EndPass
          PROVE  row'[o] = row[o]
      BY <2>6 DEF LoseSent, Mine, Reorg, Finalize, StartPass, SelectRows, EndPass, db
    <2> QED
      BY <2>2, <2>3, <2>4, <2>5, <2>6 DEF Next
  <1> QED
    BY <1>1, Inductive, PTL DEF Spec, FinalizedForGood
=============================================================================
