---------------------------- MODULE IndexProofs ----------------------------
(* What components that follow the events of a chain promise, for every value  *)
(* of their constants.  First the two monitors of the bridge, whose names are   *)
(* those of WSTBridge: for any locks, requests, reorganisations, aborted passes *)
(* and restarts, every lock is minted once, every final burn or transfer has   *)
(* one row, results stay.                                                    *)
(* Approval: applications for a transfer.  What an event says has happened      *)
(* cannot be undone, whoever decided an application is the only one, and a pass   *)
(* reads everything of an application that it does not overlook.                *)
EXTENDS WSTBridge, Sums, FiniteSetTheorems, SequenceTheorems, TLAPS

CONSTANTS OnToken, OnEscrow, Huge, Undated, Requests, Lot, MaxAborts,
          Owners, Fin, DataIds, NoTemplate, Templates, MaxLedgers, MaxEdits, MaxTrades,
          Investors, Markets, Market, ExchangeChanges, StatusFaults, Issued, MaxBlocks, MaxLists,
          MaxFaults
VARIABLES chain, log, status, listed, approvals, history, request, span, past,
          template, data, edits, holders, trades, info, requests, ledgers, asked,
          cur, work, complete, aborts,
          wallet, deposit, truth, exchange, lists, target, reached, book, draft, events

Approval == INSTANCE TransferApproval WITH db <- approvals
Ledger == INSTANCE Ledger WITH Accounts <- Owners, MaxRequests <- MaxLedgers
HolderList == INSTANCE TokenHolders WITH
    Accounts <- Investors, Owner <- Issuer, Exchanges <- Markets, FirstExchange <- Market,
    true <- truth, from <- reached, LotSize <- Lot, Supply <- Issued, MaxBlock <- MaxBlocks


LockEvent == [account : Accounts, value : Amounts, bridge : BOOLEAN, watched : BOOLEAN]
WstRow == [type : {"mint", "transfer", "burn", "force_burn"},
           from : Holders, to : Holders, value : Amounts,
           authorizer : Accounts \cup {Issuer}, src : 0..Len(lockLog), finalized : BOOLEAN]
BtxRow == [type : {"unlock", "change"}, from : Accounts, to : Holders, value : Amounts,
           src : 1..final, status : {"PENDING", "SUCCEEDED", "FAILED"}]
Moves == {"transfer", "burn", "force_burn"}
MintRows == {i \in DOMAIN wst : wst[i].type = "mint"}

-----------------------------------------------------------------------------
(* The inductive invariant.                                                *)

\* Rows that mint are those of Lock events that were passed, one for each; the
\* others are requests.
RowInv ==
    /\ IsFiniteSet(DOMAIN wst)
    /\ \A i \in MintRows :
          /\ wst[i].src \in 1..synced.ibet /\ i[2] = wst[i].src
          /\ lockLog[wst[i].src].bridge
          /\ wst[i].from = Zero /\ wst[i].to = lockLog[wst[i].src].account
          /\ wst[i].value = lockLog[wst[i].src].value
    /\ \A i, j \in MintRows : wst[i].src = wst[j].src => i = j
    /\ \A i \in DOMAIN wst \ MintRows :
          /\ i[2] = 0 /\ wst[i].from \in Accounts
          /\ wst[i].type # "transfer" => wst[i].to = Zero
          /\ wst[i].type = "transfer" => wst[i].to \in Accounts

\* There is nothing to transfer or to burn on Ethereum before a lock was passed.
ChainInv ==
    \A k \in DOMAIN eth :
       /\ eth[k].type \in {"reverted", wst[eth[k].row].type}
       /\ eth[k].type \in Moves => MintRows # {}
       /\ \A a \in Accounts : eth[k].balance[a] > 0 => MintRows # {}

\* A token with watched locks or rows that mint is on the list of every pass.
WatchInv ==
    /\ watched => deployed
    /\ MintRows # {} => deployed
    /\ \A k \in DOMAIN lockLog : lockLog[k].watched => deployed
    /\ (/\ pc # "load" /\ faults.deleted = 0
        /\ MintRows # {} \/ \E k \in DOMAIN lockLog : lockLog[k].watched) => watched

\* What was passed while watched has its row, unless it was skipped.
PassedInv ==
    faults.deleted = 0 =>
       /\ \A k \in 1..synced.ibet :
             lockLog[k].bridge /\ lockLog[k].watched /\ k \notin faults.skipped
                => \E i \in MintRows : wst[i].src = k
       /\ \A k \in 1..synced.eth :
             eth[k].type \in Moves => \E j \in DOMAIN btx : btx[j].src = k

\* Rows for ibet are made of final events that were passed, one of each.
UnlockInv ==
    /\ \A j \in DOMAIN btx :
          /\ btx[j].src \in 1..synced.eth /\ j[2] = btx[j].src
          /\ eth[btx[j].src].type
                \in IF btx[j].type = "unlock" THEN {"burn", "force_burn"} ELSE {"transfer"}
          /\ btx[j].value = wst[eth[btx[j].src].row].value
          /\ btx[j].from = wst[eth[btx[j].src].row].from
          /\ btx[j].to = wst[eth[btx[j].src].row].to
    /\ \A i, j \in DOMAIN btx : btx[i].src = btx[j].src => i = j

\* The list of the bridge sender has only rows without a result.
TodoInv == \A j \in todo : btx[j].status = "PENDING"

IInv == /\ TypeOK /\ RowInv /\ ChainInv /\ WatchInv /\ PassedInv /\ UnlockInv /\ TodoInv

-----------------------------------------------------------------------------
(* What the actions do to tables and chains.                               *)

\* A table keeps the type of its rows when rows of that type are added.
LEMMA InsertedType ==
    ASSUME NEW t, NEW n, NEW S,
           \A i \in DOMAIN t : t[i] \in S, \A i \in DOMAIN n : n[i] \in S
    PROVE  Inserted(t, n) \in [DOMAIN Inserted(t, n) -> S]
  BY DEF Inserted

\* Logs, tables and block numbers in terms of 1..n.
LEMMA Ranges ==
    ASSUME TypeOK
    PROVE  /\ lockLog \in Seq(LockEvent) /\ Len(lockLog) \in Nat
           /\ DOMAIN lockLog = 1..Len(lockLog)
           /\ \A k \in 1..Len(lockLog) : lockLog[k] \in LockEvent
           /\ eth \in Seq(Event) /\ Len(eth) \in Nat /\ DOMAIN eth = 1..Len(eth)
           /\ \A k \in 1..Len(eth) : eth[k] \in Event
           /\ final \in Nat /\ final <= Len(eth)
           /\ synced.ibet \in Nat /\ synced.ibet <= Len(lockLog)
           /\ synced.eth \in Nat /\ synced.eth <= final
           /\ wst \in [DOMAIN wst -> WstRow] /\ btx \in [DOMAIN btx -> BtxRow]
           /\ \A i \in DOMAIN wst : wst[i] \in WstRow
           /\ \A j \in DOMAIN btx : btx[j] \in BtxRow
  <1>1. lockLog \in Seq(LockEvent) /\ eth \in Seq(Event)
    BY DEF TypeOK, LockEvent
  <1>2. /\ Len(lockLog) \in Nat /\ DOMAIN lockLog = 1..Len(lockLog)
        /\ Len(eth) \in Nat /\ DOMAIN eth = 1..Len(eth)
    BY <1>1, LenProperties
  <1>3. /\ \A k \in 1..Len(lockLog) : lockLog[k] \in LockEvent
        /\ \A k \in 1..Len(eth) : eth[k] \in Event
    BY <1>1, ElementOfSeq
  <1>4. /\ final \in Nat /\ final <= Len(eth)
        /\ synced.ibet \in Nat /\ synced.ibet <= Len(lockLog)
        /\ synced.eth \in Nat /\ synced.eth <= final
    BY <1>2 DEF TypeOK
  <1>5. wst \in [DOMAIN wst -> WstRow] /\ btx \in [DOMAIN btx -> BtxRow]
    BY DEF TypeOK, WstRow, BtxRow
  <1> QED
    BY <1>1, <1>2, <1>3, <1>4, <1>5

\* Balances on Ethereum are natural numbers.
LEMMA BalanceType ==
    ASSUME TypeOK
    PROVE  \A a \in Accounts : Balance(a) \in Nat
  <1>1. CASE eth = <<>>
    BY <1>1 DEF Balance
  <1>2. CASE eth # <<>>
    <2>1. Len(eth) \in 1..Len(eth)
      BY <1>2, Ranges, EmptySeq
    <2>2. eth[Len(eth)] \in Event
      BY <2>1, Ranges
    <2> QED
      BY <1>2, <2>2 DEF Balance, Event
  <1> QED
    BY <1>1, <1>2

\* A Lock event is appended; it tells if the token is watched.
LEMMA LockEffect ==
    ASSUME BridgeAssumption, TypeOK,
           NEW a \in Accounts, NEW v \in Amounts, NEW b \in BOOLEAN, Lock(a, v, b)
    PROVE  /\ lockLog' \in Seq(LockEvent) /\ Len(lockLog') = Len(lockLog) + 1
           /\ \A k \in 1..Len(lockLog) : lockLog'[k] = lockLog[k]
           /\ lockLog'[Len(lockLog) + 1].watched = watched
           /\ locked' \in [Accounts -> Nat]
  <1> DEFINE e == [account |-> a, value |-> v, bridge |-> b, watched |-> watched]
  <1>1. e \in LockEvent
    BY DEF LockEvent, TypeOK
  <1>2. lockLog' = Append(lockLog, e)
    BY DEF Lock
  <1>3. /\ lockLog' \in Seq(LockEvent) /\ Len(lockLog') = Len(lockLog) + 1
        /\ \A k \in 1..Len(lockLog) : lockLog'[k] = lockLog[k]
        /\ lockLog'[Len(lockLog) + 1] = e
    <2> HIDE DEF e
    <2> QED
      BY <1>1, <1>2, Ranges, AppendProperties
  <1>4. locked' \in [Accounts -> Nat]
    <2>1. locked \in [Accounts -> Nat] /\ v \in Nat
      BY DEF TypeOK, BridgeAssumption
    <2>2. locked' = [locked EXCEPT ![a] = @ + v]
      BY DEF Lock
    <2> QED
      BY <2>1, <2>2
  <1> QED
    BY <1>3, <1>4

\* Amounts that move leave natural numbers when the balance covers them.
LEMMA MovedType ==
    ASSUME NEW bal \in [Accounts -> Nat], NEW from, NEW to, NEW v \in Nat,
           from \in Accounts => bal[from] >= v
    PROVE  Moved(bal, from, to, v) \in [Accounts -> Nat]
  BY DEF Moved

\* A transaction that is mined is appended: it moves an amount that is covered, or
\* is reverted.
LEMMA MineEffect ==
    ASSUME BridgeAssumption, TypeOK, NEW i \in DOMAIN wst, Mine(i)
    PROVE  /\ eth' \in Seq(Event) /\ Len(eth') = Len(eth) + 1
           /\ \A k \in 1..Len(eth) : eth'[k] = eth[k]
           /\ eth'[Len(eth) + 1].row = i
           /\ \/ /\ eth'[Len(eth) + 1].type = "reverted"
                 /\ \A a \in Accounts : eth'[Len(eth) + 1].balance[a] = Balance(a)
              \/ /\ eth'[Len(eth) + 1].type = wst[i].type
                 /\ wst[i].from = Zero \/ Balance(wst[i].from) >= wst[i].value
                 /\ \A a \in Accounts \ {wst[i].to} :
                       eth'[Len(eth) + 1].balance[a] <= Balance(a)
  <1> DEFINE r == wst[i]
             ok == r.from = Zero \/ Balance(r.from) >= r.value
             bal == [a \in Accounts |-> Balance(a)]
             new == IF ok THEN Moved(bal, r.from, r.to, r.value) ELSE bal
             e == [type |-> IF ok THEN r.type ELSE "reverted", row |-> i, balance |-> new]
  <1>1. /\ r \in WstRow /\ bal \in [Accounts -> Nat] /\ r.value \in Nat
        /\ r.from \in Accounts => Balance(r.from) = bal[r.from]
    <2>1. r \in WstRow /\ bal \in [Accounts -> Nat]
      BY Ranges, BalanceType
    <2>2. r.value \in Nat
      BY <2>1 DEF WstRow, BridgeAssumption
    <2> QED
      BY <2>1, <2>2
  <1>2. new \in [Accounts -> Nat]
    <2>1. CASE ~ok
      BY <1>1, <2>1
    <2>2. CASE ok
      <3>1. r.from \in Accounts => bal[r.from] >= r.value
        BY <1>1, <2>2 DEF BridgeAssumption
      <3>2. Moved(bal, r.from, r.to, r.value) \in [Accounts -> Nat]
        <4> HIDE DEF r, bal
        <4> QED
          BY <1>1, <3>1, MovedType
      <3> QED
        BY <2>2, <3>2
    <2> QED
      BY <2>1, <2>2
  <1>3. e \in Event
    <2> HIDE DEF new
    <2> QED
      BY <1>1, <1>2 DEF Event, WstRow
  <1>4. eth' = Append(eth, e)
    BY DEF Mine
  <1>5. /\ eth' \in Seq(Event) /\ Len(eth') = Len(eth) + 1
        /\ \A k \in 1..Len(eth) : eth'[k] = eth[k]
        /\ eth'[Len(eth) + 1] = e
    <2> HIDE DEF e
    <2> QED
      BY <1>3, <1>4, Ranges, AppendProperties
  <1>6. CASE ok
    <2>1. \A a \in Accounts \ {r.to} : new[a] <= Balance(a)
      BY <1>1, <1>6 DEF Moved
    <2>2. e.type = r.type /\ e.row = i /\ e.balance = new
      BY <1>6
    <2> HIDE DEF new, e
    <2> QED
      BY <1>5, <1>6, <2>1, <2>2
  <1>7. CASE ~ok
    <2>1. e.type = "reverted" /\ e.row = i /\ \A a \in Accounts : e.balance[a] = Balance(a)
      BY <1>7
    <2> HIDE DEF e
    <2> QED
      BY <1>5, <2>1
  <1> QED
    BY <1>6, <1>7

\* A reorganisation keeps the blocks up to one that is not below the final one.
LEMMA ReorgEffect ==
    ASSUME TypeOK, Reorg
    PROVE  /\ eth' \in Seq(Event) /\ final <= Len(eth') /\ Len(eth') <= Len(eth)
           /\ \A k \in 1..Len(eth') : eth'[k] = eth[k]
  <1>1. PICK n \in final..(Len(eth) - 1) : eth' = SubSeq(eth, 1, n)
    BY DEF Reorg
  <1>2. n \in Nat /\ n < Len(eth) /\ \A k \in 1..n : eth[k] \in Event
    BY <1>1, Ranges
  <1>3. /\ eth' \in Seq(Event)
        /\ Len(eth') = IF 1 <= n THEN n - 1 + 1 ELSE 0
        /\ \A k \in 1..(n - 1 + 1) : eth'[k] = eth[1 + k - 1]
    BY <1>1, <1>2, SubSeqProperties
  <1> QED
    BY <1>1, <1>2, <1>3, Ranges

\* The rows a pass adds are those of Lock events it passes, one for each of them
\* that is a message of the bridge and not skipped.
LEMMA IbetToEthEffect ==
    ASSUME BridgeAssumption, TypeOK, RowInv, IbetToEth
    PROVE  \E upto \in synced.ibet..Len(lockLog) :
           \E new \in SUBSET ((synced.ibet + 1)..upto) :
             /\ synced' = [synced EXCEPT !.ibet = upto]
             /\ DOMAIN wst' = DOMAIN wst \cup ({synced.ibet} \X new)
             /\ \A i \in DOMAIN wst : wst'[i] = wst[i]
             /\ \A k \in new : /\ wst'[<<synced.ibet, k>>] = MintRow(k)
                               /\ <<synced.ibet, k>> \notin DOMAIN wst
             /\ \A k \in new : watched /\ lockLog[k].bridge
             /\ \A k \in (synced.ibet + 1)..upto :
                   watched /\ lockLog[k].bridge => k \in new \/ k \in faults'.skipped
             /\ wst' \in [DOMAIN wst' -> WstRow]
             /\ faults.skipped \subseteq faults'.skipped
             /\ faults'.skipped \subseteq DOMAIN lockLog
             /\ faults' = [faults EXCEPT !.skipped = faults'.skipped]
  <1>0. PICK upto \in synced.ibet..Len(lockLog) :
          \E skip \in SUBSET BridgeLocks(synced.ibet + 1, upto) :
             /\ wst' = Inserted(wst, [i \in {synced.ibet} \X (BridgeLocks(synced.ibet + 1, upto) \ skip)
                                         |-> MintRow(i[2])])
             /\ synced' = [synced EXCEPT !.ibet = upto]
             /\ faults' = [faults EXCEPT !.skipped = @ \cup skip]
    BY DEF IbetToEth
  <1>1. PICK skip \in SUBSET BridgeLocks(synced.ibet + 1, upto) :
          /\ wst' = Inserted(wst, [i \in {synced.ibet} \X (BridgeLocks(synced.ibet + 1, upto) \ skip)
                                      |-> MintRow(i[2])])
          /\ synced' = [synced EXCEPT !.ibet = upto]
          /\ faults' = [faults EXCEPT !.skipped = @ \cup skip]
    BY <1>0
  <1> DEFINE locks == BridgeLocks(synced.ibet + 1, upto)
             new == locks \ skip
             n == [i \in {synced.ibet} \X new |-> MintRow(i[2])]
  <1>2. /\ new \in SUBSET ((synced.ibet + 1)..upto)
        /\ \A k \in new : watched /\ lockLog[k].bridge
        /\ \A k \in (synced.ibet + 1)..upto : watched /\ lockLog[k].bridge => k \in locks
    BY DEF BridgeLocks
  <1>3. upto \in Nat /\ \A k \in new : k \in 1..Len(lockLog) /\ k > synced.ibet
    BY <1>1, <1>2, Ranges
  <1>4. \A k \in new : MintRow(k) \in WstRow
    <2>1. ASSUME NEW k \in new PROVE lockLog[k] \in LockEvent
      BY <1>3, <2>1, Ranges
    <2> HIDE DEF new
    <2> QED
      BY <1>3, <2>1, Ranges DEF MintRow, Row, WstRow, LockEvent, Holders
  <1>5. ASSUME NEW k \in new PROVE <<synced.ibet, k>> \notin DOMAIN wst
    <2>1. k \in Nat /\ k > synced.ibet /\ k # 0
      BY <1>3, Ranges
    <2>2. \A i \in DOMAIN wst : i[2] = 0 \/ i[2] <= synced.ibet
      BY Ranges DEF RowInv, MintRows
    <2> HIDE DEF new
    <2> QED
      BY <2>1, <2>2, Ranges
  <1>6. DOMAIN n = {synced.ibet} \X new
    BY DEF n
  <1>7. \A i \in DOMAIN n : i = <<synced.ibet, i[2]>> /\ i[2] \in new /\ n[i] = MintRow(i[2])
    <2> HIDE DEF new
    <2> QED
      BY <1>6
  <1>8. wst' = Inserted(wst, n)
    BY <1>1
  <1>9. /\ DOMAIN wst' = DOMAIN wst \cup ({synced.ibet} \X new)
        /\ \A i \in DOMAIN wst : wst'[i] = wst[i]
        /\ \A k \in new : wst'[<<synced.ibet, k>>] = MintRow(k)
    <2> HIDE DEF new, n
    <2>1. /\ DOMAIN wst' = DOMAIN wst \cup DOMAIN n
          /\ \A i \in DOMAIN wst : wst'[i] = wst[i]
          /\ \A i \in DOMAIN n \ DOMAIN wst : wst'[i] = n[i]
      BY <1>8 DEF Inserted
    <2>2. ASSUME NEW k \in new PROVE wst'[<<synced.ibet, k>>] = MintRow(k)
      <3>1. <<synced.ibet, k>> \in DOMAIN n \ DOMAIN wst
        BY <1>5, <1>6
      <3>2. n[<<synced.ibet, k>>] = MintRow(k)
        BY <1>7, <3>1
      <3> QED
        BY <2>1, <3>1, <3>2
    <2> QED
      BY <1>6, <2>1, <2>2
  <1>10. wst' \in [DOMAIN wst' -> WstRow]
    <2> HIDE DEF new, n
    <2>1. (\A i \in DOMAIN wst : wst[i] \in WstRow) /\ (\A i \in DOMAIN n : n[i] \in WstRow)
      BY <1>4, <1>7, Ranges
    <2> QED
      BY <1>8, <2>1, InsertedType
  <1>11. /\ faults.skipped \subseteq faults'.skipped
         /\ faults'.skipped \subseteq DOMAIN lockLog
         /\ faults' = [faults EXCEPT !.skipped = faults'.skipped]
         /\ skip \subseteq faults'.skipped
    <2>1. skip \subseteq DOMAIN lockLog
      BY <1>1, Ranges DEF BridgeLocks
    <2> QED
      BY <1>1, <2>1 DEF TypeOK
  <1>12. \A k \in (synced.ibet + 1)..upto :
            watched /\ lockLog[k].bridge => k \in new \/ k \in faults'.skipped
    BY <1>2, <1>11
  <1> HIDE DEF new
  <1> QED
    BY <1>1, <1>2, <1>5, <1>9, <1>10, <1>11, <1>12

\* The rows a pass adds for ibet are those of the final events it passes, one for each
\* burn and transfer if the token is watched.
LEMMA EthToIbetEffect ==
    ASSUME BridgeAssumption, TypeOK, RowInv, ChainInv, UnlockInv, EthToIbet
    PROVE  \E upto \in synced.eth..final :
           \E new \in SUBSET ((synced.eth + 1)..upto) :
             /\ synced' = [synced EXCEPT !.eth = upto]
             /\ DOMAIN btx' = DOMAIN btx \cup ({synced.eth} \X new)
             /\ \A j \in DOMAIN btx : btx'[j] = btx[j]
             /\ \A k \in new :
                   /\ <<synced.eth, k>> \notin DOMAIN btx
                   /\ btx'[<<synced.eth, k>>] \in BtxRow
                   /\ btx'[<<synced.eth, k>>].src = k
                   /\ btx'[<<synced.eth, k>>].status = "PENDING"
                   /\ eth[k].type \in IF btx'[<<synced.eth, k>>].type = "unlock"
                                       THEN {"burn", "force_burn"} ELSE {"transfer"}
                   /\ btx'[<<synced.eth, k>>].value = wst[eth[k].row].value
                   /\ btx'[<<synced.eth, k>>].from = wst[eth[k].row].from
                   /\ btx'[<<synced.eth, k>>].to = wst[eth[k].row].to
             /\ \A k \in (synced.eth + 1)..upto :
                   watched /\ eth[k].type \in Moves => k \in new
             /\ btx' \in [DOMAIN btx' -> BtxRow]
  <1>0. PICK upto \in synced.eth..final :
          LET burns == Burns(synced.eth + 1, upto)
              moves == Transfers(synced.eth + 1, upto)
          IN  /\ btx' = Inserted(btx, [j \in {synced.eth} \X (burns \cup moves) |->
                                     IF j[2] \in burns THEN UnlockRow(j[2]) ELSE ChangeRow(j[2])])
              /\ synced' = [synced EXCEPT !.eth = upto]
    BY DEF EthToIbet, Upto
  <1> DEFINE burns == Burns(synced.eth + 1, upto)
             moves == Transfers(synced.eth + 1, upto)
             new == burns \cup moves
             made(k) == IF k \in burns THEN UnlockRow(k) ELSE ChangeRow(k)
             n == [j \in {synced.eth} \X new |-> made(j[2])]
  <1>1. /\ btx' = Inserted(btx, n) /\ synced' = [synced EXCEPT !.eth = upto]
        /\ upto \in Nat /\ upto <= final
    BY <1>0, Ranges
  <1>2. /\ new \in SUBSET ((synced.eth + 1)..upto)
        /\ \A k \in burns : eth[k].type \in {"burn", "force_burn"}
        /\ \A k \in new \ burns : eth[k].type = "transfer"
        /\ \A k \in (synced.eth + 1)..upto : watched /\ eth[k].type \in Moves => k \in new
    BY DEF Burns, Transfers, Moves
  <1>3. \A k \in new : k \in 1..final /\ k \in 1..Len(eth) /\ k > synced.eth
    BY <1>1, <1>2, Ranges
  <1>4. ASSUME NEW k \in new
        PROVE  /\ made(k) \in BtxRow /\ made(k).src = k /\ made(k).status = "PENDING"
               /\ eth[k].type \in IF made(k).type = "unlock"
                                   THEN {"burn", "force_burn"} ELSE {"transfer"}
               /\ made(k).value = wst[eth[k].row].value
               /\ made(k).from = wst[eth[k].row].from
               /\ made(k).to = wst[eth[k].row].to
    <2> DEFINE r == wst[eth[k].row]
    <2>1. k \in 1..Len(eth) /\ k \in 1..final /\ eth[k] \in Event
      BY <1>3, Ranges
    <2>2. eth[k].row \in DOMAIN wst /\ r \in WstRow
      BY <2>1, Ranges DEF Event
    <2>3. eth[k].type \in Moves /\ r.type = eth[k].type
      BY <1>2, <2>1, Ranges DEF ChainInv, Moves
    <2>4. r.from \in Accounts /\ (r.type # "transfer" => r.to = Zero)
      BY <2>2, <2>3 DEF RowInv, MintRows, Moves
    <2>5. CASE k \in burns
      <3>1. made(k) = [type |-> "unlock", from |-> r.from, to |-> Zero, value |-> r.value,
                       src |-> k, status |-> "PENDING"]
        BY <2>5 DEF UnlockRow
      <3>2. r.to = Zero /\ eth[k].type \in {"burn", "force_burn"}
        BY <1>2, <2>3, <2>4, <2>5
      <3> HIDE DEF burns, made
      <3> QED
        BY <2>1, <2>2, <2>4, <3>1, <3>2 DEF BtxRow, WstRow, Holders
    <2>6. CASE k \notin burns
      <3>1. made(k) = [type |-> "change", from |-> r.from, to |-> r.to, value |-> r.value,
                       src |-> k, status |-> "PENDING"]
        BY <2>6 DEF ChangeRow
      <3>2. eth[k].type = "transfer"
        BY <1>2, <2>6
      <3> HIDE DEF burns, made
      <3> QED
        BY <2>1, <2>2, <2>4, <3>1, <3>2 DEF BtxRow, WstRow
    <2> QED
      BY <2>5, <2>6
  <1> HIDE DEF made
  <1>5. ASSUME NEW k \in new PROVE <<synced.eth, k>> \notin DOMAIN btx
    <2>1. k \in Nat /\ k > synced.eth
      BY <1>3, Ranges
    <2>2. \A j \in DOMAIN btx : j[2] <= synced.eth
      BY Ranges DEF UnlockInv
    <2> HIDE DEF new
    <2> QED
      BY <2>1, <2>2, Ranges
  <1> HIDE DEF new
  <1>6. DOMAIN n = {synced.eth} \X new /\ \A k \in new : n[<<synced.eth, k>>] = made(k)
    BY DEF n
  <1>7. \A j \in DOMAIN n : j = <<synced.eth, j[2]>> /\ j[2] \in new /\ n[j] = made(j[2])
    BY <1>6
  <1> HIDE DEF n
  <1>8. /\ DOMAIN btx' = DOMAIN btx \cup ({synced.eth} \X new)
        /\ \A j \in DOMAIN btx : btx'[j] = btx[j]
        /\ \A k \in new : btx'[<<synced.eth, k>>] = made(k)
    <2>1. /\ DOMAIN btx' = DOMAIN btx \cup DOMAIN n
          /\ \A j \in DOMAIN btx : btx'[j] = btx[j]
          /\ \A j \in DOMAIN n \ DOMAIN btx : btx'[j] = n[j]
      BY <1>1 DEF Inserted
    <2>2. \A k \in new : <<synced.eth, k>> \in DOMAIN n \ DOMAIN btx
      BY <1>5, <1>6
    <2> QED
      BY <1>6, <2>1, <2>2
  <1>9. btx' \in [DOMAIN btx' -> BtxRow]
    <2>1. (\A j \in DOMAIN btx : btx[j] \in BtxRow) /\ (\A j \in DOMAIN n : n[j] \in BtxRow)
      BY <1>4, <1>7, Ranges
    <2> QED
      BY <1>1, <2>1, InsertedType
  <1>10. \A k \in new :
           /\ <<synced.eth, k>> \notin DOMAIN btx
           /\ btx'[<<synced.eth, k>>] \in BtxRow
           /\ btx'[<<synced.eth, k>>].src = k
           /\ btx'[<<synced.eth, k>>].status = "PENDING"
           /\ eth[k].type \in IF btx'[<<synced.eth, k>>].type = "unlock"
                               THEN {"burn", "force_burn"} ELSE {"transfer"}
           /\ btx'[<<synced.eth, k>>].value = wst[eth[k].row].value
           /\ btx'[<<synced.eth, k>>].from = wst[eth[k].row].from
           /\ btx'[<<synced.eth, k>>].to = wst[eth[k].row].to
    BY <1>4, <1>5, <1>8
  <1> QED
    BY <1>0, <1>1, <1>2, <1>8, <1>9, <1>10

\* A request adds one row, which does not mint.
UserRequest(a, v) ==
    (\E b \in Accounts : RequestTransfer(a, b, v)) \/ RequestBurn(a, v) \/ RequestForceBurn(a, v)

LEMMA RequestEffect ==
    ASSUME BridgeAssumption, TypeOK, RowInv,
           NEW a \in Accounts, NEW v \in Amounts, UserRequest(a, v)
    PROVE  \E n \in Nat :
             /\ DOMAIN wst' = DOMAIN wst \cup {<<n, 0>>}
             /\ \A i \in DOMAIN wst : wst'[i] = wst[i]
             /\ wst' \in [DOMAIN wst' -> WstRow]
             /\ <<n, 0>> \notin DOMAIN wst =>
                   /\ wst'[<<n, 0>>].type # "mint"
                   /\ wst'[<<n, 0>>].from \in Accounts
                   /\ wst'[<<n, 0>>].type # "transfer" => wst'[<<n, 0>>].to = Zero
                   /\ wst'[<<n, 0>>].type = "transfer" => wst'[<<n, 0>>].to \in Accounts
  <1>1. PICK row \in WstRow :
          /\ Request(row)
          /\ row.type # "mint" /\ row.from \in Accounts
          /\ row.type # "transfer" => row.to = Zero
          /\ row.type = "transfer" => row.to \in Accounts
    <2>1. ASSUME NEW b \in Accounts, RequestTransfer(a, b, v)
          PROVE  Row("transfer", a, b, v, a, 0) \in WstRow
      BY Ranges DEF Row, WstRow, Holders
    <2>2. Row("burn", a, Zero, v, a, 0) \in WstRow
      BY Ranges DEF Row, WstRow, Holders
    <2>3. Row("force_burn", a, Zero, v, Issuer, 0) \in WstRow
      BY Ranges DEF Row, WstRow, Holders
    <2>4. CASE \E b \in Accounts : RequestTransfer(a, b, v)
      BY <2>1, <2>4 DEF RequestTransfer, Row
    <2>5. CASE RequestBurn(a, v)
      BY <2>2, <2>5 DEF RequestBurn, Row
    <2>6. CASE RequestForceBurn(a, v)
      BY <2>3, <2>6 DEF RequestForceBurn, Row
    <2> QED
      BY <2>4, <2>5, <2>6 DEF UserRequest
  <1> DEFINE n == Cardinality(Requested) + 1
             new == [i \in {<<n, 0>>} |-> row]
  <1>2. n \in Nat
    <2>1. IsFiniteSet(Requested)
      BY FS_Subset DEF RowInv, Requested
    <2> QED
      BY <2>1, FS_CardinalityType
  <1>3. wst' = Inserted(wst, new)
    BY <1>1 DEF Request
  <1>4. DOMAIN new = {<<n, 0>>} /\ new[<<n, 0>>] = row
    OBVIOUS
  <1> HIDE DEF n, new
  <1>5. /\ DOMAIN wst' = DOMAIN wst \cup {<<n, 0>>}
        /\ \A i \in DOMAIN wst : wst'[i] = wst[i]
        /\ <<n, 0>> \notin DOMAIN wst => wst'[<<n, 0>>] = row
    BY <1>3, <1>4 DEF Inserted
  <1>6. wst' \in [DOMAIN wst' -> WstRow]
    <2>1. (\A i \in DOMAIN wst : wst[i] \in WstRow) /\ (\A i \in DOMAIN new : new[i] \in WstRow)
      BY <1>4, Ranges
    <2> QED
      BY <1>3, <2>1, InsertedType
  <1> QED
    BY <1>1, <1>2, <1>5, <1>6

\* The log of locks only grows, and a new event tells if the token is watched.
LEMMA LogGrows ==
    ASSUME BridgeAssumption, TypeOK, [Next]_vars
    PROVE  /\ lockLog' \in Seq(LockEvent) /\ Len(lockLog') \in Nat
           /\ DOMAIN lockLog' = 1..Len(lockLog')
           /\ Len(lockLog) <= Len(lockLog')
           /\ \A k \in 1..Len(lockLog) : lockLog'[k] = lockLog[k]
           /\ \A k \in 1..Len(lockLog') :
                 k \in 1..Len(lockLog)
                 \/ (lockLog'[k].watched = watched /\ UNCHANGED <<db, monitor, faults>>)
  <1>1. CASE \E a \in Accounts, v \in Amounts, b \in BOOLEAN : Lock(a, v, b)
    <2>1. PICK a \in Accounts, v \in Amounts, b \in BOOLEAN : Lock(a, v, b)
      BY <1>1
    <2>2. UNCHANGED <<db, monitor, faults>>
      BY <2>1 DEF Lock
    <2>3. /\ lockLog' \in Seq(LockEvent) /\ Len(lockLog') = Len(lockLog) + 1
          /\ \A k \in 1..Len(lockLog) : lockLog'[k] = lockLog[k]
          /\ lockLog'[Len(lockLog) + 1].watched = watched
      BY <2>1, LockEffect
    <2> QED
      BY <2>2, <2>3, LenProperties, Ranges
  <1>2. CASE UNCHANGED lockLog
    BY <1>2, Ranges
  <1> QED
    BY <1>1, <1>2
    DEF Next, Users, vars, chains, RequestTransfer, RequestBurn, RequestForceBurn, Request,
        ForceUnlock, DeleteAccount, Deploy, Mine, FinalizeRow, Reorg, Finalize, LoadList,
        IbetToEth, EthToIbet, AbortPass, Restart, SelectPending, EndPass, Execute, ExecuteLate

\* Rows of eth_ibet_wst_tx are only added, and only their flag changes.
LEMMA WstGrows ==
    ASSUME BridgeAssumption, TypeOK, RowInv, [Next]_vars
    PROVE  /\ DOMAIN wst \subseteq DOMAIN wst' /\ MintRows \subseteq MintRows'
           /\ wst' \in [DOMAIN wst' -> WstRow']
           /\ \A i \in DOMAIN wst :
                 /\ wst'[i].type = wst[i].type /\ wst'[i].src = wst[i].src
                 /\ wst'[i].from = wst[i].from /\ wst'[i].to = wst[i].to
                 /\ wst'[i].value = wst[i].value
           /\ DOMAIN wst' \subseteq Nat \X Nat
  <1>1. WstRow \subseteq WstRow'
    BY LogGrows, Ranges DEF WstRow, Holders
  <1>2. wst \in [DOMAIN wst -> WstRow] /\ DOMAIN wst \subseteq Nat \X Nat
    BY Ranges DEF TypeOK
  <1>3. CASE \E a \in Accounts, v \in Amounts : UserRequest(a, v)
    <2>1. PICK n \in Nat :
             /\ DOMAIN wst' = DOMAIN wst \cup {<<n, 0>>}
             /\ \A i \in DOMAIN wst : wst'[i] = wst[i]
             /\ wst' \in [DOMAIN wst' -> WstRow]
      BY <1>3, RequestEffect
    <2>2. <<n, 0>> \in Nat \X Nat
      OBVIOUS
    <2> QED
      BY <1>1, <1>2, <2>1, <2>2 DEF MintRows
  <1>4. CASE IbetToEth
    <2>1. PICK upto \in synced.ibet..Len(lockLog) :
          \E new \in SUBSET ((synced.ibet + 1)..upto) :
             /\ DOMAIN wst' = DOMAIN wst \cup ({synced.ibet} \X new)
             /\ \A i \in DOMAIN wst : wst'[i] = wst[i]
             /\ wst' \in [DOMAIN wst' -> WstRow]
      BY <1>4, IbetToEthEffect
    <2>2. PICK new \in SUBSET ((synced.ibet + 1)..upto) :
             /\ DOMAIN wst' = DOMAIN wst \cup ({synced.ibet} \X new)
             /\ \A i \in DOMAIN wst : wst'[i] = wst[i]
             /\ wst' \in [DOMAIN wst' -> WstRow]
      BY <2>1
    <2>3. {synced.ibet} \X new \subseteq Nat \X Nat
      BY <2>1, <2>2, Ranges
    <2> QED
      BY <1>1, <1>2, <2>2, <2>3 DEF MintRows
  <1>5. CASE \E i \in DOMAIN wst : FinalizeRow(i)
    <2>1. PICK i \in DOMAIN wst : wst' = [wst EXCEPT ![i].finalized = TRUE]
      BY <1>5 DEF FinalizeRow
    <2>2. DOMAIN wst' = DOMAIN wst
      BY <2>1
    <2>3. ASSUME NEW j \in DOMAIN wst
          PROVE  /\ wst'[j] \in WstRow
                 /\ wst'[j].type = wst[j].type /\ wst'[j].src = wst[j].src
                 /\ wst'[j].from = wst[j].from /\ wst'[j].to = wst[j].to
                 /\ wst'[j].value = wst[j].value
      BY <1>2, <2>1, <2>3 DEF WstRow
    <2>4. wst' \in [DOMAIN wst' -> WstRow]
      BY <2>1, <2>2, <2>3
    <2> QED
      BY <1>1, <1>2, <2>2, <2>3, <2>4 DEF MintRows
  <1>6. CASE UNCHANGED wst
    BY <1>1, <1>2, <1>6 DEF MintRows
  <1> QED
    BY <1>3, <1>4, <1>5, <1>6
    DEF Next, Users, vars, db, UserRequest, Lock, ForceUnlock, DeleteAccount, Deploy, Mine, Reorg,
        Finalize, LoadList, EthToIbet, AbortPass, Restart, SelectPending, EndPass, Execute, ExecuteLate

\* Final blocks of Ethereum stay, and there is at most one new block.
LEMMA EthGrows ==
    ASSUME BridgeAssumption, TypeOK, RowInv, [Next]_vars
    PROVE  /\ eth' \in Seq(Event') /\ Len(eth') \in Nat /\ DOMAIN eth' = 1..Len(eth')
           /\ final' \in 0..Len(eth') /\ final <= final'
           /\ \A k \in 1..final : k \in 1..Len(eth') /\ eth'[k] = eth[k]
           /\ \A k \in 1..Len(eth') :
                 \/ k \in 1..Len(eth) /\ eth'[k] = eth[k]
                 \/ k = Len(eth) + 1 /\ \E i \in DOMAIN wst : Mine(i)
  <1>1. Event \subseteq Event'
    BY WstGrows DEF Event
  <1>2. CASE \E i \in DOMAIN wst : Mine(i)
    <2>1. /\ eth' \in Seq(Event) /\ Len(eth') = Len(eth) + 1
          /\ \A k \in 1..Len(eth) : eth'[k] = eth[k]
      BY <1>2, MineEffect
    <2>2. final' = final
      BY <1>2 DEF Mine
    <2>3. eth' \in Seq(Event')
      BY <1>1, <2>1, SeqMonotonic
    <2> QED
      BY <1>2, <2>1, <2>2, <2>3, LenProperties, Ranges
  <1>3. CASE Reorg
    <2>1. /\ eth' \in Seq(Event) /\ final <= Len(eth') /\ Len(eth') <= Len(eth)
          /\ \A k \in 1..Len(eth') : eth'[k] = eth[k]
      BY <1>3, ReorgEffect
    <2>2. final' = final
      BY <1>3 DEF Reorg
    <2>3. eth' \in Seq(Event')
      BY <1>1, <2>1, SeqMonotonic
    <2> QED
      BY <2>1, <2>2, <2>3, LenProperties, Ranges
  <1>4. CASE UNCHANGED eth /\ (UNCHANGED final \/ Finalize)
    <2>1. eth' \in Seq(Event')
      BY <1>1, <1>4, Ranges, SeqMonotonic
    <2> QED
      BY <1>4, <2>1, Ranges DEF Finalize
  <1> QED
    BY <1>2, <1>3, <1>4
    DEF Next, Users, vars, chains, RequestTransfer, RequestBurn, RequestForceBurn, Request, Lock,
        ForceUnlock, DeleteAccount, Deploy, FinalizeRow, Finalize, LoadList,
        IbetToEth, EthToIbet, AbortPass, Restart, SelectPending, EndPass, Execute, ExecuteLate

\* Rows for ibet are only added, and only their status changes, once.
LEMMA BtxGrows ==
    ASSUME BridgeAssumption, TypeOK, RowInv, ChainInv, UnlockInv, TodoInv, [Next]_vars
    PROVE  /\ DOMAIN btx \subseteq DOMAIN btx'
           /\ btx' \in [DOMAIN btx' -> BtxRow']
           /\ \A j \in DOMAIN btx :
                 /\ btx'[j].type = btx[j].type /\ btx'[j].src = btx[j].src
                 /\ btx'[j].from = btx[j].from /\ btx'[j].to = btx[j].to
                 /\ btx'[j].value = btx[j].value
                 /\ btx[j].status # "PENDING" => btx'[j] = btx[j]
           /\ DOMAIN btx' \subseteq Nat \X Nat
  <1>1. BtxRow \subseteq BtxRow'
    BY EthGrows, Ranges DEF BtxRow, Holders
  <1>2. btx \in [DOMAIN btx -> BtxRow] /\ DOMAIN btx \subseteq Nat \X Nat
    BY Ranges DEF TypeOK
  <1>3. CASE EthToIbet
    <2>1. PICK upto \in synced.eth..final :
          \E new \in SUBSET ((synced.eth + 1)..upto) :
             /\ DOMAIN btx' = DOMAIN btx \cup ({synced.eth} \X new)
             /\ \A j \in DOMAIN btx : btx'[j] = btx[j]
             /\ btx' \in [DOMAIN btx' -> BtxRow]
      BY <1>3, EthToIbetEffect
    <2>2. PICK new \in SUBSET ((synced.eth + 1)..upto) :
             /\ DOMAIN btx' = DOMAIN btx \cup ({synced.eth} \X new)
             /\ \A j \in DOMAIN btx : btx'[j] = btx[j]
             /\ btx' \in [DOMAIN btx' -> BtxRow]
      BY <2>1
    <2>3. {synced.eth} \X new \subseteq Nat \X Nat
      BY <2>1, <2>2, Ranges
    <2> QED
      BY <1>1, <1>2, <2>2, <2>3
  <1>4. CASE \E j \in DOMAIN btx : Execute(j)
    <2>1. PICK i \in todo, s \in {"SUCCEEDED", "FAILED"} : btx' = [btx EXCEPT ![i].status = s]
      BY <1>4 DEF Execute
    <2>2. DOMAIN btx' = DOMAIN btx /\ btx[i].status = "PENDING"
      BY <2>1 DEF TodoInv
    <2>3. ASSUME NEW j \in DOMAIN btx
          PROVE  /\ btx'[j] \in BtxRow
                 /\ btx'[j].type = btx[j].type /\ btx'[j].src = btx[j].src
                 /\ btx'[j].from = btx[j].from /\ btx'[j].to = btx[j].to
                 /\ btx'[j].value = btx[j].value
                 /\ btx[j].status # "PENDING" => btx'[j] = btx[j]
      BY <1>2, <2>1, <2>2, <2>3 DEF BtxRow
    <2>4. btx' \in [DOMAIN btx' -> BtxRow]
      BY <2>1, <2>2, <2>3
    <2> QED
      BY <1>1, <1>2, <2>2, <2>3, <2>4
  <1>5. CASE UNCHANGED btx
    BY <1>1, <1>2, <1>5
  <1> QED
    BY <1>3, <1>4, <1>5
    DEF Next, Users, vars, db, RequestTransfer, RequestBurn, RequestForceBurn, Request, Lock,
        ForceUnlock, DeleteAccount, Deploy, Mine, FinalizeRow, Reorg, Finalize, LoadList,
        IbetToEth, AbortPass, Restart, SelectPending, EndPass, ExecuteLate

\* Amounts locked on ibet stay natural numbers.
LEMMA LockedType ==
    ASSUME BridgeAssumption, TypeOK, [Next]_vars
    PROVE  locked' \in [Accounts -> Nat]
  <1>1. locked \in [Accounts -> Nat]
    BY DEF TypeOK
  <1>2. CASE \E a \in Accounts, v \in Amounts, b \in BOOLEAN : Lock(a, v, b)
    BY <1>2, LockEffect
  <1>3. CASE \E a \in Accounts, v \in Amounts : ForceUnlock(a, v)
    <2>1. PICK a \in Accounts, v \in Amounts :
             v <= locked[a] /\ locked' = [locked EXCEPT ![a] = @ - v]
      BY <1>3 DEF ForceUnlock
    <2>2. v \in Nat
      BY DEF BridgeAssumption
    <2> QED
      BY <1>1, <2>1, <2>2
  <1>4. CASE \E j \in DOMAIN btx : Execute(j) \/ ExecuteLate(j)
    <2>1. PICK j \in DOMAIN btx :
             \/ UNCHANGED locked
             \/ Covered(j) /\ locked' = Moved(locked, btx[j].from, btx[j].to, btx[j].value)
      BY <1>4 DEF Execute, ExecuteLate
    <2>2. btx[j] \in BtxRow
      BY Ranges
    <2>3. btx[j].from \in Accounts /\ btx[j].value \in Nat
      BY <2>2 DEF BtxRow, BridgeAssumption
    <2>4. Covered(j) => locked[btx[j].from] >= btx[j].value
      BY DEF Covered
    <2> QED
      BY <1>1, <2>1, <2>3, <2>4, MovedType
  <1>5. CASE UNCHANGED locked
    BY <1>1, <1>5
  <1> QED
    BY <1>2, <1>3, <1>4, <1>5
    DEF Next, Users, vars, chains, RequestTransfer, RequestBurn, RequestForceBurn, Request,
        DeleteAccount, Deploy, Mine, FinalizeRow, Reorg, Finalize, LoadList,
        IbetToEth, EthToIbet, AbortPass, Restart, SelectPending, EndPass

\* The block numbers follow the chains and never go back.
LEMMA SyncedType ==
    ASSUME BridgeAssumption, TypeOK, RowInv, ChainInv, UnlockInv, [Next]_vars
    PROVE  /\ synced' \in [ibet : 0..Len(lockLog'), eth : 0..final']
           /\ synced.ibet <= synced'.ibet /\ synced.eth <= synced'.eth
  <1>1. /\ Len(lockLog) \in Nat /\ Len(lockLog') \in Nat /\ Len(lockLog) <= Len(lockLog')
        /\ final \in Nat /\ final' \in Nat /\ final <= final'
    BY LogGrows, EthGrows, Ranges
  <1>2. synced \in [ibet : 0..Len(lockLog), eth : 0..final]
    BY DEF TypeOK
  <1>3. CASE IbetToEth
    <2>1. PICK upto \in synced.ibet..Len(lockLog) : synced' = [synced EXCEPT !.ibet = upto]
      BY <1>3 DEF IbetToEth
    <2> QED
      BY <1>1, <1>2, <2>1
  <1>4. CASE EthToIbet
    <2>1. PICK upto \in synced.eth..final : synced' = [synced EXCEPT !.eth = upto]
      BY <1>4 DEF EthToIbet, Upto
    <2> QED
      BY <1>1, <1>2, <2>1
  <1>5. CASE UNCHANGED synced
    BY <1>1, <1>2, <1>5
  <1> QED
    BY <1>3, <1>4, <1>5
    DEF Next, Users, vars, monitor, RequestTransfer, RequestBurn, RequestForceBurn, Request, Lock,
        ForceUnlock, DeleteAccount, Deploy, Mine, FinalizeRow, Reorg, Finalize, LoadList,
        AbortPass, Restart, SelectPending, EndPass, Execute, ExecuteLate

\* What has gone wrong is only added to.
LEMMA FaultsType ==
    ASSUME BridgeAssumption, TypeOK, RowInv, [Next]_vars
    PROVE  /\ faults' \in [reorgs : Nat, skipped : SUBSET DOMAIN lockLog', late : Nat,
                           relocked : Nat, unlocks : Nat, freed : Nat, deleted : {0, 1}]
           /\ faults.skipped \subseteq faults'.skipped
           /\ faults'.deleted = 0 => faults.deleted = 0
  <1> DEFINE F == [reorgs : Nat, skipped : SUBSET DOMAIN lockLog, late : Nat,
                   relocked : Nat, unlocks : Nat, freed : Nat, deleted : {0, 1}]
             Kept == /\ faults' \in F /\ faults.skipped \subseteq faults'.skipped
                     /\ faults'.deleted = 0 => faults.deleted = 0
  <1>1. faults \in F
    BY DEF TypeOK
  <1>2. ASSUME NEW a \in Accounts, NEW v \in Amounts, ForceUnlock(a, v) PROVE Kept
    <2>1. v \in Nat
      BY DEF BridgeAssumption
    <2>2. faults.unlocks + 1 \in Nat /\ faults.freed + v \in Nat
      BY <1>1, <2>1
    <2>3. PICK m \in Nat, n \in Nat : faults' = [faults EXCEPT !.unlocks = m, !.freed = n]
      BY <1>2, <2>2 DEF ForceUnlock
    <2> QED
      BY <1>1, <2>3
  <1>3. ASSUME DeleteAccount PROVE Kept
    BY <1>1, <1>3 DEF DeleteAccount
  <1>4. ASSUME Reorg PROVE Kept
    BY <1>1, <1>4 DEF Reorg
  <1>5. ASSUME IbetToEth PROVE Kept
    <2>1. /\ faults.skipped \subseteq faults'.skipped
          /\ faults'.skipped \subseteq DOMAIN lockLog
          /\ faults' = [faults EXCEPT !.skipped = faults'.skipped]
      BY <1>5, IbetToEthEffect
    <2> QED
      BY <1>1, <2>1
  <1>6. ASSUME NEW j \in DOMAIN btx, ExecuteLate(j) PROVE Kept
    <2>1. btx[j].value \in Nat
      BY Ranges DEF BtxRow, BridgeAssumption
    <2>2. /\ faults.late + 1 \in Nat
          /\ faults.relocked + (IF btx[j].type = "unlock" THEN btx[j].value ELSE 0) \in Nat
      BY <1>1, <2>1
    <2>3. PICK m \in Nat, n \in Nat : faults' = [faults EXCEPT !.late = m, !.relocked = n]
      BY <1>6, <2>2 DEF ExecuteLate
    <2> QED
      BY <1>1, <2>3
  <1>7. ASSUME UNCHANGED faults PROVE Kept
    BY <1>1, <1>7
  <1>8. Kept
    <2> HIDE DEF Kept
    <2> QED
      BY <1>2, <1>3, <1>4, <1>5, <1>6, <1>7
      DEF Next, Users, vars, RequestTransfer, RequestBurn, RequestForceBurn, Request, Lock,
          Deploy, Mine, FinalizeRow, Finalize, LoadList, EthToIbet,
          AbortPass, Restart, SelectPending, EndPass, Execute
  <1>9. DOMAIN lockLog \subseteq DOMAIN lockLog'
    BY LogGrows, Ranges
  <1> QED
    BY <1>8, <1>9

\* Every step keeps the types.
LEMMA TypeNext ==
    ASSUME BridgeAssumption, IInv, [Next]_vars
    PROVE  TypeOK'
  <1> USE DEF IInv
  <1>1. /\ lockLog' \in Seq(LockEvent') /\ locked' \in [Accounts -> Nat]
        /\ eth' \in Seq(Event') /\ final' \in 0..Len(eth')
        /\ DOMAIN wst' \subseteq Nat \X Nat /\ wst' \in [DOMAIN wst' -> WstRow']
        /\ DOMAIN btx' \subseteq Nat \X Nat /\ btx' \in [DOMAIN btx' -> BtxRow']
        /\ synced' \in [ibet : 0..Len(lockLog'), eth : 0..final']
    BY LogGrows, LockedType, EthGrows, WstGrows, BtxGrows, SyncedType DEF LockEvent
  <1>2. deployed' \in BOOLEAN /\ watched' \in BOOLEAN /\ pc' \in {"load", "mint", "burn"}
    <2>1. deployed \in BOOLEAN /\ watched \in BOOLEAN /\ pc \in {"load", "mint", "burn"}
      BY DEF TypeOK
    <2> HIDE DEF IInv
    <2>2. CASE LoadList
      BY <2>1, <2>2 DEF LoadList, db
    <2>3. CASE ~LoadList
      <3>1. UNCHANGED deployed \/ deployed' = TRUE
        BY <2>3
        DEF Next, Users, vars, db, monitor, RequestTransfer, RequestBurn, RequestForceBurn, Request,
            Lock, ForceUnlock, DeleteAccount, Deploy, Mine, FinalizeRow, Reorg, Finalize,
            IbetToEth, EthToIbet, AbortPass, Restart, SelectPending, EndPass, Execute, ExecuteLate
      <3>2. UNCHANGED watched \/ watched' = FALSE
        BY <2>3
        DEF Next, Users, vars, db, monitor, RequestTransfer, RequestBurn, RequestForceBurn, Request,
            Lock, ForceUnlock, DeleteAccount, Deploy, Mine, FinalizeRow, Reorg, Finalize,
            IbetToEth, EthToIbet, AbortPass, Restart, SelectPending, EndPass, Execute, ExecuteLate
      <3>3. UNCHANGED pc \/ pc' \in {"load", "burn"}
        BY <2>3
        DEF Next, Users, vars, db, monitor, RequestTransfer, RequestBurn, RequestForceBurn, Request,
            Lock, ForceUnlock, DeleteAccount, Deploy, Mine, FinalizeRow, Reorg, Finalize,
            IbetToEth, EthToIbet, AbortPass, Restart, SelectPending, EndPass, Execute, ExecuteLate
      <3> QED
        BY <2>1, <3>1, <3>2, <3>3
    <2> QED
      BY <2>2, <2>3
  <1>3. todo' \subseteq DOMAIN btx'
    <2>1. todo \subseteq DOMAIN btx /\ DOMAIN btx \subseteq DOMAIN btx'
      BY BtxGrows DEF TypeOK
    <2>2. todo' \subseteq todo \cup Pending
      <3> HIDE DEF IInv
      <3> QED
        BY DEF Next, Users, vars, RequestTransfer, RequestBurn, RequestForceBurn, Request,
          Lock, ForceUnlock, DeleteAccount, Deploy, Mine, FinalizeRow, Reorg, Finalize, LoadList,
          IbetToEth, EthToIbet, AbortPass, Restart, SelectPending, EndPass, Execute, ExecuteLate
    <2> QED
      BY <2>1, <2>2 DEF Pending
  <1>4. faults' \in [reorgs : Nat, skipped : SUBSET DOMAIN lockLog', late : Nat,
                    relocked : Nat, unlocks : Nat, freed : Nat, deleted : {0, 1}]
    BY FaultsType
  <1> QED
    BY <1>1, <1>2, <1>3, <1>4 DEF TypeOK, LockEvent, WstRow, BtxRow

-----------------------------------------------------------------------------
(* Every step keeps the invariant.                                         *)

LEMMA RowNext ==
    ASSUME BridgeAssumption, IInv, [Next]_vars
    PROVE  RowInv'
  <1> DEFINE Good(i) ==
               /\ wst[i].src \in 1..synced.ibet /\ i[2] = wst[i].src
               /\ lockLog[wst[i].src].bridge
               /\ wst[i].from = Zero /\ wst[i].to = lockLog[wst[i].src].account
               /\ wst[i].value = lockLog[wst[i].src].value
             Asked(i) == /\ i[2] = 0 /\ wst[i].from \in Accounts
                         /\ wst[i].type # "transfer" => wst[i].to = Zero
                         /\ wst[i].type = "transfer" => wst[i].to \in Accounts
  <1>1. TypeOK /\ RowInv /\ ChainInv /\ UnlockInv
    BY DEF IInv
  <1>2. /\ synced.ibet \in Nat /\ synced'.ibet \in Nat /\ synced.ibet <= synced'.ibet
        /\ synced'.ibet <= Len(lockLog') /\ Len(lockLog') \in Nat /\ synced.ibet <= Len(lockLog)
        /\ Len(lockLog) \in Nat
        /\ \A k \in 1..Len(lockLog) : lockLog'[k] = lockLog[k]
    BY <1>1, SyncedType, LogGrows, Ranges
  <1>3. /\ DOMAIN wst \subseteq DOMAIN wst'
        /\ \A i \in DOMAIN wst :
              /\ wst'[i].type = wst[i].type /\ wst'[i].src = wst[i].src
              /\ wst'[i].from = wst[i].from /\ wst'[i].to = wst[i].to
              /\ wst'[i].value = wst[i].value
    BY <1>1, WstGrows
  <1>4. ASSUME NEW i \in MintRows PROVE i \in MintRows' /\ Good(i)'
    <2>1. Good(i) /\ i \in DOMAIN wst
      BY <1>1 DEF RowInv, MintRows
    <2>2. wst'[i].type = "mint"
      BY <1>3, <2>1 DEF MintRows
    <2>3. wst[i].src \in 1..Len(lockLog) /\ wst[i].src \in 1..synced'.ibet
      BY <1>2, <2>1
    <2> QED
      BY <1>2, <1>3, <2>1, <2>2, <2>3 DEF MintRows
  <1>5. ASSUME NEW i \in DOMAIN wst, i \notin MintRows PROVE i \notin MintRows' /\ Asked(i)'
    BY <1>1, <1>3, <1>5 DEF RowInv, MintRows
  <1> HIDE DEF Good, Asked
  <1>6. CASE \E a \in Accounts, v \in Amounts : UserRequest(a, v)
    <2>1. PICK n \in Nat :
             /\ DOMAIN wst' = DOMAIN wst \cup {<<n, 0>>}
             /\ <<n, 0>> \notin DOMAIN wst =>
                   /\ wst'[<<n, 0>>].type # "mint"
                   /\ wst'[<<n, 0>>].from \in Accounts
                   /\ wst'[<<n, 0>>].type # "transfer" => wst'[<<n, 0>>].to = Zero
                   /\ wst'[<<n, 0>>].type = "transfer" => wst'[<<n, 0>>].to \in Accounts
      BY <1>1, <1>6, RequestEffect
    <2>2. IsFiniteSet(DOMAIN wst')
      BY <1>1, <2>1, FS_AddElement DEF RowInv
    <2>3. MintRows' = MintRows
      BY <1>3, <2>1 DEF MintRows
    <2>4. \A i \in DOMAIN wst' \ MintRows' : Asked(i)'
      BY <1>5, <2>1, <2>3 DEF Asked
    <2>5. \A i, j \in MintRows' : wst'[i].src = wst'[j].src => i = j
      BY <1>1, <1>3, <2>3 DEF RowInv, MintRows
    <2> QED
      BY <1>4, <2>2, <2>3, <2>4, <2>5 DEF RowInv, Good, Asked
  <1>7. CASE IbetToEth
    <2>1. PICK upto \in synced.ibet..Len(lockLog) :
          \E new \in SUBSET ((synced.ibet + 1)..upto) :
             /\ synced' = [synced EXCEPT !.ibet = upto]
             /\ DOMAIN wst' = DOMAIN wst \cup ({synced.ibet} \X new)
             /\ \A k \in new : wst'[<<synced.ibet, k>>] = MintRow(k) /\ lockLog[k].bridge
      BY <1>1, <1>7, IbetToEthEffect
    <2>2. PICK new \in SUBSET ((synced.ibet + 1)..upto) :
             /\ DOMAIN wst' = DOMAIN wst \cup ({synced.ibet} \X new)
             /\ \A k \in new : wst'[<<synced.ibet, k>>] = MintRow(k) /\ lockLog[k].bridge
      BY <2>1
    <2>3. upto \in Nat /\ synced'.ibet = upto
      BY <1>1, <1>2, <2>1 DEF TypeOK
    <2>4. \A k \in new : k \in 1..synced'.ibet /\ k \in 1..Len(lockLog) /\ k > synced.ibet
      BY <1>2, <2>1, <2>2, <2>3
    <2> DEFINE key(k) == <<synced.ibet, k>>
    <2>5. IsFiniteSet(DOMAIN wst')
      <3>1. synced.ibet + 1 \in Int /\ upto \in Int
        BY <1>2, <2>3
      <3>2. IsFiniteSet((synced.ibet + 1)..upto)
        BY <3>1, FS_Interval
      <3>3. IsFiniteSet(new)
        BY <3>2, FS_Subset
      <3>4. IsFiniteSet({synced.ibet} \X new)
        BY <3>3, FS_Singleton, FS_Product
      <3>5. IsFiniteSet(DOMAIN wst)
        BY <1>1 DEF RowInv
      <3>6. IsFiniteSet(DOMAIN wst \cup ({synced.ibet} \X new))
        BY <3>4, <3>5, FS_Union
      <3> QED
        BY <2>2, <3>6
    <2>6. ASSUME NEW k \in new, NEW i, i = key(k)
          PROVE  i \in MintRows' /\ Good(i)' /\ wst'[i].src = k
      <3>1. wst'[key(k)] = MintRow(k) /\ lockLog[k].bridge
        BY <2>2
      <3>2. /\ MintRow(k).type = "mint" /\ MintRow(k).src = k /\ MintRow(k).from = Zero
            /\ MintRow(k).to = lockLog[k].account /\ MintRow(k).value = lockLog[k].value
        BY DEF MintRow, Row
      <3>3. /\ wst'[key(k)].type = "mint" /\ wst'[key(k)].src = k /\ wst'[key(k)].from = Zero
            /\ wst'[key(k)].to = lockLog[k].account /\ wst'[key(k)].value = lockLog[k].value
        BY <3>1, <3>2
      <3>4. key(k) \in DOMAIN wst' /\ key(k)[2] = k
        BY <2>2
      <3>5. lockLog'[k] = lockLog[k] /\ k \in 1..synced'.ibet
        BY <1>2, <2>4
      <3> HIDE DEF key
      <3> QED
        BY <2>6, <3>1, <3>3, <3>4, <3>5 DEF MintRows, Good
    <2>7. \A i \in DOMAIN wst' : i \in DOMAIN wst \/ \E k \in new : i = key(k)
      <3>1. DOMAIN wst' = DOMAIN wst \cup ({synced.ibet} \X new)
        BY <2>2
      <3>2. \A i \in DOMAIN wst' : i \in DOMAIN wst \/ \E k \in new : i = <<synced.ibet, k>>
        <4>1. ASSUME NEW i \in {synced.ibet} \X new
              PROVE  i[1] \in {synced.ibet} /\ i[2] \in new /\ i = <<i[1], i[2]>>
          OBVIOUS
        <4>2. ASSUME NEW i \in {synced.ibet} \X new
              PROVE  \E k \in new : i = <<synced.ibet, k>>
          <5>1. i[1] = synced.ibet /\ i[2] \in new /\ i = <<i[1], i[2]>>
            BY <4>1, Zenon
          <5> QED
            BY <5>1, Zenon
        <4> QED
          BY <3>1, <4>2, Zenon
      <3> QED
        BY <3>2
    <2> HIDE DEF key
    <2>8. \A i \in MintRows : wst'[i].src <= synced.ibet /\ i[2] = wst'[i].src
      BY <1>1, <1>2, <1>3 DEF RowInv, MintRows
    <2>9. \A i \in MintRows' : i \in MintRows \/ \E k \in new : i = key(k)
      BY <1>5, <2>7 DEF MintRows
    <2>10. ASSUME NEW i \in MintRows', NEW j \in MintRows', wst'[i].src = wst'[j].src
           PROVE  i = j
      <3>1. CASE i \in MintRows /\ j \in MintRows
        BY <1>1, <1>3, <2>10, <3>1 DEF RowInv, MintRows
      <3>2. CASE i \notin MintRows /\ j \notin MintRows
        BY <2>6, <2>9, <2>10, <3>2
      <3>3. CASE ~(i \in MintRows <=> j \in MintRows)
        <4>1. ASSUME NEW m \in MintRows, NEW k \in new PROVE wst'[m].src # wst'[key(k)].src
          BY <1>2, <2>4, <2>6, <2>8
        <4> QED
          BY <2>9, <2>10, <3>3, <4>1
      <3> QED
        BY <3>1, <3>2, <3>3
    <2>11. \A i \in MintRows' : Good(i)'
      <3>1. ASSUME NEW i \in MintRows PROVE Good(i)'
        BY <1>4
      <3>2. ASSUME NEW i \in MintRows', i \notin MintRows PROVE Good(i)'
        BY <2>6, <2>9, <3>2
      <3> QED
        BY <3>1, <3>2
    <2>12. \A i \in DOMAIN wst' \ MintRows' : Asked(i)'
      <3>1. \A i \in DOMAIN wst' \ MintRows' : i \in DOMAIN wst /\ i \notin MintRows
        BY <1>4, <2>6, <2>7
      <3> QED
        BY <1>5, <3>1
    <2> QED
      BY <2>5, <2>10, <2>11, <2>12 DEF RowInv, Good, Asked
  <1>8. CASE DOMAIN wst' = DOMAIN wst
    <2>1. MintRows' = MintRows
      BY <1>3, <1>8 DEF MintRows
    <2>2. \A i, j \in MintRows' : wst'[i].src = wst'[j].src => i = j
      BY <1>1, <1>3, <2>1 DEF RowInv, MintRows
    <2> QED
      BY <1>1, <1>4, <1>5, <1>8, <2>1, <2>2 DEF RowInv, Good, Asked
  <1>9. ASSUME NEW i \in DOMAIN wst, FinalizeRow(i) PROVE DOMAIN wst' = DOMAIN wst
    BY <1>9 DEF FinalizeRow
  <1> QED
    BY <1>6, <1>7, <1>8, <1>9
    DEF Next, Users, vars, db, UserRequest, Lock, ForceUnlock, DeleteAccount, Deploy, Mine, Reorg,
        Finalize, LoadList, EthToIbet, AbortPass, Restart, SelectPending, EndPass, Execute, ExecuteLate

LEMMA ChainNext ==
    ASSUME BridgeAssumption, IInv, [Next]_vars
    PROVE  ChainInv'
  <1>1. TypeOK /\ RowInv /\ ChainInv
    BY DEF IInv
  <1>2. /\ DOMAIN eth = 1..Len(eth) /\ DOMAIN eth' = 1..Len(eth') /\ Len(eth) \in Nat
        /\ \A k \in 1..Len(eth) : eth[k] \in Event
        /\ \A k \in 1..Len(eth') :
              \/ k \in 1..Len(eth) /\ eth'[k] = eth[k]
              \/ k = Len(eth) + 1 /\ \E i \in DOMAIN wst : Mine(i)
    BY <1>1, EthGrows, Ranges
  <1>3. /\ MintRows \subseteq MintRows'
        /\ \A i \in DOMAIN wst : wst'[i].type = wst[i].type
    BY <1>1, WstGrows
  <1>4. SUFFICES ASSUME NEW k \in 1..Len(eth')
                 PROVE  /\ eth'[k].type \in {"reverted", wst'[eth'[k].row].type}
                        /\ eth'[k].type \in Moves => MintRows' # {}
                        /\ \A a \in Accounts : eth'[k].balance[a] > 0 => MintRows' # {}
    BY <1>2 DEF ChainInv
  <1>5. CASE k \in 1..Len(eth) /\ eth'[k] = eth[k]
    <2>1. eth[k].row \in DOMAIN wst
      BY <1>2, <1>5 DEF Event
    <2>2. /\ eth[k].type \in {"reverted", wst[eth[k].row].type}
          /\ eth[k].type \in Moves => MintRows # {}
          /\ \A a \in Accounts : eth[k].balance[a] > 0 => MintRows # {}
      BY <1>1, <1>2, <1>5 DEF ChainInv
    <2> QED
      BY <1>3, <1>5, <2>1, <2>2
  <1>6. CASE k = Len(eth) + 1 /\ \E i \in DOMAIN wst : Mine(i)
    <2>1. PICK i \in DOMAIN wst : Mine(i)
      BY <1>6
    <2>2. wst' = wst /\ MintRows' = MintRows
      BY <2>1 DEF Mine, db, MintRows
    <2> DEFINE e == eth'[Len(eth) + 1]
    <2>3. /\ e.row = i
          /\ \/ e.type = "reverted" /\ \A a \in Accounts : e.balance[a] = Balance(a)
             \/ /\ e.type = wst[i].type
                /\ wst[i].from = Zero \/ Balance(wst[i].from) >= wst[i].value
                /\ \A a \in Accounts \ {wst[i].to} : e.balance[a] <= Balance(a)
      BY <1>1, <2>1, MineEffect
    <2>4. \A a \in Accounts : Balance(a) \in Nat /\ (Balance(a) > 0 => MintRows # {})
      <3>1. \A a \in Accounts : Balance(a) \in Nat
        BY <1>1, BalanceType
      <3>2. ASSUME NEW a \in Accounts, Balance(a) > 0 PROVE MintRows # {}
        <4>1. eth # <<>>
          BY <3>2 DEF Balance
        <4>2. Len(eth) \in DOMAIN eth
          BY <1>1, <1>2, <4>1, Ranges, EmptySeq
        <4>3. eth[Len(eth)].balance[a] > 0
          BY <3>2, <4>1 DEF Balance
        <4> QED
          BY <1>1, <4>2, <4>3 DEF ChainInv
      <3> QED
        BY <3>1, <3>2
    <2>5. wst[i].value \in Nat \ {0} /\ wst[i] \in WstRow
      BY <1>1, Ranges DEF WstRow, BridgeAssumption
    <2>6. CASE e.type = "reverted" /\ \A a \in Accounts : e.balance[a] = Balance(a)
      BY <1>6, <2>2, <2>3, <2>4, <2>6 DEF Moves
    <2>7. CASE /\ e.type = wst[i].type
               /\ wst[i].from = Zero \/ Balance(wst[i].from) >= wst[i].value
               /\ \A a \in Accounts \ {wst[i].to} : e.balance[a] <= Balance(a)
      <3>1. i \in MintRows \/ (wst[i].from \in Accounts /\ wst[i].from # Zero)
        BY <1>1 DEF RowInv, BridgeAssumption
      <3>2. MintRows # {}
        BY <2>4, <2>5, <2>7, <3>1
      <3> QED
        BY <1>6, <2>2, <2>3, <2>7, <3>2
    <2> QED
      BY <2>3, <2>6, <2>7
  <1> QED
    BY <1>2, <1>5, <1>6

\* Only a pass that watches the token adds the first row that mints.
LEMMA MintsGrow ==
    ASSUME BridgeAssumption, IInv, [Next]_vars, MintRows' # {}
    PROVE  MintRows # {} \/ (IbetToEth /\ watched)
  <1>1. TypeOK /\ RowInv
    BY DEF IInv
  <1>2. \A i \in DOMAIN wst : wst'[i].type = wst[i].type
    BY <1>1, WstGrows
  <1>3. CASE \E a \in Accounts, v \in Amounts : UserRequest(a, v)
    <2>1. PICK n \in Nat :
             /\ DOMAIN wst' = DOMAIN wst \cup {<<n, 0>>}
             /\ <<n, 0>> \notin DOMAIN wst => wst'[<<n, 0>>].type # "mint"
      BY <1>1, <1>3, RequestEffect
    <2> QED
      BY <1>2, <2>1 DEF MintRows
  <1>4. CASE IbetToEth
    <2>1. PICK upto \in synced.ibet..Len(lockLog) :
          \E new \in SUBSET ((synced.ibet + 1)..upto) :
             /\ DOMAIN wst' = DOMAIN wst \cup ({synced.ibet} \X new)
             /\ \A k \in new : watched
      BY <1>1, <1>4, IbetToEthEffect
    <2>2. PICK new \in SUBSET ((synced.ibet + 1)..upto) :
             /\ DOMAIN wst' = DOMAIN wst \cup ({synced.ibet} \X new)
             /\ \A k \in new : watched
      BY <2>1
    <2>3. CASE new = {}
      BY <1>2, <2>2, <2>3 DEF MintRows
    <2>4. CASE new # {}
      BY <1>4, <2>2, <2>4
    <2> QED
      BY <2>3, <2>4
  <1>5. CASE DOMAIN wst' = DOMAIN wst
    BY <1>2, <1>5 DEF MintRows
  <1>6. ASSUME NEW i \in DOMAIN wst, FinalizeRow(i) PROVE DOMAIN wst' = DOMAIN wst
    BY <1>6 DEF FinalizeRow
  <1> QED
    BY <1>3, <1>4, <1>5, <1>6
    DEF Next, Users, vars, db, UserRequest, Lock, ForceUnlock, DeleteAccount, Deploy, Mine, Reorg,
        Finalize, LoadList, EthToIbet, AbortPass, Restart, SelectPending, EndPass, Execute, ExecuteLate

LEMMA WatchNext ==
    ASSUME BridgeAssumption, IInv, [Next]_vars
    PROVE  WatchInv'
  <1> DEFINE seen == \E k \in DOMAIN lockLog : lockLog[k].watched
             some == MintRows # {}
  <1>1. TypeOK /\ WatchInv
    BY DEF IInv
  <1>2. /\ watched => deployed
        /\ some => deployed
        /\ seen => deployed
        /\ pc # "load" /\ faults.deleted = 0 /\ (some \/ seen) => watched
    BY <1>1 DEF WatchInv
  <1>3. some' => some \/ (IbetToEth /\ watched)
    BY MintsGrow
  <1>4. seen' => seen \/ (watched /\ UNCHANGED <<db, monitor, faults>>)
    BY <1>1, LogGrows, Ranges
  <1>5. SUFFICES /\ watched' => deployed'
                 /\ some' => deployed'
                 /\ seen' => deployed'
                 /\ pc' # "load" /\ faults'.deleted = 0 /\ (some' \/ seen') => watched'
    BY DEF WatchInv
  <1> HIDE DEF seen, some
  <1>6. faults'.deleted = 0 => faults.deleted = 0
    BY <1>1, FaultsType DEF IInv
  <1>7. CASE LoadList
    <2>1. ~IbetToEth
      BY <1>7 DEF LoadList, IbetToEth
    <2>2. watched' = (watched \/ (deployed /\ faults.deleted = 0)) /\ deployed' = deployed
      BY <1>7 DEF LoadList, db
    <2> QED
      BY <1>2, <1>3, <1>4, <1>6, <2>1, <2>2
  <1>8. CASE IbetToEth
    <2>1. UNCHANGED <<deployed, watched>> /\ pc = "mint"
      BY <1>8 DEF IbetToEth
    <2> QED
      BY <1>2, <1>3, <1>4, <1>6, <2>1
  <1>9. CASE EthToIbet \/ AbortPass
    <2>1. UNCHANGED <<deployed, watched>> /\ pc' = "load" /\ (IbetToEth /\ watched => deployed)
      BY <1>2, <1>9 DEF EthToIbet, AbortPass, db
    <2> QED
      BY <1>2, <1>3, <1>4, <2>1
  <1>10. CASE Restart
    <2>1. deployed' = deployed /\ watched' = FALSE /\ pc' = "load"
      BY <1>10 DEF Restart, db
    <2> QED
      BY <1>2, <1>3, <1>4, <2>1
  <1>11. CASE Deploy
    <2>1. deployed' = TRUE /\ UNCHANGED <<watched, pc>>
      BY <1>11 DEF Deploy, monitor
    <2>2. ~IbetToEth
      BY <1>11 DEF Deploy, IbetToEth
    <2> QED
      BY <1>2, <1>3, <1>4, <1>6, <2>1, <2>2
  <1>12. CASE UNCHANGED <<deployed, watched, pc>> /\ ~IbetToEth
    BY <1>2, <1>3, <1>4, <1>6, <1>12
  <1> QED
    BY <1>7, <1>8, <1>9, <1>10, <1>11, <1>12
    DEF Next, Users, vars, db, monitor, RequestTransfer, RequestBurn, RequestForceBurn, Request,
        Lock, ForceUnlock, DeleteAccount, Mine, FinalizeRow, Reorg, Finalize,
        SelectPending, EndPass, Execute, ExecuteLate

LEMMA PassedNext ==
    ASSUME BridgeAssumption, IInv, [Next]_vars
    PROVE  PassedInv'
  <1>1. /\ TypeOK /\ RowInv /\ ChainInv /\ WatchInv /\ PassedInv /\ UnlockInv /\ TodoInv
    BY DEF IInv
  <1>2. /\ faults.skipped \subseteq faults'.skipped
        /\ faults'.deleted = 0 => faults.deleted = 0
    BY <1>1, FaultsType
  <1>3. /\ Len(lockLog) \in Nat /\ synced.ibet \in Nat /\ synced.ibet <= Len(lockLog)
        /\ synced.eth \in Nat /\ synced.eth <= final /\ final \in Nat /\ final <= Len(eth)
        /\ Len(eth) \in Nat
    BY <1>1, Ranges
  <1>4. /\ \A k \in 1..Len(lockLog) : lockLog'[k] = lockLog[k]
        /\ \A k \in 1..final : eth'[k] = eth[k]
    BY <1>1, LogGrows, EthGrows
  <1>5. /\ MintRows \subseteq MintRows' /\ \A i \in MintRows : wst'[i].src = wst[i].src
        /\ DOMAIN btx \subseteq DOMAIN btx' /\ \A j \in DOMAIN btx : btx'[j].src = btx[j].src
    BY <1>1, WstGrows, BtxGrows DEF MintRows
  <1>6. SUFFICES ASSUME faults'.deleted = 0
                 PROVE  /\ \A k \in 1..synced'.ibet :
                              lockLog'[k].bridge /\ lockLog'[k].watched /\ k \notin faults'.skipped
                                 => \E i \in MintRows' : wst'[i].src = k
                        /\ \A k \in 1..synced'.eth :
                              eth'[k].type \in Moves => \E j \in DOMAIN btx' : btx'[j].src = k
    BY DEF PassedInv
  <1>7. ASSUME NEW k \in 1..synced.ibet, lockLog'[k].bridge, lockLog'[k].watched, k \notin faults'.skipped
        PROVE  \E i \in MintRows' : wst'[i].src = k
    <2>1. \E i \in MintRows : wst[i].src = k
      BY <1>1, <1>2, <1>3, <1>4, <1>6, <1>7 DEF PassedInv
    <2> QED
      BY <1>5, <2>1
  <1>8. ASSUME NEW k \in 1..synced.eth, eth'[k].type \in Moves
        PROVE  \E j \in DOMAIN btx' : btx'[j].src = k
    <2>1. \E j \in DOMAIN btx : btx[j].src = k
      BY <1>1, <1>2, <1>3, <1>4, <1>6, <1>8 DEF PassedInv
    <2> QED
      BY <1>5, <2>1
  <1>9. CASE IbetToEth
    <2>1. PICK upto \in synced.ibet..Len(lockLog) :
          \E new \in SUBSET ((synced.ibet + 1)..upto) :
             /\ synced' = [synced EXCEPT !.ibet = upto]
             /\ DOMAIN wst' = DOMAIN wst \cup ({synced.ibet} \X new)
             /\ \A k \in new : wst'[<<synced.ibet, k>>] = MintRow(k)
             /\ \A k \in (synced.ibet + 1)..upto :
                   watched /\ lockLog[k].bridge => k \in new \/ k \in faults'.skipped
      BY <1>1, <1>9, IbetToEthEffect
    <2>2. PICK new \in SUBSET ((synced.ibet + 1)..upto) :
             /\ DOMAIN wst' = DOMAIN wst \cup ({synced.ibet} \X new)
             /\ \A k \in new : wst'[<<synced.ibet, k>>] = MintRow(k)
             /\ \A k \in (synced.ibet + 1)..upto :
                   watched /\ lockLog[k].bridge => k \in new \/ k \in faults'.skipped
      BY <2>1
    <2>3. synced'.ibet = upto /\ synced'.eth = synced.eth /\ upto \in Nat /\ upto <= Len(lockLog)
      BY <1>1, <1>3, <2>1 DEF TypeOK
    <2>4. ASSUME NEW k \in (synced.ibet + 1)..upto, lockLog'[k].bridge, lockLog'[k].watched,
                 k \notin faults'.skipped
          PROVE  \E i \in MintRows' : wst'[i].src = k
      <3>1. k \in 1..Len(lockLog) /\ lockLog[k].bridge /\ lockLog[k].watched
        BY <1>3, <1>4, <2>3, <2>4
      <3>2. watched
        BY <1>1, <1>2, <1>6, <1>9, <3>1, Ranges DEF WatchInv, IbetToEth
      <3>3. k \in new
        BY <2>2, <2>4, <3>1, <3>2
      <3>4. /\ <<synced.ibet, k>> \in DOMAIN wst'
            /\ wst'[<<synced.ibet, k>>] = MintRow(k)
        BY <2>2, <3>3
      <3>5. MintRow(k).type = "mint" /\ MintRow(k).src = k
        BY DEF MintRow, Row
      <3> QED
        BY <3>4, <3>5 DEF MintRows
    <2> QED
      BY <1>3, <1>7, <1>8, <2>3, <2>4
  <1>10. CASE EthToIbet
    <2>1. PICK upto \in synced.eth..final :
           \E new \in SUBSET ((synced.eth + 1)..upto) :
             /\ synced' = [synced EXCEPT !.eth = upto]
             /\ DOMAIN btx' = DOMAIN btx \cup ({synced.eth} \X new)
             /\ \A j \in DOMAIN btx : btx'[j] = btx[j]
             /\ \A k \in new :
                   /\ <<synced.eth, k>> \notin DOMAIN btx
                   /\ btx'[<<synced.eth, k>>] \in BtxRow
                   /\ btx'[<<synced.eth, k>>].src = k
                   /\ btx'[<<synced.eth, k>>].status = "PENDING"
                   /\ eth[k].type \in IF btx'[<<synced.eth, k>>].type = "unlock"
                                       THEN {"burn", "force_burn"} ELSE {"transfer"}
                   /\ btx'[<<synced.eth, k>>].value = wst[eth[k].row].value
                   /\ btx'[<<synced.eth, k>>].from = wst[eth[k].row].from
                   /\ btx'[<<synced.eth, k>>].to = wst[eth[k].row].to
             /\ \A k \in (synced.eth + 1)..upto :
                   watched /\ eth[k].type \in Moves => k \in new
             /\ btx' \in [DOMAIN btx' -> BtxRow]
      BY <1>1, <1>10, EthToIbetEffect
    <2>2. PICK new \in SUBSET ((synced.eth + 1)..upto) :
             /\ DOMAIN btx' = DOMAIN btx \cup ({synced.eth} \X new)
             /\ \A k \in new : btx'[<<synced.eth, k>>].src = k
             /\ \A k \in (synced.eth + 1)..upto : watched /\ eth[k].type \in Moves => k \in new
      BY <2>1
    <2>3. synced'.ibet = synced.ibet /\ synced'.eth = upto /\ upto \in Nat /\ upto <= final
      BY <1>1, <1>3, <2>1 DEF TypeOK
    <2>4. ASSUME NEW k \in (synced.eth + 1)..upto, eth'[k].type \in Moves
          PROVE  \E j \in DOMAIN btx' : btx'[j].src = k
      <3>1. k \in 1..Len(eth) /\ eth[k].type \in Moves
        BY <1>3, <1>4, <2>3, <2>4
      <3>2. MintRows # {}
        BY <1>1, <3>1, Ranges DEF ChainInv
      <3>3. watched
        BY <1>1, <1>2, <1>6, <1>10, <3>2 DEF WatchInv, EthToIbet
      <3> QED
        BY <2>2, <2>4, <3>1, <3>3
    <2> QED
      BY <1>3, <1>7, <1>8, <2>3, <2>4
  <1>11. CASE UNCHANGED synced
    BY <1>7, <1>8, <1>11
  <1> QED
    BY <1>9, <1>10, <1>11
    DEF Next, Users, vars, monitor, RequestTransfer, RequestBurn, RequestForceBurn, Request,
        Lock, ForceUnlock, DeleteAccount, Deploy, Mine, FinalizeRow, Reorg, Finalize, LoadList,
        AbortPass, Restart, SelectPending, EndPass, Execute, ExecuteLate

LEMMA UnlockNext ==
    ASSUME BridgeAssumption, IInv, [Next]_vars
    PROVE  UnlockInv'
  <1> DEFINE Good(j) ==
               /\ btx[j].src \in 1..synced.eth /\ j[2] = btx[j].src
               /\ eth[btx[j].src].type
                     \in IF btx[j].type = "unlock" THEN {"burn", "force_burn"} ELSE {"transfer"}
               /\ btx[j].value = wst[eth[btx[j].src].row].value
               /\ btx[j].from = wst[eth[btx[j].src].row].from
               /\ btx[j].to = wst[eth[btx[j].src].row].to
  <1>1. TypeOK /\ RowInv /\ ChainInv /\ UnlockInv /\ TodoInv
    BY DEF IInv
  <1>2. /\ synced.eth \in Nat /\ synced'.eth \in Nat /\ synced.eth <= synced'.eth
        /\ synced.eth <= final /\ final \in Nat /\ final <= Len(eth) /\ Len(eth) \in Nat
        /\ \A k \in 1..final : eth'[k] = eth[k]
        /\ \A k \in 1..Len(eth) : eth[k].row \in DOMAIN wst
    BY <1>1, SyncedType, EthGrows, Ranges DEF Event
  <1>3. \A i \in DOMAIN wst : /\ wst'[i].from = wst[i].from /\ wst'[i].to = wst[i].to
                              /\ wst'[i].value = wst[i].value
    BY <1>1, WstGrows
  <1>4. /\ DOMAIN btx \subseteq DOMAIN btx'
        /\ \A j \in DOMAIN btx :
              /\ btx'[j].type = btx[j].type /\ btx'[j].src = btx[j].src
              /\ btx'[j].from = btx[j].from /\ btx'[j].to = btx[j].to
              /\ btx'[j].value = btx[j].value
    BY <1>1, BtxGrows
  <1>5. ASSUME NEW j \in DOMAIN btx PROVE Good(j)'
    <2>1. Good(j)
      BY <1>1 DEF UnlockInv
    <2>2. btx[j].src \in 1..final /\ btx[j].src \in 1..Len(eth) /\ btx[j].src \in 1..synced'.eth
      BY <1>2, <2>1
    <2> QED
      BY <1>2, <1>3, <1>4, <2>1, <2>2
  <1> HIDE DEF Good
  <1>6. CASE EthToIbet
    <2> DEFINE key(k) == <<synced.eth, k>>
               Made(k, r) ==
                  /\ r.src = k
                  /\ eth[k].type \in IF r.type = "unlock"
                                      THEN {"burn", "force_burn"} ELSE {"transfer"}
                  /\ r.value = wst[eth[k].row].value /\ r.from = wst[eth[k].row].from
                  /\ r.to = wst[eth[k].row].to
    <2> DEFINE Turned(upto, new) ==
                  /\ synced' = [synced EXCEPT !.eth = upto]
                  /\ DOMAIN btx' = DOMAIN btx \cup ({synced.eth} \X new)
                  /\ \A j \in DOMAIN btx : btx'[j] = btx[j]
                  /\ \A k \in new :
                        /\ <<synced.eth, k>> \notin DOMAIN btx
                        /\ btx'[<<synced.eth, k>>] \in BtxRow
                        /\ btx'[<<synced.eth, k>>].src = k
                        /\ btx'[<<synced.eth, k>>].status = "PENDING"
                        /\ eth[k].type \in IF btx'[<<synced.eth, k>>].type = "unlock"
                                            THEN {"burn", "force_burn"} ELSE {"transfer"}
                        /\ btx'[<<synced.eth, k>>].value = wst[eth[k].row].value
                        /\ btx'[<<synced.eth, k>>].from = wst[eth[k].row].from
                        /\ btx'[<<synced.eth, k>>].to = wst[eth[k].row].to
                  /\ \A k \in (synced.eth + 1)..upto :
                        watched /\ eth[k].type \in Moves => k \in new
                  /\ btx' \in [DOMAIN btx' -> BtxRow]
    <2>1. PICK upto \in synced.eth..final :
          \E new \in SUBSET ((synced.eth + 1)..upto) : Turned(upto, new)
      <3> HIDE DEF key, Made
      <3> QED
        BY <1>1, <1>6, EthToIbetEffect
    <2>2. PICK new \in SUBSET ((synced.eth + 1)..upto) : Turned(upto, new)
      BY <2>1
    <2>2a. \A k \in new : Made(k, btx'[<<synced.eth, k>>])
      BY <2>2
    <2>3. synced'.eth = upto /\ upto \in Nat /\ upto <= final
      BY <1>1, <1>2, <2>1 DEF TypeOK
    <2>4. \A k \in new : k \in 1..synced'.eth /\ k \in 1..final /\ k \in 1..Len(eth) /\ k > synced.eth
      BY <1>2, <2>2, <2>3
    <2>5. UNCHANGED <<eth, wst>>
      BY <1>6 DEF EthToIbet, chains
    <2>6. ASSUME NEW k \in new, NEW j, j = key(k) PROVE Good(j)' /\ btx'[j].src = k
      <3>1. j[2] = k
        BY <2>6
      <3>2. Made(k, btx'[j])
        BY <2>2a, <2>6
      <3> HIDE DEF key
      <3> QED
        BY <2>4, <2>5, <3>1, <3>2 DEF Good
    <2>7. \A j \in DOMAIN btx' : j \in DOMAIN btx \/ \E k \in new : j = key(k)
      BY <2>2
    <2> HIDE DEF key, Made
    <2>8. \A j \in DOMAIN btx' : Good(j)'
      <3>1. ASSUME NEW j \in DOMAIN btx', j \notin DOMAIN btx PROVE Good(j)'
        BY <2>6, <2>7, <3>1
      <3> QED
        BY <1>5, <3>1
    <2>9. \A j \in DOMAIN btx : btx'[j].src <= synced.eth
      BY <1>1, <1>2, <1>4 DEF UnlockInv
    <2>10. ASSUME NEW i \in DOMAIN btx', NEW j \in DOMAIN btx', btx'[i].src = btx'[j].src
           PROVE  i = j
      <3>1. CASE i \in DOMAIN btx /\ j \in DOMAIN btx
        BY <1>1, <1>4, <2>10, <3>1 DEF UnlockInv
      <3>2. CASE i \notin DOMAIN btx /\ j \notin DOMAIN btx
        BY <2>6, <2>7, <2>10, <3>2
      <3>3. CASE ~(i \in DOMAIN btx <=> j \in DOMAIN btx)
        <4>1. ASSUME NEW m \in DOMAIN btx, NEW k \in new PROVE btx'[m].src # btx'[key(k)].src
          BY <1>2, <2>4, <2>6, <2>9
        <4> QED
          BY <2>7, <2>10, <3>3, <4>1
      <3> QED
        BY <3>1, <3>2, <3>3
    <2> QED
      BY <2>8, <2>10 DEF UnlockInv, Good
  <1>7. CASE DOMAIN btx' = DOMAIN btx
    <2>1. \A i, j \in DOMAIN btx' : btx'[i].src = btx'[j].src => i = j
      BY <1>1, <1>4, <1>7 DEF UnlockInv
    <2> QED
      BY <1>5, <1>7, <2>1 DEF UnlockInv, Good
  <1>8. ASSUME NEW j \in DOMAIN btx, Execute(j) PROVE DOMAIN btx' = DOMAIN btx
    BY <1>8 DEF Execute
  <1> QED
    BY <1>6, <1>7, <1>8
    DEF Next, Users, vars, db, RequestTransfer, RequestBurn, RequestForceBurn, Request,
        Lock, ForceUnlock, DeleteAccount, Deploy, Mine, FinalizeRow, Reorg, Finalize, LoadList,
        IbetToEth, AbortPass, Restart, SelectPending, EndPass, ExecuteLate

LEMMA TodoNext ==
    ASSUME BridgeAssumption, IInv, [Next]_vars
    PROVE  TodoInv'
  <1>1. /\ TypeOK /\ RowInv /\ ChainInv /\ UnlockInv /\ TodoInv /\ todo \subseteq DOMAIN btx
    BY DEF IInv, TypeOK
  <1>2. CASE EthToIbet
    <2>1. \A j \in DOMAIN btx : btx'[j] = btx[j]
      BY <1>1, <1>2, EthToIbetEffect
    <2>2. todo' = todo
      BY <1>2 DEF EthToIbet
    <2> QED
      BY <1>1, <2>1, <2>2 DEF TodoInv
  <1>3. CASE \E j \in DOMAIN btx : Execute(j)
    <2>1. PICK j \in DOMAIN btx, s \in {"SUCCEEDED", "FAILED"} :
             btx' = [btx EXCEPT ![j].status = s] /\ todo' = todo \ {j}
      BY <1>3 DEF Execute
    <2> QED
      BY <1>1, <2>1 DEF TodoInv
  <1>4. CASE SelectPending
    BY <1>4 DEF SelectPending, TodoInv, Pending, db
  <1>5. CASE UNCHANGED btx /\ (todo' = {} \/ UNCHANGED todo)
    BY <1>1, <1>5 DEF TodoInv
  <1> QED
    BY <1>2, <1>3, <1>4, <1>5
    DEF Next, Users, vars, db, RequestTransfer, RequestBurn, RequestForceBurn, Request,
        Lock, ForceUnlock, DeleteAccount, Deploy, Mine, FinalizeRow, Reorg, Finalize, LoadList,
        IbetToEth, AbortPass, Restart, EndPass, ExecuteLate

LEMMA Initially ==
    ASSUME BridgeAssumption, Init
    PROVE  IInv
  <1>1. TypeOK
    <2>1. lockLog = <<>> /\ eth = <<>> /\ wst = <<>> /\ btx = <<>> /\ final = 0
      BY DEF Init
    <2>2. /\ lockLog \in Seq([account : Accounts, value : Amounts, bridge : BOOLEAN, watched : BOOLEAN])
          /\ eth \in Seq(Event) /\ Len(eth) = 0 /\ Len(lockLog) = 0
          /\ DOMAIN wst = {} /\ DOMAIN btx = {} /\ DOMAIN lockLog = {}
      BY <2>1, EmptySeq
    <2>3. locked \in [Accounts -> Nat]
      BY DEF Init, NoBalance
    <2>4. synced \in [ibet : 0..Len(lockLog), eth : 0..final]
      BY <2>1, <2>2 DEF Init
    <2>5. faults \in [reorgs : Nat, skipped : SUBSET DOMAIN lockLog, late : Nat,
                     relocked : Nat, unlocks : Nat, freed : Nat, deleted : {0, 1}]
      BY DEF Init
    <2>6. deployed = FALSE /\ watched = FALSE /\ pc = "load" /\ todo = {}
      BY DEF Init
    <2>7. /\ \A S : wst \in [DOMAIN wst -> S] /\ btx \in [DOMAIN btx -> S]
          /\ DOMAIN wst \subseteq Nat \X Nat /\ DOMAIN btx \subseteq Nat \X Nat
      <3>1. \A S : wst \in Seq(S) /\ Len(wst) = 0 /\ btx = wst
        BY <2>1, EmptySeq
      <3>2. \A S : wst \in [1..Len(wst) -> S]
        BY <3>1, LenProperties
      <3>3. DOMAIN wst = {}
        BY <2>2
      <3> QED
        BY <3>1, <3>2, <3>3
    <2>8. final \in 0..Len(eth)
      BY <2>1, <2>2
    <2> QED
      BY <2>2, <2>3, <2>4, <2>5, <2>6, <2>7, <2>8 DEF TypeOK
  <1>2. DOMAIN wst = {} /\ DOMAIN btx = {} /\ DOMAIN eth = {} /\ DOMAIN lockLog = {} /\ MintRows = {}
    BY DEF Init, MintRows
  <1>3. RowInv
    BY <1>2, FS_EmptySet DEF RowInv
  <1>4. ChainInv /\ WatchInv /\ UnlockInv
    BY <1>2 DEF ChainInv, WatchInv, UnlockInv, Init
  <1>5. PassedInv /\ TodoInv
    BY DEF PassedInv, TodoInv, Init
  <1> QED
    BY <1>1, <1>3, <1>4, <1>5 DEF IInv

LEMMA Preserved ==
    ASSUME BridgeAssumption, IInv, [Next]_vars
    PROVE  IInv'
  <1>1. TypeOK' /\ RowInv' /\ ChainInv' /\ WatchInv'
    BY TypeNext, RowNext, ChainNext, WatchNext
  <1>2. PassedInv' /\ UnlockInv' /\ TodoInv'
    BY PassedNext, UnlockNext, TodoNext
  <1> QED
    BY <1>1, <1>2 DEF IInv

LEMMA Invariant ==
    ASSUME BridgeAssumption
    PROVE  Spec => []IInv
  <1>1. Init => IInv
    BY Initially
  <1>2. IInv /\ [Next]_vars => IInv'
    BY Preserved
  <1> QED
    BY <1>1, <1>2, PTL DEF Spec

-----------------------------------------------------------------------------
(* The theorems.                                                           *)

\* Tables, chains, block numbers and lists keep their types, and no balance becomes
\* negative: what the monitors write fits what the sender executes.
THEOREM Typing ==
    ASSUME BridgeAssumption
    PROVE  Spec => []TypeOK
  <1>1. IInv => TypeOK
    BY DEF IInv
  <1> QED
    BY <1>1, Invariant, PTL

\* Rows of the invariant that mint are one for each Lock event.
LEMMA MintsOnce ==
    ASSUME BridgeAssumption, IInv
    PROVE  MintedOnce
  <1> SUFFICES ASSUME NEW k \in DOMAIN lockLog
               PROVE  /\ Cardinality(Mints(k)) <= 1
                      /\ \A i \in Mints(k) : /\ lockLog[k].bridge /\ k <= synced.ibet
                                             /\ wst[i].to = lockLog[k].account
                                             /\ wst[i].value = lockLog[k].value
                      /\ (/\ k <= synced.ibet /\ k \notin faults.skipped
                          /\ lockLog[k].bridge /\ lockLog[k].watched /\ faults.deleted = 0)
                            => Mints(k) # {}
    BY DEF MintedOnce
  <1>1. RowInv /\ PassedInv /\ TypeOK
    BY DEF IInv
  <1>2. k \in Nat /\ k >= 1 /\ synced.ibet \in Nat
    BY <1>1, Ranges
  <1>3. \A i \in Mints(k) : i \in MintRows /\ wst[i].src = k
    BY DEF Mints, MintRows
  <1>4. Cardinality(Mints(k)) <= 1
    <2>1. CASE Mints(k) = {}
      <3>1. Cardinality(Mints(k)) = 0
        BY <2>1, FS_EmptySet
      <3> QED
        BY <3>1
    <2>2. CASE Mints(k) # {}
      <3>1. PICK i : i \in Mints(k)
        BY <2>2
      <3>2. Mints(k) = {i}
        BY <1>1, <1>3, <3>1 DEF RowInv
      <3>3. Cardinality(Mints(k)) = 1
        BY <3>2, FS_Singleton
      <3> QED
        BY <3>3
    <2> QED
      BY <2>1, <2>2
  <1>5. \A i \in Mints(k) : /\ lockLog[k].bridge /\ k <= synced.ibet
                           /\ wst[i].to = lockLog[k].account
                           /\ wst[i].value = lockLog[k].value
    BY <1>1, <1>2, <1>3 DEF RowInv
  <1>6. ASSUME k <= synced.ibet, k \notin faults.skipped,
               lockLog[k].bridge, lockLog[k].watched, faults.deleted = 0
        PROVE  Mints(k) # {}
    <2>1. \E i \in MintRows : wst[i].src = k
      BY <1>1, <1>2, <1>6 DEF PassedInv
    <2> QED
      BY <2>1 DEF Mints, MintRows
  <1> QED
    BY <1>4, <1>5, <1>6

\* A lock for the bridge is minted once, whatever passes are aborted and however often
\* the monitor is started again; one made while the token is watched is minted for
\* certain, unless it is skipped or the issuer's account is deleted.
THEOREM Minting ==
    ASSUME BridgeAssumption
    PROVE  Spec => []MintedOnce
  <1>1. IInv => MintedOnce
    BY MintsOnce
  <1> QED
    BY <1>1, Invariant, PTL

\* Rows of the invariant for ibet are one for each final event.
LEMMA RowsOnce ==
    ASSUME BridgeAssumption, IInv
    PROVE  RowPerEvent
  <1>1. /\ TypeOK /\ RowInv /\ ChainInv /\ PassedInv /\ UnlockInv
    BY DEF IInv
  <1>2. synced.eth \in Nat /\ synced.eth <= Len(eth) /\ Len(eth) \in Nat /\ DOMAIN eth = 1..Len(eth)
    BY <1>1, Ranges
  <1>3. ASSUME NEW j \in DOMAIN btx
        PROVE  /\ btx[j].src <= synced.eth /\ Rows(btx[j].src) = {j}
               /\ LET r == wst[eth[btx[j].src].row]
                  IN  /\ eth[btx[j].src].type = r.type
                      /\ IF btx[j].type = "unlock" THEN r.type \in {"burn", "force_burn"}
                                                   ELSE r.type = "transfer"
                      /\ btx[j].value = r.value /\ btx[j].from = r.from /\ btx[j].to = r.to
    <2>1. /\ btx[j].src \in 1..synced.eth
          /\ eth[btx[j].src].type
                \in IF btx[j].type = "unlock" THEN {"burn", "force_burn"} ELSE {"transfer"}
          /\ btx[j].value = wst[eth[btx[j].src].row].value
          /\ btx[j].from = wst[eth[btx[j].src].row].from
          /\ btx[j].to = wst[eth[btx[j].src].row].to
      BY <1>1 DEF UnlockInv
    <2>2. btx[j].src <= synced.eth /\ btx[j].src \in DOMAIN eth
      BY <1>2, <2>1
    <2>3. Rows(btx[j].src) = {j}
      BY <1>1 DEF UnlockInv, Rows
    <2>4. eth[btx[j].src].type \in {"reverted", wst[eth[btx[j].src].row].type}
      BY <1>1, <2>2 DEF ChainInv
    <2> QED
      BY <2>1, <2>2, <2>3, <2>4
  <1>4. ASSUME NEW k \in 1..synced.eth,
               eth[k].type \in {"burn", "force_burn", "transfer"}, faults.deleted = 0
        PROVE  Rows(k) # {}
    BY <1>1, <1>4 DEF PassedInv, Rows, Moves
  <1> QED
    BY <1>3, <1>4 DEF RowPerEvent

\* Every final burn or transfer that is passed has exactly one row for ibet, with its
\* accounts and amount, and no row is made of an event that can be taken back.
THEOREM Unlocking ==
    ASSUME BridgeAssumption
    PROVE  Spec => []RowPerEvent
  <1>1. IInv => RowPerEvent
    BY RowsOnce
  <1> QED
    BY <1>1, Invariant, PTL

\* No step of the bridge changes a row that has a result.
LEMMA KeepsResults ==
    ASSUME BridgeAssumption, IInv, [Next]_vars
    PROVE  ResultStays
  <1>1. \A j \in DOMAIN btx : btx[j].status # "PENDING" => btx'[j] = btx[j]
    BY BtxGrows DEF IInv
  <1> QED
    BY <1>1 DEF ResultStays

\* A row for ibet gets a result once: the list of the sender has only rows without one,
\* though it was read before, and no pass of the monitor touches a row that is there.
THEOREM Results ==
    ASSUME BridgeAssumption
    PROVE  Spec => [][ResultStays]_vars
  <1>1. IInv /\ [Next]_vars => [ResultStays]_vars
    BY KeepsResults
  <1> QED
    BY <1>1, Invariant, PTL DEF Spec

-----------------------------------------------------------------------------
(* The amounts of both chains: what an account holds is what its blocks      *)
(* brought, and what is locked is what was locked and what rows for ibet     *)
(* have moved.                                                               *)

\* What a row brings to an account, and to all accounts together.
Gain(a, r) == (IF a = r.to THEN r.value ELSE 0) - (IF a = r.from THEN r.value ELSE 0)
Change(r) == (IF r.to \in Accounts THEN r.value ELSE 0)
             - (IF r.from \in Accounts THEN r.value ELSE 0)

\* What block n brings to an account, and what the account holds after it.
Came(a, n) == IF eth[n].type = "reverted" THEN 0 ELSE Gain(a, wst[eth[n].row])
Held(a, n) == IF n = 0 THEN 0 ELSE eth[n].balance[a]

\* A row is mined once, a mint is never reverted, and each block adds to the last.
BlockInv ==
    /\ \A k, l \in DOMAIN eth : eth[k].row = eth[l].row => k = l
    /\ \A k \in DOMAIN eth : wst[eth[k].row].type = "mint" => eth[k].type = "mint"
    /\ \A k \in DOMAIN eth, a \in Accounts : Held(a, k) = Held(a, k - 1) + Came(a, k)

\* Rows for ibet with an executed transaction that was recorded.
Done == {j \in DOMAIN btx : btx[j].status = "SUCCEEDED"}

\* What Lock events have locked, of an account and in all, and what Done has moved.
Given(a, k) == IF a = lockLog[k].account THEN lockLog[k].value ELSE 0
GivenBy(a) == SumFunction([k \in DOMAIN lockLog |-> Given(a, k)])
GivenTotal == SumFunction([k \in DOMAIN lockLog |-> lockLog[k].value])
DoneFor(a) == SumFunction([j \in Done |-> Gain(a, btx[j])])
DoneTotal == SumFunction([j \in Done |-> Change(btx[j])])

\* The books of ibet.
BookInv ==
    /\ SumFunction(locked) + faults.freed + faults.relocked = GivenTotal + DoneTotal
    /\ faults.late = 0 /\ faults.freed = 0
         => \A a \in Accounts : locked[a] = GivenBy(a) + DoneFor(a)

\* An amount that is moved changes the sum by what enters and leaves the accounts.
LEMMA MovedSum ==
    ASSUME IsFiniteSet(Accounts), NEW bal \in [Accounts -> Int], NEW r, r.value \in Int
    PROVE  SumFunction(Moved(bal, r.from, r.to, r.value)) = SumFunction(bal) + Change(r)
  <1> DEFINE added == [a \in Accounts |-> bal[a] + (IF a = r.to THEN r.value ELSE 0)]
             moved == Moved(bal, r.from, r.to, r.value)
  <1>1. \A a \in Accounts : added[a] \in Int /\ bal[a] \in Int
    OBVIOUS
  <1>2. /\ DOMAIN moved = Accounts
        /\ \A a \in Accounts : moved[a] = added[a] + (IF a = r.from THEN 0 - r.value ELSE 0)
    BY DEF Moved
  <1>3. SumFunction(added) = SumFunction(bal) + (IF r.to \in Accounts THEN r.value ELSE 0)
    <2>1. CASE r.to \in Accounts
      <3>1. SumFunction(added) = SumFunction(bal) + r.value
        <4>1. /\ DOMAIN added = DOMAIN bal /\ DOMAIN bal = Accounts
              /\ added[r.to] = bal[r.to] + r.value
              /\ \A a \in DOMAIN bal \ {r.to} : added[a] = bal[a]
          BY <1>1, <2>1
        <4> HIDE DEF added
        <4> QED
          BY <1>1, <2>1, <4>1, TotalChange
      <3> QED
        BY <2>1, <3>1
    <2>2. CASE r.to \notin Accounts
      <3>1. DOMAIN added = DOMAIN bal /\ \A a \in DOMAIN bal : added[a] = bal[a]
        BY <1>1, <2>2
      <3>2. SumFunction(added) = SumFunction(bal)
        <4> HIDE DEF added
        <4> QED
          BY <3>1, TotalSame
      <3>3. SumFunction(bal) \in Int
        BY <1>1, TotalType
      <3> QED
        BY <2>2, <3>2, <3>3
    <2> QED
      BY <2>1, <2>2
  <1>4. SumFunction(moved) = SumFunction(added) - (IF r.from \in Accounts THEN r.value ELSE 0)
    <2>0. DOMAIN added = Accounts
      OBVIOUS
    <2> HIDE DEF added, moved
    <2>1. CASE r.from \in Accounts
      <3>1. /\ moved[r.from] = added[r.from] + (0 - r.value)
            /\ \A a \in DOMAIN added \ {r.from} : moved[a] = added[a]
            /\ 0 - r.value \in Int
        BY <1>1, <1>2, <2>0, <2>1
      <3>2. SumFunction(moved) = SumFunction(added) + (0 - r.value)
        BY <1>1, <1>2, <2>0, <2>1, <3>1, TotalChange
      <3>3. SumFunction(added) \in Int
        BY <1>1, <2>0, TotalType
      <3> QED
        BY <2>1, <3>2, <3>3
    <2>2. CASE r.from \notin Accounts
      <3>1. \A a \in DOMAIN added : moved[a] = added[a]
        BY <1>1, <1>2, <2>0, <2>2
      <3>2. SumFunction(moved) = SumFunction(added)
        BY <1>2, <2>0, <3>1, TotalSame
      <3>3. SumFunction(added) \in Int
        BY <1>1, <2>0, TotalType
      <3> QED
        BY <2>2, <3>2, <3>3
    <2> QED
      BY <2>1, <2>2
  <1>5. SumFunction(bal) \in Int /\ SumFunction(added) \in Int
    <2>1. DOMAIN added = Accounts /\ DOMAIN bal = Accounts
      OBVIOUS
    <2> HIDE DEF added
    <2> QED
      BY <1>1, <2>1, TotalType
  <1> HIDE DEF added, moved
  <1>6. SumFunction(moved) = SumFunction(bal) + Change(r)
    BY <1>3, <1>4, <1>5 DEF Change
  <1> QED
    BY <1>6 DEF moved

\* A block that is added brings what its row says, unless it is reverted; what comes from
\* nowhere is never reverted.
LEMMA MineBrings ==
    ASSUME BridgeAssumption, TypeOK, NEW i \in DOMAIN wst, Mine(i)
    PROVE  /\ Len(eth') = Len(eth) + 1 /\ \A k \in 1..Len(eth) : eth'[k] = eth[k]
           /\ eth'[Len(eth) + 1].row = i /\ \A k \in 1..Len(eth) : eth[k].row # i
           /\ wst[i].from = Zero => eth'[Len(eth) + 1].type = wst[i].type
           /\ \A a \in Accounts :
                 eth'[Len(eth) + 1].balance[a]
                   = Balance(a) + (IF eth'[Len(eth) + 1].type = "reverted" THEN 0 ELSE Gain(a, wst[i]))
  <1> DEFINE r == wst[i]
             ok == r.from = Zero \/ Balance(r.from) >= r.value
             bal == [a \in Accounts |-> Balance(a)]
             new == IF ok THEN Moved(bal, r.from, r.to, r.value) ELSE bal
             e == [type |-> IF ok THEN r.type ELSE "reverted", row |-> i, balance |-> new]
  <1>1. /\ Len(eth') = Len(eth) + 1 /\ \A k \in 1..Len(eth) : eth'[k] = eth[k]
        /\ eth'[Len(eth) + 1].row = i
    BY MineEffect
  <1>2. \A k \in 1..Len(eth) : eth[k].row # i
    BY Ranges DEF Mine
  <1>3. eth' = Append(eth, e) /\ Len(eth) \in Nat
    BY Ranges DEF Mine
  <1>4. eth'[Len(eth) + 1] = e
    <2>1. eth' \in Seq(Event) /\ eth \in Seq(Event)
      BY MineEffect, Ranges
    <2> HIDE DEF e
    <2> QED
      BY <1>3, <2>1, LenProperties
  <1>5. r.type # "reverted" /\ r.value \in Int /\ \A a \in Accounts : Balance(a) \in Int
    <2>1. r \in WstRow
      BY Ranges
    <2>2. r.type # "reverted"
      BY <2>1 DEF WstRow
    <2>3. r.value \in Nat
      BY <2>1 DEF WstRow, BridgeAssumption
    <2>4. \A a \in Accounts : Balance(a) \in Nat
      BY BalanceType
    <2> QED
      <3> HIDE DEF r
      <3> QED
        BY <2>2, <2>3, <2>4
  <1>6. ASSUME NEW a \in Accounts
        PROVE  new[a] = Balance(a) + (IF e.type = "reverted" THEN 0 ELSE Gain(a, r))
    <2>1. CASE ok
      <3>1. new[a] = bal[a] + (IF a = r.to THEN r.value ELSE 0) - (IF a = r.from THEN r.value ELSE 0)
        BY <2>1 DEF Moved
      <3>2. e.type # "reverted" /\ bal[a] = Balance(a)
        BY <1>5, <2>1
      <3> HIDE DEF new, e, bal, r
      <3> QED
        BY <1>5, <3>1, <3>2 DEF Gain
    <2>2. CASE ~ok
      BY <1>5, <2>2
    <2> QED
      BY <2>1, <2>2
  <1>7. r.from = Zero => e.type = r.type
    OBVIOUS
  <1>8. e.balance = new
    OBVIOUS
  <1> HIDE DEF e, new
  <1> QED
    BY <1>1, <1>2, <1>4, <1>6, <1>7, <1>8

LEMMA BlockNext ==
    ASSUME BridgeAssumption, IInv, BlockInv, [Next]_vars
    PROVE  BlockInv'
  <1>1. TypeOK /\ RowInv
    BY DEF IInv
  <1>2. /\ DOMAIN eth = 1..Len(eth) /\ DOMAIN eth' = 1..Len(eth') /\ Len(eth) \in Nat
        /\ Len(eth') \in Nat
        /\ \A k \in 1..Len(eth) : eth[k].row \in DOMAIN wst
        /\ \A k \in 1..Len(eth') :
              \/ k \in 1..Len(eth) /\ eth'[k] = eth[k]
              \/ k = Len(eth) + 1 /\ \E i \in DOMAIN wst : Mine(i)
    BY <1>1, EthGrows, Ranges DEF Event
  <1>3. \A i \in DOMAIN wst : /\ wst'[i].type = wst[i].type /\ wst'[i].from = wst[i].from
                              /\ wst'[i].to = wst[i].to /\ wst'[i].value = wst[i].value
    BY <1>1, WstGrows
  <1>4. ASSUME NEW k \in 1..Len(eth), k \in 1..Len(eth'), eth'[k] = eth[k]
        PROVE  /\ wst'[eth'[k].row].type = "mint" => eth'[k].type = "mint"
               /\ \A a \in Accounts : Held(a, k)' = Held(a, k - 1)' + Came(a, k)'
    <2>1. wst[eth[k].row].type = "mint" => eth[k].type = "mint"
      BY <1>2 DEF BlockInv
    <2>2. k = 1 \/ (k - 1 \in 1..Len(eth) /\ k - 1 \in 1..Len(eth') /\ k - 1 # Len(eth) + 1)
      BY <1>2, <1>4
    <2>3. k = 1 \/ eth'[k - 1] = eth[k - 1]
      BY <1>2, <2>2
    <2>4. ASSUME NEW a \in Accounts
          PROVE  Held(a, k)' = Held(a, k) /\ Held(a, k - 1)' = Held(a, k - 1) /\ Came(a, k)' = Came(a, k)
      BY <1>2, <1>3, <1>4, <2>3 DEF Held, Came, Gain
    <2>5. \A a \in Accounts : Held(a, k) = Held(a, k - 1) + Came(a, k)
      BY <1>2 DEF BlockInv
    <2> QED
      BY <1>2, <1>3, <1>4, <2>1, <2>4, <2>5
  <1>5. CASE \E i \in DOMAIN wst : Mine(i)
    <2>1. PICK i \in DOMAIN wst : Mine(i)
      BY <1>5
    <2>0. PICK n \in Nat : n = Len(eth) + 1
      BY <1>2
    <2>2. /\ Len(eth') = n /\ \A k \in 1..Len(eth) : eth'[k] = eth[k]
          /\ eth'[n].row = i /\ \A k \in 1..Len(eth) : eth[k].row # i
          /\ wst[i].from = Zero => eth'[n].type = wst[i].type
          /\ \A a \in Accounts :
                eth'[n].balance[a]
                  = Balance(a) + (IF eth'[n].type = "reverted" THEN 0 ELSE Gain(a, wst[i]))
      BY <1>1, <2>0, <2>1, MineBrings
    <2>3. wst' = wst
      BY <2>1 DEF Mine, db
    <2>4. wst'[eth'[n].row].type = "mint" => eth'[n].type = "mint"
      BY <1>1, <2>2, <2>3 DEF RowInv, MintRows
    <2>5. ASSUME NEW a \in Accounts PROVE Held(a, n)' = Held(a, n - 1)' + Came(a, n)'
      <3>1. Held(a, n)' = eth'[n].balance[a]
        BY <1>2, <2>0 DEF Held
      <3>2. Held(a, n - 1)' = Balance(a)
        <4>1. CASE Len(eth) = 0
          <5>1. eth = <<>>
            BY <1>1, <4>1, Ranges, EmptySeq
          <5> QED
            BY <2>0, <4>1, <5>1 DEF Held, Balance
        <4>2. CASE Len(eth) # 0
          <5>1. eth # <<>> /\ Len(eth) \in 1..Len(eth)
            BY <1>2, <4>2
          <5> QED
            BY <1>2, <2>0, <2>2, <4>2, <5>1 DEF Held, Balance
        <4> QED
          BY <4>1, <4>2
      <3>3. Came(a, n)' = IF eth'[n].type = "reverted" THEN 0 ELSE Gain(a, wst[i])
        BY <2>2, <2>3 DEF Came, Gain
      <3> QED
        BY <2>2, <3>1, <3>2, <3>3
    <2>6. \A k, l \in 1..Len(eth') : eth'[k].row = eth'[l].row => k = l
      BY <1>2, <2>0, <2>2 DEF BlockInv
    <2>7. \A k \in 1..Len(eth') : k \in 1..Len(eth) \/ k = n
      BY <1>2, <2>0
    <2>8. /\ \A k \in 1..Len(eth') : wst'[eth'[k].row].type = "mint" => eth'[k].type = "mint"
          /\ \A k \in 1..Len(eth') : \A a \in Accounts : Held(a, k)' = Held(a, k - 1)' + Came(a, k)'
      BY <1>4, <2>2, <2>4, <2>5, <2>7
    <2> QED
      BY <1>2, <2>6, <2>8 DEF BlockInv
  <1>6. CASE ~\E i \in DOMAIN wst : Mine(i)
    <2>1. \A k \in 1..Len(eth') : k \in 1..Len(eth) /\ eth'[k] = eth[k]
      BY <1>2, <1>6
    <2>2. \A k, l \in 1..Len(eth') : eth'[k].row = eth'[l].row => k = l
      BY <1>2, <2>1 DEF BlockInv
    <2> QED
      BY <1>2, <1>4, <2>1, <2>2 DEF BlockInv
  <1> QED
    BY <1>5, <1>6

\* There are finitely many rows for ibet: each is made of an event of its own.
LEMMA DoneFinite ==
    ASSUME IInv
    PROVE  /\ IsFiniteSet(DOMAIN btx) /\ IsFiniteSet(Done)
           /\ IsFiniteSet(DOMAIN lockLog) /\ IsFiniteSet(DOMAIN wst)
  <1>1. TypeOK /\ UnlockInv /\ RowInv
    BY DEF IInv
  <1>2. synced.eth \in Nat /\ Len(lockLog) \in Nat /\ DOMAIN lockLog = 1..Len(lockLog)
    BY <1>1, Ranges
  <1> DEFINE src == [j \in DOMAIN btx |-> btx[j].src]
             T == 1..synced.eth
  <1>3. IsFiniteSet(T) /\ IsFiniteSet(DOMAIN lockLog)
    BY <1>2, FS_Interval
  <1>4. src \in Injection(DOMAIN btx, T)
    BY <1>1 DEF UnlockInv, Injection, IsInjective
  <1>5. IsFiniteSet(DOMAIN btx)
    <2> HIDE DEF src, T
    <2> QED
      BY <1>3, <1>4, FS_Injection
  <1>6. IsFiniteSet(Done)
    BY <1>5, FS_Subset DEF Done
  <1> QED
    BY <1>1, <1>3, <1>5, <1>6 DEF RowInv

\* Rows for ibet move an amount of an account, within the accounts if they are changes.
LEMMA BtxMoves ==
    ASSUME BridgeAssumption, IInv, NEW j \in DOMAIN btx
    PROVE  /\ btx[j].value \in Nat /\ btx[j].from \in Accounts
           /\ IF btx[j].type = "unlock" THEN btx[j].to \notin Accounts ELSE btx[j].to \in Accounts
           /\ Change(btx[j]) = IF btx[j].type = "unlock" THEN 0 - btx[j].value ELSE 0
           /\ \A a : Gain(a, btx[j]) \in Int
  <1> DEFINE k == btx[j].src
             i == eth[btx[j].src].row
  <1>1. TypeOK /\ UnlockInv /\ RowInv /\ ChainInv
    BY DEF IInv
  <1>2. /\ btx[j].value \in Nat /\ btx[j].from \in Accounts /\ btx[j].type \in {"unlock", "change"}
    BY <1>1, Ranges DEF BtxRow, BridgeAssumption
  <1>3. k \in DOMAIN eth /\ i \in DOMAIN wst
    BY <1>1, Ranges DEF UnlockInv, Event
  <1>4. /\ eth[k].type \in IF btx[j].type = "unlock" THEN {"burn", "force_burn"} ELSE {"transfer"}
        /\ btx[j].to = wst[i].to
    BY <1>1 DEF UnlockInv
  <1>5. wst[i].type = eth[k].type
    <2>1. eth[k].type \in {"reverted", wst[i].type}
      BY <1>1, <1>3 DEF ChainInv
    <2> QED
      BY <1>4, <2>1
  <1>6. IF btx[j].type = "unlock" THEN btx[j].to = Zero ELSE btx[j].to \in Accounts
    BY <1>1, <1>3, <1>4, <1>5 DEF RowInv, MintRows
  <1> HIDE DEF k, i
  <1>7. IF btx[j].type = "unlock" THEN btx[j].to \notin Accounts ELSE btx[j].to \in Accounts
    BY <1>6 DEF BridgeAssumption
  <1>8. Change(btx[j]) = IF btx[j].type = "unlock" THEN 0 - btx[j].value ELSE 0
    BY <1>2, <1>7 DEF Change
  <1>9. \A a : Gain(a, btx[j]) \in Int
    BY <1>2 DEF Gain
  <1> QED
    BY <1>2, <1>7, <1>8, <1>9

\* The sums of the books are integers.
LEMMA BookTypes ==
    ASSUME BridgeAssumption, IInv
    PROVE  /\ SumFunction(locked) \in Int /\ GivenTotal \in Int /\ DoneTotal \in Int
           /\ \A a : GivenBy(a) \in Int /\ DoneFor(a) \in Int
           /\ faults.freed \in Nat /\ faults.relocked \in Nat /\ faults.late \in Nat
  <1>1. TypeOK
    BY DEF IInv
  <1>2. IsFiniteSet(Done) /\ IsFiniteSet(DOMAIN lockLog) /\ IsFiniteSet(Accounts)
    BY DoneFinite DEF BridgeAssumption
  <1>3. \A k \in DOMAIN lockLog : lockLog[k].value \in Int /\ \A a : Given(a, k) \in Int
    BY <1>1, Ranges DEF LockEvent, BridgeAssumption, Given
  <1>4. \A j \in Done : Change(btx[j]) \in Int /\ \A a : Gain(a, btx[j]) \in Int
    BY BtxMoves DEF Done
  <1>5. SumFunction(locked) \in Int
    <2>1. DOMAIN locked = Accounts /\ \A a \in DOMAIN locked : locked[a] \in Int
      BY <1>1 DEF TypeOK
    <2> QED
      BY <1>2, <2>1, TotalType
  <1>6. GivenTotal \in Int
    <2> DEFINE f == [k \in DOMAIN lockLog |-> lockLog[k].value]
    <2>1. DOMAIN f = DOMAIN lockLog /\ \A k \in DOMAIN f : f[k] \in Int
      BY <1>3
    <2> HIDE DEF f
    <2>2. SumFunction(f) \in Int
      BY <1>2, <2>1, TotalType
    <2> QED
      BY <2>2 DEF GivenTotal, f
  <1>7. DoneTotal \in Int
    <2> DEFINE f == [j \in Done |-> Change(btx[j])]
    <2>1. DOMAIN f = Done /\ \A k \in DOMAIN f : f[k] \in Int
      BY <1>4
    <2> HIDE DEF f
    <2>2. SumFunction(f) \in Int
      BY <1>2, <2>1, TotalType
    <2> QED
      BY <2>2 DEF DoneTotal, f
  <1>8. ASSUME NEW a PROVE GivenBy(a) \in Int
    <2> DEFINE f == [k \in DOMAIN lockLog |-> Given(a, k)]
    <2>1. DOMAIN f = DOMAIN lockLog /\ \A k \in DOMAIN f : f[k] \in Int
      BY <1>3
    <2> HIDE DEF f
    <2>2. SumFunction(f) \in Int
      BY <1>2, <2>1, TotalType
    <2> QED
      BY <2>2 DEF GivenBy, f
  <1>9. ASSUME NEW a PROVE DoneFor(a) \in Int
    <2> DEFINE f == [j \in Done |-> Gain(a, btx[j])]
    <2>1. DOMAIN f = Done /\ \A k \in DOMAIN f : f[k] \in Int
      BY <1>4
    <2> HIDE DEF f
    <2>2. SumFunction(f) \in Int
      BY <1>2, <2>1, TotalType
    <2> QED
      BY <2>2 DEF DoneFor, f
  <1> QED
    BY <1>1, <1>5, <1>6, <1>7, <1>8, <1>9 DEF TypeOK

\* A Lock event adds its amount to what was locked.
LEMMA LockAdds ==
    ASSUME BridgeAssumption, IInv,
           NEW a \in Accounts, NEW v \in Amounts, NEW b \in BOOLEAN, Lock(a, v, b)
    PROVE  /\ GivenTotal' = GivenTotal + v
           /\ \A x : GivenBy(x)' = GivenBy(x) + (IF x = a THEN v ELSE 0)
  <1>1. TypeOK /\ v \in Nat
    BY DEF IInv, BridgeAssumption
  <1>2. PICK n \in Nat : n = Len(lockLog) + 1
    BY <1>1, Ranges
  <1> DEFINE e == [account |-> a, value |-> v, bridge |-> b, watched |-> watched]
  <1>3. e \in LockEvent /\ lockLog' = Append(lockLog, e)
    BY <1>1 DEF LockEvent, Lock, TypeOK
  <1>4. /\ lockLog' \in Seq(LockEvent) /\ Len(lockLog') = n
        /\ \A k \in 1..Len(lockLog) : lockLog'[k] = lockLog[k]
        /\ lockLog'[n] = e
    <2> HIDE DEF e
    <2> QED
      BY <1>1, <1>2, <1>3, Ranges, AppendProperties
  <1>5. /\ DOMAIN lockLog = 1..Len(lockLog) /\ DOMAIN lockLog' = 1..Len(lockLog')
        /\ Len(lockLog) \in Nat
    BY <1>1, <1>4, Ranges, LenProperties
  <1>6. DOMAIN lockLog' = DOMAIN lockLog \cup {n} /\ n \notin DOMAIN lockLog
    BY <1>2, <1>4, <1>5
  <1>7. /\ \A k \in DOMAIN lockLog : lockLog'[k] = lockLog[k] /\ lockLog[k].value \in Int
        /\ lockLog'[n].value = v /\ lockLog'[n].account = a /\ v \in Int
    BY <1>1, <1>4, <1>5, Ranges DEF LockEvent, BridgeAssumption
  <1>8. IsFiniteSet(DOMAIN lockLog)
    BY DoneFinite
  <1> HIDE DEF e
  <1>9. GivenTotal' = GivenTotal + v
    <2> DEFINE f == [k \in DOMAIN lockLog |-> lockLog[k].value]
               g == [k \in DOMAIN lockLog' |-> lockLog'[k].value]
    <2>1. /\ DOMAIN f = DOMAIN lockLog /\ DOMAIN g = DOMAIN f \cup {n} /\ g[n] = v
          /\ \A k \in DOMAIN f : f[k] \in Int /\ g[k] = f[k]
      BY <1>6, <1>7
    <2>2. GivenTotal = SumFunction(f) /\ GivenTotal' = SumFunction(g)
      BY DEF GivenTotal
    <2> HIDE DEF f, g
    <2>3. SumFunction(g) = g[n] + SumFunction(f)
      BY <1>6, <1>7, <1>8, <2>1, TotalAdd
    <2>4. SumFunction(f) \in Int
      BY <1>8, <2>1, TotalType
    <2> QED
      BY <1>7, <2>1, <2>2, <2>3, <2>4
  <1>10. ASSUME NEW x PROVE GivenBy(x)' = GivenBy(x) + (IF x = a THEN v ELSE 0)
    <2> DEFINE f == [k \in DOMAIN lockLog |-> Given(x, k)]
               g == [k \in DOMAIN lockLog' |-> Given(x, k)']
    <2>1. /\ DOMAIN f = DOMAIN lockLog /\ DOMAIN g = DOMAIN f \cup {n}
          /\ g[n] = IF x = a THEN v ELSE 0
          /\ \A k \in DOMAIN f : f[k] \in Int /\ g[k] = f[k]
      BY <1>6, <1>7 DEF Given
    <2>2. GivenBy(x) = SumFunction(f) /\ GivenBy(x)' = SumFunction(g)
      BY DEF GivenBy
    <2> HIDE DEF f, g
    <2>3. SumFunction(g) = g[n] + SumFunction(f)
      BY <1>6, <1>7, <1>8, <2>1, TotalAdd
    <2>4. SumFunction(f) \in Int
      BY <1>8, <2>1, TotalType
    <2> QED
      BY <1>7, <2>1, <2>2, <2>3, <2>4
  <1> QED
    BY <1>9, <1>10

\* Rows that stay executed moved what they moved.
LEMMA DoneSame ==
    ASSUME IInv, Done' = Done, \A j \in Done : btx'[j] = btx[j]
    PROVE  DoneTotal' = DoneTotal /\ \A a : DoneFor(a)' = DoneFor(a)
  <1>1. DoneTotal' = DoneTotal
    BY DEF DoneTotal, Change
  <1>2. ASSUME NEW a PROVE DoneFor(a)' = DoneFor(a)
    BY DEF DoneFor, Gain
  <1> QED
    BY <1>1, <1>2

\* A row that is executed adds what it moves.
LEMMA DoneAdds ==
    ASSUME BridgeAssumption, IInv, NEW j \in DOMAIN btx, j \notin Done, Done' = Done \cup {j},
           \A i \in Done : btx'[i] = btx[i],
           btx'[j] = [btx[j] EXCEPT !.status = "SUCCEEDED"]
    PROVE  /\ DoneTotal' = DoneTotal + Change(btx[j])
           /\ \A a : DoneFor(a)' = DoneFor(a) + Gain(a, btx[j])
  <1>1. IsFiniteSet(Done)
    BY DoneFinite
  <1>2. \A i \in Done \cup {j} : Change(btx[i]) \in Int /\ \A a : Gain(a, btx[i]) \in Int
    BY BtxMoves DEF Done
  <1>3. /\ btx'[j].from = btx[j].from /\ btx'[j].to = btx[j].to /\ btx'[j].value = btx[j].value
    <2>1. btx[j] \in BtxRow
      BY Ranges DEF IInv
    <2> QED
      BY <2>1 DEF BtxRow
  <1>4. \A i \in Done \cup {j} : Change(btx'[i]) = Change(btx[i]) /\ \A a : Gain(a, btx'[i]) = Gain(a, btx[i])
    BY <1>3 DEF Change, Gain
  <1>5. DoneTotal' = DoneTotal + Change(btx[j])
    <2> DEFINE f == [i \in Done |-> Change(btx[i])]
               g == [i \in Done' |-> Change(btx'[i])]
    <2>1. /\ DOMAIN f = Done /\ DOMAIN g = DOMAIN f \cup {j} /\ g[j] = Change(btx[j])
          /\ g[j] \in Int /\ j \notin DOMAIN f
          /\ \A i \in DOMAIN f : f[i] \in Int /\ g[i] = f[i]
      BY <1>2, <1>4
    <2>2. DoneTotal = SumFunction(f) /\ DoneTotal' = SumFunction(g)
      BY DEF DoneTotal, Change
    <2> HIDE DEF f, g
    <2>3. SumFunction(g) = g[j] + SumFunction(f)
      BY <1>1, <2>1, TotalAdd
    <2>4. SumFunction(f) \in Int
      BY <1>1, <2>1, TotalType
    <2> QED
      BY <1>2, <2>1, <2>2, <2>3, <2>4
  <1>6. ASSUME NEW a PROVE DoneFor(a)' = DoneFor(a) + Gain(a, btx[j])
    <2> DEFINE f == [i \in Done |-> Gain(a, btx[i])]
               g == [i \in Done' |-> Gain(a, btx'[i])]
    <2>1. /\ DOMAIN f = Done /\ DOMAIN g = DOMAIN f \cup {j} /\ g[j] = Gain(a, btx[j])
          /\ g[j] \in Int /\ j \notin DOMAIN f
          /\ \A i \in DOMAIN f : f[i] \in Int /\ g[i] = f[i]
      BY <1>2, <1>4
    <2>2. DoneFor(a) = SumFunction(f) /\ DoneFor(a)' = SumFunction(g)
      BY DEF DoneFor, Gain
    <2> HIDE DEF f, g
    <2>3. SumFunction(g) = g[j] + SumFunction(f)
      BY <1>1, <2>1, TotalAdd
    <2>4. SumFunction(f) \in Int
      BY <1>1, <2>1, TotalType
    <2> QED
      BY <1>2, <2>1, <2>2, <2>3, <2>4
  <1> QED
    BY <1>5, <1>6

LEMMA BookNext ==
    ASSUME BridgeAssumption, IInv, BookInv, [Next]_vars
    PROVE  BookInv'
  <1>1. TypeOK /\ TodoInv /\ IsFiniteSet(Accounts) /\ locked \in [Accounts -> Int]
    <2>1. TypeOK /\ TodoInv /\ IsFiniteSet(Accounts)
      BY DEF IInv, BridgeAssumption
    <2>2. locked \in [Accounts -> Nat]
      BY <2>1 DEF TypeOK
    <2> QED
      BY <2>1, <2>2
  <1>2. /\ SumFunction(locked) \in Int /\ GivenTotal \in Int /\ DoneTotal \in Int
        /\ \A a : GivenBy(a) \in Int /\ DoneFor(a) \in Int
        /\ faults.freed \in Nat /\ faults.relocked \in Nat /\ faults.late \in Nat
        /\ faults \in [reorgs : Nat, skipped : SUBSET DOMAIN lockLog, late : Nat,
                       relocked : Nat, unlocks : Nat, freed : Nat, deleted : {0, 1}]
    BY <1>1, BookTypes DEF TypeOK
  <1>3. /\ SumFunction(locked) + faults.freed + faults.relocked = GivenTotal + DoneTotal
        /\ faults.late = 0 /\ faults.freed = 0
             => \A a \in Accounts : locked[a] = GivenBy(a) + DoneFor(a)
    BY DEF BookInv
  <1>4. ASSUME NEW a \in Accounts, NEW v \in Amounts, NEW b \in BOOLEAN, Lock(a, v, b)
        PROVE  BookInv'
    <2>1. /\ GivenTotal' = GivenTotal + v
          /\ \A x : GivenBy(x)' = GivenBy(x) + (IF x = a THEN v ELSE 0)
      BY <1>4, LockAdds
    <2>2. locked' = [locked EXCEPT ![a] = @ + v] /\ faults' = faults /\ btx' = btx /\ Done' = Done
      BY <1>4 DEF Lock, db, Done
    <2>3. DoneTotal' = DoneTotal /\ \A x : DoneFor(x)' = DoneFor(x)
      BY <2>2, DoneSame
    <2>4. v \in Int
      <3>1. v \in Nat \ {0}
        BY Zenon DEF BridgeAssumption
      <3> QED
        BY <3>1
    <2>5. SumFunction(locked') = SumFunction(locked) + v
      <3>1. /\ DOMAIN locked' = DOMAIN locked /\ DOMAIN locked = Accounts
            /\ \A x \in Accounts : locked[x] \in Int
            /\ locked'[a] = locked[a] + v /\ \A x \in DOMAIN locked \ {a} : locked'[x] = locked[x]
        BY <1>1, <2>2
      <3> QED
        BY <1>1, <2>4, <3>1, TotalChange
    <2>6. \A x \in Accounts : locked'[x] = locked[x] + (IF x = a THEN v ELSE 0) /\ locked[x] \in Int
      BY <1>1, <2>2, <2>4
    <2> QED
      BY <1>2, <1>3, <2>1, <2>2, <2>3, <2>4, <2>5, <2>6 DEF BookInv
  <1>5. ASSUME NEW a \in Accounts, NEW v \in Amounts, ForceUnlock(a, v)
        PROVE  BookInv'
    <2>1. /\ locked' = [locked EXCEPT ![a] = @ - v] /\ lockLog' = lockLog /\ btx' = btx
          /\ faults' = [faults EXCEPT !.unlocks = @ + 1, !.freed = @ + v]
      BY <1>5 DEF ForceUnlock, db
    <2>2. v \in Int /\ v > 0 /\ 0 - v \in Int
      <3>1. v \in Nat \ {0}
        BY DEF BridgeAssumption
      <3> QED
        BY <3>1
    <2>3. faults'.freed = faults.freed + v /\ faults'.relocked = faults.relocked
      BY <1>2, <2>1
    <2>4. SumFunction(locked') = SumFunction(locked) + (0 - v)
      <3>1. /\ DOMAIN locked' = DOMAIN locked /\ DOMAIN locked = Accounts
            /\ \A x \in Accounts : locked[x] \in Int
            /\ locked'[a] = locked[a] + (0 - v) /\ \A x \in DOMAIN locked \ {a} : locked'[x] = locked[x]
        BY <1>1, <2>1, <2>2
      <3> QED
        BY <1>1, <2>2, <3>1, TotalChange
    <2>5. GivenTotal' = GivenTotal /\ DoneTotal' = DoneTotal
      BY <2>1 DEF GivenTotal, DoneTotal, Done
    <2> QED
      BY <1>2, <1>3, <2>2, <2>3, <2>4, <2>5 DEF BookInv
  <1>6. ASSUME NEW j \in DOMAIN btx, Covered(j),
               locked' = Moved(locked, btx[j].from, btx[j].to, btx[j].value)
        PROVE  /\ SumFunction(locked') = SumFunction(locked) + Change(btx[j])
               /\ \A a \in Accounts : locked'[a] = locked[a] + Gain(a, btx[j])
    <2>1. btx[j].value \in Int
      BY BtxMoves
    <2>2. SumFunction(locked') = SumFunction(locked) + Change(btx[j])
      BY <1>1, <1>6, <2>1, MovedSum
    <2>3. \A a \in Accounts : locked'[a] = locked[a] + Gain(a, btx[j])
      BY <1>1, <1>6, <2>1 DEF Moved, Gain
    <2> QED
      BY <2>2, <2>3
  <1>7. ASSUME UNCHANGED lockLog
        PROVE  GivenTotal' = GivenTotal /\ \A a : GivenBy(a)' = GivenBy(a)
    BY <1>7 DEF GivenTotal, GivenBy, Given
  <1>8. ASSUME NEW j \in DOMAIN btx, Execute(j), Covered(j)
        PROVE  BookInv'
    <2>1. /\ j \in todo /\ locked' = Moved(locked, btx[j].from, btx[j].to, btx[j].value)
          /\ btx' = [btx EXCEPT ![j].status = "SUCCEEDED"] /\ lockLog' = lockLog /\ faults' = faults
      BY <1>8 DEF Execute
    <2>2. btx[j].status = "PENDING" /\ btx[j] \in BtxRow
      BY <1>1, <2>1, Ranges DEF TodoInv
    <2>3. btx'[j] = [btx[j] EXCEPT !.status = "SUCCEEDED"] /\ j \notin Done
      BY <2>1, <2>2 DEF Done
    <2>4. btx'[j].status = "SUCCEEDED"
      BY <2>2, <2>3 DEF BtxRow
    <2>5. \A i \in DOMAIN btx \ {j} : btx'[i] = btx[i]
      BY <2>1
    <2>6. Done' = Done \cup {j}
      <3>1. DOMAIN btx' = DOMAIN btx
        BY <2>1
      <3> QED
        BY <2>4, <2>5, <3>1 DEF Done
    <2>7. /\ DoneTotal' = DoneTotal + Change(btx[j])
          /\ \A a : DoneFor(a)' = DoneFor(a) + Gain(a, btx[j])
      <3>1. \A i \in Done : btx'[i] = btx[i]
        BY <2>3, <2>5 DEF Done
      <3> QED
        BY <2>3, <2>6, <3>1, DoneAdds
    <2>8. /\ SumFunction(locked') = SumFunction(locked) + Change(btx[j])
          /\ \A a \in Accounts : locked'[a] = locked[a] + Gain(a, btx[j])
      BY <1>6, <1>8, <2>1
    <2>9. /\ Change(btx[j]) \in Int /\ \A a : Gain(a, btx[j]) \in Int
          /\ \A a \in Accounts : locked[a] \in Int
      BY <1>1, BtxMoves
    <2> QED
      BY <1>2, <1>3, <1>7, <2>1, <2>7, <2>8, <2>9 DEF BookInv
  <1>9. ASSUME UNCHANGED <<lockLog, locked>>, Done' = Done, \A j \in Done : btx'[j] = btx[j],
               faults'.freed = faults.freed, faults'.relocked = faults.relocked,
               faults'.late = faults.late
        PROVE  BookInv'
    <2>1. DoneTotal' = DoneTotal /\ \A a : DoneFor(a)' = DoneFor(a)
      BY <1>9, DoneSame
    <2> QED
      BY <1>3, <1>7, <1>9, <2>1 DEF BookInv
  <1>10. ASSUME NEW j \in DOMAIN btx, Execute(j), ~Covered(j)
         PROVE  BookInv'
    <2>1. /\ j \in todo /\ locked' = locked /\ lockLog' = lockLog /\ faults' = faults
          /\ btx' = [btx EXCEPT ![j].status = "FAILED"]
      BY <1>10 DEF Execute
    <2>2. btx[j].status = "PENDING" /\ btx[j] \in BtxRow /\ j \notin Done
      BY <1>1, <2>1, Ranges DEF TodoInv, Done
    <2>3. btx'[j].status = "FAILED" /\ \A i \in DOMAIN btx \ {j} : btx'[i] = btx[i]
      BY <2>1, <2>2 DEF BtxRow
    <2>4. Done' = Done /\ \A i \in Done : btx'[i] = btx[i]
      <3>1. DOMAIN btx' = DOMAIN btx
        BY <2>1
      <3> QED
        BY <2>2, <2>3, <3>1 DEF Done
    <2> QED
      BY <1>9, <2>1, <2>4
  <1>11. ASSUME NEW j \in DOMAIN btx, ExecuteLate(j)
         PROVE  BookInv'
    <2> DEFINE again == IF btx[j].type = "unlock" THEN btx[j].value ELSE 0
    <2>1. /\ Covered(j) /\ locked' = Moved(locked, btx[j].from, btx[j].to, btx[j].value)
          /\ btx' = btx /\ lockLog' = lockLog
          /\ faults' = [faults EXCEPT !.late = @ + 1, !.relocked = @ + again]
      BY <1>11 DEF ExecuteLate, db
    <2>2. again \in Nat /\ Change(btx[j]) = 0 - again
      BY BtxMoves
    <2>3. SumFunction(locked') = SumFunction(locked) + Change(btx[j])
      BY <1>6, <2>1
    <2>4. GivenTotal' = GivenTotal /\ DoneTotal' = DoneTotal
      BY <2>1 DEF GivenTotal, DoneTotal, Done
    <2> HIDE DEF again
    <2>5. /\ faults'.late = faults.late + 1 /\ faults'.relocked = faults.relocked + again
          /\ faults'.freed = faults.freed
      BY <1>2, <2>1
    <2> QED
      BY <1>2, <1>3, <2>2, <2>3, <2>4, <2>5 DEF BookInv
  <1>12. ASSUME EthToIbet PROVE BookInv'
    <2>1. UNCHANGED <<lockLog, locked, faults>>
      BY <1>12 DEF EthToIbet, chains
    <2>2. PICK upto \in synced.eth..final :
           \E new \in SUBSET ((synced.eth + 1)..upto) :
             /\ synced' = [synced EXCEPT !.eth = upto]
             /\ DOMAIN btx' = DOMAIN btx \cup ({synced.eth} \X new)
             /\ \A j \in DOMAIN btx : btx'[j] = btx[j]
             /\ \A k \in new :
                   /\ <<synced.eth, k>> \notin DOMAIN btx
                   /\ btx'[<<synced.eth, k>>] \in BtxRow
                   /\ btx'[<<synced.eth, k>>].src = k
                   /\ btx'[<<synced.eth, k>>].status = "PENDING"
                   /\ eth[k].type \in IF btx'[<<synced.eth, k>>].type = "unlock"
                                       THEN {"burn", "force_burn"} ELSE {"transfer"}
                   /\ btx'[<<synced.eth, k>>].value = wst[eth[k].row].value
                   /\ btx'[<<synced.eth, k>>].from = wst[eth[k].row].from
                   /\ btx'[<<synced.eth, k>>].to = wst[eth[k].row].to
             /\ \A k \in (synced.eth + 1)..upto :
                   watched /\ eth[k].type \in Moves => k \in new
             /\ btx' \in [DOMAIN btx' -> BtxRow]
      <3>1. TypeOK /\ RowInv /\ ChainInv /\ UnlockInv
        BY DEF IInv
      <3> QED
        BY <1>12, <3>1, EthToIbetEffect
    <2>3. PICK new \in SUBSET ((synced.eth + 1)..upto) :
             /\ DOMAIN btx' = DOMAIN btx \cup ({synced.eth} \X new)
             /\ \A j \in DOMAIN btx : btx'[j] = btx[j]
             /\ \A k \in new : btx'[<<synced.eth, k>>].status = "PENDING"
      BY <2>2
    <2>4. Done' = Done
      <3>1. ASSUME NEW j \in DOMAIN btx', j \notin DOMAIN btx
            PROVE  \E k \in new : j = <<synced.eth, k>>
        <4> DEFINE S == {synced.eth}
        <4>1. j \in S \X new
          BY <2>3, <3>1
        <4> HIDE DEF S
        <4>2. j = <<j[1], j[2]>> /\ j[1] \in S /\ j[2] \in new
          BY <4>1
        <4> QED
          BY <4>2 DEF S
      <3>2. \A j \in DOMAIN btx' : j \in DOMAIN btx \/ btx'[j].status = "PENDING"
        BY <2>3, <3>1
      <3> QED
        BY <2>3, <3>2 DEF Done
    <2>5. \A j \in Done : btx'[j] = btx[j]
      BY <2>3 DEF Done
    <2> QED
      BY <1>9, <2>1, <2>4, <2>5
  <1>13. ASSUME UNCHANGED <<lockLog, locked, btx>>,
                faults'.freed = faults.freed, faults'.relocked = faults.relocked,
                faults'.late = faults.late
         PROVE  BookInv'
    BY <1>9, <1>13 DEF Done
  <1>14. ASSUME \/ Reorg \/ DeleteAccount \/ IbetToEth
                \/ UNCHANGED faults
         PROVE  /\ faults'.freed = faults.freed /\ faults'.relocked = faults.relocked
                /\ faults'.late = faults.late
    <2>1. CASE Reorg
      BY <1>2, <2>1 DEF Reorg
    <2>2. CASE DeleteAccount
      BY <1>2, <2>2 DEF DeleteAccount
    <2>3. CASE IbetToEth
      BY <1>2, <2>3 DEF IbetToEth
    <2> QED
      BY <1>14, <2>1, <2>2, <2>3
  <1>15. ASSUME \/ DeleteAccount \/ Deploy \/ (\E i \in DOMAIN wst : Mine(i) \/ FinalizeRow(i))
                \/ Reorg \/ Finalize \/ LoadList \/ IbetToEth \/ AbortPass \/ Restart
                \/ SelectPending \/ EndPass \/ UNCHANGED vars
                \/ (\E a \in Accounts, v \in Amounts : UserRequest(a, v))
         PROVE  BookInv'
    <2>1. UNCHANGED <<lockLog, locked, btx>>
      BY <1>15
      DEF vars, chains, db, UserRequest, RequestTransfer, RequestBurn, RequestForceBurn, Request,
          DeleteAccount, Deploy, Mine, FinalizeRow, Reorg, Finalize, LoadList, IbetToEth,
          AbortPass, Restart, SelectPending, EndPass
    <2>2. Reorg \/ DeleteAccount \/ IbetToEth \/ UNCHANGED faults
      BY <1>15
      DEF vars, UserRequest, RequestTransfer, RequestBurn, RequestForceBurn, Request,
          Deploy, Mine, FinalizeRow, Finalize, LoadList, AbortPass, Restart, SelectPending, EndPass
    <2> QED
      BY <1>13, <1>14, <2>1, <2>2
  <1> HIDE DEF BookInv
  <1> QED
    BY <1>4, <1>5, <1>8, <1>10, <1>11, <1>12, <1>15 DEF Next, Users, UserRequest

LEMMA MoneyInitially ==
    ASSUME BridgeAssumption, Init
    PROVE  BlockInv /\ BookInv
  <1>1. /\ DOMAIN eth = {} /\ DOMAIN lockLog = {} /\ DOMAIN btx = {} /\ Done = {}
        /\ locked = NoBalance /\ faults.freed = 0 /\ faults.relocked = 0
    BY DEF Init, Done
  <1>2. GivenTotal = 0 /\ DoneTotal = 0 /\ \A a : GivenBy(a) = 0 /\ DoneFor(a) = 0
    BY <1>1, TotalEmpty DEF GivenTotal, DoneTotal, GivenBy, DoneFor
  <1>3. SumFunction(locked) = 0
    <2>1. DOMAIN locked = Accounts /\ \A a \in Accounts : locked[a] = 0
      BY <1>1 DEF NoBalance
    <2>2. SumFunctionOnSet(locked, Accounts) = 0
      BY <2>1, SumZero DEF BridgeAssumption
    <2> QED
      BY <2>1, <2>2 DEF SumFunction
  <1>4. BlockInv
    BY <1>1 DEF BlockInv
  <1>5. BookInv
    BY <1>1, <1>2, <1>3 DEF BookInv, NoBalance
  <1> QED
    BY <1>4, <1>5

\* What is held and what is locked, in every state.
MoneyInv == IInv /\ BlockInv /\ BookInv

LEMMA MoneyNext ==
    ASSUME BridgeAssumption, MoneyInv, [Next]_vars
    PROVE  MoneyInv'
  BY Preserved, BlockNext, BookNext DEF MoneyInv

LEMMA Money ==
    ASSUME BridgeAssumption
    PROVE  Spec => []MoneyInv
  <1>1. Init => MoneyInv
    BY Initially, MoneyInitially DEF MoneyInv
  <1>2. MoneyInv /\ [Next]_vars => MoneyInv'
    BY MoneyNext
  <1> QED
    BY <1>1, <1>2, PTL DEF Spec

\* What block n brings to all accounts together.
Brought(n) == IF eth[n].type = "reverted" THEN 0 ELSE Change(wst[eth[n].row])

\* What a block brings is an integer: a mint adds its amount, a burn takes it, and
\* nothing else changes the supply.
LEMMA BlockBrings ==
    ASSUME BridgeAssumption, IInv, NEW k \in DOMAIN eth
    PROVE  /\ wst[eth[k].row].value \in Nat /\ Brought(k) \in Int
           /\ \A a : Came(a, k) \in Int
           /\ eth[k].type = "mint" => Brought(k) = wst[eth[k].row].value
           /\ eth[k].type # "mint" => Brought(k) <= 0
           /\ eth[k].type \in {"burn", "force_burn"} => Brought(k) = 0 - wst[eth[k].row].value
           /\ eth[k].type = "transfer" => Brought(k) = 0
  <1> DEFINE r == wst[eth[k].row]
  <1>1. TypeOK /\ RowInv /\ ChainInv
    BY DEF IInv
  <1>2. eth[k].row \in DOMAIN wst /\ eth[k].type \in {"mint", "transfer", "burn", "force_burn", "reverted"}
    BY <1>1, Ranges DEF Event
  <1>3. r.value \in Nat /\ r.type \in {"mint", "transfer", "burn", "force_burn"}
    BY <1>1, <1>2, Ranges DEF WstRow, BridgeAssumption
  <1>4. eth[k].type \in {"reverted", r.type}
    BY <1>1 DEF ChainInv
  <1>5. /\ r.type = "mint" => r.from = Zero /\ r.to \in Accounts
        /\ r.type = "transfer" => r.from \in Accounts /\ r.to \in Accounts
        /\ r.type \in {"burn", "force_burn"} => r.from \in Accounts /\ r.to = Zero
    <2>1. ASSUME r.type = "mint" PROVE r.from = Zero /\ r.to \in Accounts
      <3>1. eth[k].row \in MintRows
        BY <1>2, <2>1 DEF MintRows
      <3>2. /\ r.from = Zero /\ r.to = lockLog[r.src].account /\ r.src \in 1..Len(lockLog)
        BY <1>1, <3>1, Ranges DEF RowInv
      <3> QED
        BY <1>1, <3>2, Ranges DEF LockEvent
    <2>2. ASSUME r.type # "mint"
          PROVE  /\ r.from \in Accounts
                 /\ r.type # "transfer" => r.to = Zero
                 /\ r.type = "transfer" => r.to \in Accounts
      BY <1>1, <1>2, <2>2 DEF RowInv, MintRows
    <2> QED
      BY <2>1, <2>2
  <1>6. Zero \notin Accounts
    BY DEF BridgeAssumption
  <1> HIDE DEF r
  <1>7. /\ Change(r) \in Int /\ \A a : Gain(a, r) \in Int
        /\ Change(r) = IF r.type = "mint" THEN r.value
                       ELSE IF r.type = "transfer" THEN 0 ELSE 0 - r.value
    BY <1>3, <1>5, <1>6 DEF Change, Gain
  <1>8. /\ Brought(k) = IF eth[k].type = "reverted" THEN 0 ELSE Change(r)
        /\ \A a : Came(a, k) = IF eth[k].type = "reverted" THEN 0 ELSE Gain(a, r)
    BY DEF Brought, Came, r
  <1> QED
    BY <1>2, <1>3, <1>4, <1>7, <1>8 DEF r

\* An account holds what the blocks so far have brought to it.
LEMMA Holdings ==
    ASSUME BridgeAssumption, IInv, BlockInv, NEW n \in 0..Len(eth), NEW a \in Accounts
    PROVE  Held(a, n) = SumFunctionOnSet([k \in 1..n |-> Came(a, k)], 1..n)
  <1> DEFINE h == [k \in 0..n |-> Held(a, k)]
             d == [k \in 1..n |-> Came(a, k)]
  <1>1. Len(eth) \in Nat /\ DOMAIN eth = 1..Len(eth)
    BY Ranges DEF IInv
  <1>2. n \in Nat /\ 1..n \subseteq DOMAIN eth
    BY <1>1
  <1>3. h[0] = 0 /\ h[n] = Held(a, n)
    BY <1>2 DEF Held
  <1>4. ASSUME NEW k \in 1..n PROVE d[k] \in Int /\ h[k] = h[k - 1] + d[k]
    <2>1. Came(a, k) \in Int /\ Held(a, k) = Held(a, k - 1) + Came(a, k)
      BY <1>2, BlockBrings DEF BlockInv
    <2>2. k \in 0..n /\ k - 1 \in 0..n
      BY <1>2
    <2> QED
      BY <2>1, <2>2
  <1> HIDE DEF h, d
  <1>5. h[n] = SumFunctionOnSet(d, 1..n)
    BY <1>2, <1>3, <1>4, RunningTotal
  <1> QED
    BY <1>3, <1>5 DEF d

\* The supply of Ethereum is what its blocks have brought.
LEMMA Supply ==
    ASSUME BridgeAssumption, IInv, BlockInv
    PROVE  SumFunction([a \in Accounts |-> Balance(a)])
             = SumFunctionOnSet([k \in 1..Len(eth) |-> Brought(k)], 1..Len(eth))
  <1> DEFINE holds(k) == [a \in Accounts |-> Held(a, k)]
             n == Len(eth)
             h == [k \in 0..n |-> SumFunction(holds(k))]
             d == [k \in 1..n |-> Brought(k)]
  <1>1. TypeOK /\ n \in Nat /\ DOMAIN eth = 1..n /\ IsFiniteSet(Accounts)
    BY Ranges DEF IInv, BridgeAssumption
  <1>2. \A k \in 0..n : holds(k) \in [Accounts -> Int]
    BY <1>1, Ranges DEF Held, Event
  <1>3. holds(n) = [a \in Accounts |-> Balance(a)]
    <2>1. eth = <<>> <=> n = 0
      BY <1>1, Ranges, EmptySeq
    <2> QED
      BY <2>1 DEF Held, Balance
  <1>4. h[0] = 0 /\ h[n] = SumFunction(holds(n))
    <2>1. \A a \in Accounts : holds(0)[a] = 0
      BY DEF Held
    <2>2. DOMAIN holds(0) = Accounts
      OBVIOUS
    <2>3. SumFunction(holds(0)) = 0
      <3> HIDE DEF holds
      <3>1. SumFunctionOnSet(holds(0), Accounts) = 0
        BY <1>1, <2>1, SumZero
      <3> QED
        BY <2>2, <3>1 DEF SumFunction
    <2> HIDE DEF holds
    <2> QED
      BY <1>1, <2>3
  <1>5. ASSUME NEW k \in 1..n PROVE d[k] \in Int /\ h[k] = h[k - 1] + d[k]
    <2> DEFINE r == wst[eth[k].row]
    <2>1. k \in DOMAIN eth /\ k \in 0..n /\ k - 1 \in 0..n
      BY <1>1
    <2>2. Brought(k) \in Int /\ r.value \in Int
      BY <2>1, BlockBrings
    <2>3. \A a \in Accounts : Held(a, k) = Held(a, k - 1) + Came(a, k) /\ Held(a, k - 1) \in Int
      BY <1>2, <2>1 DEF BlockInv
    <2>4. SumFunction(holds(k)) = SumFunction(holds(k - 1)) + Brought(k)
      <3>1. CASE eth[k].type = "reverted"
        <4>1. holds(k) = holds(k - 1)
          BY <2>3, <3>1 DEF Came
        <4>2. SumFunction(holds(k - 1)) \in Int
          <5>1. DOMAIN holds(k - 1) = Accounts /\ \A a \in Accounts : holds(k - 1)[a] \in Int
            BY <2>3
          <5> HIDE DEF holds
          <5> QED
            BY <1>1, <5>1, TotalType
        <4> HIDE DEF holds
        <4> QED
          BY <3>1, <4>1, <4>2 DEF Brought
      <3>2. CASE eth[k].type # "reverted"
        <4>1. holds(k) = Moved(holds(k - 1), r.from, r.to, r.value)
          BY <2>2, <2>3, <3>2 DEF Came, Gain, Moved
        <4>2. holds(k - 1) \in [Accounts -> Int]
          BY <1>2, <2>1
        <4> HIDE DEF holds, r
        <4>3. SumFunction(holds(k)) = SumFunction(holds(k - 1)) + Change(r)
          BY <1>1, <2>2, <4>1, <4>2, MovedSum
        <4> QED
          BY <3>2, <4>3 DEF Brought, r
      <3> QED
        BY <3>1, <3>2
    <2> HIDE DEF holds
    <2> QED
      BY <2>1, <2>2, <2>4
  <1> HIDE DEF h, d, holds, n
  <1>6. h[n] = SumFunctionOnSet(d, 1..n)
    BY <1>1, <1>4, <1>5, RunningTotal
  <1> QED
    BY <1>3, <1>4, <1>6 DEF d, n

\* The sums of both chains, compared lock by lock and burn by burn.
LEMMA Covers ==
    ASSUME BridgeAssumption, MoneyInv
    PROVE  Backed
  <1> DEFINE n == Len(eth)
             B == [k \in 1..n |-> Brought(k)]
             V == [i \in DOMAIN wst |-> wst[i].value]
             G == [k \in DOMAIN lockLog |-> lockLog[k].value]
             D == [j \in Done |-> Change(btx[j])]
             Coming == {k \in 1..n : eth[k].type = "mint"}
             Going == {k \in 1..n : eth[k].type # "mint"}
             Mined == {i \in MintRows : \E k \in 1..n : eth[k].row = i}
  <1>1. /\ IInv /\ TypeOK /\ RowInv /\ ChainInv /\ UnlockInv /\ BlockInv /\ BookInv
    BY DEF MoneyInv, IInv
  <1>2. /\ n \in Nat /\ DOMAIN eth = 1..n /\ final <= n /\ synced.eth <= final
        /\ synced.eth \in Nat /\ final \in Nat
        /\ Len(lockLog) \in Nat /\ DOMAIN lockLog = 1..Len(lockLog)
        /\ \A k \in 1..n : eth[k].row \in DOMAIN wst
        /\ synced.ibet \in Nat /\ synced.ibet <= Len(lockLog)
    BY <1>1, Ranges DEF Event
  <1>3. /\ IsFiniteSet(1..n) /\ IsFiniteSet(Done) /\ IsFiniteSet(DOMAIN lockLog)
        /\ IsFiniteSet(DOMAIN wst)
    BY <1>1, <1>2, DoneFinite, FS_Interval
  <1>4. /\ IsFiniteSet(Coming) /\ IsFiniteSet(Going)
        /\ IsFiniteSet(Mined) /\ IsFiniteSet(Unmined) /\ IsFiniteSet(MintRows)
    <2>1. /\ Coming \subseteq 1..n /\ Going \subseteq 1..n /\ Mined \subseteq DOMAIN wst
          /\ Unmined \subseteq DOMAIN wst /\ MintRows \subseteq DOMAIN wst
      BY DEF Unmined, MintRows
    <2> HIDE DEF Coming, Going, Mined, n
    <2> QED
      BY <1>3, <2>1, FS_Subset
  <1>5. /\ \A i \in DOMAIN wst : V[i] \in Nat
        /\ \A k \in DOMAIN lockLog : G[k] \in Nat
        /\ \A k \in 1..n : B[k] \in Int
        /\ \A j \in Done : D[j] \in Int
    <2>1. \A i \in DOMAIN wst : wst[i].value \in Nat
      BY <1>1, Ranges DEF WstRow, BridgeAssumption
    <2>2. \A k \in DOMAIN lockLog : lockLog[k].value \in Nat
      BY <1>1, <1>2, Ranges DEF LockEvent, BridgeAssumption
    <2>3. \A k \in 1..n : Brought(k) \in Int
      BY <1>1, <1>2, BlockBrings
    <2>4. \A j \in Done : Change(btx[j]) \in Int
      BY <1>1, BtxMoves DEF Done
    <2> QED
      BY <2>1, <2>2, <2>3, <2>4
  \* The supply, by blocks that mint and others.
  <1>6. SumFunctionOnSet(B, 1..n) = SumFunctionOnSet(B, Coming) + SumFunctionOnSet(B, Going)
    <2>1. 1..n = Coming \cup Going /\ Coming \cap Going = {}
      OBVIOUS
    <2>2. \A k \in Coming \cup Going : B[k] \in Int
      BY <1>5, <2>1
    <2> HIDE DEF Coming, Going, n, B
    <2>3. SumFunctionOnSet(B, Coming \cup Going)
            = SumFunctionOnSet(B, Coming) + SumFunctionOnSet(B, Going)
      BY <1>4, <2>1, <2>2, SumSplit
    <2> QED
      BY <2>1, <2>3
  <1>7. SumFunctionOnSet(B, Coming) = SumFunctionOnSet(V, Mined)
    <2> DEFINE row == [k \in Coming |-> eth[k].row]
    <2>1. ASSUME NEW k \in Coming
          PROVE  row[k] \in Mined /\ B[k] = V[row[k]] /\ B[k] \in Int
      <3>1. eth[k].row \in MintRows
        <4>1. eth[k].type \in {"reverted", wst[eth[k].row].type}
          BY <1>1, <1>2 DEF ChainInv
        <4> QED
          BY <1>2, <4>1 DEF MintRows
      <3>2. Brought(k) = wst[eth[k].row].value
        BY <1>1, <1>2, BlockBrings
      <3> QED
        BY <1>2, <1>5, <3>1, <3>2
    <2>2. \A k, l \in Coming : row[k] = row[l] => k = l
      BY <1>1, <1>2 DEF BlockInv
    <2>3. ASSUME NEW i \in Mined PROVE \E k \in Coming : row[k] = i
      <3>1. PICK k \in 1..n : eth[k].row = i
        OBVIOUS
      <3>2. eth[k].type = "mint"
        BY <1>1, <1>2, <3>1 DEF BlockInv, MintRows
      <3> QED
        BY <3>1, <3>2
    <2> HIDE DEF row, Coming, Mined, B, V
    <2>4. /\ \A k \in Coming : row[k] \in Mined /\ B[k] = V[row[k]] /\ B[k] \in Int
          /\ \A i \in Mined : \E k \in Coming : row[k] = i
      BY <2>1, <2>3
    <2>5. IsFiniteSet(Coming) /\ IsFiniteSet(Mined)
      BY <1>4
    <2> QED
      BY <2>2, <2>4, <2>5, SumRename
  \* Rows that mint, by those on Ethereum and others.
  <1>8. SumFunctionOnSet(V, MintRows) = SumFunctionOnSet(V, Mined) + SumFunctionOnSet(V, Unmined)
    <2>1. MintRows = Mined \cup Unmined /\ Mined \cap Unmined = {}
      BY <1>2 DEF MintRows, Unmined
    <2>2. \A i \in Mined \cup Unmined : V[i] \in Int
      BY <1>5, <2>1 DEF MintRows
    <2> HIDE DEF Mined, V
    <2>3. SumFunctionOnSet(V, Mined \cup Unmined)
            = SumFunctionOnSet(V, Mined) + SumFunctionOnSet(V, Unmined)
      BY <1>4, <2>1, <2>2, SumSplit
    <2> QED
      BY <2>1, <2>3
  \* Each has a lock of its own.
  <1>9. SumFunctionOnSet(V, MintRows) <= SumFunctionOnSet(G, DOMAIN lockLog)
    <2> DEFINE src == [i \in MintRows |-> wst[i].src]
               rest == {k \in DOMAIN lockLog : \A i \in MintRows : src[i] # k}
    <2>1. ASSUME NEW i \in MintRows PROVE src[i] \in DOMAIN lockLog /\ V[i] = G[src[i]]
      <3>1. wst[i].src \in 1..synced.ibet /\ wst[i].value = lockLog[wst[i].src].value
        BY <1>1 DEF RowInv
      <3>2. wst[i].src \in DOMAIN lockLog /\ i \in DOMAIN wst
        BY <1>2, <3>1 DEF MintRows
      <3> QED
        BY <3>1, <3>2
    <2>2. \A i, j \in MintRows : src[i] = src[j] => i = j
      BY <1>1 DEF RowInv
    <2>3. \A k \in DOMAIN lockLog : G[k] \in Int
      BY <1>5
    <2>4. SumFunctionOnSet(G, DOMAIN lockLog) = SumFunctionOnSet(V, MintRows) + SumFunctionOnSet(G, rest)
      <3>1. \A i \in MintRows : src[i] \in DOMAIN lockLog /\ V[i] = G[src[i]]
        BY <2>1
      <3>2. rest = {k \in DOMAIN lockLog : \A i \in MintRows : src[i] # k}
        OBVIOUS
      <3>3. IsFiniteSet(MintRows) /\ IsFiniteSet(DOMAIN lockLog)
        BY <1>3, <1>4
      <3> HIDE DEF src, V, G, rest
      <3> QED
        BY <2>2, <2>3, <3>1, <3>2, <3>3, SumInto
    <2>5. IsFiniteSet(rest) /\ \A k \in rest : G[k] \in Nat
      BY <1>3, <1>5, FS_Subset
    <2>6. \A i \in MintRows : V[i] \in Nat
      BY <1>5 DEF MintRows
    <2> HIDE DEF src, V, G, rest
    <2>7. SumFunctionOnSet(G, rest) \in Nat /\ SumFunctionOnSet(V, MintRows) \in Nat
      BY <1>4, <2>5, <2>6, SumType
    <2> QED
      BY <2>4, <2>7
  \* Each unlocking has a burn of its own.
  <1>10. SumFunctionOnSet(B, Going) <= SumFunctionOnSet(D, Done)
    <2> DEFINE src == [j \in Done |-> btx[j].src]
               rest == {k \in Going : \A j \in Done : src[j] # k}
    <2>1. ASSUME NEW j \in Done PROVE src[j] \in Going /\ D[j] = B[src[j]]
      <3> DEFINE k == btx[j].src
      <3>1. /\ j \in DOMAIN btx /\ k \in 1..synced.eth
            /\ eth[k].type \in IF btx[j].type = "unlock" THEN {"burn", "force_burn"} ELSE {"transfer"}
            /\ btx[j].value = wst[eth[k].row].value
        BY <1>1 DEF UnlockInv, Done
      <3>2. k \in 1..n /\ k \in Going
        BY <1>2, <3>1
      <3>3. Change(btx[j]) = IF btx[j].type = "unlock" THEN 0 - btx[j].value ELSE 0
        BY <1>1, <3>1, BtxMoves
      <3>4. /\ eth[k].type \in {"burn", "force_burn"} => Brought(k) = 0 - wst[eth[k].row].value
            /\ eth[k].type = "transfer" => Brought(k) = 0
        BY <1>1, <1>2, <3>2, BlockBrings
      <3>5. Change(btx[j]) = Brought(k)
        <4> HIDE DEF k
        <4> QED
          BY <3>1, <3>3, <3>4
      <3> QED
        BY <3>2, <3>5
    <2>2. \A i, j \in Done : src[i] = src[j] => i = j
      BY <1>1 DEF UnlockInv, Done
    <2>3. \A k \in Going : B[k] \in Int
      BY <1>5
    <2>4. SumFunctionOnSet(B, Going) = SumFunctionOnSet(D, Done) + SumFunctionOnSet(B, rest)
      <3>1. \A j \in Done : src[j] \in Going /\ D[j] = B[src[j]]
        BY <2>1
      <3>2. rest = {k \in Going : \A j \in Done : src[j] # k}
        OBVIOUS
      <3>3. IsFiniteSet(Done) /\ IsFiniteSet(Going)
        BY <1>3, <1>4
      <3> HIDE DEF src, B, D, Going, rest
      <3> QED
        BY <2>2, <2>3, <3>1, <3>2, <3>3, SumInto
    <2>5. IsFiniteSet(rest) /\ \A k \in rest : B[k] \in Int /\ B[k] <= 0
      <3>1. IsFiniteSet(rest)
        <4>1. rest \subseteq Going
          OBVIOUS
        <4> HIDE DEF rest, Going
        <4> QED
          BY <1>4, <4>1, FS_Subset
      <3>2. \A k \in Going : Brought(k) <= 0
        BY <1>1, <1>2, BlockBrings
      <3> QED
        BY <1>5, <3>1, <3>2
    <2> HIDE DEF src, B, D, rest, Going
    <2>6. SumFunctionOnSet(B, rest) \in Int /\ SumFunctionOnSet(B, rest) <= 0
      BY <2>5, SumNegative
    <2>7. SumFunctionOnSet(D, Done) \in Int
      <3>1. Int \in {Int, Nat} /\ \A j \in Done : D[j] \in Int
        BY <1>5
      <3> QED
        BY <1>3, <3>1, SumType
    <2> QED
      BY <2>4, <2>6, <2>7
  <1>11. /\ SumFunction([a \in Accounts |-> Balance(a)]) = SumFunctionOnSet(B, 1..n)
         /\ SumFunction([i \in Unmined |-> wst[i].value]) = SumFunctionOnSet(V, Unmined)
         /\ GivenTotal = SumFunctionOnSet(G, DOMAIN lockLog)
         /\ DoneTotal = SumFunctionOnSet(D, Done)
    <2>1. SumFunction([a \in Accounts |-> Balance(a)]) = SumFunctionOnSet(B, 1..n)
      BY <1>1, Supply
    <2>2. SumFunction([i \in Unmined |-> wst[i].value]) = SumFunctionOnSet(V, Unmined)
      <3> DEFINE W == [i \in Unmined |-> wst[i].value]
      <3>1. DOMAIN W = Unmined /\ \A i \in Unmined : W[i] = V[i]
        BY DEF Unmined
      <3> HIDE DEF W, V
      <3>2. SumFunctionOnSet(W, Unmined) = SumFunctionOnSet(V, Unmined)
        BY <1>4, <3>1, SumSame
      <3>3. SumFunction(W) = SumFunctionOnSet(V, Unmined)
        BY <3>1, <3>2 DEF SumFunction
      <3> QED
        BY <3>3 DEF W
    <2>3. GivenTotal = SumFunctionOnSet(G, DOMAIN lockLog)
      BY DEF GivenTotal, SumFunction
    <2>4. DoneTotal = SumFunctionOnSet(D, Done)
      BY DEF DoneTotal, SumFunction
    <2> QED
      BY <2>1, <2>2, <2>3, <2>4
  <1>12. /\ SumFunctionOnSet(V, Mined) \in Int /\ SumFunctionOnSet(V, Unmined) \in Int
         /\ SumFunctionOnSet(B, Going) \in Int
    <2>1. /\ \A i \in Mined : V[i] \in Nat
          /\ \A i \in Unmined : V[i] \in Nat
          /\ \A k \in Going : B[k] \in Int
      BY <1>5 DEF MintRows, Unmined
    <2>2. Int \in {Int, Nat} /\ Nat \in {Int, Nat}
      OBVIOUS
    <2> HIDE DEF V, B, Mined, Going
    <2>3. SumFunctionOnSet(V, Mined) \in Nat
      BY <1>4, <2>1, <2>2, SumType
    <2>4. SumFunctionOnSet(V, Unmined) \in Nat
      BY <1>4, <2>1, <2>2, SumType
    <2>5. SumFunctionOnSet(B, Going) \in Int
      BY <1>4, <2>1, <2>2, SumType
    <2> QED
      BY <2>3, <2>4, <2>5
  <1>13. /\ SumFunction(locked) + faults.freed + faults.relocked = GivenTotal + DoneTotal
         /\ SumFunction(locked) \in Int /\ GivenTotal \in Int /\ DoneTotal \in Int
         /\ faults.freed \in Nat /\ faults.relocked \in Nat
    BY <1>1, BookTypes DEF BookInv
  <1> HIDE DEF n, B, V, G, D, Coming, Going, Mined
  <1> QED
    BY <1>6, <1>7, <1>8, <1>9, <1>10, <1>11, <1>12, <1>13 DEF Backed

\* What is locked on ibet, with what was unlocked by hand and what was unlocked twice,
\* covers the supply on Ethereum and what is about to be minted: each mint has a lock
\* of its own, each unlocking a final burn of its own, whatever is reorganised, mined
\* late or started again.
THEOREM Backing ==
    ASSUME BridgeAssumption
    PROVE  Spec => []Backed
  <1>1. MoneyInv => Backed
    BY Covers
  <1> QED
    BY <1>1, Money, PTL

\* The sums of one account, compared event by event.
LEMMA Agrees ==
    ASSUME BridgeAssumption, MoneyInv
    PROVE  BooksAgree
  <1> SUFFICES ASSUME \A j \in DOMAIN btx : btx[j].status = "SUCCEEDED",
                      faults.late = 0, faults.freed = 0, faults.deleted = 0,
                      NEW a \in Accounts
               PROVE  locked[a] = Held(a, synced.eth)
                        + SumFunction([k \in NotAcross(a, synced.eth) |-> lockLog[k].value])
    BY DEF BooksAgree, Held
  <1> DEFINE n == synced.eth
             C == [k \in 1..n |-> Came(a, k)]
             D == [j \in DOMAIN btx |-> Gain(a, btx[j])]
             G == [k \in DOMAIN lockLog |-> Given(a, k)]
             Coming == {k \in 1..n : eth[k].type = "mint"}
             Moving == {k \in 1..n : eth[k].type \in Moves}
             Nothing == {k \in 1..n : eth[k].type = "reverted"}
             Across == {l \in DOMAIN lockLog : \E k \in Coming : wst[eth[k].row].src = l}
             Left == {l \in DOMAIN lockLog : l \notin Across}
             Other == {l \in Left : l \notin NotAcross(a, n)}
  <1>1. /\ IInv /\ TypeOK /\ RowInv /\ ChainInv /\ UnlockInv /\ PassedInv /\ BlockInv /\ BookInv
    BY DEF MoneyInv, IInv
  <1>2. /\ n \in Nat /\ n \in 0..Len(eth) /\ 1..n \subseteq DOMAIN eth
        /\ Len(lockLog) \in Nat /\ DOMAIN lockLog = 1..Len(lockLog)
        /\ synced.ibet \in Nat /\ synced.ibet <= Len(lockLog)
        /\ \A k \in 1..n : /\ eth[k].row \in DOMAIN wst
                           /\ eth[k].type \in Moves \cup {"mint", "reverted"}
    BY <1>1, Ranges DEF Event, Moves
  <1>3. \A k \in 1..n : /\ eth[k].type \in {"reverted", wst[eth[k].row].type}
                        /\ Came(a, k) \in Int
    BY <1>1, <1>2, BlockBrings DEF ChainInv
  <1>4. /\ IsFiniteSet(1..n) /\ IsFiniteSet(DOMAIN btx) /\ IsFiniteSet(DOMAIN lockLog)
    <2>1. n \in Int /\ 1 \in Int
      BY <1>2
    <2>2. IsFiniteSet(1..n)
      BY <2>1, FS_Interval
    <2> QED
      BY <1>1, <2>2, DoneFinite
  <1>5. /\ IsFiniteSet(Coming) /\ IsFiniteSet(Moving) /\ IsFiniteSet(Nothing)
        /\ IsFiniteSet(Across) /\ IsFiniteSet(Left) /\ IsFiniteSet(Other)
        /\ IsFiniteSet(NotAcross(a, n))
    <2>1. /\ Coming \subseteq 1..n /\ Moving \subseteq 1..n /\ Nothing \subseteq 1..n
          /\ Across \subseteq DOMAIN lockLog /\ Left \subseteq DOMAIN lockLog
          /\ Other \subseteq DOMAIN lockLog /\ NotAcross(a, n) \subseteq DOMAIN lockLog
      BY DEF NotAcross
    <2> HIDE DEF Coming, Moving, Nothing, Across, Left, Other, n
    <2> QED
      BY <1>4, <2>1, FS_Subset
  <1>6. /\ \A k \in 1..n : C[k] \in Int
        /\ \A j \in DOMAIN btx : D[j] \in Int
        /\ \A l \in DOMAIN lockLog : G[l] \in Int
    <2>1. \A l \in DOMAIN lockLog : Given(a, l) \in Int
      BY <1>1, <1>2, Ranges DEF LockEvent, BridgeAssumption, Given
    <2>2. \A j \in DOMAIN btx : Gain(a, btx[j]) \in Int
      BY <1>1, BtxMoves
    <2> QED
      BY <1>3, <2>1, <2>2
  \* What is held, by what the blocks do.
  <1>7. Held(a, n) = SumFunctionOnSet(C, Coming) + SumFunctionOnSet(C, Moving)
    <2>1. Held(a, n) = SumFunctionOnSet(C, 1..n)
      BY <1>1, <1>2, Holdings
    <2>2. /\ 1..n = (Coming \cup Moving) \cup Nothing
          /\ (Coming \cup Moving) \cap Nothing = {} /\ Coming \cap Moving = {}
      BY <1>2 DEF Moves
    <2>3. \A k \in Nothing : C[k] = 0
      BY DEF Came
    <2>4. /\ \A k \in (Coming \cup Moving) \cup Nothing : C[k] \in Int
          /\ \A k \in Coming \cup Moving : C[k] \in Int
      BY <1>6, <2>2
    <2> HIDE DEF C, Coming, Moving, Nothing, n
    <2>5. IsFiniteSet(Coming \cup Moving)
      BY <1>5, FS_Union
    <2>6. SumFunctionOnSet(C, (Coming \cup Moving) \cup Nothing)
            = SumFunctionOnSet(C, Coming \cup Moving) + SumFunctionOnSet(C, Nothing)
      BY <1>5, <2>2, <2>4, <2>5, SumSplit
    <2>7. SumFunctionOnSet(C, Coming \cup Moving)
            = SumFunctionOnSet(C, Coming) + SumFunctionOnSet(C, Moving)
      BY <1>5, <2>2, <2>4, SumSplit
    <2>8. SumFunctionOnSet(C, Nothing) = 0
      BY <1>5, <2>3, SumZero
    <2>9. SumFunctionOnSet(C, Coming \cup Moving) \in Int
      <3>1. Int \in {Int, Nat}
        OBVIOUS
      <3> QED
        BY <2>4, <2>5, <3>1, SumType
    <2>10. SumFunctionOnSet(C, 1..n) = SumFunctionOnSet(C, (Coming \cup Moving) \cup Nothing)
      BY <2>2
    <2> QED
      BY <2>1, <2>6, <2>7, <2>8, <2>9, <2>10
  \* Burns and transfers are executed on ibet, each by its row.
  <1>8. SumFunctionOnSet(D, DOMAIN btx) = SumFunctionOnSet(C, Moving)
    <2> DEFINE src == [j \in DOMAIN btx |-> btx[j].src]
    <2>1. ASSUME NEW j \in DOMAIN btx
          PROVE  src[j] \in Moving /\ D[j] = C[src[j]] /\ D[j] \in Int
      <3> DEFINE k == btx[j].src
      <3>1. /\ k \in 1..n
            /\ eth[k].type \in IF btx[j].type = "unlock" THEN {"burn", "force_burn"} ELSE {"transfer"}
            /\ btx[j].value = wst[eth[k].row].value
            /\ btx[j].from = wst[eth[k].row].from /\ btx[j].to = wst[eth[k].row].to
        BY <1>1 DEF UnlockInv
      <3>2. eth[k].type # "reverted" /\ eth[k].type \in Moves
        BY <3>1 DEF Moves
      <3>3. Came(a, k) = Gain(a, btx[j])
        BY <3>1, <3>2 DEF Came, Gain
      <3> QED
        BY <1>6, <3>1, <3>2, <3>3
    <2>2. \A i, j \in DOMAIN btx : src[i] = src[j] => i = j
      BY <1>1 DEF UnlockInv
    <2>3. \A k \in Moving : \E j \in DOMAIN btx : src[j] = k
      BY <1>1 DEF PassedInv
    <2>4. \A j \in DOMAIN btx : src[j] \in Moving /\ D[j] = C[src[j]] /\ D[j] \in Int
      BY <2>1
    <2> DEFINE All == DOMAIN btx
    <2>5. /\ IsFiniteSet(Moving) /\ IsFiniteSet(All)
          /\ \A i, j \in All : src[i] = src[j] => i = j
          /\ \A k \in Moving : \E j \in All : src[j] = k
          /\ \A j \in All : src[j] \in Moving /\ D[j] = C[src[j]] /\ D[j] \in Int
      BY <1>4, <1>5, <2>2, <2>3, <2>4
    <2> HIDE DEF src, C, D, Moving, All
    <2>6. SumFunctionOnSet(D, All) = SumFunctionOnSet(C, Moving)
      BY <2>5, SumRename
    <2> QED
      BY <2>6 DEF All
  \* Mints have come from a lock each.
  <1>9. SumFunctionOnSet(C, Coming) = SumFunctionOnSet(G, Across)
    <2> DEFINE src == [k \in Coming |-> wst[eth[k].row].src]
    <2>1. ASSUME NEW k \in Coming
          PROVE  /\ eth[k].row \in MintRows /\ src[k] \in Across
                 /\ C[k] = G[src[k]] /\ C[k] \in Int
      <3> DEFINE r == wst[eth[k].row]
      <3>1. eth[k].row \in MintRows
        BY <1>2, <1>3 DEF MintRows
      <3>2. /\ r.src \in 1..synced.ibet /\ r.from = Zero
            /\ r.to = lockLog[r.src].account /\ r.value = lockLog[r.src].value
        BY <1>1, <3>1 DEF RowInv
      <3>3. r.src \in DOMAIN lockLog
        BY <1>2, <3>2
      <3>4. Came(a, k) = Given(a, r.src)
        <4>1. a # Zero
          BY DEF BridgeAssumption
        <4>2. Came(a, k) = (IF a = r.to THEN r.value ELSE 0) - (IF a = r.from THEN r.value ELSE 0)
          BY DEF Came, Gain
        <4>3. r.value \in Int
          BY <1>1, <1>2, BlockBrings
        <4> HIDE DEF r
        <4> QED
          BY <3>2, <4>1, <4>2, <4>3 DEF Given
      <3> QED
        BY <1>6, <3>1, <3>3, <3>4
    <2>2. ASSUME NEW k \in Coming, NEW l \in Coming, src[k] = src[l] PROVE k = l
      <3>1. eth[k].row \in MintRows /\ eth[l].row \in MintRows
        BY <2>1
      <3>2. eth[k].row = eth[l].row
        BY <1>1, <2>2, <3>1 DEF RowInv
      <3>3. k \in DOMAIN eth /\ l \in DOMAIN eth
        BY <1>2
      <3> QED
        BY <1>1, <3>2, <3>3 DEF BlockInv
    <2>3. /\ \A k \in Coming : src[k] \in Across /\ C[k] = G[src[k]] /\ C[k] \in Int
          /\ \A l \in Across : \E k \in Coming : src[k] = l
          /\ \A k, l \in Coming : src[k] = src[l] => k = l
      BY <2>1, <2>2
    <2>4. IsFiniteSet(Coming) /\ IsFiniteSet(Across)
      BY <1>5
    <2> HIDE DEF src, C, G, Coming, Across
    <2> QED
      BY <2>3, <2>4, SumRename
  \* Of the other locks, those of the account have not come across.
  <1>10. SumFunctionOnSet(G, DOMAIN lockLog)
           = SumFunctionOnSet(G, Across) + SumFunctionOnSet(G, NotAcross(a, n))
    <2>1. \A l \in NotAcross(a, n) : l \in Left
      BY DEF NotAcross
    <2>2. ASSUME NEW l \in Other PROVE G[l] = 0
      <3>1. l \in DOMAIN lockLog /\ l \notin Across /\ l \notin NotAcross(a, n)
        OBVIOUS
      <3>2. ~\E b \in 1..n : eth[b].type = "mint" /\ wst[eth[b].row].src = l
        BY <3>1
      <3>3. lockLog[l].account # a
        BY <3>1, <3>2 DEF NotAcross
      <3> QED
        BY <3>1, <3>3 DEF Given
    <2>3. /\ DOMAIN lockLog = Across \cup Left /\ Across \cap Left = {}
          /\ Left = NotAcross(a, n) \cup Other /\ NotAcross(a, n) \cap Other = {}
      BY <2>1
    <2>4. /\ \A l \in Across \cup Left : G[l] \in Int
          /\ \A l \in NotAcross(a, n) \cup Other : G[l] \in Int
      BY <1>6, <2>3
    <2> HIDE DEF Across, Left, Other, G, n
    <2>5. SumFunctionOnSet(G, Across \cup Left) = SumFunctionOnSet(G, Across) + SumFunctionOnSet(G, Left)
      BY <1>5, <2>3, <2>4, SumSplit
    <2>6. SumFunctionOnSet(G, NotAcross(a, n) \cup Other)
            = SumFunctionOnSet(G, NotAcross(a, n)) + SumFunctionOnSet(G, Other)
      BY <1>5, <2>3, <2>4, SumSplit
    <2>7. SumFunctionOnSet(G, Other) = 0
      BY <1>5, <2>2, SumZero
    <2>8. SumFunctionOnSet(G, NotAcross(a, n)) \in Int
      <3>1. Int \in {Int, Nat} /\ \A l \in NotAcross(a, n) : G[l] \in Int
        BY <2>4
      <3> QED
        BY <1>5, <3>1, SumType
    <2> QED
      BY <2>3, <2>5, <2>6, <2>7, <2>8
  <1>11. SumFunctionOnSet(G, NotAcross(a, n))
           = SumFunction([k \in NotAcross(a, n) |-> lockLog[k].value])
    <2> DEFINE W == [k \in NotAcross(a, n) |-> lockLog[k].value]
    <2>1. DOMAIN W = NotAcross(a, n) /\ \A l \in NotAcross(a, n) : W[l] = G[l]
      BY DEF NotAcross, Given
    <2> HIDE DEF W, G, n
    <2>2. SumFunctionOnSet(W, NotAcross(a, n)) = SumFunctionOnSet(G, NotAcross(a, n))
      BY <1>5, <2>1, SumSame
    <2>3. SumFunction(W) = SumFunctionOnSet(G, NotAcross(a, n))
      BY <2>1, <2>2 DEF SumFunction
    <2> QED
      BY <2>3 DEF W
  <1>12. locked[a] = SumFunctionOnSet(G, DOMAIN lockLog) + SumFunctionOnSet(D, DOMAIN btx)
    <2>1. locked[a] = GivenBy(a) + DoneFor(a)
      BY <1>1 DEF BookInv
    <2>2. Done = DOMAIN btx
      BY DEF Done
    <2>3. GivenBy(a) = SumFunctionOnSet(G, DOMAIN lockLog)
      BY DEF GivenBy, SumFunction
    <2>4. DoneFor(a) = SumFunctionOnSet(D, DOMAIN btx)
      BY <2>2 DEF DoneFor, SumFunction
    <2> QED
      BY <2>1, <2>3, <2>4
  <1>13. /\ SumFunctionOnSet(G, Across) \in Int /\ SumFunctionOnSet(C, Moving) \in Int
         /\ SumFunctionOnSet(G, NotAcross(a, n)) \in Int
    <2>1. /\ \A l \in Across : G[l] \in Int
          /\ \A l \in NotAcross(a, n) : G[l] \in Int
          /\ \A k \in Moving : C[k] \in Int
      BY <1>6 DEF NotAcross
    <2>2. Int \in {Int, Nat}
      OBVIOUS
    <2> HIDE DEF G, C, Across, Moving, n
    <2>3. SumFunctionOnSet(G, Across) \in Int
      BY <1>5, <2>1, <2>2, SumType
    <2>4. SumFunctionOnSet(G, NotAcross(a, n)) \in Int
      BY <1>5, <2>1, <2>2, SumType
    <2>5. SumFunctionOnSet(C, Moving) \in Int
      BY <1>5, <2>1, <2>2, SumType
    <2> QED
      BY <2>3, <2>4, <2>5
  <1>14. /\ locked[a] = SumFunctionOnSet(G, DOMAIN lockLog) + SumFunctionOnSet(D, DOMAIN btx)
         /\ n = synced.eth
    BY <1>12
  <1> HIDE DEF n, C, D, G, Coming, Moving, Nothing, Across, Left, Other
  <1> QED
    BY <1>7, <1>8, <1>9, <1>10, <1>11, <1>13, <1>14

\* When every row for ibet has been executed and nothing was undone by hand or twice, an
\* account has locked what it holds on Ethereum after the last block passed, and what has
\* not come there: every event is passed once and every row of it executed once, in any
\* order.
THEOREM Agreement ==
    ASSUME BridgeAssumption
    PROVE  Spec => []BooksAgree
  <1>1. MoneyInv => BooksAgree
    BY Agrees
  <1> QED
    BY <1>1, Money, PTL

-----------------------------------------------------------------------------
(* Approvals: the invariant.                                               *)

ApprovalEvent == [app : Approval!Applications, type : {"ApplyFor", "Cancel", "EscrowFinish", "Approve"},
                  by : {"issuer", "other"}]
ApprovalRequest == [at : {"APPROVE", "CANCEL", "record", "reverted"}, app : Approval!Applications,
                    op : Approval!Operations]

ApprovalTypes ==
    /\ chain \in [Approval!Applications -> Approval!States] /\ log \in Seq(ApprovalEvent)
    /\ history \in [Approval!Applications -> Seq(Approval!Operations)]
    /\ request \in [Requests -> {Approval!Idle} \cup ApprovalRequest]
    /\ DOMAIN approvals.rows \subseteq Approval!Applications
    /\ \A a \in DOMAIN approvals.rows : approvals.rows[a] \in Approval!Bools
    /\ approvals.synced \in 0..Len(log) /\ DOMAIN approvals.notes = 1..approvals.synced
    /\ span \in [from : Nat, to : Nat] /\ span.from <= span.to /\ span.to <= Len(log)
    /\ pc = "range" => span.from = approvals.synced
    /\ past \in [overlooked : SUBSET Approval!Applications, aborts : Nat]

\* What an event says has happened cannot be undone.
ApprovalLog ==
    \A k \in DOMAIN log :
       /\ log[k].type = "Approve" => chain[log[k].app] = "approved"
       /\ log[k].type = "Cancel" => chain[log[k].app] = "cancelled"
       /\ log[k].type = "EscrowFinish" => chain[log[k].app] \in {"finished", "approved"}

Outcome(op) == IF op = "APPROVE" THEN "approved" ELSE "cancelled"

\* An operation that is recorded, or about to be, has been carried out, and is the only one
\* of its application.
ApprovalRecords ==
    /\ \A r \in Requests : /\ request[r].at \in Approval!Operations => request[r].op = request[r].at
                           /\ request[r].at = "record" => /\ chain[request[r].app] = Outcome(request[r].op)
                                                          /\ history[request[r].app] = <<>>
    /\ \A r, s \in Requests :
          request[r].at = "record" /\ request[s].at = "record" /\ request[r].app = request[s].app => r = s
    /\ \A a \in Approval!Applications : history[a] # <<>> =>
          \E op \in Approval!Operations : history[a] = <<op>> /\ chain[a] = Outcome(op)

Seen(a, type, n) == \E k \in DOMAIN log : k <= n /\ log[k].app = a /\ log[k].type = type

\* A row says what was read, and everything there was, unless something of it was overlooked.
ApprovalRows ==
    /\ \A a \in DOMAIN approvals.rows :
          /\ approvals.rows[a].approved => Seen(a, "Approve", approvals.synced)
          /\ approvals.rows[a].cancelled => Seen(a, "Cancel", approvals.synced)
          /\ approvals.rows[a].finished => Seen(a, "EscrowFinish", approvals.synced)
    /\ \A a \in Approval!Applications \ past.overlooked :
          /\ Seen(a, "Approve", approvals.synced) => a \in DOMAIN approvals.rows /\ approvals.rows[a].approved
          /\ Seen(a, "Cancel", approvals.synced) => a \in DOMAIN approvals.rows /\ approvals.rows[a].cancelled
          /\ Seen(a, "EscrowFinish", approvals.synced) => a \in DOMAIN approvals.rows /\ approvals.rows[a].finished

\* So do the notifications.
ApprovalNotes ==
    \A k \in 1..approvals.synced :
       /\ approvals.notes[k] \in 0..1
       /\ approvals.notes[k] = 1 => Approval!RegisterNotification(k)
       /\ log[k].app \notin past.overlooked /\ Approval!RegisterNotification(k) => approvals.notes[k] = 1

ApprovalInv == ApprovalTypes /\ ApprovalLog /\ ApprovalRecords /\ ApprovalRows /\ ApprovalNotes
ApprovalAssumption == Approval!TransferApprovalAssumption

-----------------------------------------------------------------------------
(* Approvals: the steps.                                                   *)

LEMMA ApprovalInitially ==
    ASSUME ApprovalAssumption, Approval!Init
    PROVE  ApprovalInv
  <1> USE DEF ApprovalAssumption, Approval!TransferApprovalAssumption, Approval!Init
  <1>1. ApprovalTypes
    BY DEF ApprovalTypes, Approval!States, Approval!Idle, Approval!Applications
  <1>2. ApprovalLog
    BY DEF ApprovalLog
  <1>3. ApprovalRecords
    BY DEF ApprovalRecords, Approval!Idle, Approval!Operations
  <1>4. ApprovalRows
    BY DEF ApprovalRows, Seen
  <1>5. ApprovalNotes
    BY DEF ApprovalNotes
  <1> QED
    BY <1>1, <1>2, <1>3, <1>4, <1>5 DEF ApprovalInv

\* A new event leaves those before it as they are.
LEMMA ApprovalEmits ==
    ASSUME ApprovalInv, NEW a \in Approval!Applications,
           NEW type \in {"ApplyFor", "Cancel", "EscrowFinish", "Approve"}, NEW by \in {"issuer", "other"},
           NEW state \in Approval!States, Approval!Emit(a, type, by, state)
    PROVE  /\ log' \in Seq(ApprovalEvent) /\ Len(log') = Len(log) + 1
           /\ DOMAIN log = 1..Len(log) /\ DOMAIN log' = 1..Len(log) + 1
           /\ \A k \in DOMAIN log : log'[k] = log[k]
           /\ log'[Len(log) + 1].app = a /\ log'[Len(log) + 1].type = type
           /\ chain' \in [Approval!Applications -> Approval!States] /\ chain'[a] = state
           /\ \A b \in Approval!Applications : b # a => chain'[b] = chain[b]
  <1>1. log \in Seq(ApprovalEvent) /\ chain \in [Approval!Applications -> Approval!States]
    BY DEF ApprovalInv, ApprovalTypes
  <1>2. [app |-> a, type |-> type, by |-> by] \in ApprovalEvent
    BY DEF ApprovalEvent
  <1>3. log' = Append(log, [app |-> a, type |-> type, by |-> by]) /\ chain' = [chain EXCEPT ![a] = state]
    BY DEF Approval!Emit
  <1>4. /\ log' \in Seq(ApprovalEvent) /\ Len(log') = Len(log) + 1
        /\ DOMAIN log = 1..Len(log) /\ DOMAIN log' = 1..Len(log) + 1
        /\ \A k \in DOMAIN log : log'[k] = log[k]
        /\ log'[Len(log) + 1] = [app |-> a, type |-> type, by |-> by]
    BY <1>1, <1>2, <1>3, AppendProperties
  <1> QED
    BY <1>1, <1>3, <1>4

\* While nothing is committed, the index and what it has read stay the same.
LEMMA ApprovalIndexKept ==
    ASSUME ApprovalInv, UNCHANGED <<approvals, past>>,
           DOMAIN log \subseteq DOMAIN log', DOMAIN log' \subseteq Nat \ {0}, \A k \in DOMAIN log : log'[k] = log[k]
    PROVE  ApprovalRows' /\ ApprovalNotes'
  <1>1. approvals.synced \in 0..Len(log) /\ Len(log) \in Nat /\ DOMAIN log = 1..Len(log)
    <2>1. log \in Seq(ApprovalEvent)
      BY DEF ApprovalInv, ApprovalTypes
    <2> QED
      BY <2>1, LenProperties DEF ApprovalInv, ApprovalTypes
  <1>2. \A a, type : (\E k \in DOMAIN log' : k <= approvals.synced /\ log'[k].app = a /\ log'[k].type = type)
                     <=> Seen(a, type, approvals.synced)
    <2> SUFFICES ASSUME NEW a, NEW type
                 PROVE  (\E k \in DOMAIN log' : k <= approvals.synced /\ log'[k].app = a /\ log'[k].type = type)
                        <=> (\E k \in DOMAIN log : k <= approvals.synced /\ log[k].app = a /\ log[k].type = type)
      BY DEF Seen
    <2>1. \A k \in DOMAIN log' : k <= approvals.synced => k \in DOMAIN log
      BY <1>1
    <2> QED
      BY <2>1
  <1>3. ApprovalRows'
    <2>1. ApprovalRows
      BY DEF ApprovalInv
    <2>2. \A a, type : Seen(a, type, approvals.synced)' <=> Seen(a, type, approvals.synced)
      BY <1>2 DEF Seen
    <2> QED
      BY <2>1, <2>2 DEF ApprovalRows, Approval!Applications
  <1>4. ApprovalNotes'
    <2>1. ApprovalNotes
      BY DEF ApprovalInv
    <2>2. \A k \in 1..approvals.synced : k \in DOMAIN log
      BY <1>1
    <2> QED
      BY <2>1, <2>2 DEF ApprovalNotes, Approval!RegisterNotification
  <1> QED
    BY <1>3, <1>4

\* The types after an event.
LEMMA ApprovalTypesKept ==
    ASSUME ApprovalInv, UNCHANGED <<approvals, span, pc, past>>,
           log' \in Seq(ApprovalEvent), Len(log') \in Nat, Len(log) <= Len(log'),
           chain' \in [Approval!Applications -> Approval!States],
           history' \in [Approval!Applications -> Seq(Approval!Operations)],
           request' \in [Requests -> {Approval!Idle} \cup ApprovalRequest]
    PROVE  ApprovalTypes'
  <1>1. log \in Seq(ApprovalEvent)
    BY DEF ApprovalInv, ApprovalTypes
  <1>2. Len(log) \in Nat
    BY <1>1, LenProperties
  <1> QED
    BY <1>2 DEF ApprovalInv, ApprovalTypes, ApprovalRequest, ApprovalEvent, Approval!Applications, Approval!Operations,
       Approval!States, Approval!Bools, Approval!Idle

\* An event that moves its application on from a state nothing was recorded in.
LEMMA ApprovalLogKept ==
    ASSUME ApprovalInv, NEW a \in Approval!Applications,
           NEW type \in {"ApplyFor", "Cancel", "EscrowFinish", "Approve"}, NEW by \in {"issuer", "other"},
           NEW state \in Approval!States, Approval!Emit(a, type, by, state),
           \/ type = "ApplyFor" /\ state = "applied" /\ chain[a] = "none"
           \/ type = "EscrowFinish" /\ state = "finished" /\ chain[a] = "applied"
           \/ type = "Cancel" /\ state = "cancelled" /\ chain[a] = "applied"
           \/ type = "Approve" /\ state = "approved" /\ chain[a] \in {"applied", "finished"}
    PROVE  ApprovalLog'
  <1>1. /\ Len(log) \in Nat /\ DOMAIN log = 1..Len(log) /\ DOMAIN log' = 1..Len(log) + 1
        /\ \A k \in DOMAIN log : log'[k] = log[k]
        /\ log'[Len(log) + 1].app = a /\ log'[Len(log) + 1].type = type
        /\ chain'[a] = state /\ \A b \in Approval!Applications : b # a => chain'[b] = chain[b]
    <2>1. Len(log) \in Nat
      BY LenProperties DEF ApprovalInv, ApprovalTypes
    <2>2. DOMAIN log = 1..Len(log) /\ DOMAIN log' = 1..Len(log) + 1 /\ \A k \in DOMAIN log : log'[k] = log[k]
      BY ApprovalEmits
    <2>3. log'[Len(log) + 1].app = a /\ log'[Len(log) + 1].type = type
      BY ApprovalEmits
    <2>4. chain'[a] = state /\ \A b \in Approval!Applications : b # a => chain'[b] = chain[b]
      BY ApprovalEmits
    <2> QED
      BY <2>1, <2>2, <2>3, <2>4
  <1>2. \A k \in DOMAIN log : log[k] \in ApprovalEvent
    BY ElementOfSeq DEF ApprovalInv, ApprovalTypes
  <1>3. ApprovalLog
    BY DEF ApprovalInv
  <1> SUFFICES ASSUME NEW k \in DOMAIN log'
               PROVE  /\ log'[k].type = "Approve" => chain'[log'[k].app] = "approved"
                      /\ log'[k].type = "Cancel" => chain'[log'[k].app] = "cancelled"
                      /\ log'[k].type = "EscrowFinish" => chain'[log'[k].app] \in {"finished", "approved"}
    BY DEF ApprovalLog
  <1>4. CASE k = Len(log) + 1
    BY <1>1, <1>4
  <1>5. CASE k # Len(log) + 1
    <2>1. k \in DOMAIN log /\ log'[k] = log[k] /\ log[k].app \in Approval!Applications
      BY <1>1, <1>2, <1>5 DEF ApprovalEvent
    <2>2. CASE log[k].app = a
      BY <1>1, <1>3, <2>1, <2>2 DEF ApprovalLog
    <2>3. CASE log[k].app # a
      BY <1>1, <1>3, <2>1, <2>3 DEF ApprovalLog
    <2> QED
      BY <2>2, <2>3
  <1> QED
    BY <1>4, <1>5

\* Requests and history stand while the applications they are about do.
LEMMA ApprovalRecordsKept ==
    ASSUME ApprovalInv, UNCHANGED history, NEW a \in Approval!Applications,
           \/ UNCHANGED chain
           \/ /\ chain[a] \notin {"approved", "cancelled"}
              /\ \A b \in Approval!Applications : b # a => chain'[b] = chain[b],
           \A s \in Requests : \/ request'[s] = request[s]
                               \/ /\ request'[s].at # "record"
                                  /\ request'[s].at \in Approval!Operations => request'[s].op = request'[s].at
    PROVE  ApprovalRecords'
  <1>1. \A r \in Requests : request[r].at = "record" =>
           /\ request[r].app \in Approval!Applications /\ request[r].op \in Approval!Operations
           /\ chain[request[r].app] \in {"approved", "cancelled"}
    <2> SUFFICES ASSUME NEW r \in Requests, request[r].at = "record"
                 PROVE  /\ request[r].app \in Approval!Applications /\ request[r].op \in Approval!Operations
                        /\ chain[request[r].app] \in {"approved", "cancelled"}
      OBVIOUS
    <2>1. request[r] \in ApprovalRequest
      BY DEF ApprovalInv, ApprovalTypes, Approval!Idle
    <2>2. chain[request[r].app] = Outcome(request[r].op)
      BY DEF ApprovalInv, ApprovalRecords
    <2> QED
      BY <2>1, <2>2 DEF ApprovalRequest, Outcome
  <1>2. \A b \in Approval!Applications : history[b] # <<>> => chain[b] \in {"approved", "cancelled"}
    BY DEF ApprovalInv, ApprovalRecords, Outcome
  <1>3. \A b \in Approval!Applications : chain[b] \in {"approved", "cancelled"} => chain'[b] = chain[b]
    OBVIOUS
  <1>4. ApprovalRecords
    BY DEF ApprovalInv
  <1>5. \A s \in Requests : request'[s].at = "record" => request'[s] = request[s]
    OBVIOUS
  <1>6. \A r \in Requests : request'[r].at \in Approval!Operations => request'[r].op = request'[r].at
    BY <1>4 DEF ApprovalRecords
  <1>7. \A r \in Requests : request'[r].at = "record" =>
           chain'[request'[r].app] = Outcome(request'[r].op) /\ history'[request'[r].app] = <<>>
    BY <1>1, <1>3, <1>4, <1>5 DEF ApprovalRecords
  <1>8. \A b \in Approval!Applications : history'[b] # <<>> =>
           \E op \in Approval!Operations : history'[b] = <<op>> /\ chain'[b] = Outcome(op)
    BY <1>2, <1>3, <1>4 DEF ApprovalRecords
  <1>9. \A r, s \in Requests :
           request'[r].at = "record" /\ request'[s].at = "record" /\ request'[r].app = request'[s].app => r = s
    BY <1>4, <1>5 DEF ApprovalRecords
  <1> QED
    BY <1>6, <1>7, <1>8, <1>9 DEF ApprovalRecords, Approval!Applications, Approval!Operations, Outcome

\* A request that has just decided an application is the first that did.
LEMMA ApprovalRecordsGrow ==
    ASSUME ApprovalInv, UNCHANGED history, NEW a \in Approval!Applications, chain[a] \notin {"approved", "cancelled"},
           \A b \in Approval!Applications : b # a => chain'[b] = chain[b],
           NEW r \in Requests, request'[r].at = "record", request'[r].app = a,
           chain'[a] = Outcome(request'[r].op),
           \A s \in Requests : s # r => request'[s] = request[s]
    PROVE  ApprovalRecords'
  <1>1. \A s \in Requests : request[s].at = "record" =>
           /\ request[s].app \in Approval!Applications /\ request[s].op \in Approval!Operations
           /\ chain[request[s].app] \in {"approved", "cancelled"}
    <2> SUFFICES ASSUME NEW s \in Requests, request[s].at = "record"
                 PROVE  /\ request[s].app \in Approval!Applications /\ request[s].op \in Approval!Operations
                        /\ chain[request[s].app] \in {"approved", "cancelled"}
      OBVIOUS
    <2>1. request[s] \in ApprovalRequest
      BY DEF ApprovalInv, ApprovalTypes, Approval!Idle
    <2>2. chain[request[s].app] = Outcome(request[s].op)
      BY DEF ApprovalInv, ApprovalRecords
    <2> QED
      BY <2>1, <2>2 DEF ApprovalRequest, Outcome
  <1>2. \A b \in Approval!Applications : history[b] # <<>> => chain[b] \in {"approved", "cancelled"}
    BY DEF ApprovalInv, ApprovalRecords, Outcome
  <1>3. \A b \in Approval!Applications : chain[b] \in {"approved", "cancelled"} => chain'[b] = chain[b]
    OBVIOUS
  <1>4. ApprovalRecords
    BY DEF ApprovalInv
  <1>5. \A s \in Requests : s # r /\ request'[s].at = "record" => request'[s] = request[s] /\ request[s].app # a
    BY <1>1
  <1>6. \A s \in Requests : request'[s].at \in Approval!Operations => request'[s].op = request'[s].at
    BY <1>4 DEF ApprovalRecords, Approval!Operations
  <1>7. \A s \in Requests : request'[s].at = "record" =>
           chain'[request'[s].app] = Outcome(request'[s].op) /\ history'[request'[s].app] = <<>>
    BY <1>1, <1>2, <1>3, <1>4, <1>5 DEF ApprovalRecords
  <1>8. \A b \in Approval!Applications : history'[b] # <<>> =>
           \E op \in Approval!Operations : history'[b] = <<op>> /\ chain'[b] = Outcome(op)
    BY <1>2, <1>3, <1>4 DEF ApprovalRecords
  <1>9. \A q, s \in Requests :
           request'[q].at = "record" /\ request'[s].at = "record" /\ request'[q].app = request'[s].app => q = s
    BY <1>4, <1>5 DEF ApprovalRecords
  <1> QED
    BY <1>6, <1>7, <1>8, <1>9 DEF ApprovalRecords, Approval!Applications, Approval!Operations, Outcome

\* A step of the contracts that no request takes.
LEMMA ApprovalChainStep ==
    ASSUME ApprovalInv, NEW a \in Approval!Applications,
           Approval!ApplyForTransfer(a) \/ Approval!FinishEscrow(a) \/ Approval!CancelByApplicant(a)
    PROVE  ApprovalInv'
  <1>1. UNCHANGED <<status, listed, approvals, history, request, pc, watched, span, past>>
    BY DEF Approval!ApplyForTransfer, Approval!FinishEscrow, Approval!CancelByApplicant, Approval!pass
  <1>2. PICK type \in {"ApplyFor", "Cancel", "EscrowFinish", "Approve"}, state \in Approval!States :
           /\ Approval!Emit(a, type, "other", state)
           /\ \/ type = "ApplyFor" /\ state = "applied" /\ chain[a] = "none"
              \/ type = "EscrowFinish" /\ state = "finished" /\ chain[a] = "applied"
              \/ type = "Cancel" /\ state = "cancelled" /\ chain[a] = "applied"
    BY DEF Approval!ApplyForTransfer, Approval!FinishEscrow, Approval!CancelByApplicant, Approval!States
  <1>3. /\ log' \in Seq(ApprovalEvent) /\ Len(log') = Len(log) + 1
        /\ DOMAIN log = 1..Len(log) /\ DOMAIN log' = 1..Len(log) + 1
        /\ \A k \in DOMAIN log : log'[k] = log[k]
        /\ chain' \in [Approval!Applications -> Approval!States]
        /\ \A b \in Approval!Applications : b # a => chain'[b] = chain[b]
    BY <1>2, ApprovalEmits
  <1>4. Len(log) \in Nat
    BY LenProperties DEF ApprovalInv, ApprovalTypes
  <1>5. ApprovalTypes'
    <2>1. history' \in [Approval!Applications -> Seq(Approval!Operations)] /\ request' \in [Requests -> {Approval!Idle} \cup ApprovalRequest]
      BY <1>1 DEF ApprovalInv, ApprovalTypes
    <2> QED
      BY <1>1, <1>3, <1>4, <2>1, ApprovalTypesKept
  <1>6. ApprovalLog'
    BY <1>2, ApprovalLogKept
  <1>7. ApprovalRecords'
    BY <1>1, <1>2, <1>3, ApprovalRecordsKept
  <1>8. ApprovalRows' /\ ApprovalNotes'
    BY <1>1, <1>3, <1>4, ApprovalIndexKept
  <1> QED
    BY <1>5, <1>6, <1>7, <1>8 DEF ApprovalInv

\* What the index has is not touched by a request that sends nothing.
LEMMA ApprovalQuietStep ==
    ASSUME ApprovalInv, UNCHANGED <<chain, log, approvals, span, past>>, UNCHANGED pc,
           history' \in [Approval!Applications -> Seq(Approval!Operations)],
           request' \in [Requests -> {Approval!Idle} \cup ApprovalRequest], ApprovalRecords'
    PROVE  ApprovalInv'
  <1>1. log \in Seq(ApprovalEvent) /\ Len(log) \in Nat /\ DOMAIN log = 1..Len(log)
    BY LenProperties DEF ApprovalInv, ApprovalTypes
  <1>2. ApprovalTypes'
    <2>1. chain' \in [Approval!Applications -> Approval!States]
      BY DEF ApprovalInv, ApprovalTypes
    <2> QED
      BY <1>1, <2>1, ApprovalTypesKept
  <1>3. ApprovalLog'
    BY DEF ApprovalInv, ApprovalLog
  <1>4. ApprovalRows' /\ ApprovalNotes'
    BY <1>1, ApprovalIndexKept
  <1> QED
    BY <1>2, <1>3, <1>4 DEF ApprovalInv

LEMMA ApprovalStart ==
    ASSUME ApprovalInv, NEW r \in Requests, NEW a \in Approval!Applications, NEW op \in Approval!Operations,
           Approval!StartUpdate(r, a, op)
    PROVE  ApprovalInv'
  <1>1. /\ UNCHANGED <<chain, log, approvals, span, past, pc, history>>
        /\ request' = [request EXCEPT ![r] = [at |-> op, app |-> a, op |-> op]]
    BY DEF Approval!StartUpdate, Approval!contracts, Approval!pass
  <1>2. request \in [Requests -> {Approval!Idle} \cup ApprovalRequest]
    BY DEF ApprovalInv, ApprovalTypes
  <1>3. [at |-> op, app |-> a, op |-> op] \in ApprovalRequest
    BY DEF ApprovalRequest, Approval!Operations
  <1>4. request' \in [Requests -> {Approval!Idle} \cup ApprovalRequest]
    BY <1>1, <1>2, <1>3
  <1>5. ApprovalRecords'
    <2>1. request'[r].at = op /\ request'[r].op = op /\ \A s \in Requests : s # r => request'[s] = request[s]
      BY <1>1, <1>2
    <2>2. op # "record"
      BY DEF Approval!Operations
    <2>3. \A s \in Requests : \/ request'[s] = request[s]
                              \/ /\ request'[s].at # "record"
                                 /\ request'[s].at \in Approval!Operations => request'[s].op = request'[s].at
      BY <2>1, <2>2
    <2> QED
      BY <1>1, <2>3, ApprovalRecordsKept
  <1>6. history' \in [Approval!Applications -> Seq(Approval!Operations)]
    BY <1>1 DEF ApprovalInv, ApprovalTypes
  <1> QED
    BY <1>1, <1>4, <1>5, <1>6, ApprovalQuietStep

\* A request that is under way, and what becomes of it when it goes on.
LEMMA ApprovalGoesOn ==
    ASSUME ApprovalInv, NEW r \in Requests, request[r].at # "idle",
           \/ Approval!Answer(r)
           \/ \E at \in {"record", "reverted"} : Approval!GoTo(r, at)
    PROVE  /\ request[r] \in ApprovalRequest
           /\ request' \in [Requests -> {Approval!Idle} \cup ApprovalRequest]
           /\ \A s \in Requests : s # r => request'[s] = request[s]
           /\ Approval!Answer(r) => request'[r] = Approval!Idle
           /\ \A at : Approval!GoTo(r, at) => /\ request'[r].at = at /\ request'[r].app = request[r].app
                                              /\ request'[r].op = request[r].op
  <1>1. request \in [Requests -> {Approval!Idle} \cup ApprovalRequest]
    BY DEF ApprovalInv, ApprovalTypes
  <1>2. request[r] \in ApprovalRequest
    BY <1>1 DEF Approval!Idle
  <1>3. CASE Approval!Answer(r)
    <2>1. request' = [request EXCEPT ![r] = Approval!Idle]
      BY <1>3 DEF Approval!Answer
    <2>2. \A at : ~Approval!GoTo(r, at)
      <3> SUFFICES ASSUME NEW at, Approval!GoTo(r, at) PROVE FALSE
        OBVIOUS
      <3>1. request'[r] = [request[r] EXCEPT !.at = at]
        BY <1>1 DEF Approval!GoTo
      <3>2. request'[r] = Approval!Idle
        BY <1>1, <2>1
      <3>3. "app" \in DOMAIN [request[r] EXCEPT !.at = at]
        BY <1>2 DEF ApprovalRequest
      <3>4. DOMAIN Approval!Idle = {"at"}
        BY DEF Approval!Idle
      <3> QED
        BY <3>1, <3>2, <3>3, <3>4
    <2> QED
      BY <1>1, <1>2, <2>1, <2>2
  <1>4. ASSUME NEW at \in {"record", "reverted"}, Approval!GoTo(r, at), ~Approval!Answer(r)
        PROVE  /\ request' \in [Requests -> {Approval!Idle} \cup ApprovalRequest]
               /\ \A s \in Requests : s # r => request'[s] = request[s]
               /\ \A place : Approval!GoTo(r, place) => /\ request'[r].at = place /\ request'[r].app = request[r].app
                                                        /\ request'[r].op = request[r].op
    <2>1. request' = [request EXCEPT ![r] = [request[r] EXCEPT !.at = at]]
      BY <1>4 DEF Approval!GoTo
    <2>2. [request[r] EXCEPT !.at = at] \in ApprovalRequest
      BY <1>2 DEF ApprovalRequest
    <2>3. request' \in [Requests -> {Approval!Idle} \cup ApprovalRequest]
      BY <1>1, <2>1, <2>2
    <2>4. \A s \in Requests : s # r => request'[s] = request[s]
      BY <1>1, <2>1
    <2>5. ASSUME NEW place, Approval!GoTo(r, place)
          PROVE  /\ request'[r].at = place /\ request'[r].app = request[r].app
                 /\ request'[r].op = request[r].op
      <3>1. request'[r] = [request[r] EXCEPT !.at = place]
        BY <1>1, <2>5 DEF Approval!GoTo
      <3> QED
        BY <1>2, <3>1 DEF ApprovalRequest
    <2> QED
      BY <2>3, <2>4, <2>5
  <1> QED
    BY <1>2, <1>3, <1>4

\* The request sends a transaction that decides its application.
LEMMA ApprovalDecides ==
    ASSUME ApprovalInv, NEW r \in Requests, request[r].at # "idle", NEW a, a = request[r].app,
           \/ /\ Approval!Emit(a, "Approve", "issuer", "approved") /\ chain[a] \in {"applied", "finished"}
              /\ request[r].at = "APPROVE"
           \/ /\ Approval!Emit(a, "Cancel", "issuer", "cancelled") /\ chain[a] = "applied"
              /\ request[r].at = "CANCEL" \/ Approval!Answer(r),
           Approval!Answer(r) \/ Approval!GoTo(r, "record"),
           UNCHANGED <<status, listed, approvals, history, pc, watched, span, past>>
    PROVE  ApprovalInv'
  <1>1. /\ request[r] \in ApprovalRequest
        /\ request' \in [Requests -> {Approval!Idle} \cup ApprovalRequest]
        /\ \A s \in Requests : s # r => request'[s] = request[s]
        /\ Approval!Answer(r) => request'[r] = Approval!Idle
        /\ \A at : Approval!GoTo(r, at) => /\ request'[r].at = at /\ request'[r].app = request[r].app
                                           /\ request'[r].op = request[r].op
    BY ApprovalGoesOn
  <1>2. a \in Approval!Applications
    BY <1>1 DEF ApprovalRequest
  <1>3. PICK type \in {"ApplyFor", "Cancel", "EscrowFinish", "Approve"}, state \in Approval!States :
           /\ Approval!Emit(a, type, "issuer", state)
           /\ \/ type = "Cancel" /\ state = "cancelled" /\ chain[a] = "applied"
              \/ type = "Approve" /\ state = "approved" /\ chain[a] \in {"applied", "finished"}
           /\ Approval!Answer(r) \/ state = Outcome(request[r].at)
           /\ Approval!Answer(r) \/ request[r].at \in Approval!Operations
    BY DEF Approval!States, Approval!Operations, Outcome
  <1>4. /\ log' \in Seq(ApprovalEvent) /\ Len(log') = Len(log) + 1
        /\ DOMAIN log = 1..Len(log) /\ DOMAIN log' = 1..Len(log) + 1
        /\ \A k \in DOMAIN log : log'[k] = log[k]
        /\ chain' \in [Approval!Applications -> Approval!States] /\ chain'[a] = state
        /\ \A b \in Approval!Applications : b # a => chain'[b] = chain[b]
    BY <1>2, <1>3, ApprovalEmits
  <1>5. Len(log) \in Nat
    BY LenProperties DEF ApprovalInv, ApprovalTypes
  <1>6. ApprovalTypes'
    <2>1. history' \in [Approval!Applications -> Seq(Approval!Operations)]
      BY DEF ApprovalInv, ApprovalTypes
    <2> QED
      BY <1>1, <1>4, <1>5, <2>1, ApprovalTypesKept
  <1>7. ApprovalLog'
    BY <1>2, <1>3, ApprovalLogKept
  <1>8. ApprovalRows' /\ ApprovalNotes'
    BY <1>4, <1>5, ApprovalIndexKept
  <1>9. chain[a] \notin {"approved", "cancelled"}
    BY <1>3
  <1>10. ApprovalRecords'
    <2>1. CASE Approval!Answer(r)
      <3>1. \A s \in Requests : \/ request'[s] = request[s]
                                \/ /\ request'[s].at # "record"
                                   /\ request'[s].at \in Approval!Operations => request'[s].op = request'[s].at
        BY <1>1, <2>1 DEF Approval!Idle, Approval!Operations
      <3> QED
        BY <1>2, <1>4, <1>9, <3>1, ApprovalRecordsKept
    <2>2. CASE ~Approval!Answer(r)
      <3>1. request'[r].at = "record" /\ request'[r].app = a /\ request'[r].op = request[r].op
        BY <1>1, <2>2
      <3>2. request[r].op = request[r].at
        BY <1>3, <2>2 DEF ApprovalInv, ApprovalRecords
      <3>3. chain'[a] = Outcome(request'[r].op)
        BY <1>3, <1>4, <2>2, <3>1, <3>2
      <3> QED
        BY <1>1, <1>2, <1>4, <1>9, <3>1, <3>3, ApprovalRecordsGrow
    <2> QED
      BY <2>1, <2>2
  <1> QED
    BY <1>6, <1>7, <1>8, <1>10 DEF ApprovalInv

\* The request goes on or is answered, and sends nothing.
LEMMA ApprovalAnswers ==
    ASSUME ApprovalInv, NEW r \in Requests, request[r].at # "idle",
           Approval!Answer(r) \/ Approval!GoTo(r, "reverted"),
           UNCHANGED <<chain, log, approvals, history, pc, span, past>>
    PROVE  ApprovalInv'
  <1>1. /\ request[r] \in ApprovalRequest
        /\ request' \in [Requests -> {Approval!Idle} \cup ApprovalRequest]
        /\ \A s \in Requests : s # r => request'[s] = request[s]
        /\ Approval!Answer(r) => request'[r] = Approval!Idle
        /\ \A at : Approval!GoTo(r, at) => /\ request'[r].at = at /\ request'[r].app = request[r].app
                                           /\ request'[r].op = request[r].op
    BY ApprovalGoesOn
  <1>2. request[r].app \in Approval!Applications
    BY <1>1 DEF ApprovalRequest
  <1>3. \A s \in Requests : \/ request'[s] = request[s]
                            \/ /\ request'[s].at # "record"
                               /\ request'[s].at \in Approval!Operations => request'[s].op = request'[s].at
    BY <1>1 DEF Approval!Idle, Approval!Operations
  <1>4. ApprovalRecords'
    BY <1>2, <1>3, ApprovalRecordsKept
  <1>5. history' \in [Approval!Applications -> Seq(Approval!Operations)]
    BY DEF ApprovalInv, ApprovalTypes
  <1> QED
    BY <1>1, <1>4, <1>5, ApprovalQuietStep

LEMMA ApprovalRequestStep ==
    ASSUME ApprovalInv, NEW r \in Requests,
           Approval!ApproveTransfer(r) \/ Approval!CancelAfterRevert(r) \/ Approval!CancelTransfer(r)
    PROVE  ApprovalInv'
  <1>1. UNCHANGED <<status, listed, approvals, history, pc, watched, span, past>> /\ request[r].at # "idle"
    BY DEF Approval!ApproveTransfer, Approval!CancelAfterRevert, Approval!CancelTransfer, Approval!Now, Approval!pass
  <1> DEFINE a == request[r].app
  <1>2. \/ /\ Approval!Answer(r) \/ Approval!GoTo(r, "reverted")
           /\ UNCHANGED <<chain, log>>
        \/ /\ Approval!Answer(r) \/ Approval!GoTo(r, "record")
           /\ \/ /\ Approval!Emit(a, "Approve", "issuer", "approved") /\ chain[a] \in {"applied", "finished"}
                 /\ request[r].at = "APPROVE"
              \/ /\ Approval!Emit(a, "Cancel", "issuer", "cancelled") /\ chain[a] = "applied"
                 /\ request[r].at = "CANCEL" \/ Approval!Answer(r)
    BY DEF Approval!ApproveTransfer, Approval!CancelAfterRevert, Approval!CancelTransfer, Approval!Now,
       Approval!Approvable, Approval!contracts
  <1> QED
    BY <1>1, <1>2, ApprovalDecides, ApprovalAnswers

LEMMA ApprovalRecord ==
    ASSUME ApprovalInv, NEW r \in Requests, Approval!RecordOperation(r)
    PROVE  ApprovalInv'
  <1> DEFINE a == request[r].app
             op == request[r].op
  <1>1. /\ request[r].at = "record" /\ Approval!Answer(r) /\ history' = [history EXCEPT ![a] = Append(@, op)]
        /\ UNCHANGED <<chain, log, approvals, pc, span, past>>
    BY DEF Approval!RecordOperation, Approval!Now, Approval!contracts, Approval!pass
  <1>2. /\ request[r] \in ApprovalRequest
        /\ request' \in [Requests -> {Approval!Idle} \cup ApprovalRequest]
        /\ \A s \in Requests : s # r => request'[s] = request[s]
        /\ request'[r] = Approval!Idle
    BY <1>1, ApprovalGoesOn
  <1>3. a \in Approval!Applications /\ op \in Approval!Operations
    BY <1>2 DEF ApprovalRequest
  <1>4. ApprovalRecords /\ history \in [Approval!Applications -> Seq(Approval!Operations)]
    BY DEF ApprovalInv, ApprovalTypes
  <1>5. history[a] = <<>> /\ chain[a] = Outcome(op)
    BY <1>1, <1>4 DEF ApprovalRecords
  <1>6. history'[a] = <<op>> /\ \A b \in Approval!Applications : b # a => history'[b] = history[b]
    BY <1>1, <1>3, <1>4, <1>5
  <1>7. history' \in [Approval!Applications -> Seq(Approval!Operations)]
    <2>1. <<op>> \in Seq(Approval!Operations)
      BY <1>3
    <2>2. history' = [history EXCEPT ![a] = <<op>>]
      BY <1>1, <1>5
    <2> QED
      BY <1>4, <2>1, <2>2
  <1>8. \A s \in Requests : request'[s].at # "idle" => s # r /\ request'[s] = request[s]
    BY <1>2 DEF Approval!Idle
  <1>9. \A s \in Requests : request'[s].at = "record" => request'[s] = request[s] /\ request[s].app # a
    BY <1>1, <1>4, <1>8 DEF ApprovalRecords
  <1>10. ApprovalRecords'
    <2>1. \A s \in Requests : request'[s].at \in Approval!Operations => request'[s].op = request'[s].at
      BY <1>4, <1>8 DEF ApprovalRecords, Approval!Operations
    <2>2. \A s \in Requests : request'[s].at = "record" =>
             chain'[request'[s].app] = Outcome(request'[s].op) /\ history'[request'[s].app] = <<>>
      <3> SUFFICES ASSUME NEW s \in Requests, request'[s].at = "record"
                   PROVE  chain'[request'[s].app] = Outcome(request'[s].op) /\ history'[request'[s].app] = <<>>
        OBVIOUS
      <3>1. request'[s] = request[s] /\ request[s].app # a
        BY <1>9
      <3>2. request[s] \in ApprovalRequest
        BY <3>1 DEF ApprovalInv, ApprovalTypes, Approval!Idle
      <3> QED
        BY <1>1, <1>4, <1>6, <3>1, <3>2 DEF ApprovalRecords, ApprovalRequest
    <2>3. \A q, s \in Requests :
             request'[q].at = "record" /\ request'[s].at = "record" /\ request'[q].app = request'[s].app => q = s
      BY <1>4, <1>9 DEF ApprovalRecords
    <2>4. \A b \in Approval!Applications : history'[b] # <<>> =>
             \E o \in Approval!Operations : history'[b] = <<o>> /\ chain'[b] = Outcome(o)
      BY <1>1, <1>3, <1>4, <1>5, <1>6 DEF ApprovalRecords
    <2> QED
      BY <2>1, <2>2, <2>3, <2>4 DEF ApprovalRecords, Approval!Applications, Approval!Operations, Outcome
  <1> QED
    BY <1>1, <1>2, <1>7, <1>10, ApprovalQuietStep

\* Steps that neither the contracts, nor the index, nor a request take part in.
LEMMA ApprovalOther ==
    ASSUME ApprovalInv, UNCHANGED <<chain, log, approvals, history, request>>,
           \/ UNCHANGED <<pc, span>> /\ UNCHANGED past
           \/ pc' # "range" /\ UNCHANGED span /\ past'.overlooked = past.overlooked
              /\ past' \in [overlooked : SUBSET Approval!Applications, aborts : Nat]
           \/ UNCHANGED past /\ span' = [from |-> approvals.synced, to |-> Len(log)]
    PROVE  ApprovalInv'
  <1>1. log \in Seq(ApprovalEvent) /\ Len(log) \in Nat /\ DOMAIN log = 1..Len(log) /\ approvals.synced \in 0..Len(log)
    BY LenProperties DEF ApprovalInv, ApprovalTypes
  <1>2. ApprovalTypes'
    <2>1. /\ span' \in [from : Nat, to : Nat] /\ span'.from <= span'.to /\ span'.to <= Len(log)
          /\ pc' = "range" => span'.from = approvals.synced
          /\ past' \in [overlooked : SUBSET Approval!Applications, aborts : Nat]
      BY <1>1 DEF ApprovalInv, ApprovalTypes
    <2> QED
      BY <2>1 DEF ApprovalInv, ApprovalTypes, ApprovalRequest, ApprovalEvent, Approval!Applications,
         Approval!Operations, Approval!States, Approval!Bools, Approval!Idle
  <1>3. ApprovalLog' /\ ApprovalRecords'
    BY DEF ApprovalInv, ApprovalLog, ApprovalRecords, Approval!Applications, Approval!Operations, Outcome
  <1>4. past'.overlooked = past.overlooked
    OBVIOUS
  <1>5. ApprovalRows' /\ ApprovalNotes'
    BY <1>4 DEF ApprovalInv, ApprovalRows, ApprovalNotes, Seen, Approval!Applications, Approval!RegisterNotification
  <1> QED
    BY <1>2, <1>3, <1>5 DEF ApprovalInv

LEMMA ApprovalPassStep ==
    ASSUME ApprovalAssumption, ApprovalInv,
           \/ Approval!TokenIsIssued \/ Approval!SetTradableExchange
           \/ Approval!GetContractList \/ Approval!StartSync \/ Approval!Rollback
    PROVE  ApprovalInv'
  <1>1. UNCHANGED <<chain, log, approvals, history, request>>
    BY DEF Approval!TokenIsIssued, Approval!SetTradableExchange, Approval!GetContractList, Approval!StartSync,
       Approval!Rollback, Approval!contracts
  <1>2. CASE Approval!TokenIsIssued \/ Approval!SetTradableExchange
    <2>1. UNCHANGED <<pc, span>> /\ UNCHANGED past
      BY <1>2 DEF Approval!TokenIsIssued, Approval!SetTradableExchange, Approval!pass
    <2> QED
      BY <1>1, <2>1, ApprovalOther
  <1>3. CASE Approval!GetContractList
    <2>1. pc' # "range" /\ UNCHANGED span /\ UNCHANGED past
      BY <1>3 DEF Approval!GetContractList
    <2>2. past' \in [overlooked : SUBSET Approval!Applications, aborts : Nat]
      BY <2>1 DEF ApprovalInv, ApprovalTypes
    <2> QED
      BY <1>1, <2>1, <2>2, ApprovalOther
  <1>4. CASE Approval!StartSync
    <2>1. CASE approvals.synced >= Len(log)
      <3>1. pc' # "range" /\ UNCHANGED span /\ UNCHANGED past
        BY <1>4, <2>1 DEF Approval!StartSync
      <3>2. past' \in [overlooked : SUBSET Approval!Applications, aborts : Nat]
        BY <3>1 DEF ApprovalInv, ApprovalTypes
      <3> QED
        BY <1>1, <3>1, <3>2, ApprovalOther
    <2>2. CASE ~(approvals.synced >= Len(log))
      <3>1. UNCHANGED past /\ span' = [from |-> approvals.synced, to |-> Len(log)]
        BY <1>4, <2>2 DEF Approval!StartSync
      <3> QED
        BY <1>1, <3>1, ApprovalOther
    <2> QED
      BY <2>1, <2>2
  <1>5. CASE Approval!Rollback
    <2>1. past \in [overlooked : SUBSET Approval!Applications, aborts : Nat]
      BY DEF ApprovalInv, ApprovalTypes
    <2>2. pc' # "range" /\ UNCHANGED span /\ (UNCHANGED past \/ past' = [past EXCEPT !.aborts = @ + 1])
      BY <1>5 DEF Approval!Rollback
    <2>3. past'.overlooked = past.overlooked /\ past' \in [overlooked : SUBSET Approval!Applications, aborts : Nat]
      BY <2>1, <2>2
    <2> QED
      BY <1>1, <2>2, <2>3, ApprovalOther
  <1> QED
    BY <1>2, <1>3, <1>4, <1>5

\* A pass reads everything of an application that it does not overlook.
LEMMA ApprovalReads ==
    ASSUME ApprovalInv, Approval!Commit
    PROVE  /\ span.from = approvals.synced /\ span.to \in 0..Len(log)
           /\ past' \in [overlooked : SUBSET Approval!Applications, aborts : Nat]
           /\ past.overlooked \subseteq past'.overlooked
           /\ \A k \in span.from + 1..span.to : /\ k \in DOMAIN log /\ log[k].app \in Approval!Applications
                                                /\ log[k].app \notin past'.overlooked => k \in Approval!Events
           /\ \A k \in Approval!Events : k \in DOMAIN log /\ k \in span.from + 1..span.to
  <1>1. /\ past \in [overlooked : SUBSET Approval!Applications, aborts : Nat]
        /\ log \in Seq(ApprovalEvent) /\ Len(log) \in Nat /\ DOMAIN log = 1..Len(log) /\ approvals.synced \in 0..Len(log)
        /\ span \in [from : Nat, to : Nat] /\ span.from <= span.to /\ span.to <= Len(log)
        /\ pc = "range" => span.from = approvals.synced
    BY LenProperties DEF ApprovalInv, ApprovalTypes
  <1>2. span.from = approvals.synced
    BY <1>1 DEF Approval!Commit
  <1>3. \A k \in span.from + 1..span.to : k \in DOMAIN log /\ log[k] \in ApprovalEvent
    BY <1>1, ElementOfSeq
  <1> DEFINE missed == {log[k].app : k \in {j \in span.from + 1..span.to : log[j].app \notin watched \/ Approval!Overflows(j)}}
  <1>4. missed \subseteq Approval!Applications
    BY <1>3 DEF ApprovalEvent
  <1>5. past' = [past EXCEPT !.overlooked = @ \cup missed]
    BY DEF Approval!Commit
  <1>6. past'.overlooked = past.overlooked \cup missed
    BY <1>1, <1>5
  <1>7. past' \in [overlooked : SUBSET Approval!Applications, aborts : Nat]
    BY <1>1, <1>4, <1>5
  <1>8. \A k \in span.from + 1..span.to : log[k].app \notin past'.overlooked => k \in Approval!Events
    <2> SUFFICES ASSUME NEW k \in span.from + 1..span.to, log[k].app \notin missed
                 PROVE  k \in Approval!Events
      BY <1>6
    <2>1. log[k].app \in watched /\ ~Approval!Overflows(k)
      OBVIOUS
    <2> QED
      BY <2>1 DEF Approval!Events
  <1>9. \A k \in Approval!Events : k \in span.from + 1..span.to
    BY DEF Approval!Events
  <1> QED
    BY <1>1, <1>2, <1>3, <1>6, <1>7, <1>8, <1>9 DEF ApprovalEvent

Has(a, type) == \E k \in Approval!Events : log[k].app = a /\ log[k].type = type

\* What a pass makes of a row.
LEMMA ApprovalSinks ==
    ASSUME ApprovalInv, Approval!Commit
    PROVE  /\ DOMAIN Approval!Rows = DOMAIN approvals.rows \cup {log[k].app : k \in Approval!Events}
           /\ \A a \in DOMAIN Approval!Rows :
                 /\ a \in Approval!Applications /\ Approval!Rows[a] \in Approval!Bools
                 /\ Approval!Rows[a].approved <=> (a \in DOMAIN approvals.rows /\ approvals.rows[a].approved) \/ Has(a, "Approve")
                 /\ Approval!Rows[a].cancelled <=> (a \in DOMAIN approvals.rows /\ approvals.rows[a].cancelled) \/ Has(a, "Cancel")
                 /\ Approval!Rows[a].finished <=> (a \in DOMAIN approvals.rows /\ approvals.rows[a].finished) \/ Has(a, "EscrowFinish")
  <1>1. DOMAIN Approval!Rows = DOMAIN approvals.rows \cup {log[k].app : k \in Approval!Events}
    BY DEF Approval!Rows
  <1>2. \A k \in Approval!Events : log[k].app \in Approval!Applications
    BY ApprovalReads
  <1> SUFFICES ASSUME NEW a \in DOMAIN Approval!Rows
               PROVE  /\ a \in Approval!Applications /\ Approval!Rows[a] \in Approval!Bools
                      /\ Approval!Rows[a].approved <=> (a \in DOMAIN approvals.rows /\ approvals.rows[a].approved) \/ Has(a, "Approve")
                      /\ Approval!Rows[a].cancelled <=> (a \in DOMAIN approvals.rows /\ approvals.rows[a].cancelled) \/ Has(a, "Cancel")
                      /\ Approval!Rows[a].finished <=> (a \in DOMAIN approvals.rows /\ approvals.rows[a].finished) \/ Has(a, "EscrowFinish")
    BY <1>1
  <1>3. a \in Approval!Applications
    BY <1>1, <1>2 DEF ApprovalInv, ApprovalTypes
  <1> DEFINE types == {log[k].type : k \in {j \in Approval!Events : log[j].app = a}}
             old == Approval!Row(a)
  <1>4. \A type : type \in types <=> Has(a, type)
    BY DEF Has
  <1>5. Approval!Rows[a] = Approval!SinkOnTransferApproval(old, a, types)
    BY <1>1, Zenon DEF Approval!Rows
  <1>6. /\ old \in Approval!Bools
        /\ old.approved <=> a \in DOMAIN approvals.rows /\ approvals.rows[a].approved
        /\ old.cancelled <=> a \in DOMAIN approvals.rows /\ approvals.rows[a].cancelled
        /\ old.finished <=> a \in DOMAIN approvals.rows /\ approvals.rows[a].finished
    <2>1. CASE a \in DOMAIN approvals.rows
      BY <2>1 DEF Approval!Row, ApprovalInv, ApprovalTypes
    <2>2. CASE a \notin DOMAIN approvals.rows
      <3>1. old = [approved |-> FALSE, cancelled |-> FALSE, finished |-> FALSE, dated |-> a \notin Undated]
        BY <2>2 DEF Approval!Row, Approval!NewRow
      <3> QED
        BY <2>2, <3>1 DEF Approval!Bools
    <2> QED
      BY <2>1, <2>2
  <1> HIDE DEF types, old
  <1>7. /\ Approval!Rows[a] \in Approval!Bools
        /\ Approval!Rows[a].approved <=> old.approved \/ "Approve" \in types
        /\ Approval!Rows[a].cancelled <=> old.cancelled \/ "Cancel" \in types
        /\ Approval!Rows[a].finished <=> old.finished \/ "EscrowFinish" \in types
    <2>1. Approval!Rows[a] = [approved |-> old.approved \/ "Approve" \in types,
                              cancelled |-> old.cancelled \/ "Cancel" \in types,
                              finished |-> old.finished \/ "EscrowFinish" \in types, dated |-> old.dated]
      BY <1>5, <1>6 DEF Approval!SinkOnTransferApproval, Approval!Bools
    <2>2. \A p, q, s, t \in BOOLEAN : [approved |-> p, cancelled |-> q, finished |-> s, dated |-> t] \in Approval!Bools
      BY DEF Approval!Bools
    <2>3. /\ old.dated \in BOOLEAN /\ (old.approved \/ "Approve" \in types) \in BOOLEAN
          /\ (old.cancelled \/ "Cancel" \in types) \in BOOLEAN /\ (old.finished \/ "EscrowFinish" \in types) \in BOOLEAN
      BY <1>6 DEF Approval!Bools
    <2>4. Approval!Rows[a] \in Approval!Bools
      BY <2>1, <2>2, <2>3, Zenon
    <2>5. ASSUME NEW row, NEW p, NEW q, NEW s, NEW t,
                 row = [approved |-> p, cancelled |-> q, finished |-> s, dated |-> t]
          PROVE  row.approved = p /\ row.cancelled = q /\ row.finished = s
      BY <2>5
    <2>6. /\ Approval!Rows[a].approved = (old.approved \/ "Approve" \in types)
          /\ Approval!Rows[a].cancelled = (old.cancelled \/ "Cancel" \in types)
          /\ Approval!Rows[a].finished = (old.finished \/ "EscrowFinish" \in types)
      BY <2>1, <2>5
    <2> QED
      BY <2>4, <2>6, Zenon
  <1> QED
    BY <1>3, <1>4, <1>6, <1>7

LEMMA ApprovalCommits ==
    ASSUME ApprovalInv, Approval!Commit
    PROVE  ApprovalInv'
  <1>1. /\ UNCHANGED <<chain, log, history, request, span>> /\ pc' # "range"
        /\ approvals'.rows = Approval!Rows /\ approvals'.synced = span.to
        /\ approvals'.notes = Approval!InsertNotifications
    BY DEF Approval!Commit, Approval!contracts
  <1>2. /\ span.from = approvals.synced /\ span.to \in 0..Len(log)
        /\ past' \in [overlooked : SUBSET Approval!Applications, aborts : Nat]
        /\ past.overlooked \subseteq past'.overlooked
        /\ \A k \in span.from + 1..span.to : /\ k \in DOMAIN log /\ log[k].app \in Approval!Applications
                                             /\ log[k].app \notin past'.overlooked => k \in Approval!Events
        /\ \A k \in Approval!Events : k \in DOMAIN log /\ k \in span.from + 1..span.to
    BY ApprovalReads
  <1>3. /\ log \in Seq(ApprovalEvent) /\ Len(log) \in Nat /\ DOMAIN log = 1..Len(log) /\ approvals.synced \in 0..Len(log)
        /\ span \in [from : Nat, to : Nat] /\ span.from <= span.to
    BY LenProperties DEF ApprovalInv, ApprovalTypes
  <1>4. /\ DOMAIN approvals'.rows = DOMAIN approvals.rows \cup {log[k].app : k \in Approval!Events}
        /\ \A a \in DOMAIN approvals'.rows :
              /\ a \in Approval!Applications /\ approvals'.rows[a] \in Approval!Bools
              /\ approvals'.rows[a].approved <=> (a \in DOMAIN approvals.rows /\ approvals.rows[a].approved) \/ Has(a, "Approve")
              /\ approvals'.rows[a].cancelled <=> (a \in DOMAIN approvals.rows /\ approvals.rows[a].cancelled) \/ Has(a, "Cancel")
              /\ approvals'.rows[a].finished <=> (a \in DOMAIN approvals.rows /\ approvals.rows[a].finished) \/ Has(a, "EscrowFinish")
    BY <1>1, ApprovalSinks
  <1>5. /\ DOMAIN approvals'.notes = 1..span.to
        /\ \A k \in 1..span.to : approvals'.notes[k] =
              Approval!Notes(k) + (IF k \in Approval!Events /\ Approval!RegisterNotification(k) THEN 1 ELSE 0)
    BY <1>1 DEF Approval!InsertNotifications
  <1>6. ApprovalTypes'
    <2>1. /\ chain \in [Approval!Applications -> Approval!States]
          /\ history \in [Approval!Applications -> Seq(Approval!Operations)]
          /\ request \in [Requests -> {Approval!Idle} \cup ApprovalRequest] /\ span.to <= Len(log)
      BY DEF ApprovalInv, ApprovalTypes
    <2> QED
      BY <1>1, <1>2, <1>3, <1>4, <1>5, <2>1 DEF ApprovalTypes, ApprovalRequest, ApprovalEvent, Approval!Applications,
         Approval!Operations, Approval!States, Approval!Bools, Approval!Idle
  <1>7. ApprovalLog' /\ ApprovalRecords'
    BY <1>1 DEF ApprovalInv, ApprovalLog, ApprovalRecords, Approval!Applications, Approval!Operations, Outcome
  <1>8. \A a, type : Has(a, type) \/ Seen(a, type, approvals.synced) => Seen(a, type, span.to)
    <2> SUFFICES ASSUME NEW a, NEW type, NEW k \in DOMAIN log, log[k].app = a, log[k].type = type,
                        k \in Approval!Events \/ k <= approvals.synced
                 PROVE  k <= span.to
      BY <1>2 DEF Has, Seen
    <2> QED
      BY <1>2, <1>3
  <1>9. \A a, type : a \notin past'.overlooked /\ Seen(a, type, span.to) => Seen(a, type, approvals.synced) \/ Has(a, type)
    <2> SUFFICES ASSUME NEW a, NEW type, a \notin past'.overlooked, NEW k \in DOMAIN log, k <= span.to,
                        log[k].app = a, log[k].type = type
                 PROVE  k <= approvals.synced \/ k \in Approval!Events
      BY DEF Has, Seen
    <2>1. k <= approvals.synced \/ k \in span.from + 1..span.to
      BY <1>2, <1>3
    <2> QED
      BY <1>2, <2>1
  <1>10. ApprovalRows
    BY DEF ApprovalInv
  <1>11. \A a \in DOMAIN approvals'.rows :
            /\ approvals'.rows[a].approved => Seen(a, "Approve", span.to)
            /\ approvals'.rows[a].cancelled => Seen(a, "Cancel", span.to)
            /\ approvals'.rows[a].finished => Seen(a, "EscrowFinish", span.to)
    BY <1>4, <1>8, <1>10 DEF ApprovalRows
  <1>12. \A a, type : Has(a, type) => a \in DOMAIN approvals'.rows
    BY <1>4 DEF Has
  <1>13. \A a \in Approval!Applications \ past'.overlooked :
            /\ Seen(a, "Approve", span.to) => a \in DOMAIN approvals'.rows /\ approvals'.rows[a].approved
            /\ Seen(a, "Cancel", span.to) => a \in DOMAIN approvals'.rows /\ approvals'.rows[a].cancelled
            /\ Seen(a, "EscrowFinish", span.to) => a \in DOMAIN approvals'.rows /\ approvals'.rows[a].finished
    <2> SUFFICES ASSUME NEW a \in Approval!Applications, a \notin past'.overlooked
                 PROVE  /\ Seen(a, "Approve", span.to) => a \in DOMAIN approvals'.rows /\ approvals'.rows[a].approved
                        /\ Seen(a, "Cancel", span.to) => a \in DOMAIN approvals'.rows /\ approvals'.rows[a].cancelled
                        /\ Seen(a, "EscrowFinish", span.to) => a \in DOMAIN approvals'.rows /\ approvals'.rows[a].finished
      OBVIOUS
    <2>1. /\ Seen(a, "Approve", approvals.synced) => a \in DOMAIN approvals.rows /\ approvals.rows[a].approved
          /\ Seen(a, "Cancel", approvals.synced) => a \in DOMAIN approvals.rows /\ approvals.rows[a].cancelled
          /\ Seen(a, "EscrowFinish", approvals.synced) => a \in DOMAIN approvals.rows /\ approvals.rows[a].finished
      BY <1>2, <1>10 DEF ApprovalRows
    <2> QED
      BY <1>4, <1>9, <1>12, <2>1
  <1>14. ApprovalRows'
    <2>1. \A a, type : Seen(a, type, approvals.synced)' <=> Seen(a, type, span.to)
      BY <1>1 DEF Seen
    <2> QED
      BY <1>11, <1>13, <2>1 DEF ApprovalRows, Approval!Applications
  <1>15. ApprovalNotes'
    <2> SUFFICES ASSUME NEW k \in 1..span.to
                 PROVE  /\ approvals'.notes[k] \in 0..1
                        /\ approvals'.notes[k] = 1 => Approval!RegisterNotification(k)
                        /\ log[k].app \notin past'.overlooked /\ Approval!RegisterNotification(k) => approvals'.notes[k] = 1
      BY <1>1 DEF ApprovalNotes, Approval!RegisterNotification
    <2>1. CASE k <= approvals.synced
      <3>1. k \in 1..approvals.synced /\ k \notin Approval!Events
        BY <1>2, <1>3, <2>1
      <3>2. Approval!Notes(k) = approvals.notes[k]
        BY <3>1 DEF ApprovalInv, ApprovalTypes, Approval!Notes
      <3>3. /\ approvals.notes[k] \in 0..1
            /\ approvals.notes[k] = 1 => Approval!RegisterNotification(k)
            /\ log[k].app \notin past.overlooked /\ Approval!RegisterNotification(k) => approvals.notes[k] = 1
        BY <3>1 DEF ApprovalInv, ApprovalNotes
      <3> QED
        BY <1>2, <1>5, <3>1, <3>2, <3>3
    <2>2. CASE ~(k <= approvals.synced)
      <3>1. k \in span.from + 1..span.to
        BY <1>2, <1>3, <2>2
      <3>2. Approval!Notes(k) = 0
        BY <1>3, <2>2 DEF ApprovalInv, ApprovalTypes, Approval!Notes
      <3> QED
        BY <1>2, <1>5, <3>1, <3>2
    <2> QED
      BY <2>1, <2>2
  <1> QED
    BY <1>6, <1>7, <1>14, <1>15 DEF ApprovalInv

LEMMA ApprovalPreserved ==
    ASSUME ApprovalAssumption, ApprovalInv, [Approval!Next]_Approval!vars
    PROVE  ApprovalInv'
  <1>1. CASE UNCHANGED Approval!vars
    <2>1. UNCHANGED <<chain, log, approvals, history, request, pc, span, past>>
      BY <1>1 DEF Approval!vars, Approval!contracts, Approval!pass
    <2> QED
      BY <2>1, ApprovalOther
  <1>2. ASSUME NEW a \in Approval!Applications,
               Approval!ApplyForTransfer(a) \/ Approval!FinishEscrow(a) \/ Approval!CancelByApplicant(a)
        PROVE  ApprovalInv'
    BY <1>2, ApprovalChainStep
  <1>3. CASE \/ Approval!TokenIsIssued \/ Approval!SetTradableExchange
             \/ Approval!GetContractList \/ Approval!StartSync \/ Approval!Rollback
    BY <1>3, ApprovalPassStep
  <1>4. CASE Approval!Commit
    BY <1>4, ApprovalCommits
  <1>5. ASSUME NEW r \in Requests, NEW a \in Approval!Applications, NEW op \in Approval!Operations,
               Approval!StartUpdate(r, a, op)
        PROVE  ApprovalInv'
    BY <1>5, ApprovalStart
  <1>6. ASSUME NEW r \in Requests,
               Approval!ApproveTransfer(r) \/ Approval!CancelAfterRevert(r) \/ Approval!CancelTransfer(r)
        PROVE  ApprovalInv'
    BY <1>6, ApprovalRequestStep
  <1>7. ASSUME NEW r \in Requests, Approval!RecordOperation(r)
        PROVE  ApprovalInv'
    BY <1>7, ApprovalRecord
  <1> QED
    BY <1>1, <1>2, <1>3, <1>4, <1>5, <1>6, <1>7, Zenon DEF Approval!Next

LEMMA ApprovalInvariant ==
    ASSUME ApprovalAssumption
    PROVE  Approval!Spec => []ApprovalInv
  <1>1. Approval!Init => ApprovalInv
    BY ApprovalInitially
  <1>2. ApprovalInv /\ [Approval!Next]_Approval!vars => ApprovalInv'
    BY ApprovalPreserved
  <1> QED
    BY <1>1, <1>2, PTL DEF Approval!Spec

LEMMA ApprovalTruth ==
    ASSUME ApprovalInv
    PROVE  Approval!StatusIsTrue /\ Approval!RecordedOnce
  <1> SUFFICES ASSUME NEW a \in DOMAIN approvals.rows
               PROVE  /\ Approval!StatusOf(a) = 2 => chain[a] = "approved"
                      /\ Approval!StatusOf(a) = 3 => chain[a] = "cancelled"
                      /\ Approval!StatusOf(a) = 1 => chain[a] \in {"finished", "approved"}
                      /\ Approval!ListHistory[a] = 1
                      /\ history[a] # <<>> => Approval!StatusOf(a) \in {2, 3}
    BY DEF Approval!StatusIsTrue, Approval!RecordedOnce
  <1>1. a \in Approval!Applications /\ approvals.rows[a] \in Approval!Bools
    BY DEF ApprovalInv, ApprovalTypes
  <1>2. /\ approvals.rows[a].approved => chain[a] = "approved"
        /\ approvals.rows[a].cancelled => chain[a] = "cancelled"
        /\ approvals.rows[a].finished => chain[a] \in {"finished", "approved"}
    BY DEF ApprovalInv, ApprovalRows, ApprovalLog, Seen
  <1>3. \/ history[a] = <<>>
        \/ \E op \in Approval!Operations : history[a] = <<op>> /\ chain[a] = Outcome(op)
    BY <1>1 DEF ApprovalInv, ApprovalRecords
  <1>4. \A op : Approval!Done(a, op) <=> history[a] = <<op>>
    <2> SUFFICES ASSUME NEW op
                 PROVE  (\E i \in 1..Len(history[a]) : history[a][i] = op) <=> history[a] = <<op>>
      BY DEF Approval!Done, Approval!Contains
    <2>1. CASE history[a] = <<>>
      BY <2>1
    <2>2. ASSUME NEW o, history[a] = <<o>>
          PROVE  (\E i \in 1..Len(history[a]) : history[a][i] = op) <=> history[a] = <<op>>
      <3>1. Len(history[a]) = 1 /\ history[a][1] = o
        BY <2>2
      <3>2. (\E i \in 1..Len(history[a]) : history[a][i] = op) <=> o = op
        BY <3>1
      <3>3. history[a] = <<op>> <=> o = op
        BY <2>2, <3>1
      <3> QED
        BY <3>2, <3>3
    <2> QED
      BY <1>3, <2>1, <2>2
  <1>5. Approval!ListHistory[a] = 1
    BY <1>3 DEF Approval!ListHistory
  <1>6. CASE history[a] = <<>>
    BY <1>1, <1>2, <1>4, <1>5, <1>6 DEF Approval!StatusOf, Approval!Bools
  <1>7. CASE history[a] # <<>>
    <2>1. PICK op \in Approval!Operations : history[a] = <<op>> /\ chain[a] = Outcome(op)
      BY <1>3, <1>7
    <2>2. op \in {"APPROVE", "CANCEL"} /\ (Approval!Done(a, "APPROVE") <=> op = "APPROVE") /\ (Approval!Done(a, "CANCEL") <=> op = "CANCEL")
      BY <1>4, <2>1 DEF Approval!Operations
    <2>3. CASE op = "APPROVE"
      BY <1>1, <1>2, <1>5, <1>7, <2>1, <2>2, <2>3 DEF Approval!StatusOf, Approval!Bools, Outcome
    <2>4. CASE op = "CANCEL"
      BY <1>1, <1>2, <1>5, <1>7, <2>1, <2>2, <2>4 DEF Approval!StatusOf, Approval!Bools, Outcome
    <2> QED
      BY <2>2, <2>3, <2>4
  <1> QED
    BY <1>6, <1>7

LEMMA ApprovalMatch ==
    ASSUME ApprovalInv
    PROVE  Approval!RowsMatch /\ Approval!NotifiedOnce
  <1>1. /\ log \in Seq(ApprovalEvent) /\ Len(log) \in Nat /\ DOMAIN log = 1..Len(log) /\ approvals.synced \in 0..Len(log)
        /\ DOMAIN approvals.notes = 1..approvals.synced
    BY LenProperties DEF ApprovalInv, ApprovalTypes
  <1>2. Approval!RowsMatch
    <2> SUFFICES ASSUME NEW a \in DOMAIN approvals.rows \ past.overlooked
                 PROVE  LET seen == {log[k].type : k \in {j \in 1..approvals.synced : log[j].app = a}}
                        IN  /\ approvals.rows[a].approved = ("Approve" \in seen)
                            /\ approvals.rows[a].cancelled = ("Cancel" \in seen)
                            /\ approvals.rows[a].finished = ("EscrowFinish" \in seen)
      BY DEF Approval!RowsMatch
    <2> DEFINE seen == {log[k].type : k \in {j \in 1..approvals.synced : log[j].app = a}}
    <2>1. \A type : type \in seen <=> Seen(a, type, approvals.synced)
      BY <1>1 DEF Seen
    <2>2. a \in Approval!Applications /\ approvals.rows[a] \in Approval!Bools
      BY DEF ApprovalInv, ApprovalTypes
    <2> HIDE DEF seen
    <2>3. /\ approvals.rows[a].approved <=> "Approve" \in seen
          /\ approvals.rows[a].cancelled <=> "Cancel" \in seen
          /\ approvals.rows[a].finished <=> "EscrowFinish" \in seen
      BY <2>1, <2>2 DEF ApprovalInv, ApprovalRows
    <2>4. /\ approvals.rows[a].approved = ("Approve" \in seen)
          /\ approvals.rows[a].cancelled = ("Cancel" \in seen)
          /\ approvals.rows[a].finished = ("EscrowFinish" \in seen)
      BY <2>2, <2>3 DEF Approval!Bools
    <2> QED
      BY <2>4 DEF seen
  <1>3. Approval!NotifiedOnce
    <2> SUFFICES ASSUME NEW k \in 1..Len(log)
                 PROVE  /\ Approval!Notes(k) <= 1
                        /\ k <= approvals.synced /\ log[k].app \notin past.overlooked /\ Approval!RegisterNotification(k)
                              => Approval!Notes(k) = 1
                        /\ ~Approval!RegisterNotification(k) => Approval!Notes(k) = 0
      BY DEF Approval!NotifiedOnce
    <2>1. CASE k <= approvals.synced
      BY <1>1, <2>1 DEF ApprovalInv, ApprovalNotes, Approval!Notes
    <2>2. CASE ~(k <= approvals.synced)
      BY <1>1, <2>2 DEF Approval!Notes
    <2> QED
      BY <2>1, <2>2
  <1> QED
    BY <1>2, <1>3

\* The status that is shown of an application is true of the contract, ahead of the index as
\* well, and an operation is recorded once, whatever requests run at the same time.
THEOREM ApprovalsShown ==
    ApprovalAssumption => (Approval!Spec => [](Approval!StatusIsTrue /\ Approval!RecordedOnce))
  <1> SUFFICES ASSUME ApprovalAssumption
               PROVE  Approval!Spec => [](Approval!StatusIsTrue /\ Approval!RecordedOnce)
    OBVIOUS
  <1>1. ApprovalInv => Approval!StatusIsTrue /\ Approval!RecordedOnce
    BY ApprovalTruth
  <1> QED
    BY <1>1, ApprovalInvariant, PTL

\* The index is what the events give, for every application it has not overlooked, and
\* the issuer is notified of each event once.
THEOREM ApprovalsIndexed ==
    ApprovalAssumption => (Approval!Spec => [](Approval!RowsMatch /\ Approval!NotifiedOnce))
  <1> SUFFICES ASSUME ApprovalAssumption
               PROVE  Approval!Spec => [](Approval!RowsMatch /\ Approval!NotifiedOnce)
    OBVIOUS
  <1>1. ApprovalInv => Approval!RowsMatch /\ Approval!NotifiedOnce
    BY ApprovalMatch
  <1> QED
    BY <1>1, ApprovalInvariant, PTL

-----------------------------------------------------------------------------
(* Ledgers: the invariant.                                                 *)

Names == {"unset", "nameless", "named"}
LedgerNames == UNION {[A -> Names] : A \in SUBSET Owners}
LedgerValue == Nat \cup LedgerNames
LedgerRows == UNION {[S -> LedgerValue] : S \in SUBSET Ledger!Sources}
LedgerRequest == [status : {"PROCESSING", "COMPLETED"}, rows : LedgerRows, old : BOOLEAN]
LedgerDetail == [detail : UNION {{t[i].detail : i \in DOMAIN t} : t \in Templates}, source : Ledger!Sources,
                 rows : LedgerValue, flag : BOOLEAN]
LedgerRow == [request : Nat, details : Seq(LedgerDetail)]

\* Data that is read for holders is theirs, also while names are looked up.
Typed(rows) == rows \in LedgerRows /\ (Fin \in DOMAIN rows => rows[Fin] \in LedgerNames)

LedgerTypes ==
    /\ template \in Templates \cup {NoTemplate} /\ data \in [DataIds -> Nat] /\ edits \in Nat
    /\ holders \subseteq Owners /\ info \in [Owners -> {"none", "nameless", "named"}]
    /\ requests \in Seq(LedgerRequest) /\ asked \in Seq(LedgerRows) /\ Len(asked) = Len(requests)
    /\ ledgers \in Seq(LedgerRow) /\ work \in LedgerRows
    /\ \A r \in DOMAIN requests : Typed(requests[r].rows)
    /\ Typed(work)

\* The data a request was made of, but for the names.
Keeps(rows, old) ==
    /\ DOMAIN rows = DOMAIN old
    /\ \A s \in DOMAIN old : IF s = Fin THEN DOMAIN rows[s] = DOMAIN old[s] ELSE rows[s] = old[s]

\* A request waits with its data; the one that the processor has read is on its list, and has
\* what was found.
LedgerRequests ==
    /\ \A r \in DOMAIN requests : requests[r].status = "PROCESSING" => Keeps(requests[r].rows, asked[r])
    /\ \A r \in todo : r \in DOMAIN requests /\ requests[r].status = "PROCESSING"
    /\ pc = "finalize" => /\ cur \in todo /\ Keeps(work, asked[cur])
                          /\ complete /\ Fin \in DOMAIN work =>
                                \A a \in DOMAIN work[Fin] \ {Issuer} : work[Fin][a] # "unset"

\* A ledger is of a request that is done with.
LedgerResults ==
    /\ \A l \in DOMAIN ledgers : ledgers[l].request \in DOMAIN requests
    /\ Ledger!ShowsTheRequest /\ Ledger!FlagTellsMissing /\ Ledger!OncePerRequest

LedgerInv == LedgerTypes /\ LedgerRequests /\ LedgerResults
TheLedgerAssumption == Ledger!LedgerAssumption

-----------------------------------------------------------------------------
(* Ledgers: the steps.                                                     *)

LEMMA NoRows == <<>> \in LedgerRows /\ Typed(<<>>) /\ DOMAIN <<>> = {} /\ <<>> \in LedgerNames
  <1>1. DOMAIN <<>> = {} /\ \A V : <<>> \in [{} -> V]
    <2>1. 1..0 = {}
      OBVIOUS
    <2>2. <<>> \in Seq({}) /\ Len(<<>>) = 0
      OBVIOUS
    <2> QED
      BY <2>1, <2>2, LenProperties
  <1>2. <<>> \in [{} -> LedgerValue] /\ <<>> \in [{} -> Names]
    BY <1>1, Zenon
  <1>3. {} \in SUBSET Ledger!Sources /\ {} \in SUBSET Owners
    OBVIOUS
  <1> QED
    BY <1>1, <1>2, <1>3, Zenon DEF LedgerRows, LedgerNames, Typed

LEMMA LedgerInitially ==
    ASSUME TheLedgerAssumption, Ledger!Init
    PROVE  LedgerInv
  <1> USE DEF TheLedgerAssumption, Ledger!LedgerAssumption, Ledger!Init
  <1>1. requests \in Seq(LedgerRequest) /\ asked \in Seq(LedgerRows) /\ ledgers \in Seq(LedgerRow)
        /\ Len(asked) = Len(requests) /\ DOMAIN requests = {} /\ DOMAIN ledgers = {}
    <2>1. requests = <<>> /\ asked = <<>> /\ ledgers = <<>>
      OBVIOUS
    <2> QED
      BY <2>1, NoRows
  <1>2. LedgerTypes
    <2>1. template = NoTemplate /\ data \in [DataIds -> Nat] /\ edits \in Nat /\ holders \subseteq Owners
          /\ info \in [Owners -> {"none", "nameless", "named"}] /\ work = <<>>
      OBVIOUS
    <2> QED
      BY <1>1, <2>1, NoRows DEF LedgerTypes
  <1>3. LedgerRequests
    BY <1>1 DEF LedgerRequests
  <1>4. LedgerResults
    BY <1>1 DEF LedgerResults, Ledger!ShowsTheRequest, Ledger!FlagTellsMissing, Ledger!OncePerRequest
  <1> QED
    BY <1>2, <1>3, <1>4 DEF LedgerInv

\* Ledgers that are there stay true as long as their requests stay as they are.
LEMMA LedgerResultsKept ==
    ASSUME LedgerInv, UNCHANGED ledgers,
           \A r \in DOMAIN requests :
              /\ r \in DOMAIN requests' /\ asked'[r] = asked[r]
              /\ requests[r].old => requests'[r].old
              /\ requests[r].status = "COMPLETED" => /\ requests'[r].status = "COMPLETED"
                                                     /\ requests'[r].rows = requests[r].rows
    PROVE  LedgerResults'
  <1>1. ASSUME NEW l \in DOMAIN ledgers'
        PROVE  /\ l \in DOMAIN ledgers /\ ledgers'[l] = ledgers[l]
               /\ ledgers[l].request \in DOMAIN requests /\ ledgers'[l].request \in DOMAIN requests'
               /\ asked'[ledgers[l].request] = asked[ledgers[l].request]
               /\ requests[ledgers[l].request].old => requests'[ledgers[l].request].old
               /\ requests[ledgers[l].request].status = "COMPLETED" =>
                     /\ requests'[ledgers[l].request].status = "COMPLETED"
                     /\ requests'[ledgers[l].request].rows = requests[ledgers[l].request].rows
    <2>1. l \in DOMAIN ledgers /\ ledgers'[l] = ledgers[l]
      BY <1>1
    <2>2. ledgers[l].request \in DOMAIN requests
      BY <2>1 DEF LedgerInv, LedgerResults
    <2>3. /\ ledgers[l].request \in DOMAIN requests'
          /\ asked'[ledgers[l].request] = asked[ledgers[l].request]
          /\ requests[ledgers[l].request].old => requests'[ledgers[l].request].old
          /\ requests[ledgers[l].request].status = "COMPLETED" =>
                /\ requests'[ledgers[l].request].status = "COMPLETED"
                /\ requests'[ledgers[l].request].rows = requests[ledgers[l].request].rows
      BY <2>2, Zenon
    <2> QED
      BY <2>1, <2>2, <2>3, Zenon
  <1>2. Ledger!ShowsTheRequest'
    <2> SUFFICES ASSUME NEW l \in DOMAIN ledgers', NEW i \in DOMAIN ledgers'[l].details,
                        ledgers'[l].details[i].source \in DOMAIN asked'[ledgers'[l].request]
                 PROVE  IF ledgers'[l].details[i].source = Fin
                        THEN DOMAIN ledgers'[l].details[i].rows = DOMAIN asked'[ledgers'[l].request][Fin]
                        ELSE ledgers'[l].details[i].rows
                               = asked'[ledgers'[l].request][ledgers'[l].details[i].source]
      BY Zenon DEF Ledger!ShowsTheRequest
    <2>1. Ledger!ShowsTheRequest
      BY DEF LedgerInv, LedgerResults
    <2> QED
      <3>1. l \in DOMAIN ledgers /\ ledgers'[l] = ledgers[l]
            /\ asked'[ledgers[l].request] = asked[ledgers[l].request]
        BY <1>1, Zenon
      <3>2. i \in DOMAIN ledgers[l].details /\ ledgers[l].details[i].source \in DOMAIN asked[ledgers[l].request]
        BY <3>1, Zenon
      <3>3. IF ledgers[l].details[i].source = Fin
            THEN DOMAIN ledgers[l].details[i].rows = DOMAIN asked[ledgers[l].request][Fin]
            ELSE ledgers[l].details[i].rows = asked[ledgers[l].request][ledgers[l].details[i].source]
        BY <2>1, <3>1, <3>2, Zenon DEF Ledger!ShowsTheRequest
      <3> QED
        BY <3>1, <3>3, Zenon
  <1>3. Ledger!FlagTellsMissing'
    <2> SUFFICES ASSUME NEW l \in DOMAIN ledgers', NEW i \in DOMAIN ledgers'[l].details,
                        ledgers'[l].details[i].source = Fin
                 PROVE  IF ledgers'[l].details[i].flag THEN requests'[ledgers'[l].request].old
                        ELSE \A a \in DOMAIN ledgers'[l].details[i].rows \ {Issuer} :
                                ledgers'[l].details[i].rows[a] # "unset"
      BY Zenon DEF Ledger!FlagTellsMissing
    <2>1. Ledger!FlagTellsMissing
      BY DEF LedgerInv, LedgerResults
    <2>2. /\ l \in DOMAIN ledgers /\ ledgers'[l] = ledgers[l]
          /\ requests[ledgers[l].request].old => requests'[ledgers[l].request].old
      BY <1>1, Zenon
    <2>3. i \in DOMAIN ledgers[l].details /\ ledgers[l].details[i].source = Fin
      BY <2>2, Zenon
    <2>4. IF ledgers[l].details[i].flag THEN requests[ledgers[l].request].old
          ELSE \A a \in DOMAIN ledgers[l].details[i].rows \ {Issuer} :
                  ledgers[l].details[i].rows[a] # "unset"
      BY <2>1, <2>2, <2>3, Zenon DEF Ledger!FlagTellsMissing
    <2> QED
      BY <2>2, <2>4, Zenon
  <1>4. Ledger!OncePerRequest'
    <2>1. Ledger!OncePerRequest
      BY DEF LedgerInv, LedgerResults
    <2> QED
      BY <1>1, <2>1 DEF Ledger!OncePerRequest
  <1> QED
    BY <1>1, <1>2, <1>3, <1>4 DEF LedgerResults

LEMMA LedgerDomains ==
    ASSUME LedgerInv
    PROVE  /\ DOMAIN requests = 1..Len(requests) /\ DOMAIN asked = DOMAIN requests /\ Len(requests) \in Nat
           /\ DOMAIN ledgers = 1..Len(ledgers) /\ Len(ledgers) \in Nat
           /\ \A r \in DOMAIN requests : requests[r] \in LedgerRequest /\ asked[r] \in LedgerRows
           /\ \A l \in DOMAIN ledgers : ledgers[l] \in LedgerRow
  <1>1. requests \in Seq(LedgerRequest) /\ asked \in Seq(LedgerRows) /\ Len(asked) = Len(requests)
        /\ ledgers \in Seq(LedgerRow)
    BY DEF LedgerInv, LedgerTypes
  <1> QED
    BY <1>1, LenProperties, ElementOfSeq

\* A template has details, each of a source.
LEMMA LedgerTemplates ==
    ASSUME TheLedgerAssumption, NEW t \in Templates
    PROVE  /\ t \in Seq([detail : {t[i].detail : i \in DOMAIN t}, source : Ledger!Sources])
           /\ DOMAIN t = 1..Len(t) /\ Len(t) \in Nat
           /\ \A i \in DOMAIN t : t[i].source \in Ledger!Sources
  <1>1. t \in Seq([detail : {t[i].detail : i \in DOMAIN t}, source : Ledger!Sources])
    BY DEF TheLedgerAssumption, Ledger!LedgerAssumption
  <1>2. DOMAIN t = 1..Len(t) /\ Len(t) \in Nat
        /\ \A i \in DOMAIN t : t[i] \in [detail : {t[j].detail : j \in DOMAIN t}, source : Ledger!Sources]
    BY <1>1, LenProperties, ElementOfSeq
  <1> QED
    BY <1>1, <1>2

\* The API, what it is told of holders and personal information, and a request of it.
LEMMA LedgerAsks ==
    ASSUME TheLedgerAssumption, LedgerInv, UNCHANGED <<ledgers, pc, todo, cur, work, complete>>,
           template' \in Templates \cup {NoTemplate}, data' \in [DataIds -> Nat], edits' \in Nat,
           holders' \subseteq Owners, info' \in [Owners -> {"none", "nameless", "named"}],
           Ledger!RequestLedgerCreation \/ UNCHANGED <<requests, asked>>
    PROVE  LedgerInv'
  <1>1. CASE UNCHANGED <<requests, asked>>
    <2>1. LedgerTypes'
      BY <1>1 DEF LedgerInv, LedgerTypes, Typed
    <2>2. LedgerRequests'
      BY <1>1 DEF LedgerInv, LedgerRequests, Keeps
    <2>3. LedgerResults'
      BY <1>1, LedgerResultsKept DEF LedgerInv
    <2> QED
      BY <2>1, <2>2, <2>3 DEF LedgerInv
  <1>2. ASSUME Ledger!RequestLedgerCreation, ~UNCHANGED <<requests, asked>> PROVE LedgerInv'
    <2>1. template' \in Templates
      BY <1>2 DEF Ledger!RequestLedgerCreation
    <2> DEFINE S == Ledger!SourcesOf(template')
    <2>2. PICK rows : /\ rows = [s \in S |-> IF s = Fin THEN [a \in holders' |-> "unset"] ELSE data'[s]]
                      /\ requests' = Append(requests, [status |-> "PROCESSING", rows |-> rows, old |-> FALSE])
                      /\ asked' = Append(asked, rows)
      BY <1>2 DEF Ledger!RequestLedgerCreation, Ledger!CreateLedgerInputDataset, Ledger!DatasetFromIbetfin,
         Ledger!DatasetFromDB
    <2>3. S \subseteq Ledger!Sources
      BY <2>1, LedgerTemplates DEF Ledger!SourcesOf
    <2> HIDE DEF S
    <2>4. [a \in holders' |-> "unset"] \in LedgerNames
      <3>1. [a \in holders' |-> "unset"] \in [holders' -> Names]
        BY DEF Names
      <3> QED
        BY <3>1 DEF LedgerNames
    <2>5. \A s \in S : s # Fin => data'[s] \in Nat
      BY <2>3 DEF Ledger!Sources
    <2>6. Typed(rows)
      <3>1. rows \in [S -> LedgerValue]
        BY <2>2, <2>4, <2>5 DEF LedgerValue
      <3>2. rows \in LedgerRows
        BY <3>1, <2>3 DEF LedgerRows
      <3>3. Fin \in DOMAIN rows => rows[Fin] = [a \in holders' |-> "unset"]
        BY <2>2
      <3> QED
        BY <3>2, <3>3, <2>4 DEF Typed
    <2> DEFINE waiting == [status |-> "PROCESSING", rows |-> rows, old |-> FALSE]
    <2>7. waiting \in LedgerRequest /\ rows \in LedgerRows
      BY <2>6 DEF LedgerRequest, Typed
    <2> HIDE DEF waiting
    <2>8. requests \in Seq(LedgerRequest) /\ asked \in Seq(LedgerRows) /\ Len(asked) = Len(requests)
      BY DEF LedgerInv, LedgerTypes
    <2>9. /\ requests' \in Seq(LedgerRequest) /\ asked' \in Seq(LedgerRows)
          /\ Len(requests') = Len(requests) + 1 /\ Len(asked') = Len(asked) + 1
          /\ \A r \in 1..Len(requests) : requests'[r] = requests[r] /\ asked'[r] = asked[r]
          /\ requests'[Len(requests) + 1] = waiting /\ asked'[Len(requests) + 1] = rows
      BY <2>2, <2>7, <2>8, AppendProperties DEF waiting
    <2>10. /\ DOMAIN requests = 1..Len(requests) /\ DOMAIN requests' = 1..Len(requests) + 1 /\ Len(requests) \in Nat
      BY <2>8, <2>9, LenProperties
    <2>11. waiting.status = "PROCESSING" /\ waiting.rows = rows
      BY DEF waiting
    <2>12. LedgerTypes'
      <3>1. \A r \in DOMAIN requests' : Typed(requests'[r].rows)
        BY <2>6, <2>9, <2>10, <2>11 DEF LedgerInv, LedgerTypes
      <3>2. Typed(work)' /\ work' \in LedgerRows /\ ledgers' \in Seq(LedgerRow)
        BY DEF LedgerInv, LedgerTypes, Typed
      <3>3. Len(asked') = Len(requests')
        BY <2>8, <2>9
      <3> QED
        BY <2>9, <3>1, <3>2, <3>3 DEF LedgerTypes, Typed
    <2>13. LedgerRequests'
      <3>1. \A r \in DOMAIN requests' : requests'[r].status = "PROCESSING" => Keeps(requests'[r].rows, asked'[r])
        BY <2>9, <2>10, <2>11 DEF LedgerInv, LedgerRequests, Keeps
      <3>2. \A r \in todo : r \in DOMAIN requests' /\ requests'[r].status = "PROCESSING"
        BY <2>9, <2>10 DEF LedgerInv, LedgerRequests
      <3>3. pc = "finalize" => asked'[cur] = asked[cur]
        BY <2>9, <2>10 DEF LedgerInv, LedgerRequests
      <3> QED
        BY <3>1, <3>2, <3>3 DEF LedgerInv, LedgerRequests, Keeps
    <2>14. LedgerResults'
      BY <2>9, <2>10, LedgerResultsKept
    <2> QED
      BY <2>12, <2>13, <2>14 DEF LedgerInv
  <1> QED
    BY <1>1, <1>2

LEMMA LedgerTimeLimit ==
    ASSUME LedgerInv, NEW r, Ledger!TimeLimit(r)
    PROVE  LedgerInv'
  <1>1. /\ r \in DOMAIN requests /\ requests' = [requests EXCEPT ![r].old = TRUE]
        /\ UNCHANGED <<template, data, edits, holders, info, asked, ledgers, pc, todo, cur, work, complete>>
    BY DEF Ledger!TimeLimit, Ledger!api, Ledger!session
  <1>2. requests \in Seq(LedgerRequest) /\ \A s \in DOMAIN requests : requests[s] \in LedgerRequest
    BY LedgerDomains DEF LedgerInv, LedgerTypes
  <1>3. /\ requests' \in Seq(LedgerRequest) /\ DOMAIN requests' = DOMAIN requests /\ Len(requests') = Len(requests)
        /\ \A s \in DOMAIN requests : /\ requests'[s].status = requests[s].status
                                      /\ requests'[s].rows = requests[s].rows
                                      /\ requests[s].old => requests'[s].old
    <2>1. [requests[r] EXCEPT !.old = TRUE] \in LedgerRequest
      BY <1>1, <1>2 DEF LedgerRequest
    <2>2. requests' = [requests EXCEPT ![r] = [requests[r] EXCEPT !.old = TRUE]]
      BY <1>1
    <2>3. requests' \in Seq(LedgerRequest) /\ Len(requests') = Len(requests)
      BY <1>1, <1>2, <2>1, <2>2, ExceptSeq
    <2>4. DOMAIN requests' = DOMAIN requests
      BY <2>2
    <2> QED
      BY <1>1, <1>2, <2>2, <2>3, <2>4 DEF LedgerRequest
  <1>4. LedgerTypes'
    BY <1>1, <1>3 DEF LedgerInv, LedgerTypes, Typed
  <1>5. LedgerRequests'
    BY <1>1, <1>3 DEF LedgerInv, LedgerRequests, Keeps
  <1>6. LedgerResults'
    BY <1>1, <1>3, LedgerResultsKept
  <1> QED
    BY <1>4, <1>5, <1>6 DEF LedgerInv

\* What the processor does between requests, and with one it has read.
LEMMA LedgerSession ==
    ASSUME LedgerInv, UNCHANGED <<template, data, edits, holders, info, requests, ledgers, asked>>,
           Typed(work'), \A r \in todo' : r \in DOMAIN requests /\ requests[r].status = "PROCESSING",
           pc' = "finalize" => /\ cur' \in todo' /\ Keeps(work', asked[cur'])
                               /\ complete' /\ Fin \in DOMAIN work' =>
                                     \A a \in DOMAIN work'[Fin] \ {Issuer} : work'[Fin][a] # "unset"
    PROVE  LedgerInv'
  <1>1. LedgerTypes'
    BY DEF LedgerInv, LedgerTypes, Typed
  <1>2. LedgerRequests'
    BY DEF LedgerInv, LedgerRequests, Keeps
  <1>3. LedgerResults'
    <2>1. \A r \in DOMAIN requests : r \in DOMAIN requests' /\ asked'[r] = asked[r] /\ requests'[r] = requests[r]
      OBVIOUS
    <2> QED
      BY <2>1, LedgerResultsKept
  <1> QED
    BY <1>1, <1>2, <1>3 DEF LedgerInv

LEMMA LedgerQuiet ==
    ASSUME LedgerInv, Ledger!StartPass \/ Ledger!EndPass \/ Ledger!Abort
    PROVE  LedgerInv'
  <1> USE DEF Ledger!api, Ledger!tables
  <1>1. CASE Ledger!StartPass
    <2>1. \A r \in todo' : r \in DOMAIN requests /\ requests[r].status = "PROCESSING"
      BY <1>1 DEF Ledger!StartPass
    <2>2. pc' = "pass" /\ UNCHANGED <<template, data, edits, holders, info, requests, ledgers, asked, work>>
      BY <1>1 DEF Ledger!StartPass
    <2>3. Typed(work')
      BY <2>2 DEF LedgerInv, LedgerTypes, Typed
    <2> QED
      BY <2>1, <2>2, <2>3, LedgerSession
  <1>2. CASE Ledger!EndPass
    <2>1. pc' = "idle" /\ UNCHANGED <<template, data, edits, holders, info, requests, ledgers, asked, work, todo>>
      BY <1>2 DEF Ledger!EndPass
    <2>2. Typed(work') /\ \A r \in todo' : r \in DOMAIN requests /\ requests[r].status = "PROCESSING"
      BY <2>1 DEF LedgerInv, LedgerTypes, LedgerRequests, Typed
    <2> QED
      BY <2>1, <2>2, LedgerSession
  <1>3. CASE Ledger!Abort
    <2>1. /\ pc' = "idle" /\ todo' = {} /\ work' = <<>>
          /\ UNCHANGED <<template, data, edits, holders, info, requests, ledgers, asked>>
      BY <1>3 DEF Ledger!Abort, Ledger!EndRequest
    <2>2. Typed(work')
      BY <2>1, NoRows
    <2> QED
      BY <2>1, <2>2, LedgerSession
  <1> QED
    BY <1>1, <1>2, <1>3

\* Names are looked up for the holders of the request and put into its data.
LEMMA LedgerSync ==
    ASSUME LedgerInv, NEW r, Ledger!SyncRequest(r)
    PROVE  LedgerInv'
  <1> DEFINE rows == requests[r].rows
             unset == Ledger!Unset(rows)
             found == {a \in unset : info[a] # "none"}
  <1>1. /\ r \in todo /\ cur' = r /\ work' = Ledger!Named(rows, found) /\ complete' = (unset = found)
        /\ UNCHANGED <<template, data, edits, holders, info, requests, ledgers, asked, todo>>
    BY DEF Ledger!SyncRequest, Ledger!api, Ledger!tables
  <1>2. r \in DOMAIN requests /\ requests[r].status = "PROCESSING" /\ Keeps(rows, asked[r])
    BY <1>1 DEF LedgerInv, LedgerRequests
  <1>3. Typed(rows) /\ info \in [Owners -> {"none", "nameless", "named"}]
    BY <1>2 DEF LedgerInv, LedgerTypes
  <1> HIDE DEF rows
  <1>4. DOMAIN work' = DOMAIN rows /\ \A s \in DOMAIN rows : s # Fin => work'[s] = rows[s]
    BY <1>1 DEF Ledger!Named
  <1>5. ASSUME Fin \in DOMAIN rows
        PROVE  /\ DOMAIN work'[Fin] = DOMAIN rows[Fin] /\ work'[Fin] \in LedgerNames
               /\ unset = found => \A a \in DOMAIN work'[Fin] \ {Issuer} : work'[Fin][a] # "unset"
    <2>1. PICK A \in SUBSET Owners : rows[Fin] \in [A -> Names]
      BY <1>3, <1>5 DEF Typed, LedgerNames
    <2>2. work'[Fin] = [a \in A |-> IF a \in found THEN info[a] ELSE rows[Fin][a]]
      BY <1>1, <1>5, <2>1 DEF Ledger!Named
    <2>3. unset = {a \in A \ {Issuer} : rows[Fin][a] # "named"}
      BY <1>5, <2>1 DEF Ledger!Unset
    <2>4. work'[Fin] \in [A -> Names]
      <3>1. \A a \in found : a \in A /\ info[a] \in Names
        BY <1>3, <2>1, <2>3 DEF Names
      <3> QED
        BY <2>1, <2>2, <3>1
    <2>5. ASSUME unset = found, NEW a \in A \ {Issuer} PROVE work'[Fin][a] # "unset"
      <3>1. CASE a \in found
        BY <2>2, <3>1, <1>3, <2>1
      <3>2. CASE a \notin found
        BY <2>2, <2>3, <2>5, <3>2
      <3> QED
        BY <3>1, <3>2
    <2>6. DOMAIN rows[Fin] = A /\ DOMAIN work'[Fin] = A
      BY <2>1, <2>4
    <2> QED
      BY <2>1, <2>4, <2>5, <2>6 DEF LedgerNames
  <1>6. Typed(work')
    <2>1. PICK S \in SUBSET Ledger!Sources : rows \in [S -> LedgerValue]
      BY <1>3 DEF Typed, LedgerRows
    <2>2. work' = [s \in S |-> work'[s]]
      BY <1>1, <2>1 DEF Ledger!Named
    <2>3. \A s \in S : work'[s] \in LedgerValue
      BY <1>4, <1>5, <2>1 DEF LedgerValue
    <2>4. work' \in [S -> LedgerValue]
      BY <2>2, <2>3
    <2>5. work' \in LedgerRows
      BY <2>4 DEF LedgerRows
    <2> QED
      BY <1>4, <1>5, <2>5 DEF Typed
  <1>7. Keeps(work', asked[r])
    BY <1>2, <1>4, <1>5 DEF Keeps
  <1>8. \A s \in todo' : s \in DOMAIN requests /\ requests[s].status = "PROCESSING"
    BY <1>1 DEF LedgerInv, LedgerRequests
  <1>9. complete' /\ Fin \in DOMAIN work' => \A a \in DOMAIN work'[Fin] \ {Issuer} : work'[Fin][a] # "unset"
    BY <1>1, <1>4, <1>5
  <1> QED
    BY <1>1, <1>6, <1>7, <1>8, <1>9, LedgerSession

\* The end of a request: its data, or a ledger made of it.
LEMMA LedgerFinal ==
    ASSUME TheLedgerAssumption, LedgerInv, Ledger!Finalize
    PROVE  LedgerInv'
  <1>1. /\ pc = "finalize" /\ pc' = "pass" /\ todo' = todo \ {cur} /\ work' = <<>>
        /\ UNCHANGED <<template, data, edits, holders, info, asked>>
    BY DEF Ledger!Finalize, Ledger!EndRequest, Ledger!api
  <1>2. /\ cur \in DOMAIN requests /\ requests[cur].status = "PROCESSING" /\ Keeps(work, asked[cur])
        /\ complete /\ Fin \in DOMAIN work => \A a \in DOMAIN work[Fin] \ {Issuer} : work[Fin][a] # "unset"
    BY <1>1 DEF LedgerInv, LedgerRequests
  <1>3. Typed(work) /\ work \in LedgerRows
    BY DEF LedgerInv, LedgerTypes
  <1>4. requests \in Seq(LedgerRequest) /\ cur \in 1..Len(requests) /\ requests[cur] \in LedgerRequest
        /\ ledgers \in Seq(LedgerRow) /\ DOMAIN ledgers = 1..Len(ledgers) /\ Len(ledgers) \in Nat
        /\ DOMAIN requests = 1..Len(requests) /\ Len(requests) \in Nat
    BY <1>2, LedgerDomains DEF LedgerInv, LedgerTypes
  <1> DEFINE ready == (complete \/ requests[cur].old) /\ template # NoTemplate
             done == complete \/ requests[cur].old
  <1>5. PICK new : /\ requests' = [requests EXCEPT ![cur] = new]
                   /\ new.old = requests[cur].old /\ new \in LedgerRequest /\ Typed(new.rows)
                   /\ new.status = "PROCESSING" => new.rows = work
                   /\ ready => new.status = "COMPLETED" /\ new.rows = <<>>
    <2>1. CASE ~done
      <3>1. requests' = [requests EXCEPT ![cur].rows = work]
        BY <1>1, <2>1 DEF Ledger!Finalize
      <3> DEFINE n == [requests[cur] EXCEPT !.rows = work]
      <3>2. n.old = requests[cur].old /\ n \in LedgerRequest /\ n.rows = work
        BY <1>3, <1>4 DEF LedgerRequest
      <3>3. requests' = [requests EXCEPT ![cur] = n]
        BY <3>1
      <3> HIDE DEF n
      <3> QED
        BY <2>1, <3>2, <3>3, <1>3
    <2>2. CASE done /\ template = NoTemplate
      <3>1. requests' = [requests EXCEPT ![cur].status = "COMPLETED", ![cur].rows = work]
        BY <1>1, <2>2 DEF Ledger!Finalize, Ledger!FinalizeLedger
      <3> DEFINE n == [requests[cur] EXCEPT !.status = "COMPLETED", !.rows = work]
      <3>2. n.old = requests[cur].old /\ n \in LedgerRequest /\ n.rows = work /\ n.status = "COMPLETED"
        BY <1>3, <1>4 DEF LedgerRequest
      <3>3. requests' = [requests EXCEPT ![cur] = n]
        BY <1>4, <3>1 DEF LedgerRequest
      <3> HIDE DEF n
      <3> QED
        BY <2>2, <3>2, <3>3, <1>3
    <2>3. CASE ready
      <3>1. requests' = [requests EXCEPT ![cur].status = "COMPLETED", ![cur].rows = <<>>]
        BY <1>1, <2>3 DEF Ledger!Finalize, Ledger!FinalizeLedger
      <3> DEFINE n == [requests[cur] EXCEPT !.status = "COMPLETED", !.rows = <<>>]
      <3>2. n.old = requests[cur].old /\ n \in LedgerRequest /\ n.rows = <<>> /\ n.status = "COMPLETED"
        BY <1>4, NoRows DEF LedgerRequest
      <3>3. requests' = [requests EXCEPT ![cur] = n]
        BY <1>4, <3>1 DEF LedgerRequest
      <3> HIDE DEF n
      <3> QED
        BY <2>3, <3>2, <3>3, NoRows
    <2> QED
      BY <2>1, <2>2, <2>3
  <1>6. \/ UNCHANGED ledgers
        \/ ready /\ ledgers' = Append(ledgers, [request |-> cur, details |-> Ledger!DetailsOf(work, ~complete)])
    BY <1>1 DEF Ledger!Finalize, Ledger!FinalizeLedger
  <1> HIDE DEF ready, done
  <1>7. /\ requests' \in Seq(LedgerRequest) /\ Len(requests') = Len(requests) /\ DOMAIN requests' = DOMAIN requests
        /\ requests'[cur] = new /\ \A r \in DOMAIN requests : r # cur => requests'[r] = requests[r]
    BY <1>2, <1>4, <1>5, ExceptSeq
  <1>8. LedgerRequests'
    <2>1. \A r \in DOMAIN requests' : requests'[r].status = "PROCESSING" => Keeps(requests'[r].rows, asked[r])
      <3> SUFFICES ASSUME NEW r \in DOMAIN requests', requests'[r].status = "PROCESSING"
                   PROVE  Keeps(requests'[r].rows, asked[r])
        OBVIOUS
      <3>1. CASE r = cur
        BY <1>2, <1>5, <1>7, <3>1
      <3>2. CASE r # cur
        BY <1>7, <3>2 DEF LedgerInv, LedgerRequests
      <3> QED
        BY <3>1, <3>2
    <2>2. \A r \in todo' : r \in DOMAIN requests' /\ requests'[r].status = "PROCESSING"
      BY <1>1, <1>7 DEF LedgerInv, LedgerRequests
    <2> QED
      BY <1>1, <2>1, <2>2 DEF LedgerRequests, Keeps
  <1>9. /\ \A r \in DOMAIN requests : requests[r].old => requests'[r].old
        /\ \A r \in DOMAIN requests : requests[r].status = "COMPLETED" => requests'[r] = requests[r]
    BY <1>2, <1>5, <1>7
  <1>10. CASE UNCHANGED ledgers
    <2>1. LedgerTypes'
      <3>1. \A r \in DOMAIN requests' : Typed(requests'[r].rows)
        BY <1>5, <1>7 DEF LedgerInv, LedgerTypes
      <3> QED
        BY <1>1, <1>7, <1>10, <3>1, NoRows DEF LedgerInv, LedgerTypes, Typed
    <2>2. LedgerResults'
      BY <1>1, <1>7, <1>9, <1>10, LedgerResultsKept
    <2> QED
      BY <1>8, <2>1, <2>2 DEF LedgerInv
  <1>11. ASSUME ready, ledgers' = Append(ledgers, [request |-> cur, details |-> Ledger!DetailsOf(work, ~complete)])
         PROVE  LedgerInv'
    <2> DEFINE details == Ledger!DetailsOf(work, ~complete)
               ledger == [request |-> cur, details |-> details]
    <2>1. template \in Templates /\ (complete \/ requests[cur].old)
      BY <1>11 DEF ready, LedgerInv, LedgerTypes
    <2>2. /\ DOMAIN template = 1..Len(template) /\ Len(template) \in Nat
          /\ \A i \in DOMAIN template : template[i].source \in Ledger!Sources
      BY <2>1, LedgerTemplates
    <2>3. /\ DOMAIN details = DOMAIN template
          /\ \A i \in DOMAIN template : /\ details[i] = [detail |-> template[i].detail, source |-> template[i].source,
                                                         rows |-> Ledger!RowsOf(work, template[i].source),
                                                         flag |-> ~complete /\ template[i].source = Fin]
      BY DEF Ledger!DetailsOf
    <2> HIDE DEF details
    <2>4. \A s \in Ledger!Sources : /\ Ledger!RowsOf(work, s) \in LedgerValue
                                    /\ s \in DOMAIN work => Ledger!RowsOf(work, s) = work[s]
                                    /\ s \notin DOMAIN work /\ s = Fin => Ledger!RowsOf(work, s) = <<>>
      <3>1. PICK S \in SUBSET Ledger!Sources : work \in [S -> LedgerValue]
        BY <1>3 DEF LedgerRows
      <3> QED
        BY <3>1, NoRows DEF Ledger!RowsOf, LedgerValue
    <2>5. ledger \in LedgerRow
      <3>1. \A i \in DOMAIN template : details[i] \in LedgerDetail
        <4> SUFFICES ASSUME NEW i \in DOMAIN template
                     PROVE  details[i] \in LedgerDetail
          OBVIOUS
        <4>1. template[i].detail \in UNION {{t[j].detail : j \in DOMAIN t} : t \in Templates}
          BY <2>1
        <4>2. template[i].source \in Ledger!Sources /\ Ledger!RowsOf(work, template[i].source) \in LedgerValue
          BY <2>2, <2>4
        <4>3. (~complete /\ template[i].source = Fin) \in BOOLEAN
          OBVIOUS
        <4> QED
          <5> DEFINE D == UNION {{t[j].detail : j \in DOMAIN t} : t \in Templates}
          <5>1. \A d \in D, src \in Ledger!Sources, r \in LedgerValue, flag \in BOOLEAN :
                   [detail |-> d, source |-> src, rows |-> r, flag |-> flag] \in LedgerDetail
            <6>1. LedgerDetail = [detail : D, source : Ledger!Sources, rows : LedgerValue, flag : BOOLEAN]
              BY DEF LedgerDetail
            <6> HIDE DEF D
            <6> QED
              BY <6>1
          <5> QED
            BY <2>3, <4>1, <4>2, <4>3, <5>1, Zenon
      <3>2. details \in [1..Len(template) -> LedgerDetail]
        <4>1. details = [i \in DOMAIN template |-> details[i]]
          BY <2>3 DEF details, Ledger!DetailsOf
        <4> QED
          BY <2>2, <3>1, <4>1
      <3>3. details \in Seq(LedgerDetail)
        BY <2>2, <3>2, SeqDef
      <3> QED
        BY <1>4, <3>3 DEF LedgerRow
    <2>6. ledger.request = cur /\ ledger.details = details
      OBVIOUS
    <2>7. ledgers' = Append(ledgers, ledger)
      BY <1>11 DEF details
    <2> HIDE DEF ledger
    <2>8. /\ ledgers' \in Seq(LedgerRow) /\ DOMAIN ledgers' = 1..Len(ledgers) + 1
          /\ \A l \in DOMAIN ledgers : l \in DOMAIN ledgers' /\ ledgers'[l] = ledgers[l]
          /\ ledgers'[Len(ledgers) + 1] = ledger
          /\ \A l \in DOMAIN ledgers' : l \in DOMAIN ledgers \/ l = Len(ledgers) + 1
      <3>1. /\ ledgers' \in Seq(LedgerRow) /\ Len(ledgers') = Len(ledgers) + 1
            /\ \A l \in 1..Len(ledgers) : ledgers'[l] = ledgers[l]
            /\ ledgers'[Len(ledgers) + 1] = ledger
        BY <1>4, <2>5, <2>7, AppendProperties
      <3>2. DOMAIN ledgers' = 1..Len(ledgers')
        BY <3>1, LenProperties
      <3> QED
        BY <1>4, <3>1, <3>2
    <2>9. LedgerTypes'
      <3>1. \A r \in DOMAIN requests' : Typed(requests'[r].rows)
        BY <1>5, <1>7 DEF LedgerInv, LedgerTypes
      <3> QED
        BY <1>1, <1>7, <2>8, <3>1, NoRows DEF LedgerInv, LedgerTypes, Typed
    <2>10. \A i \in DOMAIN details : /\ details[i].source \in Ledger!Sources
                                     /\ details[i].rows = Ledger!RowsOf(work, details[i].source)
                                     /\ details[i].flag = (~complete /\ details[i].source = Fin)
      BY <2>2, <2>3
    <2>11. Ledger!ShowsTheRequest'
      <3>1. ASSUME NEW l \in DOMAIN ledgers', NEW i \in DOMAIN ledgers'[l].details,
                   ledgers'[l].details[i].source \in DOMAIN asked'[ledgers'[l].request]
            PROVE  IF ledgers'[l].details[i].source = Fin
                   THEN DOMAIN ledgers'[l].details[i].rows = DOMAIN asked'[ledgers'[l].request][Fin]
                   ELSE ledgers'[l].details[i].rows
                          = asked'[ledgers'[l].request][ledgers'[l].details[i].source]
        <4>1. CASE l \in DOMAIN ledgers
          <5>1. Ledger!ShowsTheRequest /\ ledgers'[l] = ledgers[l] /\ asked' = asked
            BY <1>1, <2>8, <4>1 DEF LedgerInv, LedgerResults
          <5> QED
            BY <3>1, <4>1, <5>1, Zenon DEF Ledger!ShowsTheRequest
        <4>2. CASE l = Len(ledgers) + 1
          <5>1. ledgers'[l].details = details /\ ledgers'[l].request = cur /\ asked' = asked
            BY <1>1, <2>6, <2>8, <4>2
          <5>2. i \in DOMAIN details /\ details[i].source \in DOMAIN asked[cur]
            BY <3>1, <5>1
          <5>3. details[i].source \in DOMAIN work /\ details[i].rows = work[details[i].source]
            BY <1>2, <2>4, <2>10, <5>2 DEF Keeps
          <5> QED
            BY <1>2, <5>1, <5>2, <5>3 DEF Keeps
        <4> QED
          BY <2>8, <3>1, <4>1, <4>2
      <3> QED
        BY <3>1, Zenon DEF Ledger!ShowsTheRequest
    <2>12. Ledger!FlagTellsMissing'
      <3>1. ASSUME NEW l \in DOMAIN ledgers', NEW i \in DOMAIN ledgers'[l].details,
                   ledgers'[l].details[i].source = Fin
            PROVE  IF ledgers'[l].details[i].flag THEN requests'[ledgers'[l].request].old
                   ELSE \A a \in DOMAIN ledgers'[l].details[i].rows \ {Issuer} :
                           ledgers'[l].details[i].rows[a] # "unset"
        <4>1. CASE l \in DOMAIN ledgers
          <5>1. Ledger!FlagTellsMissing /\ ledgers'[l] = ledgers[l] /\ ledgers[l].request \in DOMAIN requests
            BY <2>8, <4>1 DEF LedgerInv, LedgerResults
          <5>2. requests[ledgers[l].request].old => requests'[ledgers[l].request].old
            BY <1>9, <5>1
          <5> QED
            BY <3>1, <4>1, <5>1, <5>2, Zenon DEF Ledger!FlagTellsMissing
        <4>2. CASE l = Len(ledgers) + 1
          <5>1. ledgers'[l].details = details /\ ledgers'[l].request = cur
            BY <2>6, <2>8, <4>2
          <5>2. i \in DOMAIN details /\ details[i].source = Fin
            BY <3>1, <5>1
          <5>3. details[i].flag => requests'[cur].old
            BY <1>5, <1>7, <2>1, <2>10, <5>2
          <5>4. ASSUME ~details[i].flag PROVE \A a \in DOMAIN details[i].rows \ {Issuer} : details[i].rows[a] # "unset"
            <6>1. complete
              BY <2>10, <5>2, <5>4
            <6>2. CASE Fin \in DOMAIN work
              BY <1>2, <2>4, <2>10, <5>2, <6>1, <6>2
            <6>3. CASE Fin \notin DOMAIN work
              BY <2>4, <2>10, <5>2, <6>3, NoRows
            <6> QED
              BY <6>2, <6>3
          <5> QED
            BY <5>1, <5>3, <5>4
        <4> QED
          BY <2>8, <3>1, <4>1, <4>2
      <3> QED
        BY <3>1, Zenon DEF Ledger!FlagTellsMissing
    <2>13. Ledger!OncePerRequest'
      <3>1. \A l \in DOMAIN ledgers : /\ ledgers[l].request \in DOMAIN requests /\ ledgers[l].request # cur
                                      /\ requests'[ledgers[l].request].status = "COMPLETED"
                                      /\ requests'[ledgers[l].request].rows = <<>>
                                      /\ \A m \in DOMAIN ledgers : ledgers[m].request = ledgers[l].request => m = l
        BY <1>2, <1>9 DEF LedgerInv, LedgerResults, Ledger!OncePerRequest
      <3>2. requests'[cur].status = "COMPLETED" /\ requests'[cur].rows = <<>>
        BY <1>5, <1>7, <1>11
      <3> QED
        BY <2>6, <2>8, <3>1, <3>2 DEF Ledger!OncePerRequest
    <2>14. \A l \in DOMAIN ledgers' : ledgers'[l].request \in DOMAIN requests'
      BY <1>2, <1>7, <2>6, <2>8 DEF LedgerInv, LedgerResults
    <2> QED
      BY <1>8, <2>9, <2>11, <2>12, <2>13, <2>14 DEF LedgerInv, LedgerResults
  <1> QED
    BY <1>6, <1>10, <1>11

LEMMA LedgerPreserved ==
    ASSUME TheLedgerAssumption, LedgerInv, [Ledger!Next]_Ledger!vars
    PROVE  LedgerInv'
  <1> USE DEF Ledger!session, Ledger!tables, Ledger!api
  <1>1. LedgerTypes
    BY DEF LedgerInv
  <1>2. CASE UNCHANGED Ledger!vars
    <2>1. UNCHANGED <<template, data, edits, holders, info, requests, ledgers, asked, pc, todo, cur, work, complete>>
      BY <1>2 DEF Ledger!vars
    <2> QED
      BY <1>1, <2>1, LedgerAsks DEF LedgerTypes
  <1>3. ASSUME NEW t \in Templates, Ledger!CreateUpdateTemplate(t) PROVE LedgerInv'
    <2>1. /\ UNCHANGED <<ledgers, pc, todo, cur, work, complete, data, edits, holders, info>>
          /\ template' = t /\ Ledger!RequestLedgerCreation
      BY <1>3 DEF Ledger!CreateUpdateTemplate
    <2> QED
      BY <1>1, <2>1, LedgerAsks DEF LedgerTypes
  <1>4. CASE Ledger!DeleteTemplate
    <2>1. /\ UNCHANGED <<ledgers, pc, todo, cur, work, complete, data, edits, holders, info, requests, asked>>
          /\ template' = NoTemplate
      BY <1>4 DEF Ledger!DeleteTemplate
    <2> QED
      BY <1>1, <2>1, LedgerAsks DEF LedgerTypes
  <1>5. ASSUME NEW d \in DataIds,
               Ledger!CreateDetailsData(d) \/ Ledger!UpdateDetailsData(d) \/ Ledger!DeleteDetailsData(d)
        PROVE  LedgerInv'
    <2>1. /\ UNCHANGED <<ledgers, pc, todo, cur, work, complete, template, holders, info>>
          /\ Ledger!RequestLedgerCreation \/ UNCHANGED <<requests, asked>>
          /\ edits' \in {edits, edits + 1} /\ data' \in {[data EXCEPT ![d] = 0], [data EXCEPT ![d] = edits']}
      BY <1>5 DEF Ledger!CreateDetailsData, Ledger!UpdateDetailsData, Ledger!DeleteDetailsData
    <2>2. edits' \in Nat /\ data' \in [DataIds -> Nat]
      <3>1. edits \in Nat /\ data \in [DataIds -> Nat]
        BY <1>1, Zenon DEF LedgerTypes
      <3>2. edits' \in Nat
        BY <2>1, <3>1
      <3>3. CASE data' = [data EXCEPT ![d] = 0]
        BY <3>1, <3>2, <3>3
      <3>4. CASE data' = [data EXCEPT ![d] = edits']
        BY <3>1, <3>2, <3>4
      <3> QED
        BY <2>1, <3>2, <3>3, <3>4, Zenon
    <2> QED
      BY <1>1, <2>1, <2>2, LedgerAsks DEF LedgerTypes
  <1>6. ASSUME NEW h \in SUBSET Owners, Ledger!UtxoChanged(h) PROVE LedgerInv'
    <2>1. /\ UNCHANGED <<ledgers, pc, todo, cur, work, complete, template, data, edits, info>>
          /\ holders' = h
          /\ Ledger!RequestLedgerCreation \/ UNCHANGED <<requests, asked>>
      BY <1>6 DEF Ledger!UtxoChanged
    <2> QED
      BY <1>1, <2>1, LedgerAsks DEF LedgerTypes
  <1>7. ASSUME NEW a \in Owners, NEW v \in {"none", "nameless", "named"}, Ledger!InfoChanged(a, v) PROVE LedgerInv'
    <2>1. /\ UNCHANGED <<ledgers, pc, todo, cur, work, complete, template, data, edits, holders, requests, asked>>
          /\ info' = [info EXCEPT ![a] = v]
      BY <1>7 DEF Ledger!InfoChanged
    <2>2. info' \in [Owners -> {"none", "nameless", "named"}]
      BY <1>1, <2>1 DEF LedgerTypes
    <2> QED
      BY <1>1, <2>1, <2>2, LedgerAsks DEF LedgerTypes
  <1>8. ASSUME NEW r, Ledger!TimeLimit(r) \/ Ledger!SyncRequest(r) PROVE LedgerInv'
    BY <1>8, LedgerTimeLimit, LedgerSync
  <1>9. CASE Ledger!StartPass \/ Ledger!EndPass \/ Ledger!Abort
    BY <1>9, LedgerQuiet
  <1>10. CASE Ledger!Finalize
    BY <1>10, LedgerFinal
  <1> QED
    BY <1>2, <1>3, <1>4, <1>5, <1>6, <1>7, <1>8, <1>9, <1>10, Zenon DEF Ledger!Next

\* The query of a ledger with the latest information: a flag for each detail.
LEMMA LedgerLatest ==
    ASSUME LedgerInv
    PROVE  Ledger!LatestTellsMissing
  <1> DEFINE Fins == IF template = NoTemplate THEN {}
                     ELSE {template[i].detail : i \in {j \in DOMAIN template : template[j].source = Fin}}
             Missing(d) == /\ d.detail \in Fins /\ d.source = Fin
                           /\ \E a \in DOMAIN d.rows \ {Issuer} : info[a] = "none"
  <1> SUFFICES ASSUME NEW l \in DOMAIN ledgers
               PROVE  LET details == ledgers[l].details
                          flags == Ledger!LatestFlags(ledgers[l])
                          fin == {i \in DOMAIN details : details[i].source = Fin}
                          lacking == {i \in fin : \E a \in DOMAIN details[i].rows \ {Issuer} : info[a] = "none"}
                      IN  /\ lacking = {} => \A i \in DOMAIN details : ~flags[i]
                          /\ (lacking # {} /\ template # NoTemplate
                                /\ \A i \in fin : \E j \in DOMAIN template :
                                      template[j].detail = details[i].detail /\ template[j].source = Fin)
                             => flags[Len(details)]
    BY Zenon DEF Ledger!LatestTellsMissing
  <1> DEFINE details == ledgers[l].details
             flags == Ledger!LatestFlags(ledgers[l])
             fin == {i \in DOMAIN details : details[i].source = Fin}
             lacking == {i \in fin : \E a \in DOMAIN details[i].rows \ {Issuer} : info[a] = "none"}
  <1>4. flags = [i \in DOMAIN details |-> \E j \in 1..i : Missing(details[j])]
    BY Zenon DEF Ledger!LatestFlags
  <1> HIDE DEF flags
  <1>1. DOMAIN details = 1..Len(details) /\ Len(details) \in Nat
    <2>1. details \in Seq(LedgerDetail)
      BY LedgerDomains DEF LedgerRow
    <2> QED
      BY <2>1, LenProperties
  <1> HIDE DEF Fins, details
  <1>2. ASSUME lacking = {}, NEW i \in DOMAIN details PROVE ~flags[i]
    <2>1. \A j \in 1..i : ~Missing(details[j])
      BY <1>1, <1>2
    <2> QED
      BY <1>2, <1>4, <2>1
  <1>3. ASSUME lacking # {}, template # NoTemplate,
               \A i \in fin : \E j \in DOMAIN template : template[j].detail = details[i].detail /\ template[j].source = Fin
        PROVE  flags[Len(details)]
    <2>1. PICK i \in lacking : TRUE
      BY <1>3
    <2>2. i \in 1..Len(details) /\ Len(details) \in DOMAIN details
      BY <1>1, <2>1
    <2>3. details[i].detail \in Fins
      BY <1>3, <2>1 DEF Fins
    <2>4. Missing(details[i])
      BY <2>1, <2>3
    <2> QED
      BY <1>4, <2>2, <2>4
  <1> QED
    BY <1>2, <1>3 DEF details, flags

LEMMA LedgerTruth ==
    ASSUME LedgerInv
    PROVE  /\ Ledger!ShowsTheRequest /\ Ledger!FlagTellsMissing
           /\ Ledger!OncePerRequest /\ Ledger!LatestTellsMissing
  BY LedgerLatest DEF LedgerInv, LedgerResults

LEMMA LedgerInvariant ==
    ASSUME TheLedgerAssumption
    PROVE  Ledger!Spec => []LedgerInv
  <1>1. Ledger!Init => LedgerInv
    BY LedgerInitially
  <1>2. LedgerInv /\ [Ledger!Next]_Ledger!vars => LedgerInv'
    BY LedgerPreserved
  <1> QED
    BY <1>1, <1>2, PTL DEF Ledger!Spec

\* A ledger shows the data of the moment its request was made, once for each request, and
\* is flagged when personal information was missing after six hours, whatever requests,
\* edits, trades and failed passes there are.
THEOREM LedgersMade ==
    TheLedgerAssumption =>
       (Ledger!Spec => [](Ledger!ShowsTheRequest /\ Ledger!FlagTellsMissing /\ Ledger!OncePerRequest))
  <1> SUFFICES ASSUME TheLedgerAssumption
               PROVE  Ledger!Spec => [](Ledger!ShowsTheRequest /\ Ledger!FlagTellsMissing /\ Ledger!OncePerRequest)
    OBVIOUS
  <1>1. LedgerInv => Ledger!ShowsTheRequest /\ Ledger!FlagTellsMissing /\ Ledger!OncePerRequest
    BY LedgerTruth
  <1> QED
    BY <1>1, LedgerInvariant, PTL

\* The query with the latest information flags the last detail of a ledger when somebody it
\* lists has none, and nothing when everybody has.
THEOREM LedgersFlagged == TheLedgerAssumption => (Ledger!Spec => []Ledger!LatestTellsMissing)
  <1> SUFFICES ASSUME TheLedgerAssumption
               PROVE  Ledger!Spec => []Ledger!LatestTellsMissing
    OBVIOUS
  <1>1. LedgerInv => Ledger!LatestTellsMissing
    BY LedgerTruth
  <1> QED
    BY <1>1, LedgerInvariant, PTL

-----------------------------------------------------------------------------
(* Lists of holders: the invariant.                                        *)

EventTypes == {"Transfer", "Issue", "Redeem", "Lock", "ForceLock", "Unlock", "ForceUnlock",
               "ForceChangeLockedAccount", "Deposit", "Withdrawal", "HolderChanged"}
HolderEvent == [type : EventTypes, from : Investors, to : Investors, exchange : Markets]
Units == [hold : Nat, locked : Nat]
IntUnits == [hold : Int, locked : Int]
HolderRows == UNION {[A -> Units] : A \in SUBSET Investors}

\* What an event adds to the units of an account.
One(condition) == IF condition THEN 1 ELSE 0
Goes(e, type, a) == One(e.type = type /\ e.from = a)
Comes(e, type, a) == One(e.type = type /\ e.to = a)
HoldChange(e, a) ==
    Comes(e, "Transfer", a) - Goes(e, "Transfer", a) + Comes(e, "HolderChanged", a) - Goes(e, "HolderChanged", a)
    + Comes(e, "Issue", a) - Goes(e, "Redeem", a) - (Goes(e, "Lock", a) + Goes(e, "ForceLock", a))
    + Comes(e, "Unlock", a) + Comes(e, "ForceUnlock", a)
LockChange(e, a) ==
    Goes(e, "Lock", a) + Goes(e, "ForceLock", a) - Goes(e, "Unlock", a) - Goes(e, "ForceUnlock", a)
    + (Comes(e, "ForceChangeLockedAccount", a) - Goes(e, "ForceChangeLockedAccount", a))
Changed(u, e, a) == [hold |-> u.hold + HoldChange(e, a), locked |-> u.locked + LockChange(e, a)]

\* What an account held after block k.
OwnedUpto(k, a) == IF k < 1 THEN [hold |-> IF a = Issuer THEN Issued ELSE 0, locked |-> 0] ELSE truth[k][a]

HolderTypes ==
    /\ log \in Seq(HolderEvent) /\ truth \in Seq([Investors -> Units]) /\ Len(truth) = Len(log)
    /\ wallet \in [Investors -> Nat] /\ locked \in [Investors -> Nat]
    /\ deposit \in [Investors -> [Markets -> Nat]]
    /\ lists \in Seq([block : Nat, status : {"pending", "done", "failed"}])
    /\ holders \in Seq(HolderRows) /\ Len(holders) = Len(lists)
    /\ \A i \in DOMAIN lists : lists[i].block \in 1..Len(log)
    /\ pc \in {"idle", "start", "lots", "fail"}
    /\ pc # "idle" => target \in DOMAIN lists /\ lists[target].status = "pending"

\* Only one exchange is used, and what is read are its events.
OneExchange ==
    /\ exchange = Market /\ events = Market
    /\ \A a \in Investors : \A x \in Markets \ {Market} : deposit[a][x] = 0
    /\ \A k \in DOMAIN log : log[k].type = "HolderChanged" => log[k].exchange = Market

\* Every block adds what its event says; the last one leaves what is held now.
HolderTruth ==
    /\ \A k \in DOMAIN truth : \A a \in Investors : truth[k][a] = Changed(OwnedUpto(k - 1, a), log[k], a)
    /\ \A a \in Investors :
          [hold |-> wallet[a] + deposit[a][Market], locked |-> locked[a]] = OwnedUpto(Len(log), a)

\* The book of a collection is true of the block it has reached, and whoever is in it
\* has a row in the end.
HolderBook ==
    /\ pc \in {"idle", "start"} => book = HolderList!NoBook /\ draft = HolderList!NoRows
    /\ pc = "lots" =>
          /\ reached \in Nat /\ reached <= lists[target].block + 1
          /\ \A a \in Investors : book[a] \in IntUnits
          /\ \A a \in Investors \ {Issuer} : book[a] = OwnedUpto(reached - 1, a)
          /\ DOMAIN draft \subseteq Investors \ {Issuer} /\ draft \in [DOMAIN draft -> IntUnits]
          /\ \A a \in DOMAIN draft : draft[a] = book[a]
          /\ reached > lists[target].block =>
                \A a \in Investors \ {Issuer} : book[a] # HolderList!NoUnits => a \in DOMAIN draft

HolderInv == HolderTypes /\ OneExchange /\ HolderTruth /\ HolderBook /\ HolderList!ListIsTrue

\* The exchange stays, and the statement that records a failure does not fail itself.
HolderAssumption == HolderList!TokenHoldersAssumption /\ ~ExchangeChanges /\ ~StatusFaults

-----------------------------------------------------------------------------
(* Lists of holders: what events add up to.                                *)

LEMMA HolderCardinality ==
    /\ \A S : HolderList!Cardinality(S) = Cardinality(S)
    /\ \A S : HolderList!IsFiniteSet(S) = IsFiniteSet(S)
    /\ \A f : HolderList!SumFunction(f) = SumFunction(f)
  BY Zenon DEF HolderList!Cardinality, Cardinality, HolderList!IsFiniteSet, IsFiniteSet, HolderList!SumFunction,
     HolderList!SumFunctionOnSet, HolderList!FoldFunctionOnSet, HolderList!MapThenFoldSet,
     SumFunction, SumFunctionOnSet, FoldFunctionOnSet, MapThenFoldSet

LEMMA LeastOf ==
    ASSUME NEW S \in SUBSET Nat, S # {}
    PROVE  \E x \in S : \A y \in S : x <= y
  <1>1. PICK n \in S : TRUE
    OBVIOUS
  <1> DEFINE T == {0..k : k \in S \cap 0..n}
  <1>2. PICK x \in T : \A y \in T : y \subseteq x => y = x
    <2>1. T \in SUBSET (SUBSET (0..n)) /\ T # {}
      <3>1. n \in S \cap 0..n
        BY <1>1
      <3> QED
        BY <3>1
    <2> DEFINE R == 0..n
    <2>2. IsFiniteSet(R)
      BY FS_Interval
    <2>3. T \in SUBSET (SUBSET R)
      BY <2>1
    <2>4. T # {}
      BY <2>1
    <2> HIDE DEF T, R
    <2> QED
      BY <2>2, <2>3, <2>4, SmallestSubset
  <1>3. PICK k \in S \cap 0..n : x = 0..k
    BY <1>2
  <1>4. ASSUME NEW y \in S, y < k PROVE FALSE
    <2>1. 0..y \in T
      <3>1. y \in S \cap 0..n
        BY <1>3, <1>4
      <3> QED
        BY <3>1
    <2>2. 0..y \subseteq 0..k /\ k \notin 0..y /\ k \in 0..k
      BY <1>3, <1>4
    <2> QED
      BY <1>2, <1>3, <2>1, <2>2
  <1> QED
    BY <1>3, <1>4

LEMMA CountOne ==
    ASSUME NEW A, IsFiniteSet(A), NEW k, k \notin A, NEW c \in BOOLEAN, NEW B, B = IF c THEN A \cup {k} ELSE A
    PROVE  /\ IsFiniteSet(B)
           /\ HolderList!Cardinality(B) = HolderList!Cardinality(A) + One(c)
           /\ HolderList!Cardinality(A) \in Nat
  BY FS_AddElement, FS_CardinalityType, HolderCardinality DEF One

\* Events of a lot when it is one block longer.
LEMMA OutOne ==
    ASSUME NEW type, NEW a, NEW m \in Nat, NEW n \in Int, n + 1 >= m
    PROVE  /\ HolderList!Out(type, a, m, n + 1)
                = HolderList!Out(type, a, m, n) + One(n + 1 \in DOMAIN log /\ log[n + 1].type = type /\ log[n + 1].from = a)
           /\ HolderList!Out(type, a, m, n) \in Nat
  <1> DEFINE A == {i \in HolderList!EventsOf(type, m, n) : log[i].from = a}
             B == {i \in HolderList!EventsOf(type, m, n + 1) : log[i].from = a}
             c == n + 1 \in DOMAIN log /\ log[n + 1].type = type /\ log[n + 1].from = a
  <1>1. m..(n + 1) = (m..n) \cup {n + 1} /\ n + 1 \notin m..n
    OBVIOUS
  <1>2. B = (IF c THEN A \cup {n + 1} ELSE A) /\ n + 1 \notin A
    BY <1>1 DEF HolderList!EventsOf
  <1>3. IsFiniteSet(A)
    <2>1. A \subseteq m..n /\ IsFiniteSet(m..n)
      BY FS_Interval DEF HolderList!EventsOf
    <2> QED
      BY <2>1, FS_Subset
  <1>4. HolderList!Cardinality(B) = HolderList!Cardinality(A) + One(c) /\ HolderList!Cardinality(A) \in Nat
    <2>1. c \in BOOLEAN
      OBVIOUS
    <2> HIDE DEF A, B, c
    <2> QED
      BY <1>2, <1>3, <2>1, CountOne
  <1> QED
    BY <1>4 DEF HolderList!Out

LEMMA InOne ==
    ASSUME NEW type, NEW a, NEW m \in Nat, NEW n \in Int, n + 1 >= m
    PROVE  /\ HolderList!In(type, a, m, n + 1)
                = HolderList!In(type, a, m, n) + One(n + 1 \in DOMAIN log /\ log[n + 1].type = type /\ log[n + 1].to = a)
           /\ HolderList!In(type, a, m, n) \in Nat
  <1> DEFINE A == {i \in HolderList!EventsOf(type, m, n) : log[i].to = a}
             B == {i \in HolderList!EventsOf(type, m, n + 1) : log[i].to = a}
             c == n + 1 \in DOMAIN log /\ log[n + 1].type = type /\ log[n + 1].to = a
  <1>1. m..(n + 1) = (m..n) \cup {n + 1} /\ n + 1 \notin m..n
    OBVIOUS
  <1>2. B = (IF c THEN A \cup {n + 1} ELSE A) /\ n + 1 \notin A
    BY <1>1 DEF HolderList!EventsOf
  <1>3. IsFiniteSet(A)
    <2>1. A \subseteq m..n /\ IsFiniteSet(m..n)
      BY FS_Interval DEF HolderList!EventsOf
    <2> QED
      BY <2>1, FS_Subset
  <1>4. HolderList!Cardinality(B) = HolderList!Cardinality(A) + One(c) /\ HolderList!Cardinality(A) \in Nat
    <2>1. c \in BOOLEAN
      OBVIOUS
    <2> HIDE DEF A, B, c
    <2> QED
      BY <1>2, <1>3, <2>1, CountOne
  <1> QED
    BY <1>4 DEF HolderList!In

\* Nothing happens in no block.
LEMMA NoneInNoBlock ==
    ASSUME NEW type, NEW a, NEW m \in Nat
    PROVE  HolderList!Out(type, a, m, m - 1) = 0 /\ HolderList!In(type, a, m, m - 1) = 0
  <1>1. HolderList!EventsOf(type, m, m - 1) = {}
    BY DEF HolderList!EventsOf
  <1>2. HolderList!Cardinality({}) = 0
    BY HolderCardinality, FS_EmptySet
  <1>3. {i \in HolderList!EventsOf(type, m, m - 1) : log[i].from = a} = {}
        /\ {i \in HolderList!EventsOf(type, m, m - 1) : log[i].to = a} = {}
    BY <1>1
  <1> QED
    BY <1>2, <1>3 DEF HolderList!Out, HolderList!In

\* With one exchange, every change of a holder is read.
LEMMA ChangesRead ==
    ASSUME OneExchange, NEW a, NEW m, NEW n
    PROVE  /\ HolderList!OnExchange("HolderChanged", events, m, n) = HolderList!EventsOf("HolderChanged", m, n)
           /\ HolderList!ProcessTransfer(a, m, n)
                = HolderList!In("Transfer", a, m, n) - HolderList!Out("Transfer", a, m, n)
                  + HolderList!In("HolderChanged", a, m, n) - HolderList!Out("HolderChanged", a, m, n)
  <1>1. HolderList!OnExchange("HolderChanged", events, m, n) = HolderList!EventsOf("HolderChanged", m, n)
    BY DEF HolderList!OnExchange, HolderList!EventsOf, OneExchange
  <1> QED
    BY <1>1 DEF HolderList!ProcessTransfer, HolderList!In, HolderList!Out

LEMMA StoredSum ==
    ASSUME OneExchange, NEW a, NEW m, NEW n
    PROVE  HolderList!Stored(a, m, n) =
             [hold |-> book[a].hold
                 + (HolderList!In("Transfer", a, m, n) - HolderList!Out("Transfer", a, m, n)
                    + HolderList!In("HolderChanged", a, m, n) - HolderList!Out("HolderChanged", a, m, n))
                 + HolderList!In("Issue", a, m, n) - HolderList!Out("Redeem", a, m, n)
                 - (HolderList!Out("Lock", a, m, n) + HolderList!Out("ForceLock", a, m, n))
                 + HolderList!In("Unlock", a, m, n) + HolderList!In("ForceUnlock", a, m, n),
              locked |-> book[a].locked + (HolderList!Out("Lock", a, m, n) + HolderList!Out("ForceLock", a, m, n))
                 - HolderList!Out("Unlock", a, m, n) - HolderList!Out("ForceUnlock", a, m, n)
                 + (HolderList!In("ForceChangeLockedAccount", a, m, n)
                    - HolderList!Out("ForceChangeLockedAccount", a, m, n))]
  <1>1. HolderList!Stored(a, m, n) =
             [hold |-> book[a].hold + HolderList!ProcessTransfer(a, m, n)
                 + HolderList!In("Issue", a, m, n) - HolderList!Out("Redeem", a, m, n)
                 - (HolderList!Out("Lock", a, m, n) + HolderList!Out("ForceLock", a, m, n))
                 + HolderList!In("Unlock", a, m, n) + HolderList!In("ForceUnlock", a, m, n),
              locked |-> book[a].locked + (HolderList!Out("Lock", a, m, n) + HolderList!Out("ForceLock", a, m, n))
                 - HolderList!Out("Unlock", a, m, n) - HolderList!Out("ForceUnlock", a, m, n)
                 + (HolderList!In("ForceChangeLockedAccount", a, m, n)
                    - HolderList!Out("ForceChangeLockedAccount", a, m, n))]
    BY Zenon DEF HolderList!Stored, HolderList!ProcessIssue, HolderList!ProcessRedeem, HolderList!ProcessLock,
       HolderList!ProcessForceLock, HolderList!ProcessUnlock, HolderList!ProcessForceUnlock,
       HolderList!ProcessForceChangeLockedAccount
  <1> QED
    BY <1>1, ChangesRead, Zenon

\* One block more adds what its event says.
LEMMA StoredOne ==
    ASSUME OneExchange, NEW a, book[a] \in IntUnits, NEW m \in Nat, NEW n \in Int, n + 1 >= m
    PROVE  /\ HolderList!Stored(a, m, n) \in IntUnits
           /\ n + 1 \in DOMAIN log =>
                 HolderList!Stored(a, m, n + 1) = Changed(HolderList!Stored(a, m, n), log[n + 1], a)
           /\ n + 1 \notin DOMAIN log => HolderList!Stored(a, m, n + 1) = HolderList!Stored(a, m, n)
  <1> DEFINE O(type) == HolderList!Out(type, a, m, n)
             I(type) == HolderList!In(type, a, m, n)
             O1(type) == HolderList!Out(type, a, m, n + 1)
             I1(type) == HolderList!In(type, a, m, n + 1)
             e == log[n + 1]
  <1>1. /\ \A type : O(type) \in Nat /\ I(type) \in Nat
        /\ n + 1 \in DOMAIN log =>
              \A type : O1(type) = O(type) + Goes(e, type, a) /\ I1(type) = I(type) + Comes(e, type, a)
        /\ n + 1 \notin DOMAIN log => \A type : O1(type) = O(type) /\ I1(type) = I(type)
        /\ \A type : Goes(e, type, a) \in Nat /\ Comes(e, type, a) \in Nat
    <2> SUFFICES ASSUME NEW type
                 PROVE  /\ O(type) \in Nat /\ I(type) \in Nat
                        /\ n + 1 \in DOMAIN log =>
                              O1(type) = O(type) + Goes(e, type, a) /\ I1(type) = I(type) + Comes(e, type, a)
                        /\ n + 1 \notin DOMAIN log => O1(type) = O(type) /\ I1(type) = I(type)
                        /\ Goes(e, type, a) \in Nat /\ Comes(e, type, a) \in Nat
      OBVIOUS
    <2>1. /\ O1(type) = O(type) + One(n + 1 \in DOMAIN log /\ e.type = type /\ e.from = a) /\ O(type) \in Nat
          /\ I1(type) = I(type) + One(n + 1 \in DOMAIN log /\ e.type = type /\ e.to = a) /\ I(type) \in Nat
      BY OutOne, InOne
    <2> HIDE DEF O, I, O1, I1, e
    <2> QED
      BY <2>1 DEF One, Goes, Comes
  <1>2. /\ HolderList!Stored(a, m, n) =
             [hold |-> book[a].hold
                 + (I("Transfer") - O("Transfer") + I("HolderChanged") - O("HolderChanged"))
                 + I("Issue") - O("Redeem") - (O("Lock") + O("ForceLock")) + I("Unlock") + I("ForceUnlock"),
              locked |-> book[a].locked + (O("Lock") + O("ForceLock")) - O("Unlock") - O("ForceUnlock")
                 + (I("ForceChangeLockedAccount") - O("ForceChangeLockedAccount"))]
        /\ HolderList!Stored(a, m, n + 1) =
             [hold |-> book[a].hold
                 + (I1("Transfer") - O1("Transfer") + I1("HolderChanged") - O1("HolderChanged"))
                 + I1("Issue") - O1("Redeem") - (O1("Lock") + O1("ForceLock")) + I1("Unlock") + I1("ForceUnlock"),
              locked |-> book[a].locked + (O1("Lock") + O1("ForceLock")) - O1("Unlock") - O1("ForceUnlock")
                 + (I1("ForceChangeLockedAccount") - O1("ForceChangeLockedAccount"))]
    BY StoredSum, Zenon
  <1> HIDE DEF O, I, O1, I1, e
  <1>3. book[a].hold \in Int /\ book[a].locked \in Int
    BY DEF IntUnits
  <1>4. HolderList!Stored(a, m, n) \in IntUnits
    BY <1>1, <1>2, <1>3 DEF IntUnits
  <1>5. n + 1 \in DOMAIN log =>
           HolderList!Stored(a, m, n + 1) = Changed(HolderList!Stored(a, m, n), e, a)
    BY <1>1, <1>2, <1>3 DEF Changed, HoldChange, LockChange
  <1>6. n + 1 \notin DOMAIN log => HolderList!Stored(a, m, n + 1) = HolderList!Stored(a, m, n)
    BY <1>1, <1>2
  <1> QED
    BY <1>4, <1>5, <1>6 DEF e

LEMMA StoredNone ==
    ASSUME OneExchange, NEW a, book[a] \in IntUnits, NEW m \in Nat
    PROVE  HolderList!Stored(a, m, m - 1) = book[a]
  <1>1. /\ \A type : HolderList!Out(type, a, m, m - 1) = 0 /\ HolderList!In(type, a, m, m - 1) = 0
    BY NoneInNoBlock
  <1>2. HolderList!Stored(a, m, m - 1) = [hold |-> book[a].hold + (0 - 0 + 0 - 0) + 0 - 0 - (0 + 0) + 0 + 0,
                                          locked |-> book[a].locked + (0 + 0) - 0 - 0 + (0 - 0)]
    BY <1>1, StoredSum, Zenon
  <1> QED
    BY <1>2 DEF IntUnits

LEMMA HolderRanges ==
    ASSUME HolderTypes
    PROVE  /\ Len(log) \in Nat /\ DOMAIN log = 1..Len(log) /\ DOMAIN truth = 1..Len(log)
           /\ \A k \in 1..Len(log) : log[k] \in HolderEvent /\ truth[k] \in [Investors -> Units]
           /\ \A k \in 1..Len(log), a \in Investors : truth[k][a] \in Units
           /\ DOMAIN lists = 1..Len(lists) /\ DOMAIN holders = DOMAIN lists /\ Len(lists) \in Nat
           /\ \A i \in DOMAIN lists : lists[i] \in [block : Nat, status : {"pending", "done", "failed"}]
           /\ \A i \in DOMAIN lists : holders[i] \in HolderRows
  <1>1. /\ log \in Seq(HolderEvent) /\ truth \in Seq([Investors -> Units]) /\ Len(truth) = Len(log)
        /\ lists \in Seq([block : Nat, status : {"pending", "done", "failed"}])
        /\ holders \in Seq(HolderRows) /\ Len(holders) = Len(lists)
    BY DEF HolderTypes
  <1>2. /\ Len(log) \in Nat /\ DOMAIN log = 1..Len(log) /\ DOMAIN truth = 1..Len(log)
        /\ DOMAIN lists = 1..Len(lists) /\ DOMAIN holders = DOMAIN lists /\ Len(lists) \in Nat
    BY <1>1, LenProperties
  <1>3. /\ \A k \in 1..Len(log) : log[k] \in HolderEvent /\ truth[k] \in [Investors -> Units]
        /\ \A i \in DOMAIN lists : lists[i] \in [block : Nat, status : {"pending", "done", "failed"}]
        /\ \A i \in DOMAIN lists : holders[i] \in HolderRows
    BY <1>1, <1>2, ElementOfSeq
  <1>4. \A k \in 1..Len(log), a \in Investors : truth[k][a] \in Units
    BY <1>3
  <1> QED
    BY <1>2, <1>3, <1>4

LEMMA UptoNext ==
    ASSUME HolderTypes, HolderTruth, NEW a \in Investors, NEW k \in Int, k + 1 \in DOMAIN log
    PROVE  OwnedUpto(k + 1, a) = Changed(OwnedUpto(k, a), log[k + 1], a)
  <1>1. k + 1 \in DOMAIN truth /\ k + 1 - 1 = k /\ ~(k + 1 < 1)
    BY HolderRanges
  <1>2. \A i \in DOMAIN truth : truth[i][a] = Changed(OwnedUpto(i - 1, a), log[i], a)
    BY DEF HolderTruth
  <1>3. truth[k + 1][a] = Changed(OwnedUpto(k, a), log[k + 1], a)
    BY <1>1, <1>2
  <1> QED
    BY <1>1, <1>3 DEF OwnedUpto

\* A lot takes the book from the block before it to its last block.
LEMMA StoredLot ==
    ASSUME HolderTypes, OneExchange, HolderTruth, NEW a \in Investors, book[a] \in IntUnits,
           NEW m \in Nat, book[a] = OwnedUpto(m - 1, a), NEW n \in Nat, m <= n, n <= Len(log)
    PROVE  HolderList!Stored(a, m, n) = OwnedUpto(n, a)
  <1> DEFINE Wrong == {j \in Nat : j <= n - m + 1 /\ HolderList!Stored(a, m, m - 1 + j) # OwnedUpto(m - 1 + j, a)}
  <1>1. SUFFICES ASSUME Wrong # {} PROVE FALSE
    <2>1. n - m + 1 \in Nat /\ m - 1 + (n - m + 1) = n
      OBVIOUS
    <2>2. n - m + 1 \notin Wrong
      BY <1>1
    <2> QED
      BY <2>1, <2>2
  <1>2. PICK j \in Wrong : \A i \in Wrong : j <= i
    <2>1. Wrong \in SUBSET Nat
      OBVIOUS
    <2> HIDE DEF Wrong
    <2> QED
      BY <1>1, <2>1, LeastOf
  <1>3. j # 0
    <2>1. m - 1 + 0 = m - 1
      OBVIOUS
    <2>2. HolderList!Stored(a, m, m - 1) = OwnedUpto(m - 1, a)
      BY StoredNone
    <2> QED
      BY <1>2, <2>1, <2>2
  <1> DEFINE k == m - 1 + (j - 1)
  <1>4. k \in Int /\ k + 1 = m - 1 + j /\ k + 1 >= m /\ k + 1 \in Nat /\ k + 1 <= Len(log)
    BY <1>2, <1>3, HolderRanges
  <1>5. HolderList!Stored(a, m, k) = OwnedUpto(k, a)
    <2>1. j - 1 \in Nat /\ j - 1 <= n - m + 1 /\ j - 1 \notin Wrong
      BY <1>2, <1>3
    <2> QED
      BY <2>1
  <1> HIDE DEF k
  <1>6. CASE k + 1 \in DOMAIN log
    <2>1. HolderList!Stored(a, m, k + 1) = Changed(OwnedUpto(k, a), log[k + 1], a)
      BY <1>4, <1>5, <1>6, StoredOne
    <2>2. OwnedUpto(k + 1, a) = Changed(OwnedUpto(k, a), log[k + 1], a)
      BY <1>4, <1>6, UptoNext
    <2> QED
      BY <1>2, <1>4, <2>1, <2>2
  <1>7. CASE k + 1 \notin DOMAIN log
    <2>1. k + 1 = 0
      BY <1>4, <1>7, HolderRanges
    <2>2. OwnedUpto(k + 1, a) = OwnedUpto(k, a)
      BY <1>4, <2>1 DEF OwnedUpto
    <2>3. HolderList!Stored(a, m, k + 1) = HolderList!Stored(a, m, k)
      BY <1>4, <1>7, StoredOne
    <2> QED
      BY <1>2, <1>4, <1>5, <2>2, <2>3
  <1> QED
    BY <1>6, <1>7

-----------------------------------------------------------------------------
(* Lists of holders: the chain.                                            *)

\* What an account holds, with units on one exchange at most.
LEMMA HeldValue ==
    ASSUME HolderAssumption, NEW w, NEW l, NEW d \in [Investors -> [Markets -> Nat]],
           \A a \in Investors : \A x \in Markets \ {Market} : d[a][x] = 0
    PROVE  HolderList!Held(w, d, l) = [a \in Investors |-> [hold |-> w[a] + d[a][Market], locked |-> l[a]]]
  <1>1. ASSUME NEW a \in Investors PROVE HolderList!SumFunction(d[a]) = d[a][Market]
    <2>1. DOMAIN d[a] = Markets /\ \A x \in Markets : d[a][x] \in Int
      OBVIOUS
    <2>2. IsFiniteSet(Markets) /\ Market \in Markets
      BY HolderCardinality DEF HolderAssumption, HolderList!TokenHoldersAssumption
    <2>3. IsFiniteSet(Markets \ {Market})
      BY <2>2, FS_RemoveElement
    <2> DEFINE f == d[a]
    <2> HIDE DEF f
    <2>4. SumFunctionOnSet(f, Markets) = f[Market] + SumFunctionOnSet(f, Markets \ {Market})
      BY <2>1, <2>2, SumTake DEF f
    <2>5. SumFunctionOnSet(f, Markets \ {Market}) = 0
      BY <2>3, SumZero DEF f
    <2>6. SumFunction(f) = f[Market]
      <3>1. f[Market] \in Int
        BY <2>1, <2>2 DEF f
      <3>2. SumFunction(f) = SumFunctionOnSet(f, Markets)
        BY <2>1 DEF SumFunction, f
      <3> QED
        BY <2>4, <2>5, <3>1, <3>2
    <2> QED
      BY <2>6, HolderCardinality DEF f
  <1> QED
    BY <1>1 DEF HolderList!Held

\* What was held after a block stays known.
LEMMA UptoStays ==
    ASSUME HolderTypes, NEW h, truth' = Append(truth, h) \/ truth' = truth
    PROVE  \A k \in Int : k <= Len(log) => \A a : OwnedUpto(k, a)' = OwnedUpto(k, a)
  <1>1. truth \in Seq([Investors -> Units]) /\ Len(truth) = Len(log)
    BY DEF HolderTypes
  <1>2. \A k \in 1..Len(log) : truth'[k] = truth[k]
    BY <1>1
  <1> QED
    BY <1>2, HolderRanges DEF OwnedUpto

\* Lists that are done stay true.
LEMMA ListsStay ==
    ASSUME HolderInv, NEW h, truth' = Append(truth, h) \/ truth' = truth, UNCHANGED <<lists, holders>>
    PROVE  HolderList!ListIsTrue'
  <1>1. \A k \in 1..Len(log) : truth'[k] = truth[k]
    <2>1. truth \in Seq([Investors -> Units]) /\ Len(truth) = Len(log)
      BY DEF HolderInv, HolderTypes
    <2> QED
      BY <2>1
  <1>2. \A i \in DOMAIN lists : truth'[lists[i].block] = truth[lists[i].block]
    BY <1>1 DEF HolderInv, HolderTypes
  <1> QED
    BY <1>2 DEF HolderInv, HolderList!ListIsTrue, HolderList!ListAllTokenHoldersCollections,
       HolderList!RetrieveTokenHoldersCollection

LEMMA BookStays ==
    ASSUME HolderInv, NEW h, truth' = Append(truth, h) \/ truth' = truth,
           UNCHANGED <<pc, target, reached, book, draft>>,
           \A i \in DOMAIN lists : i \in DOMAIN lists' /\ lists'[i] = lists[i]
    PROVE  HolderBook'
  <1>1. pc = "lots" => /\ reached - 1 \in Int /\ reached - 1 <= Len(log)
                       /\ lists'[target] = lists[target]
    BY HolderRanges DEF HolderInv, HolderTypes, HolderBook
  <1>2. pc = "lots" => \A a : OwnedUpto(reached - 1, a)' = OwnedUpto(reached - 1, a)
    BY <1>1, UptoStays DEF HolderInv
  <1> QED
    BY <1>1, <1>2 DEF HolderInv, HolderBook, HolderList!NoBook, HolderList!NoRows, HolderList!NoUnits

LEMMA BlockAdds ==
    ASSUME HolderAssumption, HolderInv,
           NEW event \in HolderEvent, event.type = "HolderChanged" => event.exchange = Market,
           NEW w \in [Investors -> Nat], NEW l \in [Investors -> Nat],
           NEW d \in [Investors -> [Markets -> Nat]],
           \A a \in Investors : \A x \in Markets \ {Market} : d[a][x] = 0,
           \A a \in Investors : /\ w[a] + d[a][Market] = wallet[a] + deposit[a][Market] + HoldChange(event, a)
                                /\ l[a] = locked[a] + LockChange(event, a),
           HolderList!Block(event, w, d, l)
    PROVE  HolderInv'
  <1> DEFINE h == [a \in Investors |-> [hold |-> w[a] + d[a][Market], locked |-> l[a]]]
             n == Len(log)
  <1>1. /\ log' = Append(log, event) /\ truth' = Append(truth, h)
        /\ wallet' = w /\ deposit' = d /\ locked' = l
        /\ UNCHANGED <<exchange, lists, holders, pc, target, reached, book, draft, events>>
    <2>1. HolderList!Held(w, d, l) = h
      BY HeldValue
    <2> HIDE DEF h
    <2> QED
      BY <2>1, Zenon DEF HolderList!Block, HolderList!db, HolderList!local
  <1>2. Market \in Markets
    BY DEF HolderAssumption, HolderList!TokenHoldersAssumption
  <1>3. h \in [Investors -> Units]
    BY <1>2 DEF Units
  <1>4. log \in Seq(HolderEvent) /\ truth \in Seq([Investors -> Units]) /\ Len(truth) = n /\ n \in Nat
    BY HolderRanges DEF HolderInv, HolderTypes
  <1> HIDE DEF h
  <1>5. /\ log' \in Seq(HolderEvent) /\ truth' \in Seq([Investors -> Units])
        /\ Len(log') = n + 1 /\ Len(truth') = n + 1
        /\ DOMAIN log' = 1..(n + 1) /\ DOMAIN truth' = 1..(n + 1)
        /\ \A k \in 1..n : log'[k] = log[k] /\ truth'[k] = truth[k]
        /\ log'[n + 1] = event /\ truth'[n + 1] = h
    BY <1>1, <1>3, <1>4
  <1>6. \A k \in Int : k <= n => \A a : OwnedUpto(k, a)' = OwnedUpto(k, a)
    BY <1>1, UptoStays DEF HolderInv
  <1>7. HolderTypes'
    BY <1>1, <1>4, <1>5 DEF HolderInv, HolderTypes
  <1>8. OneExchange'
    <2>1. \A k \in DOMAIN log' : log'[k].type = "HolderChanged" => log'[k].exchange = Market
      <3>1. DOMAIN log = 1..n
        BY HolderRanges DEF HolderInv
      <3>2. \A k \in 1..n : log[k].type = "HolderChanged" => log[k].exchange = Market
        BY <3>1, Zenon DEF HolderInv, OneExchange
      <3>3. \A k \in 1..(n + 1) : k \in 1..n \/ k = n + 1
        BY <1>4
      <3>4. \A k \in 1..n : log'[k].type = "HolderChanged" => log'[k].exchange = Market
        BY <1>5, <3>2, Zenon
      <3> QED
        BY <1>5, <3>3, <3>4, Zenon
    <2> QED
      BY <1>1, <2>1 DEF HolderInv, OneExchange
  <1>9. HolderTruth'
    <2>1. \A a \in Investors : h[a] = Changed(OwnedUpto(n, a), event, a)
      <3> SUFFICES ASSUME NEW a \in Investors PROVE h[a] = Changed(OwnedUpto(n, a), event, a)
        OBVIOUS
      <3>1. OwnedUpto(n, a) = [hold |-> wallet[a] + deposit[a][Market], locked |-> locked[a]]
        BY DEF HolderInv, HolderTruth
      <3>2. h[a] = [hold |-> w[a] + d[a][Market], locked |-> l[a]]
        BY DEF h
      <3> QED
        BY <3>1, <3>2 DEF Changed
    <2>2. ASSUME NEW k \in DOMAIN truth', NEW a \in Investors
          PROVE  truth'[k][a] = Changed(OwnedUpto(k - 1, a)', log'[k], a)
      <3>1. k - 1 \in Int /\ k - 1 <= n /\ k \in 1..(n + 1)
        BY <1>4, <1>5
      <3>2. OwnedUpto(k - 1, a)' = OwnedUpto(k - 1, a)
        BY <1>6, <3>1
      <3>3. CASE k = n + 1
        <4>1. k - 1 = n
          BY <1>4, <3>3
        <4> QED
          BY <1>5, <2>1, <3>2, <3>3, <4>1
      <3>4. CASE k # n + 1
        <4>1. k \in 1..n
          BY <1>4, <3>1, <3>4
        <4>2. k \in DOMAIN truth
          BY <4>1, HolderRanges DEF HolderInv
        <4>3. truth[k][a] = Changed(OwnedUpto(k - 1, a), log[k], a)
          BY <4>2 DEF HolderInv, HolderTruth
        <4> QED
          BY <1>5, <3>2, <4>1, <4>3
      <3> QED
        BY <3>3, <3>4
    <2>3. \A a \in Investors : [hold |-> wallet'[a] + deposit'[a][Market], locked |-> locked'[a]] = truth'[n + 1][a]
      BY <1>1, <1>5 DEF h
    <2>4. \A a \in Investors : OwnedUpto(Len(log), a)' = truth'[n + 1][a]
      BY <1>4, <1>5 DEF OwnedUpto
    <2> QED
      <3>1. \A k \in DOMAIN truth' : \A a \in Investors : truth'[k][a] = Changed(OwnedUpto(k - 1, a), log[k], a)'
        BY <2>2
      <3>2. \A a \in Investors :
               [hold |-> wallet'[a] + deposit'[a][Market], locked |-> locked'[a]] = OwnedUpto(Len(log), a)'
        BY <2>3, <2>4
      <3> QED
        BY <3>1, <3>2 DEF HolderTruth
  <1>10. HolderBook'
    BY <1>1, BookStays
  <1>11. HolderList!ListIsTrue'
    BY <1>1, ListsStay
  <1> QED
    BY <1>7, <1>8, <1>9, <1>10, <1>11 DEF HolderInv

LEMMA TokenEvent ==
    ASSUME HolderAssumption, HolderInv, NEW type \in EventTypes, type # "HolderChanged",
           NEW a \in Investors, NEW b \in Investors,
           NEW e, e = HolderList!OfToken(type, a, b),
           NEW w \in [Investors -> Nat], NEW l \in [Investors -> Nat],
           \A c \in Investors : w[c] = wallet[c] + HoldChange(e, c) /\ l[c] = locked[c] + LockChange(e, c),
           HolderList!Block(e, w, deposit, l)
    PROVE  HolderInv'
  <1>1. Market \in Markets
    BY DEF HolderAssumption, HolderList!TokenHoldersAssumption
  <1>2. e \in HolderEvent /\ e.type # "HolderChanged"
    BY <1>1 DEF HolderList!OfToken, HolderList!Event, HolderEvent
  <1>3. /\ deposit \in [Investors -> [Markets -> Nat]]
        /\ \A c \in Investors : \A x \in Markets \ {Market} : deposit[c][x] = 0
        /\ wallet \in [Investors -> Nat] /\ locked \in [Investors -> Nat]
    BY DEF HolderInv, HolderTypes, OneExchange
  <1>4. \A c \in Investors : HoldChange(e, c) \in Int
    BY DEF HoldChange, Goes, Comes, One
  <1>5. \A c \in Investors : w[c] + deposit[c][Market] = wallet[c] + deposit[c][Market] + HoldChange(e, c)
    BY <1>1, <1>3, <1>4
  <1>6. \A c \in Investors : /\ w[c] + deposit[c][Market] = wallet[c] + deposit[c][Market] + HoldChange(e, c)
                              /\ l[c] = locked[c] + LockChange(e, c)
    BY <1>5
  <1> QED
    BY <1>2, <1>3, <1>6, BlockAdds, Zenon

LEMMA HolderChain ==
    ASSUME HolderAssumption, HolderInv, HolderList!ChainStep
    PROVE  HolderInv'
  <1>1. wallet \in [Investors -> Nat] /\ locked \in [Investors -> Nat]
        /\ deposit \in [Investors -> [Markets -> Nat]] /\ Market \in Markets
    BY DEF HolderAssumption, HolderList!TokenHoldersAssumption, HolderInv, HolderTypes
  <1>2. ASSUME NEW a \in Investors, HolderList!Issue(a) PROVE HolderInv'
    <2> DEFINE e == HolderList!OfToken("Issue", a, a)
               w == HolderList!Moved(wallet, a, 1)
               l == locked
    <2>1. HolderList!Block(e, w, deposit, l)
      BY <1>2 DEF HolderList!Issue
    <2>2. /\ w \in [Investors -> Nat] /\ l \in [Investors -> Nat]
          /\ \A c \in Investors : w[c] = wallet[c] + HoldChange(e, c) /\ l[c] = locked[c] + LockChange(e, c)
      BY <1>1, <2>1 DEF HolderList!Pass, HolderList!Moved, HolderList!OfToken, HolderList!Event,
         HoldChange, LockChange, Goes, Comes, One
    <2>3. e = HolderList!OfToken("Issue", a, a) /\ "Issue" \in EventTypes /\ "Issue" # "HolderChanged"
      BY DEF EventTypes
    <2> HIDE DEF w, l, e
    <2> QED
      BY <2>1, <2>2, <2>3, TokenEvent, SMTT(60)
  <1>3. ASSUME NEW a \in Investors, HolderList!Redeem(a) PROVE HolderInv'
    <2> DEFINE e == HolderList!OfToken("Redeem", a, a)
               w == HolderList!Moved(wallet, a, -1)
               l == locked
    <2>1. HolderList!Block(e, w, deposit, l) /\ wallet[a] > 0
      BY <1>3 DEF HolderList!Redeem
    <2>2. /\ w \in [Investors -> Nat] /\ l \in [Investors -> Nat]
          /\ \A c \in Investors : w[c] = wallet[c] + HoldChange(e, c) /\ l[c] = locked[c] + LockChange(e, c)
      BY <1>1, <2>1 DEF HolderList!Pass, HolderList!Moved, HolderList!OfToken, HolderList!Event,
         HoldChange, LockChange, Goes, Comes, One
    <2>3. e = HolderList!OfToken("Redeem", a, a) /\ "Redeem" \in EventTypes /\ "Redeem" # "HolderChanged"
      BY DEF EventTypes
    <2> HIDE DEF w, l, e
    <2> QED
      BY <2>1, <2>2, <2>3, TokenEvent, SMTT(60)
  <1>4. ASSUME NEW a \in Investors, HolderList!Lock(a, "Lock") PROVE HolderInv'
    <2> DEFINE e == HolderList!OfToken("Lock", a, a)
               w == HolderList!Moved(wallet, a, -1)
               l == HolderList!Moved(locked, a, 1)
    <2>1. HolderList!Block(e, w, deposit, l) /\ wallet[a] > 0
      BY <1>4 DEF HolderList!Lock
    <2>2. /\ w \in [Investors -> Nat] /\ l \in [Investors -> Nat]
          /\ \A c \in Investors : w[c] = wallet[c] + HoldChange(e, c) /\ l[c] = locked[c] + LockChange(e, c)
      BY <1>1, <2>1 DEF HolderList!Pass, HolderList!Moved, HolderList!OfToken, HolderList!Event,
         HoldChange, LockChange, Goes, Comes, One
    <2>3. e = HolderList!OfToken("Lock", a, a) /\ "Lock" \in EventTypes /\ "Lock" # "HolderChanged"
      BY DEF EventTypes
    <2> HIDE DEF w, l, e
    <2> QED
      BY <2>1, <2>2, <2>3, TokenEvent, SMTT(60)
  <1>5. ASSUME NEW a \in Investors, HolderList!Lock(a, "ForceLock") PROVE HolderInv'
    <2> DEFINE e == HolderList!OfToken("ForceLock", a, a)
               w == HolderList!Moved(wallet, a, -1)
               l == HolderList!Moved(locked, a, 1)
    <2>1. HolderList!Block(e, w, deposit, l) /\ wallet[a] > 0
      BY <1>5 DEF HolderList!Lock
    <2>2. /\ w \in [Investors -> Nat] /\ l \in [Investors -> Nat]
          /\ \A c \in Investors : w[c] = wallet[c] + HoldChange(e, c) /\ l[c] = locked[c] + LockChange(e, c)
      BY <1>1, <2>1 DEF HolderList!Pass, HolderList!Moved, HolderList!OfToken, HolderList!Event,
         HoldChange, LockChange, Goes, Comes, One
    <2>3. e = HolderList!OfToken("ForceLock", a, a) /\ "ForceLock" \in EventTypes /\ "ForceLock" # "HolderChanged"
      BY DEF EventTypes
    <2> HIDE DEF w, l, e
    <2> QED
      BY <2>1, <2>2, <2>3, TokenEvent, SMTT(60)
  <1>6. ASSUME NEW a \in Investors, NEW b \in Investors, a # b, HolderList!Transfer(a, b) PROVE HolderInv'
    <2> DEFINE e == HolderList!OfToken("Transfer", a, b)
               w == HolderList!Pass(wallet, a, b)
               l == locked
    <2>1. HolderList!Block(e, w, deposit, l) /\ wallet[a] > 0
      BY <1>6 DEF HolderList!Transfer
    <2>2. /\ w \in [Investors -> Nat] /\ l \in [Investors -> Nat]
          /\ \A c \in Investors : w[c] = wallet[c] + HoldChange(e, c) /\ l[c] = locked[c] + LockChange(e, c)
      BY <1>1, <1>6, <2>1 DEF HolderList!Pass, HolderList!Moved, HolderList!OfToken, HolderList!Event,
         HoldChange, LockChange, Goes, Comes, One
    <2>3. e = HolderList!OfToken("Transfer", a, b) /\ "Transfer" \in EventTypes /\ "Transfer" # "HolderChanged"
      BY DEF EventTypes
    <2> HIDE DEF w, l, e
    <2> QED
      BY <2>1, <2>2, <2>3, TokenEvent, SMTT(60)
  <1>7. ASSUME NEW a \in Investors, NEW b \in Investors, a # b, HolderList!ForceChangeLockedAccount(a, b) PROVE HolderInv'
    <2> DEFINE e == HolderList!OfToken("ForceChangeLockedAccount", a, b)
               w == wallet
               l == HolderList!Pass(locked, a, b)
    <2>1. HolderList!Block(e, w, deposit, l) /\ locked[a] > 0
      BY <1>7 DEF HolderList!ForceChangeLockedAccount
    <2>2. /\ w \in [Investors -> Nat] /\ l \in [Investors -> Nat]
          /\ \A c \in Investors : w[c] = wallet[c] + HoldChange(e, c) /\ l[c] = locked[c] + LockChange(e, c)
      BY <1>1, <1>7, <2>1 DEF HolderList!Pass, HolderList!Moved, HolderList!OfToken, HolderList!Event,
         HoldChange, LockChange, Goes, Comes, One
    <2>3. e = HolderList!OfToken("ForceChangeLockedAccount", a, b) /\ "ForceChangeLockedAccount" \in EventTypes /\ "ForceChangeLockedAccount" # "HolderChanged"
      BY DEF EventTypes
    <2> HIDE DEF w, l, e
    <2> QED
      BY <2>1, <2>2, <2>3, TokenEvent, SMTT(60)
  <1>8. ASSUME NEW a \in Investors, NEW b \in Investors, HolderList!Unlock(a, b, "Unlock") PROVE HolderInv'
    <2> DEFINE e == HolderList!OfToken("Unlock", a, b)
               w == HolderList!Moved(wallet, b, 1)
               l == HolderList!Moved(locked, a, -1)
    <2>1. HolderList!Block(e, w, deposit, l) /\ locked[a] > 0
      BY <1>8 DEF HolderList!Unlock
    <2>2. /\ w \in [Investors -> Nat] /\ l \in [Investors -> Nat]
          /\ \A c \in Investors : w[c] = wallet[c] + HoldChange(e, c) /\ l[c] = locked[c] + LockChange(e, c)
      BY <1>1, <2>1 DEF HolderList!Pass, HolderList!Moved, HolderList!OfToken, HolderList!Event,
         HoldChange, LockChange, Goes, Comes, One
    <2>3. e = HolderList!OfToken("Unlock", a, b) /\ "Unlock" \in EventTypes /\ "Unlock" # "HolderChanged"
      BY DEF EventTypes
    <2> HIDE DEF w, l, e
    <2> QED
      BY <2>1, <2>2, <2>3, TokenEvent, SMTT(60)
  <1>9. ASSUME NEW a \in Investors, NEW b \in Investors, HolderList!Unlock(a, b, "ForceUnlock") PROVE HolderInv'
    <2> DEFINE e == HolderList!OfToken("ForceUnlock", a, b)
               w == HolderList!Moved(wallet, b, 1)
               l == HolderList!Moved(locked, a, -1)
    <2>1. HolderList!Block(e, w, deposit, l) /\ locked[a] > 0
      BY <1>9 DEF HolderList!Unlock
    <2>2. /\ w \in [Investors -> Nat] /\ l \in [Investors -> Nat]
          /\ \A c \in Investors : w[c] = wallet[c] + HoldChange(e, c) /\ l[c] = locked[c] + LockChange(e, c)
      BY <1>1, <2>1 DEF HolderList!Pass, HolderList!Moved, HolderList!OfToken, HolderList!Event,
         HoldChange, LockChange, Goes, Comes, One
    <2>3. e = HolderList!OfToken("ForceUnlock", a, b) /\ "ForceUnlock" \in EventTypes /\ "ForceUnlock" # "HolderChanged"
      BY DEF EventTypes
    <2> HIDE DEF w, l, e
    <2> QED
      BY <2>1, <2>2, <2>3, TokenEvent, SMTT(60)
  <1>10. ASSUME NEW a \in Investors, NEW x \in Markets, HolderList!Deposit(a, x) PROVE HolderInv'
    <2> DEFINE e == HolderList!Event("Deposit", a, a, x)
               w == HolderList!Moved(wallet, a, -1)
               d == [deposit EXCEPT ![a][x] = @ + 1]
    <2>1. HolderList!Block(e, w, d, locked) /\ wallet[a] > 0 /\ x = Market
      BY <1>10 DEF HolderList!Deposit, HolderInv, OneExchange
    <2>2. /\ w \in [Investors -> Nat] /\ d \in [Investors -> [Markets -> Nat]]
          /\ \A c \in Investors : \A y \in Markets : y # Market => d[c][y] = deposit[c][y]
          /\ \A c \in Investors : w[c] + d[c][Market] = wallet[c] + deposit[c][Market]
      <3> DEFINE row == [deposit[a] EXCEPT ![Market] = @ + 1]
      <3>1. row \in [Markets -> Nat] /\ row[Market] = deposit[a][Market] + 1
            /\ \A y \in Markets : y # Market => row[y] = deposit[a][y]
        BY <1>1
      <3>2. d = [deposit EXCEPT ![a] = row]
        BY <2>1
      <3> HIDE DEF row
      <3>3. /\ w \in [Investors -> Nat] /\ w[a] = wallet[a] - 1
            /\ \A c \in Investors : c # a => w[c] = wallet[c]
        BY <1>1, <2>1 DEF HolderList!Moved
      <3>4. /\ d \in [Investors -> [Markets -> Nat]]
            /\ \A c \in Investors : d[c] = IF c = a THEN row ELSE deposit[c]
        BY <1>1, <3>1, <3>2
      <3> HIDE DEF w, d
      <3>5. \A c \in Investors : \A y \in Markets : y # Market => d[c][y] = deposit[c][y]
        BY <3>1, <3>4
      <3>6. ASSUME NEW c \in Investors PROVE w[c] + d[c][Market] = wallet[c] + deposit[c][Market]
        <4>1. wallet[c] \in Nat /\ deposit[c][Market] \in Nat
          BY <1>1
        <4> QED
          <5>1. d[c][Market] = IF c = a THEN deposit[a][Market] + 1 ELSE deposit[c][Market]
            BY <3>1, <3>4
          <5>2. w[c] = IF c = a THEN wallet[a] - 1 ELSE wallet[c]
            BY <3>3
          <5> QED
            BY <4>1, <5>1, <5>2
      <3> QED
        BY <3>3, <3>4, <3>5, <3>6
    <2>3. e \in HolderEvent /\ e.type # "HolderChanged"
      BY <1>1 DEF HolderList!Event, HolderEvent, EventTypes
    <2>4. \A c \in Investors : HoldChange(e, c) = 0 /\ LockChange(e, c) = 0
      BY DEF HolderList!Event, HoldChange, LockChange, Goes, Comes, One
    <2>5. /\ \A c \in Investors : \A y \in Markets \ {Market} : d[c][y] = 0
          /\ \A c \in Investors : w[c] + d[c][Market] = wallet[c] + deposit[c][Market] + HoldChange(e, c)
          /\ \A c \in Investors : locked[c] = locked[c] + LockChange(e, c)
      <3> HIDE DEF w, d, e
      <3> QED
        BY <1>1, <2>2, <2>4 DEF HolderInv, OneExchange
    <2> HIDE DEF w, d, e
    <2> QED
      BY <1>1, <2>1, <2>2, <2>3, <2>5, BlockAdds
  <1>11. ASSUME NEW a \in Investors, NEW x \in Markets, HolderList!Withdraw(a, x) PROVE HolderInv'
    <2> DEFINE e == HolderList!Event("Withdrawal", a, a, x)
               w == HolderList!Moved(wallet, a, 1)
               d == [deposit EXCEPT ![a][x] = @ - 1]
    <2>1. HolderList!Block(e, w, d, locked) /\ deposit[a][x] > 0
      BY <1>11 DEF HolderList!Withdraw
    <2>2. x = Market
      BY <2>1 DEF HolderInv, OneExchange
    <2>3. /\ w \in [Investors -> Nat] /\ d \in [Investors -> [Markets -> Nat]]
          /\ \A c \in Investors : \A y \in Markets : y # Market => d[c][y] = deposit[c][y]
          /\ \A c \in Investors : w[c] + d[c][Market] = wallet[c] + deposit[c][Market]
      <3> DEFINE row == [deposit[a] EXCEPT ![Market] = @ - 1]
      <3>1. row \in [Markets -> Nat] /\ row[Market] = deposit[a][Market] - 1
            /\ \A y \in Markets : y # Market => row[y] = deposit[a][y]
        BY <1>1, <2>1, <2>2
      <3>2. d = [deposit EXCEPT ![a] = row]
        BY <2>2
      <3> HIDE DEF row
      <3>3. /\ w \in [Investors -> Nat] /\ w[a] = wallet[a] + 1
            /\ \A c \in Investors : c # a => w[c] = wallet[c]
        BY <1>1 DEF HolderList!Moved
      <3>4. /\ d \in [Investors -> [Markets -> Nat]]
            /\ \A c \in Investors : d[c] = IF c = a THEN row ELSE deposit[c]
        BY <1>1, <3>1, <3>2
      <3> HIDE DEF w, d
      <3>5. \A c \in Investors : \A y \in Markets : y # Market => d[c][y] = deposit[c][y]
        BY <3>1, <3>4
      <3>6. ASSUME NEW c \in Investors PROVE w[c] + d[c][Market] = wallet[c] + deposit[c][Market]
        <4>1. wallet[c] \in Nat /\ deposit[c][Market] \in Nat
          BY <1>1
        <4> QED
          <5>1. d[c][Market] = IF c = a THEN deposit[a][Market] - 1 ELSE deposit[c][Market]
            BY <3>1, <3>4
          <5>2. w[c] = IF c = a THEN wallet[a] + 1 ELSE wallet[c]
            BY <3>3
          <5> QED
            BY <4>1, <5>1, <5>2
      <3> QED
        BY <3>3, <3>4, <3>5, <3>6
    <2>4. e \in HolderEvent /\ e.type # "HolderChanged"
      BY <1>1 DEF HolderList!Event, HolderEvent, EventTypes
    <2>5. \A c \in Investors : HoldChange(e, c) = 0 /\ LockChange(e, c) = 0
      BY DEF HolderList!Event, HoldChange, LockChange, Goes, Comes, One
    <2>6. /\ \A c \in Investors : \A y \in Markets \ {Market} : d[c][y] = 0
          /\ \A c \in Investors : /\ w[c] + d[c][Market] = wallet[c] + deposit[c][Market] + HoldChange(e, c)
                                   /\ locked[c] = locked[c] + LockChange(e, c)
      <3> HIDE DEF w, d, e
      <3> QED
        BY <1>1, <2>3, <2>5 DEF HolderInv, OneExchange
    <2> HIDE DEF w, d, e
    <2>7. locked \in [Investors -> Nat]
      BY <1>1
    <2> QED
      BY <2>1, <2>3, <2>4, <2>6, <2>7, BlockAdds, Zenon
  <1>12. ASSUME NEW a \in Investors, NEW b \in Investors, a # b, NEW x \in Markets, HolderList!HolderChanged(a, b, x)
         PROVE  HolderInv'
    <2> DEFINE e == HolderList!Event("HolderChanged", a, b, x)
               d == [deposit EXCEPT ![a][x] = @ - 1, ![b][x] = @ + 1]
    <2>1. HolderList!Block(e, wallet, d, locked) /\ deposit[a][x] > 0
      BY <1>12 DEF HolderList!HolderChanged
    <2>2. x = Market
      BY <2>1 DEF HolderInv, OneExchange
    <2>3. /\ d \in [Investors -> [Markets -> Nat]]
          /\ \A c \in Investors : \A y \in Markets : y # Market => d[c][y] = deposit[c][y]
          /\ \A c \in Investors : d[c][Market] = deposit[c][Market] + One(c = b) - One(c = a)
      <3> DEFINE less == [deposit[a] EXCEPT ![Market] = @ - 1]
                 more == [deposit[b] EXCEPT ![Market] = @ + 1]
      <3>1. /\ less \in [Markets -> Nat] /\ less[Market] = deposit[a][Market] - 1
            /\ more \in [Markets -> Nat] /\ more[Market] = deposit[b][Market] + 1
            /\ \A y \in Markets : y # Market => less[y] = deposit[a][y] /\ more[y] = deposit[b][y]
        BY <1>1, <2>1, <2>2
      <3>2. d = [deposit EXCEPT ![a] = less, ![b] = more]
        BY <1>1, <1>12, <2>2
      <3> HIDE DEF less, more
      <3>3. /\ d \in [Investors -> [Markets -> Nat]]
            /\ \A c \in Investors : d[c] = IF c = a THEN less ELSE IF c = b THEN more ELSE deposit[c]
        BY <1>1, <1>12, <3>1, <3>2
      <3> HIDE DEF d
      <3>4. \A c \in Investors : \A y \in Markets : y # Market => d[c][y] = deposit[c][y]
        BY <3>1, <3>3
      <3>5. ASSUME NEW c \in Investors PROVE d[c][Market] = deposit[c][Market] + One(c = b) - One(c = a)
        <4>1. deposit[c][Market] \in Nat
          BY <1>1
        <4> QED
          BY <1>12, <3>1, <3>3, <4>1 DEF One
      <3> QED
        BY <3>3, <3>4, <3>5
    <2>4. e \in HolderEvent /\ e.type = "HolderChanged" /\ e.exchange = Market
      BY <2>2 DEF HolderList!Event, HolderEvent, EventTypes
    <2>5. \A c \in Investors : HoldChange(e, c) = One(c = b) - One(c = a) /\ LockChange(e, c) = 0
      BY DEF HolderList!Event, HoldChange, LockChange, Goes, Comes, One
    <2>6. /\ \A c \in Investors : \A y \in Markets \ {Market} : d[c][y] = 0
          /\ \A c \in Investors : wallet[c] + d[c][Market] = wallet[c] + deposit[c][Market] + HoldChange(e, c)
          /\ \A c \in Investors : locked[c] = locked[c] + LockChange(e, c)
      <3> HIDE DEF d, e
      <3> QED
        BY <1>1, <2>3, <2>5 DEF HolderInv, OneExchange, One
    <2> HIDE DEF d, e
    <2>7. /\ e \in HolderEvent /\ (e.type = "HolderChanged" => e.exchange = Market)
          /\ wallet \in [Investors -> Nat] /\ locked \in [Investors -> Nat]
          /\ d \in [Investors -> [Markets -> Nat]]
          /\ \A c \in Investors : \A y \in Markets \ {Market} : d[c][y] = 0
          /\ \A c \in Investors :
                /\ wallet[c] + d[c][Market] = wallet[c] + deposit[c][Market] + HoldChange(e, c)
                /\ locked[c] = locked[c] + LockChange(e, c)
          /\ HolderList!Block(e, wallet, d, locked)
      BY <1>1, <2>1, <2>3, <2>4, <2>6
    <2> QED
      BY <2>7, BlockAdds
  <1>13. ~HolderList!SetExchange
    BY DEF HolderList!SetExchange, HolderAssumption
  <1> QED
    BY <1>2, <1>3, <1>4, <1>5, <1>6, <1>7, <1>8, <1>9, <1>10, <1>11, <1>12, <1>13 DEF HolderList!ChainStep

-----------------------------------------------------------------------------
(* Lists of holders: requests and the batch.                               *)

LEMMA NoHolderRows ==
    /\ HolderList!NoRows \in HolderRows /\ DOMAIN HolderList!NoRows = {}
    /\ \A A : HolderList!NoRows \in [DOMAIN HolderList!NoRows -> A]
  <1>1. DOMAIN HolderList!NoRows = {} /\ \A A : HolderList!NoRows \in [{} -> A]
    BY DEF HolderList!NoRows
  <1>2. {} \in SUBSET Investors
    OBVIOUS
  <1> QED
    BY <1>1, <1>2 DEF HolderRows

LEMMA NoUnitsUpto ==
    ASSUME HolderTypes
    PROVE  /\ \A a \in Investors \ {Issuer} : \A k \in Int : k < 1 => OwnedUpto(k, a) = HolderList!NoUnits
           /\ HolderList!NoUnits \in Units
           /\ \A a \in Investors \ {Issuer} : \A k \in Int : k <= Len(log) => OwnedUpto(k, a) \in Units
  <1>1. \A a \in Investors \ {Issuer} : \A k \in Int : k < 1 => OwnedUpto(k, a) = HolderList!NoUnits
    BY DEF OwnedUpto, HolderList!NoUnits
  <1>2. HolderList!NoUnits \in Units
    BY DEF Units, HolderList!NoUnits
  <1>3. \A a \in Investors \ {Issuer} : \A k \in Int : k <= Len(log) /\ ~(k < 1) => OwnedUpto(k, a) \in Units
    BY HolderRanges DEF OwnedUpto
  <1> QED
    BY <1>1, <1>2, <1>3

LEMMA HolderInitially ==
    ASSUME HolderAssumption, HolderList!Init
    PROVE  HolderInv
  <1>1. /\ log = <<>> /\ truth = <<>> /\ lists = <<>> /\ holders = <<>>
        /\ wallet = [a \in Investors |-> IF a = Issuer THEN Issued ELSE 0]
        /\ deposit = [a \in Investors |-> [x \in Markets |-> 0]] /\ locked = [a \in Investors |-> 0]
        /\ exchange = Market /\ events = Market /\ pc = "idle"
        /\ book = HolderList!NoBook /\ draft = HolderList!NoRows
    BY DEF HolderList!Init
  <1>2. Issued \in Nat /\ Market \in Markets
    BY DEF HolderAssumption, HolderList!TokenHoldersAssumption
  <1>3. /\ DOMAIN log = {} /\ DOMAIN truth = {} /\ DOMAIN lists = {} /\ Len(log) = 0 /\ Len(truth) = 0
        /\ Len(lists) = 0 /\ Len(holders) = 0
        /\ \A A : log \in Seq(A) /\ truth \in Seq(A) /\ lists \in Seq(A) /\ holders \in Seq(A)
    BY <1>1
  <1>4. HolderTypes
    BY <1>1, <1>2, <1>3 DEF HolderTypes
  <1>5. OneExchange
    BY <1>1, <1>3 DEF OneExchange
  <1>6. HolderTruth
    BY <1>1, <1>2, <1>3 DEF HolderTruth, OwnedUpto
  <1>7. HolderBook
    BY <1>1 DEF HolderBook
  <1>8. HolderList!ListIsTrue
    BY <1>3 DEF HolderList!ListIsTrue, HolderList!ListAllTokenHoldersCollections
  <1> QED
    BY <1>4, <1>5, <1>6, <1>7, <1>8 DEF HolderInv

\* What the batch and the API leave alone.
LEMMA ChainStays ==
    ASSUME HolderInv, UNCHANGED HolderList!chain, events' = Market
    PROVE  OneExchange' /\ HolderTruth' /\ \A k, a : OwnedUpto(k, a)' = OwnedUpto(k, a)
  <1>1. UNCHANGED <<log, wallet, deposit, locked, truth, exchange>>
    BY DEF HolderList!chain
  <1>2. \A k, a : OwnedUpto(k, a)' = OwnedUpto(k, a)
    BY <1>1 DEF OwnedUpto
  <1>3. OneExchange'
    BY <1>1 DEF HolderInv, OneExchange
  <1>4. HolderTruth'
    BY <1>1, Zenon DEF HolderInv, HolderTruth, OwnedUpto
  <1> QED
    BY <1>2, <1>3, <1>4

\* A list that is true of what was held at its block.
Lists(rows, units) ==
    /\ DOMAIN rows = {a \in Investors \ {Issuer} : units[a] # HolderList!NoUnits}
    /\ \A a \in DOMAIN rows : rows[a] = units[a]

LEMMA ListsTrue ==
    /\ HolderList!ListIsTrue
         <=> \A i \in DOMAIN lists : lists[i].status = "done" => Lists(holders[i], truth[lists[i].block])
    /\ HolderList!ListIsTrue'
         <=> \A i \in DOMAIN lists' : lists'[i].status = "done" => Lists(holders'[i], truth'[lists'[i].block])
  BY DEF HolderList!ListIsTrue, HolderList!ListAllTokenHoldersCollections, HolderList!RetrieveTokenHoldersCollection,
     Lists, HolderList!NoUnits

LEMMA HolderRequest ==
    ASSUME HolderInv, NEW block \in 1..MaxBlocks, MaxBlocks \in Nat, HolderList!CreateTokenHoldersCollection(block)
    PROVE  HolderInv'
  <1> DEFINE new == [block |-> block, status |-> "pending"]
             n == Len(lists)
  <1>1. /\ lists' = Append(lists, new) /\ holders' = Append(holders, HolderList!NoRows)
        /\ UNCHANGED <<HolderList!chain, log, truth, wallet, deposit, locked, exchange, events, pc, target, reached, book, draft>>
        /\ block <= Len(log)
    BY DEF HolderList!CreateTokenHoldersCollection, HolderList!chain, HolderList!local
  <1>2. new \in [block : Nat, status : {"pending", "done", "failed"}]
    OBVIOUS
  <1>3. /\ lists \in Seq([block : Nat, status : {"pending", "done", "failed"}])
        /\ holders \in Seq(HolderRows) /\ Len(holders) = n /\ n \in Nat /\ DOMAIN lists = 1..n
    BY HolderRanges DEF HolderInv, HolderTypes
  <1> HIDE DEF new
  <1>4. /\ lists' \in Seq([block : Nat, status : {"pending", "done", "failed"}])
        /\ holders' \in Seq(HolderRows) /\ Len(lists') = n + 1 /\ Len(holders') = n + 1
        /\ DOMAIN lists' = 1..(n + 1)
        /\ \A i \in 1..n : lists'[i] = lists[i] /\ holders'[i] = holders[i]
        /\ lists'[n + 1] = new
    BY <1>1, <1>2, <1>3, NoHolderRows
  <1>5. new.block \in 1..Len(log) /\ new.status = "pending"
    BY <1>1 DEF new
  <1> HIDE DEF n
  <1>10. ASSUME NEW i \in DOMAIN lists'
         PROVE  \/ i \in DOMAIN lists /\ lists'[i] = lists[i] /\ holders'[i] = holders[i]
                \/ lists'[i] = new
    BY <1>3, <1>4
  <1>6. HolderTypes'
    <2>1. \A i \in DOMAIN lists' : lists'[i].block \in 1..Len(log)
      <3>1. \A i \in DOMAIN lists : lists[i].block \in 1..Len(log)
        BY DEF HolderInv, HolderTypes
      <3> QED
        BY <1>5, <1>10, <3>1
    <2>2. pc # "idle" => target \in DOMAIN lists' /\ lists'[target].status = "pending"
      BY <1>3, <1>4 DEF HolderInv, HolderTypes
    <2> QED
      BY <1>1, <1>4, <2>1, <2>2 DEF HolderInv, HolderTypes
  <1>7. OneExchange' /\ HolderTruth'
    BY <1>1, ChainStays DEF HolderInv, OneExchange
  <1>8. HolderBook'
    BY <1>1, <1>3, <1>4, BookStays
  <1>9. HolderList!ListIsTrue'
    <2>1. \A i \in DOMAIN lists' : lists'[i].status = "done" => i \in DOMAIN lists /\ lists'[i] = lists[i] /\ holders'[i] = holders[i]
      BY <1>5, <1>10
    <2> QED
      BY <1>1, <2>1, ListsTrue DEF HolderInv
  <1> QED
    BY <1>6, <1>7, <1>8, <1>9 DEF HolderInv

LEMMA HolderLoad ==
    ASSUME HolderInv, HolderList!LoadTarget
    PROVE  HolderInv'
  <1>1. /\ pc = "idle" /\ pc' = "start" /\ events' = Market
        /\ target' \in DOMAIN lists /\ lists[target'].status = "pending"
        /\ UNCHANGED <<HolderList!chain, log, truth, wallet, deposit, locked, exchange, lists, holders, reached, book, draft>>
    BY DEF HolderList!LoadTarget, HolderList!chain, HolderList!db, HolderInv, OneExchange
  <1>2. HolderTypes'
    BY <1>1 DEF HolderInv, HolderTypes
  <1>3. OneExchange' /\ HolderTruth'
    BY <1>1, ChainStays
  <1>4. HolderBook'
    BY <1>1 DEF HolderInv, HolderBook, HolderList!NoBook, HolderList!NoRows, HolderList!NoUnits
  <1>5. HolderList!ListIsTrue'
    BY <1>1, ListsTrue DEF HolderInv
  <1> QED
    BY <1>2, <1>3, <1>4, <1>5 DEF HolderInv

\* The newest list of an earlier block is the book at that block.
LEMMA HolderCheckpoint ==
    ASSUME HolderInv, HolderList!LoadCheckpoint
    PROVE  HolderInv'
  <1> DEFINE done == {i \in DOMAIN lists : lists[i].status = "done" /\ lists[i].block < lists[target].block}
             last == CHOOSE i \in done : \A j \in done : lists[j].block <= lists[i].block
  <1>1. /\ pc = "start" /\ pc' = "lots" /\ events' = Market
        /\ UNCHANGED <<HolderList!chain, log, truth, wallet, deposit, locked, exchange, lists, holders, target, draft>>
        /\ book = HolderList!NoBook /\ draft = HolderList!NoRows /\ target \in DOMAIN lists
    BY DEF HolderList!LoadCheckpoint, HolderList!chain, HolderList!db, HolderInv, OneExchange, HolderTypes, HolderBook
  <1>2. lists[target].block \in 1..Len(log) /\ Len(log) \in Nat
    BY <1>1, HolderRanges DEF HolderInv, HolderTypes
  <1>3. /\ HolderTypes' /\ OneExchange' /\ HolderTruth' /\ HolderList!ListIsTrue'
        /\ \A k, a : OwnedUpto(k, a)' = OwnedUpto(k, a)
    BY <1>1, ChainStays, ListsTrue DEF HolderInv, HolderTypes
  <1>4. DOMAIN draft' = {} /\ draft' \in [DOMAIN draft' -> IntUnits]
    BY <1>1, NoHolderRows
  <1>5. \A a \in Investors : book[a] = HolderList!NoUnits
    BY <1>1 DEF HolderList!NoBook
  <1>6. CASE done = {}
    <2>1. reached' = 0 /\ book' = book
      BY <1>6 DEF HolderList!LoadCheckpoint
    <2>2. \A a \in Investors : book'[a] \in IntUnits
      BY <1>5, <2>1 DEF HolderList!NoUnits, IntUnits
    <2>3. \A a \in Investors \ {Issuer} : book'[a] = OwnedUpto(reached' - 1, a)
      <3>1. reached' - 1 < 1 /\ reached' - 1 \in Int
        BY <2>1
      <3> QED
        BY <1>5, <2>1, <3>1, NoUnitsUpto DEF HolderInv
    <2>4. reached' \in Nat /\ reached' <= lists[target].block
      BY <1>2, <2>1
    <2>5. HolderBook'
      BY <1>1, <1>2, <1>3, <1>4, <2>2, <2>3, <2>4 DEF HolderBook
    <2> QED
      BY <1>3, <2>5 DEF HolderInv
  <1>7. CASE done # {}
    <2>1. last \in done
      <3> DEFINE S == {Len(log) - lists[i].block : i \in done}
      <3>1. \A i \in done : lists[i].block \in 1..Len(log)
        BY DEF HolderInv, HolderTypes
      <3>2. S \in SUBSET Nat /\ S # {}
        BY <1>2, <1>7, <3>1
      <3>3. PICK x \in S : \A y \in S : x <= y
        <4> HIDE DEF S
        <4> QED
          BY <3>2, LeastOf
      <3>4. PICK i \in done : x = Len(log) - lists[i].block
        BY <3>3
      <3>5. \A j \in done : lists[j].block <= lists[i].block
        <4> SUFFICES ASSUME NEW j \in done PROVE lists[j].block <= lists[i].block
          OBVIOUS
        <4>1. Len(log) - lists[j].block \in S
          OBVIOUS
        <4>2. x <= Len(log) - lists[j].block
          BY <3>3, <4>1
        <4> QED
          BY <1>2, <3>1, <3>4, <4>2
      <3> HIDE DEF done, S
      <3> QED
        BY <3>5
    <2> DEFINE b == lists[last].block
               rows == holders[last]
    <2>2. /\ reached' = b + 1
          /\ book' = [a \in Investors |->
                IF a \notin DOMAIN rows THEN book[a]
                ELSE [hold |-> book[a].hold + rows[a].hold, locked |-> book[a].locked + rows[a].locked]]
      <3> HIDE DEF last
      <3> QED
        BY <1>7, Zenon DEF HolderList!LoadCheckpoint, last
    <2>3. b \in 1..Len(log) /\ b < lists[target].block /\ Lists(rows, truth[b])
      <3>1. last \in DOMAIN lists /\ lists[last].status = "done" /\ lists[last].block < lists[target].block
        BY <2>1
      <3> HIDE DEF last
      <3> QED
        BY <3>1, ListsTrue DEF HolderInv, HolderTypes
    <2> HIDE DEF b, rows
    <2>4. reached' \in Nat /\ reached' <= lists[target].block /\ reached' - 1 = b /\ ~(b < 1)
      BY <1>2, <2>2, <2>3
    <2>5. ASSUME NEW a \in Investors \ {Issuer} PROVE book'[a] = OwnedUpto(b, a) /\ book'[a] \in IntUnits
      <3>1. OwnedUpto(b, a) = truth[b][a] /\ truth[b][a] \in Units
        BY <2>3, <2>4, HolderRanges DEF OwnedUpto, HolderInv
      <3>2. CASE a \in DOMAIN rows
        <4>1. rows[a] = truth[b][a]
          BY <2>3, <3>2 DEF Lists
        <4>2. book'[a] = [hold |-> 0 + rows[a].hold, locked |-> 0 + rows[a].locked]
          BY <1>5, <2>2, <3>2 DEF HolderList!NoUnits
        <4> QED
          BY <3>1, <4>1, <4>2 DEF Units, IntUnits
      <3>3. CASE a \notin DOMAIN rows
        <4>1. truth[b][a] = HolderList!NoUnits
          BY <2>3, <3>3 DEF Lists
        <4>2. book'[a] = HolderList!NoUnits
          BY <1>5, <2>2, <3>3
        <4> QED
          BY <3>1, <4>1, <4>2 DEF Units, IntUnits
      <3> QED
        BY <3>2, <3>3
    <2>6. \A a \in Investors : book'[a] \in IntUnits
      <3>1. Issuer \in Investors => book'[Issuer] = HolderList!NoUnits
        BY <1>5, <2>2, <2>3 DEF Lists
      <3>2. HolderList!NoUnits \in IntUnits
        BY DEF HolderList!NoUnits, IntUnits
      <3> QED
        BY <2>5, <3>1, <3>2
    <2>7. HolderBook'
      BY <1>1, <1>2, <1>3, <1>4, <2>4, <2>5, <2>6 DEF HolderBook
    <2> QED
      BY <1>3, <2>7 DEF HolderInv
  <1> QED
    BY <1>6, <1>7

\* A lot takes the book to its last block, and whoever holds something gets a row.
LEMMA HolderLot ==
    ASSUME HolderAssumption, HolderInv, HolderList!ProcessAll
    PROVE  HolderInv'
  <1> DEFINE block == lists[target].block
             n == HolderList!Max(HolderList!NextLot)
             b == [a \in Investors |-> HolderList!Stored(a, reached, n)]
             new == {a \in Investors \ {Issuer} : b[a].hold > 0 \/ b[a].locked > 0}
  <1>1. /\ pc = "lots" /\ pc' = "lots" /\ reached <= block /\ events' = Market
        /\ book' = b /\ draft' = [a \in DOMAIN draft \cup new |-> b[a]] /\ reached' = n + 1
        /\ UNCHANGED <<HolderList!chain, log, truth, wallet, deposit, locked, exchange, lists, holders, target>>
    BY DEF HolderList!ProcessAll, HolderList!SaveHolders, HolderList!chain, HolderList!db, HolderInv, OneExchange
  <1>2. /\ reached \in Nat /\ block \in 1..Len(log) /\ Len(log) \in Nat
        /\ \A a \in Investors : book[a] \in IntUnits
        /\ \A a \in Investors \ {Issuer} : book[a] = OwnedUpto(reached - 1, a)
        /\ DOMAIN draft \subseteq Investors \ {Issuer}
    BY <1>1, HolderRanges DEF HolderInv, HolderTypes, HolderBook
  <1>3. Lot \in Nat \ {0}
    BY DEF HolderAssumption, HolderList!TokenHoldersAssumption
  <1>4. n \in Nat /\ reached <= n /\ n <= block
    <2> DEFINE last == HolderList!Min({reached + Lot - 1, block})
    <2>1. last \in {reached + Lot - 1, block} /\ last <= reached + Lot - 1 /\ last <= block
      <3> DEFINE S == {reached + Lot - 1, block}
      <3>1. \E x \in S : \A y \in S : x <= y
        BY <1>2, <1>3
      <3>2. (CHOOSE x \in S : \A y \in S : x <= y) \in S
            /\ \A y \in S : (CHOOSE x \in S : \A z \in S : x <= z) <= y
        <4> HIDE DEF S
        <4> QED
          BY <3>1
      <3> QED
        BY <3>2 DEF HolderList!Min
    <2>2. last \in Nat /\ reached <= last /\ last <= block
      BY <1>1, <1>2, <1>3, <2>1
    <2>3. HolderList!NextLot = reached..last
      BY DEF HolderList!NextLot
    <2> HIDE DEF last
    <2>4. HolderList!Max(reached..last) = last
      <3>1. last \in reached..last /\ \A y \in reached..last : last >= y
        BY <1>2, <2>2
      <3>2. \A x \in reached..last : (\A y \in reached..last : x >= y) => x = last
        BY <1>2, <3>1
      <3> QED
        BY <3>1, <3>2 DEF HolderList!Max
    <2> QED
      BY <2>2, <2>3, <2>4
  <1> HIDE DEF n
  <1>5. /\ HolderTypes' /\ OneExchange' /\ HolderTruth' /\ HolderList!ListIsTrue'
        /\ \A k, a : OwnedUpto(k, a)' = OwnedUpto(k, a)
    BY <1>1, ChainStays, ListsTrue DEF HolderInv, HolderTypes
  <1>6. \A a \in Investors : b[a] \in IntUnits
    <2> SUFFICES ASSUME NEW a \in Investors PROVE HolderList!Stored(a, reached, n) \in IntUnits
      OBVIOUS
    <2>1. n \in Int /\ n + 1 >= reached
      BY <1>2, <1>4
    <2> QED
      BY <1>2, <2>1, StoredOne DEF HolderInv
  <1>7. \A a \in Investors \ {Issuer} : b[a] = OwnedUpto(n, a)
    <2> SUFFICES ASSUME NEW a \in Investors \ {Issuer} PROVE HolderList!Stored(a, reached, n) = OwnedUpto(n, a)
      OBVIOUS
    <2>1. n <= Len(log)
      BY <1>2, <1>4
    <2> QED
      BY <1>2, <1>4, <2>1, StoredLot DEF HolderInv
  <1>8. \A a \in Investors \ {Issuer} : b[a] # HolderList!NoUnits => a \in new
    <2> SUFFICES ASSUME NEW a \in Investors \ {Issuer}, b[a] # HolderList!NoUnits PROVE a \in new
      OBVIOUS
    <2>1. b[a] \in Units
      BY <1>2, <1>4, <1>7, NoUnitsUpto DEF HolderInv
    <2> HIDE DEF b
    <2> QED
      BY <2>1 DEF Units, HolderList!NoUnits
  <1> HIDE DEF b
  <1>9. /\ DOMAIN draft' \subseteq Investors \ {Issuer} /\ draft' \in [DOMAIN draft' -> IntUnits]
        /\ \A a \in DOMAIN draft' : draft'[a] = book'[a]
        /\ \A a \in Investors \ {Issuer} : book'[a] # HolderList!NoUnits => a \in DOMAIN draft'
    <2>1. new \subseteq Investors \ {Issuer}
      OBVIOUS
    <2> HIDE DEF new
    <2>2. /\ DOMAIN draft' = DOMAIN draft \cup new
          /\ \A a \in DOMAIN draft' : draft'[a] = b[a]
          /\ draft' = [a \in DOMAIN draft' |-> draft'[a]]
      BY <1>1
    <2> QED
      BY <1>1, <1>2, <1>6, <1>8, <2>1, <2>2
  <1>10. reached' \in Nat /\ reached' <= lists'[target'].block + 1 /\ reached' - 1 = n
    BY <1>1, <1>2, <1>4
  <1>11. /\ \A a \in Investors : book'[a] \in IntUnits
         /\ \A a \in Investors \ {Issuer} : book'[a] = OwnedUpto(reached' - 1, a)
    BY <1>1, <1>6, <1>7, <1>10
  <1>12. HolderBook'
    BY <1>1, <1>5, <1>9, <1>10, <1>11 DEF HolderBook, HolderList!NoUnits
  <1> QED
    BY <1>5, <1>12 DEF HolderInv

\* A list is done: its rows are those of the draft that hold something.
LEMMA HolderDone ==
    ASSUME HolderInv, HolderList!UpdateStatusDone
    PROVE  HolderInv'
  <1> DEFINE block == lists[target].block
             rows == [a \in {c \in DOMAIN draft : draft[c] # HolderList!NoUnits} |-> draft[a]]
  <1>1. /\ pc = "lots" /\ reached > block /\ pc' = "idle" /\ target \in DOMAIN lists
        /\ holders' = [holders EXCEPT ![target] = rows]
        /\ lists' = [lists EXCEPT ![target].status = "done"]
        /\ book' = HolderList!NoBook /\ draft' = HolderList!NoRows /\ events' = Market
        /\ UNCHANGED <<HolderList!chain, log, truth, wallet, deposit, locked, exchange>>
    BY DEF HolderList!UpdateStatusDone, HolderList!Reset, HolderList!chain, HolderInv, OneExchange, HolderTypes
  <1>2. /\ reached \in Nat /\ block \in 1..Len(log) /\ Len(log) \in Nat /\ reached <= block + 1
        /\ \A a \in Investors \ {Issuer} : book[a] = OwnedUpto(reached - 1, a)
        /\ DOMAIN draft \subseteq Investors \ {Issuer}
        /\ \A a \in DOMAIN draft : draft[a] = book[a]
        /\ \A a \in Investors \ {Issuer} : book[a] # HolderList!NoUnits => a \in DOMAIN draft
    BY <1>1, HolderRanges DEF HolderInv, HolderTypes, HolderBook
  <1>3. \A a \in Investors \ {Issuer} : book[a] = truth[block][a] /\ book[a] \in Units
    <2>1. reached - 1 = block /\ ~(block < 1) /\ block \in Int /\ block <= Len(log)
      BY <1>1, <1>2
    <2> HIDE DEF block
    <2>2. \A a \in Investors \ {Issuer} : OwnedUpto(block, a) = truth[block][a] /\ OwnedUpto(block, a) \in Units
      BY <2>1, NoUnitsUpto DEF OwnedUpto, HolderInv
    <2> QED
      BY <1>2, <2>1, <2>2
  <1>4. Lists(rows, truth[block])
    <2> HIDE DEF block
    <2>1. DOMAIN rows = {a \in Investors \ {Issuer} : truth[block][a] # HolderList!NoUnits}
      BY <1>2, <1>3
    <2>2. \A a \in DOMAIN rows : rows[a] = truth[block][a]
      BY <1>2, <1>3
    <2> QED
      BY <2>1, <2>2 DEF Lists
  <1>5. rows \in HolderRows
    <2> DEFINE A == {c \in DOMAIN draft : draft[c] # HolderList!NoUnits}
    <2>1. A \subseteq Investors /\ \A a \in A : draft[a] \in Units
      BY <1>2, <1>3
    <2>2. rows \in [A -> Units]
      BY <2>1
    <2> HIDE DEF A, rows
    <2> QED
      BY <2>1, <2>2 DEF HolderRows
  <1> HIDE DEF rows
  <1>6. /\ lists \in Seq([block : Nat, status : {"pending", "done", "failed"}]) /\ holders \in Seq(HolderRows)
        /\ Len(holders) = Len(lists) /\ DOMAIN lists = 1..Len(lists) /\ DOMAIN holders = DOMAIN lists
        /\ lists[target] \in [block : Nat, status : {"pending", "done", "failed"}]
    BY <1>1, HolderRanges DEF HolderInv, HolderTypes
  <1>7. /\ lists' = [lists EXCEPT ![target] = [lists[target] EXCEPT !.status = "done"]]
        /\ [lists[target] EXCEPT !.status = "done"] \in [block : Nat, status : {"pending", "done", "failed"}]
        /\ [lists[target] EXCEPT !.status = "done"].block = block
    BY <1>1, <1>6
  <1>8. /\ lists' \in Seq([block : Nat, status : {"pending", "done", "failed"}]) /\ holders' \in Seq(HolderRows)
        /\ Len(lists') = Len(lists) /\ Len(holders') = Len(lists) /\ DOMAIN lists' = DOMAIN lists
        /\ \A i \in DOMAIN lists : lists'[i].block = lists[i].block
        /\ \A i \in DOMAIN lists : i # target => lists'[i] = lists[i] /\ holders'[i] = holders[i]
        /\ holders'[target] = rows
    BY <1>1, <1>5, <1>6, <1>7
  <1>9. HolderTypes'
    BY <1>1, <1>8 DEF HolderInv, HolderTypes
  <1>10. OneExchange' /\ HolderTruth'
    BY <1>1, ChainStays
  <1>11. HolderBook'
    BY <1>1 DEF HolderBook, HolderList!NoBook, HolderList!NoRows, HolderList!NoUnits
  <1>12. HolderList!ListIsTrue'
    <2> SUFFICES ASSUME NEW i \in DOMAIN lists', lists'[i].status = "done"
                 PROVE  Lists(holders'[i], truth'[lists'[i].block])
      BY ListsTrue
    <2>1. i \in DOMAIN lists
      BY <1>8
    <2>2. CASE i = target
      BY <1>1, <1>4, <1>8, <2>1, <2>2
    <2>3. CASE i # target
      BY <1>1, <1>8, <2>1, <2>3, ListsTrue DEF HolderInv
    <2> QED
      BY <2>2, <2>3
  <1> QED
    BY <1>9, <1>10, <1>11, <1>12 DEF HolderInv

\* Failures and restarts: nothing of the book is left.
LEMMA HolderFails ==
    ASSUME HolderAssumption, HolderInv,
           HolderList!CollectFails \/ HolderList!UpdateStatusFailed \/ HolderList!UpdateStatusFails \/ HolderList!Crash
    PROVE  HolderInv'
  <1>1. CASE HolderList!CollectFails \/ HolderList!Crash
    <2>1. /\ pc # "idle" /\ UNCHANGED <<HolderList!chain, log, truth, wallet, deposit, locked, exchange, lists, holders>>
          /\ events' = Market
          /\ \/ pc' = "fail" /\ target' = target
             \/ pc' = "idle" /\ book' = HolderList!NoBook /\ draft' = HolderList!NoRows
      BY <1>1 DEF HolderList!CollectFails, HolderList!Crash, HolderList!Reset, HolderList!chain, HolderList!db,
         HolderInv, OneExchange
    <2>2. HolderTypes' /\ HolderList!ListIsTrue'
      BY <2>1, ListsTrue DEF HolderInv, HolderTypes
    <2>3. OneExchange' /\ HolderTruth'
      BY <2>1, ChainStays
    <2>4. HolderBook'
      BY <2>1 DEF HolderBook, HolderList!NoBook, HolderList!NoRows, HolderList!NoUnits
    <2> QED
      BY <2>2, <2>3, <2>4 DEF HolderInv
  <1>2. CASE HolderList!UpdateStatusFailed
    <2>1. /\ pc = "fail" /\ pc' = "idle" /\ lists' = [lists EXCEPT ![target].status = "failed"]
          /\ UNCHANGED <<HolderList!chain, log, truth, wallet, deposit, locked, exchange, holders>>
          /\ events' = Market /\ book' = HolderList!NoBook /\ draft' = HolderList!NoRows
          /\ target \in DOMAIN lists
      BY <1>2 DEF HolderList!UpdateStatusFailed, HolderList!Reset, HolderList!chain,
         HolderInv, OneExchange, HolderTypes
    <2>2. /\ lists \in Seq([block : Nat, status : {"pending", "done", "failed"}])
          /\ DOMAIN lists = 1..Len(lists)
          /\ lists[target] \in [block : Nat, status : {"pending", "done", "failed"}]
      BY <2>1, HolderRanges DEF HolderInv, HolderTypes
    <2>3. /\ lists' = [lists EXCEPT ![target] = [lists[target] EXCEPT !.status = "failed"]]
          /\ [lists[target] EXCEPT !.status = "failed"] \in [block : Nat, status : {"pending", "done", "failed"}]
          /\ [lists[target] EXCEPT !.status = "failed"].block = lists[target].block
          /\ [lists[target] EXCEPT !.status = "failed"].status = "failed"
      BY <2>1, <2>2
    <2>4. /\ lists' \in Seq([block : Nat, status : {"pending", "done", "failed"}])
          /\ Len(lists') = Len(lists) /\ DOMAIN lists' = DOMAIN lists
          /\ \A i \in DOMAIN lists : lists'[i].block = lists[i].block
          /\ \A i \in DOMAIN lists : i # target => lists'[i] = lists[i]
          /\ lists'[target].status = "failed"
      BY <2>1, <2>2, <2>3
    <2>5. HolderTypes'
      BY <2>1, <2>4 DEF HolderInv, HolderTypes
    <2>6. HolderList!ListIsTrue'
      BY <2>1, <2>4, ListsTrue DEF HolderInv
    <2>7. OneExchange' /\ HolderTruth'
      BY <2>1, ChainStays
    <2>8. HolderBook'
      BY <2>1 DEF HolderBook, HolderList!NoBook, HolderList!NoRows, HolderList!NoUnits
    <2> QED
      BY <2>5, <2>6, <2>7, <2>8 DEF HolderInv
  <1>3. ~HolderList!UpdateStatusFails
    BY DEF HolderList!UpdateStatusFails, HolderAssumption
  <1> QED
    BY <1>1, <1>2, <1>3

LEMMA HolderPreserved ==
    ASSUME HolderAssumption, HolderInv, [HolderList!Next]_HolderList!vars
    PROVE  HolderInv'
  <1>1. CASE HolderList!ChainStep
    BY <1>1, HolderChain
  <1>2. ASSUME NEW block \in 1..MaxBlocks, HolderList!CreateTokenHoldersCollection(block) PROVE HolderInv'
    <2>1. MaxBlocks \in Nat
      BY DEF HolderAssumption, HolderList!TokenHoldersAssumption
    <2> QED
      BY <1>2, <2>1, HolderRequest
  <1>3. CASE HolderList!LoadTarget
    BY <1>3, HolderLoad
  <1>4. CASE HolderList!LoadCheckpoint
    BY <1>4, HolderCheckpoint
  <1>5. CASE HolderList!ProcessAll
    BY <1>5, HolderLot
  <1>6. CASE HolderList!UpdateStatusDone
    BY <1>6, HolderDone
  <1>7. CASE \/ HolderList!CollectFails \/ HolderList!UpdateStatusFailed
             \/ HolderList!UpdateStatusFails \/ HolderList!Crash
    BY <1>7, HolderFails
  <1>8. CASE UNCHANGED HolderList!vars
    <2>1. UNCHANGED <<HolderList!chain, log, truth, wallet, deposit, locked, exchange, events, lists, holders, pc, target,
                      reached, book, draft>>
      BY <1>8 DEF HolderList!vars, HolderList!chain, HolderList!db, HolderList!local
    <2>2. HolderTypes' /\ HolderList!ListIsTrue'
      BY <2>1, ListsTrue DEF HolderInv, HolderTypes
    <2>3. OneExchange' /\ HolderTruth'
      BY <2>1, ChainStays DEF HolderInv, OneExchange
    <2>4. HolderBook'
      BY <2>1, BookStays
    <2> QED
      BY <2>2, <2>3, <2>4 DEF HolderInv
  <1> QED
    BY <1>1, <1>2, <1>3, <1>4, <1>5, <1>6, <1>7, <1>8, Zenon DEF HolderList!Next, HolderList!Collect

\* A list that is done shows what everybody but the issuer held at its block, whatever list
\* it started from, with any requests, lots, failures and restarts, as long as the token
\* keeps its exchange and a failure can be recorded.
THEOREM HoldersListed == HolderAssumption => (HolderList!Spec => []HolderList!ListIsTrue)
  <1> SUFFICES ASSUME HolderAssumption PROVE HolderList!Spec => []HolderList!ListIsTrue
    OBVIOUS
  <1>1. HolderList!Init => HolderInv
    BY HolderInitially
  <1>2. HolderInv /\ [HolderList!Next]_HolderList!vars => HolderInv'
    BY HolderPreserved
  <1>3. HolderInv => HolderList!ListIsTrue
    BY DEF HolderInv
  <1> QED
    BY <1>1, <1>2, <1>3, PTL DEF HolderList!Spec
=============================================================================
