------------------------------ MODULE WSTBridge ------------------------------
(***************************************************************************)
(* The bridge of one token between ibet and Ethereum.                      *)
(* batch/processor_eth_wst_monitor_bridge_events.py turns Lock events of    *)
(* ibet into rows that mint IbetWST, and final Burn and Transfer events of  *)
(* IbetWST into rows for ibet, which batch/processor_eth_wst_bridge_to_ibet *)
(* .py executes.  The issuer may burn on Ethereum and unlock on ibet        *)
(* through the API at any time.  How a row of eth_ibet_wst_tx reaches       *)
(* Ethereum is WSTTx; here it is mined once, or never.                     *)
(*                                                                         *)
(* Events are numbered: event k of a chain is its block k.  A row, whose key *)
(* is a random uuid in the code, is named by the block its pass started from *)
(* and its event, a request by its number and 0.                           *)
(***************************************************************************)
EXTENDS Integers, Sequences, FiniteSets, Functions

CONSTANTS
    Accounts,       \* holders
    Issuer,         \* issuer, lock address and authorizer of mints
    Zero,           \* zero address
    Amounts,        \* amounts of a lock or a request
    MaxLocks,       \* bound on Lock events
    MaxRequests,    \* bound on transfers and burns requested
    MaxReorgs,      \* bound on reorganisations of Ethereum
    MaxSkips,       \* bound on Lock events given up after an error
    MaxLate,        \* bound on transactions of ibet mined after the wait
    MaxUnlocks,     \* bound on forced unlocks by the API
    MaxDeletions    \* 1 if the issuer's account may be deleted, else 0

BridgeAssumption ==
    /\ IsFiniteSet(Accounts)
    /\ Issuer \notin Accounts /\ Zero \notin Accounts
    /\ Amounts \subseteq Nat \ {0}
    /\ \A n \in {MaxLocks, MaxRequests, MaxReorgs, MaxSkips, MaxLate,
                 MaxUnlocks, MaxDeletions} : n \in Nat

VARIABLES
    lockLog,    \* ibet: Lock events for the issuer, and if the token was watched
    locked,     \* ibet: amount locked for the issuer, by account
    eth,        \* Ethereum: event, row and balances of each block
    final,      \* Ethereum: finalized blocks
    wst,        \* rows of eth_ibet_wst_tx
    btx,        \* rows of eth_to_ibet_bridge_tx
    synced,     \* ibet_wst_bridge_synced_block_number, by network
    deployed,   \* token.ibet_wst_deployed
    watched,    \* the token is in wst_list (memory of the monitor)
    pc,         \* where the monitor is: "load", "mint" or "burn"
    todo,       \* pending_tx_list of the bridge sender
    faults      \* what has gone wrong, or has been done by hand, so far

chains == <<lockLog, locked, eth, final>>
monitor == <<synced, watched, pc>>
db == <<wst, btx, deployed>>
vars == <<chains, db, monitor, todo, faults>>

NoBalance == [a \in Accounts |-> 0]

Init ==
    /\ lockLog = <<>> /\ locked = NoBalance
    /\ eth = <<>> /\ final = 0
    /\ wst = <<>> /\ btx = <<>>
    /\ synced = [ibet |-> 0, eth |-> 0]
    /\ deployed = FALSE /\ watched = FALSE /\ pc = "load" /\ todo = {}
    /\ faults = [reorgs |-> 0, skipped |-> {}, late |-> 0, relocked |-> 0,
                 unlocks |-> 0, freed |-> 0, deleted |-> 0]

-----------------------------------------------------------------------------
(* ibet and the API.                                                       *)

\* A holder locks tokens for the issuer; the data of the event is a message
\* of the bridge, or something else.
Lock(a, v, bridge) ==
    /\ Len(lockLog) < MaxLocks
    /\ locked' = [locked EXCEPT ![a] = @ + v]
    /\ lockLog' = Append(lockLog, [account |-> a, value |-> v,
                                   bridge |-> bridge, watched |-> watched])
    /\ UNCHANGED <<eth, final, db, monitor, todo, faults>>

Row(type, from, to, v, authorizer, src) ==
    [type |-> type, from |-> from, to |-> to, value |-> v,
     authorizer |-> authorizer, src |-> src, finalized |-> FALSE]

Balance(a) == IF eth = <<>> THEN 0 ELSE eth[Len(eth)].balance[a]

Requested == {i \in DOMAIN wst : wst[i].type # "mint"}

\* Rows are only added: a key, which is a uuid in the code, is never used twice.
Inserted(table, new) ==
    [i \in DOMAIN table \cup DOMAIN new |-> IF i \in DOMAIN table THEN table[i] ELSE new[i]]

Request(row) ==
    /\ Cardinality(Requested) < MaxRequests
    /\ wst' = Inserted(wst, [i \in {<<Cardinality(Requested) + 1, 0>>} |-> row])
    /\ UNCHANGED <<chains, btx, deployed, monitor, todo, faults>>

\* The balance is only checked when the row is inserted.
RequestTransfer(a, b, v) ==
    a # b /\ Balance(a) >= v /\ Request(Row("transfer", a, b, v, a, 0))

RequestBurn(a, v) ==
    Balance(a) >= v /\ Request(Row("burn", a, Zero, v, a, 0))

\* The authorizer is the issuer, who signs for the account.
RequestForceBurn(a, v) == Request(Row("force_burn", a, Zero, v, Issuer, 0))

\* Burns of the account that are not finalized, as force_unlock looks for them.
BurnsSeen(a) == {i \in DOMAIN wst : /\ wst[i].type \in {"burn", "force_burn"}
                                    /\ wst[i].authorizer = a
                                    /\ ~wst[i].finalized}

\* Position API: an issuer unlocks by hand.
ForceUnlock(a, v) ==
    /\ BurnsSeen(a) = {}
    /\ v <= locked[a]
    /\ faults.unlocks < MaxUnlocks
    /\ locked' = [locked EXCEPT ![a] = @ - v]
    /\ faults' = [faults EXCEPT !.unlocks = @ + 1, !.freed = @ + v]
    /\ UNCHANGED <<lockLog, eth, final, db, monitor, todo>>

\* Account API: is_deleted is set and never reset.
DeleteAccount ==
    /\ faults.deleted < MaxDeletions
    /\ faults' = [faults EXCEPT !.deleted = 1]
    /\ UNCHANGED <<chains, db, monitor, todo>>

\* The deployment of the token's IbetWST is finalized (in detail: WSTTx).
Deploy ==
    /\ ~deployed /\ deployed' = TRUE
    /\ UNCHANGED <<chains, wst, btx, monitor, todo, faults>>

-----------------------------------------------------------------------------
(* Ethereum.                                                               *)

Moved(bal, from, to, v) ==
    [a \in Accounts |-> bal[a] + (IF a = to THEN v ELSE 0)
                               - (IF a = from THEN v ELSE 0)]

\* The transaction of row i is mined; it is reverted when the balance is
\* too low.  Force burns and burns emit the same event.
Mine(i) ==
    /\ i \notin {eth[k].row : k \in DOMAIN eth}
    /\ LET r == wst[i]
           ok == r.from = Zero \/ Balance(r.from) >= r.value
           bal == [a \in Accounts |-> Balance(a)]
       IN  eth' = Append(eth, [type |-> IF ok THEN r.type ELSE "reverted", row |-> i,
                               balance |-> IF ok THEN Moved(bal, r.from, r.to, r.value)
                                                 ELSE bal])
    /\ UNCHANGED <<lockLog, locked, final, db, monitor, todo, faults>>

Reorg ==
    /\ faults.reorgs < MaxReorgs
    /\ \E n \in final..(Len(eth) - 1) : eth' = SubSeq(eth, 1, n)
    /\ faults' = [faults EXCEPT !.reorgs = @ + 1]
    /\ UNCHANGED <<lockLog, locked, final, db, monitor, todo>>

Finalize ==
    /\ final' \in (final + 1)..Len(eth)
    /\ UNCHANGED <<lockLog, locked, eth, db, monitor, todo, faults>>

\* The receipt monitor finalizes the row (in detail: WSTTx).
FinalizeRow(i) ==
    /\ ~wst[i].finalized
    /\ i \in {eth[k].row : k \in 1..final}
    /\ wst' = [wst EXCEPT ![i].finalized = TRUE]
    /\ UNCHANGED <<chains, btx, deployed, monitor, todo, faults>>

-----------------------------------------------------------------------------
(* The monitor of bridge events: run is load_wst_list, ibet_to_eth and      *)
(* eth_to_ibet; each of the two directions is one commit, with its block.   *)

\* A token stays on the list until the process ends.
LoadList ==
    /\ pc = "load"
    /\ watched' = (watched \/ (deployed /\ faults.deleted = 0))
    /\ pc' = "mint"
    /\ UNCHANGED <<chains, db, synced, todo, faults>>

BridgeLocks(lo, hi) == {k \in lo..hi : watched /\ lockLog[k].bridge}

MintRow(k) == Row("mint", Zero, lockLog[k].account, lockLog[k].value, Issuer, k)

\* Mutant: the first block of the range is the last one of the range before.
IbetToEth_Overlap ==
    /\ pc = "mint"
    /\ \E upto \in synced.ibet..Len(lockLog) :
          LET lo == IF synced.ibet = 0 THEN 1 ELSE synced.ibet
          IN  /\ upto > synced.ibet
              /\ wst' = Inserted(wst, [i \in {synced.ibet} \X BridgeLocks(lo, upto) |-> MintRow(i[2])])
              /\ synced' = [synced EXCEPT !.ibet = upto]
    /\ pc' = "burn"
    /\ UNCHANGED <<chains, btx, deployed, watched, todo, faults>>

\* An error while the authorization is made only skips the event.
IbetToEth ==
    /\ pc = "mint"
    /\ \E upto \in synced.ibet..Len(lockLog) :
       \E skip \in SUBSET BridgeLocks(synced.ibet + 1, upto) :
          /\ Cardinality(faults.skipped \cup skip) <= MaxSkips
          /\ LET passed == BridgeLocks(synced.ibet + 1, upto)
             IN  wst' = Inserted(wst, [i \in {synced.ibet} \X (passed \ skip) |-> MintRow(i[2])])
          /\ synced' = [synced EXCEPT !.ibet = upto]
          /\ faults' = [faults EXCEPT !.skipped = @ \cup skip]
    /\ pc' = "burn"
    /\ UNCHANGED <<chains, btx, deployed, watched, todo>>

Burns(lo, hi) ==
    {k \in lo..hi : watched /\ eth[k].type \in {"burn", "force_burn"}}

\* Mints and burns are Transfer events from and to the zero address as well.
Transfers(lo, hi) == {k \in lo..hi : watched /\ eth[k].type = "transfer"}

UnlockRow(k) ==
    LET r == wst[eth[k].row]
    IN  [type |-> "unlock", from |-> r.from, to |-> Zero, value |-> r.value,
         src |-> k, status |-> "PENDING"]

ChangeRow(k) ==
    LET r == wst[eth[k].row]
    IN  [type |-> "change", from |-> r.from, to |-> r.to, value |-> r.value,
         src |-> k, status |-> "PENDING"]

\* Mutant: the latest block of Ethereum.
Upto_Latest == Len(eth)

\* The last block read; Ethereum's is the finalized one.
Upto == final

\* The rows of one pass have no order of their own: see SelectPending.
EthToIbet ==
    /\ pc = "burn"
    /\ \E upto \in synced.eth..Upto :
          /\ LET burns == Burns(synced.eth + 1, upto)
                 moves == Transfers(synced.eth + 1, upto)
             IN  btx' = Inserted(btx, [j \in {synced.eth} \X (burns \cup moves) |->
                                         IF j[2] \in burns THEN UnlockRow(j[2]) ELSE ChangeRow(j[2])])
          /\ synced' = [synced EXCEPT !.eth = upto]
    /\ pc' = "load"
    /\ UNCHANGED <<chains, wst, deployed, watched, todo, faults>>

\* An error rolls the direction back; the process may also be started again.
AbortPass ==
    /\ pc # "load" /\ pc' = "load"
    /\ UNCHANGED <<chains, db, synced, watched, todo, faults>>

Restart ==
    /\ pc' = "load" /\ watched' = FALSE /\ watched
    /\ UNCHANGED <<chains, db, synced, todo, faults>>

-----------------------------------------------------------------------------
(* The bridge sender: the rows that were PENDING when the list was read,    *)
(* in any order, because the statement has no ORDER BY.                    *)

\* Mutant: the status is left out of the statement.
Pending_All == DOMAIN btx

Pending == {j \in DOMAIN btx : btx[j].status = "PENDING"}

SelectPending ==
    /\ todo = {} /\ Pending # {}
    /\ todo' = Pending
    /\ UNCHANGED <<chains, db, monitor, faults>>

Covered(j) == locked[btx[j].from] >= btx[j].value

\* Mutant: the commit of the result is left out, so the row is taken again.
Execute_NotSaved(j) ==
    /\ j \in todo
    /\ locked' = IF Covered(j) THEN Moved(locked, btx[j].from, btx[j].to, btx[j].value)
                               ELSE locked
    /\ todo' = todo \ {j}
    /\ UNCHANGED <<lockLog, eth, final, db, monitor, faults>>

\* Executed and recorded, or reverted and recorded.
Execute(j) ==
    /\ j \in todo
    /\ locked' = IF Covered(j) THEN Moved(locked, btx[j].from, btx[j].to, btx[j].value)
                               ELSE locked
    /\ btx' = [btx EXCEPT ![j].status = IF Covered(j) THEN "SUCCEEDED" ELSE "FAILED"]
    /\ todo' = todo \ {j}
    /\ UNCHANGED <<lockLog, eth, final, wst, deployed, monitor, faults>>

\* Executed, but the wait has timed out, or the process ends before the commit:
\* the error ends the pass and the row stays PENDING.
ExecuteLate(j) ==
    /\ j \in todo /\ Covered(j)
    /\ faults.late < MaxLate
    /\ locked' = Moved(locked, btx[j].from, btx[j].to, btx[j].value)
    /\ faults' = [faults EXCEPT !.late = @ + 1,
                      !.relocked = @ + IF btx[j].type = "unlock" THEN btx[j].value ELSE 0]
    /\ todo' = {}
    /\ UNCHANGED <<lockLog, eth, final, db, monitor>>

\* Not executed: the error ends the pass.
EndPass ==
    /\ todo # {} /\ todo' = {}
    /\ UNCHANGED <<chains, db, monitor, faults>>

-----------------------------------------------------------------------------
Users == \E a \in Accounts, v \in Amounts :
             \/ \E bridge \in BOOLEAN : Lock(a, v, bridge)
             \/ \E b \in Accounts : RequestTransfer(a, b, v)
             \/ RequestBurn(a, v) \/ RequestForceBurn(a, v)
             \/ ForceUnlock(a, v)

Next == \/ Users \/ DeleteAccount \/ Deploy
        \/ \E i \in DOMAIN wst : Mine(i) \/ FinalizeRow(i)
        \/ Reorg \/ Finalize
        \/ LoadList \/ IbetToEth \/ EthToIbet \/ AbortPass \/ Restart
        \/ SelectPending \/ EndPass
        \/ \E j \in DOMAIN btx : Execute(j) \/ ExecuteLate(j)

Spec == Init /\ [][Next]_vars

(* What a pass of either process does when no event of it fails.           *)

IbetToEthAll == IbetToEth /\ synced'.ibet = Len(lockLog)
EthToIbetAll == EthToIbet /\ synced'.eth = final
ExecuteAny == \E j \in DOMAIN btx : Execute(j)

-----------------------------------------------------------------------------
(* Properties.                                                             *)

Event == [type : {"mint", "transfer", "burn", "force_burn", "reverted"},
          row : DOMAIN wst, balance : [Accounts -> Nat]]
Holders == Accounts \cup {Zero}

\* Every variable keeps its type; no balance of either chain becomes negative.
TypeOK ==
    /\ lockLog \in Seq([account : Accounts, value : Amounts,
                        bridge : BOOLEAN, watched : BOOLEAN])
    /\ locked \in [Accounts -> Nat]
    /\ eth \in Seq(Event) /\ final \in 0..Len(eth)
    /\ DOMAIN wst \subseteq Nat \X Nat
    /\ wst \in [DOMAIN wst ->
                  [type : {"mint", "transfer", "burn", "force_burn"},
                   from : Holders, to : Holders, value : Amounts,
                   authorizer : Accounts \cup {Issuer}, src : 0..Len(lockLog),
                   finalized : BOOLEAN]]
    /\ DOMAIN btx \subseteq Nat \X Nat
    /\ btx \in [DOMAIN btx ->
                  [type : {"unlock", "change"}, from : Accounts, to : Holders,
                   value : Amounts, src : 1..final,
                   status : {"PENDING", "SUCCEEDED", "FAILED"}]]
    /\ synced \in [ibet : 0..Len(lockLog), eth : 0..final]
    /\ deployed \in BOOLEAN /\ watched \in BOOLEAN /\ pc \in {"load", "mint", "burn"}
    /\ todo \subseteq DOMAIN btx
    /\ faults \in [reorgs : Nat, skipped : SUBSET DOMAIN lockLog, late : Nat,
                   relocked : Nat, unlocks : Nat, freed : Nat, deleted : {0, 1}]

Mints(k) == {i \in DOMAIN wst : wst[i].type = "mint" /\ wst[i].src = k}

\* A lock for the bridge is minted once for its holder and amount; one that was
\* made while the token is watched has its row when its block is passed,
\* whatever aborted passes and restarts come between, unless an error has
\* skipped it or the issuer's account is deleted.  What is no message of the
\* bridge is never minted.
MintedOnce ==
    \A k \in DOMAIN lockLog :
       /\ Cardinality(Mints(k)) <= 1
       /\ \A i \in Mints(k) : /\ lockLog[k].bridge /\ k <= synced.ibet
                              /\ wst[i].to = lockLog[k].account
                              /\ wst[i].value = lockLog[k].value
       /\ (/\ k <= synced.ibet /\ k \notin faults.skipped
           /\ lockLog[k].bridge /\ lockLog[k].watched /\ faults.deleted = 0) => Mints(k) # {}

Rows(k) == {j \in DOMAIN btx : btx[j].src = k}

\* A burn or transfer on Ethereum has at most one row for ibet, made of that
\* event and only when it was final, so that no reorganisation takes the event
\* back; it has one when its block is passed, unless the account is deleted.
RowPerEvent ==
    /\ \A j \in DOMAIN btx :
          /\ btx[j].src <= synced.eth /\ Rows(btx[j].src) = {j}
          /\ LET r == wst[eth[btx[j].src].row]
             IN  /\ eth[btx[j].src].type = r.type
                 /\ IF btx[j].type = "unlock" THEN r.type \in {"burn", "force_burn"}
                                              ELSE r.type = "transfer"
                 /\ btx[j].value = r.value /\ btx[j].from = r.from /\ btx[j].to = r.to
    /\ \A k \in 1..synced.eth :
          eth[k].type \in {"burn", "force_burn", "transfer"} /\ faults.deleted = 0
             => Rows(k) # {}

Unmined == {i \in DOMAIN wst : /\ wst[i].type = "mint"
                               /\ i \notin {eth[k].row : k \in DOMAIN eth}}

\* What is locked on ibet covers the supply on Ethereum and what is about to be
\* minted, up to what the issuer has unlocked by hand and what was unlocked
\* again after a wait that had timed out.
Backed ==
    SumFunction(locked) + faults.freed + faults.relocked
        >= SumFunction([a \in Accounts |-> Balance(a)])
           + SumFunction([i \in Unmined |-> wst[i].value])

\* Locks of the account that have not come to Ethereum by block n of it.
NotAcross(a, n) ==
    {k \in DOMAIN lockLog :
        /\ lockLog[k].account = a
        /\ ~\E b \in 1..n : eth[b].type = "mint" /\ wst[eth[b].row].src = k}

\* When every event passed has been executed on ibet, each account has locked
\* what it holds on Ethereum, and what has not come there.
BooksAgree ==
    (/\ \A j \in DOMAIN btx : btx[j].status = "SUCCEEDED"
     /\ faults.late = 0 /\ faults.freed = 0 /\ faults.deleted = 0)
    => \A a \in Accounts :
          locked[a] = (IF synced.eth = 0 THEN 0 ELSE eth[synced.eth].balance[a])
                      + SumFunction([k \in NotAcross(a, synced.eth) |-> lockLog[k].value])

\* A row that has a result keeps it, and with it what was executed.
ResultStays == \A j \in DOMAIN btx : btx[j].status # "PENDING" => btx'[j] = btx[j]

\* A final burn, and one that is executed on ibet, or refused there.
FinalBurn(k) == k <= final /\ eth[k].type \in {"burn", "force_burn"}
BurnSettled(k) == \E j \in Rows(k) : btx[j].status # "PENDING"

=============================================================================
