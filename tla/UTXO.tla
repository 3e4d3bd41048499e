---------------------------------- MODULE UTXO ----------------------------------
(***************************************************************************)
(* Unspent amounts of one token by the transaction that brought them:       *)
(* batch/processor_create_utxo.py.  It reads the events of a range of blocks *)
(* type by type - issues, then everything that changes the holder, then     *)
(* redemptions - and spends the oldest amounts first.                       *)
(*                                                                         *)
(* A block holds the events of one transaction; block 0 is the deployment. *)
(***************************************************************************)
EXTENDS Integers, Sequences, FiniteSets, SequencesExt, FiniteSetsExt, Functions

CONSTANTS
    Holders,        \* accounts that are no contracts, the issuer among them
    Issuer,         \* issuer of the token
    Kinds,          \* types of events that occur, of AllKinds
    Supply,         \* first issue
    MaxBlocks,      \* bound on blocks
    Lot,            \* CREATE_UTXO_BLOCK_LOT_MAX_SIZE
    MaxAborts       \* bound on passes that fail

AllKinds == {"Issue", "Redeem", "Transfer", "Reallocation", "Unlock",
             "ForceChangeLockedAccount", "HolderChanged"}

UTXOAssumption ==
    /\ Issuer \in Holders /\ Kinds \subseteq AllKinds
    /\ Supply \in Nat \ {0} /\ MaxBlocks \in Nat /\ MaxAborts \in Nat
    /\ Lot \in Nat \ {0}

VARIABLES
    blocks,     \* events of each block
    owned,      \* what each account owns: balance, locked and on the exchange
    listed,     \* the exchange in use is the tradable exchange of the token
    status,     \* token.token_status
    utxo,       \* table utxo: amount by transaction and account
    synced,     \* utxo_block_number
    pc,         \* where the pass is: "list", "height" or "range"
    watched,    \* the token is in token_contract_list
    span,       \* block_from - 1 and block_to
    past        \* events overlooked, ranges that mix, passes that failed

chain == <<blocks, owned, listed, status>>
vars == <<chain, utxo, synced, pc, watched, span, past>>

Transactions == 0..MaxBlocks

Init ==
    /\ blocks = <<>> /\ listed = TRUE /\ status = "PENDING"
    /\ owned = [a \in Holders |-> IF a = Issuer THEN Supply ELSE 0]
    /\ utxo = [t \in Transactions |-> [a \in Holders |-> 0]]
    /\ synced = 0 /\ pc = "list" /\ watched = FALSE
    /\ span = [from |-> 0, to |-> 0]
    /\ past = [overlooked |-> FALSE, mixed |-> FALSE, aborts |-> 0]

-----------------------------------------------------------------------------
(* The contracts.                                                          *)

\* Issues and redemptions have one account, changes of the holder two.  Only
\* the exchange can be one that the token does not point to.
Event == {e \in [kind : Kinds, from : Holders, to : Holders, amount : 1..Supply, seen : BOOLEAN] :
             /\ (e.kind \in {"Issue", "Redeem"}) = (e.from = e.to)
             /\ e.kind # "HolderChanged" => e.seen}

Transfers == {e \in Event : e.kind = "Transfer"}

Possible(own, e) ==
    /\ e.kind = "HolderChanged" => e.seen = listed
    /\ e.kind # "Issue" => own[e.from] >= e.amount

After(own, e) ==
    [a \in Holders |-> own[a] + (IF a = e.to /\ e.kind # "Redeem" THEN e.amount ELSE 0)
                              - (IF a = e.from /\ e.kind # "Issue" THEN e.amount ELSE 0)]

\* A transaction with one event, or with two transfers (bulkTransfer).
Mine(events) ==
    /\ Len(blocks) < MaxBlocks /\ status = "SUCCEEDED"
    /\ Possible(owned, events[1])
    /\ Len(events) = 2 => Possible(After(owned, events[1]), events[2])
    /\ owned' = FoldLeft(After, owned, events)
    /\ owned'[Issuer] <= Supply
    /\ blocks' = Append(blocks, events)
    /\ UNCHANGED <<listed, status, utxo, synced, pc, watched, span, past>>

\* The issuer sets another tradable exchange, or sets it back.
SetExchange ==
    /\ "HolderChanged" \in Kinds /\ listed' = ~listed
    /\ UNCHANGED <<blocks, owned, status, utxo, synced, pc, watched, span, past>>

\* The token becomes SUCCEEDED, with the first amount of the issuer.
Register ==
    /\ status = "PENDING" /\ status' = "SUCCEEDED"
    /\ utxo' = [utxo EXCEPT ![0][Issuer] = Supply]
    /\ UNCHANGED <<blocks, owned, listed, synced, pc, watched, span, past>>

-----------------------------------------------------------------------------
(* __sink_on_utxo.                                                         *)

Lesser(m, n) == IF m < n THEN m ELSE n

AmountIn(table, a, transactions) == MapThenSumSet(LAMBDA t : table[t][a], transactions)

\* Mutant: the newest amounts are taken first.
Taken_Newest(table, a, amount, t) ==
    LET newer == AmountIn(table, a, t + 1..MaxBlocks)
    IN  IF newer >= amount THEN 0 ELSE Lesser(table[t][a], amount - newer)

\* What is taken of the amount of transaction t, the oldest first.
Taken(table, a, amount, t) ==
    LET older == AmountIn(table, a, 0..t - 1)
    IN  IF older >= amount THEN 0 ELSE Lesser(table[t][a], amount - older)

Credit(table, t, a, amount) == [table EXCEPT ![t][a] = @ + amount]

\* The new holder gets the amounts with their transactions.
Reallocate(table, a, b, amount) ==
    [t \in Transactions |-> [table[t] EXCEPT ![b] = @ + Taken(table, a, amount, t)]]

Spend(table, a, amount) ==
    [t \in Transactions |-> [table[t] EXCEPT ![a] = @ - Taken(table, a, amount, t)]]

\* The new holder first, then the old one.
ChangeHolder(table, t, e) ==
    Spend(IF e.kind = "Reallocation" THEN Reallocate(table, e.from, e.to, e.amount)
                                     ELSE Credit(table, t, e.to, e.amount),
          e.from, e.amount)

-----------------------------------------------------------------------------
(* A pass.                                                                 *)

\* Events of a range, in their order, with the transaction.
EventsOf(lo, hi) ==
    FlattenSeq([n \in 1..hi - lo |->
        [i \in DOMAIN blocks[lo + n] |-> <<lo + n, blocks[lo + n][i]>>]])

OfKinds(events, kinds) == SelectSeq(events, LAMBDA te : te[2].kind \in kinds)

ProcessIssue(table, events) ==
    FoldLeft(LAMBDA u, te : Credit(u, te[1], te[2].to, te[2].amount), table,
             OfKinds(events, {"Issue"}))

\* Events of the exchange are those of the one that is tradable now.
ProcessTransfer(table, events) ==
    FoldLeft(LAMBDA u, te : ChangeHolder(u, te[1], te[2]), table,
             SelectSeq(OfKinds(events, Kinds \ {"Issue", "Redeem"}),
                       LAMBDA te : te[2].kind = "HolderChanged" => te[2].seen = listed))

ProcessRedeem(table, events) ==
    FoldLeft(LAMBDA u, te : Spend(u, te[2].to, te[2].amount), table,
             OfKinds(events, {"Redeem"}))

\* The list is read anew at every pass.
RefreshTokenList ==
    /\ pc = "list" /\ pc' = "height"
    /\ watched' = (status = "SUCCEEDED")
    /\ UNCHANGED <<chain, utxo, synced, span, past>>

\* block_number of the chain, and the block the table has reached.
StartPass ==
    /\ pc = "height"
    /\ IF synced >= Len(blocks)
       THEN pc' = "list" /\ UNCHANGED span
       ELSE /\ pc' = "range"
            /\ span' = [from |-> synced, to |-> Lesser(synced + Lot, Len(blocks))]
    /\ UNCHANGED <<chain, utxo, synced, watched, past>>

\* A redemption is handled after reallocations that follow it.
Mixed(events) ==
    \E i, j \in DOMAIN events :
       i < j /\ events[i][2].kind = "Redeem" /\ events[j][2].kind = "Reallocation"

\* Events that this pass does not read and no later one will.
Overlooked(events) ==
    \/ ~watched /\ events # <<>>
    \/ \E i \in DOMAIN events : events[i][2].kind = "HolderChanged" /\ events[i][2].seen # listed

\* The three types, the request of a ledger (module Ledger) and the block
\* number are one commit.
Process ==
    /\ pc = "range" /\ pc' = "list"
    /\ LET events == EventsOf(span.from, span.to)
       IN  /\ utxo' = IF watched
                      THEN ProcessRedeem(ProcessTransfer(ProcessIssue(utxo, events), events), events)
                      ELSE utxo
           /\ past' = [past EXCEPT !.overlooked = @ \/ Overlooked(events),
                                   !.mixed = @ \/ Mixed(events)]
    /\ synced' = span.to
    /\ UNCHANGED <<chain, watched, span>>

\* Any error rolls the pass back.
Abort ==
    /\ pc # "list" /\ pc' = "list"
    /\ past.aborts < MaxAborts /\ past' = [past EXCEPT !.aborts = @ + 1]
    /\ UNCHANGED <<chain, utxo, synced, watched, span>>

Next == \/ \E e \in Event : Mine(<<e>>)
        \/ \E e, f \in Transfers : Mine(<<e, f>>)
        \/ SetExchange \/ Register
        \/ RefreshTokenList \/ StartPass \/ Process \/ Abort

Spec == Init /\ [][Next]_vars

\* What the loop of main does, whose passes go on after every error.
Pass == RefreshTokenList \/ StartPass \/ Process

-----------------------------------------------------------------------------
(* Properties.                                                             *)

Amount == 0..Supply * (MaxBlocks + 1)

\* Every variable keeps its type; no amount becomes negative.
TypeOK ==
    /\ (\A t \in DOMAIN blocks : Range(blocks[t]) \subseteq Event) /\ owned \in [Holders -> Amount]
    /\ listed \in BOOLEAN /\ status \in {"PENDING", "SUCCEEDED"} /\ watched \in BOOLEAN
    /\ utxo \in [Transactions -> [Holders -> Amount]]
    /\ synced \in 0..Len(blocks) /\ pc \in {"list", "height", "range"}
    /\ span.from <= span.to /\ span.to <= Len(blocks)
    /\ past.overlooked \in BOOLEAN /\ past.mixed \in BOOLEAN /\ past.aborts \in 0..MaxAborts

Total(a) == AmountIn(utxo, a, Transactions)

\* What an account owned after block n.
OwnedAfter(n) ==
    FoldLeft(LAMBDA own, te : After(own, te[2]), [a \in Holders |-> IF a = Issuer THEN Supply ELSE 0],
             EventsOf(0, n))

\* The amounts of an account add up to what it owned at the block the table
\* has reached, in whatever ranges it got there, although redemptions come last
\* in every range and amounts that are missing are silently left out, as long
\* as no event was overlooked.
AddsUp ==
    (status = "SUCCEEDED" /\ ~past.overlooked) =>
       \A a \in Holders : Total(a) = OwnedAfter(synced)[a]

ApplyEvent(table, te) ==
    CASE te[2].kind = "Issue" -> Credit(table, te[1], te[2].to, te[2].amount)
      [] te[2].kind = "Redeem" -> Spend(table, te[2].to, te[2].amount)
      [] OTHER -> ChangeHolder(table, te[1], te[2])

FirstAmount == [t \in Transactions |->
                  [a \in Holders |-> IF t = 0 /\ a = Issuer THEN Supply ELSE 0]]

\* The table is what it would be had every event been applied in its turn, so
\* that dates of acquisition do not depend on how blocks are cut into ranges,
\* unless a range has a reallocation behind a redemption.
AsInOrder ==
    (status = "SUCCEEDED" /\ ~past.overlooked /\ ~past.mixed) =>
       utxo = FoldLeft(ApplyEvent, FirstAmount, EventsOf(0, synced))

\* An amount is never dated later than the table has got, nor does it come from a
\* transaction in which nobody acquired anything.
DatesAreReal ==
    \A t \in Transactions, a \in Holders :
       utxo[t][a] > 0 => /\ t <= synced
                         /\ t > 0 => \E i \in DOMAIN blocks[t] : blocks[t][i].kind \notin
                                                                  {"Redeem", "Reallocation"}
=============================================================================
