------------------------- MODULE BulkTransferProofs -------------------------
(***************************************************************************)
(* Proofs about BulkTransfer, for any number of workers, uploads, rows,    *)
(* issuers and failures.                                                   *)
(*                                                                         *)
(* The argument rests on the lists the workers hold in memory: they are    *)
(* disjoint, and every element of a list is claimed by its owner or        *)
(* already settled.  A settled upload has no pending row, so a stale       *)
(* element of a list sends nothing.                                        *)
(***************************************************************************)
EXTENDS BulkTransfer, FiniteSetTheorems, TLAPS

Settled(u) == status[u] \in {"succeeded", "failed"}

ListOf(w) == ({cur[w]} \cup rest[w]) \ {NoUpload}

\* No upload is claimed or listed by two workers.
Disjoint ==
    \A v, w \in Workers : v # w =>
        /\ processing[v] \cap processing[w] = {}
        /\ ListOf(v) \cap ListOf(w) = {}

\* What is on a list was posted, and is claimed unless it is settled or the
\* list is still being made.
Claimed ==
    \A w \in Workers : \A u \in ListOf(w) :
        /\ status[u] # "absent"
        /\ Settled(u) \/ u \in processing[w] \/ pc[w] = "picking"

\* Only the holder of the lock makes a list, of an upload nobody has claimed.
LockHeld ==
    \A w \in Workers :
        /\ pc[w] = "picking" <=> lock = w
        /\ pc[w] = "picking" /\ cur[w] # NoUpload =>
              \A v \in Workers : cur[w] \notin processing[v]

ClaimInv == Disjoint /\ Claimed /\ LockHeld

\* What the place of a worker says of its list and of its current upload.
PlaceInv ==
    \A w \in Workers :
        /\ pc[w] \in {"next", "send", "save", "release"} => cur[w] \in Uploads
        /\ pc[w] \in {"idle", "picking"} => rest[w] = {}
        /\ pc[w] = "idle" => cur[w] = NoUpload
        /\ pc[w] = "release" => Settled(cur[w])

\* What a worker that sends knows of its rows.
SendInv ==
    \A w \in Workers :
        /\ Busy(w) => /\ IssuerOf[cur[w]] \notin NoKey
                      /\ left[w] = {r \in RowsOf(cur[w]) : rows[r] = "pending"}
        /\ pc[w] = "save" =>
              /\ chunk[w] \subseteq left[w] /\ chunk[w] # {}
              /\ result[w] \in {"succeeded", "failed"}
              /\ result[w] = "succeeded" => \A r \in chunk[w] : executed[r] > 0
        /\ pc[w] # "save" => chunk[w] = {}

\* ResultMatchesRows, and what a row that succeeded has seen.
ResultInv ==
    /\ \A r \in Rows : rows[r] = "succeeded" => executed[r] > 0
    /\ \A u \in Uploads :
        /\ status[u] = "succeeded" =>
              /\ IssuerOf[u] \notin NoKey
              /\ \A r \in RowsOf(u) : rows[r] = "succeeded"
        /\ status[u] = "failed" =>
              /\ notices[u] > 0
              /\ \/ IssuerOf[u] \in NoKey
                 \/ /\ \A r \in RowsOf(u) : rows[r] # "pending"
                    /\ \E r \in RowsOf(u) : rows[r] = "failed"

\* A row that is pending and not in flight has been executed only by sends
\* whose result was lost.
LossInv ==
    \A r \in Rows :
        /\ executed[r] <= 1 + lost
        /\ rows[r] = "pending" /\ (\A w \in Workers : r \notin chunk[w])
              => executed[r] <= lost

IInv == TypeOK /\ ClaimInv /\ PlaceInv /\ SendInv /\ ResultInv /\ LossInv

-----------------------------------------------------------------------------
(* Type correctness.                                                       *)

LEMMA TypeInit == Init => TypeOK
<1>. SUFFICES ASSUME Init PROVE TypeOK
  OBVIOUS
<1>1. /\ status \in [Uploads -> {"absent", "pending", "succeeded", "failed"}]
      /\ rows \in [Rows -> {"pending", "succeeded", "failed"}]
      /\ executed \in [Rows -> Nat] /\ notices \in [Uploads -> Nat]
  BY DEF Init
<1>2. /\ processing \in [Workers -> SUBSET Uploads]
      /\ lock \in Workers \cup {NoWorker}
      /\ pc \in [Workers -> PC]
      /\ cur \in [Workers -> Uploads \cup {NoUpload}]
  BY DEF Init, PC
<1>3. /\ rest \in [Workers -> SUBSET Uploads]
      /\ left \in [Workers -> SUBSET Rows] /\ chunk \in [Workers -> SUBSET Rows]
      /\ result \in [Workers -> {"pending", "succeeded", "failed"}]
  BY DEF Init
<1>. QED BY <1>1, <1>2, <1>3 DEF Init, TypeOK

\* The workers that are about to record a result can be counted.
LEMMA SavingCount ==
    LET saving == {w \in Workers : pc[w] = "save"}
    IN  /\ Cardinality(saving) \in Nat
        /\ (\E w \in Workers : pc[w] = "save") => Cardinality(saving) >= 1
<1>. DEFINE saving == {w \in Workers : pc[w] = "save"}
<1>1. IsFiniteSet(saving)
  BY BulkAssumption, FS_Subset
<1>2. Cardinality(saving) \in Nat /\ (saving # {} => Cardinality(saving) # 0)
  BY <1>1, FS_CardinalityType, FS_EmptySet
<1>. QED BY <1>2

LEMMA OthersAreCandidates == \A u : OthersOf(u) \subseteq Candidates
  BY DEF OthersOf

LEMMA TypeStep == ASSUME TypeOK, [Next]_vars PROVE TypeOK'
<1>1. ASSUME NEW u \in Uploads, Post(u) PROVE TypeOK'
  BY <1>1, BulkAssumption DEF TypeOK, Post, PC, db, mem
<1>2. ASSUME NEW w \in Workers, PickFirst(w) PROVE TypeOK'
  BY <1>2, BulkAssumption DEF TypeOK, PickFirst, Oldest, Preferred, Candidates, PC, db, mem
<1>3. ASSUME NEW w \in Workers, PickRest(w) PROVE TypeOK'
  <2>1. OthersOf(cur[w]) \subseteq Uploads
    BY OthersAreCandidates DEF Candidates
  <2>. QED BY <1>3, <2>1 DEF TypeOK, PickRest, PC, db, mem
<1>4. ASSUME NEW w \in Workers, FailUpload(w) PROVE TypeOK'
  <2>1. status' \in [Uploads -> {"absent", "pending", "succeeded", "failed"}]
    BY <1>4 DEF TypeOK, FailUpload
  <2>2. notices' = [u \in Uploads |-> IF u = cur[w] THEN notices[u] + 1 ELSE notices[u]]
    BY <1>4 DEF TypeOK, FailUpload
  <2>3. notices' \in [Uploads -> Nat]
    BY <2>2 DEF TypeOK
  <2>. QED BY <1>4, <2>1, <2>3 DEF TypeOK, FailUpload, PC, db, mem
<1>5. ASSUME NEW w \in Workers, LoadTransfers(w) PROVE TypeOK'
  BY <1>5, BulkAssumption DEF TypeOK, LoadTransfers, RowsOf, PC, db, mem
<1>6. ASSUME NEW w \in Workers, SendChunk(w) PROVE TypeOK'
  <2>1. PICK lot \in SUBSET left[w] :
           /\ chunk' = [chunk EXCEPT ![w] = lot]
           /\ \/ executed' = executed
              \/ executed' = [r \in Rows |-> IF r \in lot THEN executed[r] + 1
                                             ELSE executed[r]]
           /\ \/ result' = [result EXCEPT ![w] = "succeeded"]
              \/ result' = [result EXCEPT ![w] = "failed"]
    BY <1>6 DEF SendChunk
  <2>2. lot \subseteq Rows
    BY DEF TypeOK
  <2>3. executed' \in [Rows -> Nat]
    BY <2>1 DEF TypeOK
  <2>4. chunk' \in [Workers -> SUBSET Rows]
    BY <2>1, <2>2 DEF TypeOK
  <2>5. result' \in [Workers -> {"pending", "succeeded", "failed"}]
    BY <2>1 DEF TypeOK
  <2>6. pc' \in [Workers -> PC]
    BY <1>6 DEF TypeOK, SendChunk, PC
  <2>. QED BY <1>6, <2>3, <2>4, <2>5, <2>6 DEF TypeOK, SendChunk, db
<1>7. ASSUME NEW w \in Workers, SaveChunk(w) PROVE TypeOK'
  BY <1>7, BulkAssumption DEF TypeOK, SaveChunk, PC, db, mem
<1>8. ASSUME NEW w \in Workers, FinishUpload(w) PROVE TypeOK'
  BY <1>8, BulkAssumption DEF TypeOK, FinishUpload, PC, db, mem
<1>9. ASSUME NEW w \in Workers, Release(w) PROVE TypeOK'
  BY <1>9, BulkAssumption DEF TypeOK, Release, Oldest, PC, db, mem
<1>10. ASSUME NEW w \in Workers, Leave(w) PROVE TypeOK'
  BY <1>10, BulkAssumption DEF TypeOK, Leave, PC, db, mem
<1>11. ASSUME NEW w \in Workers, Abort(w) PROVE TypeOK'
  BY <1>11, BulkAssumption DEF TypeOK, Abort, Drop, PC, db, mem
<1>12. ASSUME NEW w \in Workers, Die(w) PROVE TypeOK'
  BY <1>12, BulkAssumption DEF TypeOK, Die, Drop, PC, db, mem
<1>13. CASE Crash
  <2>1. lost' \in Nat
    BY <1>13, SavingCount DEF TypeOK, Crash
  <2>2. /\ processing' \in [Workers -> SUBSET Uploads]
        /\ lock' \in Workers \cup {NoWorker}
        /\ pc' \in [Workers -> PC]
        /\ cur' \in [Workers -> Uploads \cup {NoUpload}]
        /\ rest' \in [Workers -> SUBSET Uploads]
        /\ left' \in [Workers -> SUBSET Rows] /\ chunk' \in [Workers -> SUBSET Rows]
        /\ result' \in [Workers -> {"pending", "succeeded", "failed"}]
    BY <1>13 DEF Crash, Reset, PC
  <2>3. faults' = [faults EXCEPT !.stop = @ + 1] /\ stopping' = FALSE
    BY <1>13 DEF Crash
  <2>4. faults' \in [stop : Nat, death : Nat]
    BY <2>3 DEF TypeOK
  <2>. QED BY <1>13, <2>1, <2>2, <2>3, <2>4 DEF TypeOK, Crash, db
<1>14. CASE Sigterm
  BY <1>14, BulkAssumption DEF TypeOK, Sigterm, PC, db, mem
<1>15. CASE Restart
  BY <1>15, BulkAssumption DEF TypeOK, Restart, Reset, PC, db, mem
<1>16. CASE UNCHANGED vars
  BY <1>16 DEF TypeOK, vars, db, mem
<1>. QED BY <1>1, <1>2, <1>3, <1>4, <1>5, <1>6, <1>7, <1>8, <1>9, <1>10, <1>11, <1>12, <1>13, <1>14, <1>15, <1>16 DEF Next, Work

\* Every variable of the processor keeps its type, for any number of workers,
\* uploads, rows and failures.
THEOREM Typing == Spec => []TypeOK
<1>. QED BY TypeInit, TypeStep, PTL DEF Spec

-----------------------------------------------------------------------------
(* Places.                                                                 *)

\* An upload that is posted stays so, and one that is settled stays settled.
LEMMA StatusMonotone ==
    ASSUME TypeOK, [Next]_vars, NEW u \in Uploads
    PROVE  /\ status[u] # "absent" => status'[u] # "absent"
           /\ Settled(u) => Settled(u)'
<1>1. ASSUME NEW w \in Workers, FailUpload(w)
      PROVE  status'[u] = status[u] \/ status'[u] = "failed"
  BY <1>1 DEF TypeOK, FailUpload
<1>2. ASSUME NEW w \in Workers, FinishUpload(w)
      PROVE  status'[u] = status[u] \/ status'[u] \in {"succeeded", "failed"}
  BY <1>2 DEF TypeOK, FinishUpload
<1>3. ASSUME NEW v \in Uploads, Post(v)
      PROVE  /\ status[u] # "absent" => status'[u] # "absent"
             /\ Settled(u) => Settled(u)'
  BY <1>3 DEF TypeOK, Post, Settled
<1>4. ASSUME NEW w \in Workers, PickFirst(w) \/ Release(w) \/ Abort(w) \/ Die(w)
      PROVE  UNCHANGED status
  BY <1>4 DEF PickFirst, Release, Abort, Die, Drop, db
<1>5. ASSUME NEW w \in Workers,
             PickRest(w) \/ LoadTransfers(w) \/ SendChunk(w) \/ SaveChunk(w) \/ Leave(w)
      PROVE  UNCHANGED status
  BY <1>5 DEF PickRest, LoadTransfers, SendChunk, SaveChunk, Leave, db
<1>6. CASE Crash \/ Sigterm \/ Restart \/ UNCHANGED vars
  BY <1>6 DEF Crash, Sigterm, Restart, vars, db, Settled
<1>. QED BY <1>1, <1>2, <1>3, <1>4, <1>5, <1>6 DEF Next, Work, Settled

\* A step of w leaves the place and the list of the other workers alone.
LEMMA PlaceStep == ASSUME TypeOK, PlaceInv, [Next]_vars PROVE PlaceInv'
<1>. USE DEF PlaceInv, TypeOK
<1>0. \A u \in Uploads : Settled(u) => Settled(u)'
  BY StatusMonotone
<1>1. ASSUME NEW u \in Uploads, Post(u) PROVE PlaceInv'
  BY <1>1, <1>0 DEF Post, mem
<1>2. ASSUME NEW w \in Workers, PickFirst(w) PROVE PlaceInv'
  BY <1>2, <1>0 DEF PickFirst, Oldest, Preferred, Candidates, db
<1>3. ASSUME NEW w \in Workers, PickRest(w) PROVE PlaceInv'
  BY <1>3, <1>0 DEF PickRest, db
<1>4. ASSUME NEW w \in Workers, FailUpload(w) PROVE PlaceInv'
  <2>1. Settled(cur[w])'
    BY <1>4 DEF FailUpload, Settled
  <2>. QED BY <1>4, <2>1, <1>0 DEF FailUpload
<1>5. ASSUME NEW w \in Workers, LoadTransfers(w) PROVE PlaceInv'
  BY <1>5, <1>0 DEF LoadTransfers, db
<1>6. ASSUME NEW w \in Workers, SendChunk(w) PROVE PlaceInv'
  BY <1>6, <1>0 DEF SendChunk, db
<1>7. ASSUME NEW w \in Workers, SaveChunk(w) PROVE PlaceInv'
  BY <1>7, <1>0 DEF SaveChunk, db
<1>8. ASSUME NEW w \in Workers, FinishUpload(w) PROVE PlaceInv'
  <2>1. Settled(cur[w])'
    BY <1>8 DEF FinishUpload, Settled
  <2>. QED BY <1>8, <2>1, <1>0 DEF FinishUpload
<1>9. ASSUME NEW w \in Workers, Release(w) PROVE PlaceInv'
  BY <1>9, <1>0 DEF Release, Oldest, db
<1>10. ASSUME NEW w \in Workers, Leave(w) PROVE PlaceInv'
  BY <1>10, <1>0 DEF Leave, db
<1>11. ASSUME NEW w \in Workers, Abort(w) PROVE PlaceInv'
  BY <1>11, <1>0 DEF Abort, Drop, db
<1>12. ASSUME NEW w \in Workers, Die(w) PROVE PlaceInv'
  BY <1>12, <1>0 DEF Die, Drop, db
<1>13. CASE Crash
  BY <1>13 DEF Crash, Reset
<1>14. CASE Sigterm
  BY <1>14, <1>0 DEF Sigterm, mem
<1>15. CASE Restart
  BY <1>15 DEF Restart, Reset
<1>16. CASE UNCHANGED vars
  BY <1>16, <1>0 DEF vars, mem
<1>. QED BY <1>1, <1>2, <1>3, <1>4, <1>5, <1>6, <1>7, <1>8, <1>9, <1>10,
           <1>11, <1>12, <1>13, <1>14, <1>15, <1>16 DEF Next, Work

-----------------------------------------------------------------------------
(* Claims and lists.                                                       *)

\* A step that moves neither claims, lists nor the lock.
LEMMA QuietStep ==
    ASSUME TypeOK, ClaimInv, [Next]_vars,
           UNCHANGED <<processing, lock, cur, rest>>,
           \A w \in Workers : pc'[w] = "picking" <=> pc[w] = "picking"
    PROVE  ClaimInv'
<1>1. \A w \in Workers : ListOf(w)' = ListOf(w) /\ ListOf(w) \subseteq Uploads
  BY DEF ListOf, TypeOK
<1>2. Claimed'
  BY <1>1, StatusMonotone DEF ClaimInv, Claimed
<1>. QED BY <1>1, <1>2 DEF ClaimInv, Disjoint, LockHeld

\* A worker gives its list up, and the lock with it.
LEMMA DropStep ==
    ASSUME TypeOK, ClaimInv, [Next]_vars,
           NEW w \in Workers, NEW next \in {"idle", "dead"}, Drop(w, next)
    PROVE  ClaimInv'
<1>. USE DEF TypeOK
<1>1. /\ UNCHANGED <<status, processing>>
      /\ pc' = [pc EXCEPT ![w] = next]
      /\ lock' = IF lock = w THEN NoWorker ELSE lock
      /\ cur' = [cur EXCEPT ![w] = NoUpload] /\ rest' = [rest EXCEPT ![w] = {}]
  BY DEF Drop, db
<1>2. ListOf(w)' = {} /\ \A v \in Workers : v # w => ListOf(v)' = ListOf(v)
  BY <1>1 DEF ListOf
<1>3. Disjoint'
  BY <1>1, <1>2 DEF ClaimInv, Disjoint
<1>4. Claimed'
  BY <1>1, <1>2 DEF ClaimInv, Claimed, Settled
<1>5. LockHeld'
  BY <1>1, BulkAssumption DEF ClaimInv, LockHeld
<1>. QED BY <1>3, <1>4, <1>5 DEF ClaimInv

\* A pending upload that nobody has claimed is on no list, but for that of the
\* holder of the lock.
LEMMA CandidateListed ==
    ASSUME TypeOK, ClaimInv, NEW u \in Candidates, NEW v \in Workers, lock # v
    PROVE  u \notin ListOf(v) /\ u \notin processing[v]
  BY DEF ClaimInv, Claimed, LockHeld, Candidates, Locked, Settled

LEMMA PickFirstStep ==
    ASSUME TypeOK, ClaimInv, PlaceInv, [Next]_vars, NEW w \in Workers, PickFirst(w)
    PROVE  ClaimInv'
<1>. USE DEF TypeOK
<1>1. /\ pc[w] = "idle" /\ lock = NoWorker /\ lock' = w
      /\ pc' = [pc EXCEPT ![w] = "picking"]
      /\ UNCHANGED <<status, processing, rest>>
  BY DEF PickFirst, db
<1>2. cur[w] = NoUpload /\ rest[w] = {}
  BY <1>1 DEF PlaceInv
<1>3. PICK u \in Candidates \cup {NoUpload} : cur' = [cur EXCEPT ![w] = u]
  <2>1. CASE UNCHANGED cur
    BY <2>1, <1>2
  <2>2. CASE \E u \in Candidates : cur' = [cur EXCEPT ![w] = u]
    BY <2>2
  <2>. QED BY <2>1, <2>2 DEF PickFirst, Oldest, Preferred
<1>4. /\ ListOf(w)' = {u} \ {NoUpload}
      /\ \A v \in Workers : v # w => ListOf(v)' = ListOf(v)
  BY <1>1, <1>2, <1>3 DEF ListOf
<1>5. u # NoUpload => \A v \in Workers : u \notin ListOf(v) /\ u \notin processing[v]
  BY <1>1, <1>3, CandidateListed, BulkAssumption
<1>6. Disjoint'
  BY <1>1, <1>4, <1>5 DEF ClaimInv, Disjoint
<1>7. Claimed'
  BY <1>1, <1>3, <1>4 DEF ClaimInv, Claimed, Candidates, Settled
<1>8. LockHeld'
  BY <1>1, <1>3, <1>5, BulkAssumption DEF ClaimInv, LockHeld
<1>. QED BY <1>6, <1>7, <1>8 DEF ClaimInv

LEMMA PickRestStep ==
    ASSUME TypeOK, ClaimInv, PlaceInv, [Next]_vars, NEW w \in Workers, PickRest(w)
    PROVE  ClaimInv'
<1>. USE DEF TypeOK
<1>1. /\ pc[w] = "picking" /\ lock' = NoWorker
      /\ UNCHANGED <<status, cur>>
  BY DEF PickRest, db
<1>2. /\ lock = w /\ rest[w] = {}
      /\ \A v \in Workers : v # w => pc[v] # "picking"
  BY <1>1 DEF ClaimInv, LockHeld, PlaceInv
<1>3. PICK new \in SUBSET Uploads :
         /\ processing' = [processing EXCEPT ![w] = new]
         /\ ListOf(w)' = new
         /\ new \subseteq {cur[w]} \cup Candidates
         /\ cur[w] = NoUpload => new = {}
         /\ cur[w] # NoUpload => cur[w] \in new
         /\ \A v \in Workers : v # w => rest'[v] = rest[v]
         /\ \A v \in Workers : pc'[v] # "picking"
  <2>1. CASE cur[w] = NoUpload
    <3>. QED BY <2>1, <1>1, <1>2 DEF PickRest, ListOf
  <2>2. CASE cur[w] # NoUpload
    <3>1. /\ rest' = [rest EXCEPT ![w] = OthersOf(cur[w])]
          /\ processing' = [processing EXCEPT ![w] = {cur[w]} \cup OthersOf(cur[w])]
          /\ pc' = [pc EXCEPT ![w] = "next"]
      BY <2>2 DEF PickRest
    <3>2. OthersOf(cur[w]) \subseteq Candidates /\ Candidates \subseteq Uploads
      BY OthersAreCandidates DEF Candidates
    <3>3. NoUpload \notin Uploads
      BY BulkAssumption DEF NoUpload
    <3>. DEFINE new == {cur[w]} \cup OthersOf(cur[w])
    <3>4. new \in SUBSET Uploads /\ cur[w] \in new
      BY <2>2, <3>2
    <3>5. ListOf(w)' = new
      BY <3>1, <3>3, <3>4, <1>1 DEF ListOf
    <3>6. \A v \in Workers : v # w => rest'[v] = rest[v]
      BY <3>1
    <3>7. \A v \in Workers : pc'[v] # "picking"
      BY <3>1, <1>2
    <3>. QED BY <2>2, <3>1, <3>2, <3>4, <3>5, <3>6, <3>7
  <2>. QED BY <2>1, <2>2
<1>4. \A v \in Workers : v # w => ListOf(v)' = ListOf(v)
  BY <1>1, <1>3 DEF ListOf
<1>5. \A v \in Workers : v # w =>
         ListOf(v) \cap new = {} /\ processing[v] \cap new = {}
  <2>. SUFFICES ASSUME NEW v \in Workers, v # w, NEW u \in new
                PROVE  u \notin ListOf(v) /\ u \notin processing[v]
    OBVIOUS
  <2>1. CASE u \in Candidates
    BY <2>1, <1>2, CandidateListed
  <2>2. CASE u = cur[w]
    BY <2>2, <1>1, <1>3 DEF ClaimInv, LockHeld, Disjoint, ListOf
  <2>. QED BY <2>1, <2>2, <1>3
<1>6. Disjoint'
  BY <1>3, <1>4, <1>5 DEF ClaimInv, Disjoint
<1>7. \A u \in new : status[u] # "absent"
  BY <1>3 DEF ClaimInv, Claimed, Candidates, ListOf
<1>8. Claimed'
  BY <1>1, <1>2, <1>3, <1>4, <1>7 DEF ClaimInv, Claimed, Settled
<1>9. LockHeld'
  BY <1>1, <1>3, BulkAssumption DEF LockHeld
<1>. QED BY <1>6, <1>8, <1>9 DEF ClaimInv

LEMMA ReleaseStep ==
    ASSUME TypeOK, ClaimInv, PlaceInv, [Next]_vars, NEW w \in Workers, Release(w)
    PROVE  ClaimInv'
<1>. USE DEF TypeOK
<1>1. /\ pc[w] = "release" /\ lock = NoWorker
      /\ processing' = [processing EXCEPT ![w] = @ \ {cur[w]}]
      /\ UNCHANGED <<status, lock>>
  BY DEF Release, db
<1>2. /\ cur'[w] # NoUpload => cur'[w] \in rest[w]
      /\ rest'[w] \subseteq rest[w] /\ pc'[w] # "picking"
      /\ \A v \in Workers : v # w => /\ cur'[v] = cur[v] /\ rest'[v] = rest[v]
                                     /\ pc'[v] = pc[v]
  BY DEF Release, Oldest
<1>3. /\ ListOf(w)' \subseteq ListOf(w)
      /\ \A v \in Workers : v # w => ListOf(v)' = ListOf(v)
  BY <1>2, BulkAssumption DEF ListOf, NoUpload
<1>4. Settled(cur[w])
  BY <1>1 DEF PlaceInv
<1>5. Disjoint'
  BY <1>1, <1>3 DEF ClaimInv, Disjoint
<1>6. Claimed'
  BY <1>1, <1>2, <1>3, <1>4 DEF ClaimInv, Claimed, Settled
<1>7. LockHeld'
  BY <1>1, <1>2, BulkAssumption DEF ClaimInv, LockHeld
<1>. QED BY <1>5, <1>6, <1>7 DEF ClaimInv

LEMMA ClaimStep == ASSUME TypeOK, ClaimInv, PlaceInv, [Next]_vars PROVE ClaimInv'
<1>1. ASSUME NEW u \in Uploads, Post(u) PROVE ClaimInv'
  BY <1>1, QuietStep DEF Post, mem
<1>2. ASSUME NEW w \in Workers, FailUpload(w) \/ FinishUpload(w) PROVE ClaimInv'
  BY <1>2, QuietStep DEF FailUpload, FinishUpload, TypeOK
<1>3. ASSUME NEW w \in Workers, LoadTransfers(w) \/ SendChunk(w) PROVE ClaimInv'
  BY <1>3, QuietStep DEF LoadTransfers, SendChunk, TypeOK
<1>4. ASSUME NEW w \in Workers, SaveChunk(w) \/ Leave(w) PROVE ClaimInv'
  BY <1>4, QuietStep DEF SaveChunk, Leave, TypeOK
<1>5. ASSUME NEW w \in Workers, PickFirst(w) \/ PickRest(w) \/ Release(w) PROVE ClaimInv'
  BY <1>5, PickFirstStep, PickRestStep, ReleaseStep
<1>6. ASSUME NEW w \in Workers, Abort(w) \/ Die(w) PROVE ClaimInv'
  BY <1>6, DropStep DEF Abort, Die
<1>7. CASE Crash \/ Restart
  <2>1. Reset
    BY <1>7 DEF Crash, Restart
  <2>. QED BY <2>1, BulkAssumption
           DEF Reset, ClaimInv, Disjoint, Claimed, LockHeld, ListOf, TypeOK
<1>8. CASE Sigterm \/ UNCHANGED vars
  BY <1>8, QuietStep DEF Sigterm, vars, mem
<1>. QED BY <1>1, <1>2, <1>3, <1>4, <1>5, <1>6, <1>7, <1>8 DEF Next, Work

-----------------------------------------------------------------------------
(* Rows in flight.                                                         *)

LEMMA OneBusy ==
    ASSUME TypeOK, ClaimInv, PlaceInv, NEW v \in Workers, NEW w \in Workers,
           Busy(v), Busy(w), cur[v] = cur[w]
    PROVE  v = w
<1>1. cur[v] \in Uploads /\ NoUpload \notin Uploads
  BY BulkAssumption DEF PlaceInv, Busy, NoUpload
<1>. QED BY <1>1 DEF ClaimInv, Disjoint, ListOf

\* Rows in flight are pending rows of the upload of one worker.
LEMMA ChunkOwner ==
    ASSUME TypeOK, ClaimInv, PlaceInv, SendInv, NEW v \in Workers, NEW w \in Workers,
           NEW r \in chunk[v]
    PROVE  /\ Busy(v) /\ r \in RowsOf(cur[v]) /\ rows[r] = "pending"
           /\ Busy(w) /\ r \in RowsOf(cur[w]) => v = w
<1>1. pc[v] = "save" /\ r \in left[v]
  BY DEF SendInv
<1>2. Busy(v) /\ r \in RowsOf(cur[v]) /\ rows[r] = "pending"
  BY <1>1 DEF SendInv, Busy
<1>. QED BY <1>2, OneBusy DEF RowsOf

\* Steps that neither load, send nor save rows.
LEMMA StillStep ==
    ASSUME SendInv, UNCHANGED <<rows, executed>>,
           \A v \in Workers :
              \/ /\ pc'[v] = pc[v] /\ cur'[v] = cur[v] /\ left'[v] = left[v]
                 /\ chunk'[v] = chunk[v] /\ result'[v] = result[v]
              \/ pc'[v] \notin {"send", "save"} /\ chunk'[v] = {}
    PROVE  SendInv'
  BY DEF SendInv, Busy, RowsOf

\* What SendChunk does, and what SaveChunk does.
LEMMA SendChunkFacts ==
    ASSUME TypeOK, SendInv, NEW w \in Workers, SendChunk(w)
    PROVE  \E lot \in SUBSET left[w] :
              /\ lot # {} /\ Cardinality(lot) <= TxLotSize
              /\ chunk' = [chunk EXCEPT ![w] = lot]
              /\ pc[w] = "send" /\ pc' = [pc EXCEPT ![w] = "save"]
              /\ left[w] = {r \in RowsOf(cur[w]) : rows[r] = "pending"}
              /\ IssuerOf[cur[w]] \notin NoKey
              /\ \/ executed' = executed /\ result' = [result EXCEPT ![w] = "failed"]
                 \/ /\ executed' = [r \in Rows |-> IF r \in lot THEN executed[r] + 1
                                                   ELSE executed[r]]
                    /\ \/ result' = [result EXCEPT ![w] = "succeeded"]
                       \/ result' = [result EXCEPT ![w] = "failed"]
  BY DEF SendChunk, SendInv, Busy

LEMMA SendStep ==
    ASSUME TypeOK, ClaimInv, PlaceInv, SendInv, [Next]_vars
    PROVE  SendInv'
<1>. USE DEF TypeOK
<1>1. ASSUME NEW u \in Uploads, Post(u) PROVE SendInv'
  BY <1>1, StillStep DEF Post, mem
<1>2. ASSUME NEW w \in Workers, PickFirst(w) PROVE SendInv'
  BY <1>2, StillStep DEF PickFirst, Oldest, db, SendInv
<1>3. ASSUME NEW w \in Workers, PickRest(w) PROVE SendInv'
  BY <1>3, StillStep DEF PickRest, db, SendInv
<1>4. ASSUME NEW w \in Workers, FailUpload(w) PROVE SendInv'
  BY <1>4, StillStep DEF FailUpload, SendInv
<1>5. ASSUME NEW w \in Workers, FinishUpload(w) PROVE SendInv'
  BY <1>5, StillStep DEF FinishUpload, SendInv
<1>6. ASSUME NEW w \in Workers, Release(w) PROVE SendInv'
  BY <1>6, StillStep DEF Release, Oldest, db, SendInv
<1>7. ASSUME NEW w \in Workers, Leave(w) PROVE SendInv'
  BY <1>7, StillStep DEF Leave, db, SendInv
<1>8. ASSUME NEW w \in Workers, Abort(w) \/ Die(w) PROVE SendInv'
  BY <1>8, StillStep DEF Abort, Die, Drop, db
<1>9. CASE Crash \/ Restart
  BY <1>9, StillStep DEF Crash, Restart, Reset, db
<1>10. CASE Sigterm \/ UNCHANGED vars
  BY <1>10, StillStep DEF Sigterm, vars, mem, db
<1>11. ASSUME NEW w \in Workers, LoadTransfers(w) PROVE SendInv'
  <2>1. /\ left' = [left EXCEPT ![w] = {r \in RowsOf(cur[w]) : rows[r] = "pending"}]
        /\ pc[w] = "next" /\ pc' = [pc EXCEPT ![w] = "send"]
        /\ IssuerOf[cur[w]] \notin NoKey
        /\ UNCHANGED <<rows, executed, cur, chunk, result>>
    BY <1>11 DEF LoadTransfers, db
  <2>. QED BY <2>1 DEF SendInv, Busy, RowsOf
<1>12. ASSUME NEW w \in Workers, SendChunk(w) PROVE SendInv'
  <2>1. PICK lot \in SUBSET left[w] :
           /\ lot # {}
           /\ chunk' = [chunk EXCEPT ![w] = lot]
           /\ pc[w] = "send" /\ pc' = [pc EXCEPT ![w] = "save"]
           /\ \/ executed' = executed /\ result' = [result EXCEPT ![w] = "failed"]
              \/ /\ executed' = [r \in Rows |-> IF r \in lot THEN executed[r] + 1
                                                ELSE executed[r]]
                 /\ \/ result' = [result EXCEPT ![w] = "succeeded"]
                    \/ result' = [result EXCEPT ![w] = "failed"]
    BY <1>12, SendChunkFacts
  <2>2. UNCHANGED <<rows, cur, left>>
    BY <1>12 DEF SendChunk, db
  <2>3. \A r \in Rows : executed[r] > 0 => executed'[r] > 0
    BY <2>1
  <2>4. result'[w] = "succeeded" => \A r \in lot : executed'[r] > 0
    BY <2>1
  <2>5. \A v \in Workers : chunk[v] \subseteq Rows
    OBVIOUS
  <2>. QED BY <2>1, <2>2, <2>3, <2>4, <2>5 DEF SendInv, Busy, RowsOf
<1>13. ASSUME NEW w \in Workers, SaveChunk(w) PROVE SendInv'
  <2>1. /\ pc[w] = "save" /\ pc' = [pc EXCEPT ![w] = "send"]
        /\ rows' = [r \in Rows |-> IF r \in chunk[w] THEN result[w] ELSE rows[r]]
        /\ left' = [left EXCEPT ![w] = @ \ chunk[w]]
        /\ chunk' = [chunk EXCEPT ![w] = {}]
        /\ UNCHANGED <<executed, cur, result>>
    BY <1>13 DEF SaveChunk
  <2>2. ASSUME NEW v \in Workers, v # w, Busy(v), NEW r \in RowsOf(cur[v])
        PROVE  rows'[r] = rows[r]
    BY <2>1, <2>2, ChunkOwner DEF RowsOf
  <2>3. result[w] # "pending" /\ RowsOf(cur[w]) \subseteq Rows
    BY <2>1 DEF SendInv, RowsOf
  <2>4. left'[w] = {r \in RowsOf(cur[w]) : rows'[r] = "pending"}
    BY <2>1, <2>3 DEF SendInv, Busy
  <2>5. ASSUME NEW v \in Workers, v # w, Busy(v)
        PROVE  left'[v] = {r \in RowsOf(cur[v]) : rows'[r] = "pending"}
    <3>1. left'[v] = left[v] /\ left[v] = {r \in RowsOf(cur[v]) : rows[r] = "pending"}
      BY <2>1, <2>5 DEF SendInv
    <3>2. \A r \in RowsOf(cur[v]) : rows'[r] = rows[r]
      BY <2>2, <2>5
    <3>. QED BY <3>1, <3>2
  <2>6. Busy(w) /\ \A v \in Workers : Busy(v)' <=> Busy(v)
    BY <2>1 DEF Busy
  <2>7. \A v \in Workers : RowsOf(cur[v])' = RowsOf(cur[v])
    BY <2>1 DEF RowsOf
  <2>8. \A v \in Workers : Busy(v) =>
          /\ IssuerOf[cur'[v]] \notin NoKey
          /\ left'[v] = {r \in RowsOf(cur'[v]) : rows'[r] = "pending"}
    <3>1. ASSUME NEW v \in Workers, Busy(v)
          PROVE  left'[v] = {r \in RowsOf(cur[v]) : rows'[r] = "pending"}
      <4>1. CASE v = w
        BY <4>1, <2>4
      <4>2. CASE v # w
        BY <4>2, <3>1, <2>5
      <4>. QED BY <4>1, <4>2
    <3>2. cur' = cur
      BY <2>1
    <3>3. \A v \in Workers : Busy(v) => IssuerOf[cur[v]] \notin NoKey
      BY DEF SendInv
    <3>. HIDE DEF TypeOK
    <3>. QED BY <3>1, <3>2, <3>3
  <2>9. \A v \in Workers : pc'[v] = "save" => v # w /\ pc[v] = "save"
    BY <2>1
  <2>10. \A v \in Workers : v # w => chunk'[v] = chunk[v] /\ left'[v] = left[v]
    BY <2>1
  <2>11. \A v \in Workers : pc'[v] = "save" =>
           /\ chunk'[v] \subseteq left'[v] /\ chunk'[v] # {}
           /\ result'[v] \in {"succeeded", "failed"}
           /\ result'[v] = "succeeded" => \A r \in chunk'[v] : executed'[r] > 0
    <3>1. ASSUME NEW v \in Workers, pc'[v] = "save"
          PROVE  /\ v # w /\ pc[v] = "save"
                 /\ chunk'[v] = chunk[v] /\ left'[v] = left[v]
                 /\ result'[v] = result[v] /\ executed' = executed
      BY <3>1, <2>1, <2>9, <2>10
    <3>. HIDE DEF TypeOK
    <3>. QED BY <3>1 DEF SendInv
  <2>12. \A v \in Workers : pc'[v] # "save" => chunk'[v] = {}
    <3>1. chunk'[w] = {}
      BY <2>1
    <3>2. \A v \in Workers : v # w => pc'[v] = pc[v]
      BY <2>1
    <3>. HIDE DEF TypeOK
    <3>. QED BY <3>1, <3>2, <2>10 DEF SendInv
  <2>13. \A v \in Workers : Busy(v)' => Busy(v)
    BY <2>6
  <2>. HIDE DEF TypeOK
  <2>. QED BY <2>8, <2>11, <2>12, <2>13 DEF SendInv, RowsOf
<1>. QED BY <1>1, <1>2, <1>3, <1>4, <1>5, <1>6, <1>7, <1>8, <1>9, <1>10,
           <1>11, <1>12, <1>13 DEF Next, Work

-----------------------------------------------------------------------------
(* Results and losses.                                                     *)

\* Steps that change neither the tables nor the chain.
LEMMA QuietTables ==
    ASSUME UNCHANGED <<status, rows, notices, executed>>, ResultInv
    PROVE  ResultInv'
  BY DEF ResultInv, RowsOf

LEMMA ResultStep ==
    ASSUME TypeOK, ClaimInv, PlaceInv, SendInv, ResultInv, [Next]_vars
    PROVE  ResultInv'
<1>. USE DEF TypeOK
<1>1. ASSUME NEW u \in Uploads, Post(u) PROVE ResultInv'
  BY <1>1 DEF Post, ResultInv, RowsOf
<1>2. ASSUME NEW w \in Workers, FailUpload(w) PROVE ResultInv'
  <2>1. cur[w] \in Uploads
    BY <1>2 DEF FailUpload, PlaceInv
  <2>2. /\ status' = [status EXCEPT ![cur[w]] = "failed"]
        /\ notices' = [notices EXCEPT ![cur[w]] = notices[cur[w]] + 1]
        /\ IssuerOf[cur[w]] \in NoKey
        /\ UNCHANGED <<rows, executed>>
    BY <1>2 DEF FailUpload
  <2>3. notices'[cur[w]] > 0
    BY <2>1, <2>2
  <2>4. \A u \in Uploads : u # cur[w] => status'[u] = status[u] /\ notices'[u] = notices[u]
    BY <2>2
  <2>. QED BY <2>1, <2>2, <2>3, <2>4 DEF ResultInv, RowsOf
<1>3. ASSUME NEW w \in Workers, FinishUpload(w) PROVE ResultInv'
  <2>1. cur[w] \in Uploads /\ pc[w] = "send" /\ UNCHANGED <<rows, executed>>
    BY <1>3 DEF FinishUpload, PlaceInv
  <2>2. IssuerOf[cur[w]] \notin NoKey /\ \A r \in RowsOf(cur[w]) : rows[r] # "pending"
    BY <1>3, <2>1 DEF FinishUpload, SendInv, Busy
  <2>3. \A u \in Uploads : u # cur[w] => status'[u] = status[u] /\ notices'[u] = notices[u]
    BY <1>3 DEF FinishUpload
  <2>4. CASE \E r \in RowsOf(cur[w]) : rows[r] = "failed"
    <3>1. /\ status' = [status EXCEPT ![cur[w]] = "failed"]
          /\ notices' = [notices EXCEPT ![cur[w]] = notices[cur[w]] + 1]
      BY <1>3, <2>4 DEF FinishUpload
    <3>2. status'[cur[w]] = "failed" /\ notices'[cur[w]] > 0
      BY <2>1, <3>1
    <3>. QED BY <2>1, <2>2, <2>3, <2>4, <3>2 DEF ResultInv, RowsOf
  <2>5. CASE ~ \E r \in RowsOf(cur[w]) : rows[r] = "failed"
    <3>1. status'[cur[w]] = "succeeded"
      BY <1>3, <2>1, <2>5 DEF FinishUpload
    <3>2. \A r \in RowsOf(cur[w]) : rows[r] = "succeeded"
      BY <2>2, <2>5 DEF RowsOf
    <3>. QED BY <2>1, <2>2, <2>3, <3>1, <3>2 DEF ResultInv, RowsOf
  <2>. QED BY <2>4, <2>5
<1>4. ASSUME NEW w \in Workers, SendChunk(w) PROVE ResultInv'
  <2>1. UNCHANGED <<status, rows, notices>>
    BY <1>4 DEF SendChunk, db
  <2>2. \A r \in Rows : executed[r] > 0 => executed'[r] > 0
    <3>1. PICK lot \in SUBSET left[w] :
             \/ executed' = executed
             \/ executed' = [r \in Rows |-> IF r \in lot THEN executed[r] + 1
                                            ELSE executed[r]]
      <4>1. PICK lot \in SUBSET left[w] :
               /\ chunk' = [chunk EXCEPT ![w] = lot]
               /\ \/ executed' = executed
                  \/ executed' = [r \in Rows |-> IF r \in lot THEN executed[r] + 1
                                                 ELSE executed[r]]
        BY <1>4 DEF SendChunk, SendInv, Busy
      <4>. QED BY <4>1
    <3>. QED BY <3>1
  <2>. QED BY <2>1, <2>2 DEF ResultInv, RowsOf
<1>5. ASSUME NEW w \in Workers, SaveChunk(w) PROVE ResultInv'
  <2>1. /\ pc[w] = "save"
        /\ rows' = [r \in Rows |-> IF r \in chunk[w] THEN result[w] ELSE rows[r]]
        /\ UNCHANGED <<status, notices, executed>>
    BY <1>5 DEF SaveChunk
  <2>2. \A r \in Rows : rows'[r] = "succeeded" => executed[r] > 0
    BY <2>1 DEF SendInv, ResultInv
  <2>3. \A r \in chunk[w] : /\ rows[r] = "pending" /\ UploadOf[r] = cur[w]
                            /\ IssuerOf[cur[w]] \notin NoKey
    BY <2>1 DEF SendInv, Busy, RowsOf
  <2>4. ASSUME NEW u \in Uploads, Settled(u), IssuerOf[u] \notin NoKey,
               NEW r \in RowsOf(u)
        PROVE  rows'[r] = rows[r]
    BY <2>1, <2>3, <2>4 DEF ResultInv, Settled, RowsOf
  <2>. QED BY <2>1, <2>2, <2>4 DEF ResultInv, Settled, RowsOf
<1>6. ASSUME NEW w \in Workers,
             PickFirst(w) \/ PickRest(w) \/ LoadTransfers(w) \/ Release(w) \/ Leave(w)
      PROVE  ResultInv'
  BY <1>6, QuietTables DEF PickFirst, PickRest, LoadTransfers, Release, Leave, db
<1>7. ASSUME NEW w \in Workers, Abort(w) \/ Die(w) PROVE ResultInv'
  BY <1>7, QuietTables DEF Abort, Die, Drop, db
<1>8. CASE Crash \/ Sigterm \/ Restart \/ UNCHANGED vars
  BY <1>8, QuietTables DEF Crash, Sigterm, Restart, vars, db
<1>. QED BY <1>1, <1>2, <1>3, <1>4, <1>5, <1>6, <1>7, <1>8 DEF Next, Work

\* Steps that neither send, save nor lose anything.
LEMMA QuietLoss ==
    ASSUME LossInv, UNCHANGED <<rows, executed, chunk, lost>>
    PROVE  LossInv'
  BY DEF LossInv

\* A result of w that is lost counts once.
LEMMA DropLoss ==
    ASSUME TypeOK, SendInv, LossInv, NEW w \in Workers, NEW next, Drop(w, next)
    PROVE  LossInv'
<1>. USE DEF TypeOK
<1>1. /\ UNCHANGED <<rows, executed>>
      /\ chunk' = [chunk EXCEPT ![w] = {}]
      /\ lost' = IF pc[w] = "save" THEN lost + 1 ELSE lost
  BY DEF Drop, db
<1>2. CASE pc[w] = "save"
  BY <1>1, <1>2 DEF LossInv
<1>3. CASE pc[w] # "save"
  BY <1>1, <1>3 DEF LossInv, SendInv
<1>. QED BY <1>2, <1>3

LEMMA LossStep ==
    ASSUME TypeOK, ClaimInv, PlaceInv, SendInv, LossInv, [Next]_vars
    PROVE  LossInv'
<1>. USE DEF TypeOK
<1>1. ASSUME NEW w \in Workers, SendChunk(w) PROVE LossInv'
  <2>1. PICK lot \in SUBSET left[w] :
           /\ chunk' = [chunk EXCEPT ![w] = lot]
           /\ pc[w] = "send"
           /\ left[w] = {r \in RowsOf(cur[w]) : rows[r] = "pending"}
           /\ \/ executed' = executed
              \/ executed' = [r \in Rows |-> IF r \in lot THEN executed[r] + 1
                                             ELSE executed[r]]
    BY <1>1, SendChunkFacts
  <2>2. UNCHANGED <<rows, lost>> /\ chunk[w] = {} /\ Busy(w)
    BY <1>1, <2>1 DEF SendChunk, db, SendInv, Busy
  <2>3. ASSUME NEW r \in lot PROVE executed[r] <= lost
    <3>1. r \in RowsOf(cur[w]) /\ rows[r] = "pending" /\ r \in Rows
      BY <2>1
    <3>2. \A v \in Workers : r \notin chunk[v]
      BY <2>2, <3>1, ChunkOwner
    <3>. QED BY <3>1, <3>2 DEF LossInv
  <2>4. \A r \in Rows : executed'[r] <= 1 + lost
    BY <2>1, <2>3 DEF LossInv
  <2>5. ASSUME NEW r \in Rows, rows[r] = "pending", \A v \in Workers : r \notin chunk'[v]
        PROVE  executed'[r] <= lost
    BY <2>1, <2>2, <2>5 DEF LossInv
  <2>. QED BY <2>2, <2>4, <2>5 DEF LossInv
<1>2. ASSUME NEW w \in Workers, SaveChunk(w) PROVE LossInv'
  <2>1. /\ pc[w] = "save"
        /\ rows' = [r \in Rows |-> IF r \in chunk[w] THEN result[w] ELSE rows[r]]
        /\ chunk' = [chunk EXCEPT ![w] = {}]
        /\ UNCHANGED <<executed, lost>>
    BY <1>2 DEF SaveChunk
  <2>2. result[w] # "pending"
    BY <2>1 DEF SendInv
  <2>. QED BY <2>1, <2>2 DEF LossInv
<1>3. ASSUME NEW w \in Workers, Abort(w) \/ Die(w) PROVE LossInv'
  BY <1>3, DropLoss DEF Abort, Die
<1>4. CASE Crash
  <2>1. UNCHANGED <<rows, executed>> /\ lost \in Nat
        /\ lost' = lost + Cardinality({w \in Workers : pc[w] = "save"})
    BY <1>4 DEF Crash, db
  <2>2. lost' >= lost /\ ((\E w \in Workers : pc[w] = "save") => lost' >= lost + 1)
    BY <2>1, SavingCount
  <2>3. lost' \in Nat
    BY <2>1, SavingCount
  <2>4. CASE \E w \in Workers : pc[w] = "save"
    BY <2>1, <2>2, <2>3, <2>4 DEF LossInv
  <2>5. CASE \A w \in Workers : pc[w] # "save"
    BY <2>1, <2>2, <2>3, <2>5 DEF LossInv, SendInv
  <2>. QED BY <2>4, <2>5
<1>5. CASE Restart
  BY <1>5 DEF Restart, Reset, db, LossInv, SendInv
<1>6. ASSUME NEW u \in Uploads, Post(u) PROVE LossInv'
  BY <1>6, QuietLoss DEF Post, mem
<1>7. ASSUME NEW w \in Workers,
             PickFirst(w) \/ PickRest(w) \/ LoadTransfers(w) \/ Release(w) \/ Leave(w)
      PROVE  LossInv'
  BY <1>7, QuietLoss DEF PickFirst, PickRest, LoadTransfers, Release, Leave, db
<1>8. ASSUME NEW w \in Workers, FailUpload(w) \/ FinishUpload(w) PROVE LossInv'
  BY <1>8, QuietLoss DEF FailUpload, FinishUpload
<1>9. CASE Sigterm \/ UNCHANGED vars
  BY <1>9, QuietLoss DEF Sigterm, vars, mem, db
<1>. QED BY <1>1, <1>2, <1>3, <1>4, <1>5, <1>6, <1>7, <1>8, <1>9 DEF Next, Work

-----------------------------------------------------------------------------
(* The invariant and the theorems.                                         *)

LEMMA InitInv == Init => IInv
<1>. SUFFICES ASSUME Init PROVE IInv
  OBVIOUS
<1>1. TypeOK
  BY TypeInit
<1>2. ClaimInv
  BY BulkAssumption DEF Init, ClaimInv, Disjoint, Claimed, LockHeld, ListOf
<1>3. PlaceInv /\ SendInv
  BY DEF Init, PlaceInv, SendInv, Busy
<1>4. ResultInv
  BY DEF Init, ResultInv
<1>5. LossInv
  BY DEF Init, LossInv
<1>. QED BY <1>1, <1>2, <1>3, <1>4, <1>5 DEF IInv

LEMMA Invariance == Spec => []IInv
<1>1. IInv /\ [Next]_vars => IInv'
  BY TypeStep, ClaimStep, PlaceStep, SendStep, ResultStep, LossStep DEF IInv
<1>. QED BY InitInv, <1>1, PTL DEF Spec

\* Two workers never process the same upload, however the claims of aborted
\* cycles and restarts come about.
THEOREM Exclusion == Spec => []OneWorkerPerUpload
<1>1. IInv => OneWorkerPerUpload
  BY OneBusy DEF IInv, OneWorkerPerUpload
<1>. QED BY <1>1, Invariance, PTL

\* A transfer is executed once, and again only for a result that was lost.
THEOREM AtMostOncePerLoss == Spec => []RepeatsNeedLoss
<1>1. IInv => RepeatsNeedLoss
  BY DEF IInv, LossInv, RepeatsNeedLoss
<1>. QED BY <1>1, Invariance, PTL

\* A finished upload says what became of its rows.
THEOREM ResultsMatch == Spec => []ResultMatchesRows
<1>1. IInv => ResultMatchesRows
  BY DEF IInv, TypeOK, ResultInv, ResultMatchesRows, RowsOf
<1>. QED BY <1>1, Invariance, PTL

\* An upload that is settled keeps its very status.
LEMMA StatusKept ==
    ASSUME IInv, [Next]_vars, NEW u \in Uploads, Settled(u)
    PROVE  status'[u] = status[u]
<1>. USE DEF TypeOK
<1>1. ASSUME NEW v \in Uploads, Post(v) PROVE status'[u] = status[u]
  BY <1>1 DEF Post, Settled, IInv
<1>2. ASSUME NEW w \in Workers, FailUpload(w) PROVE status'[u] = status[u]
  BY <1>2 DEF FailUpload, Settled, IInv, ResultInv
<1>3. ASSUME NEW w \in Workers, FinishUpload(w) PROVE status'[u] = status[u]
  <2>1. CASE u # cur[w]
    BY <1>3, <2>1 DEF FinishUpload, IInv
  <2>2. CASE u = cur[w]
    <3>1. IssuerOf[u] \notin NoKey
      BY <1>3, <2>2 DEF FinishUpload, IInv, SendInv, Busy
    <3>. QED BY <1>3, <2>2, <3>1 DEF FinishUpload, IInv, ResultInv, Settled
  <2>. QED BY <2>1, <2>2
<1>4. ASSUME NEW w \in Workers, PickFirst(w) \/ Release(w) \/ Abort(w) \/ Die(w)
      PROVE  UNCHANGED status
  BY <1>4 DEF PickFirst, Release, Abort, Die, Drop, db
<1>5. ASSUME NEW w \in Workers,
             PickRest(w) \/ LoadTransfers(w) \/ SendChunk(w) \/ SaveChunk(w) \/ Leave(w)
      PROVE  UNCHANGED status
  BY <1>5 DEF PickRest, LoadTransfers, SendChunk, SaveChunk, Leave, db
<1>6. CASE Crash \/ Sigterm \/ Restart \/ UNCHANGED vars
  BY <1>6 DEF Crash, Sigterm, Restart, vars, db
<1>. QED BY <1>1, <1>2, <1>3, <1>4, <1>5, <1>6 DEF Next, Work

\* So does a row.
LEMMA RowKept ==
    ASSUME IInv, [Next]_vars, NEW r \in Rows, rows[r] # "pending"
    PROVE  rows'[r] = rows[r]
<1>1. ASSUME NEW w \in Workers, SaveChunk(w) PROVE rows'[r] = rows[r]
  <2>1. r \notin chunk[w]
    BY <1>1 DEF SaveChunk, IInv, SendInv, Busy
  <2>. QED BY <1>1, <2>1 DEF SaveChunk
<1>2. ASSUME NEW w \in Workers, PickFirst(w) \/ Release(w) \/ Abort(w) \/ Die(w)
      PROVE  UNCHANGED rows
  BY <1>2 DEF PickFirst, Release, Abort, Die, Drop, db
<1>3. ASSUME NEW w \in Workers, PickRest(w) \/ LoadTransfers(w) \/ SendChunk(w)
      PROVE  UNCHANGED rows
  BY <1>3 DEF PickRest, LoadTransfers, SendChunk, db
<1>4. ASSUME NEW w \in Workers, FailUpload(w) \/ FinishUpload(w) \/ Leave(w)
      PROVE  UNCHANGED rows
  BY <1>4 DEF FailUpload, FinishUpload, Leave, db
<1>5. ASSUME NEW v \in Uploads, Post(v) PROVE UNCHANGED rows
  BY <1>5 DEF Post
<1>6. CASE Crash \/ Sigterm \/ Restart \/ UNCHANGED vars
  BY <1>6 DEF Crash, Sigterm, Restart, vars, db
<1>. QED BY <1>1, <1>2, <1>3, <1>4, <1>5, <1>6 DEF Next, Work

\* What is settled stays settled, as it is.
THEOREM NothingResettled == Spec => SettledForGood
<1>. DEFINE Kept ==
        /\ \A r \in Rows : rows[r] # "pending" => rows'[r] = rows[r]
        /\ \A u \in Uploads : status[u] \in {"succeeded", "failed"}
                                 => status'[u] = status[u]
<1>1. IInv /\ [Next]_vars => [Kept]_vars
  BY StatusKept, RowKept DEF Settled
<1>. QED BY <1>1, Invariance, PTL DEF Spec, SettledForGood

-----------------------------------------------------------------------------
(* BulkTransfer implements BulkTransferBatch.                              *)

Flight == UNION {chunk[w] : w \in Workers}

LEMMA BatchInit == Init => Batch!Init
  BY DEF Init, Batch!Init

\* Steps the batch does not see.
LEMMA BatchStutter ==
    ASSUME UNCHANGED <<status, rows, executed>>, Flight' = Flight
    PROVE  UNCHANGED Batch!batchVars
  BY DEF Flight, Batch!batchVars

\* Only rows of w leave the flight with w's chunk.
LEMMA FlightDrop ==
    ASSUME IInv, NEW w \in Workers, chunk' = [chunk EXCEPT ![w] = {}]
    PROVE  Flight' = Flight \ chunk[w]
<1>1. \A v \in Workers : v # w => chunk[v] \cap chunk[w] = {}
  BY ChunkOwner DEF IInv
<1>2. /\ \A v \in Workers : v # w => chunk'[v] = chunk[v]
      /\ chunk'[w] = {}
  BY DEF IInv, TypeOK
<1>. QED BY <1>1, <1>2 DEF Flight

\* The status of the upload a worker is at.
LEMMA CurrentStatus ==
    ASSUME IInv, NEW w \in Workers, pc[w] \in {"next", "send", "save"}
    PROVE  cur[w] \in Uploads /\ (status[cur[w]] = "pending" \/ Settled(cur[w]))
<1>1. cur[w] \in Uploads
  BY DEF IInv, PlaceInv
<1>2. cur[w] \in ListOf(w)
  BY <1>1, BulkAssumption DEF ListOf, NoUpload
<1>. QED BY <1>1, <1>2 DEF IInv, ClaimInv, Claimed, Settled, TypeOK

LEMMA BatchSend ==
    ASSUME IInv, [Next]_vars, NEW w \in Workers, SendChunk(w)
    PROVE  Batch!Next
<1>1. PICK lot \in SUBSET left[w] :
         /\ lot # {} /\ Cardinality(lot) <= TxLotSize
         /\ chunk' = [chunk EXCEPT ![w] = lot]
         /\ pc[w] = "send"
         /\ left[w] = {r \in RowsOf(cur[w]) : rows[r] = "pending"}
         /\ IssuerOf[cur[w]] \notin NoKey
         /\ \/ executed' = executed
            \/ executed' = [r \in Rows |-> IF r \in lot THEN executed[r] + 1
                                           ELSE executed[r]]
  BY SendChunkFacts DEF IInv
<1>2. \A r \in lot : r \in Rows /\ UploadOf[r] = cur[w] /\ rows[r] = "pending"
  BY <1>1 DEF RowsOf
<1>3. \A r \in lot : r \notin Flight
  <2>. SUFFICES ASSUME NEW r \in lot, NEW v \in Workers, r \in chunk[v] PROVE FALSE
    BY DEF Flight
  <2>1. v = w
    BY <1>1, ChunkOwner DEF IInv, Busy
  <2>. QED BY <2>1, <1>1 DEF IInv, SendInv
<1>4. chunk[w] = {} /\ chunk'[w] = lot /\ \A v \in Workers : v # w => chunk'[v] = chunk[v]
  BY <1>1 DEF IInv, TypeOK, SendInv
<1>5. Flight' = Flight \cup lot
  BY <1>4 DEF Flight
<1>6. cur[w] \in Uploads /\ status[cur[w]] = "pending"
  <2>1. cur[w] \in Uploads /\ (status[cur[w]] = "pending" \/ Settled(cur[w]))
    BY <1>1, CurrentStatus
  <2>2. ~ Settled(cur[w])
    BY <1>1, <1>2, <2>1 DEF IInv, ResultInv, Settled, RowsOf
  <2>. QED BY <2>1, <2>2
<1>7. UNCHANGED <<status, rows>>
  BY DEF SendChunk, db
<1>8. lot \in SUBSET Rows
  BY <1>2
<1>9. PICK u \in Uploads : u = cur[w]
  BY <1>6
<1>10. Batch!Execute(u)
  BY <1>1, <1>2, <1>3, <1>5, <1>6, <1>7, <1>8, <1>9 DEF Batch!Execute, Flight
<1>. QED BY <1>10 DEF Batch!Next

LEMMA BatchSave ==
    ASSUME IInv, [Next]_vars, NEW w \in Workers, SaveChunk(w)
    PROVE  Batch!Next
<1>1. /\ pc[w] = "save"
      /\ rows' = [r \in Rows |-> IF r \in chunk[w] THEN result[w] ELSE rows[r]]
      /\ chunk' = [chunk EXCEPT ![w] = {}]
      /\ UNCHANGED <<status, executed>>
  BY DEF SaveChunk
<1>2. /\ result[w] \in {"succeeded", "failed"}
      /\ result[w] = "succeeded" => \A r \in chunk[w] : executed[r] > 0
  BY <1>1 DEF IInv, SendInv
<1>3. Flight' = Flight \ chunk[w] /\ chunk[w] \in SUBSET Flight
  BY <1>1, FlightDrop DEF Flight
<1>4. Batch!Record
  BY <1>1, <1>2, <1>3 DEF Batch!Record, Flight
<1>. QED BY <1>4 DEF Batch!Next

LEMMA BatchDrop ==
    ASSUME IInv, [Next]_vars, NEW w \in Workers, NEW next, Drop(w, next)
    PROVE  [Batch!Next]_(Batch!batchVars)
<1>1. UNCHANGED <<status, rows, executed>> /\ chunk' = [chunk EXCEPT ![w] = {}]
  BY DEF Drop, db
<1>2. Flight' = Flight \ chunk[w]
  BY <1>1, FlightDrop
<1>3. CASE pc[w] = "save"
  <2>1. MaxLost > 0
    BY <1>3, BulkAssumption DEF Drop, IInv, TypeOK
  <2>2. Flight' \subseteq Flight /\ Flight' # Flight
    BY <1>2, <1>3 DEF IInv, SendInv, Flight
  <2>. QED BY <1>1, <2>1, <2>2 DEF Batch!Next, Batch!Forget, Flight
<1>4. CASE pc[w] # "save"
  <2>1. chunk[w] = {}
    BY <1>4 DEF IInv, SendInv
  <2>. QED BY <1>1, <1>2, <2>1, BatchStutter
<1>. QED BY <1>3, <1>4

LEMMA BatchCrash ==
    ASSUME IInv, [Next]_vars, Crash
    PROVE  [Batch!Next]_(Batch!batchVars)
<1>1. /\ UNCHANGED <<status, rows, executed>>
      /\ chunk' = [w \in Workers |-> {}]
      /\ lost + Cardinality({w \in Workers : pc[w] = "save"}) <= MaxLost
  BY DEF Crash, Reset, db
<1>2. Flight' = {}
  BY <1>1 DEF Flight
<1>3. CASE Flight = {}
  BY <1>1, <1>2, <1>3, BatchStutter
<1>4. CASE Flight # {}
  <2>1. \E w \in Workers : pc[w] = "save"
    BY <1>4 DEF Flight, IInv, SendInv
  <2>2. MaxLost > 0
    BY <1>1, <2>1, SavingCount, BulkAssumption DEF IInv, TypeOK
  <2>. QED BY <1>1, <1>2, <1>4, <2>2 DEF Batch!Next, Batch!Forget, Flight
<1>. QED BY <1>3, <1>4

LEMMA BatchSettle ==
    ASSUME IInv, [Next]_vars, NEW w \in Workers, FailUpload(w) \/ FinishUpload(w)
    PROVE  [Batch!Next]_(Batch!batchVars)
<1>1. UNCHANGED <<rows, executed, chunk>> /\ pc[w] \in {"next", "send"}
  BY DEF FailUpload, FinishUpload
<1>2. cur[w] \in Uploads /\ (status[cur[w]] = "pending" \/ Settled(cur[w]))
  BY <1>1, CurrentStatus
<1>3. \A u \in Uploads : u # cur[w] => status'[u] = status[u]
  BY DEF FailUpload, FinishUpload, IInv, TypeOK
<1>4. Flight' = Flight
  BY <1>1 DEF Flight
<1>5. CASE Settled(cur[w])
  <2>1. status'[cur[w]] = status[cur[w]]
    BY <1>2, <1>5, StatusKept
  <2>2. status' \in [Uploads -> {"absent", "pending", "succeeded", "failed"}]
    BY TypeStep DEF IInv, TypeOK
  <2>3. status' = status
    BY <1>3, <2>1, <2>2 DEF IInv, TypeOK
  <2>. QED BY <1>1, <1>4, <2>3, BatchStutter
<1>6. CASE status[cur[w]] = "pending"
  <2>1. CASE FailUpload(w)
    <3>1. /\ IssuerOf[cur[w]] \in NoKey
          /\ status' = [status EXCEPT ![cur[w]] = "failed"]
      BY <2>1 DEF FailUpload
    <3>2. Batch!Settle(cur[w])
      BY <1>1, <1>2, <1>4, <1>6, <3>1 DEF Batch!Settle, Flight
    <3>. QED BY <1>2, <3>2 DEF Batch!Next
  <2>2. CASE FinishUpload(w)
    <3>1. /\ IssuerOf[cur[w]] \notin NoKey
          /\ \A r \in RowsOf(cur[w]) : rows[r] # "pending"
      BY <2>2 DEF FinishUpload, IInv, SendInv, Busy
    <3>2. status' = [status EXCEPT ![cur[w]] =
                       IF \E r \in RowsOf(cur[w]) : rows[r] = "failed"
                         THEN "failed" ELSE "succeeded"]
      BY <2>2 DEF FinishUpload
    <3>3. Batch!Settle(cur[w])
      BY <1>1, <1>2, <1>4, <1>6, <3>1, <3>2 DEF Batch!Settle, Flight, RowsOf
    <3>. QED BY <1>2, <3>3 DEF Batch!Next
  <2>. QED BY <2>1, <2>2
<1>. QED BY <1>2, <1>5, <1>6

\* Every step of the workers is a step of the batch, or invisible to it.
LEMMA BatchStep ==
    ASSUME IInv, [Next]_vars
    PROVE  [Batch!Next]_(Batch!batchVars)
<1>1. ASSUME NEW u \in Uploads, Post(u) PROVE [Batch!Next]_(Batch!batchVars)
  <2>1. Batch!Post(u)
    BY <1>1 DEF Post, mem, Batch!Post
  <2>. QED BY <2>1 DEF Batch!Next
<1>2. ASSUME NEW w \in Workers, SendChunk(w) \/ SaveChunk(w)
      PROVE  [Batch!Next]_(Batch!batchVars)
  BY <1>2, BatchSend, BatchSave
<1>3. ASSUME NEW w \in Workers, FailUpload(w) \/ FinishUpload(w)
      PROVE  [Batch!Next]_(Batch!batchVars)
  BY <1>3, BatchSettle
<1>4. ASSUME NEW w \in Workers, Abort(w) \/ Die(w)
      PROVE  [Batch!Next]_(Batch!batchVars)
  BY <1>4, BatchDrop DEF Abort, Die
<1>5. CASE Crash
  BY <1>5, BatchCrash
<1>6. ASSUME NEW w \in Workers,
             PickFirst(w) \/ PickRest(w) \/ LoadTransfers(w) \/ Release(w) \/ Leave(w)
      PROVE  [Batch!Next]_(Batch!batchVars)
  <2>1. UNCHANGED <<status, rows, executed, chunk>>
    BY <1>6 DEF PickFirst, PickRest, LoadTransfers, Release, Leave, db
  <2>. QED BY <2>1, BatchStutter DEF Flight
<1>7. CASE Restart
  <2>1. /\ UNCHANGED <<status, rows, executed>>
        /\ chunk' = [w \in Workers |-> {}] /\ \A w \in Workers : pc[w] # "save"
    BY <1>7 DEF Restart, Reset, db
  <2>2. Flight' = {} /\ Flight = {}
    BY <2>1 DEF Flight, IInv, SendInv
  <2>. QED BY <2>1, <2>2, BatchStutter
<1>8. CASE Sigterm \/ UNCHANGED vars
  <2>1. UNCHANGED <<status, rows, executed, chunk>>
    BY <1>8 DEF Sigterm, vars, mem, db
  <2>. QED BY <2>1, BatchStutter DEF Flight
<1>. QED BY <1>1, <1>2, <1>3, <1>4, <1>5, <1>6, <1>7, <1>8 DEF Next, Work

\* The processor, with its workers, claims and restarts, implements the batch.
THEOREM Implementation == Spec => ImplementsBatch
<1>. QED BY BatchInit, BatchStep, Invariance, PTL
         DEF Spec, ImplementsBatch, Batch!Spec

=============================================================================
