------------------------------ MODULE JobProofs ------------------------------
(* What components that carry out jobs of the API promise, for every value of   *)
(* their constants.  First the batch registration of personal information, whose *)
(* names are those of BatchRegister: a worker that holds the lock lists what    *)
(* nobody has claimed, and everything pending on its list is its own until it   *)
(* has recorded the result; an upload that is listed twice has no pending row   *)
(* the second time.  The other modules have a prefix of their names.            *)
(* Issue: issues and redemptions.  What a pass sends is pending and goes into   *)
(* one transaction.                                                           *)
(* Sched: scheduled events.  Whoever works for an issuer has claimed it, alone, *)
(* and has its due events in the order they are to be done.                    *)
(* Token: the issue of tokens.  What the batch has listed is pending, and the   *)
(* row of a token is settled in both tables at once.                           *)
(* Attr: the attributes of a token.  What the cache, or a process about to fill  *)
(* it, has read and the chain has changed since is marked as changed.           *)
(* Msg: E2E messages.  A message that was sent with the newest key of its time,  *)
(* committed then and kept since, is indexed, or is on the list of the indexer.  *)
(* Info: personal information.  What is on the chain up to the block the indexer *)
(* has reached is in the history, and what a pass over the records has not       *)
(* encrypted anew keeps the former key of the issuer.                         *)
(* Constants and variables of the same name in these modules are one here.    *)
EXTENDS BatchRegister, FiniteSetTheorems, SequenceTheorems, TLAPS

CONSTANTS Shares, Redemptions, Batched, LotSize, Lot, KeyFaults, MaxSingles
CONSTANTS Events, TypeOf, At, End, Errors, MaxDeletions
CONSTANTS Tokens, Items, ItemsOf, WithWST
CONSTANTS TokenType, Version, Readers, Updaters, Request, Initial, UseCache
CONSTANTS Accounts, Intervals, Generations, Passphrases, FirstPassphrase, MaxTime, MaxKeys, MaxMessages
CONSTANTS Holders, Contracts, FirstContract, ContractChanges, PassphraseChanges, MaxWrites, MaxEvents
VARIABLES upload, row, notes, singles, mempool, log, uploads, chunk, outcome, shutdown, index, past
VARIABLES soft, chain, now, filter, issuer, claimed
VARIABLES request, tokens, updates, positions, utxos, wst, set, listed, cache, got, fill
VARIABLES interval, generation, keys, synced, opening, rot, ix, used
VARIABLES account, temp, contract, record, events, history, flight, mod

Issue == INSTANCE BatchIssueRedeem
Sched == INSTANCE ScheduledEvents
Token == INSTANCE TokenIssue
Attr == INSTANCE TokenAttributes
Msg == INSTANCE E2EMessaging
Info == INSTANCE PersonalInfo

Statuses == {"absent", "pending", "done", "failed"}
Places == {"idle", "get", "next", "rows", "commit", "ended"}
Listed == {"next", "rows", "commit", "ended"}

-----------------------------------------------------------------------------
(* The inductive invariant.                                                *)

TypeInv ==
    /\ status \in [Uploads -> Statuses] /\ notices \in [Uploads -> Nat]
    /\ rows \in [Rows -> 0..2] /\ registered \in [Rows -> Nat] /\ lost \in [Rows -> Nat]
    /\ lock \in Workers \cup {NoWorker} /\ pc \in [Workers -> Places]
    /\ processing \in [Workers -> SUBSET Uploads] /\ left \in [Workers -> SUBSET Rows]
    /\ list \in [Workers -> Seq(Uploads)] /\ DOMAIN sent = Workers
    /\ \A w \in Workers : pc[w] = "commit" => sent[w] \in [row : Rows, result : {1, 2}]
    /\ faults \in Nat

\* What the place of a worker says of the lock, its list and its rows; what is listed
\* was posted.
PlaceInv ==
    \A w \in Workers :
       /\ (pc[w] = "get") = (lock = w)
       /\ pc[w] \in Listed => list[w] # <<>>
       /\ pc[w] \notin {"rows", "commit"} => left[w] = {}
       /\ \A u \in SetOf(list[w]) : status[u] # "absent"

\* Nobody else has claimed what is on a list, and who works has claimed what is
\* pending on its own.
ClaimInv ==
    /\ OneWorker
    /\ \A v, w \in Workers :
          v # w /\ pc[w] = "get" => SetOf(list[w]) \cap processing[v] = {}
    /\ \A w \in Workers : pc[w] \in Listed =>
          \A u \in SetOf(list[w]) : status[u] = "pending" => u \in processing[w]

\* The worker is about to record the result of the row.
Holds(w, r) == pc[w] = "commit" /\ sent[w].row = r

\* The rows a worker has read are the pending ones of its upload, but the one it holds.
RowInv ==
    \A w \in Workers : pc[w] \in {"rows", "commit"} =>
       /\ IssuerOf[Head(list[w])] \notin NoAccount
       /\ \A r \in Rows : r \in left[w] \/ Holds(w, r) => rows[r] = 0 /\ UploadOf[r] = Head(list[w])
       /\ \A r \in RowsOf(Head(list[w])) : rows[r] = 0 => r \in left[w] \/ Holds(w, r)
       /\ \A r \in left[w] : ~Holds(w, r)

\* What results and statuses say: an upload that is settled has no pending row, but
\* when its issuer has no account.
ResultInv ==
    /\ \A w \in Workers : pc[w] = "commit" /\ sent[w].result = 1 => registered[sent[w].row] > 0
    /\ \A r \in Rows : rows[r] = 1 => registered[r] > 0
    /\ \A u \in Uploads :
          /\ status[u] # "failed" => notices[u] = 0
          /\ status[u] = "failed" => notices[u] > 0
          /\ status[u] = "done" => IssuerOf[u] \notin NoAccount /\ \A r \in RowsOf(u) : rows[r] = 1
          /\ status[u] = "failed" => \/ IssuerOf[u] \in NoAccount
                                     \/ /\ \A r \in RowsOf(u) : rows[r] # 0
                                        /\ \E r \in RowsOf(u) : rows[r] = 2

\* A pending row that nobody holds was registered only by attempts that were lost.
LossInv ==
    \A r \in Rows :
       /\ registered[r] <= 1 + lost[r]
       /\ rows[r] = 0 /\ (\A w \in Workers : ~Holds(w, r)) => registered[r] <= lost[r]

IInv == TypeInv /\ PlaceInv /\ ClaimInv /\ RowInv /\ ResultInv /\ LossInv

-----------------------------------------------------------------------------
(* Lists, and what follows of a state of the invariant.                     *)

\* What is on a list, its head and its rest.
LEMMA Lists ==
    ASSUME NEW s \in Seq(Uploads)
    PROVE  /\ SetOf(s) \subseteq Uploads
           /\ s # <<>> => /\ Head(s) \in SetOf(s) /\ Tail(s) \in Seq(Uploads)
                          /\ SetOf(Tail(s)) \subseteq SetOf(s)
                          /\ Len(s) # 1 => Tail(s) # <<>>
  <1>1. Len(s) \in Nat /\ DOMAIN s = 1..Len(s) /\ \A i \in 1..Len(s) : s[i] \in Uploads
    OBVIOUS
  <1>2. ASSUME s # <<>>
        PROVE  /\ Head(s) \in SetOf(s) /\ Tail(s) \in Seq(Uploads)
               /\ SetOf(Tail(s)) \subseteq SetOf(s)
               /\ Len(s) # 1 => Tail(s) # <<>>
    <2>1. Len(s) >= 1 /\ Head(s) = s[1] /\ Tail(s) \in Seq(Uploads) /\ Len(Tail(s)) = Len(s) - 1
      BY <1>1, <1>2
    <2>2. Head(s) \in SetOf(s)
      BY <1>1, <2>1 DEF SetOf
    <2>3. ASSUME NEW i \in DOMAIN Tail(s) PROVE Tail(s)[i] \in SetOf(s)
      <3>1. i \in 1..(Len(s) - 1) /\ Tail(s)[i] = s[i + 1]
        BY <1>1, <1>2, <2>1
      <3>2. i + 1 \in 1..Len(s)
        BY <1>1, <3>1
      <3> QED
        BY <1>1, <3>1, <3>2 DEF SetOf
    <2>4. ASSUME Len(s) # 1 PROVE Tail(s) # <<>>
      <3>1. Len(Tail(s)) # Len(<<>>)
        BY <1>1, <2>1, <2>4
      <3> QED
        BY <3>1
    <2> QED
      BY <2>1, <2>2, <2>3, <2>4 DEF SetOf
  <1> QED
    BY <1>1, <1>2 DEF SetOf

LEMMA Joined ==
    ASSUME NEW s \in Seq(Uploads), NEW t \in Seq(Uploads)
    PROVE  s \o t \in Seq(Uploads) /\ SetOf(s \o t) \subseteq SetOf(s) \cup SetOf(t)
  <1>1. s \o t \in Seq(Uploads) /\ Len(s \o t) = Len(s) + Len(t) /\ Len(s) \in Nat /\ Len(t) \in Nat
    OBVIOUS
  <1>2. ASSUME NEW i \in DOMAIN (s \o t) PROVE (s \o t)[i] \in SetOf(s) \cup SetOf(t)
    <2>1. i \in 1..(Len(s) + Len(t))
      BY <1>1
    <2>2. CASE i <= Len(s)
      <3>1. i \in DOMAIN s /\ (s \o t)[i] = s[i]
        BY <1>1, <2>1, <2>2
      <3> QED
        BY <3>1 DEF SetOf
    <2>3. CASE i > Len(s)
      <3>1. i - Len(s) \in DOMAIN t /\ (s \o t)[i] = t[i - Len(s)]
        BY <1>1, <2>1, <2>3
      <3> QED
        BY <3>1 DEF SetOf
    <2> QED
      BY <1>1, <2>1, <2>2, <2>3
  <1> QED
    BY <1>1, <1>2 DEF SetOf

\* A sequence in order has the uploads it is made of.
LEMMA Ordered ==
    ASSUME BatchRegisterAssumption, NEW S, S \subseteq Uploads, NEW s \in InOrder(S)
    PROVE  s \in Seq(Uploads) /\ SetOf(s) \subseteq S
  <1>1. IsFiniteSet(S) /\ Cardinality(S) \in Nat
    BY FS_Subset, FS_CardinalityType DEF BatchRegisterAssumption
  <1>2. s \in [1..Cardinality(S) -> S]
    BY DEF InOrder
  <1>3. s \in Seq(S)
    BY <1>1, <1>2
  <1>4. s \in Seq(Uploads)
    BY <1>1, <1>2, <1>3
  <1> QED
    BY <1>2, <1>4 DEF SetOf

LEMMA OthersListed ==
    ASSUME BatchRegisterAssumption, NEW u, NEW t \in Others(u)
    PROVE  t \in Seq(Uploads) /\ SetOf(t) \subseteq Candidates
  <1> DEFINE S == {v \in Candidates : IssuerOf[v] = IssuerOf[u]}
  <1>1. S \subseteq Uploads /\ S \subseteq Candidates
    BY DEF Candidates
  <1>2. PICK s \in InOrder(S) :
           t = SubSeq(s, 2, IF Len(s) < WorkerLotSize THEN Len(s) ELSE WorkerLotSize)
    BY DEF Others
  <1> HIDE DEF S
  <1>3. s \in Seq(Uploads) /\ SetOf(s) \subseteq S
    BY <1>1, Ordered
  <1>4. PICK n \in Nat : t = SubSeq(s, 2, n) /\ n <= Len(s)
    BY <1>2, <1>3 DEF BatchRegisterAssumption
  <1>5. t \in Seq(Uploads) /\ \A i \in DOMAIN t : i + 1 \in DOMAIN s /\ t[i] = s[i + 1]
    BY <1>3, <1>4
  <1> QED
    BY <1>1, <1>3, <1>5 DEF SetOf

\* What is lost of the results of W: one for each worker of it that was sent the row.
LEMMA Losses ==
    ASSUME BatchRegisterAssumption, TypeInv, NEW W \in SUBSET Workers
    PROVE  /\ Lost(W) \in [Rows -> Nat]
           /\ \A r \in Rows : Lost(W)[r] >= lost[r]
           /\ \A r \in Rows, w \in W : sent[w].row = r => Lost(W)[r] >= lost[r] + 1
  <1> DEFINE N(r) == Cardinality({w \in W : sent[w].row = r})
  <1>1. \A r \in Rows : Lost(W)[r] = lost[r] + N(r)
    BY DEF Lost
  <1>2. ASSUME NEW r \in Rows
        PROVE  N(r) \in Nat /\ \A w \in W : sent[w].row = r => N(r) # 0
    <2>1. IsFiniteSet({w \in W : sent[w].row = r})
      BY FS_Subset DEF BatchRegisterAssumption
    <2>2. N(r) \in Nat /\ (N(r) = 0 <=> {w \in W : sent[w].row = r} = {})
      BY <2>1, FS_CardinalityType, FS_EmptySet
    <2> QED
      BY <2>2
  <1>3. Lost(W) = [r \in Rows |-> Lost(W)[r]] /\ \A r \in Rows : lost[r] \in Nat
    BY DEF Lost, TypeInv
  <1> HIDE DEF N
  <1>4. \A r \in Rows : Lost(W)[r] \in Nat
    BY <1>1, <1>2, <1>3
  <1>5. Lost(W) \in [Rows -> Nat]
    BY <1>3, <1>4
  <1> QED
    BY <1>1, <1>2, <1>3, <1>5

\* A pending row that is read or held is one of a pending upload, which its worker has
\* claimed: no other worker has it.
LEMMA Alone ==
    ASSUME BatchRegisterAssumption, IInv, NEW w \in Workers, NEW r \in Rows,
           pc[w] \in {"rows", "commit"}, r \in left[w] \/ Holds(w, r)
    PROVE  /\ status[UploadOf[r]] = "pending" /\ UploadOf[r] = Head(list[w])
           /\ \A v \in Workers : v # w => r \notin left[v] /\ ~Holds(v, r)
  <1>1. ASSUME NEW v \in Workers, pc[v] \in {"rows", "commit"}, r \in left[v] \/ Holds(v, r)
        PROVE  /\ status[UploadOf[r]] = "pending" /\ UploadOf[r] = Head(list[v])
               /\ UploadOf[r] \in processing[v]
    <2>1. rows[r] = 0 /\ UploadOf[r] = Head(list[v]) /\ IssuerOf[UploadOf[r]] \notin NoAccount
      BY <1>1 DEF IInv, RowInv
    <2>2. list[v] \in Seq(Uploads) /\ list[v] # <<>>
      BY <1>1 DEF IInv, TypeInv, PlaceInv, Listed
    <2>3. UploadOf[r] \in SetOf(list[v]) /\ UploadOf[r] \in Uploads
      BY <2>1, <2>2, Lists
    <2>4. status[UploadOf[r]] \in Statuses /\ status[UploadOf[r]] # "absent"
      BY <2>3 DEF IInv, TypeInv, PlaceInv
    <2>5. r \in RowsOf(UploadOf[r])
      BY DEF RowsOf
    <2>6. status[UploadOf[r]] = "pending"
      BY <2>1, <2>3, <2>4, <2>5 DEF IInv, ResultInv, Statuses
    <2> QED
      BY <1>1, <2>1, <2>3, <2>6 DEF IInv, ClaimInv, Listed
  <1>2. ASSUME NEW v \in Workers, v # w PROVE r \notin left[v] /\ ~Holds(v, r)
    <2>1. ASSUME r \in left[v] \/ Holds(v, r) PROVE FALSE
      <3>1. pc[v] \in {"rows", "commit"}
        BY <2>1 DEF IInv, PlaceInv, Holds
      <3>2. UploadOf[r] \in processing[v] /\ UploadOf[r] \in processing[w]
        BY <1>1, <2>1, <3>1
      <3> QED
        BY <1>2, <3>2 DEF IInv, ClaimInv, OneWorker
    <2> QED
      BY <2>1
  <1> QED
    BY <1>1, <1>2

-----------------------------------------------------------------------------
(* Types.                                                                  *)

LEMMA TypeNext ==
    ASSUME BatchRegisterAssumption, TypeInv, PlaceInv, [Next]_vars
    PROVE  TypeInv'
  <1>1. ASSUME NEW u \in Uploads, Initiate(u) PROVE TypeInv'
    BY <1>1 DEF Initiate, TypeInv, work, Statuses
  <1>2. ASSUME NEW w \in Workers, GetFirst(w) PROVE TypeInv'
    <2>1. PICK S \in SUBSET Uploads : \E s \in InOrder(S) : list' = [list EXCEPT ![w] = s]
      BY <1>2 DEF GetFirst, Candidates, Preferred
    <2>2. list' \in [Workers -> Seq(Uploads)]
      BY <2>1, Ordered DEF TypeInv
    <2>3. \A v \in Workers : pc'[v] = "commit" => pc[v] = "commit"
      BY <1>2 DEF GetFirst, TypeInv
    <2> QED
      BY <1>2, <2>2, <2>3 DEF GetFirst, TypeInv, db, Places
  <1>3. ASSUME NEW w \in Workers, GetRest(w) PROVE TypeInv'
    <2>1. PICK all : /\ \/ all = <<>>
                        \/ \E t \in Others(Head(list[w])) : all = list[w] \o t
                     /\ list' = [list EXCEPT ![w] = all]
                     /\ processing' = [processing EXCEPT ![w] = SetOf(all)]
                     /\ pc' = [pc EXCEPT ![w] = IF all = <<>> THEN "idle" ELSE "next"]
      BY <1>3 DEF GetRest
    <2>2. all \in Seq(Uploads)
      <3>1. CASE all = <<>>
        BY <3>1
      <3>2. ASSUME NEW t \in Others(Head(list[w])), all = list[w] \o t PROVE all \in Seq(Uploads)
        <4>1. t \in Seq(Uploads) /\ list[w] \in Seq(Uploads)
          BY OthersListed DEF TypeInv
        <4> QED
          BY <3>2, <4>1, Joined
      <3> QED
        BY <2>1, <3>1, <3>2
    <2>3. SetOf(all) \in SUBSET Uploads
      BY <2>2, Lists
    <2>4. \A v \in Workers : pc'[v] = "commit" => pc[v] = "commit"
      BY <2>1 DEF TypeInv
    <2> QED
      BY <1>3, <2>1, <2>2, <2>3, <2>4 DEF GetRest, TypeInv, db, Places
  <1>4. ASSUME NEW w \in Workers, pc[w] \in {"next", "rows"}, NEW result \in {"done", "failed"},
               FinishUpload(w, Head(list[w]), result)
        PROVE  TypeInv'
    <2>1. Tail(list[w]) \in Seq(Uploads) /\ Head(list[w]) \in Uploads
      BY <1>4, Lists DEF TypeInv, PlaceInv, Listed
    <2>2. list' \in [Workers -> Seq(Uploads)]
      BY <1>4, <2>1 DEF FinishUpload, TypeInv
    <2>3. notices' \in [Uploads -> Nat] /\ status' \in [Uploads -> Statuses]
      BY <1>4, <2>1 DEF FinishUpload, TypeInv, Statuses
    <2>4. processing' \in [Workers -> SUBSET Uploads] /\ pc' \in [Workers -> Places]
      BY <1>4 DEF FinishUpload, TypeInv, Places
    <2>5. \A v \in Workers : pc'[v] = "commit" => pc[v] = "commit"
      BY <1>4 DEF FinishUpload, TypeInv
    <2> QED
      BY <1>4, <2>2, <2>3, <2>4, <2>5 DEF FinishUpload, TypeInv
  <1>5. ASSUME NEW w \in Workers, GetRegistrationData(w) PROVE TypeInv'
    BY <1>5 DEF GetRegistrationData, TypeInv, db, RowsOf, Places
  <1>6. ASSUME NEW w \in Workers, NEW r \in left[w], NEW result \in {1, 2}, Result(w, r, result),
               registered' \in [Rows -> Nat], faults' \in Nat, UNCHANGED <<db, processing, lock, list, lost>>
        PROVE  TypeInv'
    <2>1. r \in Rows
      BY DEF TypeInv
    <2>2. /\ left' \in [Workers -> SUBSET Rows] /\ pc' \in [Workers -> Places] /\ DOMAIN sent' = Workers
      BY <1>6 DEF Result, TypeInv, Places
    <2>3. ASSUME NEW v \in Workers, pc'[v] = "commit" PROVE sent'[v] \in [row : Rows, result : {1, 2}]
      BY <1>6, <2>1, <2>3 DEF Result, TypeInv
    <2> QED
      BY <1>6, <2>2, <2>3 DEF TypeInv, db
  <1>7. ASSUME NEW w \in Workers, RegisterInfo(w) PROVE TypeInv'
    <2>1. PICK r \in left[w], result \in {1, 2} :
             /\ Result(w, r, result)
             /\ registered' = registered \/ registered' = [registered EXCEPT ![r] = @ + 1]
             /\ faults' = faults \/ faults' = faults + 1
      BY <1>7 DEF RegisterInfo, Fault
    <2>2. r \in Rows /\ registered \in [Rows -> Nat] /\ faults \in Nat
      BY DEF TypeInv
    <2>3. registered' \in [Rows -> Nat]
      BY <2>1, <2>2
    <2>4. faults' \in Nat
      BY <2>1, <2>2
    <2> QED
      BY <1>6, <1>7, <2>1, <2>3, <2>4 DEF RegisterInfo
  <1>8. ASSUME NEW w \in Workers, NoContract(w) PROVE TypeInv'
    BY <1>6, <1>8 DEF NoContract, TypeInv
  <1>9. ASSUME NEW w \in Workers, WorkerEnds(w) PROVE TypeInv'
    BY <1>9 DEF WorkerEnds, TypeInv, db, Places
  <1>10. ASSUME NEW w \in Workers, SinkOnFinishRegisterProcess(w) PROVE TypeInv'
    <2>1. sent[w] \in [row : Rows, result : {1, 2}]
      BY <1>10 DEF SinkOnFinishRegisterProcess, TypeInv
    <2>2. rows' \in [Rows -> 0..2]
      BY <1>10, <2>1 DEF SinkOnFinishRegisterProcess, TypeInv
    <2> QED
      BY <1>10, <2>2 DEF SinkOnFinishRegisterProcess, TypeInv, Places
  <1>11. ASSUME NEW w \in Workers, Abort(w) PROVE TypeInv'
    <2>1. lost' \in [Rows -> Nat] /\ faults' \in Nat
      <3>1. lost' = Lost({w}) /\ {w} \in SUBSET Workers /\ faults' = faults + 1
        BY <1>11 DEF Abort, Fault
      <3>2. Lost({w}) \in [Rows -> Nat]
        BY <3>1, Losses
      <3>3. lost' \in [Rows -> Nat]
        BY <3>1, <3>2
      <3>4. faults' \in Nat
        BY <3>1 DEF TypeInv
      <3> QED
        BY <3>3, <3>4
    <2>2. list' \in [Workers -> Seq(Uploads)] /\ pc' \in [Workers -> Places] /\ DOMAIN sent' = Workers
      BY <1>11 DEF Abort, TypeInv, Places
    <2>3. ASSUME NEW v \in Workers, pc'[v] = "commit" PROVE sent'[v] \in [row : Rows, result : {1, 2}]
      <3>1. v # w /\ pc[v] = "commit" /\ sent'[v] = sent[v]
        BY <1>11, <2>3 DEF Abort, TypeInv
      <3> QED
        BY <3>1 DEF TypeInv
    <2> QED
      BY <1>11, <2>1, <2>2, <2>3 DEF Abort, TypeInv, db
  <1>12. ASSUME Restart PROVE TypeInv'
    <2>1. lost' \in [Rows -> Nat]
      BY <1>12, Losses DEF Restart
    <2>2. list' \in [Workers -> Seq(Uploads)]
      BY <1>12 DEF Restart, NoLists
    <2> QED
      BY <1>12, <2>1, <2>2 DEF Restart, Fault, TypeInv, db, Places, NoClaims, AllIdle, NoneSent
  <1>13. ASSUME UNCHANGED vars PROVE TypeInv'
    BY <1>13 DEF vars, db, work, TypeInv
  <1> QED
    BY <1>1, <1>2, <1>3, <1>4, <1>5, <1>7, <1>8, <1>9, <1>10, <1>11, <1>12, <1>13
       DEF Next, Work, IssuerMissing, Finish, InitiateBondTokenBatchPersonalInfoRegistration,
           InitiateShareTokenBatchPersonalInfoRegistration

-----------------------------------------------------------------------------
(* Places and claims.                                                      *)

\* A worker that reads lists gets candidates first, then others of the same issuer.
LEMMA FirstListed ==
    ASSUME BatchRegisterAssumption, TypeInv, NEW w \in Workers, GetFirst(w)
    PROVE  /\ SetOf(list'[w]) \subseteq Candidates
           /\ \A v \in Workers : v # w => list'[v] = list[v]
  <1>1. PICK S \in SUBSET Candidates : \E s \in InOrder(S) : list' = [list EXCEPT ![w] = s]
    BY DEF GetFirst, Preferred
  <1>2. PICK s \in InOrder(S) : list' = [list EXCEPT ![w] = s]
    BY <1>1
  <1>3. S \subseteq Uploads
    BY <1>1 DEF Candidates
  <1>4. SetOf(s) \subseteq S
    BY <1>2, <1>3, Ordered
  <1>5. list'[w] = s /\ \A v \in Workers : v # w => list'[v] = list[v]
    BY <1>2 DEF TypeInv
  <1> QED
    BY <1>1, <1>4, <1>5

LEMMA RestListed ==
    ASSUME BatchRegisterAssumption, TypeInv, NEW w \in Workers, GetRest(w)
    PROVE  /\ processing'[w] = SetOf(list'[w])
           /\ SetOf(list'[w]) \subseteq SetOf(list[w]) \cup Candidates
           /\ pc'[w] = IF list'[w] = <<>> THEN "idle" ELSE "next"
           /\ \A v \in Workers : v # w => /\ list'[v] = list[v] /\ pc'[v] = pc[v]
                                          /\ processing'[v] = processing[v]
  <1>1. PICK all : /\ \/ all = <<>>
                      \/ \E t \in Others(Head(list[w])) : all = list[w] \o t
                   /\ list' = [list EXCEPT ![w] = all]
                   /\ processing' = [processing EXCEPT ![w] = SetOf(all)]
                   /\ pc' = [pc EXCEPT ![w] = IF all = <<>> THEN "idle" ELSE "next"]
    BY DEF GetRest
  <1>2. SetOf(all) \subseteq SetOf(list[w]) \cup Candidates
    <2>1. CASE all = <<>>
      BY <2>1 DEF SetOf
    <2>2. ASSUME NEW t \in Others(Head(list[w])), all = list[w] \o t
          PROVE  SetOf(all) \subseteq SetOf(list[w]) \cup Candidates
      <3>1. t \in Seq(Uploads) /\ list[w] \in Seq(Uploads) /\ SetOf(t) \subseteq Candidates
        BY OthersListed DEF TypeInv
      <3>2. SetOf(all) \subseteq SetOf(list[w]) \cup SetOf(t)
        BY <2>2, <3>1, Joined
      <3> QED
        BY <3>1, <3>2
    <2> QED
      BY <1>1, <2>1, <2>2
  <1> QED
    BY <1>1, <1>2 DEF TypeInv

\* An upload that is settled leaves the list and the claims of its worker.
LEMMA Finishing ==
    ASSUME TypeInv, PlaceInv, NEW w \in Workers, pc[w] \in {"next", "rows"}, NEW result,
           FinishUpload(w, Head(list[w]), result)
    PROVE  /\ Head(list[w]) \in SetOf(list[w]) /\ Head(list[w]) \in Uploads
           /\ list'[w] = Tail(list[w]) /\ SetOf(Tail(list[w])) \subseteq SetOf(list[w])
           /\ pc'[w] \in {"idle", "next"} /\ (pc'[w] = "next" => list'[w] # <<>>)
           /\ processing'[w] = processing[w] \ {Head(list[w])}
           /\ status'[Head(list[w])] = result
           /\ \A u \in Uploads : u # Head(list[w]) => status'[u] = status[u] /\ notices'[u] = notices[u]
           /\ \A v \in Workers : v # w => /\ list'[v] = list[v] /\ pc'[v] = pc[v]
                                          /\ processing'[v] = processing[v]
  <1>1. list[w] \in Seq(Uploads) /\ list[w] # <<>>
    BY DEF TypeInv, PlaceInv, Listed
  <1>2. /\ Head(list[w]) \in SetOf(list[w]) /\ Head(list[w]) \in Uploads
        /\ SetOf(Tail(list[w])) \subseteq SetOf(list[w])
        /\ Len(list[w]) # 1 => Tail(list[w]) # <<>>
    BY <1>1, Lists
  <1>3. /\ list'[w] = Tail(list[w])
        /\ pc'[w] = IF Len(list[w]) = 1 THEN "idle" ELSE "next"
        /\ processing'[w] = processing[w] \ {Head(list[w])}
        /\ \A v \in Workers : v # w => /\ list'[v] = list[v] /\ pc'[v] = pc[v]
                                       /\ processing'[v] = processing[v]
    BY DEF FinishUpload, TypeInv
  <1>4. /\ status'[Head(list[w])] = result
        /\ \A u \in Uploads : u # Head(list[w]) => status'[u] = status[u] /\ notices'[u] = notices[u]
    BY <1>2 DEF FinishUpload, TypeInv
  <1> QED
    BY <1>2, <1>3, <1>4

\* What the steps that do not touch lists and claims do to places.
Moved(w, to) ==
    /\ pc' = [pc EXCEPT ![w] = to]
    /\ UNCHANGED <<status, processing, lock, list>>

LEMMA Moves ==
    ASSUME TypeInv, NEW w \in Workers
    PROVE  /\ GetRegistrationData(w) => pc[w] = "next" /\ Moved(w, "rows")
           /\ RegisterInfo(w) \/ NoContract(w) => pc[w] = "rows" /\ Moved(w, "commit")
           /\ WorkerEnds(w) => pc[w] = "rows" /\ Moved(w, "ended")
           /\ SinkOnFinishRegisterProcess(w) => pc[w] = "commit" /\ Moved(w, "rows")
  BY DEF GetRegistrationData, RegisterInfo, NoContract, WorkerEnds, SinkOnFinishRegisterProcess,
         Result, Moved, db

\* What becomes of the rows a worker has read.
LEMMA Reads ==
    ASSUME TypeInv, NEW w \in Workers
    PROVE  /\ WorkerEnds(w) => left'[w] = {}
           /\ Moved(w, "commit") /\ (RegisterInfo(w) \/ NoContract(w)) => left'[w] \subseteq left[w]
           /\ SinkOnFinishRegisterProcess(w) => left' = left
           /\ GetRegistrationData(w) \/ RegisterInfo(w) \/ NoContract(w) \/ WorkerEnds(w)
                 => \A v \in Workers : v # w => left'[v] = left[v]
  BY DEF GetRegistrationData, RegisterInfo, NoContract, WorkerEnds, SinkOnFinishRegisterProcess,
         Result, TypeInv

LEMMA PlaceNext ==
    ASSUME BatchRegisterAssumption, IInv, [Next]_vars
    PROVE  PlaceInv'
  <1> USE DEF IInv
  <1>1. ASSUME NEW u \in Uploads, Initiate(u) PROVE PlaceInv'
    BY <1>1 DEF Initiate, PlaceInv, TypeInv, work, Statuses
  <1>2. ASSUME NEW w \in Workers, GetFirst(w) PROVE PlaceInv'
    <2>1. SetOf(list'[w]) \subseteq Candidates /\ \A v \in Workers : v # w => list'[v] = list[v]
      BY <1>2, FirstListed
    <2>2. \A u \in SetOf(list'[w]) : status'[u] # "absent"
      BY <1>2, <2>1 DEF Candidates, GetFirst, db
    <2>3. /\ pc[w] = "idle" /\ lock = NoWorker /\ lock' = w /\ pc' = [pc EXCEPT ![w] = "get"]
          /\ UNCHANGED <<status, left>>
      BY <1>2 DEF GetFirst, db
    <2>4. \A v \in Workers : v # w => pc[v] # "get" /\ pc'[v] = pc[v]
      BY <2>3 DEF PlaceInv, TypeInv, BatchRegisterAssumption
    <2>5. pc'[w] = "get" /\ left[w] = {}
      BY <2>3 DEF PlaceInv, TypeInv
    <2> QED
      BY <2>1, <2>2, <2>3, <2>4, <2>5 DEF PlaceInv, Listed
  <1>3. ASSUME NEW w \in Workers, GetRest(w) PROVE PlaceInv'
    <2>1. /\ SetOf(list'[w]) \subseteq SetOf(list[w]) \cup Candidates
          /\ pc'[w] = IF list'[w] = <<>> THEN "idle" ELSE "next"
          /\ \A v \in Workers : v # w => list'[v] = list[v] /\ pc'[v] = pc[v]
      BY <1>3, RestListed
    <2>2. \A u \in SetOf(list'[w]) : status'[u] # "absent"
      BY <1>3, <2>1 DEF Candidates, GetRest, PlaceInv, db
    <2>3. lock = w /\ lock' = NoWorker /\ left' = left /\ status' = status /\ pc[w] = "get"
      BY <1>3 DEF GetRest, PlaceInv, db
    <2> QED
      BY <2>1, <2>2, <2>3 DEF PlaceInv, BatchRegisterAssumption, Listed
  <1>4. ASSUME NEW w \in Workers, pc[w] \in {"next", "rows"}, NEW result \in {"done", "failed"},
               left[w] = {}, FinishUpload(w, Head(list[w]), result)
        PROVE  PlaceInv'
    <2>1. /\ Head(list[w]) \in SetOf(list[w]) /\ Head(list[w]) \in Uploads
          /\ list'[w] = Tail(list[w]) /\ SetOf(Tail(list[w])) \subseteq SetOf(list[w])
          /\ pc'[w] \in {"idle", "next"} /\ (pc'[w] = "next" => list'[w] # <<>>)
          /\ status'[Head(list[w])] = result
          /\ \A u \in Uploads : u # Head(list[w]) => status'[u] = status[u]
          /\ \A v \in Workers : v # w => list'[v] = list[v] /\ pc'[v] = pc[v]
      BY <1>4, Finishing
    <2>2. lock' = lock /\ left' = left
      BY <1>4 DEF FinishUpload
    <2>3. \A v \in Workers : SetOf(list[v]) \subseteq Uploads
      BY Lists DEF TypeInv
    <2>4. ASSUME NEW v \in Workers, NEW u \in SetOf(list'[v]) PROVE status'[u] # "absent"
      <3>1. u \in SetOf(list[v]) /\ u \in Uploads
        BY <2>1, <2>3
      <3> QED
        BY <2>1, <3>1 DEF PlaceInv
    <2>5. ASSUME NEW v \in Workers
          PROVE  /\ (pc'[v] = "get") = (lock' = v)
                 /\ pc'[v] \in Listed => list'[v] # <<>>
                 /\ pc'[v] \notin {"rows", "commit"} => left'[v] = {}
      <3>1. CASE v = w
        BY <1>4, <2>1, <2>2, <3>1 DEF PlaceInv, Listed
      <3>2. CASE v # w
        BY <2>1, <2>2, <3>2 DEF PlaceInv
      <3> QED
        BY <3>1, <3>2
    <2> QED
      BY <2>4, <2>5 DEF PlaceInv
  <1>5. ASSUME NEW w \in Workers, GetRegistrationData(w) \/ RegisterInfo(w) \/ NoContract(w)
                                    \/ WorkerEnds(w) \/ SinkOnFinishRegisterProcess(w)
        PROVE  PlaceInv'
    <2>1. PICK to \in {"rows", "commit", "ended"} :
             /\ Moved(w, to) /\ pc[w] \in {"next", "rows", "commit"}
             /\ to = "ended" => left'[w] = {}
             /\ \A v \in Workers : v # w => left'[v] = left[v]
      BY <1>5, Moves, Reads
    <2> QED
      BY <2>1 DEF Moved, PlaceInv, TypeInv, Listed
  <1>6. ASSUME NEW w \in Workers, Abort(w) PROVE PlaceInv'
    <2>1. /\ list'[w] = <<>> /\ left'[w] = {} /\ pc'[w] = "idle" /\ pc[w] # "get"
          /\ \A v \in Workers : v # w => list'[v] = list[v] /\ left'[v] = left[v] /\ pc'[v] = pc[v]
          /\ lock' = lock /\ status' = status
      BY <1>6 DEF Abort, TypeInv, db
    <2>2. SetOf(<<>>) = {}
      BY DEF SetOf
    <2> QED
      BY <2>1, <2>2 DEF PlaceInv, Listed
  <1>7. ASSUME Restart PROVE PlaceInv'
    <2>1. SetOf(<<>>) = {}
      BY DEF SetOf
    <2> QED
      BY <1>7, <2>1 DEF Restart, PlaceInv, AllIdle, NoLists, NoClaims, BatchRegisterAssumption, Listed
  <1>8. ASSUME UNCHANGED vars PROVE PlaceInv'
    BY <1>8 DEF vars, db, work, PlaceInv
  <1>9. ASSUME NEW w \in Workers, IssuerMissing(w) \/ Finish(w) PROVE PlaceInv'
    BY <1>4, <1>9 DEF IssuerMissing, Finish, PlaceInv
  <1> QED
    BY <1>1, <1>2, <1>3, <1>5, <1>6, <1>7, <1>8, <1>9
       DEF Next, Work, InitiateBondTokenBatchPersonalInfoRegistration,
           InitiateShareTokenBatchPersonalInfoRegistration

LEMMA ClaimNext ==
    ASSUME BatchRegisterAssumption, IInv, [Next]_vars
    PROVE  ClaimInv'
  <1> USE DEF IInv
  <1>1. ASSUME NEW u \in Uploads, Initiate(u) PROVE ClaimInv'
    <2>1. /\ \A v \in Workers : pc'[v] = pc[v] /\ list'[v] = list[v] /\ processing'[v] = processing[v]
          /\ \A x : x # u => status'[x] = status[x]
          /\ \A v \in Workers : u \notin SetOf(list[v])
      BY <1>1 DEF Initiate, work, TypeInv, PlaceInv
    <2> QED
      BY <2>1 DEF ClaimInv, OneWorker
  <1>2. ASSUME NEW w \in Workers, GetFirst(w) PROVE ClaimInv'
    <2>1. SetOf(list'[w]) \subseteq Candidates /\ \A v \in Workers : v # w => list'[v] = list[v]
      BY <1>2, FirstListed
    <2>2. \A v \in Workers : SetOf(list'[w]) \cap processing[v] = {}
      BY <2>1 DEF Candidates, Locked
    <2>3. /\ processing' = processing /\ status' = status /\ pc'[w] = "get"
          /\ \A v \in Workers : v # w => pc'[v] = pc[v]
      BY <1>2 DEF GetFirst, db, TypeInv
    <2> QED
      BY <2>1, <2>2, <2>3 DEF ClaimInv, OneWorker, Listed
  <1>3. ASSUME NEW w \in Workers, GetRest(w) PROVE ClaimInv'
    <2>1. /\ processing'[w] = SetOf(list'[w])
          /\ SetOf(list'[w]) \subseteq SetOf(list[w]) \cup Candidates
          /\ pc'[w] = IF list'[w] = <<>> THEN "idle" ELSE "next"
          /\ \A v \in Workers : v # w => /\ list'[v] = list[v] /\ pc'[v] = pc[v]
                                         /\ processing'[v] = processing[v]
      BY <1>3, RestListed
    <2>2. pc[w] = "get" /\ status' = status
      BY <1>3 DEF GetRest, db
    <2>3. ASSUME NEW v \in Workers, v # w PROVE processing'[w] \cap processing[v] = {}
      BY <2>1, <2>2, <2>3 DEF ClaimInv, Candidates, Locked
    <2>4. ASSUME NEW v \in Workers, v # w PROVE pc[v] # "get"
      BY <2>2, <2>4 DEF PlaceInv
    <2> QED
      BY <2>1, <2>2, <2>3, <2>4 DEF ClaimInv, OneWorker, Listed
  <1>4. ASSUME NEW w \in Workers, pc[w] \in {"next", "rows"}, NEW result \in {"done", "failed"},
               FinishUpload(w, Head(list[w]), result)
        PROVE  ClaimInv'
    <2>1. /\ Head(list[w]) \in SetOf(list[w]) /\ Head(list[w]) \in Uploads
          /\ list'[w] = Tail(list[w]) /\ SetOf(Tail(list[w])) \subseteq SetOf(list[w])
          /\ pc'[w] \in {"idle", "next"}
          /\ processing'[w] = processing[w] \ {Head(list[w])}
          /\ status'[Head(list[w])] = result
          /\ \A u \in Uploads : u # Head(list[w]) => status'[u] = status[u]
          /\ \A v \in Workers : v # w => /\ list'[v] = list[v] /\ pc'[v] = pc[v]
                                         /\ processing'[v] = processing[v]
      BY <1>4, Finishing
    <2>2. \A v \in Workers : SetOf(list[v]) \subseteq Uploads
      BY Lists DEF TypeInv
    <2>3. \A v \in Workers : processing'[v] \subseteq processing[v]
      BY <2>1
    <2>4. ASSUME NEW v \in Workers, pc'[v] \in Listed, NEW u \in SetOf(list'[v]), status'[u] = "pending"
          PROVE  u \in processing'[v]
      <3>1. u \in SetOf(list[v]) /\ u \in Uploads /\ u # Head(list[w]) /\ pc[v] \in Listed
        BY <1>4, <2>1, <2>2, <2>4 DEF Listed
      <3>2. u \in processing[v]
        BY <2>1, <2>4, <3>1 DEF ClaimInv
      <3> QED
        BY <2>1, <3>1, <3>2
    <2>5. ASSUME NEW v \in Workers, NEW x \in Workers, v # x, pc'[x] = "get"
          PROVE  SetOf(list'[x]) \cap processing'[v] = {}
      <3>1. x # w /\ list'[x] = list[x] /\ pc[x] = "get"
        BY <2>1, <2>5
      <3> QED
        BY <2>3, <2>5, <3>1 DEF ClaimInv
    <2>6. OneWorker'
      BY <2>3 DEF ClaimInv, OneWorker
    <2> QED
      BY <2>4, <2>5, <2>6 DEF ClaimInv
  <1>5. ASSUME NEW w \in Workers, GetRegistrationData(w) \/ RegisterInfo(w) \/ NoContract(w)
                                    \/ WorkerEnds(w) \/ SinkOnFinishRegisterProcess(w)
        PROVE  ClaimInv'
    <2>1. PICK to \in {"rows", "commit", "ended"} :
             Moved(w, to) /\ pc[w] \in {"next", "rows", "commit"}
      BY <1>5, Moves
    <2> QED
      BY <2>1 DEF Moved, ClaimInv, OneWorker, TypeInv, Listed
  <1>6. ASSUME NEW w \in Workers, Abort(w) PROVE ClaimInv'
    <2>1. /\ pc'[w] = "idle" /\ processing' = processing /\ status' = status
          /\ \A v \in Workers : v # w => list'[v] = list[v] /\ pc'[v] = pc[v]
      BY <1>6 DEF Abort, TypeInv, db
    <2> QED
      BY <2>1 DEF ClaimInv, OneWorker, Listed
  <1>7. ASSUME Restart PROVE ClaimInv'
    BY <1>7 DEF Restart, ClaimInv, OneWorker, AllIdle, NoClaims, Listed
  <1>8. ASSUME UNCHANGED vars PROVE ClaimInv'
    BY <1>8 DEF vars, db, work, ClaimInv, OneWorker
  <1>9. ASSUME NEW w \in Workers, IssuerMissing(w) \/ Finish(w) PROVE ClaimInv'
    BY <1>4, <1>9 DEF IssuerMissing, Finish
  <1> QED
    BY <1>1, <1>2, <1>3, <1>5, <1>6, <1>7, <1>8, <1>9
       DEF Next, Work, InitiateBondTokenBatchPersonalInfoRegistration,
           InitiateShareTokenBatchPersonalInfoRegistration

-----------------------------------------------------------------------------
(* Rows, results and losses.                                               *)

\* A worker takes one of the rows it has read, with a result; a registration may have
\* been made although it says that there was none.
LEMMA Taking ==
    ASSUME BatchRegisterAssumption, IInv, NEW w \in Workers, RegisterInfo(w) \/ NoContract(w)
    PROVE  \E r \in left[w], result \in {1, 2} :
              /\ pc[w] = "rows" /\ r \in Rows
              /\ left'[w] = left[w] \ {r} /\ sent'[w] = [row |-> r, result |-> result]
              /\ pc'[w] = "commit"
              /\ \A v \in Workers : v # w => left'[v] = left[v] /\ sent'[v] = sent[v] /\ pc'[v] = pc[v]
              /\ \/ registered' = registered /\ result = 2
                 \/ registered' = [registered EXCEPT ![r] = @ + 1]
              /\ UNCHANGED <<db, list, lost>>
  <1>1. PICK r \in left[w], result \in {1, 2} :
           /\ Result(w, r, result) /\ pc[w] = "rows"
           /\ \/ registered' = registered /\ result = 2
              \/ registered' = [registered EXCEPT ![r] = @ + 1]
           /\ UNCHANGED <<db, list, lost>>
    BY DEF RegisterInfo, NoContract
  <1>2. r \in Rows
    BY DEF IInv, TypeInv
  <1> QED
    BY <1>1, <1>2 DEF Result, IInv, TypeInv

\* The result of the row that a worker holds is recorded.
LEMMA Recording ==
    ASSUME BatchRegisterAssumption, IInv, NEW w \in Workers, SinkOnFinishRegisterProcess(w)
    PROVE  LET r == sent[w].row
           IN  /\ pc[w] = "commit" /\ r \in Rows /\ rows[r] = 0 /\ sent[w].result \in {1, 2}
               /\ UploadOf[r] = Head(list[w]) /\ status[UploadOf[r]] = "pending"
               /\ \A v \in Workers : v # w => r \notin left[v] /\ ~Holds(v, r)
               /\ rows'[r] = sent[w].result /\ \A x \in Rows : x # r => rows'[x] = rows[x]
               /\ pc'[w] = "rows"
               /\ \A v \in Workers : v # w => sent'[v] = sent[v] /\ pc'[v] = pc[v]
               /\ UNCHANGED <<status, notices, registered, list, left, lost>>
  <1> DEFINE r == sent[w].row
  <1>1. pc[w] = "commit" /\ r \in Rows /\ sent[w].result \in {1, 2} /\ Holds(w, r)
    BY DEF SinkOnFinishRegisterProcess, IInv, TypeInv, Holds
  <1>2. /\ status[UploadOf[r]] = "pending" /\ UploadOf[r] = Head(list[w])
        /\ \A v \in Workers : v # w => r \notin left[v] /\ ~Holds(v, r)
    BY <1>1, Alone
  <1>3. rows[r] = 0
    BY <1>1 DEF IInv, RowInv
  <1>4. /\ rows'[r] = sent[w].result /\ \A x \in Rows : x # r => rows'[x] = rows[x]
        /\ pc'[w] = "rows"
        /\ \A v \in Workers : v # w => sent'[v] = sent[v] /\ pc'[v] = pc[v]
        /\ UNCHANGED <<status, notices, registered, list, left, lost>>
    BY <1>1 DEF SinkOnFinishRegisterProcess, IInv, TypeInv
  <1> QED
    BY <1>1, <1>2, <1>3, <1>4

\* What an upload that is finished has become of.
LEMMA Settling ==
    ASSUME BatchRegisterAssumption, IInv, NEW w \in Workers, IssuerMissing(w) \/ Finish(w)
    PROVE  LET u == Head(list[w])
           IN  /\ u \in Uploads /\ pc'[w] \in {"idle", "next"}
               /\ \A v \in Workers : v # w => pc'[v] = pc[v] /\ list'[v] = list[v]
               /\ \A x \in Uploads : x # u => status'[x] = status[x] /\ notices'[x] = notices[x]
               /\ UNCHANGED <<rows, registered, left, sent, lost>>
               /\ \/ /\ status'[u] = "failed" /\ notices'[u] = notices[u] + 1
                     /\ \/ IssuerOf[u] \in NoAccount
                        \/ /\ \A r \in RowsOf(u) : rows[r] # 0
                           /\ \E r \in RowsOf(u) : rows[r] = 2
                  \/ /\ status'[u] = "done" /\ notices'[u] = notices[u]
                     /\ IssuerOf[u] \notin NoAccount
                     /\ \A r \in RowsOf(u) : rows[r] = 1
  <1> DEFINE u == Head(list[w])
  <1>1. ASSUME Finish(w) PROVE IssuerOf[u] \notin NoAccount /\ \A r \in RowsOf(u) : rows[r] \in {1, 2}
    <2>1. pc[w] = "rows" /\ left[w] = {}
      BY <1>1 DEF Finish
    <2>2. \A r \in RowsOf(u) : r \in Rows /\ rows[r] \in 0..2
      BY DEF RowsOf, IInv, TypeInv
    <2>3. \A r \in RowsOf(u) : rows[r] # 0
      BY <2>1, <2>2 DEF IInv, RowInv, Holds
    <2> QED
      BY <2>1, <2>2, <2>3 DEF IInv, RowInv
  <1>2. PICK result \in {"done", "failed"} :
           /\ FinishUpload(w, u, result) /\ pc[w] \in {"next", "rows"}
           /\ result = "failed" => \/ IssuerOf[u] \in NoAccount
                                   \/ /\ \A r \in RowsOf(u) : rows[r] # 0
                                      /\ \E r \in RowsOf(u) : rows[r] = 2
           /\ result = "done" => /\ IssuerOf[u] \notin NoAccount
                                 /\ \A r \in RowsOf(u) : rows[r] = 1
    <2>1. CASE IssuerMissing(w)
      BY <2>1 DEF IssuerMissing
    <2>2. CASE Finish(w)
      BY <1>1, <2>2 DEF Finish
    <2> QED
      BY <2>1, <2>2
  <1>3. /\ u \in Uploads /\ pc'[w] \in {"idle", "next"} /\ status'[u] = result
        /\ \A v \in Workers : v # w => pc'[v] = pc[v] /\ list'[v] = list[v]
        /\ \A x \in Uploads : x # u => status'[x] = status[x] /\ notices'[x] = notices[x]
    <2>1. TypeInv /\ PlaceInv
      BY DEF IInv
    <2>2. FinishUpload(w, Head(list[w]), result) /\ pc[w] \in {"next", "rows"}
      BY <1>2
    <2> QED
      BY <2>1, <2>2, Finishing
  <1>4. /\ notices'[u] = notices[u] + (IF result = "failed" THEN 1 ELSE 0)
        /\ UNCHANGED <<rows, registered, left, sent, lost>>
    BY <1>2, <1>3 DEF FinishUpload, IInv, TypeInv
  <1>5. notices[u] \in Nat
    BY <1>3 DEF IInv, TypeInv
  <1> QED
    BY <1>2, <1>3, <1>4, <1>5

LEMMA RowNext ==
    ASSUME BatchRegisterAssumption, IInv, [Next]_vars
    PROVE  RowInv'
  <1>1. ASSUME NEW u \in Uploads, Initiate(u) PROVE RowInv'
    BY <1>1 DEF Initiate, work, IInv, RowInv, Holds
  <1>2. ASSUME NEW w \in Workers, GetFirst(w) \/ GetRest(w) PROVE RowInv'
    <2>1. /\ pc'[w] \in {"idle", "get", "next"}
          /\ \A v \in Workers : v # w => list'[v] = list[v] /\ pc'[v] = pc[v]
      <3>1. CASE GetFirst(w)
        BY <3>1, FirstListed DEF GetFirst, IInv, TypeInv
      <3>2. CASE GetRest(w)
        BY <3>2, RestListed DEF IInv
      <3> QED
        BY <1>2, <3>1, <3>2
    <2>2. rows' = rows /\ left' = left /\ sent' = sent
      BY <1>2 DEF GetFirst, GetRest, db
    <2> QED
      BY <2>1, <2>2 DEF IInv, RowInv, Holds
  <1>3. ASSUME NEW w \in Workers, IssuerMissing(w) \/ Finish(w) PROVE RowInv'
    BY <1>3, Settling DEF IInv, RowInv, Holds
  <1>4. ASSUME NEW w \in Workers, GetRegistrationData(w) PROVE RowInv'
    <2>1. /\ pc'[w] = "rows" /\ IssuerOf[Head(list[w])] \notin NoAccount
          /\ left'[w] = {r \in RowsOf(Head(list[w])) : rows[r] = 0}
          /\ \A v \in Workers : v # w => pc'[v] = pc[v] /\ left'[v] = left[v]
          /\ rows' = rows /\ list' = list /\ sent' = sent
      BY <1>4 DEF GetRegistrationData, db, IInv, TypeInv
    <2> QED
      BY <2>1 DEF IInv, RowInv, Holds, RowsOf
  <1>5. ASSUME NEW w \in Workers, RegisterInfo(w) \/ NoContract(w) PROVE RowInv'
    <2>1. PICK r \in left[w], result \in {1, 2} :
             /\ pc[w] = "rows" /\ r \in Rows
             /\ left'[w] = left[w] \ {r} /\ sent'[w] = [row |-> r, result |-> result]
             /\ pc'[w] = "commit"
             /\ \A v \in Workers : v # w => left'[v] = left[v] /\ sent'[v] = sent[v] /\ pc'[v] = pc[v]
             /\ UNCHANGED <<db, list, lost>>
      BY <1>5, Taking
    <2>2. \A x : Holds(w, x)' <=> x = r
      BY <2>1 DEF Holds
    <2>3. \A v \in Workers : v # w => \A x : Holds(v, x)' <=> Holds(v, x)
      BY <2>1 DEF Holds
    <2>4. rows' = rows /\ list' = list /\ \A x : ~Holds(w, x)
      BY <2>1 DEF db, Holds
    <2> QED
      BY <2>1, <2>2, <2>3, <2>4 DEF IInv, RowInv
  <1>6. ASSUME NEW w \in Workers, SinkOnFinishRegisterProcess(w) PROVE RowInv'
    <2> DEFINE r == sent[w].row
    <2>1. /\ pc[w] = "commit" /\ r \in Rows /\ rows[r] = 0 /\ sent[w].result \in {1, 2}
          /\ \A v \in Workers : v # w => r \notin left[v] /\ ~Holds(v, r)
          /\ rows'[r] = sent[w].result /\ \A x \in Rows : x # r => rows'[x] = rows[x]
          /\ pc'[w] = "rows"
          /\ \A v \in Workers : v # w => sent'[v] = sent[v] /\ pc'[v] = pc[v]
          /\ UNCHANGED <<status, notices, registered, list, left, lost>>
      BY <1>6, Recording
    <2>2. \A x : ~Holds(w, x)' /\ (Holds(w, x) <=> x = r)
      BY <2>1 DEF Holds
    <2>3. \A v \in Workers : v # w => \A x : Holds(v, x)' <=> Holds(v, x)
      BY <2>1 DEF Holds
    <2> HIDE DEF r
    <2>4. r \notin left[w]
      BY <2>1, <2>2 DEF IInv, RowInv
    <2> QED
      BY <2>1, <2>2, <2>3, <2>4 DEF IInv, RowInv, RowsOf
  <1>7. ASSUME NEW w \in Workers, WorkerEnds(w) \/ Abort(w) PROVE RowInv'
    <2>1. /\ pc'[w] \in {"ended", "idle"} /\ rows' = rows
          /\ \A v \in Workers : v # w => /\ list'[v] = list[v] /\ pc'[v] = pc[v]
                                         /\ left'[v] = left[v] /\ sent'[v] = sent[v]
      BY <1>7 DEF WorkerEnds, Abort, db, IInv, TypeInv
    <2> QED
      BY <2>1 DEF IInv, RowInv, Holds
  <1>8. ASSUME Restart PROVE RowInv'
    BY <1>8 DEF Restart, RowInv, AllIdle
  <1>9. ASSUME UNCHANGED vars PROVE RowInv'
    BY <1>9 DEF vars, db, work, IInv, RowInv, Holds
  <1> QED
    BY <1>1, <1>2, <1>3, <1>4, <1>5, <1>6, <1>7, <1>8, <1>9
       DEF Next, Work, InitiateBondTokenBatchPersonalInfoRegistration,
           InitiateShareTokenBatchPersonalInfoRegistration

LEMMA ResultNext ==
    ASSUME BatchRegisterAssumption, IInv, [Next]_vars
    PROVE  ResultInv'
  <1>1. ASSUME NEW u \in Uploads, Initiate(u) PROVE ResultInv'
    <2>1. /\ status[u] = "absent" /\ status'[u] = "pending"
          /\ \A x \in Uploads : x # u => status'[x] = status[x]
          /\ UNCHANGED <<rows, notices, registered, pc, sent>>
      BY <1>1 DEF Initiate, work, IInv, TypeInv
    <2> QED
      BY <2>1 DEF IInv, ResultInv
  <1>2. ASSUME NEW w \in Workers, IssuerMissing(w) \/ Finish(w) PROVE ResultInv'
    <2> DEFINE u == Head(list[w])
    <2>1. /\ u \in Uploads /\ pc'[w] # "commit"
          /\ \A v \in Workers : v # w => pc'[v] = pc[v]
          /\ \A x \in Uploads : x # u => status'[x] = status[x] /\ notices'[x] = notices[x]
          /\ UNCHANGED <<rows, registered, sent>>
      BY <1>2, Settling
    <2>2. \/ /\ status'[u] = "failed" /\ notices'[u] = notices[u] + 1
             /\ \/ IssuerOf[u] \in NoAccount
                \/ /\ \A r \in RowsOf(u) : rows[r] # 0
                   /\ \E r \in RowsOf(u) : rows[r] = 2
          \/ /\ status'[u] = "done" /\ notices'[u] = notices[u]
             /\ IssuerOf[u] \notin NoAccount
             /\ \A r \in RowsOf(u) : rows[r] = 1
      BY <1>2, Settling
    <2>3. notices[u] \in Nat /\ RowsOf(u) \subseteq Rows
      BY <2>1 DEF IInv, TypeInv, RowsOf
    <2>4. status'[u] = "done" => notices[u] = 0
      <3>1. status[u] = "failed" => \/ IssuerOf[u] \in NoAccount
                                    \/ \E r \in RowsOf(u) : rows[r] = 2
        BY <2>1 DEF IInv, ResultInv
      <3>2. status'[u] = "done" => status[u] # "failed"
        BY <2>2, <3>1
      <3> QED
        BY <2>1, <3>2 DEF IInv, ResultInv
    <2> HIDE DEF u
    <2>5. ASSUME NEW x \in Uploads
          PROVE  /\ status'[x] # "failed" => notices'[x] = 0
                 /\ status'[x] = "failed" => notices'[x] > 0
                 /\ status'[x] = "done" =>
                       IssuerOf[x] \notin NoAccount /\ \A r \in RowsOf(x) : rows'[r] = 1
                 /\ status'[x] = "failed" => \/ IssuerOf[x] \in NoAccount
                                             \/ /\ \A r \in RowsOf(x) : rows'[r] # 0
                                                /\ \E r \in RowsOf(x) : rows'[r] = 2
      <3>1. CASE x = u
        BY <2>1, <2>2, <2>3, <2>4, <3>1
      <3>2. CASE x # u
        BY <2>1, <3>2 DEF IInv, ResultInv
      <3> QED
        BY <3>1, <3>2
    <2>6. /\ \A v \in Workers : pc'[v] = "commit" /\ sent'[v].result = 1 => registered'[sent'[v].row] > 0
          /\ \A r \in Rows : rows'[r] = 1 => registered'[r] > 0
      BY <2>1 DEF IInv, ResultInv
    <2> QED
      BY <2>5, <2>6 DEF ResultInv
  <1>3. ASSUME NEW w \in Workers, RegisterInfo(w) \/ NoContract(w) PROVE ResultInv'
    <2>1. PICK r \in left[w], result \in {1, 2} :
             /\ pc[w] = "rows" /\ r \in Rows
             /\ left'[w] = left[w] \ {r} /\ sent'[w] = [row |-> r, result |-> result]
             /\ pc'[w] = "commit"
             /\ \A v \in Workers : v # w => left'[v] = left[v] /\ sent'[v] = sent[v] /\ pc'[v] = pc[v]
             /\ \/ registered' = registered /\ result = 2
                \/ registered' = [registered EXCEPT ![r] = @ + 1]
             /\ UNCHANGED <<db, list, lost>>
      BY <1>3, Taking, Zenon
    <2>2. /\ \A x \in Rows : registered[x] \in Nat /\ registered'[x] \in Nat /\ registered'[x] >= registered[x]
          /\ result = 1 => registered'[r] > 0
      <3>1. registered \in [Rows -> Nat] /\ r \in Rows
        BY <2>1 DEF IInv, TypeInv
      <3>2. CASE registered' = registered /\ result = 2
        BY <3>1, <3>2
      <3>3. CASE registered' = [registered EXCEPT ![r] = @ + 1]
        BY <3>1, <3>3
      <3> QED
        BY <2>1, <3>2, <3>3
    <2>3. \A v \in Workers : pc[v] = "commit" => sent[v].row \in Rows
      BY DEF IInv, TypeInv
    <2>4. ASSUME NEW v \in Workers, pc'[v] = "commit", sent'[v].result = 1
          PROVE  registered'[sent'[v].row] > 0
      <3>1. CASE v = w
        BY <2>1, <2>2, <2>4, <3>1
      <3>2. CASE v # w
        <4>1. registered[sent[v].row] > 0 /\ sent[v].row \in Rows /\ sent'[v] = sent[v]
          BY <2>1, <2>3, <2>4, <3>2 DEF IInv, ResultInv
        <4> QED
          BY <2>2, <4>1
      <3> QED
        BY <3>1, <3>2
    <2>5. \A x \in Rows : rows'[x] = 1 => registered'[x] > 0
      BY <2>1, <2>2 DEF db, IInv, ResultInv
    <2> QED
      BY <2>1, <2>4, <2>5 DEF db, IInv, ResultInv
  <1>4. ASSUME NEW w \in Workers, SinkOnFinishRegisterProcess(w) PROVE ResultInv'
    <2> DEFINE r == sent[w].row
    <2>1. /\ pc[w] = "commit" /\ r \in Rows /\ rows[r] = 0 /\ sent[w].result \in {1, 2}
          /\ status[UploadOf[r]] = "pending"
          /\ rows'[r] = sent[w].result /\ \A x \in Rows : x # r => rows'[x] = rows[x]
          /\ pc'[w] = "rows"
          /\ \A v \in Workers : v # w => sent'[v] = sent[v] /\ pc'[v] = pc[v]
          /\ UNCHANGED <<status, notices, registered, list, left, lost>>
      BY <1>4, Recording
    <2>2. rows'[r] = 1 => registered'[r] > 0
      BY <2>1 DEF IInv, ResultInv
    <2> HIDE DEF r
    <2>3. \A u \in Uploads : status[u] # "pending" => \A x \in RowsOf(u) : x \in Rows /\ rows'[x] = rows[x]
      BY <2>1 DEF RowsOf
    <2>4. \A v \in Workers : pc'[v] = "commit" /\ sent'[v].result = 1 => registered'[sent'[v].row] > 0
      BY <2>1 DEF IInv, ResultInv
    <2>5. \A x \in Rows : rows'[x] = 1 => registered'[x] > 0
      BY <2>1, <2>2 DEF IInv, ResultInv
    <2>6. ASSUME NEW u \in Uploads
          PROVE  /\ status'[u] # "failed" => notices'[u] = 0
                 /\ status'[u] = "failed" => notices'[u] > 0
                 /\ status'[u] = "done" =>
                       IssuerOf[u] \notin NoAccount /\ \A y \in RowsOf(u) : rows'[y] = 1
                 /\ status'[u] = "failed" => \/ IssuerOf[u] \in NoAccount
                                             \/ /\ \A y \in RowsOf(u) : rows'[y] # 0
                                                /\ \E y \in RowsOf(u) : rows'[y] = 2
      BY <2>1, <2>3 DEF IInv, ResultInv
    <2> QED
      BY <2>4, <2>5, <2>6 DEF ResultInv
  <1>5. ASSUME NEW w \in Workers, \/ GetFirst(w) \/ GetRest(w) \/ GetRegistrationData(w)
                                  \/ WorkerEnds(w) \/ Abort(w)
        PROVE  ResultInv'
    <2>1. /\ \A v \in Workers : pc'[v] = "commit" => pc[v] = "commit" /\ sent'[v] = sent[v]
          /\ UNCHANGED <<db, registered>>
      <3>1. CASE GetRest(w)
        <4>1. pc'[w] # "commit" /\ \A v \in Workers : v # w => pc'[v] = pc[v]
          BY <3>1, RestListed DEF IInv
        <4> QED
          BY <3>1, <4>1 DEF GetRest
      <3>2. CASE ~GetRest(w)
        BY <1>5, <3>2 DEF GetFirst, GetRegistrationData, WorkerEnds, Abort, IInv, TypeInv
      <3> QED
        BY <3>1, <3>2
    <2> QED
      BY <2>1 DEF db, IInv, ResultInv
  <1>6. ASSUME Restart PROVE ResultInv'
    BY <1>6 DEF Restart, AllIdle, db, IInv, ResultInv
  <1>7. ASSUME UNCHANGED vars PROVE ResultInv'
    BY <1>7 DEF vars, db, work, IInv, ResultInv
  <1> QED
    BY <1>1, <1>2, <1>3, <1>4, <1>5, <1>6, <1>7
       DEF Next, Work, InitiateBondTokenBatchPersonalInfoRegistration,
           InitiateShareTokenBatchPersonalInfoRegistration

LEMMA LossNext ==
    ASSUME BatchRegisterAssumption, IInv, [Next]_vars
    PROVE  LossInv'
  <1>0. \A r \in Rows : registered[r] \in Nat /\ lost[r] \in Nat
    BY DEF IInv, TypeInv
  <1>1. ASSUME NEW u \in Uploads, Initiate(u) PROVE LossInv'
    BY <1>1 DEF Initiate, work, IInv, LossInv, Holds
  <1>2. ASSUME NEW w \in Workers, RegisterInfo(w) \/ NoContract(w) PROVE LossInv'
    <2>1. PICK r \in left[w], result \in {1, 2} :
             /\ pc[w] = "rows" /\ r \in Rows
             /\ left'[w] = left[w] \ {r} /\ sent'[w] = [row |-> r, result |-> result]
             /\ pc'[w] = "commit"
             /\ \A v \in Workers : v # w => left'[v] = left[v] /\ sent'[v] = sent[v] /\ pc'[v] = pc[v]
             /\ \/ registered' = registered /\ result = 2
                \/ registered' = [registered EXCEPT ![r] = @ + 1]
             /\ UNCHANGED <<db, list, lost>>
      BY <1>2, Taking
    <2>2. /\ Holds(w, r)' /\ \A x \in Rows : x # r => ~Holds(w, x)'
          /\ \A v \in Workers : v # w => \A x \in Rows : Holds(v, x)' <=> Holds(v, x)
          /\ \A x \in Rows : ~Holds(w, x)
      BY <2>1 DEF Holds
    <2>3. rows[r] = 0 /\ \A v \in Workers : ~Holds(v, r)
      <3>1. \A v \in Workers : v # w => ~Holds(v, r)
        BY <2>1, Alone
      <3> QED
        BY <2>1, <2>2, <3>1 DEF IInv, RowInv
    <2>4. registered[r] <= lost[r]
      BY <2>1, <2>3 DEF IInv, LossInv
    <2>5. registered'[r] <= 1 + lost'[r] /\ \A x \in Rows : x # r => registered'[x] = registered[x]
      BY <1>0, <2>1, <2>4 DEF IInv, TypeInv
    <2>6. ASSUME NEW x \in Rows
          PROVE  /\ registered'[x] <= 1 + lost'[x]
                 /\ rows'[x] = 0 /\ (\A v \in Workers : ~Holds(v, x)') => registered'[x] <= lost'[x]
      <3>1. CASE x = r
        BY <2>2, <2>5, <3>1
      <3>2. CASE x # r
        BY <2>1, <2>2, <2>5, <3>2 DEF db, IInv, LossInv
      <3> QED
        BY <3>1, <3>2
    <2> QED
      BY <2>6 DEF LossInv
  <1>3. ASSUME NEW w \in Workers, SinkOnFinishRegisterProcess(w) PROVE LossInv'
    <2> DEFINE r == sent[w].row
    <2>1. /\ pc[w] = "commit" /\ r \in Rows /\ sent[w].result \in {1, 2}
          /\ rows'[r] = sent[w].result /\ \A x \in Rows : x # r => rows'[x] = rows[x]
          /\ pc'[w] = "rows"
          /\ \A v \in Workers : v # w => sent'[v] = sent[v] /\ pc'[v] = pc[v]
          /\ UNCHANGED <<registered, lost>>
      BY <1>3, Recording
    <2>2. \A x \in Rows : x # r => ~Holds(w, x)
      BY DEF Holds
    <2>3. \A v \in Workers : v # w => \A x \in Rows : Holds(v, x)' <=> Holds(v, x)
      BY <2>1 DEF Holds
    <2> HIDE DEF r
    <2>4. rows'[r] # 0
      BY <2>1
    <2> QED
      BY <2>1, <2>2, <2>3, <2>4 DEF IInv, LossInv
  <1>4. ASSUME NEW w \in Workers, \/ GetFirst(w) \/ GetRest(w) \/ GetRegistrationData(w)
                                  \/ WorkerEnds(w) \/ IssuerMissing(w) \/ Finish(w)
        PROVE  LossInv'
    <2>1. /\ pc[w] # "commit" /\ pc'[w] # "commit" /\ sent' = sent
          /\ \A v \in Workers : v # w => pc'[v] = pc[v]
          /\ UNCHANGED <<rows, registered, lost>>
      <3>1. CASE GetRest(w)
        BY <3>1, RestListed DEF GetRest, db, IInv
      <3>2. CASE IssuerMissing(w) \/ Finish(w)
        <4>1. pc[w] # "commit"
          BY <3>2 DEF IssuerMissing, Finish
        <4> QED
          BY <3>2, <4>1, Settling
      <3>3. CASE GetFirst(w) \/ GetRegistrationData(w) \/ WorkerEnds(w)
        BY <3>3 DEF GetFirst, GetRegistrationData, WorkerEnds, db, IInv, TypeInv
      <3> QED
        BY <1>4, <3>1, <3>2, <3>3
    <2> QED
      BY <2>1 DEF IInv, LossInv, Holds
  <1>5. ASSUME NEW W \in SUBSET Workers, lost' = Lost(W), UNCHANGED <<db, registered>>,
               \A v \in W : pc'[v] = "idle",
               \A v \in Workers \ W : pc'[v] = pc[v] /\ sent'[v] = sent[v]
        PROVE  LossInv'
    <2>1. /\ \A r \in Rows : lost'[r] \in Nat /\ lost'[r] >= lost[r]
          /\ \A r \in Rows, w \in W : sent[w].row = r => lost'[r] >= lost[r] + 1
      BY <1>5, Losses DEF IInv
    <2>2. ASSUME NEW r \in Rows, rows[r] = 0, \A w \in Workers : ~Holds(w, r)'
          PROVE  registered[r] <= lost'[r]
      <3>1. CASE \E w \in W : Holds(w, r)
        <4>1. lost'[r] >= lost[r] + 1
          BY <2>1, <3>1 DEF Holds
        <4> QED
          BY <1>0, <2>1, <4>1 DEF IInv, LossInv
      <3>2. CASE ~\E w \in W : Holds(w, r)
        <4>1. \A w \in Workers : ~Holds(w, r)
          BY <1>5, <2>2, <3>2 DEF Holds
        <4> QED
          BY <1>0, <2>1, <2>2, <4>1 DEF IInv, LossInv
      <3> QED
        BY <3>1, <3>2
    <2>3. \A r \in Rows : registered[r] <= 1 + lost'[r]
      BY <1>0, <2>1 DEF IInv, LossInv
    <2> QED
      BY <1>5, <2>2, <2>3 DEF LossInv, db
  <1>6. ASSUME NEW w \in Workers, Abort(w) PROVE LossInv'
    <2>1. /\ {w} \in SUBSET Workers /\ lost' = Lost({w}) /\ UNCHANGED <<db, registered>>
          /\ pc'[w] = "idle"
          /\ \A v \in Workers \ {w} : pc'[v] = pc[v] /\ sent'[v] = sent[v]
      BY <1>6 DEF Abort, IInv, TypeInv
    <2> QED
      BY <1>5, <2>1
  <1>7. ASSUME Restart PROVE LossInv'
    <2>1. /\ Workers \in SUBSET Workers /\ lost' = Lost(Workers) /\ UNCHANGED <<db, registered>>
          /\ \A v \in Workers : pc'[v] = "idle"
      BY <1>7 DEF Restart, AllIdle
    <2> QED
      BY <1>5, <2>1
  <1>8. ASSUME UNCHANGED vars PROVE LossInv'
    BY <1>8 DEF vars, db, work, IInv, LossInv, Holds
  <1> QED
    BY <1>1, <1>2, <1>3, <1>4, <1>6, <1>7, <1>8
       DEF Next, Work, InitiateBondTokenBatchPersonalInfoRegistration,
           InitiateShareTokenBatchPersonalInfoRegistration

-----------------------------------------------------------------------------
(* The specification.                                                      *)

LEMMA Initially ==
    ASSUME BatchRegisterAssumption, Init
    PROVE  IInv
  <1>1. TypeInv
    <2>1. list \in [Workers -> Seq(Uploads)] /\ sent = [w \in Workers |-> NothingSent]
      BY DEF Init, NoLists, NoneSent
    <2> QED
      BY <2>1 DEF Init, TypeInv, NoClaims, AllIdle, Statuses, Places
  <1>2. PlaceInv
    BY DEF Init, PlaceInv, AllIdle, NoLists, NoClaims, SetOf, Listed, BatchRegisterAssumption
  <1>3. ClaimInv
    BY DEF Init, ClaimInv, OneWorker, AllIdle, NoClaims, Listed
  <1>4. RowInv /\ ResultInv /\ LossInv
    BY DEF Init, RowInv, ResultInv, LossInv, AllIdle
  <1> QED
    BY <1>1, <1>2, <1>3, <1>4 DEF IInv

LEMMA Preserved ==
    ASSUME BatchRegisterAssumption, IInv, [Next]_vars
    PROVE  IInv'
  BY TypeNext, PlaceNext, ClaimNext, RowNext, ResultNext, LossNext DEF IInv

LEMMA Types ==
    ASSUME IInv
    PROVE  TypeOK
  <1>1. ASSUME NEW w \in Workers, pc[w] \in Listed
        PROVE  SetOf(list[w]) \ {u \in Uploads : status[u] # "pending"} \subseteq processing[w]
    <2>1. list[w] \in Seq(Uploads)
      BY DEF IInv, TypeInv
    <2>2. SetOf(list[w]) \subseteq Uploads
      BY <2>1, Lists
    <2> QED
      BY <1>1, <2>2 DEF IInv, ClaimInv
  <1>2. /\ \A u \in Uploads : status[u] \in {"absent", "pending", "done", "failed"}
        /\ \A r \in Rows : rows[r] \in 0..2
        /\ lock \in Workers \cup {NoWorker}
    BY DEF IInv, TypeInv, Statuses
  <1>3. \A w \in Workers : pc[w] \in {"idle", "get", "next", "rows", "commit", "ended"}
    BY DEF IInv, TypeInv, Places
  <1>4. \A w \in Workers : (pc[w] = "get") = (lock = w)
    BY DEF IInv, PlaceInv
  <1>5. \A w \in Workers : pc[w] \in {"next", "rows", "commit", "ended"} => list[w] # <<>>
    BY DEF IInv, PlaceInv, Listed
  <1>6. \A w \in Workers : pc[w] \in {"next", "rows", "commit", "ended"} =>
           SetOf(list[w]) \ {u \in Uploads : status[u] # "pending"} \subseteq processing[w]
    BY <1>1 DEF Listed
  <1> QED
    BY <1>2, <1>3, <1>4, <1>5, <1>6, SMT DEF TypeOK

LEMMA Apart ==
    ASSUME IInv
    PROVE  OneWorker
  BY DEF IInv, ClaimInv

LEMMA Truth ==
    ASSUME IInv
    PROVE  ReportIsTrue
  <1>1. \A u \in Uploads : RowsOf(u) \subseteq Rows
    BY DEF RowsOf
  <1> QED
    BY <1>1 DEF IInv, ResultInv, ReportIsTrue

LEMMA Bounded ==
    ASSUME IInv
    PROVE  RegisteredOnce
  BY DEF IInv, LossInv, RegisteredOnce

THEOREM Invariant == BatchRegisterAssumption => (Spec => []IInv)
  <1> SUFFICES ASSUME BatchRegisterAssumption PROVE Spec => []IInv
    OBVIOUS
  <1>1. Init => IInv
    BY Initially
  <1>2. IInv /\ [Next]_vars => IInv'
    BY Preserved
  <1> QED
    BY <1>1, <1>2, PTL DEF Spec

\* The state of an upload, its rows and its workers has its type, and what is still
\* pending on the list of a worker that is past the lock is claimed by that worker.
THEOREM Typing == BatchRegisterAssumption => (Spec => []TypeOK)
  BY Invariant, Types, PTL

\* No upload is claimed by two workers, however the two statements of __get_uploads,
\* the commits and the restarts interleave.
THEOREM Exclusion == BatchRegisterAssumption => (Spec => []OneWorker)
  BY Invariant, Apart, PTL

\* The status and the notifications the API shows of an upload are true of its rows and
\* of the chain.
THEOREM Reports == BatchRegisterAssumption => (Spec => []ReportIsTrue)
  BY Invariant, Truth, PTL

\* The information of a row reaches the chain once, and once more for each result that
\* was lost before it was recorded.
THEOREM Once == BatchRegisterAssumption => (Spec => []RegisteredOnce)
  BY Invariant, Bounded, PTL

-----------------------------------------------------------------------------
(* Issues and redemptions: the invariant.                                  *)

IssueTx == [rows : SUBSET Rows, type : {"bond", "share"}, category : {"Issue", "Redeem"}]
IssueNote == [upload : Uploads, code : 0..3, errors : SUBSET Rows]

IssueTypes ==
    /\ upload \in [Uploads -> {"none", "open", "processed"}] /\ row \in [Rows -> 0..2]
    /\ notes \in Seq(IssueNote) /\ log \in Seq(IssueTx) /\ mempool \subseteq SUBSET Rows
    /\ pc \in {"off", "idle", "upload", "row", "save"}
    /\ uploads \in Seq(Uploads) /\ left \subseteq Rows /\ chunk \subseteq Rows
    /\ outcome \in {"none", "mined", "failed"}
    /\ past \in [faults : Nat, lost : SUBSET Rows, late : SUBSET Rows]

\* A pass has uploads that are not processed, each once; what is left of the first
\* one, and what is sent of it, is pending.
IssueLists ==
    /\ \A i, j \in DOMAIN uploads : uploads[i] = uploads[j] => i = j
    /\ \A i \in DOMAIN uploads : upload[uploads[i]] = "open"
    /\ chunk # {} <=> pc = "save"
    /\ pc \in {"row", "save"} =>
          uploads # <<>> /\ left = Issue!Pending(Head(uploads)) /\ chunk \subseteq left

\* Transactions with the row that wait for a block, and those that were mined.
Waiting(r) == {t \in mempool : r \in t}
Executed(r) == {k \in DOMAIN log : r \in log[k].rows}

\* A row for which no commit was lost is in one transaction at most, which agrees
\* with its status or is about to.
IssueOnce ==
    \A r \in Rows \ past.lost :
       /\ \A k, l \in Executed(r) : k = l
       /\ \A t, v \in Waiting(r) : t = v
       /\ Waiting(r) = {} \/ Executed(r) = {}
       /\ row[r] = 0 /\ r \notin chunk => Waiting(r) = {} /\ Executed(r) = {}
       /\ row[r] = 1 \/ (r \in chunk /\ outcome = "mined") => Waiting(r) = {} /\ Executed(r) # {}
       /\ (row[r] = 2 \/ (r \in chunk /\ outcome # "mined")) /\ r \notin past.late => Executed(r) = {}

NotesOf(u) == {i \in DOMAIN notes : notes[i].upload = u}

\* A note is true of the rows of its upload.
NoteIsTrue(note, result) ==
    note.code \in {0, 3} =>
       /\ note.code = 3 <=> note.errors # {}
       /\ \A r \in Rows : UploadOf[r] = note.upload => result[r] = IF r \in note.errors THEN 2 ELSE 1

\* A processed upload has one note, any other none.
IssueNotes ==
    /\ \A i, j \in DOMAIN notes : notes[i].upload = notes[j].upload => i = j
    /\ \A i \in DOMAIN notes : upload[notes[i].upload] = "processed" /\ NoteIsTrue(notes[i], row)
    /\ \A u \in Uploads : upload[u] = "processed" => \E i \in DOMAIN notes : notes[i].upload = u

\* The rows of a transaction are of one upload, and it is of the kind of that upload.  The
\* index has a row of every event up to the block it has reached, under its category.
IssueKinds ==
    /\ \A k \in DOMAIN log : \A r \in log[k].rows :
          log[k].type = Issue!Type(UploadOf[r]) /\ log[k].category = Issue!Category(UploadOf[r])
    /\ \A t \in mempool : \A r, s \in t : UploadOf[r] = UploadOf[s]
    /\ index.synced \in 0..Len(log) /\ DOMAIN index.rows = 1..index.synced
    /\ \A k \in 1..index.synced, c \in {"Issue", "Redeem"} :
          index.rows[k][c] = IF c = log[k].category THEN 1 ELSE 0

IssueInv == IssueTypes /\ IssueLists /\ IssueOnce /\ IssueNotes /\ IssueKinds
IssueAssumption == Issue!BatchIssueRedeemAssumption

LEMMA SameSets ==
    \A S : Issue!Cardinality(S) = Cardinality(S) /\ (Issue!IsFiniteSet(S) <=> IsFiniteSet(S))
  <1>1. \A S : Issue!IsFiniteSet(S) <=> IsFiniteSet(S)
    BY Zenon DEF Issue!IsFiniteSet, IsFiniteSet
  <1>2. \A S : Issue!Cardinality(S) = Cardinality(S)
    BY <1>1, Zenon DEF Issue!Cardinality, Cardinality, Issue!IsFiniteSet, IsFiniteSet
  <1> QED
    BY <1>1, <1>2

\* One more failure.
LEMMA PastGrows ==
    ASSUME past \in [faults : Nat, lost : SUBSET Rows, late : SUBSET Rows], NEW S \in SUBSET Rows,
           past' = [past EXCEPT !.faults = @ + 1] \/ past' = [past EXCEPT !.faults = @ + 1, !.lost = @ \cup S]
    PROVE  past' \in [faults : Nat, lost : SUBSET Rows, late : SUBSET Rows]
  <1>1. past.faults \in Nat /\ past.lost \in SUBSET Rows
    OBVIOUS
  <1>2. past.faults + 1 \in Nat /\ past.lost \cup S \in SUBSET Rows
    BY <1>1
  <1> QED
    BY <1>2

LEMMA IssueInitially ==
    ASSUME IssueAssumption, Issue!Init
    PROVE  IssueInv
  <1> USE DEF IssueAssumption, Issue!BatchIssueRedeemAssumption, Issue!Init
  <1>1. IssueTypes
    BY DEF IssueTypes
  <1>2. IssueLists
    BY DEF IssueLists
  <1>3. IssueOnce
    BY DEF IssueOnce, Waiting, Executed
  <1>4. IssueNotes
    BY DEF IssueNotes
  <1>5. IssueKinds
    BY DEF IssueKinds
  <1> QED
    BY <1>1, <1>2, <1>3, <1>4, <1>5 DEF IssueInv

\* The four requests for an upload, and the four for a single transaction, are one each.
Create(u) == \E type \in {"bond", "share"}, category \in {"Issue", "Redeem"} : Issue!CreateUpload(u, type, category)
Single == \E type \in {"bond", "share"}, category \in {"Issue", "Redeem"} : Issue!SingleRequest(type, category)

LEMMA IssueSteps ==
    ASSUME Issue!Next
    PROVE  \/ \E u \in Uploads : Create(u) \/ Issue!NoKey(u) \/ Issue!StartUpload(u) \/ Issue!Send(u) \/ Issue!EndUpload(u)
           \/ \E t \in SUBSET Rows : Issue!MineLate(t)
           \/ Single \/ Issue!StartPass \/ Issue!EndPass \/ Issue!Save \/ Issue!PauseUpload
           \/ Issue!Shutdown \/ Issue!Fault \/ Issue!Restart \/ Issue!SyncNewLogs
  BY DEF Issue!Next, Create, Single, Issue!ProcessorStep, Issue!IssueAdditionalBond,
     Issue!IssueAdditionalShare, Issue!RedeemBond, Issue!RedeemShare,
     Issue!IssueAdditionalBondsInBatch, Issue!IssueAdditionalSharesInBatch,
     Issue!RedeemBondsInBatch, Issue!RedeemSharesInBatch

\* What one more transaction on the chain changes.
LEMMA Appended ==
    ASSUME IssueAssumption, IssueTypes, NEW t \in SUBSET Rows, NEW type \in {"bond", "share"},
           NEW category \in {"Issue", "Redeem"}, Issue!Mined(t, type, category)
    PROVE  /\ log' \in Seq(IssueTx)
           /\ \A r \in Rows : Executed(r)' = IF r \in t THEN Executed(r) \cup {Len(log) + 1} ELSE Executed(r)
           /\ \A r \in Rows : Executed(r) \subseteq 1..Len(log)
  <1> DEFINE tx == [rows |-> t, type |-> type, category |-> category]
  <1>1. tx \in IssueTx /\ log' = Append(log, tx) /\ tx.rows = t
    BY DEF Issue!Mined, IssueTx
  <1> HIDE DEF tx
  <1>2. /\ log' \in Seq(IssueTx) /\ DOMAIN log = 1..Len(log) /\ DOMAIN log' = 1..(Len(log) + 1) /\ Len(log) \in Nat
        /\ log'[Len(log) + 1] = tx /\ \A k \in DOMAIN log : log'[k] = log[k]
    BY <1>1 DEF IssueTypes
  <1> QED
    BY <1>1, <1>2 DEF Executed

\* What one more note changes.
LEMMA Noted ==
    ASSUME IssueAssumption, IssueTypes, NEW u \in Uploads, NEW code \in 0..3, NEW errors \in SUBSET Rows,
           Issue!SinkOnNotification(u, code, errors)
    PROVE  /\ notes' \in Seq(IssueNote)
           /\ DOMAIN notes = 1..Len(notes) /\ DOMAIN notes' = 1..(Len(notes) + 1) /\ Len(notes) \in Nat
           /\ notes'[Len(notes) + 1] = [upload |-> u, code |-> code, errors |-> errors]
           /\ \A i \in DOMAIN notes : notes'[i] = notes[i]
  <1>1. [upload |-> u, code |-> code, errors |-> errors] \in IssueNote
    BY DEF IssueNote
  <1> QED
    BY <1>1 DEF IssueTypes, Issue!SinkOnNotification

\* The upload a pass is at.
LEMMA AtHead ==
    ASSUME IssueTypes, IssueLists, uploads # <<>>
    PROVE  /\ Head(uploads) \in Uploads /\ upload[Head(uploads)] = "open"
           /\ Tail(uploads) \in Seq(Uploads)
           /\ \A i \in DOMAIN Tail(uploads) : /\ i + 1 \in DOMAIN uploads /\ Tail(uploads)[i] = uploads[i + 1]
                                              /\ Tail(uploads)[i] # Head(uploads)
           /\ \A i, j \in DOMAIN Tail(uploads) : Tail(uploads)[i] = Tail(uploads)[j] => i = j
  <1>1. /\ uploads \in Seq(Uploads) /\ Head(uploads) = uploads[1] /\ 1 \in DOMAIN uploads
        /\ Tail(uploads) \in Seq(Uploads)
        /\ \A i \in DOMAIN Tail(uploads) : i \in Nat /\ i + 1 \in DOMAIN uploads /\ Tail(uploads)[i] = uploads[i + 1] /\ i + 1 # 1
    BY DEF IssueTypes
  <1> QED
    BY <1>1 DEF IssueLists

\* The rows of a transaction are pending, and there are some.
LEMMA Chosen ==
    ASSUME IssueInv, NEW u \in Uploads, Issue!Send(u)
    PROVE  \E c \in SUBSET left :
              /\ c # {} /\ pc = "row" /\ chunk = {} /\ chunk' = c /\ pc' = "save"
              /\ \A r \in c : r \in Rows /\ row[r] = 0
              /\ \/ outcome' = "mined" /\ mempool' = mempool
                    /\ \E type \in {"bond", "share"}, category \in {"Issue", "Redeem"} : Issue!Mined(c, type, category)
                 \/ outcome' = "failed" /\ UNCHANGED <<mempool, log>>
                 \/ outcome' = "failed" /\ mempool' = mempool \cup {c} /\ log' = log
              /\ UNCHANGED <<upload, row, notes, singles, uploads, left, shutdown, index, past>>
  <1>1. pc = "row" /\ u = Head(uploads) /\ left = Issue!Pending(u) /\ chunk = {}
    BY DEF Issue!Send, IssueInv, IssueLists
  <1>2. PICK c \in Issue!Chunks(u) :
           /\ chunk' = c /\ pc' = "save"
           /\ \/ outcome' = "mined" /\ Issue!Mined(c, Issue!Type(u), Issue!Category(u)) /\ UNCHANGED mempool
              \/ outcome' = "failed" /\ UNCHANGED <<mempool, log>>
              \/ outcome' = "failed" /\ mempool' = mempool \cup {c} /\ UNCHANGED log
           /\ UNCHANGED <<upload, row, notes, singles, uploads, left, shutdown, index, past>>
    BY DEF Issue!Send, Issue!db, Issue!chain
  <1>3. c \subseteq left /\ c # {}
    BY <1>1 DEF Issue!Chunks, Issue!ToSend
  <1>4. \A r \in c : r \in Rows /\ row[r] = 0
    BY <1>1, <1>3 DEF Issue!Pending, Issue!RowsOf
  <1>5. Issue!Type(u) \in {"bond", "share"} /\ Issue!Category(u) \in {"Issue", "Redeem"}
    BY DEF Issue!Type, Issue!Category
  <1> QED
    BY <1>1, <1>2, <1>3, <1>4, <1>5

LEMMA IssueTypesNext ==
    ASSUME IssueAssumption, IssueInv, [Issue!Next]_Issue!vars
    PROVE  IssueTypes'
  <1> USE DEF IssueInv, Issue!db, Issue!chain, Issue!local
  <1>1. ASSUME NEW u \in Uploads, Create(u) PROVE IssueTypes'
    BY <1>1 DEF Create, Issue!CreateUpload, IssueTypes
  <1>2. ASSUME NEW u \in Uploads, Issue!NoKey(u) PROVE IssueTypes'
    <2>1. PICK code \in {1, 2} : Issue!SinkOnNotification(u, code, {})
      BY <1>2 DEF Issue!NoKey
    <2>2. notes' \in Seq(IssueNote)
      <3>1. code \in 0..3 /\ {} \in SUBSET Rows
        OBVIOUS
      <3> QED
        BY <2>1, <3>1, Noted
    <2> QED
      BY <1>2, <2>2, AtHead DEF Issue!NoKey, IssueTypes
  <1>3. ASSUME NEW u \in Uploads, Issue!StartUpload(u) PROVE IssueTypes'
    BY <1>3 DEF Issue!StartUpload, IssueTypes, Issue!Pending, Issue!RowsOf
  <1>4. ASSUME NEW u \in Uploads, Issue!Send(u) PROVE IssueTypes'
    <2>1. PICK c \in SUBSET left :
              /\ chunk' = c /\ pc' = "save" /\ outcome' \in {"mined", "failed"}
              /\ \/ \E type \in {"bond", "share"}, category \in {"Issue", "Redeem"} : Issue!Mined(c, type, category)
                 \/ log' = log
              /\ mempool' = mempool \/ mempool' = mempool \cup {c}
              /\ UNCHANGED <<upload, row, notes, uploads, left, past>>
      BY <1>4, Chosen
    <2>2. log' \in Seq(IssueTx)
      BY <2>1, Appended DEF IssueTypes
    <2> QED
      BY <2>1, <2>2 DEF IssueTypes
  <1>5. ASSUME NEW u \in Uploads, Issue!EndUpload(u) PROVE IssueTypes'
    <2>1. notes' \in Seq(IssueNote)
      <3>1. Issue!Failed(u) \in SUBSET Rows
        BY DEF Issue!Failed, Issue!RowsOf
      <3>2. \E code \in 0..3 : Issue!SinkOnNotification(u, code, Issue!Failed(u))
        BY <1>5 DEF Issue!EndUpload
      <3> QED
        BY <3>1, <3>2, Noted
    <2>2. uploads # <<>>
      BY <1>5 DEF Issue!EndUpload, IssueLists
    <2> QED
      BY <1>5, <2>1, <2>2, AtHead DEF Issue!EndUpload, IssueTypes
  <1>6. ASSUME NEW t \in SUBSET Rows, Issue!MineLate(t) PROVE IssueTypes'
    <2>1. \E type \in {"bond", "share"}, category \in {"Issue", "Redeem"} : Issue!Mined(t, type, category)
      BY <1>6 DEF Issue!MineLate, Issue!Type, Issue!Category
    <2>2. log' \in Seq(IssueTx)
      BY <2>1, Appended
    <2> QED
      BY <1>6, <2>2 DEF Issue!MineLate, IssueTypes
  <1>7. CASE Single
    <2>1. log' \in Seq(IssueTx)
      BY <1>7, Appended DEF Single, Issue!SingleRequest
    <2> QED
      BY <1>7, <2>1 DEF Single, Issue!SingleRequest, IssueTypes
  <1>8. CASE Issue!StartPass
    <2>1. uploads' \in Seq(Uploads)
      <3> DEFINE S == {u \in Uploads : upload[u] = "open"}
      <3>1. Cardinality(S) \in Nat
        BY FS_CardinalityType, FS_Subset, SameSets DEF IssueAssumption, Issue!BatchIssueRedeemAssumption
      <3>2. uploads' \in [1..Cardinality(S) -> S]
        BY <1>8, SameSets DEF Issue!StartPass, Issue!Injection
      <3>3. uploads' \in [1..Cardinality(S) -> Uploads]
        BY <3>2
      <3> HIDE DEF S
      <3> QED
        BY <3>1, <3>3
    <2> QED
      BY <1>8, <2>1 DEF Issue!StartPass, IssueTypes
  <1>9. CASE Issue!EndPass \/ Issue!PauseUpload
    <2>1. uploads' = <<>> /\ pc' \in {"off", "idle"} /\ left' \subseteq left
      BY <1>9 DEF Issue!EndPass, Issue!PauseUpload, Issue!AfterPass
    <2>2. uploads' \in Seq(Uploads)
      BY <2>1
    <2> QED
      BY <1>9, <2>1, <2>2 DEF Issue!EndPass, Issue!PauseUpload, IssueTypes
  <1>10. CASE Issue!Save
    BY <1>10 DEF Issue!Save, IssueTypes
  <1>11. CASE Issue!Shutdown \/ Issue!Restart
    <2>1. past' = past \/ past' = [past EXCEPT !.faults = past.faults + 1]
      BY <1>11 DEF Issue!Shutdown, Issue!Restart
    <2>4. past' \in [faults : Nat, lost : SUBSET Rows, late : SUBSET Rows]
      BY <2>1, PastGrows DEF IssueTypes
    <2>2. pc' \in {"off", "idle", "upload", "row", "save"}
      BY <1>11 DEF Issue!Shutdown, Issue!Restart, IssueTypes
    <2> QED
      BY <1>11, <2>2, <2>4 DEF Issue!Shutdown, Issue!Restart, IssueTypes
  <1>12. CASE Issue!Fault
    <2>1. past' \in [faults : Nat, lost : SUBSET Rows, late : SUBSET Rows]
      <3>1. past' = [past EXCEPT !.faults = past.faults + 1, !.lost = past.lost \cup chunk]
        BY <1>12 DEF Issue!Fault
      <3> QED
        BY <3>1, PastGrows DEF IssueTypes
    <2>2. pc' \in {"off", "idle"}
      BY <1>12 DEF Issue!Fault, Issue!AfterPass
    <2>3. uploads' \in Seq(Uploads) /\ left' = {} /\ chunk' = {} /\ outcome' = "none"
      BY <1>12 DEF Issue!Fault, Issue!Forget
    <2> QED
      BY <1>12, <2>1, <2>2, <2>3 DEF Issue!Fault, IssueTypes
  <1>13. CASE Issue!SyncNewLogs \/ UNCHANGED Issue!vars
    BY <1>13 DEF Issue!SyncNewLogs, Issue!vars, IssueTypes
  <1> QED
    BY <1>1, <1>2, <1>3, <1>4, <1>5, <1>6, <1>7, <1>8, <1>9, <1>10, <1>11, <1>12, <1>13, IssueSteps

LEMMA IssueListsNext ==
    ASSUME IssueAssumption, IssueInv, [Issue!Next]_Issue!vars
    PROVE  IssueLists'
  <1> USE DEF IssueInv, Issue!db, Issue!chain, Issue!local
  <1>1. ASSUME NEW u \in Uploads, Create(u) PROVE IssueLists'
    BY <1>1 DEF Create, Issue!CreateUpload, IssueTypes, IssueLists, Issue!Pending, Issue!RowsOf
  <1>2. ASSUME NEW u \in Uploads, Issue!NoKey(u) PROVE IssueLists'
    <2>1. /\ pc' = pc /\ pc = "upload" /\ u = Head(uploads) /\ uploads # <<>> /\ uploads' = Tail(uploads) /\ chunk' = chunk
          /\ upload' = [upload EXCEPT ![u] = "processed"]
      BY <1>2 DEF Issue!NoKey
    <2> QED
      BY <2>1, AtHead DEF IssueLists, IssueTypes
  <1>3. ASSUME NEW u \in Uploads, Issue!StartUpload(u) PROVE IssueLists'
    BY <1>3 DEF Issue!StartUpload, IssueLists, Issue!Pending, Issue!RowsOf
  <1>4. ASSUME NEW u \in Uploads, Issue!Send(u) PROVE IssueLists'
    <2>1. /\ pc = "row" /\ pc' = "save" /\ chunk' # {} /\ chunk' \subseteq left
          /\ UNCHANGED <<upload, row, uploads, left>>
      BY <1>4, Chosen
    <2> QED
      BY <2>1 DEF IssueLists, Issue!Pending, Issue!RowsOf
  <1>5. ASSUME NEW u \in Uploads, Issue!EndUpload(u) PROVE IssueLists'
    <2>1. /\ pc' = "upload" /\ pc = "row" /\ u = Head(uploads) /\ uploads # <<>> /\ uploads' = Tail(uploads) /\ chunk' = chunk
          /\ upload' = [upload EXCEPT ![u] = "processed"]
      BY <1>5 DEF Issue!EndUpload, IssueLists
    <2> QED
      BY <2>1, AtHead DEF IssueLists, IssueTypes
  <1>6. ASSUME NEW t \in SUBSET Rows, Issue!MineLate(t) PROVE IssueLists'
    BY <1>6 DEF Issue!MineLate, IssueLists, Issue!Pending, Issue!RowsOf
  <1>7. CASE Single
    BY <1>7 DEF Single, Issue!SingleRequest, IssueLists, Issue!Pending, Issue!RowsOf
  <1>8. CASE Issue!StartPass
    <2>1. /\ \A i, j \in DOMAIN uploads' : uploads'[i] = uploads'[j] => i = j
          /\ \A i \in DOMAIN uploads' : upload[uploads'[i]] = "open"
      BY <1>8 DEF Issue!StartPass, Issue!Injection, Issue!IsInjective
    <2> QED
      BY <1>8, <2>1 DEF Issue!StartPass, IssueLists
  <1>9. CASE Issue!EndPass \/ Issue!PauseUpload
    BY <1>9 DEF Issue!EndPass, Issue!PauseUpload, Issue!AfterPass, IssueLists
  <1>10. CASE Issue!Save
    <2>1. /\ pc = "save" /\ pc' = "row" /\ chunk' = {} /\ left' = left \ chunk /\ uploads' = uploads /\ upload' = upload
          /\ row' = [r \in Rows |-> IF r \notin chunk THEN row[r] ELSE IF outcome = "mined" THEN 1 ELSE 2]
      BY <1>10 DEF Issue!Save
    <2>2. left = Issue!Pending(Head(uploads)) /\ uploads # <<>>
      BY <2>1 DEF IssueLists
    <2>3. left' = Issue!Pending(Head(uploads))'
      BY <2>1, <2>2 DEF Issue!Pending, Issue!RowsOf
    <2> QED
      BY <2>1, <2>2, <2>3 DEF IssueLists
  <1>11. CASE Issue!Shutdown \/ Issue!Restart
    BY <1>11 DEF Issue!Shutdown, Issue!Restart, IssueLists, Issue!Pending, Issue!RowsOf
  <1>12. CASE Issue!Fault
    BY <1>12 DEF Issue!Fault, Issue!Forget, Issue!AfterPass, IssueLists
  <1>13. CASE Issue!SyncNewLogs \/ UNCHANGED Issue!vars
    BY <1>13 DEF Issue!SyncNewLogs, Issue!vars, IssueLists, Issue!Pending, Issue!RowsOf
  <1> QED
    BY <1>1, <1>2, <1>3, <1>4, <1>5, <1>6, <1>7, <1>8, <1>9, <1>10, <1>11, <1>12, <1>13, IssueSteps

\* A step that leaves transactions and rows alone.
LEMMA OnceStays ==
    ASSUME IssueOnce, UNCHANGED <<row, mempool, log>>, past'.late = past.late,
           \/ UNCHANGED <<chunk, outcome>> /\ past'.lost = past.lost
           \/ chunk = {} /\ chunk' = {} /\ past'.lost = past.lost
           \/ chunk' = {} /\ past'.lost = past.lost \cup chunk
    PROVE  IssueOnce'
  <1>1. \A r : Waiting(r)' = Waiting(r) /\ Executed(r)' = Executed(r)
    BY DEF Waiting, Executed
  <1> QED
    BY <1>1 DEF IssueOnce

LEMMA IssueOnceNext ==
    ASSUME IssueAssumption, IssueInv, [Issue!Next]_Issue!vars
    PROVE  IssueOnce'
  <1> USE DEF IssueInv, Issue!db, Issue!chain, Issue!local
  <1>1. ASSUME NEW u \in Uploads, Create(u) PROVE IssueOnce'
    BY <1>1, OnceStays DEF Create, Issue!CreateUpload
  <1>2. ASSUME NEW u \in Uploads, Issue!NoKey(u) \/ Issue!StartUpload(u) \/ Issue!EndUpload(u) PROVE IssueOnce'
    BY <1>2, OnceStays DEF Issue!NoKey, Issue!StartUpload, Issue!EndUpload
  <1>3. ASSUME NEW u \in Uploads, Issue!Send(u) PROVE IssueOnce'
    <2>1. PICK c \in SUBSET left :
              /\ c # {} /\ chunk = {} /\ chunk' = c
              /\ \A r \in c : r \in Rows /\ row[r] = 0
              /\ \/ outcome' = "mined" /\ mempool' = mempool
                    /\ \E type \in {"bond", "share"}, category \in {"Issue", "Redeem"} : Issue!Mined(c, type, category)
                 \/ outcome' = "failed" /\ UNCHANGED <<mempool, log>>
                 \/ outcome' = "failed" /\ mempool' = mempool \cup {c} /\ log' = log
              /\ row' = row /\ past' = past
      BY <1>3, Chosen
    <2>2. \A r \in c \ past.lost : r \in Rows /\ row[r] = 0 /\ Waiting(r) = {} /\ Executed(r) = {}
      BY <2>1 DEF IssueOnce
    <2>3. CASE outcome' = "mined" /\ mempool' = mempool
               /\ \E type \in {"bond", "share"}, category \in {"Issue", "Redeem"} : Issue!Mined(c, type, category)
      <3>1. \A r \in Rows : Executed(r)' = IF r \in c THEN Executed(r) \cup {Len(log) + 1} ELSE Executed(r)
        BY <2>1, <2>3, Appended
      <3>2. \A r : Waiting(r)' = Waiting(r)
        BY <2>3 DEF Waiting
      <3> QED
        BY <2>1, <2>2, <2>3, <3>1, <3>2 DEF IssueOnce
    <2>4. CASE outcome' = "failed" /\ UNCHANGED <<mempool, log>>
      <3>1. \A r : Waiting(r)' = Waiting(r) /\ Executed(r)' = Executed(r)
        BY <2>4 DEF Waiting, Executed
      <3> QED
        BY <2>1, <2>2, <2>4, <3>1 DEF IssueOnce
    <2>5. CASE outcome' = "failed" /\ mempool' = mempool \cup {c} /\ log' = log
      <3>1. \A r : /\ Executed(r)' = Executed(r)
                   /\ Waiting(r)' = IF r \in c THEN Waiting(r) \cup {c} ELSE Waiting(r)
        BY <2>5 DEF Waiting, Executed
      <3> QED
        BY <2>1, <2>2, <2>5, <3>1 DEF IssueOnce
    <2> QED
      BY <2>1, <2>3, <2>4, <2>5
  <1>4. ASSUME NEW t \in SUBSET Rows, Issue!MineLate(t) PROVE IssueOnce'
    <2>1. /\ t \in mempool /\ mempool' = mempool \ {t}
          /\ \E type \in {"bond", "share"}, category \in {"Issue", "Redeem"} : Issue!Mined(t, type, category)
          /\ past' = [past EXCEPT !.late = @ \cup t] /\ UNCHANGED <<row, chunk, outcome>>
      BY <1>4 DEF Issue!MineLate, Issue!Type, Issue!Category
    <2>2. past'.lost = past.lost /\ past'.late = past.late \cup t
      BY <2>1 DEF IssueTypes
    <2>3. \A r \in Rows : Executed(r)' = IF r \in t THEN Executed(r) \cup {Len(log) + 1} ELSE Executed(r)
      BY <2>1, Appended
    <2>4. \A r : /\ r \in t => t \in Waiting(r) /\ Waiting(r)' = Waiting(r) \ {t}
                 /\ r \notin t => Waiting(r)' = Waiting(r)
      BY <2>1 DEF Waiting
    <2>5. ASSUME NEW r \in Rows \ past.lost, r \in t
          PROVE  /\ Executed(r)' = {Len(log) + 1} /\ Waiting(r)' = {}
                 /\ row[r] = 2 \/ (r \in chunk /\ outcome # "mined" /\ row[r] # 1)
      BY <2>3, <2>4, <2>5 DEF IssueOnce, IssueTypes
    <2>6. ASSUME NEW r \in Rows \ past.lost, r \notin t
          PROVE  Executed(r)' = Executed(r) /\ Waiting(r)' = Waiting(r)
      BY <2>3, <2>4, <2>6
    <2> QED
      BY <2>1, <2>2, <2>5, <2>6 DEF IssueOnce
  <1>5. CASE Single
    <2>1. PICK type \in {"bond", "share"}, category \in {"Issue", "Redeem"} : Issue!SingleRequest(type, category)
      BY <1>5 DEF Single
    <2>2. Issue!Mined({}, type, category) /\ UNCHANGED <<row, mempool, chunk, outcome, past>>
      BY <2>1 DEF Issue!SingleRequest
    <2>3. \A r \in Rows : Executed(r)' = Executed(r) /\ Waiting(r)' = Waiting(r)
      BY <2>2, Appended DEF Waiting
    <2> QED
      BY <2>2, <2>3 DEF IssueOnce
  <1>6. CASE Issue!Save
    <2>1. /\ chunk' = {} /\ UNCHANGED <<mempool, log, past>>
          /\ row' = [r \in Rows |-> IF r \notin chunk THEN row[r] ELSE IF outcome = "mined" THEN 1 ELSE 2]
      BY <1>6 DEF Issue!Save
    <2>2. \A r : Waiting(r)' = Waiting(r) /\ Executed(r)' = Executed(r)
      BY <2>1 DEF Waiting, Executed
    <2> QED
      BY <2>1, <2>2 DEF IssueOnce
  <1>7. CASE Issue!StartPass \/ Issue!EndPass \/ Issue!PauseUpload \/ Issue!Restart \/ Issue!SyncNewLogs \/ UNCHANGED Issue!vars
    BY <1>7, OnceStays DEF Issue!StartPass, Issue!EndPass, Issue!PauseUpload, Issue!Restart, Issue!SyncNewLogs, Issue!vars
  <1>8. CASE Issue!Shutdown
    <2>1. past'.lost = past.lost /\ past'.late = past.late
      BY <1>8 DEF Issue!Shutdown, IssueTypes
    <2> QED
      BY <1>8, <2>1, OnceStays DEF Issue!Shutdown
  <1>9. CASE Issue!Fault
    <2>1. past'.lost = past.lost \cup chunk /\ past'.late = past.late
      BY <1>9 DEF Issue!Fault, IssueTypes
    <2> QED
      BY <1>9, <2>1, OnceStays DEF Issue!Fault, Issue!Forget
  <1> QED
    BY <1>1, <1>2, <1>3, <1>4, <1>5, <1>6, <1>7, <1>8, <1>9, IssueSteps

\* A note on the upload a pass is at, which is thereby processed.
LEMMA NotesGrow ==
    ASSUME IssueAssumption, IssueInv, NEW u \in Uploads, upload[u] = "open", NEW code \in 0..3, NEW errors \in SUBSET Rows,
           Issue!SinkOnNotification(u, code, errors), upload' = [upload EXCEPT ![u] = "processed"],
           NoteIsTrue([upload |-> u, code |-> code, errors |-> errors], row), row' = row
    PROVE  IssueNotes'
  <1> DEFINE note == [upload |-> u, code |-> code, errors |-> errors]
  <1>1. /\ DOMAIN notes = 1..Len(notes) /\ DOMAIN notes' = 1..(Len(notes) + 1) /\ Len(notes) \in Nat
        /\ notes'[Len(notes) + 1] = note /\ \A i \in DOMAIN notes : notes'[i] = notes[i]
    BY Noted DEF IssueInv
  <1>2. note.upload = u /\ NoteIsTrue(note, row)
    OBVIOUS
  <1>3. /\ \A i \in DOMAIN notes :
              /\ notes[i].upload \in Uploads /\ upload[notes[i].upload] = "processed" /\ notes[i].upload # u
              /\ NoteIsTrue(notes[i], row)
        /\ upload'[u] = "processed" /\ \A v \in Uploads : v # u => upload'[v] = upload[v]
    <2>1. \A i \in DOMAIN notes : notes[i] \in IssueNote
      BY DEF IssueInv, IssueTypes
    <2>2. \A i \in DOMAIN notes : notes[i].upload \in Uploads
      BY <2>1 DEF IssueNote
    <2> QED
      BY <2>2 DEF IssueInv, IssueTypes, IssueNotes
  <1> HIDE DEF note
  <1>4. \A i \in DOMAIN notes' : i = Len(notes) + 1 \/ i \in DOMAIN notes
    BY <1>1
  <1>5. \A i \in DOMAIN notes' : upload'[notes'[i].upload] = "processed" /\ NoteIsTrue(notes'[i], row')
    BY <1>1, <1>2, <1>3, <1>4
  <1>6. \A i, j \in DOMAIN notes' : notes'[i].upload = notes'[j].upload => i = j
    BY <1>1, <1>2, <1>3, <1>4 DEF IssueInv, IssueNotes
  <1>7. \A v \in Uploads : upload'[v] = "processed" => \E i \in DOMAIN notes' : notes'[i].upload = v
    BY <1>1, <1>2, <1>3 DEF IssueInv, IssueNotes
  <1> QED
    BY <1>5, <1>6, <1>7 DEF IssueNotes

LEMMA IssueNotesNext ==
    ASSUME IssueAssumption, IssueInv, [Issue!Next]_Issue!vars
    PROVE  IssueNotes'
  <1> USE DEF IssueInv, Issue!db, Issue!chain, Issue!local
  <1>1. ASSUME NEW u \in Uploads, Create(u) PROVE IssueNotes'
    BY <1>1 DEF Create, Issue!CreateUpload, IssueNotes, NoteIsTrue, IssueTypes, IssueNote
  <1>2. ASSUME NEW u \in Uploads, Issue!NoKey(u) PROVE IssueNotes'
    <2>1. PICK code \in {1, 2} : Issue!SinkOnNotification(u, code, {})
      BY <1>2 DEF Issue!NoKey
    <2>2. upload[u] = "open" /\ upload' = [upload EXCEPT ![u] = "processed"] /\ row' = row
      BY <1>2, AtHead DEF Issue!NoKey
    <2>3. code \in 0..3 /\ {} \in SUBSET Rows /\ NoteIsTrue([upload |-> u, code |-> code, errors |-> {}], row)
      BY DEF NoteIsTrue
    <2> QED
      BY <2>1, <2>2, <2>3, NotesGrow
  <1>3. ASSUME NEW u \in Uploads, Issue!EndUpload(u) PROVE IssueNotes'
    <2> DEFINE errors == Issue!Failed(u)
               code == IF errors = {} THEN 0 ELSE 3
    <2>1. /\ Issue!SinkOnNotification(u, code, errors)
          /\ upload' = [upload EXCEPT ![u] = "processed"] /\ row' = row
          /\ pc = "row" /\ u = Head(uploads) /\ Issue!ToSend(u) = {}
      BY <1>3 DEF Issue!EndUpload
    <2>2. upload[u] = "open" /\ Issue!Pending(u) = {}
      BY <2>1, AtHead DEF IssueLists, Issue!ToSend
    <2>3. \A r \in Rows : UploadOf[r] = u => row[r] = IF r \in errors THEN 2 ELSE 1
      BY <2>2 DEF Issue!Failed, Issue!Pending, Issue!RowsOf, IssueTypes
    <2>4. errors \in SUBSET Rows /\ code \in 0..3
      BY DEF Issue!Failed, Issue!RowsOf
    <2>5. code = 3 <=> errors # {}
      OBVIOUS
    <2> HIDE DEF errors, code
    <2>6. NoteIsTrue([upload |-> u, code |-> code, errors |-> errors], row)
      BY <2>3, <2>5 DEF NoteIsTrue
    <2> QED
      BY <2>1, <2>2, <2>4, <2>6, NotesGrow
  <1>4. ASSUME NEW u \in Uploads, Issue!StartUpload(u) PROVE IssueNotes'
    BY <1>4 DEF Issue!StartUpload, IssueNotes, NoteIsTrue
  <1>5. ASSUME NEW u \in Uploads, Issue!Send(u) PROVE IssueNotes'
    BY <1>5, Chosen DEF IssueNotes, NoteIsTrue
  <1>6. CASE Issue!Save
    <2>1. /\ pc = "save" /\ UNCHANGED <<upload, notes>>
          /\ row' = [r \in Rows |-> IF r \notin chunk THEN row[r] ELSE IF outcome = "mined" THEN 1 ELSE 2]
      BY <1>6 DEF Issue!Save
    <2>2. \A r \in chunk : upload[UploadOf[r]] = "open"
      BY <2>1, AtHead DEF IssueLists, Issue!Pending, Issue!RowsOf
    <2>3. \A r \in Rows : upload[UploadOf[r]] = "processed" => row'[r] = row[r]
      BY <2>1, <2>2
    <2>4. \A i \in DOMAIN notes : NoteIsTrue(notes[i], row')
      BY <2>1, <2>3 DEF IssueNotes, NoteIsTrue
    <2> QED
      BY <2>1, <2>4 DEF IssueNotes
  <1>7. ASSUME NEW t \in SUBSET Rows, Issue!MineLate(t) PROVE IssueNotes'
    BY <1>7 DEF Issue!MineLate, IssueNotes, NoteIsTrue
  <1>8. CASE Single
    BY <1>8 DEF Single, Issue!SingleRequest, IssueNotes, NoteIsTrue
  <1>9. CASE Issue!StartPass \/ Issue!EndPass \/ Issue!PauseUpload \/ Issue!SyncNewLogs \/ UNCHANGED Issue!vars
    BY <1>9 DEF Issue!StartPass, Issue!EndPass, Issue!PauseUpload, Issue!SyncNewLogs, Issue!vars, IssueNotes, NoteIsTrue
  <1>10. CASE Issue!Shutdown \/ Issue!Fault \/ Issue!Restart
    BY <1>10 DEF Issue!Shutdown, Issue!Fault, Issue!Restart, IssueNotes, NoteIsTrue
  <1> QED
    BY <1>1, <1>2, <1>3, <1>4, <1>5, <1>6, <1>7, <1>8, <1>9, <1>10, IssueSteps

-----------------------------------------------------------------------------
(* Issues and redemptions: the histories.                                  *)

\* Of a set with at most one element.
LEMMA AtMostOne ==
    ASSUME NEW S, \A k, l \in S : k = l
    PROVE  /\ Cardinality(S) <= 1
           /\ S # {} => Cardinality(S) = 1
           /\ S = {} => Cardinality(S) = 0
  <1>1. CASE S = {}
    BY <1>1, FS_EmptySet
  <1>2. CASE S # {}
    <2>1. PICK k \in S : S = {k}
      BY <1>2
    <2> QED
      BY <2>1, FS_Singleton, <1>2
  <1> QED
    BY <1>1, <1>2

\* Multiples of a natural number.
LEMMA Multiples ==
    ASSUME NEW L \in Nat \ {0}, NEW d \in Nat
    PROVE  /\ \A n \in Nat : n * L \in Nat
           /\ \A m, n \in Nat : m * L <= d /\ d < m * L + L /\ n * L <= d /\ d < n * L + L => m = n
           /\ d \div L \in Nat /\ (d \div L) * L <= d /\ d < (d \div L) * L + L
           /\ \A e \in Nat : d <= e => d \div L <= e \div L
  <1>1. \A n \in Nat : n * L \in Nat
    OBVIOUS
  <1>2. ASSUME NEW m \in Nat, NEW n \in Nat, m < n PROVE m * L + L <= n * L
    <2>1. n = m + 1 + (n - m - 1) /\ n - m - 1 \in Nat
      BY <1>2
    <2>2. PICK k \in Nat : n = m + 1 + k
      BY <2>1
    <2>3. n * L = m * L + L + k * L /\ k * L \in Nat
      BY <2>2
    <2> QED
      BY <2>3, <1>1
  <1>3. ASSUME NEW m \in Nat, NEW n \in Nat, m * L <= d, d < m * L + L, n * L <= d, d < n * L + L
        PROVE  m = n
    BY <1>1, <1>2, <1>3
  <1>4. \A x \in Nat : x \div L \in Nat /\ (x \div L) * L <= x /\ x < (x \div L) * L + L
    OBVIOUS
  <1>5. ASSUME NEW e \in Nat, d <= e PROVE d \div L <= e \div L
    <2>1. /\ d \div L \in Nat /\ (d \div L) * L <= d
          /\ e \div L \in Nat /\ e < (e \div L) * L + L
      BY <1>4
    <2>2. e \div L < d \div L => (e \div L) * L + L <= (d \div L) * L
      BY <2>1, <1>2
    <2> QED
      BY <2>1, <2>2, <1>1, <1>5
  <1> QED
    BY <1>1, <1>3, <1>4, <1>5

\* The blocks that are read are those after the block that was reached, each in one lot.
LEMMA LotsCover ==
    ASSUME IssueAssumption, IssueInv, index.synced < Len(log), NEW k \in 1..Len(log)
    PROVE  /\ \A l, m \in Issue!LotStarts :
                 /\ k \in l + 1..Issue!Lesser(l + Lot, Len(log))
                 /\ k \in m + 1..Issue!Lesser(m + Lot, Len(log))
                 => l = m /\ k > index.synced
           /\ k > index.synced => \E l \in Issue!LotStarts : k \in l + 1..Issue!Lesser(l + Lot, Len(log))
  <1> DEFINE reached == index.synced
             last == Len(log) - index.synced - 1
  <1>1. reached \in Nat /\ Len(log) \in Nat /\ last \in Nat /\ Lot \in Nat \ {0}
    BY DEF IssueInv, IssueTypes, IssueKinds, IssueAssumption, Issue!BatchIssueRedeemAssumption
  <1>2. Issue!LotStarts = {reached + n * Lot : n \in 0..last \div Lot}
    BY DEF Issue!LotStarts
  <1> HIDE DEF reached
  <1>3. last \div Lot \in Nat /\ \A n \in Nat : n * Lot \in Nat
    BY <1>1, Multiples
  <1>4. ASSUME NEW l \in Issue!LotStarts, k \in l + 1..Issue!Lesser(l + Lot, Len(log))
        PROVE  /\ k > reached
               /\ \E n \in Nat : l = reached + n * Lot /\ n * Lot <= k - reached - 1 /\ k - reached - 1 < n * Lot + Lot
    <2>1. PICK n \in 0..last \div Lot : l = reached + n * Lot
      BY <1>2
    <2>2. n \in Nat /\ n * Lot \in Nat
      BY <1>3
    <2>3. l + 1 <= k /\ k <= l + Lot
      BY <1>1, <1>4, <2>1, <2>2 DEF Issue!Lesser
    <2> HIDE DEF last
    <2> QED
      BY <1>1, <2>1, <2>2, <2>3
  <1>5. ASSUME NEW l \in Issue!LotStarts, NEW m \in Issue!LotStarts,
               k \in l + 1..Issue!Lesser(l + Lot, Len(log)), k \in m + 1..Issue!Lesser(m + Lot, Len(log))
        PROVE  l = m /\ k > reached
    <2>1. PICK i \in Nat : l = reached + i * Lot /\ i * Lot <= k - reached - 1 /\ k - reached - 1 < i * Lot + Lot
      BY <1>4, <1>5
    <2>2. PICK j \in Nat : m = reached + j * Lot /\ j * Lot <= k - reached - 1 /\ k - reached - 1 < j * Lot + Lot
      BY <1>4, <1>5
    <2>3. k > reached /\ k - reached - 1 \in Nat
      BY <1>1, <1>4, <1>5
    <2>4. i = j
      <3> DEFINE d == k - reached - 1
      <3>1. d \in Nat /\ i * Lot <= d /\ d < i * Lot + Lot /\ j * Lot <= d /\ d < j * Lot + Lot
        BY <2>1, <2>2, <2>3
      <3> HIDE DEF d
      <3> QED
        BY <1>1, <3>1, Multiples
    <2> QED
      BY <2>1, <2>2, <2>3, <2>4
  <1>6. ASSUME k > reached PROVE \E l \in Issue!LotStarts : k \in l + 1..Issue!Lesser(l + Lot, Len(log))
    <2> DEFINE d == k - reached - 1
               n == d \div Lot
    <2>1. d \in Nat /\ d <= last
      <3>1. last = Len(log) - reached - 1 /\ k \in Nat /\ k <= Len(log)
        BY <1>1 DEF reached
      <3> QED
        BY <1>1, <1>6, <3>1
    <2> HIDE DEF d, last
    <2>2. n \in Nat /\ n * Lot <= d /\ d < n * Lot + Lot /\ n <= last \div Lot
      BY <1>1, <2>1, Multiples
    <2>3. n \in 0..last \div Lot /\ n * Lot \in Nat
      BY <1>3, <2>2
    <2> HIDE DEF n
    <2>4. reached + n * Lot \in Issue!LotStarts
      BY <1>2, <2>3
    <2>5. k >= reached + n * Lot + 1 /\ k <= reached + n * Lot + Lot
      BY <1>1, <2>2, <2>3 DEF d
    <2>6. k \in reached + n * Lot + 1..Issue!Lesser(reached + n * Lot + Lot, Len(log))
      BY <1>1, <2>3, <2>5 DEF Issue!Lesser
    <2> QED
      BY <2>4, <2>6
  <1> QED
    BY <1>5, <1>6 DEF reached

\* An event is found once, after the block that was reached, and under its category.
LEMMA FoundOnce ==
    ASSUME IssueAssumption, IssueInv, index.synced < Len(log), NEW k \in 1..Len(log),
           NEW category \in {"Issue", "Redeem"}
    PROVE  Cardinality(Issue!OfCategory(k, category))
              = IF k > index.synced /\ log[k].category = category THEN 1 ELSE 0
  <1> DEFINE found == Issue!OfCategory(k, category)
  <1>1. log[k].type \in {"bond", "share"}
    <2>1. log[k] \in IssueTx
      BY DEF IssueInv, IssueTypes
    <2> QED
      BY <2>1 DEF IssueTx
  <1>2. \A f : f \in found <=> /\ f \in [lot : Issue!LotStarts, type : {"bond", "share"}]
                               /\ k \in f.lot + 1..Issue!Lesser(f.lot + Lot, Len(log))
                               /\ log[k].type = f.type /\ log[k].category = category
    BY DEF Issue!OfCategory
  <1> HIDE DEF found
  <1>3. \A f, g \in found : f = g
    <2> SUFFICES ASSUME NEW f \in found, NEW g \in found PROVE f = g
      OBVIOUS
    <2>1. f.lot = g.lot /\ f.type = g.type
      BY <1>2, LotsCover
    <2> QED
      BY <1>2, <2>1
  <1>4. found # {} => k > index.synced /\ log[k].category = category
    BY <1>2, LotsCover
  <1>5. ASSUME k > index.synced, log[k].category = category PROVE found # {}
    <2>1. PICK l \in Issue!LotStarts : k \in l + 1..Issue!Lesser(l + Lot, Len(log))
      BY <1>5, LotsCover
    <2> DEFINE f == [lot |-> l, type |-> log[k].type]
    <2>2. f \in [lot : Issue!LotStarts, type : {"bond", "share"}] /\ f.lot = l /\ f.type = log[k].type
      BY <1>1
    <2> HIDE DEF f
    <2>3. f \in found
      BY <1>2, <1>5, <2>1, <2>2
    <2> QED
      BY <2>3
  <1>6. /\ found # {} => Cardinality(found) = 1
        /\ found = {} => Cardinality(found) = 0
    BY <1>3, AtMostOne, Zenon
  <1> QED
    BY <1>4, <1>5, <1>6 DEF found

\* The rows of a transaction are of one upload, and it is of the kind of that upload.
LEMMA SentKind ==
    ASSUME IssueInv, NEW u \in Uploads, Issue!Send(u)
    PROVE  \E c \in SUBSET Rows :
              /\ \A r \in c : UploadOf[r] = u
              /\ Issue!Mined(c, Issue!Type(u), Issue!Category(u)) \/ log' = log
              /\ mempool' = mempool \/ mempool' = mempool \cup {c}
              /\ index' = index
  <1>1. Issue!ToSend(u) \subseteq Issue!RowsOf(u)
    BY DEF Issue!Send, IssueInv, IssueLists, Issue!ToSend, Issue!Pending
  <1>2. PICK c \in Issue!Chunks(u) :
              \/ Issue!Mined(c, Issue!Type(u), Issue!Category(u)) /\ mempool' = mempool
              \/ log' = log /\ mempool' = mempool
              \/ log' = log /\ mempool' = mempool \cup {c}
    BY DEF Issue!Send, Issue!chain
  <1>3. c \subseteq Issue!ToSend(u)
    BY DEF Issue!Chunks
  <1>4. c \in SUBSET Rows /\ \A r \in c : UploadOf[r] = u
    BY <1>1, <1>3 DEF Issue!RowsOf
  <1>5. index' = index
    BY DEF Issue!Send
  <1> QED
    BY <1>2, <1>4, <1>5

\* One more transaction of the kind of its rows.
LEMMA KindsGrow ==
    ASSUME IssueAssumption, IssueInv, NEW t \in SUBSET Rows, NEW type \in {"bond", "share"},
           NEW category \in {"Issue", "Redeem"}, Issue!Mined(t, type, category), index' = index,
           \A r \in t : type = Issue!Type(UploadOf[r]) /\ category = Issue!Category(UploadOf[r]),
           \A v \in mempool' : \A r, s \in v : UploadOf[r] = UploadOf[s]
    PROVE  IssueKinds'
  <1> DEFINE tx == [rows |-> t, type |-> type, category |-> category]
  <1>1. log' = Append(log, tx) /\ tx.rows = t /\ tx.type = type /\ tx.category = category
    BY DEF Issue!Mined
  <1> HIDE DEF tx
  <1>2. /\ DOMAIN log = 1..Len(log) /\ DOMAIN log' = 1..(Len(log) + 1) /\ Len(log') = Len(log) + 1 /\ Len(log) \in Nat
        /\ log'[Len(log) + 1] = tx /\ \A k \in DOMAIN log : log'[k] = log[k]
    BY <1>1 DEF IssueInv, IssueTypes
  <1>3. ASSUME NEW k \in DOMAIN log', NEW r \in log'[k].rows
        PROVE  log'[k].type = Issue!Type(UploadOf[r]) /\ log'[k].category = Issue!Category(UploadOf[r])
    BY <1>1, <1>2, <1>3 DEF IssueInv, IssueKinds
  <1>4. /\ index'.synced \in 0..Len(log') /\ DOMAIN index'.rows = 1..index'.synced
        /\ \A k \in 1..index'.synced, c \in {"Issue", "Redeem"} :
              index'.rows[k][c] = IF c = log'[k].category THEN 1 ELSE 0
    <2>1. /\ index.synced \in 0..Len(log) /\ DOMAIN index.rows = 1..index.synced
          /\ \A k \in 1..index.synced, c \in {"Issue", "Redeem"} :
              index.rows[k][c] = IF c = log[k].category THEN 1 ELSE 0
      BY DEF IssueInv, IssueKinds
    <2>2. \A k \in 1..index.synced : log'[k] = log[k]
      BY <1>2, <2>1
    <2> QED
      BY <1>2, <2>1, <2>2
  <1> QED
    BY <1>3, <1>4 DEF IssueKinds, Issue!Type, Issue!Category

LEMMA IssueKindsNext ==
    ASSUME IssueAssumption, IssueInv, [Issue!Next]_Issue!vars
    PROVE  IssueKinds'
  <1> USE DEF Issue!db, Issue!chain, Issue!local
  <1>1. ASSUME NEW u \in Uploads, Issue!Send(u) PROVE IssueKinds'
    <2>1. PICK c \in SUBSET Rows :
              /\ \A r \in c : UploadOf[r] = u
              /\ Issue!Mined(c, Issue!Type(u), Issue!Category(u)) \/ log' = log
              /\ mempool' = mempool \/ mempool' = mempool \cup {c}
              /\ index' = index
      BY <1>1, SentKind
    <2>2. \A v \in mempool' : \A r, s \in v : UploadOf[r] = UploadOf[s]
      BY <2>1 DEF IssueInv, IssueKinds
    <2>3. CASE Issue!Mined(c, Issue!Type(u), Issue!Category(u))
      <3>1. Issue!Type(u) \in {"bond", "share"} /\ Issue!Category(u) \in {"Issue", "Redeem"}
        BY DEF Issue!Type, Issue!Category
      <3>2. \A r \in c : Issue!Type(u) = Issue!Type(UploadOf[r]) /\ Issue!Category(u) = Issue!Category(UploadOf[r])
        BY <2>1
      <3> QED
        BY <2>1, <2>2, <2>3, <3>1, <3>2, KindsGrow
    <2>4. CASE log' = log
      BY <2>1, <2>2, <2>4 DEF IssueInv, IssueKinds, Issue!Type, Issue!Category
    <2> QED
      BY <2>1, <2>3, <2>4
  <1>2. ASSUME NEW t \in SUBSET Rows, Issue!MineLate(t) PROVE IssueKinds'
    <2> DEFINE u == UploadOf[CHOOSE r \in t : TRUE]
    <2>1. t \in mempool /\ mempool' = mempool \ {t} /\ Issue!Mined(t, Issue!Type(u), Issue!Category(u)) /\ index' = index
      BY <1>2 DEF Issue!MineLate
    <2>2. \A r \in t : u = UploadOf[r]
      <3>1. \A r \in t : (CHOOSE q \in t : TRUE) \in t
        OBVIOUS
      <3> QED
        BY <2>1, <3>1 DEF IssueInv, IssueKinds
    <2> HIDE DEF u
    <2>3. Issue!Type(u) \in {"bond", "share"} /\ Issue!Category(u) \in {"Issue", "Redeem"}
      BY DEF Issue!Type, Issue!Category
    <2>4. \A r \in t : Issue!Type(u) = Issue!Type(UploadOf[r]) /\ Issue!Category(u) = Issue!Category(UploadOf[r])
      BY <2>2
    <2>5. \A v \in mempool' : \A r, s \in v : UploadOf[r] = UploadOf[s]
      BY <2>1 DEF IssueInv, IssueKinds
    <2> QED
      BY <2>1, <2>3, <2>4, <2>5, KindsGrow
  <1>3. CASE Single
    <2>1. PICK type \in {"bond", "share"}, category \in {"Issue", "Redeem"} : Issue!SingleRequest(type, category)
      BY <1>3 DEF Single
    <2>2. Issue!Mined({}, type, category) /\ mempool' = mempool /\ index' = index
      BY <2>1 DEF Issue!SingleRequest
    <2>3. \A v \in mempool' : \A r, s \in v : UploadOf[r] = UploadOf[s]
      BY <2>2 DEF IssueInv, IssueKinds
    <2> QED
      BY <2>2, <2>3, KindsGrow
  <1>4. CASE Issue!SyncNewLogs
    <2>1. /\ index.synced < Len(log) /\ log' = log /\ mempool' = mempool
          /\ index' = [rows |-> [k \in 1..Len(log) |-> Issue!SyncAll(k)], synced |-> Len(log)]
      BY <1>4 DEF Issue!SyncNewLogs
    <2>2. /\ index.synced \in 0..Len(log) /\ DOMAIN index.rows = 1..index.synced /\ Len(log) \in Nat
          /\ \A k \in 1..index.synced, c \in {"Issue", "Redeem"} :
              index.rows[k][c] = IF c = log[k].category THEN 1 ELSE 0
      BY DEF IssueInv, IssueKinds, IssueTypes
    <2>3. ASSUME NEW k \in 1..Len(log)
          PROVE  Issue!SyncAll(k) = [c \in {"Issue", "Redeem"} |-> IF c = log[k].category THEN 1 ELSE 0]
      <3>1. ASSUME NEW c \in {"Issue", "Redeem"}
            PROVE  (IF k \in DOMAIN index.rows THEN index.rows[k][c] ELSE 0) + Issue!Cardinality(Issue!OfCategory(k, c))
                      = IF c = log[k].category THEN 1 ELSE 0
        <4>1. Issue!Cardinality(Issue!OfCategory(k, c)) = IF k > index.synced /\ log[k].category = c THEN 1 ELSE 0
          BY <2>1, FoundOnce, SameSets
        <4>2. k \in DOMAIN index.rows <=> ~(k > index.synced)
          BY <2>2
        <4>3. k \in DOMAIN index.rows => index.rows[k][c] = IF c = log[k].category THEN 1 ELSE 0
          BY <2>2
        <4> QED
          BY <4>1, <4>2, <4>3
      <3> QED
        BY <3>1 DEF Issue!SyncAll
    <2>4. /\ index'.synced \in 0..Len(log') /\ DOMAIN index'.rows = 1..index'.synced
          /\ \A k \in 1..index'.synced, c \in {"Issue", "Redeem"} :
              index'.rows[k][c] = IF c = log'[k].category THEN 1 ELSE 0
      BY <2>1, <2>2, <2>3
    <2> QED
      BY <2>1, <2>4 DEF IssueInv, IssueKinds, Issue!Type, Issue!Category
  <1>5. ASSUME NEW u \in Uploads, Create(u) \/ Issue!NoKey(u) \/ Issue!StartUpload(u) \/ Issue!EndUpload(u)
        PROVE  IssueKinds'
    <2>1. UNCHANGED <<log, mempool, index>>
      BY <1>5 DEF Create, Issue!CreateUpload, Issue!NoKey, Issue!StartUpload, Issue!EndUpload
    <2> QED
      BY <2>1 DEF IssueInv, IssueKinds, Issue!Type, Issue!Category
  <1>6. CASE \/ Issue!StartPass \/ Issue!EndPass \/ Issue!Save \/ Issue!PauseUpload
             \/ Issue!Shutdown \/ Issue!Fault \/ Issue!Restart \/ UNCHANGED Issue!vars
    <2>1. UNCHANGED <<log, mempool, index>>
      BY <1>6 DEF Issue!StartPass, Issue!EndPass, Issue!Save, Issue!PauseUpload, Issue!Shutdown,
         Issue!Fault, Issue!Restart, Issue!vars
    <2> QED
      BY <2>1 DEF IssueInv, IssueKinds, Issue!Type, Issue!Category
  <1> QED
    BY <1>1, <1>2, <1>3, <1>4, <1>5, <1>6, IssueSteps

LEMMA IssuePreserved ==
    ASSUME IssueAssumption, IssueInv, [Issue!Next]_Issue!vars
    PROVE  IssueInv'
  BY IssueTypesNext, IssueListsNext, IssueOnceNext, IssueNotesNext, IssueKindsNext DEF IssueInv

LEMMA IssueInvariant == IssueAssumption => (Issue!Spec => []IssueInv)
  <1> SUFFICES ASSUME IssueAssumption PROVE Issue!Spec => []IssueInv
    OBVIOUS
  <1>1. Issue!Init => IssueInv
    BY IssueInitially
  <1>2. IssueInv /\ [Issue!Next]_Issue!vars => IssueInv'
    BY IssuePreserved
  <1> QED
    BY <1>1, <1>2, PTL DEF Issue!Spec

-----------------------------------------------------------------------------
(* Issues and redemptions: what follows from the invariant.                *)

LEMMA IssueBounded ==
    ASSUME IssueInv
    PROVE  Issue!ExecutedOnce
  <1>1. \A r : Issue!Times(r) = Cardinality(Executed(r))
    BY SameSets DEF Issue!Times, Executed
  <1>2. ASSUME NEW r \in Rows \ past.lost
        PROVE  /\ Issue!Times(r) <= 1
               /\ row[r] = 1 => Issue!Times(r) = 1
               /\ row[r] = 2 /\ r \notin past.late => Issue!Times(r) = 0
    <2>1. /\ Cardinality(Executed(r)) <= 1
          /\ Executed(r) # {} => Cardinality(Executed(r)) = 1
          /\ Executed(r) = {} => Cardinality(Executed(r)) = 0
      <3>1. \A k, l \in Executed(r) : k = l
        BY DEF IssueInv, IssueOnce
      <3> QED
        BY <3>1, AtMostOne, Zenon
    <2> QED
      BY <1>1, <2>1 DEF IssueInv, IssueOnce
  <1> QED
    BY <1>2 DEF Issue!ExecutedOnce

\* What the API answers of an upload: the answer of the endpoint of its kind, if it is there.
LEMMA Answer ==
    ASSUME NEW u \in Uploads
    PROVE  Issue!Answers(u) = IF upload[u] = "none" THEN {}
                              ELSE {[processed |-> upload[u] = "processed",
                                     results |-> [r \in Issue!RowsOf(u) |-> row[r]]]}
  <1> DEFINE answer == [processed |-> upload[u] = "processed", results |-> [r \in Issue!RowsOf(u) |-> row[r]]]
  <1>1. answer # Issue!NotFound
    BY DEF Issue!NotFound
  <1>2. Issue!Type(u) \in {"bond", "share"} /\ Issue!Category(u) \in {"Issue", "Redeem"}
    BY DEF Issue!Type, Issue!Category
  <1>3. \A type, category : Issue!RetrieveStatus(u, type, category) =
           IF upload[u] = "none" \/ Issue!Type(u) # type \/ Issue!Category(u) # category THEN Issue!NotFound ELSE answer
    BY DEF Issue!RetrieveStatus
  <1> HIDE DEF answer
  <1>4. Issue!Answers(u) = {Issue!RetrieveStatus(u, "bond", "Issue"), Issue!RetrieveStatus(u, "share", "Issue"),
                            Issue!RetrieveStatus(u, "bond", "Redeem"), Issue!RetrieveStatus(u, "share", "Redeem")}
                           \ {Issue!NotFound}
    BY DEF Issue!Answers, Issue!RetrieveBatchAdditionalBondIssueStatus, Issue!RetrieveBatchAdditionalShareIssueStatus,
           Issue!RetrieveBatchBondRedemptionStatus, Issue!RetrieveBatchRedeem
  <1>5. Issue!Answers(u) = IF upload[u] = "none" THEN {} ELSE {answer}
    BY <1>1, <1>2, <1>3, <1>4
  <1> QED
    BY <1>5 DEF answer

LEMMA IssueTruth ==
    ASSUME IssueInv
    PROVE  Issue!ReportIsTrue
  <1>1. ASSUME NEW u \in Uploads
        PROVE  /\ Cardinality(Issue!Answers(u)) = IF upload[u] = "none" THEN 0 ELSE 1
               /\ \A answer \in Issue!Answers(u) :
                     /\ Cardinality(NotesOf(u)) = IF answer.processed THEN 1 ELSE 0
                     /\ \A i \in NotesOf(u) : notes[i].code \in {0, 3} =>
                           /\ notes[i].code = 3 <=> notes[i].errors # {}
                           /\ \A r \in Issue!RowsOf(u) :
                                 answer.results[r] = IF r \in notes[i].errors THEN 2 ELSE 1
    <2>1. Cardinality(Issue!Answers(u)) = IF upload[u] = "none" THEN 0 ELSE 1
      <3>1. CASE upload[u] = "none"
        BY <3>1, Answer, FS_EmptySet
      <3>2. CASE upload[u] # "none"
        <4>1. PICK answer : Issue!Answers(u) = {answer}
          BY <3>2, Answer
        <4> QED
          BY <3>2, <4>1, FS_Singleton
      <3> QED
        BY <3>1, <3>2
    <2>2. ASSUME NEW answer \in Issue!Answers(u)
          PROVE  answer.processed = (upload[u] = "processed") /\ \A r \in Issue!RowsOf(u) : answer.results[r] = row[r]
      BY <2>2, Answer
    <2>3. Cardinality(NotesOf(u)) = IF upload[u] = "processed" THEN 1 ELSE 0
      <3>1. \A i, j \in NotesOf(u) : i = j
        BY DEF NotesOf, IssueInv, IssueNotes
      <3>2. NotesOf(u) # {} <=> upload[u] = "processed"
        BY DEF NotesOf, IssueInv, IssueNotes
      <3>3. /\ NotesOf(u) # {} => Cardinality(NotesOf(u)) = 1
            /\ NotesOf(u) = {} => Cardinality(NotesOf(u)) = 0
        BY <3>1, AtMostOne, Zenon
      <3> QED
        BY <3>2, <3>3
    <2>4. ASSUME NEW i \in NotesOf(u), notes[i].code \in {0, 3}
          PROVE  /\ notes[i].code = 3 <=> notes[i].errors # {}
                 /\ \A r \in Issue!RowsOf(u) : row[r] = IF r \in notes[i].errors THEN 2 ELSE 1
      BY <2>4 DEF NotesOf, IssueInv, IssueNotes, NoteIsTrue, Issue!RowsOf
    <2> QED
      BY <2>1, <2>2, <2>3, <2>4
  <1>2. Issue!ListAllBatchAdditionalBondIssue \cup Issue!ListAllBatchAdditionalShareIssue
           \cup Issue!ListAllBatchBondRedemption \cup Issue!ListAllBatchShareRedemption
        = {u \in Uploads : upload[u] # "none"}
    BY DEF Issue!ListAllBatchAdditionalBondIssue, Issue!ListAllBatchAdditionalShareIssue,
           Issue!ListAllBatchBondRedemption, Issue!ListAllBatchShareRedemption, Issue!ListUploads,
           Issue!Type, Issue!Category
  <1>3. {u \in Uploads : upload[u] # "none"} = {u \in Uploads : Issue!Answers(u) # {}}
    BY Answer
  <1> QED
    BY <1>1, <1>2, <1>3, SameSets DEF Issue!ReportIsTrue, NotesOf

\* What a history has of a block.
LEMMA HistoryOf ==
    ASSUME IssueInv, NEW type \in {"bond", "share"}, NEW category \in {"Issue", "Redeem"}, NEW k \in DOMAIN log
    PROVE  /\ k \in DOMAIN Issue!History(type, category)
                 <=> k <= index.synced /\ log[k].type = type /\ log[k].category = category
           /\ k \in DOMAIN Issue!History(type, category) => Issue!History(type, category)[k] = 1
  <1>1. DOMAIN log = 1..Len(log) /\ Len(log) \in Nat
    BY DEF IssueInv, IssueTypes
  <1>2. /\ index.synced \in 0..Len(log) /\ DOMAIN index.rows = 1..index.synced
        /\ \A l \in 1..index.synced, c \in {"Issue", "Redeem"} :
              index.rows[l][c] = IF c = log[l].category THEN 1 ELSE 0
    BY DEF IssueInv, IssueKinds
  <1>3. k \in DOMAIN index.rows <=> k <= index.synced
    BY <1>1, <1>2
  <1>4. k <= index.synced => index.rows[k][category] = IF category = log[k].category THEN 1 ELSE 0
    BY <1>2, <1>3
  <1> QED
    BY <1>3, <1>4 DEF Issue!History

LEMMA IssueHistory ==
    ASSUME IssueInv
    PROVE  Issue!HistoryIsComplete
  <1> DEFINE Shown(h, k) == IF k \in DOMAIN h THEN h[k] ELSE 0
             of(k, type, category) ==
                IF k <= index.synced /\ log[k].type = type /\ log[k].category = category THEN 1 ELSE 0
  <1> SUFFICES ASSUME NEW k \in DOMAIN log
               PROVE  /\ Shown(Issue!ListBondAdditionalIssuanceHistory, k) + Shown(Issue!ListShareAdditionalIssuanceHistory, k)
                         + Shown(Issue!ListBondRedemptionHistory, k) + Shown(Issue!ListShareRedeemHistory, k)
                         = IF k <= index.synced THEN 1 ELSE 0
                      /\ \A r \in log[k].rows : k <= index.synced =>
                            (k \in DOMAIN Issue!ListShareRedeemHistory <=> UploadOf[r] \in Shares \cap Redemptions)
    BY DEF Issue!HistoryIsComplete
  <1>1. ASSUME NEW type \in {"bond", "share"}, NEW category \in {"Issue", "Redeem"}
        PROVE  /\ Shown(Issue!History(type, category), k) = of(k, type, category)
               /\ k \in DOMAIN Issue!History(type, category)
                     <=> k <= index.synced /\ log[k].type = type /\ log[k].category = category
    BY HistoryOf
  <1>2. log[k].type \in {"bond", "share"} /\ log[k].category \in {"Issue", "Redeem"}
    <2>1. log[k] \in IssueTx
      BY DEF IssueInv, IssueTypes
    <2> QED
      BY <2>1 DEF IssueTx
  <1> HIDE DEF Shown
  <1>3. Shown(Issue!ListBondAdditionalIssuanceHistory, k) + Shown(Issue!ListShareAdditionalIssuanceHistory, k)
           + Shown(Issue!ListBondRedemptionHistory, k) + Shown(Issue!ListShareRedeemHistory, k)
        = of(k, "bond", "Issue") + of(k, "share", "Issue") + of(k, "bond", "Redeem") + of(k, "share", "Redeem")
    BY <1>1 DEF Issue!ListBondAdditionalIssuanceHistory, Issue!ListShareAdditionalIssuanceHistory,
       Issue!ListBondRedemptionHistory, Issue!ListShareRedeemHistory
  <1>4. of(k, "bond", "Issue") + of(k, "share", "Issue") + of(k, "bond", "Redeem") + of(k, "share", "Redeem")
        = IF k <= index.synced THEN 1 ELSE 0
    BY <1>2
  <1>5. ASSUME NEW r \in log[k].rows, k <= index.synced
        PROVE  k \in DOMAIN Issue!ListShareRedeemHistory <=> UploadOf[r] \in Shares \cap Redemptions
    <2>1. log[k].type = Issue!Type(UploadOf[r]) /\ log[k].category = Issue!Category(UploadOf[r])
      BY DEF IssueInv, IssueKinds
    <2> QED
      BY <1>1, <1>5, <2>1 DEF Issue!ListShareRedeemHistory, Issue!Type, Issue!Category
  <1> QED
    BY <1>3, <1>4, <1>5

\* Every row of an upload of issues or redemptions is executed once at most, and what its status
\* says is so, except for rows whose commit was lost and those mined after the wait.
THEOREM IssuedOnce == IssueAssumption => (Issue!Spec => []Issue!ExecutedOnce)
  BY IssueInvariant, IssueBounded, PTL

\* An upload of issues or redemptions is shown by the endpoints of its kind only, and notified of
\* once, truly and for good, when it is processed.
THEOREM IssueReports == IssueAssumption => (Issue!Spec => []Issue!ReportIsTrue)
  BY IssueInvariant, IssueTruth, PTL

\* The histories of issues and redemptions have every event up to the block the indexer has
\* reached, once and under its kind, for any number of uploads, requests and failures.
THEOREM IssueHistories == IssueAssumption => (Issue!Spec => []Issue!HistoryIsComplete)
  BY IssueInvariant, IssueHistory, PTL

-----------------------------------------------------------------------------
(* Scheduled events: the invariant.                                        *)

EventPlaces == {"idle", "claim", "load", "event", "save", "off"}
Codes == {"no account", "no key", "not sent"}
EventNote == [event : Events, code : Codes]
EventPast == [faults : Nat, deleted : SUBSET Events, lost : SUBSET Events, seen : [Workers -> SUBSET Events]]
Owned == {"load", "event", "save"}
Distinct(s) == \A i, j \in DOMAIN s : s[i] = s[j] => i = j

EventTypes ==
    /\ rows \in Seq(Events) /\ Distinct(rows)
    /\ status \in [Events -> 0..2] /\ soft \subseteq Events
    /\ log \in Seq(Events) /\ notes \in Seq(EventNote)
    /\ chain \in [Events -> Nat] /\ now \in Nat
    /\ pc \in [Workers -> EventPlaces] /\ filter \in [Workers -> Nat]
    /\ issuer \in [Workers -> Sched!Issuers \cup {Sched!Nobody}]
    /\ list \in [Workers -> Seq(Events)]
    /\ outcome \in [Workers -> Codes \cup {"none", "updated"}]
    /\ past \in EventPast

Logged(e) == e \in SetOf(log)
Told(e) == \E i \in DOMAIN notes : notes[i].event = e

\* A worker has an issuer while it has a list, alone, and has claimed it; what is on
\* its list is of that issuer, and nothing was written about it.
EventLists ==
    /\ \A w \in Workers :
          /\ issuer[w] # Sched!Nobody <=> pc[w] \in Owned
          /\ issuer[w] # Sched!Nobody => issuer[w] \in claimed
          /\ pc[w] \notin {"event", "save"} => list[w] = <<>>
          /\ pc[w] = "save" => list[w] # <<>>
          /\ outcome[w] # "none" <=> pc[w] = "save"
          /\ Distinct(list[w])
          /\ \A e \in SetOf(list[w]) : /\ IssuerOf[e] = issuer[w] /\ status[e] = 0
                                       /\ ~Logged(e) /\ ~Told(e) /\ Sched!Known(e)
    /\ \A v, w \in Workers : v # w /\ issuer[v] = issuer[w] => issuer[v] = Sched!Nobody

\* What is written of an event fits its status while its row is there, and is written
\* once.
EventRecords ==
    /\ Distinct(log)
    /\ \A i, j \in DOMAIN notes : notes[i].event = notes[j].event => i = j
    /\ \A e \in Events :
          /\ ~(Logged(e) /\ Told(e))
          /\ Logged(e) => status[e] = 1 \/ e \notin SetOf(rows)
          /\ Told(e) => status[e] = 2 \/ e \notin SetOf(rows)
          /\ status[e] = 1 => Logged(e)
          /\ status[e] = 2 => Told(e)
          /\ Logged(e) \/ Told(e) => Sched!Known(e)

\* The chain has carried out what is logged or about to be.
Updating(e) == \E w \in Workers : pc[w] = "save" /\ outcome[w] = "updated" /\ Head(list[w]) = e
EventChain ==
    \A e \in Events \ past.lost : chain[e] = IF Logged(e) \/ Updating(e) THEN 1 ELSE 0

\* e comes before f by date, and then by the order of the rows.
Before(r, e, f) ==
    \/ At[e] < At[f]
    \/ At[e] = At[f] /\ \E i, j \in DOMAIN r : r[i] = e /\ r[j] = f /\ i < j

\* A list is in order, and has all that was there when it was read, is due and pending.
ListInOrder(w) ==
    /\ pc[w] \notin {"event", "save"} => past.seen[w] = {}
    /\ \A e \in SetOf(list[w]) : At[e] <= filter[w]
    /\ \A i, j \in DOMAIN list[w] :
          i < j /\ list[w][i] \in SetOf(rows) /\ list[w][j] \in SetOf(rows)
          => Before(rows, list[w][i], list[w][j])
    /\ \A e \in past.seen[w] :
          /\ Sched!Known(e)
          /\ e \in SetOf(rows) /\ e \notin soft /\ status[e] = 0
             /\ IssuerOf[e] = issuer[w] /\ At[e] <= filter[w]
             => e \in SetOf(list[w])

EventOrder == \A w \in Workers : ListInOrder(w)

EventInv == EventTypes /\ EventLists /\ EventRecords /\ EventChain /\ EventOrder
EventAssumption == Sched!ScheduledEventsAssumption

-----------------------------------------------------------------------------
(* Scheduled events: sequences.                                            *)

LEMMA TailOf ==
    ASSUME NEW X, NEW s \in Seq(X), s # <<>>, Distinct(s)
    PROVE  /\ Tail(s) \in Seq(X) /\ Head(s) \in SetOf(s) /\ Head(s) \in X /\ Head(s) = s[1]
           /\ \A i \in DOMAIN Tail(s) : i \in Int /\ i + 1 \in DOMAIN s /\ Tail(s)[i] = s[i + 1]
           /\ Distinct(Tail(s)) /\ SetOf(Tail(s)) = SetOf(s) \ {Head(s)}
  <1>1. Len(s) \in Nat \ {0} /\ DOMAIN s = 1..Len(s) /\ \A i \in 1..Len(s) : s[i] \in X
    OBVIOUS
  <1>2. /\ Tail(s) \in Seq(X) /\ Head(s) = s[1] /\ DOMAIN Tail(s) = 1..(Len(s) - 1)
        /\ \A i \in 1..(Len(s) - 1) : Tail(s)[i] = s[i + 1]
    BY <1>1
  <1>3. \A i \in DOMAIN Tail(s) : i \in Int /\ i + 1 \in DOMAIN s /\ Tail(s)[i] = s[i + 1]
    BY <1>1, <1>2
  <1>4. Distinct(Tail(s))
    BY <1>3 DEF Distinct
  <1>5. SetOf(Tail(s)) \subseteq SetOf(s) \ {Head(s)}
    <2>1. ASSUME NEW i \in DOMAIN Tail(s) PROVE Tail(s)[i] \in SetOf(s) /\ Tail(s)[i] # Head(s)
      <3>1. i + 1 # 1 /\ i + 1 \in DOMAIN s /\ 1 \in DOMAIN s
        BY <1>1, <1>2, <1>3, <2>1
      <3> QED
        BY <1>2, <1>3, <3>1 DEF SetOf, Distinct
    <2> QED
      BY <2>1 DEF SetOf
  <1>6. SetOf(s) \ {Head(s)} \subseteq SetOf(Tail(s))
    <2>1. ASSUME NEW i \in DOMAIN s, s[i] # Head(s) PROVE s[i] \in SetOf(Tail(s))
      <3>1. i - 1 \in DOMAIN Tail(s) /\ Tail(s)[i - 1] = s[i]
        BY <1>1, <1>2, <2>1
      <3> QED
        BY <3>1 DEF SetOf
    <2> QED
      BY <2>1 DEF SetOf
  <1>7. 1 \in DOMAIN s /\ s[1] \in X
    BY <1>1
  <1>8. Head(s) \in SetOf(s)
    BY <1>2, <1>7 DEF SetOf
  <1> QED
    BY <1>2, <1>3, <1>4, <1>5, <1>6, <1>7, <1>8

LEMMA AppendOf ==
    ASSUME NEW X, NEW s \in Seq(X), NEW e \in X
    PROVE  /\ Append(s, e) \in Seq(X) /\ SetOf(Append(s, e)) = SetOf(s) \cup {e}
           /\ Distinct(s) /\ e \notin SetOf(s) => Distinct(Append(s, e))
           /\ DOMAIN Append(s, e) = 1..(Len(s) + 1) /\ DOMAIN s = 1..Len(s) /\ Len(s) \in Nat
           /\ Append(s, e)[Len(s) + 1] = e /\ \A i \in DOMAIN s : Append(s, e)[i] = s[i]
  <1> DEFINE t == Append(s, e)
  <1>1. /\ t \in Seq(X) /\ DOMAIN t = 1..(Len(s) + 1) /\ DOMAIN s = 1..Len(s) /\ Len(s) \in Nat
        /\ t[Len(s) + 1] = e /\ \A i \in DOMAIN s : t[i] = s[i]
    OBVIOUS
  <1> HIDE DEF t
  <1>2. \A i \in DOMAIN t : i \in DOMAIN s \/ i = Len(s) + 1
    BY <1>1
  <1>3. SetOf(t) = SetOf(s) \cup {e}
    <2>1. SetOf(t) \subseteq SetOf(s) \cup {e}
      BY <1>1, <1>2 DEF SetOf
    <2>2. SetOf(s) \cup {e} \subseteq SetOf(t)
      <3>1. Len(s) + 1 \in DOMAIN t /\ \A i \in DOMAIN s : i \in DOMAIN t
        BY <1>1
      <3> QED
        BY <1>1, <3>1 DEF SetOf
    <2> QED
      BY <2>1, <2>2
  <1>4. Distinct(s) /\ e \notin SetOf(s) => Distinct(t)
    BY <1>1, <1>2 DEF SetOf, Distinct
  <1> QED
    BY <1>1, <1>3, <1>4 DEF t

\* What comes later in a sequence leaves the order of the others alone.
LEMMA JoinOf ==
    ASSUME NEW X, NEW s \in Seq(X), NEW t \in Seq(X)
    PROVE  /\ s \o t \in Seq(X) /\ SetOf(s \o t) = SetOf(s) \cup SetOf(t)
           /\ Distinct(s) /\ Distinct(t) /\ SetOf(s) \cap SetOf(t) = {} => Distinct(s \o t)
           /\ \A e, f : Before(s, e, f) => Before(s \o t, e, f)
  <1> DEFINE u == s \o t
  <1>1. /\ u \in Seq(X) /\ DOMAIN u = 1..(Len(s) + Len(t)) /\ DOMAIN s = 1..Len(s) /\ DOMAIN t = 1..Len(t)
        /\ Len(s) \in Nat /\ Len(t) \in Nat
        /\ \A i \in DOMAIN s : u[i] = s[i]
        /\ \A i \in DOMAIN u : i > Len(s) => u[i] = t[i - Len(s)]
    OBVIOUS
  <1> HIDE DEF u
  <1>2. \A i \in DOMAIN u : i \in DOMAIN s \/ (i > Len(s) /\ i - Len(s) \in DOMAIN t /\ u[i] = t[i - Len(s)])
    BY <1>1
  <1>3. SetOf(u) \subseteq SetOf(s) \cup SetOf(t)
    BY <1>1, <1>2 DEF SetOf
  <1>4. SetOf(s) \cup SetOf(t) \subseteq SetOf(u)
    <2>1. \A i \in DOMAIN s : i \in DOMAIN u
      BY <1>1
    <2>2. \A i \in DOMAIN t : i + Len(s) \in DOMAIN u /\ u[i + Len(s)] = t[i]
      BY <1>1
    <2> QED
      BY <1>1, <2>1, <2>2 DEF SetOf
  <1>5. Distinct(s) /\ Distinct(t) /\ SetOf(s) \cap SetOf(t) = {} => Distinct(u)
    <2>1. ASSUME Distinct(s), Distinct(t), SetOf(s) \cap SetOf(t) = {},
                 NEW i \in DOMAIN u, NEW j \in DOMAIN u, u[i] = u[j]
          PROVE  i = j
      <3>1. CASE i \in DOMAIN s /\ j \in DOMAIN s
        BY <1>1, <2>1, <3>1 DEF Distinct
      <3>2. CASE i \in DOMAIN s /\ j \notin DOMAIN s
        BY <1>1, <1>2, <2>1, <3>2 DEF SetOf
      <3>3. CASE i \notin DOMAIN s /\ j \in DOMAIN s
        BY <1>1, <1>2, <2>1, <3>3 DEF SetOf
      <3>4. CASE i \notin DOMAIN s /\ j \notin DOMAIN s
        <4>1. i - Len(s) = j - Len(s)
          BY <1>2, <2>1, <3>4 DEF Distinct
        <4> QED
          BY <1>1, <4>1
      <3> QED
        BY <3>1, <3>2, <3>3, <3>4
    <2> QED
      BY <2>1 DEF Distinct
  <1>6. \A e, f : Before(s, e, f) => Before(u, e, f)
    <2>1. \A i \in DOMAIN s : i \in DOMAIN u /\ u[i] = s[i]
      BY <1>1
    <2> QED
      BY <2>1 DEF Before
  <1> QED
    BY <1>1, <1>3, <1>4, <1>5, <1>6 DEF u

LEMMA RemoveOf ==
    ASSUME NEW X, NEW s \in Seq(X), NEW k \in DOMAIN s, Distinct(s)
    PROVE  LET r == Sched!Without(s, k)
           IN  /\ r \in Seq(X) /\ SetOf(r) = SetOf(s) \ {s[k]} /\ Distinct(r)
               /\ \A e, f \in SetOf(r) : Before(s, e, f) => Before(r, e, f)
  <1> DEFINE r == Sched!Without(s, k)
             Old(i) == IF i < k THEN i ELSE i + 1
             New(i) == IF i < k THEN i ELSE i - 1
  <1>1. /\ Len(s) \in Nat /\ DOMAIN s = 1..Len(s) /\ k \in 1..Len(s)
    OBVIOUS
  <1>2. /\ r \in Seq(X) /\ DOMAIN r = 1..(Len(s) - 1)
        /\ \A i \in 1..(Len(s) - 1) : r[i] = s[Old(i)]
    <2> DEFINE a == SubSeq(s, 1, k - 1)
               b == SubSeq(s, k + 1, Len(s))
    <2>1. /\ a \in Seq(X) /\ Len(a) = k - 1 /\ \A i \in 1..(k - 1) : a[i] = s[i]
      BY <1>1
    <2>2. /\ b \in Seq(X) /\ Len(b) = Len(s) - k /\ \A i \in 1..(Len(s) - k) : b[i] = s[i + k]
      BY <1>1
    <2> HIDE DEF a, b
    <2>3. /\ r \in Seq(X) /\ DOMAIN r = 1..(Len(a) + Len(b))
          /\ DOMAIN a = 1..Len(a) /\ \A i \in DOMAIN a : r[i] = a[i]
          /\ \A i \in DOMAIN r : i > Len(a) => r[i] = b[i - Len(a)]
      <3>1. r = a \o b /\ a \in Seq(X) /\ b \in Seq(X)
        BY <2>1, <2>2 DEF Sched!Without, a, b
      <3> HIDE DEF r
      <3> QED
        BY <3>1
    <2> HIDE DEF r
    <2>4. r \in Seq(X) /\ DOMAIN r = 1..(Len(s) - 1)
      BY <1>1, <2>1, <2>2, <2>3
    <2>5. ASSUME NEW i \in 1..(Len(s) - 1) PROVE r[i] = s[Old(i)]
      <3>1. CASE i < k
        <4>1. i \in DOMAIN a /\ i \in 1..(k - 1)
          BY <1>1, <2>1, <2>3, <3>1
        <4> QED
          BY <2>1, <2>3, <3>1, <4>1
      <3>2. CASE ~(i < k)
        <4>1. i \in DOMAIN r /\ i > Len(a) /\ i - Len(a) \in 1..(Len(s) - k)
              /\ (i - Len(a)) + k = i + 1
          BY <1>1, <2>1, <2>4, <3>2
        <4> QED
          BY <2>2, <2>3, <3>2, <4>1
      <3> QED
        BY <3>1, <3>2
    <2> QED
      BY <2>4, <2>5
  <1> HIDE DEF r
  <1>3. \A i \in DOMAIN r : Old(i) \in DOMAIN s /\ Old(i) # k /\ r[i] = s[Old(i)] /\ i \in Int
    BY <1>1, <1>2
  <1>4. \A i \in DOMAIN s : i # k => New(i) \in DOMAIN r /\ r[New(i)] = s[i] /\ i \in Int
    BY <1>1, <1>2
  <1>5. k \in Int
    BY <1>1
  <1>6. SetOf(r) \subseteq SetOf(s) \ {s[k]}
    <2> HIDE DEF Old
    <2> QED
      BY <1>3 DEF SetOf, Distinct
  <1>7. SetOf(s) \ {s[k]} \subseteq SetOf(r)
    <2> HIDE DEF New
    <2> QED
      BY <1>4 DEF SetOf
  <1>8. Distinct(r)
    BY <1>3, <1>5 DEF Distinct
  <1>9. ASSUME NEW e \in SetOf(r), NEW f \in SetOf(r), Before(s, e, f)
        PROVE  Before(r, e, f)
    <2>1. CASE At[e] < At[f]
      BY <2>1 DEF Before
    <2>2. CASE ~(At[e] < At[f])
      <3>1. At[e] = At[f] /\ \E i, j \in DOMAIN s : s[i] = e /\ s[j] = f /\ i < j
        BY <1>9, <2>2 DEF Before
      <3>2. PICK i \in DOMAIN s, j \in DOMAIN s : s[i] = e /\ s[j] = f /\ i < j
        BY <3>1
      <3>3. i # k /\ j # k
        BY <1>6, <1>9, <3>2
      <3>4. New(i) \in DOMAIN r /\ r[New(i)] = e /\ New(j) \in DOMAIN r /\ r[New(j)] = f
        BY <1>4, <3>2, <3>3
      <3>5. New(i) < New(j)
        BY <1>1, <3>2, <3>3
      <3> QED
        BY <3>1, <3>4, <3>5 DEF Before
    <2> QED
      BY <2>1, <2>2
  <1> QED
    BY <1>2, <1>6, <1>7, <1>8, <1>9 DEF r

-----------------------------------------------------------------------------
(* Scheduled events: the steps.                                            *)

LEMMA EventSets ==
    \A S : Sched!Cardinality(S) = Cardinality(S) /\ (Sched!IsFiniteSet(S) <=> IsFiniteSet(S))
  <1>1. \A S : Sched!IsFiniteSet(S) <=> IsFiniteSet(S)
    BY Zenon DEF Sched!IsFiniteSet, IsFiniteSet
  <1>2. \A S : Sched!Cardinality(S) = Cardinality(S)
    BY <1>1, Zenon DEF Sched!Cardinality, Cardinality, Sched!IsFiniteSet, IsFiniteSet
  <1> QED
    BY <1>1, <1>2

LEMMA EventSteps ==
    ASSUME EventAssumption, Sched!Next
    PROVE  \/ \E new \in Seq(Events) : Sched!Schedule(new, "bond") \/ Sched!Schedule(new, "share")
           \/ \E e \in Events : Sched!Delete(e, "bond") \/ Sched!Delete(e, "share")
           \/ \E w \in Workers : Sched!WorkerStep(w) \/ Sched!SaveFails(w)
           \/ Sched!Tick \/ Sched!Shutdown \/ Sched!Crash \/ Sched!Restart
  <1>1. \A e \in Events : <<e>> \in Seq(Events)
    OBVIOUS
  <1>2. \A s \in Sched!Requests : s \in Seq(Events)
    <2>1. Sched!Cardinality(Events) \in Nat
      BY EventSets, FS_CardinalityType DEF EventAssumption, Sched!ScheduledEventsAssumption
    <2> QED
      BY <2>1 DEF Sched!Requests
  <1> QED
    BY <1>1, <1>2, Zenon
       DEF Sched!Next, Sched!ScheduleBondTokenUpdateEvent, Sched!ScheduleShareTokenUpdateEvent,
           Sched!ScheduleBondTokenUpdateEventsInBatch, Sched!ScheduleShareTokenUpdateEventsInBatch,
           Sched!DeleteScheduledBondTokenUpdateEvent, Sched!DeleteScheduledShareTokenUpdateEvent

LEMMA EventsPosted ==
    ASSUME EventTypes, NEW new \in Seq(Events), NEW type, Sched!Schedule(new, type)
    PROVE  /\ rows' = rows \o new /\ rows' \in Seq(Events) /\ Distinct(rows')
           /\ SetOf(rows') = SetOf(rows) \cup SetOf(new)
           /\ \A e \in SetOf(new) : e \notin SetOf(rows) /\ e \notin past.deleted
           /\ \A e, f : Before(rows, e, f) => Before(rows', e, f)
  <1>1. /\ rows' = rows \o new /\ Distinct(new)
        /\ \A e \in SetOf(new) : e \notin SetOf(rows) /\ e \notin past.deleted
    BY DEF Sched!Schedule, Sched!IsInjective, Sched!Range, SetOf, Distinct, Sched!Known
  <1>2. rows \in Seq(Events) /\ Distinct(rows)
    BY DEF EventTypes
  <1>3. /\ rows \o new \in Seq(Events) /\ SetOf(rows \o new) = SetOf(rows) \cup SetOf(new)
        /\ Distinct(rows) /\ Distinct(new) /\ SetOf(rows) \cap SetOf(new) = {} => Distinct(rows \o new)
        /\ \A e, f : Before(rows, e, f) => Before(rows \o new, e, f)
    BY <1>2, JoinOf
  <1>4. SetOf(rows) \cap SetOf(new) = {}
    BY <1>1
  <1> QED
    BY <1>1, <1>2, <1>3, <1>4

LEMMA EventRemoved ==
    ASSUME EventTypes, NEW e \in Events, NEW type, Sched!Delete(e, type)
    PROVE  /\ rows' \in Seq(Events) /\ Distinct(rows') /\ SetOf(rows') \subseteq SetOf(rows)
           /\ SetOf(rows) \subseteq SetOf(rows') \cup {e}
           /\ \A f, g \in SetOf(rows') : Before(rows, f, g) => Before(rows', f, g)
           /\ soft \subseteq soft' /\ soft' \subseteq Events
           /\ past' = [past EXCEPT !.deleted = @ \cup {e}]
           /\ UNCHANGED <<status, log, notes, chain, now, pc, filter, issuer, list, outcome, claimed>>
  <1>1. /\ e \in SetOf(rows) /\ past' = [past EXCEPT !.deleted = @ \cup {e}]
        /\ UNCHANGED <<status, log, notes, chain, now, pc, filter, issuer, list, outcome, claimed>>
        /\ \/ soft' = soft \cup {e} /\ UNCHANGED rows
           \/ rows' = Sched!Without(rows, Sched!Id(e)) /\ UNCHANGED soft
    BY DEF Sched!Delete, Sched!Range, SetOf, Sched!local
  <1>2. Sched!Id(e) \in DOMAIN rows /\ rows[Sched!Id(e)] = e
    BY <1>1 DEF Sched!Id, SetOf
  <1>3. CASE UNCHANGED rows /\ soft' = soft \cup {e}
    BY <1>1, <1>3 DEF EventTypes
  <1>4. CASE rows' = Sched!Without(rows, Sched!Id(e)) /\ UNCHANGED soft
    <2>1. /\ rows' \in Seq(Events) /\ Distinct(rows') /\ SetOf(rows') = SetOf(rows) \ {e}
          /\ \A f, g \in SetOf(rows') : Before(rows, f, g) => Before(rows', f, g)
      BY <1>2, <1>4, RemoveOf DEF EventTypes
    <2> QED
      BY <1>1, <1>4, <2>1 DEF EventTypes
  <1> QED
    BY <1>1, <1>3, <1>4

\* The rows by date and then by id.
LEMMA EarlierIs ==
    ASSUME EventAssumption, EventTypes, NEW e \in SetOf(rows), NEW f \in SetOf(rows)
    PROVE  /\ Sched!Earlier(e, f) <=> Before(rows, e, f)
           /\ ~(Before(rows, e, f) /\ Before(rows, f, e))
  <1>1. /\ e \in Events /\ f \in Events /\ DOMAIN rows \subseteq Int
        /\ At[e] \in Int /\ At[f] \in Int
    BY DEF EventTypes, SetOf, EventAssumption, Sched!ScheduledEventsAssumption
  <1>2. /\ Sched!Id(e) \in DOMAIN rows /\ rows[Sched!Id(e)] = e
        /\ Sched!Id(f) \in DOMAIN rows /\ rows[Sched!Id(f)] = f
    BY DEF Sched!Id, SetOf
  <1>3. \A i, j \in DOMAIN rows : rows[i] = e /\ rows[j] = f => i = Sched!Id(e) /\ j = Sched!Id(f)
    BY <1>2 DEF EventTypes, Distinct
  <1> QED
    BY <1>1, <1>2, <1>3 DEF Sched!Earlier, Before

LEMMA EventsListed ==
    ASSUME EventAssumption, EventTypes, NEW S, S \subseteq SetOf(rows), NEW s \in Sched!InOrder(S)
    PROVE  /\ s \in Seq(Events) /\ SetOf(s) = S /\ Distinct(s)
           /\ \A i, j \in DOMAIN s : i < j => Before(rows, s[i], s[j])
  <1>1. S \subseteq Events
    BY DEF EventTypes, SetOf
  <1>2. Sched!Cardinality(S) \in Nat
    BY <1>1, EventSets, FS_Subset, FS_CardinalityType DEF EventAssumption, Sched!ScheduledEventsAssumption
  <1>3. /\ s \in [1..Sched!Cardinality(S) -> S] /\ SetOf(s) = S
        /\ \A i, j \in DOMAIN s : i < j => Sched!Earlier(s[i], s[j])
    BY DEF Sched!InOrder, Sched!Range, SetOf
  <1>4. s \in Seq(Events) /\ DOMAIN s \subseteq Int /\ \A i \in DOMAIN s : s[i] \in SetOf(rows)
    BY <1>1, <1>2, <1>3
  <1>5. \A i, j \in DOMAIN s : i < j => Before(rows, s[i], s[j])
    BY <1>3, <1>4, EarlierIs
  <1>6. Distinct(s)
    <2>1. ASSUME NEW i \in DOMAIN s, NEW j \in DOMAIN s, s[i] = s[j], i < j PROVE FALSE
      BY <1>4, <1>5, <2>1, EarlierIs
    <2> QED
      BY <1>4, <2>1 DEF Distinct
  <1> QED
    BY <1>3, <1>4, <1>5, <1>6

\* What a worker finds when it reads the events of its issuer.
LEMMA EventsRead ==
    ASSUME EventAssumption, EventTypes, NEW w \in Workers, Sched!LoadEvents(w)
    PROVE  \/ /\ pc' = [pc EXCEPT ![w] = "event"] /\ UNCHANGED issuer
              /\ past' = [past EXCEPT !.seen[w] = SetOf(rows)]
              /\ \E s \in Seq(Events) :
                    /\ list' = [list EXCEPT ![w] = s] /\ Distinct(s)
                    /\ SetOf(s) = {e \in SetOf(rows) : /\ status[e] = 0 /\ e \notin soft /\ At[e] <= filter[w]
                                                       /\ IssuerOf[e] = issuer[w]}
                    /\ \A i, j \in DOMAIN s : i < j => Before(rows, s[i], s[j])
           \/ /\ pc' = [pc EXCEPT ![w] = "idle"] /\ issuer' = [issuer EXCEPT ![w] = Sched!Nobody]
              /\ past' = [past EXCEPT !.faults = @ + 1] \/ past' = past
              /\ UNCHANGED list
  <1> DEFINE own == {e \in Sched!Due(filter[w]) : IssuerOf[e] = issuer[w]}
  <1>1. own = {e \in SetOf(rows) : /\ status[e] = 0 /\ e \notin soft /\ At[e] <= filter[w]
                                  /\ IssuerOf[e] = issuer[w]}
    BY DEF Sched!Due, Sched!Range, SetOf
  <1>2. \/ /\ pc' = [pc EXCEPT ![w] = "event"] /\ UNCHANGED issuer
           /\ past' = [past EXCEPT !.seen[w] = SetOf(rows)]
           /\ \E s \in Sched!InOrder(own) : list' = [list EXCEPT ![w] = s]
        \/ /\ pc' = [pc EXCEPT ![w] = "idle"] /\ issuer' = [issuer EXCEPT ![w] = Sched!Nobody]
           /\ past' = [past EXCEPT !.faults = @ + 1] \/ past' = past
           /\ UNCHANGED list
    BY DEF Sched!LoadEvents, Sched!Goto, Sched!Range, SetOf
  <1> HIDE DEF own
  <1>3. own \subseteq SetOf(rows)
    BY <1>1
  <1>4. \A s \in Sched!InOrder(own) :
           /\ s \in Seq(Events) /\ SetOf(s) = own /\ Distinct(s)
           /\ \A i, j \in DOMAIN s : i < j => Before(rows, s[i], s[j])
    BY <1>3, EventsListed
  <1> QED
    BY <1>1, <1>2, <1>4

LEMMA EventInitially ==
    ASSUME EventAssumption, Sched!Init
    PROVE  EventInv
  <1> USE DEF EventAssumption, Sched!ScheduledEventsAssumption, Sched!Init
  <1>1. EventTypes
    BY DEF EventTypes, EventPlaces, EventPast, Distinct
  <1>2. EventLists
    BY DEF EventLists, Distinct, Owned, SetOf
  <1>3. EventRecords
    BY DEF EventRecords, Distinct, Logged, Told, SetOf
  <1>4. EventChain
    BY DEF EventChain, Logged, Updating, SetOf
  <1>5. EventOrder
    BY DEF EventOrder, ListInOrder, SetOf
  <1> QED
    BY <1>1, <1>2, <1>3, <1>4, <1>5 DEF EventInv

\* Failures, and what is remembered of a pass.
LEMMA EventPastGrows ==
    ASSUME past \in EventPast, NEW S \in SUBSET Events, NEW w \in Workers, NEW T \in SUBSET Events,
           \/ past' = [past EXCEPT !.deleted = @ \cup S]
           \/ past' = [past EXCEPT !.faults = @ + 1]
           \/ past' = [past EXCEPT !.seen[w] = T]
           \/ past' = [past EXCEPT !.faults = @ + 1, !.seen[w] = T]
           \/ past' = [past EXCEPT !.faults = @ + 1, !.seen[w] = T, !.lost = @ \cup S]
           \/ past' = [past EXCEPT !.faults = @ + 1, !.seen = [v \in Workers |-> {}], !.lost = @ \cup S]
    PROVE  past' \in EventPast
  <1>1. /\ past.faults + 1 \in Nat /\ past.deleted \cup S \in SUBSET Events
        /\ past.lost \cup S \in SUBSET Events
        /\ [past.seen EXCEPT ![w] = T] \in [Workers -> SUBSET Events]
        /\ [v \in Workers |-> {}] \in [Workers -> SUBSET Events]
    BY DEF EventPast
  <1> QED
    BY <1>1 DEF EventPast

LEMMA EventReleased ==
    ASSUME EventTypes, NEW w \in Workers, NEW where \in {"claim", "idle"}, Sched!Released(w, where)
    PROVE  /\ pc' = [pc EXCEPT ![w] = where] /\ pc' \in [Workers -> EventPlaces]
           /\ list' = [list EXCEPT ![w] = <<>>] /\ list' \in [Workers -> Seq(Events)]
           /\ issuer' = [issuer EXCEPT ![w] = Sched!Nobody]
           /\ issuer' \in [Workers -> Sched!Issuers \cup {Sched!Nobody}]
           /\ claimed' = claimed \ {issuer[w]}
  <1>1. <<>> \in Seq(Events) /\ where \in EventPlaces
    BY DEF EventPlaces
  <1> QED
    BY <1>1 DEF EventTypes, Sched!Released, Sched!Goto

LEMMA EventTypesNext ==
    ASSUME EventAssumption, EventInv, Sched!Next
    PROVE  EventTypes'
  <1> USE DEF EventTypes, EventPlaces
  <1>0. EventTypes /\ past \in EventPast
    BY DEF EventInv
  <1>1. CASE \E new \in Seq(Events) : Sched!Schedule(new, "bond") \/ Sched!Schedule(new, "share")
    <2>1. rows' \in Seq(Events) /\ Distinct(rows')
      BY <1>0, <1>1, EventsPosted
    <2> QED
      BY <1>0, <1>1, <2>1 DEF Sched!Schedule, Sched!local
  <1>2. CASE \E e \in Events : Sched!Delete(e, "bond") \/ Sched!Delete(e, "share")
    <2>1. PICK e \in Events : Sched!Delete(e, "bond") \/ Sched!Delete(e, "share")
      BY <1>2
    <2>2. /\ rows' \in Seq(Events) /\ Distinct(rows') /\ soft' \subseteq Events
          /\ past' = [past EXCEPT !.deleted = @ \cup {e}]
          /\ UNCHANGED <<status, log, notes, chain, now, pc, filter, issuer, list, outcome>>
      BY <1>0, <2>1, EventRemoved
    <2>3. past' \in EventPast
      BY <1>0, <2>2 DEF EventPast
    <2> QED
      BY <1>0, <2>2, <2>3
  <1>3. ASSUME NEW w \in Workers, Sched!StartPass(w) \/ Sched!Claim(w) \/ Sched!LeavePass(w)
        PROVE  EventTypes'
    <2>1. \A e \in Sched!Due(filter[w]) : IssuerOf[e] \in Sched!Issuers
      BY <1>0 DEF Sched!Due, Sched!Range, Sched!Issuers, SetOf
    <2> QED
      BY <1>0, <1>3, <2>1 DEF Sched!StartPass, Sched!Claim, Sched!LeavePass, Sched!Goto, Sched!db, Sched!local
  <1>4. ASSUME NEW w \in Workers, Sched!LoadEvents(w)
        PROVE  EventTypes'
    <2>1. UNCHANGED <<rows, status, soft, log, notes, chain, now, filter, outcome>>
      BY <1>4 DEF Sched!LoadEvents, Sched!db
    <2>2. SetOf(rows) \in SUBSET Events
      BY <1>0 DEF SetOf
    <2>3. past' \in EventPast
      BY <1>0, <1>4, <2>2, EventsRead, EventPastGrows
    <2>4. pc' \in [Workers -> EventPlaces] /\ list' \in [Workers -> Seq(Events)]
          /\ issuer' \in [Workers -> Sched!Issuers \cup {Sched!Nobody}]
      BY <1>0, <1>4, EventsRead
    <2> QED
      BY <1>0, <2>1, <2>3, <2>4
  <1>5. ASSUME NEW w \in Workers, Sched!ReleaseProcessingIssuer(w) \/ Sched!ExecuteFails(w)
        PROVE  EventTypes'
    <2>1. past' \in EventPast
      <3>1. past' = [past EXCEPT !.seen[w] = {}] \/ past' = [past EXCEPT !.faults = @ + 1, !.seen[w] = {}]
        BY <1>5 DEF Sched!ReleaseProcessingIssuer, Sched!ExecuteFails
      <3>2. {} \in SUBSET Events
        OBVIOUS
      <3> QED
        BY <1>0, <3>1, <3>2, EventPastGrows
    <2>2. /\ UNCHANGED <<rows, status, soft, log, notes, chain, now, filter, outcome>>
          /\ Sched!Released(w, "claim")
      BY <1>5 DEF Sched!ReleaseProcessingIssuer, Sched!ExecuteFails, Sched!db
    <2> QED
      BY <1>0, <2>1, <2>2, EventReleased
  <1>6. ASSUME NEW w \in Workers, Sched!NoKey(w) \/ Sched!Execute(w)
        PROVE  EventTypes'
    <2>1. list[w] # <<>> /\ list[w] \in Seq(Events)
      BY <1>0, <1>6 DEF Sched!NoKey, Sched!Execute
    <2>2. Head(list[w]) \in Events /\ chain[Head(list[w])] + 1 \in Nat
      BY <1>0, <2>1
    <2>3. chain' \in [Events -> Nat]
      BY <1>0, <1>6, <2>2 DEF Sched!NoKey, Sched!Execute
    <2>4. /\ UNCHANGED <<rows, status, soft, log, notes, now, filter, issuer, list, past>>
          /\ \E code \in Codes \cup {"updated"} : Sched!Finish(w, code)
      BY <1>6 DEF Sched!NoKey, Sched!Execute, Codes, Sched!db
    <2> QED
      BY <1>0, <2>3, <2>4 DEF Sched!Finish, Sched!Goto
  <1>7. ASSUME NEW w \in Workers, Sched!Save(w)
        PROVE  EventTypes'
    <2>1. list[w] # <<>> /\ outcome[w] # "none" /\ list[w] \in Seq(Events)
      BY <1>0, <1>7 DEF EventInv, EventLists, Sched!Save
    <2>2. Head(list[w]) \in Events /\ Tail(list[w]) \in Seq(Events)
      BY <2>1
    <2>3. outcome[w] # "updated" => [event |-> Head(list[w]), code |-> outcome[w]] \in EventNote
      BY <1>0, <2>1, <2>2 DEF EventNote
    <2>4. status' \in [Events -> 0..2] /\ log' \in Seq(Events) /\ notes' \in Seq(EventNote)
      BY <1>0, <1>7, <2>2, <2>3 DEF Sched!Save
    <2> QED
      BY <1>0, <1>7, <2>2, <2>4 DEF Sched!Save, Sched!Goto
  <1>8. ASSUME NEW w \in Workers, Sched!SaveFails(w)
        PROVE  EventTypes'
    <2>1. list[w] # <<>> /\ list[w] \in Seq(Events)
      BY <1>0, <1>8 DEF EventInv, EventLists, Sched!SaveFails
    <2>2. {Head(list[w])} \in SUBSET Events
      BY <2>1
    <2>3. /\ past' = [past EXCEPT !.faults = @ + 1, !.seen[w] = {}, !.lost = @ \cup {Head(list[w])}]
          /\ {} \in SUBSET Events
          /\ UNCHANGED <<rows, status, soft, log, notes, chain, now, filter>>
          /\ outcome' = [outcome EXCEPT ![w] = "none"]
          /\ \E where \in {"claim", "idle"} : Sched!Released(w, where)
      BY <1>8 DEF Sched!SaveFails, Sched!db
    <2>4. past' \in EventPast
      BY <1>0, <2>2, <2>3, EventPastGrows
    <2> QED
      BY <1>0, <2>3, <2>4, EventReleased
  <1>9. CASE Sched!Tick \/ Sched!Restart
    BY <1>0, <1>9 DEF Sched!Tick, Sched!Restart, Sched!db, Sched!local
  <1>10. CASE Sched!Shutdown
    <2>1. past' = [past EXCEPT !.faults = @ + 1] /\ past.faults + 1 \in Nat
      BY <1>0, <1>10 DEF Sched!Shutdown, EventPast
    <2>2. past' \in EventPast
      BY <1>0, <2>1 DEF EventPast
    <2> QED
      BY <1>0, <1>10, <2>2 DEF Sched!Shutdown, Sched!db, Sched!local
  <1>11. CASE Sched!Crash
    <2>1. {Head(list[w]) : w \in {v \in Workers : pc[v] = "save"}} \in SUBSET Events
      <3>1. \A w \in Workers : pc[w] = "save" => list[w] # <<>> /\ list[w] \in Seq(Events)
        BY <1>0 DEF EventInv, EventLists
      <3>2. \A w \in Workers : pc[w] = "save" => Head(list[w]) \in Events
        BY <3>1
      <3> QED
        BY <3>2
    <2>2. PICK w \in Workers : pc[w] \notin {"idle", "off"}
      BY <1>11 DEF Sched!Crash
    <2>3. past' \in EventPast
      BY <1>0, <1>11, <2>1, <2>2, EventPastGrows DEF Sched!Crash
    <2> QED
      BY <1>0, <1>11, <2>3 DEF Sched!Crash, Sched!db
  <1> QED
    BY <1>1, <1>2, <1>3, <1>4, <1>5, <1>6, <1>7, <1>8, <1>9, <1>10, <1>11, EventSteps, Zenon
       DEF Sched!WorkerStep

\* Steps of workers and of the process leave the table alone, but for Save.
LEMMA EventQuiet ==
    ASSUME EventTypes,
           \/ \E w \in Workers : Sched!WorkerStep(w) \/ Sched!SaveFails(w)
           \/ Sched!Tick \/ Sched!Shutdown \/ Sched!Crash \/ Sched!Restart
    PROVE  /\ UNCHANGED <<rows, soft>> /\ past'.deleted = past.deleted /\ past.lost \subseteq past'.lost
           /\ \A e : Sched!Known(e)' <=> Sched!Known(e)
           /\ (\E w \in Workers : Sched!Save(w)) \/ UNCHANGED <<status, log, notes>>
  <1>1. /\ UNCHANGED <<rows, soft>>
        /\ (\E w \in Workers : Sched!Save(w)) \/ UNCHANGED <<status, log, notes>>
    BY DEF Sched!WorkerStep, Sched!StartPass, Sched!Claim, Sched!LoadEvents, Sched!ReleaseProcessingIssuer,
           Sched!LeavePass, Sched!NoKey, Sched!Execute, Sched!ExecuteFails, Sched!Save, Sched!SaveFails,
           Sched!Tick, Sched!Shutdown, Sched!Crash, Sched!Restart, Sched!db
  <1>2. past'.deleted = past.deleted /\ past.lost \subseteq past'.lost
    <2>1. \/ past' = past \/ past' = [past EXCEPT !.faults = @ + 1]
          \/ \E S, T :
                \/ past' = [past EXCEPT !.seen = T]
                \/ past' = [past EXCEPT !.faults = @ + 1, !.seen = T]
                \/ past' = [past EXCEPT !.faults = @ + 1, !.seen = T, !.lost = @ \cup S]
      <3>1. CASE \E w \in Workers : Sched!WorkerStep(w) \/ Sched!SaveFails(w)
        BY <3>1, Zenon
           DEF Sched!WorkerStep, Sched!StartPass, Sched!Claim, Sched!LoadEvents,
               Sched!ReleaseProcessingIssuer, Sched!LeavePass, Sched!NoKey, Sched!Execute,
               Sched!ExecuteFails, Sched!Save, Sched!SaveFails
      <3>2. CASE Sched!Tick \/ Sched!Shutdown \/ Sched!Crash \/ Sched!Restart
        BY <3>2, Zenon DEF Sched!Tick, Sched!Shutdown, Sched!Crash, Sched!Restart
      <3> QED
        BY <3>1, <3>2
    <2>2. past \in EventPast
      BY DEF EventTypes
    <2> QED
      BY <2>1, <2>2 DEF EventPast
  <1>3. \A e : Sched!Known(e)' <=> Sched!Known(e)
    BY <1>1, <1>2 DEF Sched!Known, Sched!Range
  <1> QED
    BY <1>1, <1>2, <1>3

\* The head of the list of a worker that saves, and what is written about it.
LEMMA EventSaved ==
    ASSUME EventInv, NEW w \in Workers, Sched!Save(w)
    PROVE  LET e == Head(list[w])
           IN  /\ e \in Events /\ e \in SetOf(list[w]) /\ outcome[w] # "none"
               /\ status' = [status EXCEPT ![e] = IF e \notin SetOf(rows) THEN status[e]
                                                 ELSE IF outcome[w] = "updated" THEN 1 ELSE 2]
               /\ IF outcome[w] = "updated"
                  THEN log' = Append(log, e) /\ notes' = notes
                  ELSE log' = log /\ notes' = Append(notes, [event |-> e, code |-> outcome[w]])
               /\ \A f \in Events : /\ Logged(f)' <=> Logged(f) \/ (f = e /\ outcome[w] = "updated")
                                    /\ Told(f)' <=> Told(f) \/ (f = e /\ outcome[w] # "updated")
               /\ Tail(list[w]) \in Seq(Events) /\ Distinct(Tail(list[w]))
               /\ SetOf(Tail(list[w])) = SetOf(list[w]) \ {e}
               /\ pc' = [pc EXCEPT ![w] = "event"] /\ list' = [list EXCEPT ![w] = Tail(list[w])]
               /\ outcome' = [outcome EXCEPT ![w] = "none"]
               /\ UNCHANGED <<chain, filter, issuer, claimed, past>>
  <1> DEFINE e == Head(list[w])
             n == [event |-> e, code |-> outcome[w]]
  <1>1. pc[w] = "save" /\ EventTypes
    BY DEF EventInv, Sched!Save
  <1>2. list[w] # <<>> /\ outcome[w] # "none" /\ list[w] \in Seq(Events) /\ Distinct(list[w])
    BY <1>1 DEF EventInv, EventLists, EventTypes
  <1>3. /\ e \in Events /\ e \in SetOf(list[w]) /\ Tail(list[w]) \in Seq(Events)
        /\ Distinct(Tail(list[w])) /\ SetOf(Tail(list[w])) = SetOf(list[w]) \ {e}
    BY <1>2, TailOf
  <1>4. log \in Seq(Events) /\ notes \in Seq(EventNote)
    BY <1>1 DEF EventTypes
  <1>5. outcome[w] # "updated" => n \in EventNote
    BY <1>1, <1>2, <1>3 DEF EventTypes, EventNote
  <1>6. /\ status' = [status EXCEPT ![e] = IF e \notin SetOf(rows) THEN status[e]
                                          ELSE IF outcome[w] = "updated" THEN 1 ELSE 2]
        /\ IF outcome[w] = "updated"
           THEN log' = Append(log, e) /\ notes' = notes
           ELSE log' = log /\ notes' = Append(notes, n)
    BY DEF Sched!Save, Sched!Range, SetOf
  <1>7. /\ pc' = [pc EXCEPT ![w] = "event"] /\ list' = [list EXCEPT ![w] = Tail(list[w])]
        /\ outcome' = [outcome EXCEPT ![w] = "none"]
        /\ UNCHANGED <<chain, filter, issuer, claimed, past>>
    BY DEF Sched!Save, Sched!Goto
  <1>8. SetOf(Append(log, e)) = SetOf(log) \cup {e}
    BY <1>3, <1>4, AppendOf
  <1>9. outcome[w] # "updated" =>
           /\ DOMAIN Append(notes, n) = 1..(Len(notes) + 1) /\ DOMAIN notes = 1..Len(notes)
           /\ Len(notes) \in Nat /\ Append(notes, n)[Len(notes) + 1] = n
           /\ \A i \in DOMAIN notes : Append(notes, n)[i] = notes[i]
    BY <1>4, <1>5, AppendOf
  <1>10. ASSUME NEW f \in Events PROVE Logged(f)' <=> Logged(f) \/ (f = e /\ outcome[w] = "updated")
    BY <1>6, <1>8 DEF Logged
  <1>11. ASSUME NEW f \in Events PROVE Told(f)' <=> Told(f) \/ (f = e /\ outcome[w] # "updated")
    <2>1. CASE outcome[w] = "updated"
      BY <1>6, <2>1 DEF Told
    <2>2. CASE outcome[w] # "updated"
      <3>1. /\ n.event = e /\ notes' = Append(notes, n)
            /\ \A i \in DOMAIN notes' : i \in DOMAIN notes \/ i = Len(notes) + 1
            /\ \A i \in DOMAIN notes : i \in DOMAIN notes'
            /\ Len(notes) + 1 \in DOMAIN notes'
        BY <1>6, <1>9, <2>2
      <3> HIDE DEF n, e
      <3> QED
        BY <1>9, <2>2, <3>1 DEF Told
    <2> QED
      BY <2>1, <2>2
  <1> QED
    BY <1>2, <1>3, <1>6, <1>7, <1>10, <1>11

LEMMA EventListsNext ==
    ASSUME EventAssumption, EventInv, Sched!Next
    PROVE  EventLists'
  <1>0. EventTypes /\ EventLists /\ EventRecords
    BY DEF EventInv
  <1>1. CASE \E new \in Seq(Events) : Sched!Schedule(new, "bond") \/ Sched!Schedule(new, "share")
    <2>1. /\ SetOf(rows) \subseteq SetOf(rows')
          /\ UNCHANGED <<status, log, notes, pc, issuer, list, outcome, claimed, past>>
      BY <1>0, <1>1, EventsPosted DEF Sched!Schedule, Sched!local
    <2>2. \A e : Sched!Known(e) => Sched!Known(e)'
      BY <2>1 DEF Sched!Known, Sched!Range, SetOf
    <2> QED
      BY <1>0, <2>1, <2>2 DEF EventLists, Logged, Told
  <1>2. CASE \E e \in Events : Sched!Delete(e, "bond") \/ Sched!Delete(e, "share")
    <2>1. PICK e \in Events : Sched!Delete(e, "bond") \/ Sched!Delete(e, "share")
      BY <1>2
    <2>2. /\ SetOf(rows) \subseteq SetOf(rows') \cup {e}
          /\ past' = [past EXCEPT !.deleted = @ \cup {e}]
          /\ UNCHANGED <<status, log, notes, pc, issuer, list, outcome, claimed>>
      BY <1>0, <2>1, EventRemoved
    <2>3. past'.deleted = past.deleted \cup {e}
      BY <1>0, <2>2 DEF EventTypes, EventPast
    <2>4. \A f : Sched!Known(f) => Sched!Known(f)'
      BY <2>2, <2>3 DEF Sched!Known, Sched!Range, SetOf
    <2> QED
      BY <1>0, <2>2, <2>4 DEF EventLists, Logged, Told
  <1>3. ASSUME NEW w \in Workers, Sched!StartPass(w) \/ Sched!LeavePass(w)
        PROVE  EventLists'
    <2>1. \A e : Sched!Known(e)' <=> Sched!Known(e)
      BY <1>0, <1>3, EventQuiet DEF Sched!WorkerStep
    <2>2. /\ UNCHANGED <<status, log, notes, issuer, list, outcome, claimed>>
          /\ pc[w] \notin Owned /\ \E p \in EventPlaces \ Owned : pc' = [pc EXCEPT ![w] = p]
      BY <1>3 DEF Sched!StartPass, Sched!LeavePass, Sched!Goto, Sched!db, Sched!local, Owned, EventPlaces
    <2> QED
      BY <1>0, <2>1, <2>2 DEF EventLists, EventTypes, Logged, Told, Owned
  <1>4. ASSUME NEW w \in Workers, Sched!Claim(w)
        PROVE  EventLists'
    <2>1. \A e : Sched!Known(e)' <=> Sched!Known(e)
      BY <1>0, <1>4, EventQuiet DEF Sched!WorkerStep
    <2>2. UNCHANGED <<status, log, notes, list, outcome>> /\ pc[w] = "claim" /\ issuer[w] = Sched!Nobody
      BY <1>0, <1>4 DEF Sched!Claim, Sched!db, EventLists, Owned
    <2>3. CASE pc' = [pc EXCEPT ![w] = "idle"] /\ UNCHANGED <<issuer, claimed>>
      BY <1>0, <2>1, <2>2, <2>3 DEF EventLists, EventTypes, Logged, Told, Owned
    <2>4. CASE \E i \in Sched!Issuers \ claimed :
                  /\ pc' = [pc EXCEPT ![w] = "load"] /\ issuer' = [issuer EXCEPT ![w] = i]
                  /\ claimed' = claimed \cup {i}
      <3>1. PICK i \in Sched!Issuers \ claimed :
                  /\ pc' = [pc EXCEPT ![w] = "load"] /\ issuer' = [issuer EXCEPT ![w] = i]
                  /\ claimed' = claimed \cup {i}
        BY <2>4
      <3>2. i # Sched!Nobody /\ \A v \in Workers : issuer[v] # i
        BY <1>0, <3>1 DEF EventAssumption, Sched!ScheduledEventsAssumption, EventLists
      <3>3. \A v \in Workers : /\ pc'[v] = IF v = w THEN "load" ELSE pc[v]
                               /\ issuer'[v] = IF v = w THEN i ELSE issuer[v]
        BY <1>0, <3>1 DEF EventTypes
      <3>4. list[w] = <<>> /\ outcome[w] = "none" /\ SetOf(<<>>) = {} /\ Distinct(<<>>)
        BY <1>0, <2>2 DEF EventLists, SetOf, Distinct
      <3>5. \A e : (Logged(e)' <=> Logged(e)) /\ (Told(e)' <=> Told(e))
        BY <2>2 DEF Logged, Told
      <3> QED
        BY <1>0, <2>1, <2>2, <3>1, <3>2, <3>3, <3>4, <3>5 DEF EventLists, Owned
    <2> QED
      <3>1. \A e \in Sched!Due(filter[w]) : IssuerOf[e] \in Sched!Issuers
        BY <1>0 DEF Sched!Due, Sched!Range, Sched!Issuers, EventTypes
      <3> QED
        BY <1>4, <2>3, <2>4, <3>1 DEF Sched!Claim, Sched!Goto
  <1>5. ASSUME NEW w \in Workers, Sched!LoadEvents(w)
        PROVE  EventLists'
    <2>1. \A e : Sched!Known(e)' <=> Sched!Known(e)
      BY <1>0, <1>5, EventQuiet DEF Sched!WorkerStep
    <2>2. UNCHANGED <<status, log, notes, outcome, claimed>> /\ pc[w] = "load"
      BY <1>5 DEF Sched!LoadEvents, Sched!db
    <2>3. CASE /\ pc' = [pc EXCEPT ![w] = "idle"] /\ issuer' = [issuer EXCEPT ![w] = Sched!Nobody]
               /\ UNCHANGED list
      BY <1>0, <2>1, <2>2, <2>3 DEF EventLists, EventTypes, Logged, Told, Owned, SetOf
    <2>4. CASE /\ pc' = [pc EXCEPT ![w] = "event"] /\ UNCHANGED issuer
               /\ \E s \in Seq(Events) :
                     /\ list' = [list EXCEPT ![w] = s] /\ Distinct(s)
                     /\ \A e \in SetOf(s) : e \in SetOf(rows) /\ status[e] = 0 /\ IssuerOf[e] = issuer[w]
      <3>1. PICK s \in Seq(Events) :
                     /\ list' = [list EXCEPT ![w] = s] /\ Distinct(s)
                     /\ \A e \in SetOf(s) : e \in SetOf(rows) /\ status[e] = 0 /\ IssuerOf[e] = issuer[w]
        BY <2>4
      <3>2. SetOf(s) \subseteq Events /\ \A e \in SetOf(rows) : Sched!Known(e)
        BY DEF Sched!Known, Sched!Range, SetOf
      <3>3. \A e \in SetOf(s) : ~Logged(e) /\ ~Told(e) /\ Sched!Known(e)
        BY <1>0, <3>1, <3>2 DEF EventRecords
      <3> QED
        BY <1>0, <2>1, <2>2, <2>4, <3>1, <3>3 DEF EventLists, EventTypes, Logged, Told, Owned
    <2> QED
      BY <1>0, <1>5, <2>3, <2>4, EventsRead
  <1>6. ASSUME NEW w \in Workers, NEW where \in {"claim", "idle"}, Sched!Released(w, where),
               UNCHANGED <<rows, status, log, notes>>, \A e : Sched!Known(e)' <=> Sched!Known(e),
               \/ pc[w] = "event" /\ outcome' = outcome
               \/ pc[w] = "save" /\ outcome' = [outcome EXCEPT ![w] = "none"]
        PROVE  EventLists'
    <2>1. /\ pc' = [pc EXCEPT ![w] = where] /\ list' = [list EXCEPT ![w] = <<>>]
          /\ issuer' = [issuer EXCEPT ![w] = Sched!Nobody] /\ claimed' = claimed \ {issuer[w]}
      BY <1>0, <1>6, EventReleased
    <2>2. \A v \in Workers : v # w => issuer[v] # issuer[w]
      BY <1>0, <1>6 DEF EventLists, Owned
    <2> QED
      BY <1>0, <1>6, <2>1, <2>2 DEF EventLists, EventTypes, Logged, Told, Owned, SetOf, Distinct
  <1>7. ASSUME NEW w \in Workers,
               Sched!ReleaseProcessingIssuer(w) \/ Sched!ExecuteFails(w) \/ Sched!SaveFails(w)
        PROVE  EventLists'
    <2>1. UNCHANGED <<rows, status, log, notes>> /\ \A e : Sched!Known(e)' <=> Sched!Known(e)
      BY <1>0, <1>7, EventQuiet
         DEF Sched!WorkerStep, Sched!ReleaseProcessingIssuer, Sched!ExecuteFails, Sched!SaveFails, Sched!db
    <2>2. \E where \in {"claim", "idle"} : Sched!Released(w, where)
      BY <1>7 DEF Sched!ReleaseProcessingIssuer, Sched!ExecuteFails, Sched!SaveFails
    <2>3. \/ pc[w] = "event" /\ outcome' = outcome
          \/ pc[w] = "save" /\ outcome' = [outcome EXCEPT ![w] = "none"]
      BY <1>7 DEF Sched!ReleaseProcessingIssuer, Sched!ExecuteFails, Sched!SaveFails
    <2> QED
      BY <1>6, <2>1, <2>2, <2>3
  <1>8. ASSUME NEW w \in Workers, Sched!NoKey(w) \/ Sched!Execute(w)
        PROVE  EventLists'
    <2>1. \A e : Sched!Known(e)' <=> Sched!Known(e)
      BY <1>0, <1>8, EventQuiet DEF Sched!WorkerStep
    <2>2. /\ UNCHANGED <<status, log, notes, issuer, list, claimed>>
          /\ pc[w] = "event" /\ list[w] # <<>> /\ \E code \in Codes \cup {"updated"} : Sched!Finish(w, code)
      BY <1>8 DEF Sched!NoKey, Sched!Execute, Codes, Sched!db
    <2>3. PICK code \in Codes \cup {"updated"} : Sched!Finish(w, code)
      BY <2>2
    <2>4. /\ pc' = [pc EXCEPT ![w] = "save"] /\ outcome' = [outcome EXCEPT ![w] = code] /\ code # "none"
      BY <2>3 DEF Sched!Finish, Sched!Goto, Codes
    <2> QED
      BY <1>0, <2>1, <2>2, <2>4 DEF EventLists, EventTypes, Logged, Told, Owned
  <1>9. ASSUME NEW w \in Workers, Sched!Save(w)
        PROVE  EventLists'
    <2> DEFINE e == Head(list[w])
    <2>1. \A f : Sched!Known(f)' <=> Sched!Known(f)
      BY <1>0, <1>9, EventQuiet DEF Sched!WorkerStep
    <2>2. /\ e \in Events /\ e \in SetOf(list[w]) /\ pc[w] = "save"
          /\ \A f \in Events \ {e} : status'[f] = status[f] /\ (Logged(f)' <=> Logged(f)) /\ (Told(f)' <=> Told(f))
          /\ Distinct(Tail(list[w])) /\ SetOf(Tail(list[w])) = SetOf(list[w]) \ {e}
          /\ pc' = [pc EXCEPT ![w] = "event"] /\ list' = [list EXCEPT ![w] = Tail(list[w])]
          /\ outcome' = [outcome EXCEPT ![w] = "none"] /\ UNCHANGED <<issuer, claimed>>
      BY <1>0, <1>9, EventSaved DEF EventTypes, Sched!Save
    <2>3. \A v \in Workers : v # w => e \notin SetOf(list[v])
      BY <1>0, <2>2 DEF EventLists, Owned
    <2>4. \A v \in Workers : SetOf(list[v]) \subseteq Events
      BY <1>0 DEF EventTypes, SetOf
    <2> HIDE DEF e
    <2> QED
      BY <1>0, <2>1, <2>2, <2>3, <2>4 DEF EventLists, EventTypes, Owned
  <1>10. CASE Sched!Tick \/ Sched!Shutdown
    <2>1. \A e : Sched!Known(e)' <=> Sched!Known(e)
      BY <1>0, <1>10, EventQuiet
    <2>2. UNCHANGED <<status, log, notes, pc, issuer, list, outcome, claimed>>
      BY <1>10 DEF Sched!Tick, Sched!Shutdown, Sched!db, Sched!local
    <2> QED
      BY <1>0, <2>1, <2>2 DEF EventLists, Logged, Told
  <1>11. CASE Sched!Crash
    BY <1>0, <1>11 DEF Sched!Crash, EventLists, Owned, SetOf, Distinct
  <1>12. CASE Sched!Restart
    <2>1. \A e : Sched!Known(e)' <=> Sched!Known(e)
      BY <1>0, <1>12, EventQuiet
    <2>2. \A w \in Workers : pc[w] = "off" /\ pc'[w] = "idle"
      BY <1>12 DEF Sched!Restart
    <2>3. UNCHANGED <<status, log, notes, issuer, list, outcome>>
      BY <1>12 DEF Sched!Restart, Sched!db, Sched!local
    <2> QED
      BY <1>0, <2>1, <2>2, <2>3 DEF EventLists, Logged, Told, Owned
  <1> QED
    BY <1>1, <1>2, <1>3, <1>4, <1>5, <1>7, <1>8, <1>9, <1>10, <1>11, <1>12, EventSteps, Zenon
       DEF Sched!WorkerStep

LEMMA EventRecordsNext ==
    ASSUME EventAssumption, EventInv, Sched!Next
    PROVE  EventRecords'
  <1>0. EventTypes /\ EventLists /\ EventRecords
    BY DEF EventInv
  <1>1. CASE \E new \in Seq(Events) : Sched!Schedule(new, "bond") \/ Sched!Schedule(new, "share")
    <2>1. PICK new \in Seq(Events) : Sched!Schedule(new, "bond") \/ Sched!Schedule(new, "share")
      BY <1>1
    <2>2. /\ SetOf(rows') = SetOf(rows) \cup SetOf(new)
          /\ \A e \in SetOf(new) : e \notin SetOf(rows) /\ e \notin past.deleted
      BY <1>0, <2>1, EventsPosted
    <2>3. UNCHANGED <<status, log, notes, past>>
      BY <2>1 DEF Sched!Schedule
    <2>4. \A e : /\ Sched!Known(e) => Sched!Known(e)' /\ e \notin SetOf(new)
                 /\ e \in SetOf(rows') => e \in SetOf(rows) \/ ~Sched!Known(e)
      BY <2>2, <2>3 DEF Sched!Known, Sched!Range, SetOf
    <2> QED
      BY <1>0, <2>3, <2>4 DEF EventRecords, Logged, Told
  <1>2. CASE \E e \in Events : Sched!Delete(e, "bond") \/ Sched!Delete(e, "share")
    <2>1. PICK e \in Events : Sched!Delete(e, "bond") \/ Sched!Delete(e, "share")
      BY <1>2
    <2>2. /\ SetOf(rows') \subseteq SetOf(rows) /\ SetOf(rows) \subseteq SetOf(rows') \cup {e}
          /\ past' = [past EXCEPT !.deleted = @ \cup {e}] /\ UNCHANGED <<status, log, notes>>
      BY <1>0, <2>1, EventRemoved
    <2>3. past'.deleted = past.deleted \cup {e}
      BY <1>0, <2>2 DEF EventTypes, EventPast
    <2>4. \A f : Sched!Known(f) => Sched!Known(f)'
      BY <2>2, <2>3 DEF Sched!Known, Sched!Range, SetOf
    <2> QED
      BY <1>0, <2>2, <2>4 DEF EventRecords, Logged, Told
  <1>3. ASSUME UNCHANGED <<rows, status, log, notes>>, \A e : Sched!Known(e)' <=> Sched!Known(e)
        PROVE  EventRecords'
    BY <1>0, <1>3 DEF EventRecords, Logged, Told
  <1>4. ASSUME NEW w \in Workers, Sched!Save(w)
        PROVE  EventRecords'
    <2> DEFINE e == Head(list[w])
               n == [event |-> e, code |-> outcome[w]]
    <2>1. UNCHANGED rows /\ \A f : Sched!Known(f)' <=> Sched!Known(f)
      BY <1>0, <1>4, EventQuiet DEF Sched!WorkerStep
    <2>2. /\ e \in Events /\ e \in SetOf(list[w])
          /\ status' = [status EXCEPT ![e] = IF e \notin SetOf(rows) THEN status[e]
                                            ELSE IF outcome[w] = "updated" THEN 1 ELSE 2]
          /\ IF outcome[w] = "updated"
             THEN log' = Append(log, e) /\ notes' = notes
             ELSE log' = log /\ notes' = Append(notes, n)
          /\ \A f \in Events : /\ Logged(f)' <=> Logged(f) \/ (f = e /\ outcome[w] = "updated")
                               /\ Told(f)' <=> Told(f) \/ (f = e /\ outcome[w] # "updated")
      BY <1>4, EventSaved
    <2>3. status[e] = 0 /\ ~Logged(e) /\ ~Told(e) /\ Sched!Known(e)
      BY <1>0, <2>2 DEF EventLists
    <2>4. Distinct(log')
      <3>1. log \in Seq(Events) /\ Distinct(log) /\ e \notin SetOf(log)
        BY <1>0, <2>3 DEF EventRecords, EventTypes, Logged
      <3>2. Distinct(Append(log, e))
        BY <2>2, <3>1, AppendOf
      <3> QED
        BY <2>2, <3>1, <3>2
    <2>5. \A i, j \in DOMAIN notes' : notes'[i].event = notes'[j].event => i = j
      <3>1. CASE notes' = notes
        BY <1>0, <3>1 DEF EventRecords
      <3>2. CASE notes' = Append(notes, n) /\ outcome[w] # "updated"
        <4>1. notes \in Seq(EventNote) /\ n \in EventNote /\ n.event = e
          BY <1>0, <1>4, <2>2, <3>2, EventSaved DEF EventTypes, EventNote
        <4>2. /\ \A i \in DOMAIN notes' : i = Len(notes) + 1 \/ i \in DOMAIN notes
              /\ notes'[Len(notes) + 1] = n /\ \A i \in DOMAIN notes : notes'[i] = notes[i]
          BY <3>2, <4>1, AppendOf
        <4>3. \A i \in DOMAIN notes : notes[i].event # e
          BY <2>3 DEF Told
        <4> HIDE DEF n, e
        <4> QED
          BY <1>0, <4>1, <4>2, <4>3 DEF EventRecords
      <3> QED
        BY <2>2, <3>1, <3>2
    <2>6. status \in [Events -> 0..2]
      BY <1>0 DEF EventTypes
    <2> HIDE DEF e, n
    <2>7. ASSUME NEW f \in Events
          PROVE  /\ ~(Logged(f)' /\ Told(f)')
                 /\ Logged(f)' => status'[f] = 1 \/ f \notin SetOf(rows)
                 /\ Told(f)' => status'[f] = 2 \/ f \notin SetOf(rows)
                 /\ status'[f] = 1 => Logged(f)'
                 /\ status'[f] = 2 => Told(f)'
                 /\ Logged(f)' \/ Told(f)' => Sched!Known(f)
      <3>1. CASE f = e
        BY <2>2, <2>3, <2>6, <3>1
      <3>2. CASE f # e
        BY <1>0, <2>2, <2>6, <3>2 DEF EventRecords
      <3> QED
        BY <3>1, <3>2
    <2> QED
      BY <2>1, <2>4, <2>5, <2>7 DEF EventRecords
  <1> QED
    <2>1. CASE \/ \E w \in Workers : Sched!WorkerStep(w) \/ Sched!SaveFails(w)
               \/ Sched!Tick \/ Sched!Shutdown \/ Sched!Crash \/ Sched!Restart
      BY <1>0, <1>3, <1>4, <2>1, EventQuiet
    <2> QED
      BY <1>1, <1>2, <2>1, EventSteps

\* Who is about to record an update: nobody new unless the chain carries it out.
LEMMA EventChainNext ==
    ASSUME EventAssumption, EventInv, Sched!Next
    PROVE  EventChain'
  <1>0. EventTypes /\ EventLists /\ EventChain
    BY DEF EventInv
  <1>1. CASE \/ \E new \in Seq(Events) : Sched!Schedule(new, "bond") \/ Sched!Schedule(new, "share")
             \/ \E e \in Events : Sched!Delete(e, "bond") \/ Sched!Delete(e, "share")
    <2>1. UNCHANGED <<log, chain, pc, outcome, list>>
      BY <1>1 DEF Sched!Schedule, Sched!Delete, Sched!local
    <2>2. past'.lost = past.lost
      BY <1>0, <1>1 DEF Sched!Schedule, Sched!Delete, EventTypes, EventPast
    <2> QED
      BY <1>0, <2>1, <2>2 DEF EventChain, Logged, Updating
  <1>2. ASSUME UNCHANGED <<log, chain>>, past.lost \subseteq past'.lost,
               \A e \in Events \ past'.lost : Updating(e)' <=> Updating(e)
        PROVE  EventChain'
    BY <1>0, <1>2 DEF EventChain, Logged
  <1>3. ASSUME NEW w \in Workers, \/ Sched!StartPass(w) \/ Sched!Claim(w) \/ Sched!LoadEvents(w)
                                  \/ Sched!LeavePass(w) \/ Sched!ReleaseProcessingIssuer(w)
                                  \/ Sched!ExecuteFails(w) \/ Sched!NoKey(w)
        PROVE  EventChain'
    <2>1. past.lost \subseteq past'.lost
      BY <1>0, <1>3, EventQuiet DEF Sched!WorkerStep
    <2>2. UNCHANGED <<log, chain>>
      BY <1>3 DEF Sched!StartPass, Sched!Claim, Sched!LoadEvents, Sched!LeavePass,
            Sched!ReleaseProcessingIssuer, Sched!ExecuteFails, Sched!NoKey, Sched!db
    <2>3. /\ pc[w] # "save"
          /\ (pc'[w] # "save" \/ outcome'[w] # "updated")
          /\ \A v \in Workers \ {w} : pc'[v] = pc[v] /\ outcome'[v] = outcome[v] /\ list'[v] = list[v]
      <3>1. CASE Sched!LoadEvents(w)
        <4>1. outcome' = outcome /\ pc[w] = "load"
          BY <3>1 DEF Sched!LoadEvents
        <4> QED
          BY <1>0, <3>1, <4>1, EventsRead DEF EventTypes
      <3>2. CASE ~Sched!LoadEvents(w)
        BY <1>0, <1>3, <3>2
           DEF EventTypes, Sched!StartPass, Sched!Claim, Sched!LeavePass, Sched!ReleaseProcessingIssuer,
               Sched!ExecuteFails, Sched!NoKey, Sched!Finish, Sched!Released, Sched!Goto, Sched!local
      <3> QED
        BY <3>1, <3>2
    <2>4. \A e \in Events : Updating(e)' <=> Updating(e)
      BY <2>3, Zenon DEF Updating
    <2> QED
      BY <1>2, <2>1, <2>2, <2>4
  <1>4. ASSUME NEW w \in Workers, Sched!Execute(w)
        PROVE  EventChain'
    <2> DEFINE e == Head(list[w])
    <2>1. pc[w] = "event" /\ list[w] # <<>> /\ list[w] \in Seq(Events) /\ Distinct(list[w])
      BY <1>0, <1>4 DEF Sched!Execute, EventTypes, EventLists
    <2>2. e \in Events /\ e \in SetOf(list[w])
      BY <2>1, TailOf
    <2>3. /\ UNCHANGED <<log, past, list>> /\ pc' = [pc EXCEPT ![w] = "save"]
          /\ \/ outcome' = [outcome EXCEPT ![w] = "updated"] /\ chain' = [chain EXCEPT ![e] = @ + 1]
             \/ outcome' = [outcome EXCEPT ![w] = "not sent"] /\ UNCHANGED chain
      BY <1>4 DEF Sched!Execute, Sched!Finish, Sched!Goto, Sched!db
    <2>4. ~Logged(e) /\ ~Updating(e)
      <3>1. \A v \in Workers \ {w} : pc[v] = "save" => Head(list[v]) \in SetOf(list[v])
        <4>1. \A v \in Workers : pc[v] = "save" => list[v] # <<>> /\ list[v] \in Seq(Events) /\ Distinct(list[v])
          BY <1>0 DEF EventLists, EventTypes
        <4> QED
          BY <4>1, TailOf
      <3>2. \A v \in Workers \ {w} : pc[v] = "save" => e \notin SetOf(list[v])
        <4> SUFFICES ASSUME NEW v \in Workers \ {w}, pc[v] = "save", e \in SetOf(list[v])
                     PROVE  FALSE
          BY Zenon
        <4>1. /\ IssuerOf[e] = issuer[v] /\ IssuerOf[e] = issuer[w]
              /\ issuer[w] # Sched!Nobody
          BY <1>0, <2>1, <2>2 DEF EventLists, Owned
        <4>2. issuer[v] = issuer[w] => issuer[v] = Sched!Nobody
          BY <1>0, Zenon DEF EventLists
        <4> QED
          BY <4>1, <4>2
      <3>3. ~Logged(e)
        BY <1>0, <2>2 DEF EventLists
      <3> QED
        BY <2>1, <3>1, <3>2, <3>3 DEF Updating
    <2> HIDE DEF e
    <2>5. /\ \A v \in Workers \ {w} : pc'[v] = pc[v] /\ outcome'[v] = outcome[v]
          /\ pc'[w] = "save"
      BY <1>0, <2>3 DEF EventTypes
    <2>6. CASE outcome' = [outcome EXCEPT ![w] = "updated"] /\ chain' = [chain EXCEPT ![e] = @ + 1]
      <3>1. outcome'[w] = "updated"
        BY <1>0, <2>6 DEF EventTypes
      <3>2. \A f : Updating(f)' <=> Updating(f) \/ f = e
        BY <2>1, <2>3, <2>5, <3>1, Zenon DEF Updating, e
      <3>3. \A f \in Events : chain'[f] = IF f = e THEN chain[f] + 1 ELSE chain[f]
        BY <1>0, <2>2, <2>6 DEF EventTypes
      <3>4. ASSUME NEW f \in Events \ past'.lost
            PROVE  chain'[f] = IF Logged(f)' \/ Updating(f)' THEN 1 ELSE 0
        <4>1. chain[f] = IF Logged(f) \/ Updating(f) THEN 1 ELSE 0
          BY <1>0, <2>3, <3>4 DEF EventChain
        <4>2. Logged(f)' <=> Logged(f)
          BY <2>3 DEF Logged
        <4> QED
          BY <2>4, <3>2, <3>3, <3>4, <4>1, <4>2
      <3> QED
        BY <3>4 DEF EventChain
    <2>7. CASE outcome' = [outcome EXCEPT ![w] = "not sent"] /\ UNCHANGED chain
      <3>1. outcome'[w] # "updated"
        BY <1>0, <2>7 DEF EventTypes
      <3>2. \A f : Updating(f)' <=> Updating(f)
        BY <2>1, <2>3, <2>5, <3>1, Zenon DEF Updating
      <3> QED
        BY <1>2, <2>3, <2>7, <3>2
    <2> QED
      BY <2>3, <2>6, <2>7
  <1>5. ASSUME NEW w \in Workers, Sched!Save(w)
        PROVE  EventChain'
    <2> DEFINE e == Head(list[w])
    <2>1. pc[w] = "save"
      BY <1>5 DEF Sched!Save
    <2>2. /\ \A f \in Events : Logged(f)' <=> Logged(f) \/ (f = e /\ outcome[w] = "updated")
          /\ pc' = [pc EXCEPT ![w] = "event"] /\ list' = [list EXCEPT ![w] = Tail(list[w])]
          /\ outcome' = [outcome EXCEPT ![w] = "none"] /\ UNCHANGED <<chain, past>>
      BY <1>0, <1>5, EventSaved DEF EventInv
    <2>3. /\ \A v \in Workers \ {w} : pc'[v] = pc[v] /\ outcome'[v] = outcome[v] /\ list'[v] = list[v]
          /\ pc'[w] # "save"
      BY <1>0, <2>2 DEF EventTypes
    <2>4. \A f \in Events : Updating(f) <=> Updating(f)' \/ (f = e /\ outcome[w] = "updated")
      BY <2>1, <2>3, Zenon DEF Updating
    <2>5. \A f \in Events : (Logged(f)' \/ Updating(f)') <=> (Logged(f) \/ Updating(f))
      BY <2>2, <2>4
    <2> QED
      BY <1>0, <2>2, <2>5 DEF EventChain
  <1>6. ASSUME NEW w \in Workers, Sched!SaveFails(w)
        PROVE  EventChain'
    <2>1. /\ pc[w] = "save" /\ UNCHANGED <<log, chain>> /\ outcome' = [outcome EXCEPT ![w] = "none"]
          /\ \E where \in {"claim", "idle"} : Sched!Released(w, where)
          /\ past' = [past EXCEPT !.faults = @ + 1, !.seen[w] = {}, !.lost = @ \cup {Head(list[w])}]
      BY <1>6 DEF Sched!SaveFails, Sched!db
    <2>2. /\ past'.lost = past.lost \cup {Head(list[w])} /\ outcome'[w] # "updated"
          /\ \A v \in Workers \ {w} : pc'[v] = pc[v] /\ outcome'[v] = outcome[v] /\ list'[v] = list[v]
      <3>1. past'.lost = past.lost \cup {Head(list[w])}
        BY <1>0, <2>1 DEF EventTypes, EventPast
      <3>2. outcome'[w] = "none" /\ \A v \in Workers \ {w} : outcome'[v] = outcome[v]
        BY <1>0, <2>1 DEF EventTypes
      <3>3. PICK where \in {"claim", "idle"} : Sched!Released(w, where)
        BY <2>1, Zenon
      <3>4. \A v \in Workers \ {w} : pc'[v] = pc[v] /\ list'[v] = list[v]
        <4>1. pc' = [pc EXCEPT ![w] = where] /\ list' = [list EXCEPT ![w] = <<>>]
          BY <3>3, Zenon DEF Sched!Released, Sched!Goto
        <4> QED
          BY <1>0, <4>1 DEF EventTypes
      <3> QED
        BY <3>1, <3>2, <3>4
    <2>3. \A e \in Events \ past'.lost : Updating(e)' <=> Updating(e)
      <3>1. \A e \in Events \ past'.lost : e # Head(list[w])
        BY <2>2
      <3> QED
        BY <2>2, <3>1, Zenon DEF Updating
    <2> QED
      BY <1>2, <2>1, <2>2, <2>3
  <1>7. CASE Sched!Tick \/ Sched!Shutdown
    <2>1. past.lost \subseteq past'.lost /\ UNCHANGED <<log, chain, pc, list, outcome>>
      BY <1>0, <1>7, EventQuiet DEF Sched!Tick, Sched!Shutdown, Sched!db, Sched!local
    <2> QED
      BY <1>2, <2>1 DEF Updating
  <1>8. CASE Sched!Crash
    <2>1. /\ past'.lost = past.lost \cup {Head(list[w]) : w \in {v \in Workers : pc[v] = "save"}}
          /\ UNCHANGED <<log, chain>> /\ \A w \in Workers : pc'[w] = "off"
      BY <1>0, <1>8 DEF Sched!Crash, Sched!db, EventTypes, EventPast
    <2>2. \A e \in Events \ past'.lost : ~Updating(e)' /\ ~Updating(e)
      BY <2>1 DEF Updating
    <2> QED
      BY <1>2, <2>1, <2>2
  <1>9. CASE Sched!Restart
    <2>1. past'.lost = past.lost /\ UNCHANGED <<log, chain>> /\ \A w \in Workers : pc[w] = "off" /\ pc'[w] = "idle"
      BY <1>9 DEF Sched!Restart, Sched!db
    <2>2. \A e : ~Updating(e)' /\ ~Updating(e)
      BY <2>1 DEF Updating
    <2> QED
      BY <1>2, <2>1, <2>2
  <1> QED
    BY <1>1, <1>3, <1>4, <1>5, <1>6, <1>7, <1>8, <1>9, EventSteps, Zenon DEF Sched!WorkerStep

\* The list of a worker that a step does not concern stays in order.
LEMMA EventOrderStays ==
    ASSUME NEW v \in Workers, ListInOrder(v), UNCHANGED <<rows, soft>>,
           \A e : Sched!Known(e)' <=> Sched!Known(e),
           list'[v] = list[v], filter'[v] = filter[v], past'.seen[v] = past.seen[v],
           past.seen[v] = {} \/ issuer'[v] = issuer[v],
           pc'[v] \notin {"event", "save"} => past.seen[v] = {},
           \A e \in SetOf(rows) : status'[e] = 0 => status[e] = 0
    PROVE  ListInOrder(v)'
  BY DEF ListInOrder

\* A worker without a list.
LEMMA EventOrderEmpty ==
    ASSUME NEW v \in Workers, list'[v] = <<>>, past'.seen[v] = {}
    PROVE  ListInOrder(v)'
  <1>1. SetOf(<<>>) = {} /\ DOMAIN <<>> = {}
    BY DEF SetOf
  <1> QED
    BY <1>1 DEF ListInOrder

LEMMA EventOrderNext ==
    ASSUME EventAssumption, EventInv, Sched!Next
    PROVE  EventOrder'
  <1>0. EventTypes /\ EventLists /\ EventOrder
    BY DEF EventInv
  <1>1. CASE \E new \in Seq(Events) : Sched!Schedule(new, "bond") \/ Sched!Schedule(new, "share")
    <2>1. PICK new \in Seq(Events) : Sched!Schedule(new, "bond") \/ Sched!Schedule(new, "share")
      BY <1>1
    <2>2. /\ SetOf(rows') = SetOf(rows) \cup SetOf(new)
          /\ \A e \in SetOf(new) : e \notin SetOf(rows) /\ e \notin past.deleted
          /\ \A e, f : Before(rows, e, f) => Before(rows', e, f)
      BY <1>0, <2>1, EventsPosted
    <2>3. UNCHANGED <<status, soft, past, pc, list, filter, issuer>>
      BY <2>1 DEF Sched!Schedule, Sched!local
    <2>4. \A e : Sched!Known(e) => Sched!Known(e)' /\ (e \in SetOf(rows') => e \in SetOf(rows))
      BY <2>2, <2>3 DEF Sched!Known, Sched!Range, SetOf
    <2>5. ASSUME NEW w \in Workers PROVE ListInOrder(w)'
      <3>1. \A i \in DOMAIN list[w] : list[w][i] \in SetOf(list[w])
        BY DEF SetOf
      <3>2. \A e \in SetOf(list[w]) : Sched!Known(e)
        BY <1>0 DEF EventLists
      <3>3. ListInOrder(w)
        BY <1>0 DEF EventOrder
      <3> QED
        BY <2>2, <2>3, <2>4, <3>1, <3>2, <3>3 DEF ListInOrder
    <2> QED
      BY <2>5 DEF EventOrder
  <1>2. CASE \E e \in Events : Sched!Delete(e, "bond") \/ Sched!Delete(e, "share")
    <2>1. PICK e \in Events : Sched!Delete(e, "bond") \/ Sched!Delete(e, "share")
      BY <1>2
    <2>2. /\ SetOf(rows') \subseteq SetOf(rows) /\ SetOf(rows) \subseteq SetOf(rows') \cup {e}
          /\ \A f, g \in SetOf(rows') : Before(rows, f, g) => Before(rows', f, g)
          /\ soft \subseteq soft'
          /\ past' = [past EXCEPT !.deleted = @ \cup {e}]
          /\ UNCHANGED <<status, pc, filter, issuer, list>>
      BY <1>0, <2>1, EventRemoved
    <2>3. past'.deleted = past.deleted \cup {e} /\ past'.seen = past.seen
      BY <1>0, <2>2 DEF EventTypes, EventPast
    <2>4. \A f : Sched!Known(f) => Sched!Known(f)'
      BY <2>2, <2>3 DEF Sched!Known, Sched!Range, SetOf
    <2>5. ASSUME NEW w \in Workers PROVE ListInOrder(w)'
      <3>1. ListInOrder(w)
        BY <1>0 DEF EventOrder
      <3> QED
        BY <2>2, <2>3, <2>4, <3>1 DEF ListInOrder
    <2> QED
      BY <2>5 DEF EventOrder
  <1>3. ASSUME NEW w \in Workers, Sched!StartPass(w) \/ Sched!Claim(w) \/ Sched!LeavePass(w)
        PROVE  EventOrder'
    <2>1. UNCHANGED <<rows, soft, status, list, past>> /\ \A e : Sched!Known(e)' <=> Sched!Known(e)
      BY <1>0, <1>3, EventQuiet
         DEF Sched!WorkerStep, Sched!StartPass, Sched!Claim, Sched!LeavePass, Sched!db, Sched!local
    <2>2. pc[w] \notin {"event", "save"}
      BY <1>3 DEF Sched!StartPass, Sched!Claim, Sched!LeavePass
    <2>3. ListInOrder(w)'
      BY <1>0, <2>1, <2>2, EventOrderEmpty DEF EventLists, EventOrder, ListInOrder
    <2>4. ASSUME NEW v \in Workers \ {w} PROVE ListInOrder(v)'
      <3>1. filter'[v] = filter[v] /\ issuer'[v] = issuer[v] /\ pc'[v] = pc[v]
        BY <1>0, <1>3 DEF Sched!StartPass, Sched!Claim, Sched!LeavePass, Sched!Goto, Sched!local, EventTypes
      <3>2. ListInOrder(v) /\ (pc[v] \notin {"event", "save"} => past.seen[v] = {})
        BY <1>0 DEF EventOrder, ListInOrder
      <3> QED
        BY <2>1, <3>1, <3>2, EventOrderStays
    <2> QED
      BY <2>3, <2>4 DEF EventOrder
  <1>4. ASSUME NEW w \in Workers, Sched!LoadEvents(w)
        PROVE  EventOrder'
    <2>1. \A e : Sched!Known(e)' <=> Sched!Known(e)
      BY <1>0, <1>4, EventQuiet DEF Sched!WorkerStep
    <2>2. UNCHANGED <<rows, soft, status, filter>> /\ pc[w] = "load"
      BY <1>4 DEF Sched!LoadEvents, Sched!db
    <2>3. list[w] = <<>> /\ past.seen[w] = {}
      BY <1>0, <2>2 DEF EventLists, EventOrder, ListInOrder
    <2>4. ASSUME NEW v \in Workers \ {w} PROVE ListInOrder(v)'
      <3>0. /\ \E p : pc' = [pc EXCEPT ![w] = p]
            /\ issuer' = issuer \/ issuer' = [issuer EXCEPT ![w] = Sched!Nobody]
            /\ list' = list \/ \E s : list' = [list EXCEPT ![w] = s]
            /\ \/ past' = past \/ past' = [past EXCEPT !.faults = @ + 1]
               \/ past' = [past EXCEPT !.seen[w] = SetOf(rows)]
        BY <1>0, <1>4, EventsRead
      <3>a. pc'[v] = pc[v]
        BY <1>0, <3>0 DEF EventTypes
      <3>b. issuer'[v] = issuer[v]
        BY <1>0, <3>0 DEF EventTypes
      <3>c. list'[v] = list[v]
        BY <1>0, <3>0 DEF EventTypes
      <3>d. past'.seen[v] = past.seen[v]
        <4>1. past \in EventPast
          BY <1>0 DEF EventTypes
        <4>2. CASE past' = past
          BY <4>2
        <4>3. CASE past' = [past EXCEPT !.faults = @ + 1]
          BY <4>1, <4>3 DEF EventPast
        <4>4. CASE past' = [past EXCEPT !.seen[w] = SetOf(rows)]
          BY <4>1, <4>4 DEF EventPast
        <4> QED
          BY <3>0, <4>2, <4>3, <4>4
      <3>1. issuer'[v] = issuer[v] /\ pc'[v] = pc[v] /\ list'[v] = list[v] /\ past'.seen[v] = past.seen[v]
        BY <3>a, <3>b, <3>c, <3>d
      <3>2. ListInOrder(v) /\ (pc[v] \notin {"event", "save"} => past.seen[v] = {})
        BY <1>0 DEF EventOrder, ListInOrder
      <3> QED
        BY <2>1, <2>2, <3>1, <3>2, EventOrderStays
    <2>5. CASE /\ past' = [past EXCEPT !.faults = @ + 1] \/ past' = past
               /\ UNCHANGED list
      <3>1. list'[w] = <<>> /\ past'.seen[w] = {}
        BY <1>0, <2>3, <2>5 DEF EventTypes, EventPast
      <3> QED
        BY <2>4, <3>1, EventOrderEmpty DEF EventOrder
    <2>6. CASE /\ pc' = [pc EXCEPT ![w] = "event"] /\ UNCHANGED issuer
               /\ past' = [past EXCEPT !.seen[w] = SetOf(rows)]
               /\ \E s \in Seq(Events) :
                     /\ list' = [list EXCEPT ![w] = s] /\ Distinct(s)
                     /\ SetOf(s) = {e \in SetOf(rows) : /\ status[e] = 0 /\ e \notin soft /\ At[e] <= filter[w]
                                                        /\ IssuerOf[e] = issuer[w]}
                     /\ \A i, j \in DOMAIN s : i < j => Before(rows, s[i], s[j])
      <3>1. PICK s \in Seq(Events) :
                     /\ list' = [list EXCEPT ![w] = s]
                     /\ SetOf(s) = {e \in SetOf(rows) : /\ status[e] = 0 /\ e \notin soft /\ At[e] <= filter[w]
                                                        /\ IssuerOf[e] = issuer[w]}
                     /\ \A i, j \in DOMAIN s : i < j => Before(rows, s[i], s[j])
        BY <2>6
      <3>2. list'[w] = s /\ pc'[w] = "event" /\ past'.seen[w] = SetOf(rows)
        BY <1>0, <2>6, <3>1 DEF EventTypes, EventPast
      <3>3. \A e \in SetOf(rows) : Sched!Known(e)
        BY DEF Sched!Known, Sched!Range, SetOf
      <3>4. ListInOrder(w)'
        BY <2>1, <2>2, <2>6, <3>1, <3>2, <3>3 DEF ListInOrder
      <3> QED
        BY <2>4, <3>4 DEF EventOrder
    <2> QED
      BY <1>0, <1>4, <2>5, <2>6, EventsRead
  <1>5. ASSUME NEW w \in Workers,
               Sched!ReleaseProcessingIssuer(w) \/ Sched!ExecuteFails(w) \/ Sched!SaveFails(w)
        PROVE  EventOrder'
    <2>1. UNCHANGED <<rows, soft, status, filter>> /\ \A e : Sched!Known(e)' <=> Sched!Known(e)
      BY <1>0, <1>5, EventQuiet
         DEF Sched!WorkerStep, Sched!ReleaseProcessingIssuer, Sched!ExecuteFails, Sched!SaveFails, Sched!db
    <2>2. PICK where \in {"claim", "idle"} : Sched!Released(w, where)
      BY <1>5 DEF Sched!ReleaseProcessingIssuer, Sched!ExecuteFails, Sched!SaveFails
    <2>3. /\ pc' = [pc EXCEPT ![w] = where] /\ list' = [list EXCEPT ![w] = <<>>]
          /\ issuer' = [issuer EXCEPT ![w] = Sched!Nobody]
      BY <1>0, <2>2, EventReleased
    <2>4. past'.seen = [past.seen EXCEPT ![w] = {}]
      BY <1>0, <1>5 DEF Sched!ReleaseProcessingIssuer, Sched!ExecuteFails, Sched!SaveFails, EventTypes, EventPast
    <2>5. ListInOrder(w)'
      <3>1. list'[w] = <<>> /\ past'.seen[w] = {}
        BY <1>0, <2>3, <2>4 DEF EventTypes, EventPast
      <3> QED
        BY <3>1, EventOrderEmpty
    <2>6. ASSUME NEW v \in Workers \ {w} PROVE ListInOrder(v)'
      <3>1. issuer'[v] = issuer[v] /\ pc'[v] = pc[v] /\ list'[v] = list[v] /\ past'.seen[v] = past.seen[v]
        BY <1>0, <2>3, <2>4 DEF EventTypes, EventPast
      <3>2. ListInOrder(v) /\ (pc[v] \notin {"event", "save"} => past.seen[v] = {})
        BY <1>0 DEF EventOrder, ListInOrder
      <3> QED
        BY <2>1, <3>1, <3>2, EventOrderStays
    <2> QED
      BY <2>5, <2>6 DEF EventOrder
  <1>6. ASSUME NEW w \in Workers, Sched!NoKey(w) \/ Sched!Execute(w)
        PROVE  EventOrder'
    <2>1. \A e : Sched!Known(e)' <=> Sched!Known(e)
      BY <1>0, <1>6, EventQuiet DEF Sched!WorkerStep
    <2>2. /\ UNCHANGED <<rows, soft, status, filter, issuer, list, past>>
          /\ pc[w] = "event" /\ pc' = [pc EXCEPT ![w] = "save"]
      BY <1>6 DEF Sched!NoKey, Sched!Execute, Sched!Finish, Sched!Goto, Sched!db
    <2>3. ASSUME NEW v \in Workers PROVE ListInOrder(v)'
      <3>1. ListInOrder(v) /\ (pc'[v] \notin {"event", "save"} => past.seen[v] = {})
        BY <1>0, <2>2 DEF EventOrder, ListInOrder, EventTypes
      <3> QED
        BY <2>1, <2>2, <3>1, EventOrderStays
    <2> QED
      BY <2>3 DEF EventOrder
  <1>7. ASSUME NEW w \in Workers, Sched!Save(w)
        PROVE  EventOrder'
    <2> DEFINE e == Head(list[w])
    <2>1. UNCHANGED <<rows, soft>> /\ \A f : Sched!Known(f)' <=> Sched!Known(f)
      BY <1>0, <1>7, EventQuiet DEF Sched!WorkerStep
    <2>2. /\ e \in Events
          /\ status' = [status EXCEPT ![e] = IF e \notin SetOf(rows) THEN status[e]
                                            ELSE IF outcome[w] = "updated" THEN 1 ELSE 2]
          /\ SetOf(Tail(list[w])) = SetOf(list[w]) \ {e}
          /\ pc' = [pc EXCEPT ![w] = "event"] /\ list' = [list EXCEPT ![w] = Tail(list[w])]
          /\ UNCHANGED <<filter, issuer, past>>
      BY <1>7, EventSaved
    <2>3. \A i \in DOMAIN Tail(list[w]) :
             i \in Int /\ i + 1 \in DOMAIN list[w] /\ Tail(list[w])[i] = list[w][i + 1]
      <3>1. list[w] # <<>> /\ list[w] \in Seq(Events) /\ Distinct(list[w])
        BY <1>0, <1>7 DEF EventTypes, EventLists, Sched!Save
      <3> QED
        BY <3>1, TailOf
    <2>4. SetOf(rows) \subseteq Events /\ status \in [Events -> 0..2]
      BY <1>0 DEF EventTypes, SetOf
    <2> HIDE DEF e
    <2>5. \A f \in SetOf(rows) : (status'[f] = 0 => status[f] = 0 /\ f # e)
      BY <2>2, <2>4
    <2>6. ASSUME NEW v \in Workers \ {w} PROVE ListInOrder(v)'
      <3>1. pc'[v] = pc[v] /\ list'[v] = list[v]
        BY <1>0, <2>2 DEF EventTypes
      <3>2. ListInOrder(v) /\ (pc[v] \notin {"event", "save"} => past.seen[v] = {})
        BY <1>0 DEF EventOrder, ListInOrder
      <3> QED
        BY <2>1, <2>2, <2>5, <3>1, <3>2, EventOrderStays
    <2>7. ListInOrder(w)'
      <3>1. list'[w] = Tail(list[w]) /\ pc'[w] = "event" /\ ListInOrder(w)
        BY <1>0, <2>2 DEF EventTypes, EventOrder
      <3>2. ASSUME NEW i \in DOMAIN Tail(list[w]), NEW j \in DOMAIN Tail(list[w]), i < j,
                   Tail(list[w])[i] \in SetOf(rows), Tail(list[w])[j] \in SetOf(rows)
            PROVE  Before(rows, Tail(list[w])[i], Tail(list[w])[j])
        <4>1. i + 1 < j + 1
          BY <2>3, <3>2
        <4> QED
          BY <2>3, <3>1, <3>2, <4>1 DEF ListInOrder
      <3> QED
        BY <2>1, <2>2, <2>5, <3>1, <3>2 DEF ListInOrder
    <2> QED
      BY <2>6, <2>7 DEF EventOrder
  <1>8. CASE Sched!Tick \/ Sched!Shutdown \/ Sched!Restart
    <2>1. \A e : Sched!Known(e)' <=> Sched!Known(e)
      BY <1>0, <1>8, EventQuiet
    <2>2. UNCHANGED <<rows, soft, status, filter, issuer, list>>
      BY <1>8 DEF Sched!Tick, Sched!Shutdown, Sched!Restart, Sched!db, Sched!local
    <2>3. past'.seen = past.seen
      BY <1>0, <1>8 DEF Sched!Tick, Sched!Shutdown, Sched!Restart, EventTypes, EventPast
    <2>4. ASSUME NEW v \in Workers PROVE ListInOrder(v)'
      <3>1. pc'[v] = pc[v] \/ pc[v] = "off"
        BY <1>8 DEF Sched!Tick, Sched!Shutdown, Sched!Restart
      <3>2. ListInOrder(v) /\ (pc'[v] \notin {"event", "save"} => past.seen[v] = {})
        BY <1>0, <3>1 DEF EventOrder, ListInOrder
      <3> QED
        BY <2>1, <2>2, <2>3, <3>2, EventOrderStays
    <2> QED
      BY <2>4 DEF EventOrder
  <1>9. CASE Sched!Crash
    <2>1. \A v \in Workers : list'[v] = <<>> /\ past'.seen[v] = {}
      BY <1>0, <1>9 DEF Sched!Crash, EventTypes, EventPast
    <2> QED
      BY <2>1, EventOrderEmpty DEF EventOrder
  <1> QED
    BY <1>1, <1>2, <1>3, <1>4, <1>5, <1>6, <1>7, <1>8, <1>9, EventSteps, Zenon DEF Sched!WorkerStep

LEMMA EventPreserved ==
    ASSUME EventAssumption, EventInv, [Sched!Next]_Sched!vars
    PROVE  EventInv'
  <1>1. CASE Sched!Next
    BY <1>1, EventTypesNext, EventListsNext, EventRecordsNext, EventChainNext, EventOrderNext DEF EventInv
  <1>2. CASE UNCHANGED Sched!vars
    <2>1. UNCHANGED <<rows, status, soft, log, notes, chain, now, pc, filter, issuer, list, outcome,
                      claimed, past>>
      BY <1>2 DEF Sched!vars, Sched!db, Sched!local
    <2>2. EventTypes'
      BY <2>1 DEF EventInv, EventTypes
    <2>3. \A e : Sched!Known(e)' <=> Sched!Known(e)
      BY <2>1 DEF Sched!Known, Sched!Range
    <2>4. EventLists' /\ EventRecords'
      BY <2>1, <2>3 DEF EventInv, EventLists, EventRecords, Logged, Told
    <2>5. EventChain' /\ EventOrder'
      BY <2>1, <2>3 DEF EventInv, EventChain, EventOrder, ListInOrder, Logged, Updating
    <2> QED
      BY <2>2, <2>4, <2>5 DEF EventInv
  <1> QED
    BY <1>1, <1>2

LEMMA EventInvariant == EventAssumption => (Sched!Spec => []EventInv)
  <1> SUFFICES ASSUME EventAssumption PROVE Sched!Spec => []EventInv
    OBVIOUS
  <1>1. Sched!Init => EventInv
    BY EventInitially
  <1>2. EventInv /\ [Sched!Next]_Sched!vars => EventInv'
    BY EventPreserved
  <1> QED
    BY <1>1, <1>2, PTL DEF Sched!Spec

-----------------------------------------------------------------------------
(* Scheduled events: what follows.                                         *)

LEMMA EventBounded ==
    ASSUME EventAssumption, EventInv
    PROVE  Sched!ExecutedOnce
  <1>0. EventTypes /\ EventLists /\ EventRecords /\ EventChain
    BY DEF EventInv
  <1>1. ASSUME NEW e \in Events \ past.lost
        PROVE  LET saving == {w \in Workers : pc[w] = "save" /\ outcome[w] = "updated" /\ Head(list[w]) = e}
                   logged == {i \in DOMAIN log : log[i] = e}
               IN  /\ chain[e] <= 1
                   /\ chain[e] = Sched!Cardinality(logged) + Sched!Cardinality(saving)
    <2> DEFINE saving == {w \in Workers : pc[w] = "save" /\ outcome[w] = "updated" /\ Head(list[w]) = e}
               logged == {i \in DOMAIN log : log[i] = e}
    <2>1. chain[e] = IF Logged(e) \/ Updating(e) THEN 1 ELSE 0
      BY <1>0, <1>1 DEF EventChain
    <2>2. Logged(e) <=> logged # {}
      BY DEF Logged, SetOf
    <2>3. Updating(e) <=> saving # {}
      BY DEF Updating
    <2>4. \A w \in saving : e \in SetOf(list[w]) /\ ~Logged(e)
      <3>1. \A w \in saving : list[w] # <<>> /\ list[w] \in Seq(Events) /\ Distinct(list[w])
        BY <1>0 DEF EventTypes, EventLists
      <3>2. \A w \in saving : e \in SetOf(list[w])
        BY <3>1, TailOf
      <3> QED
        BY <1>0, <3>2 DEF EventLists
    <2>5. \A v, w \in saving : v = w
      BY <1>0, <2>4 DEF EventLists, Owned
    <2>6. \A i, j \in logged : i = j
      BY <1>0 DEF EventRecords, Distinct
    <2> HIDE DEF saving, logged
    <2>7. Sched!Cardinality(saving) = IF saving = {} THEN 0 ELSE 1
      <3>1. CASE saving = {}
        BY <3>1, EventSets, FS_EmptySet
      <3>2. CASE saving # {}
        <4>1. PICK w \in saving : saving = {w}
          <5>1. PICK w \in saving : TRUE
            BY <3>2
          <5> QED
            BY <5>1, <2>5
        <4> QED
          BY <3>2, <4>1, EventSets, FS_Singleton
      <3> QED
        BY <3>1, <3>2
    <2>8. Sched!Cardinality(logged) = IF logged = {} THEN 0 ELSE 1
      <3>1. CASE logged = {}
        BY <3>1, EventSets, FS_EmptySet
      <3>2. CASE logged # {}
        <4>1. PICK i \in logged : logged = {i}
          <5>1. PICK i \in logged : TRUE
            BY <3>2
          <5> QED
            BY <5>1, <2>6
        <4> QED
          BY <3>2, <4>1, EventSets, FS_Singleton
      <3> QED
        BY <3>1, <3>2
    <2>9. saving = {} \/ logged = {}
      BY <2>2, <2>4
    <2>10. chain[e] <= 1 /\ chain[e] = Sched!Cardinality(logged) + Sched!Cardinality(saving)
      BY <2>1, <2>2, <2>3, <2>7, <2>8, <2>9
    <2> QED
      BY <2>10 DEF saving, logged
  <1>2. \A v, w \in Workers : v # w /\ issuer[v] = issuer[w] => issuer[v] = Sched!Nobody
    BY <1>0 DEF EventLists
  <1> QED
    BY <1>1, <1>2 DEF Sched!ExecutedOnce

LEMMA EventTruth ==
    ASSUME EventAssumption, EventInv
    PROVE  Sched!StatusIsTrue
  <1>0. EventTypes /\ EventRecords
    BY DEF EventInv
  <1>1. \A e \in Events : \A a \in Sched!Answers(e) : e \in SetOf(rows) /\ a.status = status[e]
    BY DEF Sched!Answers, Sched!RetrieveScheduledBondTokenUpdateEvent, Sched!NotFound,
       Sched!RetrieveScheduledShareTokenUpdateEvent, Sched!RetrieveEvent, Sched!Range, SetOf
  <1>2. \A e \in SetOf(rows) : e \in Events /\ Sched!Answers(e) # {}
    <2>1. ASSUME NEW e \in SetOf(rows)
          PROVE  e \in Events /\ Sched!Answers(e) # {}
      <3>a. rows \in Seq(Events) /\ status \in [Events -> 0..2]
        BY <1>0 DEF EventTypes
      <3>1. e \in Events /\ e \in Sched!Range(rows) /\ TypeOf[e] \in {"bond", "share"}
        BY <3>a DEF SetOf, Sched!Range, EventAssumption, Sched!ScheduledEventsAssumption
      <3>2. [status |-> status[e], is_soft_deleted |-> e \in soft] # Sched!NotFound
        <4>1. status[e] # 3
          BY <3>a, <3>1
        <4> QED
          BY <4>1 DEF Sched!NotFound
      <3>3. [status |-> status[e], is_soft_deleted |-> e \in soft] \in Sched!Answers(e)
        BY <3>1, <3>2
           DEF Sched!Answers, Sched!RetrieveScheduledBondTokenUpdateEvent,
               Sched!RetrieveScheduledShareTokenUpdateEvent, Sched!RetrieveEvent
      <3> QED
        BY <3>1, <3>3
    <2> QED
      BY <2>1
  <1>3. ASSUME NEW e \in Events, NEW a \in Sched!Answers(e)
        PROVE  LET told == Sched!Cardinality({i \in DOMAIN notes : notes[i].event = e})
               IN  /\ a.status = 1 => e \in Sched!Range(log) /\ told = 0
                   /\ a.status = 2 => told = 1 /\ e \notin Sched!Range(log)
                   /\ a.status = 0 => told = 0 /\ e \notin Sched!Range(log)
    <2> DEFINE N == {i \in DOMAIN notes : notes[i].event = e}
    <2>1. e \in SetOf(rows) /\ a.status = status[e]
      BY <1>1, <1>3
    <2>2. /\ Logged(e) <=> e \in Sched!Range(log)
          /\ Told(e) <=> N # {}
      BY DEF Logged, Told, SetOf, Sched!Range
    <2>3. \A i, j \in N : i = j
      BY <1>0 DEF EventRecords
    <2> HIDE DEF N
    <2>4. Sched!Cardinality(N) = IF N = {} THEN 0 ELSE 1
      <3>1. CASE N = {}
        BY <3>1, EventSets, FS_EmptySet
      <3>2. CASE N # {}
        <4>1. PICK i : N = {i}
          BY <2>3, <3>2
        <4> QED
          BY <3>2, <4>1, EventSets, FS_Singleton
      <3> QED
        BY <3>1, <3>2
    <2>5. /\ a.status = 1 => Logged(e) /\ ~Told(e)
          /\ a.status = 2 => Told(e) /\ ~Logged(e)
          /\ a.status = 0 => ~Told(e) /\ ~Logged(e)
      BY <1>0, <2>1 DEF EventRecords
    <2> QED
      BY <2>2, <2>4, <2>5 DEF N
  <1>4. Sched!Range(Sched!ListAllScheduledEvents) = {e \in Events : Sched!Answers(e) # {}}
    <2>1. Sched!Range(Sched!ListAllScheduledEvents) = SetOf(rows)
      BY DEF Sched!Range, Sched!ListAllScheduledEvents, SetOf
    <2>2. \A e \in Events : Sched!Answers(e) # {} => e \in SetOf(rows)
      BY <1>1
    <2> QED
      BY <1>2, <2>1, <2>2
  <1>5. Sched!ListAllScheduledBondTokenUpdateEvents \cup Sched!ListAllScheduledShareTokenUpdateEvents
        = Sched!Range(Sched!ListAllScheduledEvents)
    <2>1. \A e \in Sched!Range(rows) : TypeOf[e] \in {"bond", "share"}
      BY <1>0 DEF EventTypes, Sched!Range, EventAssumption, Sched!ScheduledEventsAssumption
    <2> QED
      BY <2>1
         DEF Sched!ListAllScheduledBondTokenUpdateEvents, Sched!ListAllScheduledShareTokenUpdateEvents,
             Sched!ListAllScheduledEvents, Sched!ListEvents
  <1> QED
    BY <1>3, <1>4, <1>5 DEF Sched!StatusIsTrue

\* A worker that is about to save had a list.
LEMMA EventTaken ==
    ASSUME EventAssumption, EventInv, Sched!Next, NEW w \in Workers, pc[w] = "event", pc'[w] = "save"
    PROVE  list[w] # <<>>
  <1>0. EventTypes
    BY DEF EventInv
  <1>1. ASSUME NEW v \in Workers, Sched!WorkerStep(v) \/ Sched!SaveFails(v)
        PROVE  list[w] # <<>>
    <2>1. CASE Sched!NoKey(v) \/ Sched!Execute(v)
      BY <1>0, <2>1 DEF EventTypes, Sched!NoKey, Sched!Execute, Sched!Finish, Sched!Goto
    <2>2. CASE ~(Sched!NoKey(v) \/ Sched!Execute(v))
      <3>1. \E p \in EventPlaces \ {"save"} : pc' = [pc EXCEPT ![v] = p]
        BY <1>1, <2>2, Zenon
           DEF EventPlaces, Sched!WorkerStep, Sched!StartPass, Sched!Claim, Sched!LoadEvents,
               Sched!ReleaseProcessingIssuer, Sched!LeavePass, Sched!ExecuteFails, Sched!Save,
               Sched!SaveFails, Sched!Released, Sched!Goto
      <3> QED
        BY <1>0, <3>1 DEF EventTypes
    <2> QED
      BY <2>1, <2>2
  <1>2. CASE ~\E v \in Workers : Sched!WorkerStep(v) \/ Sched!SaveFails(v)
    <2>1. pc' = pc \/ pc' = [v \in Workers |-> "off"] \/ pc' = [v \in Workers |-> "idle"]
      BY <1>2, EventSteps, Zenon
         DEF Sched!Schedule, Sched!Delete, Sched!Tick, Sched!Shutdown, Sched!Crash, Sched!Restart
    <2> QED
      BY <2>1
  <1> QED
    BY <1>1, <1>2

LEMMA EventsInTurn ==
    ASSUME EventAssumption, EventInv, [Sched!Next]_Sched!vars
    PROVE  Sched!CarriedOutInOrder
  <1>0. EventTypes /\ EventLists /\ EventOrder
    BY DEF EventInv
  <1> SUFFICES ASSUME NEW w \in Workers, pc[w] = "event", pc'[w] = "save",
                      NEW e \in past.seen[w], e \in SetOf(rows),
                      IssuerOf[e] = issuer[w], status[e] = 0, e \notin soft,
                      e # Head(list[w]), Head(list[w]) \in SetOf(rows)
               PROVE  ~Sched!Earlier(e, Head(list[w]))
    BY DEF Sched!CarriedOutInOrder, Sched!Range, SetOf
  <1> DEFINE h == Head(list[w])
  <1>1. list[w] # <<>>
    BY EventTaken DEF Sched!vars
  <1>2. h \in SetOf(list[w]) /\ h = list[w][1] /\ 1 \in DOMAIN list[w] /\ DOMAIN list[w] \subseteq Nat \ {0}
    <2>1. list[w] \in Seq(Events) /\ Distinct(list[w])
      BY <1>0 DEF EventTypes, EventLists
    <2>2. 1 \in DOMAIN list[w] /\ DOMAIN list[w] \subseteq Nat \ {0}
      BY <1>1, <2>1
    <2> QED
      BY <1>1, <2>1, <2>2, TailOf
  <1>3. At[h] <= filter[w] /\ e \in Events /\ h \in Events
    BY <1>0, <1>2 DEF EventOrder, ListInOrder, EventTypes, SetOf
  <1>4. At[h] \in Int /\ At[e] \in Int /\ filter[w] \in Int
    BY <1>0, <1>3 DEF EventTypes, EventAssumption, Sched!ScheduledEventsAssumption
  <1> HIDE DEF h
  <1>5. CASE At[e] <= filter[w]
    <2>1. e \in SetOf(list[w])
      BY <1>0, <1>5 DEF EventOrder, ListInOrder
    <2>2. PICK i \in DOMAIN list[w] : list[w][i] = e
      BY <2>1 DEF SetOf
    <2>3. 1 < i
      BY <1>2, <2>2 DEF h
    <2>4. Before(rows, h, e)
      BY <1>0, <1>2, <2>2, <2>3 DEF EventOrder, ListInOrder, h
    <2> QED
      BY <1>0, <2>4, EarlierIs DEF h
  <1>6. CASE ~(At[e] <= filter[w])
    BY <1>3, <1>4, <1>6 DEF Sched!Earlier, h
  <1> QED
    BY <1>5, <1>6

\* Whatever fails, no two workers have the events of an issuer, and an event is carried
\* out once at most unless the commit of its status was lost.
THEOREM EventsOnce == EventAssumption => (Sched!Spec => []Sched!ExecutedOnce)
  <1> SUFFICES ASSUME EventAssumption PROVE Sched!Spec => []Sched!ExecutedOnce
    OBVIOUS
  <1>1. EventInv => Sched!ExecutedOnce
    BY EventBounded
  <1> QED
    BY <1>1, EventInvariant, PTL

\* The status of an event, its log entry and its notification agree, though it
\* may be deleted while a worker has it.
THEOREM EventReports == EventAssumption => (Sched!Spec => []Sched!StatusIsTrue)
  <1> SUFFICES ASSUME EventAssumption PROVE Sched!Spec => []Sched!StatusIsTrue
    OBVIOUS
  <1>1. EventInv => Sched!StatusIsTrue
    BY EventTruth
  <1> QED
    BY <1>1, EventInvariant, PTL

\* The events of an issuer are carried out by date, and those of one date as they were
\* posted, but for events posted after the worker has read its list.
THEOREM EventSequence == EventAssumption => (Sched!Spec => [][Sched!CarriedOutInOrder]_Sched!vars)
  <1> SUFFICES ASSUME EventAssumption PROVE Sched!Spec => [][Sched!CarriedOutInOrder]_Sched!vars
    OBVIOUS
  <1>1. EventInv /\ [Sched!Next]_Sched!vars => [Sched!CarriedOutInOrder]_Sched!vars
    BY EventsInTurn
  <1> QED
    BY <1>1, EventInvariant, PTL DEF Sched!Spec

-----------------------------------------------------------------------------
(* The issue of tokens: the invariant.                                     *)

TokenCodes == {"no account", "no key", "not sent"}
TokenNote == [token : Tokens, code : TokenCodes]
TokenUpdate == [token : Tokens, status : 0..2]
TokenPlaces == {"idle", "next", "update", "register", "save", "off"}

TokenTypes ==
    /\ request \in [Tokens -> {"none", "deployed", "listed", "issued", "error"}]
    /\ tokens \in Seq(Tokens) /\ status \in [Tokens -> 0..2]
    /\ updates \in Seq(TokenUpdate) /\ positions \in Seq(Tokens) /\ notes \in Seq(TokenNote)
    /\ set \in [Tokens -> SUBSET Items] /\ listed \subseteq Tokens
    /\ pc \in TokenPlaces /\ list \in Seq(Tokens) /\ outcome \in TokenCodes \cup {"none", "registered"}
    /\ pc = "save" => outcome # "none"
    /\ past \in [faults : Nat, lost : SUBSET Tokens]

\* The rows of a token: one of each table, and the same status in both.
TokenRows ==
    /\ SetOf(tokens) = {t \in Tokens : request[t] = "issued"}
    /\ \A t \in Tokens : status[t] # 0 => request[t] = "issued"
    /\ \A i, j \in DOMAIN updates : updates[i].token = updates[j].token => i = j
    /\ \A i \in DOMAIN updates : /\ request[updates[i].token] = "issued"
                                 /\ updates[i].status = status[updates[i].token]

IsSet(t) == ItemsOf[t] \subseteq set[t]
JustListed == pc = "save" /\ outcome = "registered"

\* What is on the list of the batch is pending; its first token is registered when
\* it is complete, and saved as such when it is registered.
TokenLists ==
    /\ Distinct(list)
    /\ \A t \in SetOf(list) : status[t] = 0 /\ request[t] = "issued"
    /\ pc \in {"update", "register", "save"} => list # <<>>
    /\ pc \in {"idle", "off"} => list = <<>>
    /\ pc = "register" => IsSet(Head(list))
    /\ JustListed => IsSet(Head(list)) /\ Head(list) \in listed

Warned(t) == \E i \in DOMAIN notes : notes[i].token = t

\* A token that succeeded is complete and has its position and UTXO; one that failed, and
\* no other, has a notification.
TokenResults ==
    /\ \A t \in Tokens : status[t] = 1 => IsSet(t) /\ t \in listed
    /\ \A t \in Tokens : request[t] = "listed" => ItemsOf[t] = {} /\ t \in listed
    /\ Distinct(positions) /\ SetOf(positions) = {t \in Tokens : status[t] = 1} /\ utxos = positions
    /\ \A i, j \in DOMAIN notes : notes[i].token = notes[j].token => i = j
    /\ \A t \in Tokens : Warned(t) <=> status[t] = 2

\* Whatever is registered has succeeded or is about to, unless that was lost.
TokenListed ==
    \A t \in listed \ past.lost :
       status[t] = 1 \/ request[t] = "listed" \/ (JustListed /\ Head(list) = t)

TokenInv == TokenTypes /\ TokenRows /\ TokenLists /\ TokenResults /\ TokenListed
TokenAssumption == Token!TokenIssueAssumption

-----------------------------------------------------------------------------
(* The issue of tokens: the steps.                                         *)

LEMMA TokenSets ==
    \A S : Token!Cardinality(S) = Cardinality(S) /\ (Token!IsFiniteSet(S) <=> IsFiniteSet(S))
  <1>1. \A S : Token!IsFiniteSet(S) <=> IsFiniteSet(S)
    BY Zenon DEF Token!IsFiniteSet, IsFiniteSet
  <1>2. \A S : Token!Cardinality(S) = Cardinality(S)
    BY <1>1, Zenon DEF Token!Cardinality, Cardinality, Token!IsFiniteSet, IsFiniteSet
  <1> QED
    BY <1>1, <1>2

\* Steps that leave rows, results and lists of tokens alone, but for what is set.
TokenMove ==
    \/ Token!PassEnds \/ Token!ShutdownSeen \/ Token!GetPrivateKey \/ Token!UpdateItem \/ Token!Updated
    \/ Token!UpdateFails \/ Token!AlreadyRegistered \/ Token!PassFails \/ Token!Shutdown \/ Token!Crash
    \/ Token!Restart

LEMMA TokenSteps ==
    ASSUME Token!Next
    PROVE  \/ \E t \in Tokens : \/ Token!Deploy(t, "bond") \/ Token!Deploy(t, "share") \/ Token!RegisterAtOnce(t)
                                \/ Token!CommitPending(t) \/ Token!CommitSucceeded(t) \/ Token!RequestFails(t)
           \/ TokenMove \/ Token!GetUpdateTokenList \/ Token!RegisterInBatch \/ Token!RegisterFails
           \/ Token!SaveFailed \/ Token!SaveSucceeded
  BY Zenon DEF Token!Next, Token!BatchStep, Token!IssueBondToken, Token!IssueShareToken, TokenMove

\* The list has the tokens of the pending rows.
LEMMA TokensPending ==
    ASSUME TokenTypes, TokenRows, Token!GetUpdateTokenList
    PROVE  /\ list' \in Seq(Tokens) /\ Distinct(list')
           /\ \A t \in SetOf(list') : status[t] = 0 /\ request[t] = "issued"
  <1> DEFINE P == Token!Pending
  <1>1. P = {i \in 1..Len(updates) : updates[i].status = 0} /\ Len(updates) \in Nat
    BY DEF TokenTypes, Token!Pending
  <1>2. IsFiniteSet(P) /\ Cardinality(P) \in Nat
    <2>1. IsFiniteSet(1..Len(updates))
      BY <1>1, FS_Interval
    <2>2. P \subseteq 1..Len(updates)
      BY <1>1
    <2> HIDE DEF P
    <2> QED
      BY <2>1, <2>2, FS_Subset, FS_CardinalityType
  <1>3. PICK s \in [1..Cardinality(P) -> P] :
           /\ \A i, j \in DOMAIN s : i < j => s[i] < s[j]
           /\ list' = [i \in DOMAIN s |-> updates[s[i]].token]
    BY TokenSets DEF Token!GetUpdateTokenList
  <1> DEFINE n == Cardinality(P)
  <1>4. \A i \in 1..n : /\ s[i] \in DOMAIN updates /\ updates[s[i]].status = 0
                        /\ updates[s[i]] \in TokenUpdate /\ s[i] \in Int
    <2> TAKE i \in 1..n
    <2>1. s[i] \in P
      <3> HIDE DEF P
      <3> QED
        BY <1>3
    <2>2. s[i] \in 1..Len(updates) /\ updates[s[i]].status = 0
      <3> HIDE DEF P, n
      <3> QED
        BY <1>1, <2>1
    <2>3. updates \in Seq(TokenUpdate)
      BY DEF TokenTypes
    <2> HIDE DEF P, n
    <2> QED
      BY <1>1, <2>2, <2>3
  <1> HIDE DEF P, n
  <1>5. n \in Nat /\ DOMAIN s = 1..n
    BY <1>2, <1>3 DEF n
  <1>6. list' = [i \in 1..n |-> updates[s[i]].token] /\ \A i \in 1..n : updates[s[i]].token \in Tokens
    BY <1>3, <1>4, <1>5 DEF TokenUpdate
  <1>7. list' \in Seq(Tokens) /\ DOMAIN list' = 1..n
    BY <1>5, <1>6
  <1>8. \A i, j \in 1..n : s[i] = s[j] => i = j
    BY <1>3, <1>4, <1>5
  <1>9. Distinct(list')
    BY <1>4, <1>6, <1>7, <1>8 DEF Distinct, TokenRows
  <1>10. \A i \in 1..n : status[list'[i]] = 0 /\ request[list'[i]] = "issued"
    BY <1>4, <1>6 DEF TokenRows
  <1> QED
    BY <1>7, <1>9, <1>10 DEF SetOf

LEMMA TokenInitially ==
    ASSUME TokenAssumption, Token!Init
    PROVE  TokenInv
  <1> USE DEF TokenAssumption, Token!TokenIssueAssumption, Token!Init
  <1>1. TokenTypes
    BY DEF TokenTypes, TokenPlaces, TokenCodes
  <1>2. TokenRows /\ TokenLists
    BY DEF TokenRows, TokenLists, JustListed, SetOf, Distinct
  <1>3. TokenResults
    BY DEF TokenResults, SetOf, Distinct, Warned
  <1>4. TokenListed
    BY DEF TokenListed
  <1> QED
    BY <1>1, <1>2, <1>3, <1>4 DEF TokenInv

LEMMA TokenPastGrows ==
    ASSUME past \in [faults : Nat, lost : SUBSET Tokens],
           \/ Token!Fault
           \/ \E t \in Tokens : Token!FaultAt(t)
    PROVE  /\ past' \in [faults : Nat, lost : SUBSET Tokens]
           /\ past.lost \subseteq past'.lost
           /\ \A t \in Tokens : Token!FaultAt(t) => t \in past'.lost
  <1>1. past.faults \in Nat /\ past.lost \subseteq Tokens
    OBVIOUS
  <1>2. CASE Token!Fault
    <2>1. past' = [faults |-> past.faults + 1, lost |-> past.lost]
      BY <1>2 DEF Token!Fault
    <2> QED
      BY <1>1, <2>1 DEF Token!FaultAt
  <1>3. CASE \E t \in Tokens : Token!FaultAt(t)
    BY <1>1, <1>3 DEF Token!FaultAt
  <1> QED
    BY <1>2, <1>3

\* The rows of update_token, and the head of the list.
LEMMA TokenUpdates ==
    ASSUME TokenTypes
    PROVE  /\ updates \in Seq(TokenUpdate) /\ Len(updates) \in Nat /\ DOMAIN updates = 1..Len(updates)
           /\ \A i \in DOMAIN updates : /\ updates[i] \in TokenUpdate /\ updates[i].token \in Tokens
                                        /\ updates[i].status \in 0..2
  <1>1. updates \in Seq(TokenUpdate)
    BY DEF TokenTypes
  <1>2. Len(updates) \in Nat /\ DOMAIN updates = 1..Len(updates) /\ \A i \in DOMAIN updates : updates[i] \in TokenUpdate
    BY <1>1
  <1> QED
    BY <1>1, <1>2 DEF TokenUpdate

LEMMA TokenHead ==
    ASSUME TokenTypes, TokenLists, pc \in {"update", "register", "save"}
    PROVE  /\ list # <<>> /\ Head(list) \in Tokens /\ Tail(list) \in Seq(Tokens) /\ Distinct(Tail(list))
           /\ SetOf(Tail(list)) = SetOf(list) \ {Head(list)}
           /\ status[Head(list)] = 0 /\ request[Head(list)] = "issued"
  <1>1. list # <<>> /\ list \in Seq(Tokens) /\ Distinct(list)
    BY DEF TokenTypes, TokenLists
  <1>2. /\ Tail(list) \in Seq(Tokens) /\ Head(list) \in SetOf(list) /\ Head(list) \in Tokens
        /\ Distinct(Tail(list)) /\ SetOf(Tail(list)) = SetOf(list) \ {Head(list)}
    BY <1>1, TailOf
  <1> QED
    BY <1>1, <1>2 DEF TokenLists

\* What a move leaves alone.
LEMMA TokenMoves ==
    ASSUME TokenAssumption, TokenTypes, TokenLists, TokenMove
    PROVE  /\ UNCHANGED <<request, tokens, status, updates, positions, utxos, wst, notes, listed>>
           /\ set' \in [Tokens -> SUBSET Items] /\ \A t \in Tokens : set[t] \subseteq set'[t]
           /\ past' \in [faults : Nat, lost : SUBSET Tokens] /\ past.lost \subseteq past'.lost
  <1> USE DEF TokenMove, Token!db, Token!chain, Token!batch
  <1>1. UNCHANGED <<request, tokens, status, updates, positions, utxos, wst, notes, listed>>
    BY DEF Token!PassEnds, Token!ShutdownSeen, Token!GetPrivateKey, Token!UpdateItem, Token!Updated,
           Token!UpdateFails, Token!AlreadyRegistered, Token!PassFails, Token!Shutdown, Token!Crash,
           Token!Restart
  <1>2. past' = past \/ Token!Fault \/ \E t \in Tokens : Token!FaultAt(t)
    <2>1. list # <<>> => Head(list) \in Tokens
      BY DEF TokenTypes
    <2> QED
      BY <2>1 DEF Token!PassEnds, Token!ShutdownSeen, Token!GetPrivateKey, Token!UpdateItem, Token!Updated,
           Token!UpdateFails, Token!AlreadyRegistered, Token!PassFails, Token!Shutdown, Token!Crash,
           Token!Restart
  <1>3. past' \in [faults : Nat, lost : SUBSET Tokens] /\ past.lost \subseteq past'.lost
    BY <1>2, TokenPastGrows DEF TokenTypes
  <1>4. set' = set \/ \E i \in Token!Unset : set' = [set EXCEPT ![Head(list)] = @ \cup {i}]
    BY DEF Token!PassEnds, Token!ShutdownSeen, Token!GetPrivateKey, Token!UpdateItem, Token!Updated,
           Token!UpdateFails, Token!AlreadyRegistered, Token!PassFails, Token!Shutdown, Token!Crash,
           Token!Restart
  <1>5. set \in [Tokens -> SUBSET Items] /\ (Token!Unset # {} /\ Head(list) \in Tokens => Token!Unset \subseteq Items)
    BY DEF TokenTypes, TokenAssumption, Token!TokenIssueAssumption, Token!Unset
  <1>6. set' \in [Tokens -> SUBSET Items] /\ \A t \in Tokens : set[t] \subseteq set'[t]
    <2>1. CASE set' = set
      BY <1>5, <2>1
    <2>2. CASE set' # set
      <3>1. PICK i \in Token!Unset : set' = [set EXCEPT ![Head(list)] = @ \cup {i}]
        BY <1>4, <2>2
      <3>2. Head(list) \in Tokens => i \in Items
        BY <1>5
      <3> QED
        BY <1>5, <3>1, <3>2
    <2> QED
      BY <2>1, <2>2
  <1> QED
    BY <1>1, <1>3, <1>6

LEMMA TokenTypesNext ==
    ASSUME TokenAssumption, TokenInv, Token!Next
    PROVE  TokenTypes'
  <1>0. TokenTypes /\ TokenLists
    BY DEF TokenInv
  <1> USE DEF Token!db, Token!chain, Token!batch
  <1>1. ASSUME NEW t \in Tokens, Token!Deploy(t, "bond") \/ Token!Deploy(t, "share") \/ Token!RegisterAtOnce(t)
        PROVE  TokenTypes'
    BY <1>0, <1>1, TokenPastGrows
       DEF TokenTypes, Token!Deploy, Token!RegisterAtOnce, Token!Register, Token!At
  <1>2. ASSUME NEW t \in Tokens, Token!CommitPending(t)
        PROVE  TokenTypes'
    <2>1. [token |-> t, status |-> 0] \in TokenUpdate
      BY DEF TokenUpdate
    <2> QED
      BY <1>0, <1>2, <2>1 DEF TokenTypes, Token!CommitPending, Token!Rows, Token!At
  <1>3. ASSUME NEW t \in Tokens, Token!CommitSucceeded(t)
        PROVE  TokenTypes'
    BY <1>0, <1>3 DEF TokenTypes, Token!CommitSucceeded, Token!Rows, Token!At, Token!Holds
  <1>4. ASSUME NEW t \in Tokens, Token!RequestFails(t)
        PROVE  TokenTypes'
    BY <1>0, <1>4, TokenPastGrows DEF TokenTypes, Token!RequestFails, Token!At
  <1>5. CASE TokenMove
    <2>1. pc' \in TokenPlaces /\ outcome' \in TokenCodes \cup {"none", "registered"}
          /\ (pc' = "save" => outcome' # "none")
      BY <1>0, <1>5
         DEF TokenTypes, TokenPlaces, TokenCodes, TokenMove, Token!Goto, Token!PassEnds, Token!ShutdownSeen,
             Token!GetPrivateKey, Token!UpdateItem, Token!Updated, Token!UpdateFails,
             Token!AlreadyRegistered, Token!PassFails, Token!Shutdown, Token!Crash, Token!Restart
    <2>2. list' = list \/ list' = <<>>
      BY <1>5 DEF TokenMove, Token!PassEnds, Token!ShutdownSeen,
             Token!GetPrivateKey, Token!UpdateItem, Token!Updated, Token!UpdateFails,
             Token!AlreadyRegistered, Token!PassFails, Token!Shutdown, Token!Crash, Token!Restart
    <2>3. /\ UNCHANGED <<request, tokens, status, updates, positions, notes, listed>>
          /\ set' \in [Tokens -> SUBSET Items] /\ past' \in [faults : Nat, lost : SUBSET Tokens]
      BY <1>0, <1>5, TokenMoves
    <2>4. list' \in Seq(Tokens)
      <3>1. list \in Seq(Tokens) /\ <<>> \in Seq(Tokens)
        BY <1>0 DEF TokenTypes
      <3> QED
        BY <2>2, <3>1
    <2>5. tokens' \in Seq(Tokens) /\ updates' \in Seq(TokenUpdate) /\ positions' \in Seq(Tokens) /\ notes' \in Seq(TokenNote)
      BY <1>0, <2>3 DEF TokenTypes
    <2>6. /\ request' \in [Tokens -> {"none", "deployed", "listed", "issued", "error"}]
          /\ status' \in [Tokens -> 0..2] /\ listed' \subseteq Tokens
      BY <1>0, <2>3 DEF TokenTypes
    <2> QED
      BY <2>1, <2>3, <2>4, <2>5, <2>6, Zenon DEF TokenTypes
  <1>6. CASE Token!GetUpdateTokenList
    <2>1. list' \in Seq(Tokens)
      BY <1>6, TokensPending DEF TokenInv
    <2> QED
      BY <1>0, <1>6, <2>1 DEF TokenTypes, TokenPlaces, Token!GetUpdateTokenList
  <1>7. CASE Token!RegisterInBatch \/ Token!RegisterFails
    <2>1. Head(list) \in Tokens
      BY <1>0, <1>7, TokenHead DEF Token!RegisterInBatch, Token!RegisterFails
    <2> QED
      BY <1>0, <1>7, <2>1, TokenPastGrows
         DEF TokenTypes, TokenPlaces, TokenCodes, Token!RegisterInBatch, Token!RegisterFails, Token!Register,
             Token!Goto
  <1>8. CASE Token!SaveFailed \/ Token!SaveSucceeded
    <2>1. list # <<>> /\ Head(list) \in Tokens /\ Tail(list) \in Seq(Tokens)
      BY <1>0, <1>8, TokenHead DEF Token!SaveFailed, Token!SaveSucceeded
    <2>2. \E s \in 0..2 : Token!Settled(Head(list), s) /\ status' = [status EXCEPT ![Head(list)] = s]
      BY <1>8 DEF Token!SaveFailed, Token!SaveSucceeded
    <2>3. updates' \in Seq(TokenUpdate) /\ status' \in [Tokens -> 0..2]
      <3>1. PICK s \in 0..2 : /\ updates' = [i \in DOMAIN updates |->
                                   IF updates[i].token = Head(list) THEN [updates[i] EXCEPT !.status = s] ELSE updates[i]]
                              /\ status' = [status EXCEPT ![Head(list)] = s]
        BY <2>2 DEF Token!Settled
      <3>2. \A i \in DOMAIN updates : [updates[i] EXCEPT !.status = s] \in TokenUpdate
        BY <1>0, TokenUpdates DEF TokenUpdate
      <3>3. status' \in [Tokens -> 0..2]
        BY <1>0, <3>1 DEF TokenTypes
      <3> QED
        BY <1>0, <3>1, <3>2, <3>3, TokenUpdates
    <2>4. positions' \in Seq(Tokens)
      <3>1. positions \in Seq(Tokens) /\ (positions' = positions \/ positions' = Append(positions, Head(list)))
        BY <1>0, <1>8 DEF TokenTypes, Token!SaveFailed, Token!SaveSucceeded, Token!Holds
      <3> QED
        BY <2>1, <3>1, AppendOf
    <2>5. notes' \in Seq(TokenNote)
      <3>1. outcome \in TokenCodes \/ outcome = "registered"
        BY <1>0, <1>8 DEF TokenTypes, Token!SaveFailed, Token!SaveSucceeded
      <3>2. outcome \in TokenCodes => [token |-> Head(list), code |-> outcome] \in TokenNote
        BY <2>1 DEF TokenNote
      <3>3. \/ notes' = notes
            \/ outcome # "registered" /\ notes' = Append(notes, [token |-> Head(list), code |-> outcome])
        BY <1>8 DEF Token!SaveFailed, Token!SaveSucceeded
      <3>4. notes \in Seq(TokenNote)
        BY <1>0 DEF TokenTypes
      <3> DEFINE note == [token |-> Head(list), code |-> outcome]
      <3> HIDE DEF note
      <3>5. notes' = notes \/ (note \in TokenNote /\ notes' = Append(notes, note))
        BY <3>1, <3>2, <3>3 DEF note
      <3> QED
        BY <3>4, <3>5, AppendOf
    <2> QED
      BY <1>0, <1>8, <2>1, <2>3, <2>4, <2>5
         DEF TokenTypes, TokenPlaces, Token!SaveFailed, Token!SaveSucceeded, Token!Goto
  <1> QED
    BY <1>1, <1>2, <1>3, <1>4, <1>5, <1>6, <1>7, <1>8, TokenSteps

\* One row is settled: the one of the token, in both tables.
LEMMA TokenSettled ==
    ASSUME TokenTypes, TokenRows, NEW t \in Tokens, request[t] = "issued", NEW s \in {1, 2}, Token!Settled(t, s),
           status' = [status EXCEPT ![t] = s], UNCHANGED <<request, tokens>>
    PROVE  TokenRows'
  <1>1. DOMAIN updates' = DOMAIN updates
    BY DEF Token!Settled
  <1>2. \A i \in DOMAIN updates : /\ updates[i] \in TokenUpdate /\ updates'[i].token = updates[i].token
                                  /\ updates'[i].status = IF updates[i].token = t THEN s ELSE updates[i].status
    BY TokenUpdates DEF Token!Settled, TokenUpdate
  <1>3. \A i \in DOMAIN updates : updates[i].token \in Tokens
    BY <1>2 DEF TokenUpdate
  <1> QED
    BY <1>1, <1>2, <1>3 DEF TokenTypes, TokenRows

\* A row is written when a token has none.
LEMMA TokenWritten ==
    ASSUME TokenTypes, TokenRows, NEW t \in Tokens, request[t] # "issued", NEW s \in {0, 1}, Token!Rows(t, s),
           Token!At(t, "issued")
    PROVE  /\ SetOf(tokens') = {u \in Tokens : request'[u] = "issued"}
           /\ status[t] = 0 /\ status' \in [Tokens -> 0..2] /\ status'[t] = s
           /\ \A u \in Tokens : u # t => status'[u] = status[u] /\ request'[u] = request[u]
           /\ request'[t] = "issued"
           /\ \A i \in DOMAIN updates : updates[i].token # t
           /\ \A u \in Tokens : status'[u] # 0 => request'[u] = "issued"
  <1>1. /\ request'[t] = "issued" /\ \A u \in Tokens : u # t => request'[u] = request[u]
        /\ status'[t] = s /\ \A u \in Tokens : u # t => status'[u] = status[u]
        /\ status' \in [Tokens -> 0..2] /\ tokens' = Append(tokens, t)
    BY DEF TokenTypes, Token!Rows, Token!At
  <1>2. SetOf(tokens') = SetOf(tokens) \cup {t}
    BY <1>1, AppendOf DEF TokenTypes
  <1> QED
    BY <1>1, <1>2 DEF TokenRows

LEMMA TokenRowsNext ==
    ASSUME TokenAssumption, TokenInv, Token!Next
    PROVE  TokenRows'
  <1>0. TokenTypes /\ TokenRows /\ TokenLists /\ TokenResults
    BY DEF TokenInv
  <1> USE DEF Token!db, Token!chain, Token!batch
  <1>1. ASSUME NEW t \in Tokens,
               \/ Token!Deploy(t, "bond") \/ Token!Deploy(t, "share") \/ Token!RegisterAtOnce(t)
               \/ Token!RequestFails(t)
        PROVE  TokenRows'
    <2>1. /\ UNCHANGED <<tokens, status, updates>> /\ request[t] # "issued" /\ request'[t] # "issued"
          /\ \A u \in Tokens : u # t => request'[u] = request[u]
      BY <1>0, <1>1 DEF TokenTypes, Token!Deploy, Token!RegisterAtOnce, Token!RequestFails, Token!At
    <2>2. \A i \in DOMAIN updates : updates[i].token \in Tokens
      BY <1>0, TokenUpdates
    <2> QED
      BY <1>0, <2>1, <2>2 DEF TokenRows
  <1>2. ASSUME NEW t \in Tokens, Token!CommitPending(t)
        PROVE  TokenRows'
    <2> DEFINE entry == [token |-> t, status |-> 0]
    <2>1. entry \in TokenUpdate
      BY DEF TokenUpdate
    <2>2. request[t] # "issued" /\ Token!Rows(t, 0) /\ Token!At(t, "issued") /\ updates' = Append(updates, entry)
      BY <1>2 DEF Token!CommitPending
    <2>3. /\ DOMAIN updates' = 1..(Len(updates) + 1) /\ DOMAIN updates = 1..Len(updates) /\ Len(updates) \in Nat
          /\ updates'[Len(updates) + 1] = entry /\ \A i \in DOMAIN updates : updates'[i] = updates[i]
      BY <1>0, <2>1, <2>2, AppendOf DEF TokenTypes
    <2>4. \A i \in DOMAIN updates' : i \in DOMAIN updates \/ i = Len(updates) + 1
      BY <2>3
    <2>5. \A i \in DOMAIN updates : updates[i].token \in Tokens
      BY <1>0, TokenUpdates
    <2>6. /\ SetOf(tokens') = {u \in Tokens : request'[u] = "issued"}
          /\ status'[t] = 0 /\ request'[t] = "issued"
          /\ \A u \in Tokens : u # t => status'[u] = status[u] /\ request'[u] = request[u]
          /\ \A i \in DOMAIN updates : updates[i].token # t
          /\ \A u \in Tokens : status'[u] # 0 => request'[u] = "issued"
      BY <1>0, <2>2, TokenWritten
    <2>7. entry.token = t /\ entry.status = 0
      OBVIOUS
    <2> HIDE DEF entry
    <2>8. \A i, j \in DOMAIN updates' : updates'[i].token = updates'[j].token => i = j
      BY <1>0, <2>3, <2>4, <2>6, <2>7 DEF TokenRows
    <2>9. \A i \in DOMAIN updates' : /\ request'[updates'[i].token] = "issued"
                                     /\ updates'[i].status = status'[updates'[i].token]
      BY <1>0, <2>3, <2>4, <2>5, <2>6, <2>7 DEF TokenRows
    <2> QED
      BY <2>6, <2>8, <2>9 DEF TokenRows
  <1>3. ASSUME NEW t \in Tokens, Token!CommitSucceeded(t)
        PROVE  TokenRows'
    <2>1. request[t] # "issued" /\ Token!Rows(t, 1) /\ Token!At(t, "issued") /\ updates' = updates
      BY <1>3 DEF Token!CommitSucceeded
    <2>2. /\ SetOf(tokens') = {u \in Tokens : request'[u] = "issued"}
          /\ \A u \in Tokens : u # t => status'[u] = status[u] /\ request'[u] = request[u]
          /\ \A i \in DOMAIN updates : updates[i].token # t
          /\ \A u \in Tokens : status'[u] # 0 => request'[u] = "issued"
      BY <1>0, <2>1, TokenWritten
    <2>3. \A i \in DOMAIN updates : updates[i].token \in Tokens
      BY <1>0, TokenUpdates
    <2> QED
      BY <1>0, <2>1, <2>2, <2>3 DEF TokenRows
  <1>4. CASE TokenMove \/ Token!GetUpdateTokenList \/ Token!RegisterInBatch \/ Token!RegisterFails
    <2>1. UNCHANGED <<request, tokens, status, updates>>
      BY <1>0, <1>4, TokenMoves DEF Token!GetUpdateTokenList, Token!RegisterInBatch, Token!RegisterFails
    <2> QED
      BY <1>0, <2>1 DEF TokenRows
  <1>5. CASE Token!SaveFailed \/ Token!SaveSucceeded
    <2>1. Head(list) \in Tokens /\ request[Head(list)] = "issued"
      BY <1>0, <1>5, TailOf DEF TokenTypes, TokenLists, Token!SaveFailed, Token!SaveSucceeded
    <2> QED
      BY <1>0, <1>5, <2>1, TokenSettled DEF Token!SaveFailed, Token!SaveSucceeded
  <1> QED
    BY <1>1, <1>2, <1>3, <1>4, <1>5, TokenSteps

LEMMA TokenListsNext ==
    ASSUME TokenAssumption, TokenInv, Token!Next
    PROVE  TokenLists'
  <1>0. TokenTypes /\ TokenRows /\ TokenLists /\ TokenResults
    BY DEF TokenInv
  <1>l. \A t \in SetOf(list) : t \in Tokens
    BY <1>0 DEF TokenTypes, SetOf
  <1>h. list # <<>> => Head(list) \in Tokens /\ Head(list) \in SetOf(list)
    BY <1>0, TailOf DEF TokenTypes, TokenLists
  <1> USE DEF Token!db, Token!chain, Token!batch
  <1>1. ASSUME NEW t \in Tokens,
               \/ Token!Deploy(t, "bond") \/ Token!Deploy(t, "share") \/ Token!RegisterAtOnce(t)
               \/ Token!RequestFails(t) \/ Token!CommitPending(t) \/ Token!CommitSucceeded(t)
        PROVE  TokenLists'
    <2>1. /\ request[t] # "issued" /\ \A u \in Tokens : u # t => request'[u] = request[u]
          /\ listed \subseteq listed'
      BY <1>0, <1>1 DEF TokenTypes, Token!Deploy, Token!RegisterAtOnce, Token!RequestFails, Token!CommitPending,
             Token!CommitSucceeded, Token!Register, Token!At
    <2>2. UNCHANGED <<pc, list, outcome, set>>
      BY <1>1 DEF Token!Deploy, Token!RegisterAtOnce, Token!RequestFails, Token!CommitPending, Token!CommitSucceeded
    <2>3. \A u \in Tokens : u # t => status'[u] = status[u]
      BY <1>0, <1>1 DEF TokenTypes, Token!Deploy, Token!RegisterAtOnce, Token!RequestFails, Token!CommitPending,
             Token!CommitSucceeded, Token!Rows
    <2>4. \A u \in SetOf(list') : u # t /\ status'[u] = 0 /\ request'[u] = "issued"
      BY <1>0, <1>l, <2>1, <2>2, <2>3 DEF TokenLists
    <2> QED
      BY <1>0, <2>1, <2>2, <2>4 DEF TokenLists, IsSet, JustListed
  <1>2. CASE TokenMove
    <2>1. /\ UNCHANGED <<request, status, listed>> /\ \A t \in Tokens : set[t] \subseteq set'[t]
      BY <1>0, <1>2, TokenMoves
    <2>2. \A t \in Tokens : IsSet(t) => IsSet(t)'
      BY <2>1 DEF IsSet
    <2>3. /\ list' = list \/ list' = <<>>
          /\ pc' \in {"update", "register", "save"} => list' = list /\ list # <<>>
          /\ pc' \in {"idle", "off"} => list' = <<>>
          /\ JustListed' => JustListed /\ list' = list
          /\ pc' = "register" => \/ pc = "register"
                                 \/ Token!Unset = {}
      BY <1>0, <1>2
         DEF TokenLists, JustListed, TokenMove, Token!Goto, Token!PassEnds, Token!ShutdownSeen, Token!GetPrivateKey,
             Token!UpdateItem, Token!Updated, Token!UpdateFails, Token!AlreadyRegistered, Token!PassFails,
             Token!Shutdown, Token!Crash, Token!Restart
    <2>4. Token!Unset = {} => IsSet(Head(list))
      BY DEF Token!Unset, IsSet
    <2>5. Distinct(list') /\ SetOf(list') \subseteq SetOf(list)
      BY <1>0, <2>3 DEF TokenLists, Distinct, SetOf
    <2>6. pc' = "register" => IsSet(Head(list))' 
      BY <1>0, <1>h, <2>2, <2>3, <2>4 DEF TokenLists, IsSet
    <2>7. JustListed' => IsSet(Head(list))' /\ Head(list') \in listed'
      BY <1>0, <1>h, <2>1, <2>2, <2>3 DEF TokenLists, IsSet, JustListed
    <2> QED
      BY <1>0, <2>1, <2>3, <2>5, <2>6, <2>7 DEF TokenLists
  <1>3. CASE Token!GetUpdateTokenList
    <2>1. Distinct(list') /\ \A t \in SetOf(list') : status[t] = 0 /\ request[t] = "issued"
      BY <1>0, <1>3, TokensPending
    <2>2. pc' = "next" /\ UNCHANGED <<request, status, outcome>>
      BY <1>3 DEF Token!GetUpdateTokenList
    <2> QED
      BY <2>1, <2>2 DEF TokenLists, JustListed
  <1>4. CASE Token!RegisterInBatch \/ Token!RegisterFails
    <2>1. list # <<>> /\ UNCHANGED <<request, status, list, set>> /\ listed \subseteq listed'
          /\ pc' = "save" /\ IsSet(Head(list)) /\ (outcome' = "registered" => Head(list) \in listed')
      BY <1>0, <1>4
         DEF TokenLists, Token!RegisterInBatch, Token!RegisterFails, Token!Register, Token!Goto
    <2> QED
      BY <1>0, <2>1 DEF TokenLists, IsSet, JustListed
  <1>5. CASE Token!SaveFailed \/ Token!SaveSucceeded
    <2>1. /\ pc \in {"update", "register", "save"} /\ pc' = "next" /\ list' = Tail(list) /\ request' = request
          /\ \E s \in 0..2 : status' = [status EXCEPT ![Head(list)] = s]
      BY <1>5 DEF Token!SaveFailed, Token!SaveSucceeded, Token!Goto
    <2>2. Distinct(list') /\ SetOf(list') = SetOf(list) \ {Head(list)}
      BY <1>0, <2>1, TokenHead
    <2>3. \A t \in Tokens : t # Head(list) => status'[t] = status[t]
      BY <1>0, <2>1 DEF TokenTypes
    <2>4. \A t \in SetOf(list') : status'[t] = 0 /\ request'[t] = "issued"
      BY <1>0, <1>l, <2>1, <2>2, <2>3 DEF TokenLists
    <2> QED
      BY <2>1, <2>2, <2>4 DEF TokenLists, JustListed
  <1> QED
    BY <1>1, <1>2, <1>3, <1>4, <1>5, TokenSteps

\* The issuer is given the position and the UTXO of a token that had none.
LEMMA TokenHeld ==
    ASSUME TokenTypes, TokenResults, NEW t \in Tokens, status[t] # 1, Token!Holds(t),
           status' = [status EXCEPT ![t] = 1]
    PROVE  Distinct(positions') /\ SetOf(positions') = {u \in Tokens : status'[u] = 1} /\ utxos' = positions'
  <1>1. positions \in Seq(Tokens) /\ t \notin SetOf(positions) /\ positions' = Append(positions, t)
    BY DEF TokenTypes, TokenResults, Token!Holds
  <1>2. SetOf(positions') = SetOf(positions) \cup {t} /\ Distinct(positions')
    BY <1>1, AppendOf DEF TokenResults
  <1>3. status'[t] = 1 /\ \A u \in Tokens : u # t => status'[u] = status[u]
    BY DEF TokenTypes
  <1>4. utxos' = positions'
    BY DEF TokenResults, Token!Holds
  <1> QED
    BY <1>2, <1>3, <1>4 DEF TokenResults

LEMMA TokenWarned ==
    ASSUME TokenTypes, TokenResults, NEW n \in TokenNote, status[n.token] # 2, notes' = Append(notes, n),
           status' = [status EXCEPT ![n.token] = 2]
    PROVE  /\ \A i, j \in DOMAIN notes' : notes'[i].token = notes'[j].token => i = j
           /\ \A t \in Tokens : Warned(t)' <=> status'[t] = 2
  <1>1. n.token \in Tokens /\ notes \in Seq(TokenNote)
    BY DEF TokenNote, TokenTypes
  <1>2. /\ DOMAIN notes' = 1..(Len(notes) + 1) /\ DOMAIN notes = 1..Len(notes) /\ Len(notes) \in Nat
        /\ notes'[Len(notes) + 1] = n /\ \A i \in DOMAIN notes : notes'[i] = notes[i]
    BY <1>1, AppendOf
  <1>3. \A i \in DOMAIN notes' : i \in DOMAIN notes \/ i = Len(notes) + 1
    BY <1>2
  <1>4. \A i \in DOMAIN notes : notes[i].token # n.token
    BY <1>1 DEF TokenResults, Warned
  <1>5. \A i, j \in DOMAIN notes' : notes'[i].token = notes'[j].token => i = j
    BY <1>2, <1>3, <1>4 DEF TokenResults
  <1>6. status'[n.token] = 2 /\ \A t \in Tokens : t # n.token => status'[t] = status[t]
    BY <1>1 DEF TokenTypes
  <1>7. \A t \in Tokens : Warned(t)' <=> Warned(t) \/ t = n.token
    <2> TAKE t \in Tokens
    <2>1. Warned(t)' <=> \E i \in DOMAIN notes' : notes'[i].token = t
      BY DEF Warned
    <2>2. Len(notes) + 1 \in DOMAIN notes' /\ \A i \in DOMAIN notes : i \in DOMAIN notes'
      BY <1>2
    <2> QED
      BY <1>2, <1>3, <2>1, <2>2 DEF Warned
  <1> QED
    BY <1>5, <1>6, <1>7 DEF TokenResults

LEMMA TokenResultsNext ==
    ASSUME TokenAssumption, TokenInv, Token!Next
    PROVE  TokenResults'
  <1>0. TokenTypes /\ TokenRows /\ TokenLists /\ TokenResults
    BY DEF TokenInv
  <1> USE DEF Token!db, Token!chain, Token!batch
  <1>w. ASSUME notes' = notes PROVE \A t \in Tokens : Warned(t)' <=> Warned(t)
    BY <1>w DEF Warned
  <1>1. ASSUME NEW t \in Tokens,
               \/ Token!Deploy(t, "bond") \/ Token!Deploy(t, "share") \/ Token!RegisterAtOnce(t)
               \/ Token!RequestFails(t)
        PROVE  TokenResults'
    <2>1. /\ UNCHANGED <<status, positions, utxos, notes, set>> /\ listed \subseteq listed'
          /\ request'[t] = "listed" => ItemsOf[t] = {} /\ t \in listed'
          /\ \A u \in Tokens : u # t => request'[u] = request[u]
      BY <1>0, <1>1 DEF TokenTypes, Token!Deploy, Token!RegisterAtOnce, Token!RequestFails, Token!At, Token!Register,
             Token!IsUpdate
    <2> QED
      BY <1>0, <1>w, <2>1 DEF TokenResults, IsSet
  <1>2. ASSUME NEW t \in Tokens, Token!CommitPending(t)
        PROVE  TokenResults'
    <2>1. request[t] # "issued" /\ Token!Rows(t, 0) /\ Token!At(t, "issued") /\ UNCHANGED <<positions, utxos, notes, set, listed>>
      BY <1>2 DEF Token!CommitPending
    <2>2. /\ status[t] = 0 /\ status'[t] = 0 /\ request'[t] = "issued"
          /\ \A u \in Tokens : u # t => status'[u] = status[u] /\ request'[u] = request[u]
      BY <1>0, <2>1, TokenWritten
    <2>3. \A u \in Tokens : status'[u] = status[u]
      BY <2>2
    <2> QED
      BY <1>0, <1>w, <2>1, <2>2, <2>3 DEF TokenResults, IsSet
  <1>3. ASSUME NEW t \in Tokens, Token!CommitSucceeded(t)
        PROVE  TokenResults'
    <2>1. /\ request[t] = "listed" /\ Token!Rows(t, 1) /\ Token!At(t, "issued") /\ Token!Holds(t)
          /\ UNCHANGED <<notes, set, listed>> /\ status' = [status EXCEPT ![t] = 1]
      BY <1>3 DEF Token!CommitSucceeded, Token!Rows
    <2>2. /\ status[t] = 0 /\ status'[t] = 1 /\ request'[t] = "issued"
          /\ \A u \in Tokens : u # t => status'[u] = status[u] /\ request'[u] = request[u]
      BY <1>0, <2>1, TokenWritten
    <2>0. status[t] # 1
      BY <2>2
    <2>3. Distinct(positions') /\ SetOf(positions') = {u \in Tokens : status'[u] = 1} /\ utxos' = positions'
      BY <1>0, <2>0, <2>1, <2>2, TokenHeld
    <2>4. \A u \in Tokens : status'[u] = 2 <=> status[u] = 2
      BY <2>2
    <2> QED
      BY <1>0, <1>w, <2>1, <2>2, <2>3, <2>4 DEF TokenResults, IsSet
  <1>4. CASE TokenMove
    <2>1. /\ UNCHANGED <<request, status, listed, positions, utxos, notes>> /\ \A t \in Tokens : set[t] \subseteq set'[t]
      BY <1>0, <1>4, TokenMoves
    <2> QED
      BY <1>0, <1>w, <2>1 DEF TokenResults, IsSet
  <1>5. CASE Token!GetUpdateTokenList \/ Token!RegisterInBatch \/ Token!RegisterFails
    <2>1. /\ UNCHANGED <<request, status, positions, utxos, notes, set>> /\ listed \subseteq listed'
      BY <1>5 DEF Token!GetUpdateTokenList, Token!RegisterInBatch, Token!RegisterFails, Token!Register
    <2> QED
      BY <1>0, <1>w, <2>1 DEF TokenResults, IsSet
  <1>6. CASE Token!SaveFailed
    <2>1. /\ pc \in {"update", "register", "save"} /\ pc = "save" /\ outcome # "registered"
          /\ notes' = Append(notes, [token |-> Head(list), code |-> outcome])
          /\ status' = [status EXCEPT ![Head(list)] = 2] /\ UNCHANGED <<request, positions, utxos, set, listed>>
      BY <1>6 DEF Token!SaveFailed
    <2>2. Head(list) \in Tokens /\ status[Head(list)] = 0
      BY <1>0, <2>1, TokenHead
    <2>3. outcome \in TokenCodes
      BY <1>0, <2>1 DEF TokenTypes
    <2> DEFINE n == [token |-> Head(list), code |-> outcome]
    <2>4. n \in TokenNote /\ n.token = Head(list)
      BY <2>2, <2>3 DEF TokenNote
    <2>5. /\ \A i, j \in DOMAIN notes' : notes'[i].token = notes'[j].token => i = j
          /\ \A t \in Tokens : Warned(t)' <=> status'[t] = 2
      <3>1. status[n.token] # 2 /\ notes' = Append(notes, n) /\ status' = [status EXCEPT ![n.token] = 2]
        BY <2>1, <2>2, <2>4
      <3> HIDE DEF n
      <3> QED
        BY <1>0, <2>4, <3>1, TokenWarned
    <2>6. \A t \in Tokens : status'[t] = 1 <=> status[t] = 1
      BY <1>0, <2>1, <2>2 DEF TokenTypes
    <2> QED
      BY <1>0, <2>1, <2>5, <2>6 DEF TokenResults, IsSet
  <1>7. CASE Token!SaveSucceeded
    <2>1. /\ pc \in {"update", "register", "save"} /\ JustListed /\ Token!Holds(Head(list))
          /\ status' = [status EXCEPT ![Head(list)] = 1] /\ UNCHANGED <<request, notes, set, listed>>
      BY <1>7 DEF Token!SaveSucceeded, JustListed
    <2>2. Head(list) \in Tokens /\ status[Head(list)] = 0
      BY <1>0, <2>1, TokenHead
    <2>0. status[Head(list)] # 1
      BY <2>2
    <2>3. Distinct(positions') /\ SetOf(positions') = {u \in Tokens : status'[u] = 1} /\ utxos' = positions'
      BY <1>0, <2>0, <2>1, <2>2, TokenHeld
    <2>4. IsSet(Head(list)) /\ Head(list) \in listed
      BY <1>0, <2>1 DEF TokenLists
    <2>5. /\ status'[Head(list)] = 1
          /\ \A u \in Tokens : u # Head(list) => status'[u] = status[u]
      BY <1>0, <2>1, <2>2 DEF TokenTypes
    <2>6. \A u \in Tokens : status'[u] = 2 <=> status[u] = 2
      BY <2>2, <2>5
    <2> QED
      BY <1>0, <1>w, <2>1, <2>3, <2>4, <2>5, <2>6 DEF TokenResults, IsSet
  <1> QED
    BY <1>1, <1>2, <1>3, <1>4, <1>5, <1>6, <1>7, TokenSteps

LEMMA TokenListedNext ==
    ASSUME TokenAssumption, TokenInv, Token!Next
    PROVE  TokenListed'
  <1>0. TokenTypes /\ TokenRows /\ TokenLists /\ TokenResults /\ TokenListed
    BY DEF TokenInv
  <1>f. ASSUME Token!Fault \/ \E t \in Tokens : Token!FaultAt(t)
        PROVE  past.lost \subseteq past'.lost /\ \A t \in Tokens : Token!FaultAt(t) => t \in past'.lost
    BY <1>0, <1>f, TokenPastGrows DEF TokenTypes
  <1>t. listed \subseteq Tokens
    BY <1>0 DEF TokenTypes
  <1> USE DEF Token!db, Token!chain, Token!batch
  <1>1. ASSUME NEW t \in Tokens, Token!Deploy(t, "bond") \/ Token!Deploy(t, "share")
        PROVE  TokenListed'
    <2>1. /\ UNCHANGED <<status, listed, pc, list, outcome>> /\ request[t] = "none"
          /\ \A u \in Tokens : u # t => request'[u] = request[u]
      BY <1>0, <1>1 DEF TokenTypes, Token!Deploy, Token!At
    <2>2. past.lost \subseteq past'.lost
      BY <1>1, <1>f DEF Token!Deploy
    <2> QED
      BY <1>0, <1>t, <2>1, <2>2 DEF TokenListed, JustListed
  <1>2. ASSUME NEW t \in Tokens, Token!RegisterAtOnce(t)
        PROVE  TokenListed'
    <2>1. /\ UNCHANGED <<status, pc, list, outcome, past>> /\ listed' = listed \cup {t} /\ request'[t] = "listed"
          /\ \A u \in Tokens : u # t => request'[u] = request[u]
      BY <1>0, <1>2 DEF TokenTypes, Token!RegisterAtOnce, Token!Register, Token!At
    <2> QED
      BY <1>0, <1>t, <2>1 DEF TokenListed, JustListed
  <1>3. ASSUME NEW t \in Tokens, Token!CommitPending(t)
        PROVE  TokenListed'
    <2>1. /\ request[t] # "issued" /\ request[t] # "listed" /\ Token!Rows(t, 0) /\ Token!At(t, "issued")
          /\ UNCHANGED <<listed, pc, list, outcome, past>>
      BY <1>3 DEF Token!CommitPending
    <2>2. /\ status[t] = 0 /\ status'[t] = 0
          /\ \A u \in Tokens : u # t => status'[u] = status[u] /\ request'[u] = request[u]
      BY <1>0, <2>1, TokenWritten
    <2> QED
      BY <1>0, <1>t, <2>1, <2>2 DEF TokenListed, JustListed
  <1>4. ASSUME NEW t \in Tokens, Token!CommitSucceeded(t)
        PROVE  TokenListed'
    <2>1. /\ request[t] # "issued" /\ Token!Rows(t, 1) /\ Token!At(t, "issued")
          /\ UNCHANGED <<listed, pc, list, outcome, past>>
      BY <1>4 DEF Token!CommitSucceeded
    <2>2. /\ status'[t] = 1
          /\ \A u \in Tokens : u # t => status'[u] = status[u] /\ request'[u] = request[u]
      BY <1>0, <2>1, TokenWritten
    <2> QED
      BY <1>0, <1>t, <2>1, <2>2 DEF TokenListed, JustListed
  <1>5. ASSUME NEW t \in Tokens, Token!RequestFails(t)
        PROVE  TokenListed'
    <2>1. /\ UNCHANGED <<status, pc, list, outcome>> /\ request[t] # "issued"
          /\ \A u \in Tokens : u # t => request'[u] = request[u]
          /\ \/ t \notin listed /\ listed' = listed /\ Token!Fault
             \/ Token!FaultAt(t) /\ listed' = listed \cup {t}
      BY <1>0, <1>5 DEF TokenTypes, Token!RequestFails, Token!At
    <2>2. past.lost \subseteq past'.lost /\ (t \in listed' => t \in past'.lost)
      BY <1>f, <2>1
    <2>3. \A u \in listed' \ past'.lost : u \in listed \ past.lost /\ u # t
      BY <2>1, <2>2
    <2> QED
      BY <1>0, <1>t, <2>1, <2>3 DEF TokenListed, JustListed
  <1>6. CASE TokenMove
    <2>1. UNCHANGED <<request, status, listed>> /\ past.lost \subseteq past'.lost
      BY <1>0, <1>6, TokenMoves
    <2>2. \/ ~JustListed
          \/ JustListed' /\ list' = list
          \/ Head(list) \in listed => Token!FaultAt(Head(list))
      BY <1>0, <1>6
         DEF TokenLists, JustListed, TokenMove, Token!Goto, Token!PassEnds, Token!ShutdownSeen, Token!GetPrivateKey,
             Token!UpdateItem, Token!Updated, Token!UpdateFails, Token!AlreadyRegistered, Token!PassFails,
             Token!Shutdown, Token!Crash, Token!Restart
    <2>3. \A t \in listed' \ past'.lost : t \in Tokens /\ t \in listed \ past.lost /\ ~Token!FaultAt(t)
      BY <1>t, <1>f, <2>1
    <2> QED
      BY <1>0, <2>1, <2>2, <2>3 DEF TokenListed
  <1>7. CASE Token!GetUpdateTokenList
    BY <1>0, <1>7 DEF TokenListed, JustListed, Token!GetUpdateTokenList
  <1>8. CASE Token!RegisterInBatch \/ Token!RegisterFails
    <2>1. /\ UNCHANGED <<request, status, list>> /\ ~JustListed /\ pc \in {"update", "register", "save"}
          /\ \/ JustListed' /\ past' = past /\ listed' = listed \cup {Head(list)}
             \/ Token!Fault /\ listed' = listed
             \/ Token!FaultAt(Head(list)) /\ listed' = listed \cup {Head(list)}
      BY <1>0, <1>8
         DEF JustListed, Token!RegisterInBatch, Token!RegisterFails, Token!Register, Token!Goto
    <2>2. Head(list) \in Tokens
      BY <1>0, <2>1, TokenHead
    <2>3. CASE JustListed' /\ past' = past /\ listed' = listed \cup {Head(list)}
      BY <1>0, <2>1, <2>3 DEF TokenListed
    <2>4. CASE Token!Fault /\ listed' = listed
      <3>1. past.lost \subseteq past'.lost
        BY <1>f, <2>4
      <3> QED
        BY <1>0, <2>1, <2>4, <3>1 DEF TokenListed
    <2>5. CASE Token!FaultAt(Head(list)) /\ listed' = listed \cup {Head(list)}
      <3>1. past.lost \subseteq past'.lost /\ Head(list) \in past'.lost
        BY <1>f, <2>2, <2>5
      <3> QED
        BY <1>0, <2>1, <2>5, <3>1 DEF TokenListed
    <2> QED
      BY <2>1, <2>3, <2>4, <2>5
  <1>9. CASE Token!SaveFailed \/ Token!SaveSucceeded
    <2>1. /\ pc \in {"update", "register", "save"} /\ UNCHANGED <<request, listed, past>>
          /\ \E s \in {1, 2} : status' = [status EXCEPT ![Head(list)] = s] /\ (JustListed => s = 1)
      BY <1>9 DEF JustListed, Token!SaveFailed, Token!SaveSucceeded
    <2>2. Head(list) \in Tokens /\ status[Head(list)] = 0
      BY <1>0, <2>1, TokenHead
    <2>3. /\ JustListed => status'[Head(list)] = 1
          /\ \A t \in Tokens : t # Head(list) => status'[t] = status[t]
      BY <1>0, <2>1, <2>2 DEF TokenTypes
    <2>4. \A t \in listed \ past.lost : t = Head(list) => JustListed \/ request[t] = "listed"
      BY <1>0, <2>2 DEF TokenListed
    <2> QED
      BY <1>0, <1>t, <2>1, <2>3, <2>4 DEF TokenListed
  <1> QED
    BY <1>1, <1>2, <1>3, <1>4, <1>5, <1>6, <1>7, <1>8, <1>9, TokenSteps

LEMMA TokenPreserved ==
    ASSUME TokenAssumption, TokenInv, [Token!Next]_Token!vars
    PROVE  TokenInv'
  <1>1. CASE Token!Next
    BY <1>1, TokenTypesNext, TokenRowsNext, TokenListsNext, TokenResultsNext, TokenListedNext, Zenon DEF TokenInv
  <1>2. CASE UNCHANGED Token!vars
    <2>1. UNCHANGED <<request, tokens, status, updates, positions, utxos, notes, set, listed, pc, list, outcome, past>>
      BY <1>2 DEF Token!vars, Token!db, Token!chain, Token!batch
    <2>2. JustListed' <=> JustListed
      BY <2>1 DEF JustListed
    <2>3. TokenTypes' /\ TokenRows'
      BY <2>1 DEF TokenInv, TokenTypes, TokenRows
    <2>4. TokenLists' /\ TokenResults'
      BY <2>1, <2>2 DEF TokenInv, TokenLists, TokenResults, IsSet, Warned
    <2>5. TokenListed'
      BY <2>1, <2>2 DEF TokenInv, TokenListed
    <2> QED
      BY <2>3, <2>4, <2>5 DEF TokenInv
  <1> QED
    BY <1>1, <1>2

\* A token is shown when it has succeeded.
LEMMA TokenAnswers ==
    ASSUME TokenAssumption, TokenInv, NEW t \in Tokens
    PROVE  Token!Answer(t) = "shown" <=> status[t] = 1
  <1>1. TypeOf[t] \in {"bond", "share"}
    BY DEF TokenAssumption, Token!TokenIssueAssumption
  <1>2. status[t] \in 0..2 /\ (status[t] # 0 => t \in Token!Range(tokens))
    BY DEF TokenInv, TokenTypes, TokenRows, Token!Range, SetOf
  <1>3. \A x : x = TypeOf[t] => (Token!Retrieve(t, x) = "shown" <=> status[t] = 1)
    BY <1>2 DEF Token!Retrieve
  <1> QED
    BY <1>1, <1>3 DEF Token!Answer, Token!RetrieveBondToken, Token!RetrieveShareToken

LEMMA TokenIssueTrue ==
    ASSUME TokenAssumption, TokenInv
    PROVE  Token!IssueIsTrue
  <1> SUFFICES ASSUME NEW t \in Tokens
               PROVE  /\ Token!Answer(t) = "shown" => ItemsOf[t] \subseteq set[t] /\ t \in listed
                      /\ Token!Count(positions, t) = (IF Token!Answer(t) = "shown" THEN 1 ELSE 0)
                      /\ Token!Count(utxos, t) = Token!Count(positions, t)
                      /\ Token!Told(t) = (IF status[t] = 2 THEN 1 ELSE 0)
    BY DEF Token!IssueIsTrue
  <1>1. Token!Answer(t) = "shown" <=> status[t] = 1
    BY TokenAnswers
  <1>2. status[t] = 1 => ItemsOf[t] \subseteq set[t] /\ t \in listed
    BY DEF TokenInv, TokenResults, IsSet
  <1>3. Token!Count(positions, t) = (IF status[t] = 1 THEN 1 ELSE 0)
    <2> DEFINE S == {i \in DOMAIN positions : positions[i] = t}
    <2>1. \A k, l \in S : k = l
      BY DEF TokenInv, TokenResults, Distinct
    <2>2. S # {} <=> status[t] = 1
      BY DEF TokenInv, TokenResults, SetOf
    <2>3. Token!Count(positions, t) = Cardinality(S)
      BY TokenSets DEF Token!Count
    <2> HIDE DEF S
    <2>4. Cardinality(S) = IF S = {} THEN 0 ELSE 1
      BY <2>1, AtMostOne
    <2> QED
      BY <2>2, <2>3, <2>4
  <1>4. utxos = positions
    BY DEF TokenInv, TokenResults
  <1>5. Token!Told(t) = (IF status[t] = 2 THEN 1 ELSE 0)
    <2> DEFINE S == {i \in DOMAIN notes : notes[i].token = t}
    <2>1. \A k, l \in S : k = l
      BY DEF TokenInv, TokenResults
    <2>2. S # {} <=> status[t] = 2
      BY DEF TokenInv, TokenResults, Warned
    <2>3. Token!Told(t) = Cardinality(S)
      BY TokenSets DEF Token!Told
    <2> HIDE DEF S
    <2>4. Cardinality(S) = IF S = {} THEN 0 ELSE 1
      BY <2>1, AtMostOne
    <2> QED
      BY <2>2, <2>3, <2>4
  <1> QED
    BY <1>1, <1>2, <1>3, <1>4, <1>5

LEMMA TokenListedShown ==
    ASSUME TokenAssumption, TokenInv
    PROVE  Token!ListedIsShown
  <1> SUFFICES ASSUME NEW t \in listed \ past.lost
               PROVE  \/ Token!Answer(t) = "shown" \/ request[t] = "listed"
                      \/ (pc = "save" /\ Head(list) = t /\ outcome = "registered")
    BY DEF Token!ListedIsShown
  <1>1. t \in Tokens
    BY DEF TokenInv, TokenTypes
  <1>2. Token!Answer(t) = "shown" <=> status[t] = 1
    BY <1>1, TokenAnswers
  <1> QED
    BY <1>2 DEF TokenInv, TokenListed, JustListed

LEMMA TokenInvariant ==
    ASSUME TokenAssumption
    PROVE  Token!Spec => []TokenInv
  <1>1. Token!Init => TokenInv
    BY TokenInitially
  <1>2. TokenInv /\ [Token!Next]_Token!vars => TokenInv'
    BY TokenPreserved
  <1> QED
    BY <1>1, <1>2, PTL DEF Token!Spec

\* A token that is shown is complete, registered and has its position and UTXO once; a
\* token that failed has one notification, and no other token has one.
THEOREM TokensShown == TokenAssumption => (Token!Spec => []Token!IssueIsTrue)
  <1> SUFFICES ASSUME TokenAssumption PROVE Token!Spec => []Token!IssueIsTrue
    OBVIOUS
  <1>1. TokenInv => Token!IssueIsTrue
    BY TokenIssueTrue
  <1> QED
    BY <1>1, TokenInvariant, PTL

\* What is in TokenList is shown, unless its registration or the commit after it was lost.
THEOREM TokensListed == TokenAssumption => (Token!Spec => []Token!ListedIsShown)
  <1> SUFFICES ASSUME TokenAssumption PROVE Token!Spec => []Token!ListedIsShown
    OBVIOUS
  <1>1. TokenInv => Token!ListedIsShown
    BY TokenListedShown
  <1> QED
    BY <1>1, TokenInvariant, PTL

-----------------------------------------------------------------------------
(* Attributes of a token: the invariant.                                   *)

AttrPlaces == {"idle", "read", "stamp", "send", "record", "log", "done", "error", "lost", "refused"}
AttrFills == {"insert", "outdated", "raced"}

AttrTypes ==
    /\ pc \in [Attr!Processes -> AttrPlaces]
    /\ DOMAIN fill = Attr!Processes /\ \A p \in Attr!Processes : DOMAIN fill[p] = AttrFills
    /\ DOMAIN got = Attr!Processes /\ \A p \in Attr!Processes : DOMAIN got[p] \subseteq Attr!Attributes
    /\ DOMAIN chain = Attr!Attributes
    /\ left \in [Updaters -> SUBSET Attr!Attributes]
    /\ \A x \in Updaters : left[x] \subseteq Request[x]
    /\ mempool \subseteq Updaters \X Attr!Attributes
    /\ past \in [faults : Nat, dirty : SUBSET Attr!Attributes, overlapped : SUBSET Updaters]
    /\ log \in Seq(Updaters)

\* What differs from the chain was changed since the last record.
AttrFresh(values) == \A a \in DOMAIN values : values[a] # chain[a] => a \in past.dirty

\* What a process has read, and what it or the entry of the cache says, is fresh, unless an
\* update was recorded since.
AttrShown ==
    /\ cache # <<>> => DOMAIN cache[1].attrs = Attr!Attributes
    /\ cache # <<>> /\ ~cache[1].outdated /\ ~cache[1].raced => AttrFresh(cache[1].attrs)
    /\ \A p \in Attr!Processes :
          /\ pc[p] = "stamp" => DOMAIN got[p] = Attr!Attributes
          /\ (pc[p] = "read" \/ (pc[p] = "stamp" /\ ~fill[p].outdated)) /\ ~fill[p].raced => AttrFresh(got[p])

Active == {x \in Updaters : pc[x] \in {"send", "record", "log"}}
Broken == \E x \in Updaters : pc[x] \in {"error", "lost"}
Setters(a) == {x \in Updaters : a \in Request[x]}

\* The value that the log gives an attribute: of the last update that sets it.
LastIs(a, value) ==
    \/ value = Initial /\ \A i \in DOMAIN log : a \notin Request[log[i]]
    \/ \E i \in DOMAIN log :
          /\ value = log[i] /\ a \in Request[log[i]]
          /\ \A j \in DOMAIN log : a \in Request[log[j]] => j <= i

Replays(a) == \E value : value = chain[a] /\ LastIs(a, value)

\* Updates that are under way together have been noted; without a failure, and for an
\* attribute that none of them sets, the chain has the value of the one that has sent it,
\* or else the one of the log.
AttrHistory ==
    /\ \A x \in SetOf(log) : pc[x] = "done" /\ left[x] = {}
    /\ \A x \in Updaters : pc[x] = "log" => left[x] = {}
    /\ \A x, y \in Active : x # y => x \in past.overlapped
    /\ ~Broken =>
          /\ mempool = {}
          /\ \A a \in Attr!Attributes : Setters(a) \cap past.overlapped = {} =>
                /\ \A x \in Active : a \in Request[x] \ left[x] => chain[a] = x
                /\ (\A x \in Active : a \notin Request[x] \ left[x]) => Replays(a)

AttrInv == AttrTypes /\ AttrShown /\ AttrHistory
AttrAssumption == Attr!TokenAttributesAssumption

-----------------------------------------------------------------------------
(* Attributes of a token: the steps.                                       *)

LEMMA AttrSteps ==
    ASSUME AttrAssumption, Attr!Next
    PROVE  \/ \E p \in Attr!Processes : \/ Attr!GetFromCache(p) \/ Attr!StartRead(p) \/ Attr!CreateCache(p)
                                        \/ Attr!CommitCache(p) \/ Attr!ReadFails(p)
                                        \/ \E a \in Attr!Attributes : Attr!ReadAttribute(p, a)
           \/ \E x \in Updaters : \/ Attr!Refuse(x) \/ Attr!RecordAttrUpdate(x) \/ Attr!RecordOperation(x)
                                  \/ Attr!Crash(x)
                                  \/ \E a \in Attr!Attributes : Attr!SendAttribute(x, a) \/ Attr!MineLate(x, a)
           \/ Attr!Expire
  BY Zenon DEF Attr!Next, Attr!GetBond, Attr!GetShare, Attr!UpdateBondToken, Attr!UpdateShareToken,
     Attr!GetStep, Attr!UpdateStep

LEMMA AttrInitially ==
    ASSUME AttrAssumption, Attr!Init
    PROVE  AttrInv
  <1> USE DEF Attr!Init
  <1>1. AttrTypes
    BY DEF AttrTypes, AttrPlaces, AttrFills, Attr!NoFill, Attr!Processes
  <1>2. AttrShown
    BY DEF AttrShown, AttrFresh, Attr!NoFill
  <1>3. Active = {} /\ ~Broken
    BY DEF Active, Broken, Attr!Processes
  <1>4. SetOf(log) = {}
    BY DEF SetOf
  <1>5. \A a \in Attr!Attributes : Replays(a)
    BY DEF LastIs, Replays
  <1> QED
    BY <1>1, <1>2, <1>3, <1>4, <1>5 DEF AttrInv, AttrHistory, Attr!Processes

\* A process that was served goes back, or begins to send.
LEMMA AttrServed ==
    ASSUME AttrAssumption, AttrTypes, NEW p \in Attr!Processes, Attr!AfterGet(p)
    PROVE  /\ pc' \in [Attr!Processes -> AttrPlaces] /\ pc'[p] \in {"idle", "send"}
           /\ \A q \in Attr!Processes : q # p => pc'[q] = pc[q]
           /\ left' \in [Updaters -> SUBSET Attr!Attributes]
           /\ \A x \in Updaters : left'[x] \subseteq Request[x] /\ (x # p => left'[x] = left[x])
           /\ p \in Updaters => left'[p] = Request[p] /\ pc'[p] = "send"
           /\ p \notin Updaters => pc'[p] = "idle"
           /\ past' \in [faults : Nat, dirty : SUBSET Attr!Attributes, overlapped : SUBSET Updaters]
           /\ past'.dirty = past.dirty /\ past.overlapped \subseteq past'.overlapped
           /\ p \in Updaters => Active \subseteq past'.overlapped /\ (Active # {} => p \in past'.overlapped)
  <1>1. /\ pc' = [pc EXCEPT ![p] = IF p \in Readers THEN "idle" ELSE "send"]
        /\ p \in Readers \/ p \in Updaters
        /\ p \notin Readers \/ p \notin Updaters
    BY DEF Attr!AfterGet, Attr!Goto, Attr!Processes, AttrAssumption, Attr!TokenAttributesAssumption
  <1>2. pc' \in [Attr!Processes -> AttrPlaces] /\ \A q \in Attr!Processes : q # p => pc'[q] = pc[q]
    BY <1>1 DEF AttrTypes, AttrPlaces
  <1>3. pc'[p] = IF p \in Updaters THEN "send" ELSE "idle"
    BY <1>1 DEF AttrTypes
  <1>4. \A x \in Updaters : Request[x] \subseteq Attr!Attributes
    BY DEF Attr!Attributes
  <1>5. left' = IF p \in Updaters THEN [left EXCEPT ![p] = Request[p]] ELSE left
    BY <1>1 DEF Attr!AfterGet
  <1>6. /\ left' \in [Updaters -> SUBSET Attr!Attributes]
        /\ \A x \in Updaters : left'[x] = IF x = p THEN Request[p] ELSE left[x]
    BY <1>4, <1>5 DEF AttrTypes
  <1>7. past' = IF p \in Readers THEN past
                ELSE [past EXCEPT !.overlapped = @ \cup Active \cup IF Active = {} THEN {} ELSE {p}]
    BY DEF Attr!AfterGet, Active
  <1>8. past.faults \in Nat /\ past.dirty \subseteq Attr!Attributes /\ past.overlapped \subseteq Updaters
        /\ past = [faults |-> past.faults, dirty |-> past.dirty, overlapped |-> past.overlapped]
    BY DEF AttrTypes
  <1>9. CASE p \in Readers
    <2>1. past' = past /\ p \notin Updaters
      BY <1>1, <1>7, <1>9
    <2>2. \A x \in Updaters : left[x] \subseteq Request[x] /\ x # p /\ left'[x] = left[x]
      BY <1>6, <2>1 DEF AttrTypes
    <2>3. past' \in [faults : Nat, dirty : SUBSET Attr!Attributes, overlapped : SUBSET Updaters]
      BY <2>1 DEF AttrTypes
    <2> QED
      BY <1>2, <1>3, <1>6, <2>1, <2>2, <2>3
  <1>10. CASE p \in Updaters
    <2> DEFINE more == past.overlapped \cup Active \cup IF Active = {} THEN {} ELSE {p}
    <2>1. p \notin Readers /\ past' = [past EXCEPT !.overlapped = more]
      BY <1>1, <1>7, <1>10
    <2>2. more \subseteq Updaters /\ past.overlapped \subseteq more /\ Active \subseteq more /\ (Active # {} => p \in more)
      BY <1>8, <1>10 DEF Active
    <2> HIDE DEF more
    <2>3. past' = [faults |-> past.faults, dirty |-> past.dirty, overlapped |-> more]
      BY <1>8, <2>1
    <2>4. past' \in [faults : Nat, dirty : SUBSET Attr!Attributes, overlapped : SUBSET Updaters]
      BY <1>8, <2>2, <2>3
    <2>5. past'.dirty = past.dirty /\ past'.overlapped = more
      BY <2>3
    <2>6. \A x \in Updaters : left'[x] \subseteq Request[x]
      BY <1>6 DEF AttrTypes
    <2> QED
      BY <1>2, <1>3, <1>6, <1>10, <2>2, <2>4, <2>5, <2>6
  <1> QED
    BY <1>1, <1>9, <1>10

LEMMA AttrFaulted ==
    ASSUME AttrTypes, Attr!Fault
    PROVE  /\ past' \in [faults : Nat, dirty : SUBSET Attr!Attributes, overlapped : SUBSET Updaters]
           /\ past'.dirty = past.dirty /\ past'.overlapped = past.overlapped
  <1>1. /\ past.faults \in Nat /\ past.dirty \subseteq Attr!Attributes /\ past.overlapped \subseteq Updaters
        /\ past = [faults |-> past.faults, dirty |-> past.dirty, overlapped |-> past.overlapped]
    BY DEF AttrTypes
  <1>2. past' = [past EXCEPT !.faults = past.faults + 1]
    BY DEF Attr!Fault
  <1>3. past' = [faults |-> past.faults + 1, dirty |-> past.dirty, overlapped |-> past.overlapped]
    BY <1>1, <1>2
  <1> QED
    BY <1>1, <1>3

\* An attribute is changed.
LEMMA AttrMined ==
    ASSUME AttrTypes, NEW x \in Updaters, NEW a \in Attr!Attributes, Attr!Mined(x, a),
           past' = [past EXCEPT !.dirty = @ \cup {a}]
    PROVE  /\ past' \in [faults : Nat, dirty : SUBSET Attr!Attributes, overlapped : SUBSET Updaters]
           /\ past'.dirty = past.dirty \cup {a} /\ past'.overlapped = past.overlapped
           /\ DOMAIN chain' = Attr!Attributes /\ chain'[a] = x /\ \A b \in Attr!Attributes : b # a => chain'[b] = chain[b]
  <1>1. /\ past.faults \in Nat /\ past.dirty \subseteq Attr!Attributes /\ past.overlapped \subseteq Updaters
        /\ past = [faults |-> past.faults, dirty |-> past.dirty, overlapped |-> past.overlapped]
    BY DEF AttrTypes
  <1>2. past' = [faults |-> past.faults, dirty |-> past.dirty \cup {a}, overlapped |-> past.overlapped]
    BY <1>1
  <1>3. DOMAIN chain' = Attr!Attributes /\ chain'[a] = x /\ \A b \in Attr!Attributes : b # a => chain'[b] = chain[b]
    BY DEF AttrTypes, Attr!Mined
  <1> QED
    BY <1>1, <1>2, <1>3

\* The steps that change neither what is under way nor the log: those of a process that
\* reads, and a refused update.
AttrQuietStep(p) ==
    \/ Attr!StartRead(p) \/ Attr!CreateCache(p) \/ Attr!ReadFails(p)
    \/ \E a \in Attr!Attributes : Attr!ReadAttribute(p, a)

LEMMA AttrTypesNext ==
    ASSUME AttrAssumption, AttrInv, Attr!Next
    PROVE  AttrTypes'
  <1>0. AttrTypes
    BY DEF AttrInv
  <1>p. \A x \in Updaters : x \in Attr!Processes
    BY DEF Attr!Processes
  <1>n. DOMAIN Attr!NoFill = AttrFills
    BY DEF Attr!NoFill, AttrFills
  <1> USE DEF Attr!local
  <1>1. ASSUME NEW p \in Attr!Processes, AttrQuietStep(p)
        PROVE  AttrTypes'
    <2>1. past' = past \/ Attr!Fault
      BY <1>1 DEF AttrQuietStep, Attr!StartRead, Attr!CreateCache, Attr!ReadFails, Attr!ReadAttribute
    <2>2. UNCHANGED <<chain, mempool, cache, log, left>>
      BY <1>1 DEF AttrQuietStep, Attr!StartRead, Attr!CreateCache, Attr!ReadFails, Attr!ReadAttribute
    <2>3. pc' \in [Attr!Processes -> AttrPlaces]
      BY <1>0, <1>1
         DEF AttrTypes, AttrPlaces, AttrQuietStep, Attr!StartRead, Attr!CreateCache, Attr!ReadFails, Attr!ReadAttribute,
             Attr!Goto
    <2>4. DOMAIN got' = Attr!Processes /\ \A q \in Attr!Processes : DOMAIN got'[q] \subseteq Attr!Attributes
      <3>1. CASE \E a \in Attr!Attributes : Attr!ReadAttribute(p, a)
        <4>1. PICK a \in Attr!Attributes : Attr!ReadAttribute(p, a)
          BY <3>1
        <4>2. got' = [got EXCEPT ![p] = [b \in DOMAIN got[p] \cup {a} |-> IF b = a THEN chain[a] ELSE got[p][b]]]
          BY <4>1 DEF Attr!ReadAttribute
        <4>3. DOMAIN got' = Attr!Processes /\ \A q \in Attr!Processes : q # p => got'[q] = got[q]
          BY <1>0, <4>2 DEF AttrTypes
        <4>4. DOMAIN got'[p] = DOMAIN got[p] \cup {a}
          BY <1>0, <4>2 DEF AttrTypes
        <4> QED
          BY <1>0, <4>3, <4>4 DEF AttrTypes
      <3>2. CASE got' = got \/ got' = [got EXCEPT ![p] = <<>>]
        BY <1>0, <3>2 DEF AttrTypes
      <3> QED
        BY <1>1, <3>1, <3>2 DEF AttrQuietStep, Attr!StartRead, Attr!CreateCache, Attr!ReadFails
    <2>5. DOMAIN fill' = Attr!Processes /\ \A q \in Attr!Processes : DOMAIN fill'[q] = AttrFills
      <3>1. \/ fill' = fill \/ fill' = [fill EXCEPT ![p] = Attr!NoFill]
            \/ fill' = [fill EXCEPT ![p].insert = cache = <<>>]
        BY <1>1 DEF AttrQuietStep, Attr!StartRead, Attr!CreateCache, Attr!ReadFails, Attr!ReadAttribute
      <3> QED
        BY <1>0, <1>n, <3>1 DEF AttrTypes
    <2> QED
      BY <1>0, <2>1, <2>2, <2>3, <2>4, <2>5, AttrFaulted DEF AttrTypes
  <1>2. ASSUME NEW p \in Attr!Processes, Attr!GetFromCache(p) \/ Attr!CommitCache(p)
        PROVE  AttrTypes'
    <2>1. Attr!AfterGet(p) /\ UNCHANGED <<chain, mempool, log>>
      BY <1>2 DEF Attr!GetFromCache, Attr!CommitCache
    <2>2. /\ (DOMAIN got' = Attr!Processes /\ \A q \in Attr!Processes : DOMAIN got'[q] \subseteq Attr!Attributes)
          /\ DOMAIN fill' = Attr!Processes /\ \A q \in Attr!Processes : DOMAIN fill'[q] = AttrFills
      BY <1>0, <1>2, <1>n DEF AttrTypes, Attr!GetFromCache, Attr!CommitCache
    <2>3. /\ pc' \in [Attr!Processes -> AttrPlaces]
          /\ left' \in [Updaters -> SUBSET Attr!Attributes] /\ \A x \in Updaters : left'[x] \subseteq Request[x]
          /\ past' \in [faults : Nat, dirty : SUBSET Attr!Attributes, overlapped : SUBSET Updaters]
      BY <1>0, <2>1, AttrServed
    <2>4. DOMAIN chain' = Attr!Attributes /\ mempool' \subseteq Updaters \X Attr!Attributes /\ log' \in Seq(Updaters)
      BY <1>0, <2>1 DEF AttrTypes
    <2> QED
      BY <2>2, <2>3, <2>4 DEF AttrTypes
  <1>3. ASSUME NEW x \in Updaters, Attr!Refuse(x) \/ Attr!RecordOperation(x)
        PROVE  AttrTypes'
    <2>1. log' \in Seq(Updaters)
      <3>1. log' = log \/ log' = Append(log, x)
        BY <1>3 DEF Attr!Refuse, Attr!RecordOperation
      <3> QED
        BY <1>0, <3>1, AppendOf DEF AttrTypes
    <2> QED
      BY <1>0, <1>3, <2>1 DEF AttrTypes, AttrPlaces, Attr!Refuse, Attr!RecordOperation, Attr!Goto
  <1>4. ASSUME NEW x \in Updaters, Attr!Crash(x)
        PROVE  AttrTypes'
    <2>1. Attr!Fault /\ UNCHANGED <<chain, mempool, log, left>>
      BY <1>4 DEF Attr!Crash
    <2>2. /\ pc' \in [Attr!Processes -> AttrPlaces] /\ (DOMAIN got' = Attr!Processes /\ \A q \in Attr!Processes : DOMAIN got'[q] \subseteq Attr!Attributes)
          /\ DOMAIN fill' = Attr!Processes /\ \A q \in Attr!Processes : DOMAIN fill'[q] = AttrFills
      BY <1>0, <1>4, <1>n, <1>p DEF AttrTypes, AttrPlaces, Attr!Crash, Attr!Goto
    <2> QED
      BY <1>0, <2>1, <2>2, AttrFaulted DEF AttrTypes
  <1>5. ASSUME NEW x \in Updaters, Attr!RecordAttrUpdate(x)
        PROVE  AttrTypes'
    <2>1. UNCHANGED <<chain, mempool, log, got, left>> /\ pc' = [pc EXCEPT ![x] = "log"]
      BY <1>5 DEF Attr!RecordAttrUpdate, Attr!Goto
    <2>2. pc' \in [Attr!Processes -> AttrPlaces]
      BY <1>0, <2>1 DEF AttrTypes, AttrPlaces
    <2>3. DOMAIN fill' = Attr!Processes /\ \A q \in Attr!Processes : DOMAIN fill'[q] = AttrFills
      <3>1. \/ fill' = fill
            \/ fill' = [p \in Attr!Processes |->
                         CASE pc[p] = "stamp" -> [fill[p] EXCEPT !.outdated = TRUE]
                           [] pc[p] = "read" -> [fill[p] EXCEPT !.raced = TRUE]
                           [] OTHER -> fill[p]]
        BY <1>5 DEF Attr!RecordAttrUpdate
      <3> QED
        BY <1>0, <3>1 DEF AttrTypes
    <2>4. past' \in [faults : Nat, dirty : SUBSET Attr!Attributes, overlapped : SUBSET Updaters]
      <3>1. past' = [past EXCEPT !.dirty = {}] \/ Attr!Fault
        BY <1>5 DEF Attr!RecordAttrUpdate
      <3> QED
        BY <1>0, <3>1, AttrFaulted DEF AttrTypes
    <2> QED
      BY <1>0, <2>1, <2>2, <2>3, <2>4 DEF AttrTypes
  <1>6. ASSUME NEW x \in Updaters, NEW a \in Attr!Attributes, Attr!SendAttribute(x, a)
        PROVE  AttrTypes'
    <2>1. UNCHANGED <<log, got, fill>> /\ pc' \in [Attr!Processes -> AttrPlaces]
      BY <1>0, <1>6 DEF AttrTypes, AttrPlaces, Attr!SendAttribute, Attr!Goto
    <2>2. mempool' \subseteq Updaters \X Attr!Attributes
      BY <1>0, <1>6 DEF AttrTypes, Attr!SendAttribute
    <2>3. left' \in [Updaters -> SUBSET Attr!Attributes] /\ \A y \in Updaters : left'[y] \subseteq Request[y]
      <3>1. left' = left \/ left' = [left EXCEPT ![x] = left[x] \ {a}]
        BY <1>6 DEF Attr!SendAttribute
      <3>2. left' \in [Updaters -> SUBSET Attr!Attributes] /\ \A y \in Updaters : left'[y] \subseteq left[y]
        BY <1>0, <3>1 DEF AttrTypes
      <3> QED
        BY <1>0, <3>2 DEF AttrTypes
    <2>4. \/ Attr!Fault /\ chain' = chain
          \/ Attr!Mined(x, a) /\ past' = [past EXCEPT !.dirty = @ \cup {a}]
      BY <1>6 DEF Attr!SendAttribute
    <2>5. /\ DOMAIN chain' = Attr!Attributes
          /\ past' \in [faults : Nat, dirty : SUBSET Attr!Attributes, overlapped : SUBSET Updaters]
      BY <1>0, <2>4, AttrFaulted, AttrMined DEF AttrTypes
    <2> QED
      BY <1>0, <2>1, <2>2, <2>3, <2>5 DEF AttrTypes
  <1>7. ASSUME NEW x \in Updaters, NEW a \in Attr!Attributes, Attr!MineLate(x, a)
        PROVE  AttrTypes'
    <2>1. UNCHANGED <<log, pc, got, fill, left>> /\ mempool' \subseteq mempool
          /\ Attr!Mined(x, a) /\ past' = [past EXCEPT !.dirty = @ \cup {a}]
      BY <1>7 DEF Attr!MineLate
    <2>2. /\ DOMAIN chain' = Attr!Attributes
          /\ past' \in [faults : Nat, dirty : SUBSET Attr!Attributes, overlapped : SUBSET Updaters]
      BY <1>0, <2>1, AttrMined
    <2> QED
      BY <1>0, <2>1, <2>2 DEF AttrTypes
  <1>8. CASE Attr!Expire
    BY <1>0, <1>8 DEF AttrTypes, Attr!Expire
  <1> QED
    BY <1>1, <1>2, <1>3, <1>4, <1>5, <1>6, <1>7, <1>8, AttrSteps DEF AttrQuietStep

\* What is fresh stays so while nothing is recorded.
LEMMA AttrStaysFresh ==
    ASSUME AttrTypes, NEW values, DOMAIN values \subseteq Attr!Attributes, AttrFresh(values),
           past.dirty \subseteq past'.dirty,
           \A a \in Attr!Attributes : chain'[a] # chain[a] => a \in past'.dirty
    PROVE  \A a \in DOMAIN values : values[a] # chain'[a] => a \in past'.dirty
  BY DEF AttrFresh

LEMMA AttrShownNext ==
    ASSUME AttrAssumption, AttrInv, Attr!Next
    PROVE  AttrShown'
  <1>0. AttrTypes /\ AttrShown
    BY DEF AttrInv
  <1>p. \A x \in Updaters : x \in Attr!Processes
    BY DEF Attr!Processes
  <1>d. \A p \in Attr!Processes : DOMAIN fill[p] = {"insert", "outdated", "raced"} /\ p \in DOMAIN fill
    BY <1>0 DEF AttrTypes, AttrFills
  <1> USE DEF Attr!local
  <1>1. ASSUME NEW p \in Attr!Processes,
               \/ Attr!StartRead(p) \/ Attr!ReadFails(p) \/ Attr!GetFromCache(p)
               \/ p \in Updaters /\ (Attr!Refuse(p) \/ Attr!RecordOperation(p) \/ Attr!Crash(p))
        PROVE  AttrShown'
    <2>1. past' = past \/ Attr!Fault \/ Attr!AfterGet(p)
      BY <1>1 DEF Attr!StartRead, Attr!ReadFails, Attr!GetFromCache, Attr!Refuse, Attr!RecordOperation, Attr!Crash
    <2>2. past'.dirty = past.dirty
      BY <1>0, <2>1, AttrFaulted, AttrServed
    <2>3. UNCHANGED <<chain, cache>>
      BY <1>1 DEF Attr!StartRead, Attr!ReadFails, Attr!GetFromCache, Attr!Refuse, Attr!RecordOperation, Attr!Crash
    <2>4. \A q \in Attr!Processes : q # p => pc'[q] = pc[q] /\ got'[q] = got[q] /\ fill'[q] = fill[q]
      BY <1>0, <1>1, AttrServed
         DEF AttrTypes, Attr!StartRead, Attr!ReadFails, Attr!GetFromCache, Attr!Refuse, Attr!RecordOperation, Attr!Crash,
             Attr!Goto
    <2>5. pc'[p] # "stamp" /\ (pc'[p] = "read" => got'[p] = <<>>)
      BY <1>0, <1>1, <1>p, AttrServed
         DEF AttrTypes, Attr!StartRead, Attr!ReadFails, Attr!GetFromCache, Attr!Refuse, Attr!RecordOperation, Attr!Crash,
             Attr!Goto
    <2> QED
      BY <1>0, <2>2, <2>3, <2>4, <2>5 DEF AttrShown, AttrFresh
  <1>2. ASSUME NEW p \in Attr!Processes, NEW a \in Attr!Attributes, Attr!ReadAttribute(p, a)
        PROVE  AttrShown'
    <2>1. /\ UNCHANGED <<chain, cache, pc, fill, past>> /\ pc[p] = "read"
          /\ got' = [got EXCEPT ![p] = [b \in DOMAIN got[p] \cup {a} |-> IF b = a THEN chain[a] ELSE got[p][b]]]
      BY <1>2 DEF Attr!ReadAttribute
    <2>2. \A q \in Attr!Processes : q # p => got'[q] = got[q]
      BY <1>0, <2>1 DEF AttrTypes
    <2>3. got'[p] = [b \in DOMAIN got[p] \cup {a} |-> IF b = a THEN chain[a] ELSE got[p][b]]
      BY <1>0, <2>1 DEF AttrTypes
    <2>4. AttrFresh(got[p]) => AttrFresh(got'[p])
      BY <2>3 DEF AttrFresh
    <2> QED
      BY <1>0, <2>1, <2>2, <2>4 DEF AttrShown, AttrFresh
  <1>3. ASSUME NEW p \in Attr!Processes, Attr!CreateCache(p)
        PROVE  AttrShown'
    <2>1. /\ UNCHANGED <<chain, cache, got, past>> /\ pc[p] = "read" /\ DOMAIN got[p] = Attr!Attributes
          /\ pc' = [pc EXCEPT ![p] = "stamp"] /\ fill' = [fill EXCEPT ![p].insert = cache = <<>>]
      BY <1>3 DEF Attr!CreateCache, Attr!Goto
    <2>2. \A q \in Attr!Processes : q # p => pc'[q] = pc[q] /\ fill'[q] = fill[q]
      BY <1>0, <2>1 DEF AttrTypes
    <2>3. fill'[p].raced = fill[p].raced /\ pc'[p] = "stamp"
      <3>1. fill'[p] = [fill[p] EXCEPT !.insert = cache = <<>>]
        BY <1>d, <2>1
      <3>2. fill'[p].raced = fill[p].raced
        BY <1>d, <3>1
      <3> QED
        BY <1>0, <2>1, <3>2 DEF AttrTypes
    <2> QED
      BY <1>0, <2>1, <2>2, <2>3 DEF AttrShown, AttrFresh
  <1>4. ASSUME NEW p \in Attr!Processes, Attr!CommitCache(p)
        PROVE  AttrShown'
    <2>1. /\ UNCHANGED chain /\ Attr!AfterGet(p) /\ got' = [got EXCEPT ![p] = <<>>]
          /\ fill' = [fill EXCEPT ![p] = Attr!NoFill]
          /\ \/ cache' = cache
             \/ pc[p] = "stamp" /\ cache' = <<[attrs |-> got[p], outdated |-> fill[p].outdated,
                                               raced |-> fill[p].raced, expired |-> FALSE]>>
      BY <1>4 DEF Attr!CommitCache
    <2>2. /\ past'.dirty = past.dirty /\ pc'[p] \in {"idle", "send"}
          /\ \A q \in Attr!Processes : q # p => pc'[q] = pc[q]
      BY <1>0, <2>1, AttrServed
    <2>3. \A q \in Attr!Processes : q # p => got'[q] = got[q] /\ fill'[q] = fill[q]
      BY <1>0, <2>1 DEF AttrTypes
    <2>4. \/ cache' = cache
          \/ /\ pc[p] = "stamp" /\ cache'[1].attrs = got[p] /\ DOMAIN got[p] = Attr!Attributes
             /\ cache'[1].outdated = fill[p].outdated /\ cache'[1].raced = fill[p].raced
      BY <1>0, <2>1 DEF AttrShown
    <2> QED
      BY <1>0, <2>1, <2>2, <2>3, <2>4 DEF AttrShown, AttrFresh
  <1>5. ASSUME NEW x \in Updaters, Attr!RecordAttrUpdate(x)
        PROVE  AttrShown'
    <2>1. UNCHANGED <<chain, got>> /\ pc' = [pc EXCEPT ![x] = "log"]
      BY <1>5 DEF Attr!RecordAttrUpdate, Attr!Goto
    <2>2. pc'[x] = "log" /\ \A q \in Attr!Processes : q # x => pc'[q] = pc[q]
      BY <1>0, <1>p, <2>1 DEF AttrTypes
    <2>3. CASE Attr!Fault /\ UNCHANGED <<cache, fill>>
      <3>1. past'.dirty = past.dirty
        BY <1>0, <2>3, AttrFaulted
      <3> QED
        BY <1>0, <2>1, <2>2, <2>3, <3>1 DEF AttrShown, AttrFresh
    <2>4. CASE ~(Attr!Fault /\ UNCHANGED <<cache, fill>>)
      <3>1. /\ cache' = <<>>
            /\ fill' = [p \in Attr!Processes |->
                         CASE pc[p] = "stamp" -> [fill[p] EXCEPT !.outdated = TRUE]
                           [] pc[p] = "read" -> [fill[p] EXCEPT !.raced = TRUE]
                           [] OTHER -> fill[p]]
        BY <1>5, <2>4 DEF Attr!RecordAttrUpdate
      <3>2. ASSUME NEW p \in Attr!Processes
            PROVE  /\ pc'[p] = "stamp" => fill'[p].outdated /\ DOMAIN got'[p] = Attr!Attributes
                   /\ pc'[p] = "read" => fill'[p].raced
        <4>1. pc[p] = "stamp" => fill'[p] = [fill[p] EXCEPT !.outdated = TRUE]
          BY <3>1
        <4>2. pc[p] = "read" => fill'[p] = [fill[p] EXCEPT !.raced = TRUE]
          BY <3>1
        <4>3. pc[p] = "stamp" => fill'[p].outdated
          BY <1>d, <4>1
        <4>4. pc[p] = "read" => fill'[p].raced
          BY <1>d, <4>2
        <4>5. pc'[p] \in {"stamp", "read"} => pc'[p] = pc[p]
          BY <2>2
        <4> QED
          BY <1>0, <2>1, <4>3, <4>4, <4>5 DEF AttrShown
      <3> QED
        BY <3>1, <3>2 DEF AttrShown
    <2> QED
      BY <2>3, <2>4
  <1>6. ASSUME NEW x \in Updaters, NEW a \in Attr!Attributes, Attr!SendAttribute(x, a) \/ Attr!MineLate(x, a)
        PROVE  AttrShown'
    <2>1. /\ UNCHANGED <<cache, got, fill>>
          /\ pc' = pc \/ pc' = [pc EXCEPT ![x] = "error"]
          /\ \/ Attr!Fault /\ chain' = chain
             \/ Attr!Mined(x, a) /\ past' = [past EXCEPT !.dirty = @ \cup {a}]
      BY <1>6 DEF Attr!SendAttribute, Attr!MineLate, Attr!Goto
    <2>2. \A q \in Attr!Processes : pc'[q] = pc[q] \/ pc'[q] = "error"
      BY <1>0, <2>1 DEF AttrTypes
    <2>3. past.dirty \subseteq past'.dirty /\ \A b \in Attr!Attributes : chain'[b] # chain[b] => b \in past'.dirty
      BY <1>0, <2>1, AttrFaulted, AttrMined
    <2>4. \A p \in Attr!Processes : DOMAIN got[p] \subseteq Attr!Attributes
      BY <1>0 DEF AttrTypes
    <2> QED
      BY <1>0, <2>1, <2>2, <2>3, <2>4 DEF AttrShown, AttrFresh
  <1>7. CASE Attr!Expire
    <2>1. /\ UNCHANGED <<chain, pc, got, fill, past>> /\ cache' = <<[cache[1] EXCEPT !.expired = TRUE]>> /\ cache # <<>>
      BY <1>7 DEF Attr!Expire
    <2>2. /\ cache'[1] = [cache[1] EXCEPT !.expired = TRUE]
      BY <2>1
    <2>3. cache'[1].attrs = cache[1].attrs /\ cache'[1].outdated = cache[1].outdated /\ cache'[1].raced = cache[1].raced
      BY <2>2
    <2> QED
      BY <1>0, <2>1, <2>3 DEF AttrShown, AttrFresh
  <1> QED
    BY <1>1, <1>2, <1>3, <1>4, <1>5, <1>6, <1>7, AttrSteps, <1>p

\* A log with one more entry.
LEMMA AttrLogged ==
    ASSUME AttrTypes, NEW x \in Updaters, log' = Append(log, x), NEW a
    PROVE  /\ a \in Request[x] => LastIs(a, x)'
           /\ a \notin Request[x] => \A value : LastIs(a, value) => LastIs(a, value)'
  <1>1. /\ DOMAIN log' = 1..(Len(log) + 1) /\ DOMAIN log = 1..Len(log) /\ Len(log) \in Nat
        /\ log'[Len(log) + 1] = x /\ \A i \in DOMAIN log : log'[i] = log[i]
    BY AppendOf DEF AttrTypes
  <1>2. /\ Len(log) + 1 \in DOMAIN log' /\ \A i \in DOMAIN log : i \in DOMAIN log'
        /\ \A i \in DOMAIN log' : i <= Len(log) + 1 /\ (i \in DOMAIN log \/ i = Len(log) + 1)
    BY <1>1
  <1>3. a \in Request[x] => LastIs(a, x)'
    BY <1>1, <1>2 DEF LastIs
  <1>4. ASSUME a \notin Request[x], NEW value, LastIs(a, value)
        PROVE  LastIs(a, value)'
    BY <1>1, <1>2, <1>4 DEF LastIs
  <1> QED
    BY <1>3, <1>4

\* What is under way does not change, nor do chain and log.
LEMMA AttrStill ==
    ASSUME AttrTypes, AttrHistory, UNCHANGED <<chain, mempool, log>>, past'.overlapped = past.overlapped,
           \A x \in Updaters : left'[x] = left[x],
           \A x \in Updaters : \/ pc'[x] = pc[x]
                               \/ pc[x] # "done" /\ pc'[x] \in {"error", "lost"}
                               \/ pc[x] \in {"idle", "read", "stamp"} /\ pc'[x] \in {"idle", "read", "stamp", "refused"}
                               \/ pc[x] = "send" /\ left[x] = {} /\ pc'[x] = "log",
           \A x \in Updaters : pc[x] \in {"error", "lost"} => pc'[x] = pc[x]
    PROVE  AttrHistory'
  <1>1. SetOf(log)' = SetOf(log) /\ \A a, v : LastIs(a, v)' <=> LastIs(a, v)
    BY DEF SetOf, LastIs
  <1>2. \A x \in Updaters : x \in Active' => x \in Active
    BY DEF Active
  <1>3. Broken => Broken'
    BY DEF Broken
  <1>4. ~Broken' => Active' = Active
    BY <1>2 DEF Active, Broken
  <1>5. \A x \in Updaters : pc'[x] = "log" => left'[x] = {}
    BY DEF AttrHistory
  <1>6. \A x \in SetOf(log) : pc'[x] = "done" /\ left'[x] = {}
    <2>1. \A x \in SetOf(log) : x \in Updaters
      BY DEF AttrTypes, SetOf
    <2> QED
      BY <2>1 DEF AttrHistory
  <1>7. \A x, y \in Active' : x # y => x \in past'.overlapped
    BY <1>2 DEF Active, AttrHistory
  <1>8. ASSUME ~Broken', NEW a \in Attr!Attributes, Setters(a) \cap past'.overlapped = {}
        PROVE  /\ \A x \in Active' : a \in Request[x] \ left'[x] => chain'[a] = x
               /\ (\A x \in Active' : a \notin Request[x] \ left'[x]) => Replays(a)'
    <2>1. ~Broken /\ Active' = Active /\ chain' = chain /\ Setters(a) \cap past.overlapped = {}
      BY <1>3, <1>4, <1>8
    <2>2. \A x \in Active : left'[x] = left[x]
      BY DEF Active
    <2> QED
      BY <1>1, <2>1, <2>2 DEF AttrHistory, Replays
  <1>9. ~Broken' => mempool' = {}
    BY <1>3 DEF AttrHistory
  <1> QED
    BY <1>1, <1>5, <1>6, <1>7, <1>8, <1>9 DEF AttrHistory

LEMMA AttrHistoryNext ==
    ASSUME AttrAssumption, AttrInv, Attr!Next
    PROVE  AttrHistory'
  <1>0. AttrTypes /\ AttrHistory
    BY DEF AttrInv
  <1>p. \A x \in Updaters : x \in Attr!Processes
    BY DEF Attr!Processes
  <1>a. Attr!Attributes = UNION {Request[x] : x \in Updaters}
    BY DEF Attr!Attributes
  <1>l. \A x \in SetOf(log) : x \in Updaters
    BY <1>0 DEF AttrTypes, SetOf
  <1> USE DEF Attr!local
  <1>1. ASSUME NEW p \in Attr!Processes, AttrQuietStep(p)
        PROVE  AttrHistory'
    <2>1. UNCHANGED <<chain, mempool, log, left>> /\ (past' = past \/ Attr!Fault)
      BY <1>1 DEF AttrQuietStep, Attr!StartRead, Attr!CreateCache, Attr!ReadFails, Attr!ReadAttribute
    <2>2. past'.overlapped = past.overlapped
      BY <1>0, <2>1, AttrFaulted
    <2>3. /\ \A q \in Attr!Processes : q # p => pc'[q] = pc[q]
          /\ \/ pc'[p] = pc[p]
             \/ pc[p] \in {"idle", "read"} /\ pc'[p] \in {"idle", "read", "stamp", "error"}
      BY <1>0, <1>1
         DEF AttrTypes, AttrQuietStep, Attr!StartRead, Attr!CreateCache, Attr!ReadFails, Attr!ReadAttribute, Attr!Goto
    <2> QED
      BY <1>0, <1>p, <2>1, <2>2, <2>3, AttrStill
  <1>2. ASSUME NEW x \in Updaters, Attr!Refuse(x) \/ Attr!Crash(x) \/ Attr!RecordAttrUpdate(x)
        PROVE  AttrHistory'
    <2>1. UNCHANGED <<chain, mempool, log, left>>
      BY <1>2 DEF Attr!Refuse, Attr!Crash, Attr!RecordAttrUpdate
    <2>2. past' = past \/ Attr!Fault \/ past' = [past EXCEPT !.dirty = {}]
      BY <1>2 DEF Attr!Refuse, Attr!Crash, Attr!RecordAttrUpdate
    <2>3. past'.overlapped = past.overlapped
      BY <1>0, <2>2, AttrFaulted DEF AttrTypes
    <2>4. /\ \A q \in Attr!Processes : q # x => pc'[q] = pc[q]
          /\ \/ pc[x] = "idle" /\ pc'[x] = "refused"
             \/ pc[x] \in {"read", "stamp", "send", "log"} /\ pc'[x] = "lost"
             \/ pc[x] = "send" /\ left[x] = {} /\ pc'[x] = "log"
      BY <1>0, <1>2, <1>p DEF AttrTypes, Attr!Refuse, Attr!Crash, Attr!RecordAttrUpdate, Attr!Goto
    <2> QED
      BY <1>0, <1>p, <2>1, <2>3, <2>4, AttrStill
  <1>3. CASE Attr!Expire
    BY <1>0, <1>3, AttrStill DEF Attr!Expire
  <1>4. ASSUME NEW p \in Attr!Processes, Attr!GetFromCache(p) \/ Attr!CommitCache(p)
        PROVE  AttrHistory'
    <2>1. Attr!AfterGet(p) /\ UNCHANGED <<chain, mempool, log>> /\ pc[p] \in {"idle", "read", "stamp"}
      BY <1>4 DEF Attr!GetFromCache, Attr!CommitCache
    <2>2. /\ pc'[p] \in {"idle", "send"} /\ \A q \in Attr!Processes : q # p => pc'[q] = pc[q]
          /\ \A x \in Updaters : x # p => left'[x] = left[x]
          /\ p \in Updaters => left'[p] = Request[p] /\ pc'[p] = "send"
          /\ past.overlapped \subseteq past'.overlapped
          /\ p \in Updaters => Active \subseteq past'.overlapped /\ (Active # {} => p \in past'.overlapped)
      BY <1>0, <2>1, AttrServed
    <2>3. SetOf(log)' = SetOf(log) /\ \A a, v : LastIs(a, v)' <=> LastIs(a, v)
      BY <2>1 DEF SetOf, LastIs
    <2>4. \A x \in Active' : x \in Active \/ x = p
      BY <1>p, <2>2 DEF Active
    <2>5. Active \subseteq Active' /\ (p \in Active' => p \in Updaters) /\ p \notin Active
      BY <1>p, <2>1, <2>2 DEF Active
    <2>6. Broken => Broken'
      BY <1>p, <2>1, <2>2 DEF Broken
    <2>7. \A x \in SetOf(log') : pc'[x] = "done" /\ left'[x] = {}
      BY <1>0, <1>l, <1>p, <2>1, <2>2, <2>3 DEF AttrHistory
    <2>8. \A x \in Updaters : pc'[x] = "log" => left'[x] = {}
      BY <1>0, <1>p, <2>2 DEF AttrHistory
    <2>9. \A x, y \in Active' : x # y => x \in past'.overlapped
      BY <1>0, <2>2, <2>4, <2>5 DEF AttrHistory
    <2>10. ASSUME ~Broken', NEW a \in Attr!Attributes, Setters(a) \cap past'.overlapped = {}
           PROVE  /\ \A x \in Active' : a \in Request[x] \ left'[x] => chain'[a] = x
                  /\ (\A x \in Active' : a \notin Request[x] \ left'[x]) => Replays(a)'
      <3>1. ~Broken /\ chain' = chain /\ Setters(a) \cap past.overlapped = {}
        BY <2>1, <2>2, <2>6, <2>10
      <3>2. \A x \in Active : left'[x] = left[x]
        BY <2>2, <2>5 DEF Active
      <3>3. \A x \in Active' : a \in Request[x] \ left'[x] => x \in Active /\ a \in Request[x] \ left[x]
        BY <2>2, <2>4, <2>5, <3>2
      <3>4. \A x \in Active : a \in Request[x] \ left[x] => x \in Active' /\ a \in Request[x] \ left'[x]
        BY <2>5, <3>2
      <3> QED
        BY <1>0, <2>3, <3>1, <3>3, <3>4 DEF AttrHistory, Replays
    <2>11. ~Broken' => mempool' = {}
      BY <1>0, <2>1, <2>6 DEF AttrHistory
    <2> QED
      BY <2>7, <2>8, <2>9, <2>10, <2>11 DEF AttrHistory
  <1>5. ASSUME NEW x \in Updaters, Attr!RecordOperation(x)
        PROVE  AttrHistory'
    <2>1. /\ UNCHANGED <<chain, mempool, left, past>> /\ pc[x] = "log" /\ pc' = [pc EXCEPT ![x] = "done"]
          /\ log' = Append(log, x)
      BY <1>5 DEF Attr!RecordOperation, Attr!Goto
    <2>2. pc'[x] = "done" /\ \A y \in Updaters : y # x => pc'[y] = pc[y]
      BY <1>0, <1>p, <2>1 DEF AttrTypes
    <2>3. SetOf(log') = SetOf(log) \cup {x}
      BY <1>0, <2>1, AppendOf DEF AttrTypes
    <2>4. x \in Active /\ left[x] = {} /\ Active' = Active \ {x} /\ (Broken <=> Broken')
      BY <1>0, <2>1, <2>2 DEF Active, Broken, AttrHistory
    <2>5. \A y \in SetOf(log') : pc'[y] = "done" /\ left'[y] = {}
      BY <1>0, <1>l, <2>1, <2>2, <2>3, <2>4 DEF AttrHistory
    <2>6. \A y \in Updaters : pc'[y] = "log" => left'[y] = {}
      BY <1>0, <2>1, <2>2 DEF AttrHistory
    <2>7. \A y, z \in Active' : y # z => y \in past'.overlapped
      BY <1>0, <2>1, <2>4 DEF AttrHistory
    <2>8. ASSUME ~Broken', NEW a \in Attr!Attributes, Setters(a) \cap past'.overlapped = {}
          PROVE  /\ \A y \in Active' : a \in Request[y] \ left'[y] => chain'[a] = y
                 /\ (\A y \in Active' : a \notin Request[y] \ left'[y]) => Replays(a)'
      <3>1. ~Broken /\ chain' = chain /\ Setters(a) \cap past.overlapped = {} /\ left' = left
        BY <2>1, <2>4, <2>8
      <3>2. \A y \in Active : a \in Request[y] \ left[y] => chain[a] = y
        BY <1>0, <3>1 DEF AttrHistory
      <3>3. (\A y \in Active : a \notin Request[y] \ left[y]) => Replays(a)
        BY <1>0, <3>1 DEF AttrHistory
      <3>4. CASE a \in Request[x]
        <4>1. chain[a] = x
          BY <2>4, <3>2, <3>4
        <4>2. LastIs(a, x)'
          BY <1>0, <2>1, <3>4, AttrLogged
        <4> QED
          BY <2>4, <3>1, <3>2, <4>1, <4>2 DEF Replays
      <3>5. CASE a \notin Request[x]
        <4>1. \A v : LastIs(a, v) => LastIs(a, v)'
          BY <1>0, <2>1, <3>5, AttrLogged
        <4> QED
          BY <2>4, <3>1, <3>2, <3>3, <3>5, <4>1 DEF Replays
      <3> QED
        BY <3>4, <3>5
    <2>9. ~Broken' => mempool' = {}
      BY <1>0, <2>1, <2>4 DEF AttrHistory
    <2> QED
      BY <2>5, <2>6, <2>7, <2>8, <2>9 DEF AttrHistory
  <1>6. ASSUME NEW x \in Updaters, NEW b \in Attr!Attributes, Attr!SendAttribute(x, b)
        PROVE  AttrHistory'
    <2>1. log' = log /\ pc[x] = "send" /\ b \in left[x] /\ b \in Request[x] /\ x \in Active
      BY <1>0, <1>6 DEF Attr!SendAttribute, AttrTypes, Active
    <2>2. SetOf(log)' = SetOf(log) /\ \A a, v : LastIs(a, v)' <=> LastIs(a, v)
      BY <2>1 DEF SetOf, LastIs
    <2>3. CASE Attr!Fault /\ pc' = [pc EXCEPT ![x] = "error"] /\ UNCHANGED <<chain, left>>
      <3>1. pc'[x] = "error" /\ \A y \in Updaters : y # x => pc'[y] = pc[y]
        BY <1>0, <1>p, <2>3 DEF AttrTypes
      <3>2. Broken' /\ Active' \subseteq Active
        BY <3>1 DEF Broken, Active
      <3>3. past'.overlapped = past.overlapped
        BY <1>0, <2>3, AttrFaulted
      <3>4. \A y \in SetOf(log') : pc'[y] = "done" /\ left'[y] = {}
        BY <1>0, <1>l, <2>1, <2>2, <2>3, <3>1 DEF AttrHistory
      <3>5. \A y \in Updaters : pc'[y] = "log" => left'[y] = {}
        BY <1>0, <2>3, <3>1 DEF AttrHistory
      <3> QED
        BY <1>0, <3>2, <3>3, <3>4, <3>5 DEF AttrHistory
    <2>4. CASE ~(Attr!Fault /\ pc' = [pc EXCEPT ![x] = "error"] /\ UNCHANGED <<chain, left>>)
      <3>1. /\ Attr!Mined(x, b) /\ left' = [left EXCEPT ![x] = left[x] \ {b}]
            /\ past' = [past EXCEPT !.dirty = @ \cup {b}] /\ UNCHANGED <<mempool, pc>>
        BY <1>6, <2>4 DEF Attr!SendAttribute, Attr!Goto
      <3>2. past'.overlapped = past.overlapped /\ chain'[b] = x /\ \A c \in Attr!Attributes : c # b => chain'[c] = chain[c]
        BY <1>0, <3>1, AttrMined
      <3>3. left'[x] = left[x] \ {b} /\ \A y \in Updaters : y # x => left'[y] = left[y]
        BY <1>0, <3>1 DEF AttrTypes
      <3>4. Active' = Active /\ (Broken <=> Broken')
        BY <3>1 DEF Active, Broken
      <3>5. \A y \in SetOf(log') : pc'[y] = "done" /\ left'[y] = {}
        BY <1>0, <1>l, <2>1, <2>2, <3>1, <3>3 DEF AttrHistory
      <3>6. \A y \in Updaters : pc'[y] = "log" => left'[y] = {}
        BY <1>0, <3>1, <3>3 DEF AttrHistory
      <3>7. \A y, z \in Active' : y # z => y \in past'.overlapped
        BY <1>0, <3>2, <3>4 DEF AttrHistory
      <3>8. ASSUME ~Broken', NEW a \in Attr!Attributes, Setters(a) \cap past'.overlapped = {}
            PROVE  /\ \A y \in Active' : a \in Request[y] \ left'[y] => chain'[a] = y
                   /\ (\A y \in Active' : a \notin Request[y] \ left'[y]) => Replays(a)'
        <4>1. ~Broken /\ Setters(a) \cap past.overlapped = {}
          BY <3>2, <3>4, <3>8
        <4>2. CASE a = b
          <5>1. x \notin past.overlapped
            BY <2>1, <4>1, <4>2 DEF Setters
          <5>2. \A y \in Active : y = x
            BY <1>0, <2>1, <5>1 DEF AttrHistory
          <5> QED
            BY <2>1, <3>2, <3>3, <3>4, <4>2, <5>2
        <4>3. CASE a # b
          <5>1. chain'[a] = chain[a] /\ \A y \in Active : a \in left'[y] <=> a \in left[y]
            BY <3>2, <3>3, <4>3 DEF Active
          <5> QED
            BY <1>0, <2>2, <3>4, <4>1, <5>1 DEF AttrHistory, Replays
        <4> QED
          BY <4>2, <4>3
      <3>9. ~Broken' => mempool' = {}
        BY <1>0, <3>1, <3>4 DEF AttrHistory
      <3> QED
        BY <3>5, <3>6, <3>7, <3>8, <3>9 DEF AttrHistory
    <2> QED
      BY <2>3, <2>4
  <1>7. ASSUME NEW x \in Updaters, NEW b \in Attr!Attributes, Attr!MineLate(x, b)
        PROVE  AttrHistory'
    <2>1. /\ UNCHANGED <<log, pc, left>> /\ <<x, b>> \in mempool /\ Attr!Mined(x, b)
          /\ past' = [past EXCEPT !.dirty = @ \cup {b}]
      BY <1>7 DEF Attr!MineLate
    <2>2. past'.overlapped = past.overlapped
      BY <1>0, <2>1, AttrMined
    <2>3. Broken
      BY <1>0, <2>1 DEF AttrHistory
    <2>4. Broken' /\ Active' = Active /\ SetOf(log') = SetOf(log)
      BY <2>1, <2>3 DEF Broken, Active
    <2> QED
      BY <1>0, <2>1, <2>2, <2>4 DEF AttrHistory
  <1> QED
    BY <1>1, <1>2, <1>3, <1>4, <1>5, <1>6, <1>7, AttrSteps DEF AttrQuietStep

LEMMA AttrPreserved ==
    ASSUME AttrAssumption, AttrInv, [Attr!Next]_Attr!vars
    PROVE  AttrInv'
  <1>1. CASE Attr!Next
    BY <1>1, AttrTypesNext, AttrShownNext, AttrHistoryNext, Zenon DEF AttrInv
  <1>2. CASE UNCHANGED Attr!vars
    <2>1. UNCHANGED <<chain, mempool, cache, log, pc, got, fill, left, past>>
      BY <1>2 DEF Attr!vars, Attr!local
    <2>2. AttrTypes' /\ AttrShown'
      BY <2>1 DEF AttrInv, AttrTypes, AttrShown, AttrFresh
    <2>3. AttrHistory'
      BY <2>1 DEF AttrInv, AttrHistory, Active, Broken, LastIs, Replays, SetOf
    <2> QED
      BY <2>2, <2>3 DEF AttrInv
  <1> QED
    BY <1>1, <1>2

LEMMA AttrShownTrue ==
    ASSUME AttrAssumption, AttrInv
    PROVE  Attr!ShownIsCurrent
  BY DEF AttrInv, AttrShown, AttrFresh, Attr!ShownIsCurrent, Attr!Shown, Attr!Valid, Attr!Usable

LEMMA AttrHistoryTrue ==
    ASSUME AttrAssumption, AttrInv
    PROVE  Attr!HistoryIsTrue
  <1>0. AttrTypes /\ AttrHistory
    BY DEF AttrInv
  <1>1. Attr!OperationLog = log
    <2>1. log \in Seq(Updaters) /\ log \o <<>> = log /\ <<>> \o log = log
      BY <1>0 DEF AttrTypes
    <2> QED
      BY <2>1 DEF AttrAssumption, Attr!TokenAttributesAssumption, Attr!OperationLog, Attr!ListBondOperationLogHistory,
         Attr!ListShareOperationLogHistory
  <1>2. \A x \in Attr!Range(log) : pc[x] = "done" /\ left[x] = {}
    BY <1>0 DEF AttrHistory, Attr!Range, SetOf
  <1>3. ASSUME \A x \in Updaters : pc[x] \in {"idle", "done", "refused"}, NEW a \in Attr!Attributes,
               chain[a] # Attr!Replayed(a)
        PROVE  {x \in Updaters : a \in Request[x]} \cap past.overlapped # {}
    <2> SUFFICES ASSUME Setters(a) \cap past.overlapped = {}
                 PROVE  chain[a] = Attr!Replayed(a)
      BY <1>3 DEF Setters
    <2>1. ~Broken /\ Active = {}
      BY <1>3 DEF Broken, Active
    <2>2. LastIs(a, chain[a])
      BY <1>0, <2>1 DEF AttrHistory, Replays
    <2> DEFINE setters == {i \in DOMAIN log : a \in Request[log[i]]}
    <2>3. Attr!Replayed(a) = IF setters = {} THEN Initial ELSE log[CHOOSE i \in setters : \A j \in setters : j <= i]
      BY <1>1 DEF Attr!Replayed
    <2>4. CASE setters = {}
      BY <2>2, <2>3, <2>4 DEF LastIs
    <2>5. CASE setters # {}
      <3>1. PICK i \in setters : chain[a] = log[i] /\ \A j \in setters : j <= i
        BY <2>2, <2>5 DEF LastIs
      <3> DEFINE top == CHOOSE k \in setters : \A j \in setters : j <= k
      <3>2. \A k \in setters : k \in Int
        BY <1>0 DEF AttrTypes
      <3> HIDE DEF setters
      <3>3. top \in setters /\ \A j \in setters : j <= top
        BY <3>1
      <3> HIDE DEF top
      <3>4. top = i
        BY <3>1, <3>2, <3>3
      <3> QED
        BY <2>3, <2>5, <3>1, <3>4 DEF top
    <2> QED
      BY <2>4, <2>5
  <1> QED
    BY <1>1, <1>2, <1>3 DEF Attr!HistoryIsTrue

LEMMA AttrInvariant ==
    ASSUME AttrAssumption
    PROVE  Attr!Spec => []AttrInv
  <1>1. Attr!Init => AttrInv
    BY AttrInitially
  <1>2. AttrInv /\ [Attr!Next]_Attr!vars => AttrInv'
    BY AttrPreserved
  <1> QED
    BY <1>1, <1>2, PTL DEF Attr!Spec

\* A query shows an old value only of an attribute that was changed since the last record of
\* an update, or from an entry that was read while an update was recorded.
THEOREM AttributesShown == AttrAssumption => (Attr!Spec => []Attr!ShownIsCurrent)
  <1> SUFFICES ASSUME AttrAssumption PROVE Attr!Spec => []Attr!ShownIsCurrent
    OBVIOUS
  <1>1. AttrInv => Attr!ShownIsCurrent
    BY AttrShownTrue
  <1> QED
    BY <1>1, AttrInvariant, PTL

\* Without a failure the operation log gives every attribute the value of the contract, but
\* for those that updates under way together have set.
THEOREM AttributesReplayed == AttrAssumption => (Attr!Spec => []Attr!HistoryIsTrue)
  <1> SUFFICES ASSUME AttrAssumption PROVE Attr!Spec => []Attr!HistoryIsTrue
    OBVIOUS
  <1>1. AttrInv => Attr!HistoryIsTrue
    BY AttrHistoryTrue
  <1> QED
    BY <1>1, AttrInvariant, PTL

-----------------------------------------------------------------------------
(* E2E messages: the invariant.                                            *)

MsgEvents == [type : {"key", "message"}, account : Accounts, key : Nat, time : Nat]
MsgRows == [key : Nat, time : Nat, passphrase : Passphrases, born : Nat]
MsgOpenings == [account : Accounts, key : Nat, time : Nat]
MsgRots == [pc : {"idle", "next", "send", "commit"}, list : SUBSET Accounts, account : Accounts \cup {"none"},
            base : Nat, key : Nat, time : Nat, passphrase : Passphrases]
MsgIxs == [pc : {"idle", "run"}, upto : Nat, todo : SUBSET Nat, found : SUBSET Nat]

MsgTypes ==
    /\ status \in [Accounts -> {"absent", "active", "deleted"}] /\ keys \in [Accounts -> SUBSET MsgRows]
    /\ log \in Seq(MsgEvents) /\ now \in Nat /\ synced \in Nat
    /\ index \in [1..(MaxKeys + MaxMessages) -> Nat] /\ opening \subseteq MsgOpenings
    /\ rot \in MsgRots /\ (rot.pc \in {"send", "commit"} => rot.account \in Accounts)
    /\ ix \in MsgIxs /\ used \in [keys : Nat, faults : Nat]

IsKey(i) == log[i].type = "key"
IsMessage(i) == log[i].type = "message"
Messages == {i \in DOMAIN log : IsMessage(i)}

\* The log is in the order of time and of the numbers of keys; a message has a key that was
\* published before it; there is room in the index for every event.
MsgLog ==
    /\ \A i, j \in DOMAIN log : i < j => log[i].time <= log[j].time
    /\ \A i, j \in DOMAIN log : i < j /\ IsKey(i) /\ IsKey(j) => log[i].key < log[j].key
    /\ \A i \in DOMAIN log : log[i].time <= now /\ log[i].key <= used.keys
    /\ \A i \in Messages : \E j \in DOMAIN log :
          j < i /\ IsKey(j) /\ log[j].account = log[i].account /\ log[j].key = log[i].key
    /\ IsFiniteSet(Messages) /\ Len(log) = used.keys + Cardinality(Messages)
    /\ used.keys <= MaxKeys /\ Cardinality(Messages) <= MaxMessages

LoggedKey(a, k, t) ==
    \E j \in DOMAIN log : IsKey(j) /\ log[j].account = a /\ log[j].key = k /\ log[j].time = t

\* What is committed, or about to be, is a key of the log with its time.
MsgKeys ==
    /\ \A a \in Accounts : \A r \in keys[a] : LoggedKey(a, r.key, r.time)
    /\ \A o \in opening : LoggedKey(o.account, o.key, o.time)
    /\ rot.pc = "send" => rot.key = 0
    /\ rot.pc = "commit" /\ rot.key # 0 => LoggedKey(rot.account, rot.key, rot.time)

\* The message was sent with the newest key of its time, which had been committed then and
\* is still there.
Wanted(i) ==
    /\ status[log[i].account] = "active"
    /\ \A j \in DOMAIN log :
          ~(IsKey(j) /\ log[j].account = log[i].account /\ log[j].key > log[i].key /\ log[j].time <= log[i].time)
    /\ \E r \in keys[log[i].account] : r.key = log[i].key /\ r.born < i

\* Such a message is found in its turn, and what is found is not in the index yet.
MsgIndex ==
    /\ synced < now
    /\ ix.pc = "run" => synced < ix.upto /\ ix.upto < now
    /\ \A i \in ix.todo \cup ix.found : /\ ix.pc = "run" /\ i \in Messages
                                        /\ synced < log[i].time /\ log[i].time <= ix.upto
    /\ \A i \in DOMAIN index : index[i] <= 1 /\ (index[i] > 0 => i \in Messages /\ log[i].time <= synced)
    /\ \A i \in Messages : log[i].time <= synced /\ Wanted(i) => index[i] > 0
    /\ ix.pc = "run" =>
          \A i \in Messages : synced < log[i].time /\ log[i].time <= ix.upto /\ Wanted(i) => i \in ix.todo \cup ix.found

MsgInv == MsgTypes /\ MsgLog /\ MsgKeys /\ MsgIndex
MsgAssumption == Msg!E2EMessagingAssumption

-----------------------------------------------------------------------------
(* E2E messages: the steps.                                                *)

LEMMA MsgSets ==
    \A S : Msg!Cardinality(S) = Cardinality(S) /\ (Msg!IsFiniteSet(S) <=> IsFiniteSet(S))
  <1>1. \A S : Msg!IsFiniteSet(S) <=> IsFiniteSet(S)
    BY Zenon DEF Msg!IsFiniteSet, IsFiniteSet
  <1>2. \A S : Msg!Cardinality(S) = Cardinality(S)
    BY <1>1, Zenon DEF Msg!Cardinality, Cardinality, Msg!IsFiniteSet, IsFiniteSet
  <1> QED
    BY <1>1, <1>2

\* Steps that publish a key; those that leave the log alone and change what is committed;
\* the others, but for the indexer.
MsgPublish ==
    \/ \E a \in Accounts : Msg!CreateAccount(a)
    \/ Msg!AutoGenerateRsaKey \/ Msg!AutoGenerateFails
MsgCommit ==
    \/ \E i \in Intervals, g \in Generations : Msg!RegisterAccount(i, g)
    \/ \E a \in Accounts : Msg!DeleteAccount(a) \/ \E p \in Passphrases : Msg!ChangeRsaPassphrase(a, p)
    \/ Msg!RotateRsaKey
MsgOther ==
    \/ \E a \in Accounts, i \in Intervals, g \in Generations : Msg!UpdateRsaKey(a, i, g)
    \/ Msg!Tick \/ Msg!GetAccountList \/ Msg!EndOfList \/ Msg!GetLatestKey \/ Msg!Crash

LEMMA MsgSteps ==
    ASSUME Msg!Next
    PROVE  \/ MsgPublish \/ MsgCommit \/ MsgOther \/ (\E a \in Accounts : Msg!SendMessage(a))
           \/ Msg!SyncAll \/ Msg!SyncMessage \/ Msg!SetBlockNumber
  BY Zenon DEF Msg!Next, Msg!Rotation, Msg!Indexer, MsgPublish, MsgCommit, MsgOther

LEMMA MsgInitially ==
    ASSUME MsgAssumption, Msg!Init
    PROVE  MsgInv
  <1> USE DEF MsgAssumption, Msg!E2EMessagingAssumption, Msg!Init, Msg!IdleRot, Msg!IdleIx
  <1>1. MsgTypes
    <2>1. MaxKeys \in Nat /\ MaxMessages \in Nat /\ <<>> \in Seq(MsgEvents)
      OBVIOUS
    <2>2. rot \in MsgRots /\ ix \in MsgIxs /\ rot.pc = "idle"
      BY DEF MsgRots, MsgIxs
    <2>3. index \in [1..(MaxKeys + MaxMessages) -> Nat]
      OBVIOUS
    <2> QED
      BY <2>1, <2>2, <2>3 DEF MsgTypes
  <1>2. Messages = {} /\ DOMAIN log = {} /\ Len(log) = 0
    BY DEF Messages
  <1>3. MsgLog
    <2>1. IsFiniteSet(Messages) /\ Cardinality(Messages) = 0
      BY <1>2, FS_EmptySet
    <2> QED
      BY <1>2, <2>1 DEF MsgLog
  <1>4. MsgKeys
    BY DEF MsgKeys
  <1>5. MsgIndex
    BY <1>2 DEF MsgIndex
  <1> QED
    BY <1>1, <1>3, <1>4, <1>5 DEF MsgInv

\* The message that is wanted can be read.
LEMMA MsgWanted ==
    ASSUME MsgTypes, MsgLog, MsgKeys, NEW i \in Messages, Wanted(i)
    PROVE  Msg!Readable(i)
  <1> DEFINE a == log[i].account
             old == {s \in keys[a] : s.time <= log[i].time}
  <1>1. i \in DOMAIN log /\ IsMessage(i)
    BY DEF Messages
  <1>2. \A j \in DOMAIN log : log[j] \in MsgEvents /\ j \in Int
    BY DEF MsgTypes
  <1>3. a \in Accounts /\ \A j \in DOMAIN log : log[j].key \in Nat /\ log[j].time \in Nat
    BY <1>1, <1>2 DEF MsgEvents
  <1>4. \A s \in keys[a] : s.key \in Nat /\ s.time \in Nat /\ LoggedKey(a, s.key, s.time)
    <2>1. keys[a] \subseteq MsgRows
      BY <1>3 DEF MsgTypes
    <2>2. \A s \in keys[a] : s.key \in Nat /\ s.time \in Nat
      BY <2>1 DEF MsgRows
    <2> QED
      BY <1>3, <2>2 DEF MsgKeys
  <1>5. PICK r \in keys[a] : r.key = log[i].key
    BY DEF Wanted
  <1>6. PICK n \in DOMAIN log : IsKey(n) /\ log[n].account = a /\ log[n].key = r.key /\ log[n].time = r.time
    BY <1>4 DEF LoggedKey
  <1>7. PICK m \in DOMAIN log : m < i /\ IsKey(m) /\ log[m].key = log[i].key
    BY DEF MsgLog
  <1>8. m = n
    <2>1. ~(m < n) /\ ~(n < m)
      BY <1>3, <1>5, <1>6, <1>7 DEF MsgLog
    <2> QED
      BY <1>2, <2>1
  <1>9. r.time <= log[i].time
    BY <1>1, <1>6, <1>7, <1>8 DEF MsgLog
  <1>10. ASSUME NEW s \in old PROVE s.time <= r.time
    <2>1. PICK j \in DOMAIN log : IsKey(j) /\ log[j].account = a /\ log[j].key = s.key /\ log[j].time = s.time
      BY <1>4, <1>10 DEF LoggedKey
    <2>2. log[j].key <= r.key
      <3>1. ~(log[j].key > log[i].key /\ log[j].time <= log[i].time)
        BY <2>1 DEF Wanted
      <3>2. log[j].time <= log[i].time
        BY <1>10, <2>1
      <3> QED
        BY <1>1, <1>3, <1>5, <3>1, <3>2
    <2>3. ~(n < j)
      BY <1>3, <1>6, <2>1, <2>2 DEF MsgLog
    <2>4. j <= n
      BY <1>2, <2>3
    <2>5. log[j].time <= log[n].time
      <3>1. CASE j = n
        BY <1>3, <3>1
      <3>2. CASE j # n
        <4>1. j < n
          BY <1>2, <2>4, <3>2
        <4> QED
          BY <4>1 DEF MsgLog
      <3> QED
        BY <3>1, <3>2
    <2> QED
      BY <1>6, <2>1, <2>5
  <1>11. r \in Msg!Newest(old)
    BY <1>9, <1>10 DEF Msg!Newest
  <1>12. status[a] = "active"
    BY DEF Wanted
  <1> QED
    BY <1>5, <1>11, <1>12 DEF Msg!Readable

\* The log is left alone, or one event of the present time is appended.
LogGrows ==
    \/ log' = log
    \/ \E e \in MsgEvents : log' = Append(log, e) /\ e.time = now

LEMMA MsgGrows ==
    ASSUME MsgTypes, LogGrows
    PROVE  /\ DOMAIN log = 1..Len(log) /\ Len(log) \in Nat
           /\ \A i \in DOMAIN log : i \in DOMAIN log' /\ log'[i] = log[i]
           /\ \A i \in DOMAIN log' : i \in DOMAIN log \/ (i = Len(log) + 1 /\ log'[i].time = now)
           /\ \A i \in Messages : i \in Messages'
           /\ \A i \in Messages' : i \in Messages \/ (i = Len(log) + 1 /\ log'[i].time = now)
           /\ \A a, k, t : LoggedKey(a, k, t) => LoggedKey(a, k, t)'
  <1>1. DOMAIN log = 1..Len(log) /\ Len(log) \in Nat
    BY DEF MsgTypes
  <1>2. \A i \in DOMAIN log : i \in DOMAIN log' /\ log'[i] = log[i]
    BY <1>1, AppendOf DEF MsgTypes, LogGrows
  <1>3. \A i \in DOMAIN log' : i \in DOMAIN log \/ (i = Len(log) + 1 /\ log'[i].time = now)
    <2>1. CASE log' = log
      BY <2>1
    <2>2. ASSUME NEW e \in MsgEvents, log' = Append(log, e), e.time = now
          PROVE \A i \in DOMAIN log' : i \in DOMAIN log \/ (i = Len(log) + 1 /\ log'[i].time = now)
      <3>1. DOMAIN log' = 1..(Len(log) + 1) /\ log'[Len(log) + 1] = e
        BY <2>2, AppendOf DEF MsgTypes
      <3> QED
        BY <1>1, <2>2, <3>1
    <2> QED
      BY <2>1, <2>2 DEF LogGrows
  <1>4. \A i \in DOMAIN log : (IsMessage(i)' <=> IsMessage(i)) /\ (IsKey(i)' <=> IsKey(i))
    BY <1>2 DEF IsMessage, IsKey
  <1>5. \A i \in Messages : i \in Messages'
    BY <1>2, <1>4 DEF Messages
  <1>6. \A i \in Messages' : i \in Messages \/ (i = Len(log) + 1 /\ log'[i].time = now)
    BY <1>3, <1>4 DEF Messages
  <1>7. \A a, k, t : LoggedKey(a, k, t) => LoggedKey(a, k, t)'
    BY <1>2, <1>4 DEF LoggedKey
  <1> QED
    BY <1>1, <1>2, <1>3, <1>5, <1>6, <1>7

\* A message is never wanted that was not: nothing is committed for the time before.
LEMMA MsgWantedBefore ==
    ASSUME MsgTypes, LogGrows,
           \A a \in Accounts : \A r \in keys'[a] :
              (\E q \in keys[a] : q.key = r.key /\ q.born = r.born) \/ r.born = Len(log),
           \A a \in Accounts : status'[a] = "active" => \/ status[a] = "active"
                                                         \/ \A r \in keys'[a] : r.born = Len(log)
    PROVE  \A i \in DOMAIN log : Wanted(i)' => Wanted(i)
  <1> SUFFICES ASSUME NEW i \in DOMAIN log, Wanted(i)'
               PROVE  Wanted(i)
    OBVIOUS
  <1>1. /\ Len(log) \in Nat /\ i \in 1..Len(log) /\ log'[i] = log[i]
        /\ \A j \in DOMAIN log : j \in DOMAIN log' /\ log'[j] = log[j]
    BY MsgGrows
  <1>2. log[i].account \in Accounts
    <2>1. log[i] \in MsgEvents
      BY DEF MsgTypes
    <2> QED
      BY <2>1 DEF MsgEvents
  <1>3. PICK r \in keys'[log[i].account] : r.key = log[i].key /\ r.born < i
    BY <1>1 DEF Wanted
  <1>4. r.born # Len(log)
    BY <1>1, <1>3
  <1>5. \E q \in keys[log[i].account] : q.key = log[i].key /\ q.born < i
    BY <1>2, <1>3, <1>4
  <1>6. status[log[i].account] = "active"
    BY <1>1, <1>2, <1>3, <1>4 DEF Wanted
  <1>7. \A j \in DOMAIN log :
          ~(IsKey(j) /\ log[j].account = log[i].account /\ log[j].key > log[i].key /\ log[j].time <= log[i].time)
    BY <1>1 DEF Wanted, IsKey
  <1> QED
    BY <1>5, <1>6, <1>7 DEF Wanted

\* The index is as good as before: what is appended is later than its last block.
LEMMA MsgIndexKept ==
    ASSUME MsgTypes, MsgLog, MsgIndex, LogGrows, now' \in Nat, now <= now', UNCHANGED <<index, synced>>,
           ix' = ix \/ ix' = Msg!IdleIx,
           \A i \in DOMAIN log : Wanted(i)' => Wanted(i)
    PROVE  MsgIndex'
  <1>1. /\ \A i \in DOMAIN log : i \in DOMAIN log' /\ log'[i] = log[i]
        /\ \A i \in Messages : i \in Messages'
        /\ \A i \in Messages' : i \in Messages \/ log'[i].time = now
    BY MsgGrows
  <1>2. \A i \in Messages : i \in DOMAIN log /\ log'[i] = log[i]
    BY <1>1 DEF Messages
  <1>3. /\ now \in Nat /\ synced \in Nat /\ synced < now /\ synced' < now'
    BY DEF MsgTypes, MsgIndex
  <1>4. \A i \in DOMAIN index' : index'[i] <= 1 /\ (index'[i] > 0 => i \in Messages' /\ log'[i].time <= synced')
    BY <1>1, <1>2 DEF MsgIndex
  <1>5. \A i \in Messages' : log'[i].time <= synced' /\ Wanted(i)' => index'[i] > 0
    BY <1>1, <1>2, <1>3 DEF MsgIndex
  <1>6. CASE ix' = ix
    <2>1. ix.upto \in Nat
      BY DEF MsgTypes, MsgIxs
    <2>2. ix'.pc = "run" => synced' < ix'.upto /\ ix'.upto < now'
      BY <1>3, <1>6, <2>1 DEF MsgIndex
    <2>3. \A i \in ix'.todo \cup ix'.found : /\ ix'.pc = "run" /\ i \in Messages'
                                             /\ synced' < log'[i].time /\ log'[i].time <= ix'.upto
      BY <1>1, <1>2, <1>6 DEF MsgIndex
    <2>4. ix'.pc = "run" =>
            \A i \in Messages' : synced' < log'[i].time /\ log'[i].time <= ix'.upto /\ Wanted(i)'
                                 => i \in ix'.todo \cup ix'.found
      <3> SUFFICES ASSUME ix'.pc = "run", NEW i \in Messages', synced' < log'[i].time, log'[i].time <= ix'.upto, Wanted(i)'
                   PROVE  i \in ix'.todo \cup ix'.found
        OBVIOUS
      <3>1. ix.upto < now
        BY <1>6 DEF MsgIndex
      <3>2. i \in Messages
        BY <1>1, <1>3, <1>6, <2>1, <3>1
      <3> QED
        BY <1>2, <1>6, <3>2 DEF MsgIndex
    <2> QED
      BY <1>3, <1>4, <1>5, <2>2, <2>3, <2>4 DEF MsgIndex
  <1>7. CASE ix' = Msg!IdleIx
    BY <1>3, <1>4, <1>5, <1>7 DEF MsgIndex, Msg!IdleIx
  <1> QED
    BY <1>6, <1>7

\* An event is appended to the log: a key with the next number, or a message.
LEMMA MsgLogKey ==
    ASSUME MsgAssumption, MsgTypes, MsgLog, NEW a \in Accounts, Msg!SetPublicKey(a), used'.keys = used.keys + 1, now' = now
    PROVE  /\ MsgLog' /\ LogGrows /\ log' \in Seq(MsgEvents)
           /\ \A k, t : k = used.keys + 1 /\ t = now => LoggedKey(a, k, t)'
  <1> DEFINE e == [type |-> "key", account |-> a, key |-> used.keys + 1, time |-> now]
             n == Len(log) + 1
  <1>1. used.keys \in Nat /\ now \in Nat /\ used.keys < MaxKeys /\ MaxKeys \in Nat
    BY DEF MsgAssumption, Msg!E2EMessagingAssumption, MsgTypes, Msg!SetPublicKey
  <1>2. e \in MsgEvents /\ e.time = now /\ e.key = used.keys + 1 /\ e.type = "key" /\ e.account = a
    BY <1>1 DEF MsgEvents
  <1>3. log' = Append(log, e)
    BY DEF Msg!SetPublicKey
  <1> HIDE DEF e
  <1>4. LogGrows
    BY <1>2, <1>3 DEF LogGrows
  <1>5. /\ DOMAIN log = 1..Len(log) /\ Len(log) \in Nat /\ log' \in Seq(MsgEvents)
        /\ \A i \in DOMAIN log : log'[i] = log[i]
        /\ log'[n] = e /\ DOMAIN log' = 1..n /\ Len(log') = n
    BY <1>2, <1>3, AppendOf DEF MsgTypes
  <1>6. Messages' = Messages
    <2>1. \A i \in DOMAIN log : IsMessage(i)' <=> IsMessage(i)
      BY <1>5 DEF IsMessage
    <2>2. \A i \in DOMAIN log' : i = n => ~IsMessage(i)'
      BY <1>2, <1>5 DEF IsMessage
    <2>3. \A i \in DOMAIN log' : i \in DOMAIN log \/ i = n
      BY <1>5
    <2>4. \A i \in DOMAIN log : i \in DOMAIN log'
      BY <1>5
    <2> QED
      BY <2>1, <2>2, <2>3, <2>4 DEF Messages
  <1>7. /\ \A i \in DOMAIN log' : (i \in DOMAIN log /\ i < n /\ i \in Int) \/ i = n
        /\ \A i \in DOMAIN log : i \in DOMAIN log' /\ (IsKey(i)' <=> IsKey(i)) /\ log[i].time \in Nat /\ log[i].key \in Nat
        /\ (\A i \in DOMAIN log' : i = n => IsKey(i)') /\ n \in DOMAIN log' /\ ~(n < n)
    <2>1. \A i \in DOMAIN log : log[i] \in MsgEvents
      BY DEF MsgTypes
    <2>2. \A i \in DOMAIN log : log[i].time \in Nat /\ log[i].key \in Nat
      BY <2>1 DEF MsgEvents
    <2> QED
      BY <1>2, <1>5, <2>2 DEF IsKey
  <1>8. \A i, j \in DOMAIN log' : i < j => log'[i].time <= log'[j].time
    BY <1>1, <1>2, <1>5, <1>7 DEF MsgLog
  <1>9. \A i, j \in DOMAIN log' : i < j /\ IsKey(i)' /\ IsKey(j)' => log'[i].key < log'[j].key
    BY <1>1, <1>2, <1>5, <1>7 DEF MsgLog
  <1>10. \A i \in DOMAIN log' : log'[i].time <= now' /\ log'[i].key <= used'.keys
    BY <1>1, <1>2, <1>5, <1>7 DEF MsgLog
  <1>11. \A i \in Messages' : \E j \in DOMAIN log' :
            j < i /\ IsKey(j)' /\ log'[j].account = log'[i].account /\ log'[j].key = log'[i].key
    <2> SUFFICES ASSUME NEW i \in Messages
                 PROVE  \E j \in DOMAIN log' : j < i /\ IsKey(j)' /\ log'[j].account = log'[i].account
                                                        /\ log'[j].key = log'[i].key
      BY <1>6
    <2>1. PICK j \in DOMAIN log : j < i /\ IsKey(j) /\ log[j].account = log[i].account /\ log[j].key = log[i].key
      BY DEF MsgLog
    <2>2. i \in DOMAIN log
      BY DEF Messages
    <2> QED
      BY <1>5, <1>7, <2>1, <2>2
  <1>12. /\ IsFiniteSet(Messages') /\ Len(log') = used'.keys + Cardinality(Messages')
         /\ used'.keys <= MaxKeys /\ Cardinality(Messages') <= MaxMessages
    <2>1. IsFiniteSet(Messages) /\ Len(log) = used.keys + Cardinality(Messages) /\ Cardinality(Messages) <= MaxMessages
      BY DEF MsgLog
    <2>2. Cardinality(Messages) \in Nat
      BY <2>1, FS_CardinalityType
    <2> QED
      BY <1>1, <1>5, <1>6, <2>1, <2>2
  <1>13. MsgLog'
    BY <1>8, <1>9, <1>10, <1>11, <1>12 DEF MsgLog
  <1>14. \A k, t : k = used.keys + 1 /\ t = now => LoggedKey(a, k, t)'
    BY <1>2, <1>5, <1>7 DEF LoggedKey
  <1> QED
    BY <1>4, <1>5, <1>13, <1>14

LEMMA MsgLogMessage ==
    ASSUME MsgAssumption, MsgTypes, MsgLog, NEW a \in Accounts, Msg!SendMessage(a)
    PROVE  MsgLog' /\ LogGrows /\ log' \in Seq(MsgEvents)
  <1> DEFINE n == Len(log) + 1
  <1>1. PICK i \in DOMAIN log : /\ Msg!Is(i, "key", a)
                                /\ log' = Append(log, [type |-> "message", account |-> a, key |-> log[i].key, time |-> now])
    BY DEF Msg!SendMessage
  <1> DEFINE e == [type |-> "message", account |-> a, key |-> log[i].key, time |-> now]
  <1>2. used.keys \in Nat /\ now \in Nat /\ now' = now /\ used' = used /\ MaxMessages \in Nat
    BY DEF MsgAssumption, Msg!E2EMessagingAssumption, MsgTypes, Msg!SendMessage, Msg!vars
  <1>3. /\ \A j \in DOMAIN log : log[j].time \in Nat /\ log[j].key \in Nat
        /\ IsKey(i) /\ log[i].account = a
    <2>1. \A j \in DOMAIN log : log[j] \in MsgEvents
      BY DEF MsgTypes
    <2> QED
      BY <1>1, <2>1 DEF MsgEvents, Msg!Is, IsKey
  <1>4. e \in MsgEvents /\ e.time = now /\ e.key = log[i].key /\ e.type = "message" /\ e.account = a
    BY <1>2, <1>3 DEF MsgEvents
  <1>5. log' = Append(log, e)
    BY <1>1
  <1> HIDE DEF e
  <1>6. LogGrows
    BY <1>4, <1>5 DEF LogGrows
  <1>7. /\ DOMAIN log = 1..Len(log) /\ Len(log) \in Nat /\ log' \in Seq(MsgEvents)
        /\ \A j \in DOMAIN log : log'[j] = log[j]
        /\ log'[n] = e /\ DOMAIN log' = 1..n /\ Len(log') = n
    BY <1>4, <1>5, AppendOf DEF MsgTypes
  <1>8. /\ \A j \in DOMAIN log' : (j \in DOMAIN log /\ j < n) \/ j = n
        /\ \A j \in DOMAIN log : /\ j \in DOMAIN log' /\ (IsKey(j)' <=> IsKey(j)) /\ (IsMessage(j)' <=> IsMessage(j))
                                 /\ j < n /\ j # n
        /\ \A j \in DOMAIN log' : j = n => ~IsKey(j)' /\ IsMessage(j)'
        /\ n \in DOMAIN log' /\ ~(n < n)
    BY <1>4, <1>7 DEF IsKey, IsMessage
  <1>9. Messages' = Messages \cup {n} /\ n \notin Messages
    <2>1. \A j \in DOMAIN log' : j \in DOMAIN log \/ j = n
      BY <1>8
    <2> QED
      BY <1>8, <2>1 DEF Messages
  <1>10. \A j, k \in DOMAIN log' : j < k => log'[j].time <= log'[k].time
    BY <1>2, <1>4, <1>7, <1>8 DEF MsgLog
  <1>11. \A j, k \in DOMAIN log' : j < k /\ IsKey(j)' /\ IsKey(k)' => log'[j].key < log'[k].key
    BY <1>7, <1>8 DEF MsgLog
  <1>12. \A j \in DOMAIN log' : log'[j].time <= now' /\ log'[j].key <= used'.keys
    BY <1>2, <1>4, <1>7, <1>8 DEF MsgLog
  <1>13. \A k \in Messages' : \E j \in DOMAIN log' :
            j < k /\ IsKey(j)' /\ log'[j].account = log'[k].account /\ log'[j].key = log'[k].key
    <2> SUFFICES ASSUME NEW k \in Messages'
                 PROVE  \E j \in DOMAIN log' : j < k /\ IsKey(j)' /\ log'[j].account = log'[k].account
                                                        /\ log'[j].key = log'[k].key
      OBVIOUS
    <2>1. CASE k = n
      BY <1>3, <1>4, <1>7, <1>8, <2>1
    <2>2. CASE k \in Messages
      <3>1. PICK j \in DOMAIN log : j < k /\ IsKey(j) /\ log[j].account = log[k].account /\ log[j].key = log[k].key
        BY <2>2 DEF MsgLog
      <3>2. k \in DOMAIN log
        BY <2>2 DEF Messages
      <3> QED
        BY <1>7, <1>8, <3>1, <3>2
    <2> QED
      BY <1>9, <2>1, <2>2
  <1>14. /\ IsFiniteSet(Messages') /\ Len(log') = used'.keys + Cardinality(Messages')
         /\ used'.keys <= MaxKeys /\ Cardinality(Messages') <= MaxMessages
    <2>1. /\ IsFiniteSet(Messages) /\ Len(log) = used.keys + Cardinality(Messages)
          /\ used.keys <= MaxKeys
      BY DEF MsgLog
    <2>2. Cardinality(Messages) \in Nat
      BY <2>1, FS_CardinalityType
    <2>3. IsFiniteSet(Messages') /\ Cardinality(Messages') = Cardinality(Messages) + 1
      <3>1. /\ IsFiniteSet(Messages \cup {n})
            /\ Cardinality(Messages \cup {n}) = Cardinality(Messages) + 1
        BY <1>9, <2>1, FS_AddElement
      <3> QED
        BY <1>9, <3>1
    <2>4. Cardinality(Messages) < MaxMessages
      <3>0. {j \in DOMAIN log : log[j].type = "message"} = Messages
        BY DEF Messages, IsMessage
      <3>1. Msg!MessagesSent = Cardinality(Messages)
        BY <3>0, MsgSets, Zenon DEF Msg!MessagesSent
      <3> QED
        BY <3>1 DEF Msg!SendMessage
    <2>5. \A c, m \in Nat : m = c + 1 /\ c < MaxMessages => m <= MaxMessages
      BY <1>2
    <2>6. \A c, m \in Nat : m = c + 1 /\ Len(log) = used.keys + c => n = used.keys + m
      <3>1. \A l, u, c, m \in Nat : m = c + 1 /\ l = u + c => l + 1 = u + m
        OBVIOUS
      <3>2. Len(log) \in Nat
        BY <1>7
      <3> QED
        BY <1>2, <3>1, <3>2
    <2>7. Cardinality(Messages') \in Nat
      BY <2>3, FS_CardinalityType
    <2>8. Cardinality(Messages') <= MaxMessages
      BY <2>2, <2>3, <2>4, <2>5, <2>7
    <2>9. Len(log') = used'.keys + Cardinality(Messages')
      <3>1. n = used.keys + Cardinality(Messages')
        BY <2>1, <2>2, <2>3, <2>6, <2>7
      <3> QED
        BY <1>2, <1>7, <3>1
    <2> QED
      BY <1>2, <2>1, <2>3, <2>8, <2>9
  <1> QED
    BY <1>6, <1>7, <1>10, <1>11, <1>12, <1>13, <1>14 DEF MsgLog

LEMMA MsgLogSame ==
    ASSUME MsgTypes, MsgLog, log' = log, used'.keys = used.keys, now' \in Nat, now <= now'
    PROVE  MsgLog' /\ LogGrows
  <1>1. Messages' = Messages /\ \A i \in DOMAIN log : IsKey(i)' <=> IsKey(i)
    BY DEF Messages, IsMessage, IsKey
  <1>2. \A i \in DOMAIN log : log[i].time \in Nat
    <2>1. \A i \in DOMAIN log : log[i] \in MsgEvents
      BY DEF MsgTypes
    <2> QED
      BY <2>1 DEF MsgEvents
  <1>3. now \in Nat
    BY DEF MsgTypes
  <1>4. \A i \in DOMAIN log' : log'[i].time <= now' /\ log'[i].key <= used'.keys
    BY <1>2, <1>3 DEF MsgLog
  <1> QED
    BY <1>1, <1>4 DEF MsgLog, LogGrows

-----------------------------------------------------------------------------
(* E2E messages: what the steps keep.                                      *)

\* A key is published for an account that is new, or whose key is renewed.
LEMMA MsgPublishKeeps ==
    ASSUME MsgAssumption, MsgInv, MsgPublish
    PROVE  MsgInv'
  <1> USE DEF MsgInv
  <1>1. /\ UNCHANGED <<status, keys, index, synced, ix>> /\ now' = now
        /\ now \in Nat /\ used.keys \in Nat /\ used.faults \in Nat
    BY DEF MsgPublish, Msg!CreateAccount, Msg!AutoGenerateRsaKey, Msg!AutoGenerateFails, Msg!SetPublicKey, Msg!api,
           MsgTypes
  <1>2. \/ log' = log /\ used'.keys = used.keys /\ used' \in [keys : Nat, faults : Nat] /\ opening' = opening
           /\ rot' = [rot EXCEPT !.pc = "commit"] /\ rot.pc = "send"
        \/ \E a \in Accounts :
              /\ Msg!SetPublicKey(a) /\ used'.keys = used.keys + 1 /\ used' \in [keys : Nat, faults : Nat]
              /\ \/ rot' = rot /\ opening' = opening \cup {[account |-> a, key |-> used.keys + 1, time |-> now]}
                 \/ /\ rot.account = a /\ opening' = opening /\ rot.pc = "send"
                    /\ rot' \in {[rot EXCEPT !.pc = "commit"],
                                 [rot EXCEPT !.pc = "commit", !.key = used.keys + 1, !.time = now]}
    <2>1. CASE \E a \in Accounts : Msg!CreateAccount(a)
      BY <1>1, <2>1 DEF Msg!CreateAccount, MsgTypes
    <2>2. rot.pc = "send" => rot.account \in Accounts
      BY DEF MsgTypes
    <2>3. CASE Msg!AutoGenerateRsaKey
      BY <1>1, <2>2, <2>3 DEF Msg!AutoGenerateRsaKey, MsgTypes
    <2>4. CASE Msg!AutoGenerateFails
      BY <1>1, <2>2, <2>4 DEF Msg!AutoGenerateFails, MsgTypes
    <2> QED
      BY <2>1, <2>3, <2>4 DEF MsgPublish
  <1>3. /\ MsgLog' /\ LogGrows /\ log' \in Seq(MsgEvents)
    <2>1. CASE log' = log /\ used'.keys = used.keys
      BY <1>1, <2>1, MsgLogSame DEF MsgTypes
    <2>2. CASE \E a \in Accounts : Msg!SetPublicKey(a) /\ used'.keys = used.keys + 1
      BY <1>1, <2>2, MsgLogKey
    <2> QED
      BY <1>2, <2>1, <2>2
  <1>4. MsgTypes'
    <2>1. used' \in [keys : Nat, faults : Nat]
      BY <1>2
    <2>2. opening' \subseteq MsgOpenings
      BY <1>1, <1>2 DEF MsgTypes, MsgOpenings
    <2>3. rot' \in MsgRots /\ (rot'.pc \in {"send", "commit"} => rot'.account \in Accounts)
      BY <1>1, <1>2 DEF MsgTypes, MsgRots
    <2> QED
      BY <1>1, <1>3, <2>1, <2>2, <2>3 DEF MsgTypes
  <1>5. MsgKeys'
    <2>1. \A a, k, t : LoggedKey(a, k, t) => LoggedKey(a, k, t)'
      BY <1>3, MsgGrows
    <2>2. \A a \in Accounts : \A r \in keys'[a] : LoggedKey(a, r.key, r.time)'
      <3>1. \A a \in Accounts : \A r \in keys[a] : \A k, t : k = r.key /\ t = r.time => LoggedKey(a, k, t)'
        BY <2>1 DEF MsgKeys
      <3> QED
        BY <1>1, <3>1
    <2>3. \A o \in opening : \A a, k, t : a = o.account /\ k = o.key /\ t = o.time => LoggedKey(a, k, t)'
      BY <2>1 DEF MsgKeys
    <2>4. ASSUME NEW o \in opening' PROVE LoggedKey(o.account, o.key, o.time)'
      <3>1. CASE o \in opening
        BY <2>3, <3>1
      <3>2. CASE o \notin opening
        <4>1. PICK a \in Accounts : /\ Msg!SetPublicKey(a) /\ used'.keys = used.keys + 1
                                    /\ o = [account |-> a, key |-> used.keys + 1, time |-> now]
          BY <1>2, <2>4, <3>2
        <4>2. \A k, t : k = used.keys + 1 /\ t = now => LoggedKey(a, k, t)'
          BY <1>1, <4>1, MsgLogKey
        <4>3. o.account = a /\ o.key = used.keys + 1 /\ o.time = now
          BY <4>1
        <4> QED
          BY <4>2, <4>3
      <3> QED
        BY <3>1, <3>2
    <2>5. /\ rot'.pc = "send" => rot'.key = 0
          /\ rot'.pc = "commit" /\ rot'.key # 0 => LoggedKey(rot.account, rot.key, rot.time)'
      <3>1. rot \in MsgRots
        BY DEF MsgTypes
      <3>2. CASE rot' = rot
        <4>1. rot.pc = "commit" /\ rot.key # 0 =>
                \A a, k, t : a = rot.account /\ k = rot.key /\ t = rot.time => LoggedKey(a, k, t)'
          BY <2>1 DEF MsgKeys
        <4> QED
          BY <3>2, <4>1 DEF MsgKeys
      <3>3. CASE rot' = [rot EXCEPT !.pc = "commit"] /\ rot.pc = "send"
        <4>1. rot.key = 0
          BY <3>3 DEF MsgKeys
        <4> QED
          BY <3>1, <3>3, <4>1 DEF MsgRots
      <3>4. ASSUME NEW a \in Accounts, Msg!SetPublicKey(a), used'.keys = used.keys + 1, rot.account = a,
                   rot' = [rot EXCEPT !.pc = "commit", !.key = used.keys + 1, !.time = now]
            PROVE  /\ rot'.pc = "send" => rot'.key = 0
                   /\ rot'.pc = "commit" /\ rot'.key # 0 => LoggedKey(rot.account, rot.key, rot.time)'
        <4>1. \A k, t : k = used.keys + 1 /\ t = now => LoggedKey(a, k, t)'
          BY <1>1, <3>4, MsgLogKey
        <4>2. rot'.account = a /\ rot'.key = used.keys + 1 /\ rot'.time = now /\ rot'.pc = "commit"
          BY <3>1, <3>4 DEF MsgRots
        <4> QED
          BY <4>1, <4>2
      <3> QED
        BY <1>2, <3>2, <3>3, <3>4
    <2> QED
      BY <2>2, <2>4, <2>5 DEF MsgKeys
  <1>6. MsgIndex'
    <2>1. \A i \in DOMAIN log : Wanted(i)' => Wanted(i)
      BY <1>1, <1>3, MsgWantedBefore
    <2> QED
      BY <1>1, <1>3, <2>1, MsgIndexKept
  <1> QED
    BY <1>3, <1>4, <1>5, <1>6

\* Accounts and keys are committed or removed: a row that is new is later than the log.
LEMMA MsgCommitRows ==
    ASSUME MsgAssumption, MsgInv, MsgCommit
    PROVE  /\ keys' \in [Accounts -> SUBSET MsgRows]
           /\ \A a \in Accounts : \A r \in keys'[a] :
                 /\ LoggedKey(a, r.key, r.time)
                 /\ (\E q \in keys[a] : q.key = r.key /\ q.born = r.born) \/ r.born = Len(log)
           /\ status' \in [Accounts -> {"absent", "active", "deleted"}]
           /\ \A a \in Accounts : status'[a] = "active" => status[a] = "active" \/ \A r \in keys'[a] : r.born = Len(log)
  <1> USE DEF MsgInv
  <1>1. /\ keys \in [Accounts -> SUBSET MsgRows] /\ status \in [Accounts -> {"absent", "active", "deleted"}]
        /\ FirstPassphrase \in Passphrases /\ Len(log) \in Nat
    BY DEF MsgTypes, MsgAssumption, Msg!E2EMessagingAssumption
  <1> DEFINE Kept(a, r) == \/ \E q \in keys[a] : q.key = r.key /\ q.time = r.time /\ q.born = r.born
                           \/ r.born = Len(log) /\ LoggedKey(a, r.key, r.time)
  <1>2. ASSUME NEW b \in Accounts, NEW K \in SUBSET MsgRows, keys' = [keys EXCEPT ![b] = K],
               \A r \in K : Kept(b, r),
               status' \in [Accounts -> {"absent", "active", "deleted"}],
               \A a \in Accounts : status'[a] = "active" => status[a] = "active" \/ (a = b /\ \A r \in K : r.born = Len(log))
        PROVE  /\ keys' \in [Accounts -> SUBSET MsgRows]
               /\ \A a \in Accounts : \A r \in keys'[a] :
                     /\ LoggedKey(a, r.key, r.time)
                     /\ (\E q \in keys[a] : q.key = r.key /\ q.born = r.born) \/ r.born = Len(log)
               /\ status' \in [Accounts -> {"absent", "active", "deleted"}]
               /\ \A a \in Accounts : status'[a] = "active" => status[a] = "active" \/ \A r \in keys'[a] : r.born = Len(log)
    <2>1. \A a \in Accounts : keys'[a] = IF a = b THEN K ELSE keys[a]
      BY <1>1, <1>2
    <2>2. \A a \in Accounts : \A r \in keys'[a] : Kept(a, r)
      BY <1>2, <2>1
    <2>3. \A a \in Accounts : \A q \in keys[a] : \A r : r.key = q.key /\ r.time = q.time => LoggedKey(a, r.key, r.time)
      BY DEF MsgKeys
    <2>4. \A a \in Accounts : \A r \in keys'[a] :
             /\ LoggedKey(a, r.key, r.time)
             /\ (\E q \in keys[a] : q.key = r.key /\ q.born = r.born) \/ r.born = Len(log)
      BY <2>2, <2>3
    <2>5. keys' \in [Accounts -> SUBSET MsgRows]
      BY <1>1, <1>2
    <2> QED
      BY <1>2, <2>1, <2>4, <2>5
  <1>3. ASSUME NEW i \in Intervals, NEW g \in Generations, Msg!RegisterAccount(i, g)
        PROVE  \E b \in Accounts, K \in SUBSET MsgRows :
                 /\ keys' = [keys EXCEPT ![b] = K] /\ \A r \in K : Kept(b, r)
                 /\ status' \in [Accounts -> {"absent", "active", "deleted"}]
                 /\ \A a \in Accounts : status'[a] = "active" => status[a] = "active" \/ (a = b /\ \A r \in K : r.born = Len(log))
    <2>1. PICK o \in opening : /\ status' = [status EXCEPT ![o.account] = "active"]
                               /\ keys' = [keys EXCEPT ![o.account] = {Msg!Row(o.key, o.time, FirstPassphrase)}]
      BY <1>3 DEF Msg!RegisterAccount
    <2>2. o.account \in Accounts /\ o.key \in Nat /\ o.time \in Nat
      <3>1. o \in MsgOpenings
        BY DEF MsgTypes
      <3> QED
        BY <3>1 DEF MsgOpenings
    <2> DEFINE r == Msg!Row(o.key, o.time, FirstPassphrase)
    <2>3. r \in MsgRows /\ r.key = o.key /\ r.time = o.time /\ r.born = Len(log)
      BY <1>1, <2>2 DEF Msg!Row, MsgRows
    <2>4. Kept(o.account, r)
      BY <2>3 DEF MsgKeys
    <2> HIDE DEF r, Kept
    <2>5. {r} \in SUBSET MsgRows /\ keys' = [keys EXCEPT ![o.account] = {r}] /\ \A q \in {r} : Kept(o.account, q)
      BY <2>1, <2>3, <2>4 DEF r
    <2>6. /\ status' \in [Accounts -> {"absent", "active", "deleted"}]
          /\ \A a \in Accounts : status'[a] = "active" => status[a] = "active" \/ (a = o.account /\ \A q \in {r} : q.born = Len(log))
      BY <1>1, <2>1, <2>2, <2>3
    <2> QED
      BY <2>2, <2>5, <2>6
  <1>4. ASSUME NEW b \in Accounts, Msg!DeleteAccount(b)
        PROVE  /\ keys' = [keys EXCEPT ![b] = {}] /\ status' = [status EXCEPT ![b] = "deleted"]
    BY <1>4 DEF Msg!DeleteAccount
  <1>5. ASSUME NEW b \in Accounts, NEW p \in Passphrases, Msg!ChangeRsaPassphrase(b, p)
        PROVE  /\ status' = status
               /\ \E K \in SUBSET MsgRows : keys' = [keys EXCEPT ![b] = K] /\ \A r \in K : Kept(b, r)
    <2>1. PICK r \in keys[b] : keys' = [keys EXCEPT ![b] = (keys[b] \ {r}) \cup {[r EXCEPT !.passphrase = p]}]
      BY <1>1, <1>5 DEF Msg!ChangeRsaPassphrase, Msg!Newest
    <2> DEFINE s == [r EXCEPT !.passphrase = p]
               K == (keys[b] \ {r}) \cup {s}
    <2>2. r \in MsgRows
      BY <1>1
    <2>3. s \in MsgRows /\ s.key = r.key /\ s.time = r.time /\ s.born = r.born
      BY <2>2 DEF MsgRows
    <2> HIDE DEF s
    <2>4. K \in SUBSET MsgRows
      BY <1>1, <2>3
    <2>5. \A q \in K : Kept(b, q)
      BY <2>3
    <2>6. keys' = [keys EXCEPT ![b] = K]
      BY <2>1 DEF s
    <2>7. status' = status
      BY <1>5 DEF Msg!ChangeRsaPassphrase, Msg!api
    <2> HIDE DEF K, Kept
    <2> QED
      BY <2>4, <2>5, <2>6, <2>7
  <1>6. ASSUME Msg!RotateRsaKey
        PROVE  /\ status' = status
               /\ \E b \in Accounts, K \in SUBSET MsgRows : keys' = [keys EXCEPT ![b] = K] /\ \A r \in K : Kept(b, r)
    <2> DEFINE b == rot.account
               n == Msg!Row(rot.key, rot.time, rot.passphrase)
               all == keys[b] \cup (IF rot.key = 0 THEN {} ELSE {n})
               K == all \ Msg!Exceeding(b, all)
    <2>1. keys' = [keys EXCEPT ![b] = K] /\ status' = status /\ rot.pc = "commit"
      BY <1>6 DEF Msg!RotateRsaKey, Msg!api
    <2>2. b \in Accounts /\ rot \in MsgRots
      BY <2>1 DEF MsgTypes
    <2>3. n \in MsgRows /\ n.key = rot.key /\ n.time = rot.time /\ n.born = Len(log)
      BY <1>1, <2>2 DEF Msg!Row, MsgRows, MsgRots
    <2>4. rot.key # 0 => Kept(b, n)
      BY <2>1, <2>3 DEF MsgKeys
    <2>5. \A q \in keys[b] : Kept(b, q)
      OBVIOUS
    <2> HIDE DEF n, Kept
    <2>6. all \in SUBSET MsgRows
      BY <1>1, <2>2, <2>3
    <2>7. \A q \in all : Kept(b, q)
      BY <2>4, <2>5
    <2>8. K \in SUBSET MsgRows /\ \A q \in K : Kept(b, q)
      BY <2>6, <2>7
    <2> HIDE DEF K
    <2> QED
      BY <2>1, <2>2, <2>8
  <1> HIDE DEF Kept, MsgInv
  <1>7. CASE \E i \in Intervals, g \in Generations : Msg!RegisterAccount(i, g)
    <2>1. PICK b \in Accounts, K \in SUBSET MsgRows :
                 /\ keys' = [keys EXCEPT ![b] = K] /\ \A r \in K : Kept(b, r)
                 /\ status' \in [Accounts -> {"absent", "active", "deleted"}]
                 /\ \A a \in Accounts : status'[a] = "active" => status[a] = "active" \/ (a = b /\ \A r \in K : r.born = Len(log))
      BY <1>3, <1>7
    <2> QED
      BY <1>2, <2>1
  <1>8. CASE \E b \in Accounts : Msg!DeleteAccount(b)
    <2>1. PICK b \in Accounts : keys' = [keys EXCEPT ![b] = {}] /\ status' = [status EXCEPT ![b] = "deleted"]
      BY <1>4, <1>8
    <2>2. /\ status' \in [Accounts -> {"absent", "active", "deleted"}]
          /\ \A a \in Accounts : status'[a] = "active" => status[a] = "active"
      BY <1>1, <2>1
    <2>3. {} \in SUBSET MsgRows /\ \A r \in {} : Kept(b, r)
      OBVIOUS
    <2> QED
      BY <1>2, <2>1, <2>2, <2>3
  <1>9. ASSUME NEW b \in Accounts, NEW K \in SUBSET MsgRows, status' = status, keys' = [keys EXCEPT ![b] = K],
               \A r \in K : Kept(b, r)
        PROVE  /\ keys' \in [Accounts -> SUBSET MsgRows]
               /\ \A a \in Accounts : \A r \in keys'[a] :
                     /\ LoggedKey(a, r.key, r.time)
                     /\ (\E q \in keys[a] : q.key = r.key /\ q.born = r.born) \/ r.born = Len(log)
               /\ status' \in [Accounts -> {"absent", "active", "deleted"}]
               /\ \A a \in Accounts : status'[a] = "active" => status[a] = "active" \/ \A r \in keys'[a] : r.born = Len(log)
    <2>1. /\ status' \in [Accounts -> {"absent", "active", "deleted"}]
          /\ \A a \in Accounts : status'[a] = "active" => status[a] = "active"
      BY <1>1, <1>9
    <2> QED
      BY <1>2, <1>9, <2>1
  <1>10. CASE \E b \in Accounts, p \in Passphrases : Msg!ChangeRsaPassphrase(b, p)
    BY <1>5, <1>9, <1>10
  <1>11. CASE Msg!RotateRsaKey
    BY <1>6, <1>9, <1>11
  <1> QED
    BY <1>7, <1>8, <1>10, <1>11 DEF MsgCommit

\* Steps that leave the log, its time and the index alone.
LEMMA MsgSameLog ==
    ASSUME MsgTypes, MsgLog, UNCHANGED <<log, now>>, used'.keys = used.keys
    PROVE  MsgLog' /\ LogGrows /\ \A a, k, t : LoggedKey(a, k, t) => LoggedKey(a, k, t)'
  <1>1. MsgLog' /\ LogGrows
    BY MsgLogSame DEF MsgTypes
  <1> QED
    BY <1>1, MsgGrows

LEMMA MsgCommitKeeps ==
    ASSUME MsgAssumption, MsgInv, MsgCommit
    PROVE  MsgInv'
  <1> USE DEF MsgInv
  <1>1. /\ keys' \in [Accounts -> SUBSET MsgRows]
        /\ \A a \in Accounts : \A r \in keys'[a] :
              /\ LoggedKey(a, r.key, r.time)
              /\ (\E q \in keys[a] : q.key = r.key /\ q.born = r.born) \/ r.born = Len(log)
        /\ status' \in [Accounts -> {"absent", "active", "deleted"}]
        /\ \A a \in Accounts : status'[a] = "active" => status[a] = "active" \/ \A r \in keys'[a] : r.born = Len(log)
    BY MsgCommitRows
  <1>2. /\ UNCHANGED <<log, now, index, synced, ix, used>> /\ opening' \subseteq opening
        /\ rot' = rot \/ rot' = [Msg!IdleRot EXCEPT !.pc = "next", !.base = rot.base, !.list = rot.list \ {rot.account}]
    BY DEF MsgCommit, Msg!RegisterAccount, Msg!DeleteAccount, Msg!ChangeRsaPassphrase, Msg!RotateRsaKey, Msg!api
  <1>3. MsgLog' /\ LogGrows /\ \A a, k, t : LoggedKey(a, k, t) => LoggedKey(a, k, t)'
    BY <1>2, MsgSameLog
  <1>4. /\ rot' \in MsgRots /\ (rot'.pc \in {"send", "commit"} => rot'.account \in Accounts)
        /\ rot' = rot \/ rot'.pc = "next"
    <2>1. rot \in MsgRots /\ (rot.pc \in {"send", "commit"} => rot.account \in Accounts) /\ FirstPassphrase \in Passphrases
      BY DEF MsgTypes, MsgAssumption, Msg!E2EMessagingAssumption
    <2>2. CASE rot' = rot
      BY <2>1, <2>2
    <2>3. CASE rot' = [Msg!IdleRot EXCEPT !.pc = "next", !.base = rot.base, !.list = rot.list \ {rot.account}]
      <3>1. rot.list \ {rot.account} \in SUBSET Accounts /\ rot.base \in Nat
        BY <2>1 DEF MsgRots
      <3>2. rot' \in MsgRots /\ rot'.pc = "next"
        BY <2>1, <2>3, <3>1 DEF MsgRots, Msg!IdleRot
      <3> QED
        BY <3>2
    <2> QED
      BY <1>2, <2>2, <2>3
  <1>5. MsgTypes'
    BY <1>1, <1>2, <1>4 DEF MsgTypes
  <1>6. MsgKeys'
    <2>1. \A a \in Accounts : \A r \in keys'[a] : \A k, t : k = r.key /\ t = r.time => LoggedKey(a, k, t)'
      BY <1>1, <1>3
    <2>2. \A o \in opening' : \A a, k, t : a = o.account /\ k = o.key /\ t = o.time => LoggedKey(a, k, t)'
      BY <1>2, <1>3 DEF MsgKeys
    <2>3. rot.pc = "commit" /\ rot.key # 0 =>
             \A a, k, t : a = rot.account /\ k = rot.key /\ t = rot.time => LoggedKey(a, k, t)'
      BY <1>3 DEF MsgKeys
    <2> QED
      BY <1>4, <2>1, <2>2, <2>3 DEF MsgKeys
  <1>7. MsgIndex'
    <2>1. \A i \in DOMAIN log : Wanted(i)' => Wanted(i)
      BY <1>1, <1>3, MsgWantedBefore
    <2>2. now' \in Nat /\ now <= now'
      BY <1>2 DEF MsgTypes
    <2> QED
      BY <1>2, <1>3, <2>1, <2>2, MsgIndexKept
  <1> QED
    BY <1>3, <1>5, <1>6, <1>7

LEMMA MsgOtherKeeps ==
    ASSUME MsgAssumption, MsgInv, MsgOther
    PROVE  MsgInv'
  <1> USE DEF MsgInv
  <1>1. /\ UNCHANGED <<status, keys, log, index, synced>> /\ opening' \subseteq opening /\ used'.keys = used.keys
        /\ used' \in [keys : Nat, faults : Nat] /\ now' \in Nat /\ now <= now' /\ (ix' = ix \/ ix' = Msg!IdleIx)
    <2>1. now \in Nat /\ used \in [keys : Nat, faults : Nat]
      BY DEF MsgTypes
    <2>2. CASE \E a \in Accounts, i \in Intervals, g \in Generations : Msg!UpdateRsaKey(a, i, g)
      BY <2>1, <2>2 DEF Msg!UpdateRsaKey
    <2>3. CASE Msg!Tick
      BY <2>1, <2>3 DEF Msg!Tick, Msg!api
    <2>4. CASE Msg!GetAccountList \/ Msg!EndOfList \/ Msg!GetLatestKey
      <3>1. UNCHANGED <<status, keys, log, index, synced, opening, used, now, ix>>
        BY <2>4, Zenon DEF Msg!GetAccountList, Msg!EndOfList, Msg!GetLatestKey, Msg!api
      <3> QED
        BY <2>1, <3>1
    <2>5. CASE Msg!Crash
      BY <2>1, <2>5 DEF Msg!Crash, Msg!api
    <2> QED
      BY <2>2, <2>3, <2>4, <2>5 DEF MsgOther
  <1>2. /\ rot' \in MsgRots /\ (rot'.pc \in {"send", "commit"} => rot'.account \in Accounts)
        /\ rot' = rot \/ (rot'.pc \in {"send", "commit"} => rot'.key = 0)
    <2>1. /\ rot \in MsgRots /\ (rot.pc \in {"send", "commit"} => rot.account \in Accounts)
          /\ FirstPassphrase \in Passphrases /\ now \in Nat /\ keys \in [Accounts -> SUBSET MsgRows]
      BY DEF MsgTypes, MsgAssumption, Msg!E2EMessagingAssumption
    <2>2. Msg!IdleRot \in MsgRots /\ Msg!IdleRot.pc = "idle"
      BY <2>1 DEF Msg!IdleRot, MsgRots
    <2>3. CASE rot' = rot
      BY <2>1, <2>3
    <2>4. CASE rot' = Msg!IdleRot
      BY <2>2, <2>4
    <2>5. CASE Msg!GetAccountList
      <3>1. rot' = [Msg!IdleRot EXCEPT !.pc = "next", !.list = {a \in Accounts : status[a] = "active"}, !.base = now]
        BY <2>5 DEF Msg!GetAccountList
      <3>2. {a \in Accounts : status[a] = "active"} \in SUBSET Accounts
        OBVIOUS
      <3>3. rot' \in MsgRots /\ rot'.pc = "next"
        BY <2>1, <3>1, <3>2 DEF Msg!IdleRot, MsgRots
      <3> QED
        BY <3>3
    <2>6. ASSUME Msg!GetLatestKey, rot' # Msg!IdleRot
          PROVE  \E a \in Accounts, p \in Passphrases, c \in {"send", "commit"} :
                    \/ rot' = [rot EXCEPT !.pc = c, !.account = a, !.key = 0]
                    \/ rot' = [rot EXCEPT !.account = a, !.passphrase = p, !.key = 0, !.pc = c]
      <3>1. PICK a \in rot.list :
              IF interval[a] = 0
              THEN rot' = [rot EXCEPT !.pc = "commit", !.account = a, !.key = 0]
              ELSE \E r \in Msg!Newest(keys[a]) :
                     rot' = [rot EXCEPT !.account = a, !.passphrase = r.passphrase, !.key = 0,
                               !.pc = IF rot.base - r.time < interval[a] THEN "commit" ELSE "send"]
        BY <2>6 DEF Msg!GetLatestKey
      <3>2. a \in Accounts
        BY <2>1 DEF MsgRots
      <3>3. CASE interval[a] = 0
        BY <2>1, <3>1, <3>2, <3>3
      <3>4. CASE interval[a] # 0
        <4>1. PICK r \in Msg!Newest(keys[a]) :
                     rot' = [rot EXCEPT !.account = a, !.passphrase = r.passphrase, !.key = 0,
                               !.pc = IF rot.base - r.time < interval[a] THEN "commit" ELSE "send"]
          BY <3>1, <3>4
        <4>2. r.passphrase \in Passphrases
          <5>1. r \in MsgRows
            BY <2>1, <3>2 DEF Msg!Newest
          <5> QED
            BY <5>1 DEF MsgRows
        <4>3. (IF rot.base - r.time < interval[a] THEN "commit" ELSE "send") \in {"send", "commit"}
          OBVIOUS
        <4> DEFINE c == IF rot.base - r.time < interval[a] THEN "commit" ELSE "send"
        <4>4. c \in {"send", "commit"} /\ rot' = [rot EXCEPT !.account = a, !.passphrase = r.passphrase, !.key = 0, !.pc = c]
          BY <4>1, <4>3
        <4> HIDE DEF c
        <4> QED
          BY <3>2, <4>2, <4>4
      <3> QED
        BY <3>3, <3>4
    <2>7. CASE Msg!GetLatestKey /\ rot' # Msg!IdleRot
      <3>1. PICK a \in Accounts, p \in Passphrases, c \in {"send", "commit"} :
                    \/ rot' = [rot EXCEPT !.pc = c, !.account = a, !.key = 0]
                    \/ rot' = [rot EXCEPT !.account = a, !.passphrase = p, !.key = 0, !.pc = c]
        BY <2>6, <2>7
      <3>2. /\ a \in Accounts \cup {"none"} /\ c \in {"idle", "next", "send", "commit"} /\ 0 \in Nat
        OBVIOUS
      <3>3. CASE rot' = [rot EXCEPT !.pc = c, !.account = a, !.key = 0]
        <4>1. rot' \in MsgRots /\ rot'.account = a /\ rot'.key = 0
          BY <2>1, <3>2, <3>3 DEF MsgRots
        <4> QED
          BY <4>1
      <3>4. CASE rot' = [rot EXCEPT !.account = a, !.passphrase = p, !.key = 0, !.pc = c]
        <4>1. rot' \in MsgRots /\ rot'.account = a /\ rot'.key = 0
          BY <2>1, <3>2, <3>4 DEF MsgRots
        <4> QED
          BY <4>1
      <3> QED
        BY <3>1, <3>3, <3>4
    <2>8. \/ rot' = rot \/ rot' = Msg!IdleRot \/ Msg!GetAccountList \/ Msg!GetLatestKey
      BY DEF MsgOther, Msg!UpdateRsaKey, Msg!Tick, Msg!EndOfList, Msg!Crash
    <2> QED
      BY <2>3, <2>4, <2>5, <2>7, <2>8
  <1>3. MsgLog' /\ LogGrows /\ \A a, k, t : LoggedKey(a, k, t) => LoggedKey(a, k, t)'
    <2>1. MsgLog' /\ LogGrows
      BY <1>1, MsgLogSame
    <2> QED
      BY <2>1, MsgGrows
  <1>4. MsgTypes'
    <2>1. ix' \in MsgIxs
      BY <1>1 DEF MsgTypes, MsgIxs, Msg!IdleIx
    <2> QED
      BY <1>1, <1>2, <2>1 DEF MsgTypes
  <1>5. MsgKeys'
    <2>1. \A a \in Accounts : \A r \in keys'[a] : \A k, t : k = r.key /\ t = r.time => LoggedKey(a, k, t)'
      BY <1>1, <1>3 DEF MsgKeys
    <2>2. \A o \in opening' : \A a, k, t : a = o.account /\ k = o.key /\ t = o.time => LoggedKey(a, k, t)'
      BY <1>1, <1>3 DEF MsgKeys
    <2>3. rot.pc = "commit" /\ rot.key # 0 =>
             \A a, k, t : a = rot.account /\ k = rot.key /\ t = rot.time => LoggedKey(a, k, t)'
      BY <1>3 DEF MsgKeys
    <2> QED
      BY <1>2, <2>1, <2>2, <2>3 DEF MsgKeys
  <1>6. MsgIndex'
    <2>1. \A i \in DOMAIN log : Wanted(i)' => Wanted(i)
      BY <1>1, <1>3, MsgWantedBefore
    <2> QED
      BY <1>1, <1>3, <2>1, MsgIndexKept
  <1> QED
    BY <1>3, <1>4, <1>5, <1>6

LEMMA MsgSendKeeps ==
    ASSUME MsgAssumption, MsgInv, NEW b \in Accounts, Msg!SendMessage(b)
    PROVE  MsgInv'
  <1> USE DEF MsgInv
  <1>1. MsgLog' /\ LogGrows /\ log' \in Seq(MsgEvents)
    BY MsgLogMessage
  <1>2. UNCHANGED <<status, keys, now, index, synced, opening, rot, ix, used>>
    BY DEF Msg!SendMessage, Msg!api
  <1>3. MsgTypes'
    BY <1>1, <1>2 DEF MsgTypes
  <1>4. MsgKeys'
    <2>1. \A a, k, t : LoggedKey(a, k, t) => LoggedKey(a, k, t)'
      BY <1>1, MsgGrows
    <2>2. /\ \A a \in Accounts : \A r \in keys[a] : \A k, t : k = r.key /\ t = r.time => LoggedKey(a, k, t)'
          /\ \A o \in opening : \A a, k, t : a = o.account /\ k = o.key /\ t = o.time => LoggedKey(a, k, t)'
          /\ rot.pc = "commit" /\ rot.key # 0 =>
                \A a, k, t : a = rot.account /\ k = rot.key /\ t = rot.time => LoggedKey(a, k, t)'
      BY <2>1 DEF MsgKeys
    <2> QED
      BY <1>2, <2>2 DEF MsgKeys
  <1>5. MsgIndex'
    <2>1. \A i \in DOMAIN log : Wanted(i)' => Wanted(i)
      BY <1>1, <1>2, MsgWantedBefore
    <2>2. now' \in Nat /\ now <= now'
      BY <1>2 DEF MsgTypes
    <2> QED
      BY <1>1, <1>2, <2>1, <2>2, MsgIndexKept
  <1> QED
    BY <1>1, <1>3, <1>4, <1>5

-----------------------------------------------------------------------------
(* E2E messages: the indexer.                                              *)

\* There is room in the index for every event.
LEMMA MsgRoom ==
    ASSUME MsgAssumption, MsgTypes, MsgLog
    PROVE  /\ \A i \in DOMAIN log : i \in DOMAIN index /\ index[i] \in Nat
           /\ \A i \in Messages : i \in DOMAIN log /\ i \in Nat /\ log[i].time \in Nat
  <1>1. MaxKeys \in Nat /\ MaxMessages \in Nat /\ used.keys \in Nat
    BY DEF MsgAssumption, Msg!E2EMessagingAssumption, MsgTypes
  <1>2. DOMAIN log = 1..Len(log) /\ Len(log) \in Nat /\ \A i \in DOMAIN log : log[i] \in MsgEvents
    BY DEF MsgTypes
  <1>3. Cardinality(Messages) \in Nat
    BY FS_CardinalityType DEF MsgLog
  <1>4. Len(log) <= MaxKeys + MaxMessages
    <2>1. \A k, c \in Nat : k <= MaxKeys /\ c <= MaxMessages => k + c <= MaxKeys + MaxMessages
      BY <1>1
    <2>2. used.keys <= MaxKeys /\ Cardinality(Messages) <= MaxMessages /\ Len(log) = used.keys + Cardinality(Messages)
      BY DEF MsgLog
    <2>3. used.keys + Cardinality(Messages) <= MaxKeys + MaxMessages
      BY <1>1, <1>3, <2>1, <2>2
    <2> QED
      BY <2>2, <2>3
  <1>5. \A i \in DOMAIN log : i \in 1..(MaxKeys + MaxMessages)
    BY <1>1, <1>2, <1>4
  <1>6. \A i \in DOMAIN log : i \in DOMAIN index /\ index[i] \in Nat
    BY <1>5 DEF MsgTypes
  <1>7. \A i \in Messages : i \in DOMAIN log /\ i \in Nat /\ log[i].time \in Nat
    BY <1>2 DEF Messages, MsgEvents
  <1> QED
    BY <1>6, <1>7

\* What the steps of the indexer leave alone.
LEMMA MsgIndexerKeeps ==
    ASSUME MsgTypes, MsgLog, MsgKeys, UNCHANGED <<status, keys, log, now, opening, rot, used>>,
           synced' \in Nat, index' \in [1..(MaxKeys + MaxMessages) -> Nat], ix' \in MsgIxs
    PROVE  /\ MsgTypes' /\ MsgLog' /\ MsgKeys' /\ Messages' = Messages
           /\ \A i : Wanted(i)' <=> Wanted(i)
  <1>1. MsgLog' /\ LogGrows /\ \A a, k, t : LoggedKey(a, k, t) => LoggedKey(a, k, t)'
    BY MsgSameLog
  <1>2. MsgTypes'
    BY DEF MsgTypes
  <1>3. MsgKeys'
    BY DEF MsgKeys, LoggedKey, IsKey
  <1>4. Messages' = Messages /\ \A i : Wanted(i)' <=> Wanted(i)
    BY DEF Messages, IsMessage, Wanted, IsKey
  <1> QED
    BY <1>1, <1>2, <1>3, <1>4

LEMMA MsgSyncAllKeeps ==
    ASSUME MsgAssumption, MsgInv, Msg!SyncAll
    PROVE  MsgInv'
  <1> USE DEF MsgInv
  <1> DEFINE todo == {i \in DOMAIN log : log[i].type = "message" /\ synced < log[i].time /\ log[i].time < now}
  <1>1. /\ ix.pc = "idle" /\ synced < now - 1 /\ now \in Nat /\ synced \in Nat
        /\ ix' = [ix EXCEPT !.pc = "run", !.upto = now - 1, !.todo = todo]
        /\ UNCHANGED <<status, keys, log, now, opening, rot, used, synced, index>>
    BY DEF Msg!SyncAll, Msg!api, MsgTypes
  <1>2. \A i \in todo : i \in Messages /\ i \in Nat /\ synced < log[i].time /\ log[i].time <= now - 1
    <2>1. \A i \in todo : i \in Messages
      BY DEF Messages, IsMessage
    <2> QED
      BY <1>1, <2>1, MsgRoom
  <1>3. \A i \in Messages : synced < log[i].time /\ log[i].time <= now - 1 => i \in todo
    BY <1>1, MsgRoom DEF Messages, IsMessage
  <1> HIDE DEF todo
  <1>4. ix \in MsgIxs /\ ix.found = {}
    BY <1>1 DEF MsgTypes, MsgIndex
  <1>5. ix' \in MsgIxs /\ ix'.pc = "run" /\ ix'.upto = now - 1 /\ ix'.todo = todo /\ ix'.found = {}
    <2>1. now - 1 \in Nat
      BY <1>1
    <2>2. todo \in SUBSET Nat
      BY <1>2
    <2> QED
      BY <1>1, <1>4, <2>1, <2>2 DEF MsgIxs
  <1>6. synced' \in Nat /\ index' \in [1..(MaxKeys + MaxMessages) -> Nat]
    BY <1>1 DEF MsgTypes
  <1>7. MsgTypes' /\ MsgLog' /\ MsgKeys' /\ Messages' = Messages /\ \A i : Wanted(i)' <=> Wanted(i)
    BY <1>1, <1>5, <1>6, MsgIndexerKeeps
  <1>8. MsgIndex'
    <2>1. synced' < now' /\ synced' < ix'.upto /\ ix'.upto < now'
      BY <1>1, <1>5
    <2>2. \A i \in ix'.todo \cup ix'.found : i \in Messages' /\ synced' < log'[i].time /\ log'[i].time <= ix'.upto
      BY <1>1, <1>2, <1>5, <1>7
    <2>3. \A i \in Messages' : synced' < log'[i].time /\ log'[i].time <= ix'.upto => i \in ix'.todo
      BY <1>1, <1>3, <1>5, <1>7
    <2>4. \A i \in DOMAIN index' : index'[i] <= 1 /\ (index'[i] > 0 => i \in Messages' /\ log'[i].time <= synced')
      BY <1>1, <1>7 DEF MsgIndex
    <2>5. \A i \in Messages' : log'[i].time <= synced' /\ Wanted(i)' => index'[i] > 0
      BY <1>1, <1>7 DEF MsgIndex
    <2> QED
      BY <1>5, <2>1, <2>2, <2>3, <2>4, <2>5 DEF MsgIndex
  <1> QED
    BY <1>7, <1>8

\* A message that is wanted is not passed over.
LEMMA MsgSyncMessageKeeps ==
    ASSUME MsgAssumption, MsgInv, Msg!SyncMessage
    PROVE  MsgInv'
  <1> USE DEF MsgInv
  <1>1. PICK i \in ix.todo : ix' = [ix EXCEPT !.todo = ix.todo \ {i},
                                              !.found = IF Msg!Readable(i) THEN ix.found \cup {i} ELSE ix.found]
    BY DEF Msg!SyncMessage, MsgTypes, MsgIxs
  <1>2. UNCHANGED <<status, keys, log, now, opening, rot, used, synced, index>> /\ ix.pc = "run" /\ ix \in MsgIxs
    BY DEF Msg!SyncMessage, Msg!api, MsgTypes
  <1>3. ix.todo \subseteq Nat /\ ix.found \subseteq Nat
    BY <1>2 DEF MsgIxs
  <1> DEFINE found == IF Msg!Readable(i) THEN ix.found \cup {i} ELSE ix.found
  <1>4. found \subseteq Nat /\ found \subseteq ix.found \cup {i} /\ ix.found \subseteq found
        /\ (Msg!Readable(i) => i \in found)
    BY <1>3
  <1>5. ix' = [ix EXCEPT !.todo = ix.todo \ {i}, !.found = found]
    BY <1>1
  <1> HIDE DEF found
  <1>6. ix' \in MsgIxs /\ ix'.pc = "run" /\ ix'.upto = ix.upto /\ ix'.todo = ix.todo \ {i} /\ ix'.found = found
    BY <1>2, <1>3, <1>4, <1>5 DEF MsgIxs
  <1>7. synced' \in Nat /\ index' \in [1..(MaxKeys + MaxMessages) -> Nat]
    BY <1>2 DEF MsgTypes
  <1>8. MsgTypes' /\ MsgLog' /\ MsgKeys' /\ Messages' = Messages /\ \A j : Wanted(j)' <=> Wanted(j)
    BY <1>2, <1>6, <1>7, MsgIndexerKeeps
  <1>9. MsgIndex'
    <2>1. synced' < now' /\ synced' < ix'.upto /\ ix'.upto < now'
      BY <1>2, <1>6 DEF MsgIndex
    <2>2. \A j \in ix'.todo \cup ix'.found : i \in ix.todo /\ j \in ix.todo \cup ix.found
      BY <1>4, <1>6
    <2>3. \A j \in ix'.todo \cup ix'.found : j \in Messages' /\ synced' < log'[j].time /\ log'[j].time <= ix'.upto
      BY <1>2, <1>6, <1>8, <2>2 DEF MsgIndex
    <2>4. Wanted(i) => i \in found
      <3>1. i \in Messages
        BY DEF MsgIndex
      <3> QED
        BY <1>4, <3>1, MsgWanted
    <2>5. \A j \in Messages' : synced' < log'[j].time /\ log'[j].time <= ix'.upto /\ Wanted(j)' => j \in ix'.todo \cup ix'.found
      <3>1. \A j \in Messages : synced < log[j].time /\ log[j].time <= ix.upto /\ Wanted(j) => j \in ix.todo \cup ix.found
        BY <1>2 DEF MsgIndex
      <3> QED
        BY <1>2, <1>4, <1>6, <1>8, <2>4, <3>1
    <2>6. \A j \in DOMAIN index' : index'[j] <= 1 /\ (index'[j] > 0 => j \in Messages' /\ log'[j].time <= synced')
      BY <1>2, <1>8 DEF MsgIndex
    <2>7. \A j \in Messages' : log'[j].time <= synced' /\ Wanted(j)' => index'[j] > 0
      BY <1>2, <1>8 DEF MsgIndex
    <2> QED
      BY <1>6, <2>1, <2>3, <2>5, <2>6, <2>7 DEF MsgIndex
  <1> QED
    BY <1>8, <1>9

\* What is found is counted once.
LEMMA MsgSetBlockNumberKeeps ==
    ASSUME MsgAssumption, MsgInv, Msg!SetBlockNumber
    PROVE  MsgInv'
  <1> USE DEF MsgInv
  <1>1. /\ ix.pc = "run" /\ ix.todo = {} /\ ix' = Msg!IdleIx /\ synced' = ix.upto
        /\ index' = [i \in DOMAIN index |-> index[i] + (IF i \in ix.found THEN 1 ELSE 0)]
        /\ UNCHANGED <<status, keys, log, now, opening, rot, used>>
    BY DEF Msg!SetBlockNumber, Msg!api
  <1>2. /\ ix.upto \in Nat /\ now \in Nat /\ synced \in Nat
        /\ DOMAIN index = 1..(MaxKeys + MaxMessages) /\ \A i \in DOMAIN index : index[i] \in Nat
    BY DEF MsgTypes, MsgIxs
  <1>3. synced < ix.upto /\ ix.upto < now
    BY <1>1 DEF MsgIndex
  <1>4. /\ DOMAIN index' = DOMAIN index
        /\ \A i \in DOMAIN index : index'[i] = IF i \in ix.found THEN index[i] + 1 ELSE index[i]
    BY <1>1, <1>2
  <1>5. /\ synced' \in Nat /\ index' \in [1..(MaxKeys + MaxMessages) -> Nat] /\ ix' \in MsgIxs
        /\ ix'.todo = {} /\ ix'.found = {} /\ ix'.pc = "idle"
    <2>1. ix' \in MsgIxs /\ ix'.todo = {} /\ ix'.found = {} /\ ix'.pc = "idle"
      BY <1>1 DEF MsgIxs, Msg!IdleIx
    <2>2. \A i \in DOMAIN index : index[i] + (IF i \in ix.found THEN 1 ELSE 0) \in Nat
      BY <1>2
    <2> QED
      BY <1>1, <1>2, <2>1, <2>2
  <1>6. MsgTypes' /\ MsgLog' /\ MsgKeys' /\ Messages' = Messages /\ \A i : Wanted(i)' <=> Wanted(i)
    BY <1>1, <1>5, MsgIndexerKeeps
  <1>7. \A i \in Messages : i \in DOMAIN index /\ index[i] \in Nat /\ log[i].time \in Nat
    BY MsgRoom
  <1>8. \A i \in ix.found : i \in Messages /\ synced < log[i].time /\ log[i].time <= ix.upto /\ index[i] = 0
    <2>1. \A i \in ix.found : i \in Messages /\ synced < log[i].time /\ log[i].time <= ix.upto
      BY DEF MsgIndex
    <2>2. \A i \in Messages : index[i] > 0 => log[i].time <= synced
      BY <1>7 DEF MsgIndex
    <2> QED
      BY <1>2, <1>7, <2>1, <2>2
  <1>9. MsgIndex'
    <2>1. synced' < now'
      BY <1>1, <1>3
    <2>2. \A i \in DOMAIN index' : index'[i] <= 1 /\ (index'[i] > 0 => i \in Messages' /\ log'[i].time <= synced')
      <3>1. \A i \in DOMAIN index : index[i] <= 1 /\ (index[i] > 0 => i \in Messages /\ log[i].time <= synced)
        BY DEF MsgIndex
      <3>2. \A i \in Messages : log[i].time <= synced => log[i].time <= ix.upto
        BY <1>2, <1>3, <1>7
      <3> QED
        BY <1>1, <1>4, <1>6, <1>8, <3>1, <3>2
    <2>3. \A i \in Messages' : log'[i].time <= synced' /\ Wanted(i)' => index'[i] > 0
      <3> SUFFICES ASSUME NEW i \in Messages, log[i].time <= ix.upto, Wanted(i)
                   PROVE  index'[i] > 0
        BY <1>1, <1>6
      <3>1. CASE log[i].time <= synced
        <4>1. index[i] > 0
          BY <3>1 DEF MsgIndex
        <4> QED
          BY <1>4, <1>7, <4>1
      <3>2. CASE ~(log[i].time <= synced)
        <4>1. synced < log[i].time
          BY <1>2, <1>7, <3>2
        <4>2. i \in ix.found
          BY <1>1, <4>1 DEF MsgIndex
        <4> QED
          BY <1>4, <1>7, <4>2
      <3> QED
        BY <3>1, <3>2
    <2> QED
      BY <1>5, <2>1, <2>2, <2>3 DEF MsgIndex
  <1> QED
    BY <1>6, <1>9

LEMMA MsgPreserved ==
    ASSUME MsgAssumption, MsgInv, [Msg!Next]_Msg!vars
    PROVE  MsgInv'
  <1>1. CASE UNCHANGED Msg!vars
    <2>1. UNCHANGED <<status, keys, log, now, index, synced, opening, rot, ix, used>>
      BY <1>1 DEF Msg!vars, Msg!api
    <2>2. MsgTypes' /\ MsgLog' /\ MsgKeys' /\ Messages' = Messages /\ \A i : Wanted(i)' <=> Wanted(i)
      <3>1. synced' \in Nat /\ index' \in [1..(MaxKeys + MaxMessages) -> Nat] /\ ix' \in MsgIxs
        BY <2>1 DEF MsgInv, MsgTypes
      <3> QED
        BY <2>1, <3>1, MsgIndexerKeeps DEF MsgInv
    <2>3. MsgIndex'
      BY <2>1, <2>2 DEF MsgInv, MsgIndex
    <2> QED
      BY <2>2, <2>3 DEF MsgInv
  <1>2. CASE Msg!Next
    <2>1. MsgPublish \/ MsgCommit \/ MsgOther => MsgInv'
      BY MsgPublishKeeps, MsgCommitKeeps, MsgOtherKeeps
    <2>2. (\E a \in Accounts : Msg!SendMessage(a)) => MsgInv'
      BY MsgSendKeeps
    <2>3. Msg!SyncAll \/ Msg!SyncMessage \/ Msg!SetBlockNumber => MsgInv'
      BY MsgSyncAllKeeps, MsgSyncMessageKeeps, MsgSetBlockNumberKeeps
    <2>4. \/ MsgPublish \/ MsgCommit \/ MsgOther \/ (\E a \in Accounts : Msg!SendMessage(a))
          \/ Msg!SyncAll \/ Msg!SyncMessage \/ Msg!SetBlockNumber
      BY <1>2, MsgSteps
    <2> QED
      BY <2>1, <2>2, <2>3, <2>4
  <1> QED
    BY <1>1, <1>2

LEMMA MsgInvariant ==
    ASSUME MsgAssumption
    PROVE  Msg!Spec => []MsgInv
  <1>1. Msg!Init => MsgInv
    BY MsgInitially
  <1>2. MsgInv /\ [Msg!Next]_Msg!vars => MsgInv'
    BY MsgPreserved
  <1> QED
    BY <1>1, <1>2, PTL DEF Msg!Spec

LEMMA MsgRead ==
    ASSUME MsgAssumption, MsgInv
    PROVE  Msg!MessageIsRead
  <1> SUFFICES ASSUME NEW i \in DOMAIN log
               PROVE  /\ index[i] <= 1
                      /\ LET a == log[i].account
                             later == {j \in DOMAIN log : /\ Msg!Is(j, "key", a) /\ log[j].key > log[i].key
                                                          /\ log[j].time <= log[i].time}
                         IN  /\ log[i].type = "message" /\ log[i].time <= synced /\ status[a] = "active" /\ later = {}
                             /\ \E r \in keys[a] : r.key = log[i].key /\ r.born < i
                             => i \in Msg!ListAllMessages
    BY DEF Msg!MessageIsRead
  <1>1. i \in DOMAIN index
    BY MsgRoom DEF MsgInv
  <1>2. index[i] <= 1
    BY <1>1 DEF MsgInv, MsgIndex
  <1> DEFINE a == log[i].account
             later == {j \in DOMAIN log : /\ Msg!Is(j, "key", a) /\ log[j].key > log[i].key
                                          /\ log[j].time <= log[i].time}
  <1>3. ASSUME log[i].type = "message", log[i].time <= synced, status[a] = "active", later = {},
               \E r \in keys[a] : r.key = log[i].key /\ r.born < i
        PROVE  i \in Msg!ListAllMessages
    <2>1. i \in Messages
      BY <1>3 DEF Messages, IsMessage
    <2>2. \A j \in DOMAIN log : ~(IsKey(j) /\ log[j].account = a /\ log[j].key > log[i].key /\ log[j].time <= log[i].time)
      BY <1>3 DEF Msg!Is, IsKey
    <2>3. Wanted(i)
      BY <1>3, <2>2 DEF Wanted
    <2>4. index[i] > 0
      BY <1>3, <2>1, <2>3 DEF MsgInv, MsgIndex
    <2> QED
      BY <1>1, <2>4 DEF Msg!ListAllMessages
  <1>4. log[i].type = "message" /\ log[i].time <= synced /\ status[a] = "active" /\ later = {}
           /\ (\E r \in keys[a] : r.key = log[i].key /\ r.born < i)
           => i \in Msg!ListAllMessages
    BY <1>3
  <1> QED
    BY <1>2, <1>4, Zenon

\* A message that was sent with the newest key of its time, when that key was committed and is
\* still there, is shown once the index has its block, and shown once
\* (batch/indexer_e2e_messaging.py).
THEOREM MessagesRead == MsgAssumption => (Msg!Spec => []Msg!MessageIsRead)
  <1> SUFFICES ASSUME MsgAssumption PROVE Msg!Spec => []Msg!MessageIsRead
    OBVIOUS
  <1>1. MsgInv => Msg!MessageIsRead
    BY MsgRead
  <1> QED
    BY <1>1, MsgInvariant, PTL

-----------------------------------------------------------------------------
(* Personal information: the invariant.                                    *)

InfoPhrases == Passphrases \cup {"none"}
InfoPems == [key : Nat, passphrase : InfoPhrases, n : Nat]
InfoAccounts == [pem : InfoPems, pub : Nat, passphrase : InfoPhrases,
                 status : {"unset", "creating", "changing", "set"}]
InfoTemps == [pem : InfoPems, passphrase : InfoPhrases]
InfoRecords == [key : Nat, value : Nat]
InfoEvents == [type : {"Register", "Modify"}, holder : Holders, contract : Contracts]
InfoFlights == [holder : Holders, key : Nat, value : Nat, contract : Contracts]
InfoIxs == [pc : {"idle", "range", "run"}, key : Nat, contract : Contracts, todo : SUBSET Nat, upto : Nat]
InfoMods == [pc : {"idle", "run", "send"}, rows : SUBSET Holders, listed : SUBSET Holders, complete : BOOLEAN,
             value : Nat, holder : Holders \cup {"none"}, contract : Contracts]
InfoPasts == [keys : Nat, writes : Nat, changes : Nat, faults : Nat, late : SUBSET (Contracts \X Holders),
              blind : SUBSET Holders, crashed : BOOLEAN]

InfoTypes ==
    /\ account \in InfoAccounts /\ temp \in InfoTemps /\ contract \in Contracts
    /\ record \in [Contracts -> [Holders -> InfoRecords]] /\ events \in Seq(InfoEvents)
    /\ synced \in Nat /\ flight \subseteq InfoFlights
    /\ ix \in InfoIxs /\ mod \in InfoMods /\ past \in InfoPasts

\* A token that keeps its contract has no event of another one.
InfoContracts ==
    ~ContractChanges =>
       /\ contract = FirstContract /\ ix.contract = FirstContract /\ mod.contract = FirstContract
       /\ \A r \in flight : r.contract = FirstContract
       /\ \A i \in DOMAIN events : events[i].contract = FirstContract

\* Rows of an event in the history.
RowsIn(i) == IF i \in DOMAIN history THEN history[i] ELSE 0

\* What the indexer has handled is in the history: what is up to the block reached, and in a
\* pass what is in its range and not on its list any more; once, unless it failed.
InfoHistory ==
    /\ synced <= Len(events) /\ DOMAIN history \subseteq DOMAIN events
    /\ \A i \in DOMAIN events : RowsIn(i) \in Nat
    /\ ix.pc = "run" => /\ synced <= ix.upto /\ ix.upto <= Len(events)
                        /\ \A i \in ix.todo : synced < i /\ i <= ix.upto
    /\ ~ContractChanges => \A i \in DOMAIN events :
          i <= synced \/ (ix.pc = "run" /\ i <= ix.upto /\ i \notin ix.todo) => RowsIn(i) >= 1
    /\ ~past.crashed => \A i \in DOMAIN events :
          IF i <= synced \/ (ix.pc = "run" /\ i <= ix.upto /\ i \notin ix.todo) THEN RowsIn(i) <= 1 ELSE RowsIn(i) = 0

\* A former key is kept exactly while the key of the account is changed; a number tells
\* every way a key was written from those before.
InfoKeys ==
    /\ account.pub = account.pem.key
    /\ temp # Info!NoTemp <=> account.status = "changing"
    /\ account.status \in {"changing", "set"} => account.pem.key # 0
    /\ account.status # "unset" => past.keys # 0
    /\ account.pem.n <= past.changes /\ temp.pem.n <= past.changes

\* What a row that a pass has done with may still be encrypted with.
Renewed(h) ==
    \/ <<mod.contract, h>> \in past.late
    \/ record[mod.contract][h].key # temp.pem.key
    \/ account.pem.key = temp.pem.key

\* A pass is one of a key that was generated, and what it has done with, and found to need
\* nothing, is not encrypted with the former key.
InfoPass ==
    mod.pc # "idle" =>
       /\ account.status = "changing" /\ account.pem # temp.pem /\ mod.rows \subseteq mod.listed
       /\ mod.pc = "send" => mod.holder \in Holders /\ ~mod.complete
       /\ mod.complete => \A h \in mod.listed \ mod.rows : Renewed(h)

InfoInv == InfoTypes /\ InfoContracts /\ InfoHistory /\ InfoKeys /\ InfoPass
InfoAssumption == Info!PersonalInfoAssumption

LEMMA InfoInitially ==
    ASSUME InfoAssumption, Info!Init
    PROVE  InfoInv
  <1> USE DEF InfoAssumption, Info!PersonalInfoAssumption
  <1>1. /\ account = [pem |-> Info!NoPem, pub |-> 0, passphrase |-> "none", status |-> "unset"]
        /\ temp = Info!NoTemp /\ contract = FirstContract /\ events = <<>> /\ history = <<>>
        /\ record = [c \in Contracts |-> [h \in Holders |-> Info!Empty]] /\ synced = 0 /\ flight = {}
        /\ ix = Info!IdleIx /\ mod = Info!IdleMod
        /\ past = [keys |-> 0, writes |-> 0, changes |-> 0, faults |-> 0, late |-> {}, blind |-> {}, crashed |-> FALSE]
    BY DEF Info!Init
  <1>2. InfoTypes
    <2>1. Info!NoPem \in InfoPems
      BY DEF Info!NoPem, InfoPems, InfoPhrases
    <2>2. account \in InfoAccounts
      BY <1>1, <2>1 DEF InfoAccounts, InfoPhrases
    <2>3. temp \in InfoTemps
      BY <1>1, <2>1 DEF InfoTemps, InfoPhrases, Info!NoTemp
    <2>4. record \in [Contracts -> [Holders -> InfoRecords]]
      BY <1>1 DEF InfoRecords, Info!Empty
    <2>5. ix \in InfoIxs /\ mod \in InfoMods
      BY <1>1 DEF InfoIxs, InfoMods, Info!IdleIx, Info!IdleMod
    <2>6. past \in InfoPasts
      BY <1>1 DEF InfoPasts
    <2> QED
      BY <1>1, <2>2, <2>3, <2>4, <2>5, <2>6 DEF InfoTypes
  <1>3. InfoContracts
    BY <1>1 DEF InfoContracts, Info!IdleIx, Info!IdleMod
  <1>4. InfoHistory
    BY <1>1 DEF InfoHistory, RowsIn, Info!IdleIx
  <1>5. InfoKeys
    BY <1>1 DEF InfoKeys, Info!NoTemp, Info!NoPem
  <1>6. InfoPass
    BY <1>1 DEF InfoPass, Info!IdleMod
  <1> QED
    BY <1>2, <1>3, <1>4, <1>5, <1>6 DEF InfoInv

\* The actions; the two requests to register are one.
LEMMA InfoSteps ==
    ASSUME Info!Next
    PROVE  \/ \E p \in Passphrases : Info!CreateIssuerRsaKey(p) \/ Info!ChangeIssuerRsaPassphrase(p)
           \/ \E h \in Holders : Info!RegisterPersonalInfo(h) \/ Info!RegisterOffChain(h)
           \/ Info!GenerateRsaKey \/ Info!RegisterInfo \/ Info!RegisterInfoFails \/ Info!SetContract
           \/ Info!RefreshPersonalInfoList \/ Info!SyncRange \/ Info!SinkOnPersonalInfo \/ Info!SetBlockNumber
           \/ Info!IndexerFails \/ Info!GetTemporaryList \/ Info!ModifyPersonalInfo \/ Info!ModifyInfo
           \/ Info!SinkOnAccount \/ Info!ModifyFails
  BY DEF Info!Next, Info!Indexer, Info!Modifier, Info!RegisterBondTokenHolderPersonalInfo,
     Info!RegisterShareTokenHolderPersonalInfo

\* What a transaction of a contract changes.
LEMMA Written ==
    ASSUME InfoTypes, NEW type \in {"Register", "Modify"}, NEW c \in Contracts, NEW h \in Holders,
           NEW key \in Nat, NEW value \in Nat, Info!Write(type, c, h, key, value)
    PROVE  /\ record' \in [Contracts -> [Holders -> InfoRecords]] /\ record'[c][h].key = key
           /\ \A d \in Contracts, g \in Holders : d # c \/ g # h => record'[d][g] = record[d][g]
           /\ events' \in Seq(InfoEvents) /\ Len(events) \in Nat /\ Len(events') = Len(events) + 1
           /\ DOMAIN events = 1..Len(events) /\ DOMAIN events' = 1..Len(events) + 1
           /\ events'[Len(events) + 1].contract = c
           /\ \A i \in DOMAIN events : events'[i] = events[i]
  <1> DEFINE r == [key |-> key, value |-> value]
             e == [type |-> type, holder |-> h, contract |-> c]
  <1>1. record' = [record EXCEPT ![c][h] = r] /\ events' = Append(events, e)
    BY DEF Info!Write
  <1>2. r \in InfoRecords /\ r.key = key /\ e \in InfoEvents /\ e.contract = c
    BY DEF InfoRecords, InfoEvents
  <1> HIDE DEF r, e
  <1>3. record \in [Contracts -> [Holders -> InfoRecords]] /\ events \in Seq(InfoEvents)
    BY DEF InfoTypes
  <1>4. /\ record' \in [Contracts -> [Holders -> InfoRecords]] /\ record'[c][h] = r
        /\ \A d \in Contracts, g \in Holders : d # c \/ g # h => record'[d][g] = record[d][g]
    BY <1>1, <1>2, <1>3
  <1>5. /\ events' \in Seq(InfoEvents) /\ Len(events) \in Nat /\ Len(events') = Len(events) + 1
        /\ DOMAIN events = 1..Len(events) /\ DOMAIN events' = 1..Len(events) + 1
        /\ events'[Len(events) + 1] = e
        /\ \A i \in DOMAIN events : events'[i] = events[i]
    BY <1>1, <1>2, <1>3
  <1> QED
    BY <1>2, <1>4, <1>5

LEMMA InfoTypesNext ==
    ASSUME InfoAssumption, InfoInv, [Info!Next]_Info!vars
    PROVE  InfoTypes'
  <1> USE DEF Info!db, Info!chain
  <1>0. /\ account \in InfoAccounts /\ temp \in InfoTemps /\ contract \in Contracts /\ synced \in Nat
        /\ flight \subseteq InfoFlights /\ ix \in InfoIxs /\ mod \in InfoMods /\ past \in InfoPasts
        /\ InfoTypes
    BY DEF InfoInv, InfoTypes
  <1>1. ASSUME NEW p \in Passphrases, Info!CreateIssuerRsaKey(p) PROVE InfoTypes'
    <2>1. account' \in InfoAccounts
      BY <1>0, <1>1 DEF Info!CreateIssuerRsaKey, InfoAccounts, InfoPhrases
    <2>2. temp' \in InfoTemps
      BY <1>0, <1>1 DEF Info!CreateIssuerRsaKey, InfoAccounts, InfoTemps
    <2>3. past' \in InfoPasts
      BY <1>0, <1>1 DEF Info!CreateIssuerRsaKey, InfoPasts
    <2> QED
      BY <1>0, <1>1, <2>1, <2>2, <2>3 DEF Info!CreateIssuerRsaKey, InfoTypes
  <1>2. ASSUME NEW p \in Passphrases, Info!ChangeIssuerRsaPassphrase(p) PROVE InfoTypes'
    <2>1. [account.pem EXCEPT !.passphrase = p, !.n = past.changes + 1] \in InfoPems
      <3>1. account.pem \in InfoPems /\ past.changes + 1 \in Nat /\ p \in InfoPhrases
        BY <1>0 DEF InfoAccounts, InfoPasts, InfoPhrases
      <3> QED
        BY <3>1 DEF InfoPems
    <2>2. account' \in InfoAccounts
      BY <1>0, <1>2, <2>1 DEF Info!ChangeIssuerRsaPassphrase, InfoAccounts, InfoPhrases
    <2>3. past' \in InfoPasts
      BY <1>0, <1>2 DEF Info!ChangeIssuerRsaPassphrase, InfoPasts
    <2> QED
      BY <1>0, <1>2, <2>2, <2>3 DEF Info!ChangeIssuerRsaPassphrase, InfoTypes
  <1>3. CASE Info!GenerateRsaKey
    <2>1. [key |-> past.keys, passphrase |-> account.passphrase, n |-> 0] \in InfoPems
      BY <1>0 DEF InfoPems, InfoAccounts, InfoPasts, InfoPhrases
    <2>2. account' \in InfoAccounts
      BY <1>0, <1>3, <2>1 DEF Info!GenerateRsaKey, InfoAccounts, InfoPasts
    <2> QED
      BY <1>0, <1>3, <2>2 DEF Info!GenerateRsaKey, InfoTypes
  <1>4. ASSUME NEW h \in Holders, Info!RegisterPersonalInfo(h) PROVE InfoTypes'
    <2>1. [holder |-> h, key |-> account.pub, value |-> past.writes + 1, contract |-> contract] \in InfoFlights
      BY <1>0 DEF InfoFlights, InfoAccounts, InfoPasts
    <2>2. past' \in InfoPasts
      BY <1>0, <1>4 DEF Info!RegisterPersonalInfo, InfoPasts
    <2> QED
      BY <1>0, <1>4, <2>1, <2>2 DEF Info!RegisterPersonalInfo, InfoTypes
  <1>5. ASSUME NEW h \in Holders, Info!RegisterOffChain(h) PROVE InfoTypes'
    <2>1. past' \in InfoPasts
      BY <1>0, <1>5 DEF Info!RegisterOffChain, InfoPasts
    <2> QED
      BY <1>0, <1>5, <2>1 DEF Info!RegisterOffChain, InfoTypes
  <1>6. CASE Info!RegisterInfo
    <2>1. PICK r \in flight :
             /\ flight' = flight \ {r} /\ Info!Write("Register", r.contract, r.holder, r.key, r.value)
             /\ past' = [past EXCEPT !.late = IF r.key # account.pub THEN @ \cup {<<r.contract, r.holder>>}
                                                              ELSE @ \ {<<r.contract, r.holder>>}]
             /\ UNCHANGED <<account, temp, synced, contract, ix, mod>>
      BY <1>6 DEF Info!RegisterInfo
    <2>2. r.contract \in Contracts /\ r.holder \in Holders /\ r.key \in Nat /\ r.value \in Nat
      BY <1>0, <2>1 DEF InfoFlights
    <2>3. past' \in InfoPasts
      BY <1>0, <2>1, <2>2 DEF InfoPasts
    <2>4. record' \in [Contracts -> [Holders -> InfoRecords]] /\ events' \in Seq(InfoEvents)
      BY <1>0, <2>1, <2>2, Written
    <2> QED
      BY <1>0, <2>1, <2>3, <2>4 DEF InfoTypes
  <1>7. CASE Info!RegisterInfoFails
    <2>1. past' \in InfoPasts
      BY <1>0, <1>7 DEF Info!RegisterInfoFails, InfoPasts
    <2> QED
      BY <1>0, <1>7, <2>1 DEF Info!RegisterInfoFails, InfoTypes
  <1>8. CASE Info!SetContract
    BY <1>0, <1>8 DEF Info!SetContract, InfoTypes
  <1>9. CASE Info!RefreshPersonalInfoList
    <2>1. Info!Opened \in Nat
      BY <1>0 DEF Info!Opened, InfoAccounts, InfoPems
    <2>2. ix' \in InfoIxs
      BY <1>0, <1>9, <2>1 DEF Info!RefreshPersonalInfoList, InfoIxs
    <2> QED
      BY <1>0, <1>9, <2>2 DEF Info!RefreshPersonalInfoList, InfoTypes
  <1>10. CASE Info!SyncRange
    <2> DEFINE found == {i \in synced + 1..Len(events) : events[i].contract = ix.contract}
    <2>1. Len(events) \in Nat /\ found \in SUBSET Nat /\ ix' = [ix EXCEPT !.pc = "run", !.upto = Len(events), !.todo = found]
      BY <1>0, <1>10 DEF InfoTypes, Info!SyncRange
    <2> HIDE DEF found
    <2>2. ix' \in InfoIxs
      BY <1>0, <2>1 DEF InfoIxs
    <2> QED
      BY <1>0, <1>10, <2>2 DEF Info!SyncRange, InfoTypes
  <1>11. CASE Info!SinkOnPersonalInfo
    <2>1. PICK i \in ix.todo :
             /\ ix' = [ix EXCEPT !.todo = @ \ {i}]
             /\ past' = [past EXCEPT !.blind = IF ix.key # Info!Opened THEN @ \cup {events[i].holder}
                                                                  ELSE @ \ {events[i].holder}]
      BY <1>11 DEF Info!SinkOnPersonalInfo
    <2>2. events[i].holder \in Holders
      <3>1. ix.todo \in SUBSET Nat /\ ix.pc = "run"
        BY <1>0, <1>11 DEF InfoIxs, Info!SinkOnPersonalInfo
      <3>2. i \in Nat /\ synced < i /\ i <= Len(events)
        BY <1>0, <2>1, <3>1 DEF InfoInv, InfoHistory, InfoIxs, InfoTypes
      <3>3. events[i] \in InfoEvents
        BY <1>0, <3>2 DEF InfoInv, InfoTypes
      <3> QED
        BY <3>3 DEF InfoEvents
    <2>3. ix' \in InfoIxs
      BY <1>0, <2>1 DEF InfoIxs
    <2>4. past' \in InfoPasts
      BY <1>0, <2>1, <2>2 DEF InfoPasts
    <2> QED
      BY <1>0, <1>11, <2>3, <2>4 DEF Info!SinkOnPersonalInfo, InfoTypes
  <1>12. CASE Info!SetBlockNumber
    <2>1. ix' \in InfoIxs
      BY <1>12 DEF Info!SetBlockNumber, Info!IdleIx, InfoIxs, InfoAssumption, Info!PersonalInfoAssumption
    <2>2. ix.upto \in Nat
      BY <1>0 DEF InfoIxs
    <2> QED
      BY <1>0, <1>12, <2>1, <2>2 DEF Info!SetBlockNumber, InfoTypes
  <1>13. CASE Info!IndexerFails
    <2>1. ix' \in InfoIxs
      BY <1>13 DEF Info!IndexerFails, Info!IdleIx, InfoIxs, InfoAssumption, Info!PersonalInfoAssumption
    <2>2. past' \in InfoPasts
      <3>1. past' = [past EXCEPT !.faults = @ + 1, !.crashed = TRUE] /\ past.faults + 1 \in Nat
        BY <1>0, <1>13 DEF Info!IndexerFails, InfoPasts
      <3>2. \A f \in Nat : [past EXCEPT !.faults = f, !.crashed = TRUE] \in InfoPasts
        BY <1>0 DEF InfoPasts
      <3> QED
        BY <3>1, <3>2, Zenon
    <2> QED
      BY <1>0, <1>13, <2>1, <2>2 DEF Info!IndexerFails, InfoTypes
  <1>14. CASE Info!GetTemporaryList
    <2>1. Info!IdleMod \in InfoMods
      BY DEF Info!IdleMod, InfoMods, InfoAssumption, Info!PersonalInfoAssumption
    <2> DEFINE shown == {h \in Holders : index[h].source = "on"}
    <2>2. /\ shown \in SUBSET Holders
          /\ mod' = [Info!IdleMod EXCEPT !.pc = "run", !.rows = shown, !.listed = shown, !.contract = contract]
      BY <1>14 DEF Info!GetTemporaryList
    <2> HIDE DEF shown
    <2>3. mod' \in InfoMods
      BY <1>0, <2>1, <2>2 DEF InfoMods
    <2> QED
      BY <1>0, <1>14, <2>3 DEF Info!GetTemporaryList, InfoTypes
  <1>15. CASE Info!ModifyPersonalInfo
    <2>1. PICK h \in mod.rows :
             \/ mod' = [mod EXCEPT !.rows = @ \ {h}, !.complete = FALSE]
             \/ mod' = [mod EXCEPT !.rows = @ \ {h}]
             \/ mod' = [mod EXCEPT !.pc = "send", !.rows = @ \ {h}, !.complete = FALSE,
                          !.holder = h, !.value = record[mod.contract][h].value]
      BY <1>15, Zenon DEF Info!ModifyPersonalInfo
    <2>2. h \in Holders /\ mod.contract \in Contracts
      BY <1>0 DEF InfoMods
    <2>3. record[mod.contract][h].value \in Nat
      BY <1>0, <2>2 DEF InfoTypes, InfoRecords
    <2>4. mod' \in InfoMods
      <3>1. mod.rows \ {h} \in SUBSET Holders
        BY <1>0 DEF InfoMods
      <3>2. ASSUME NEW V \in SUBSET Holders PROVE [mod EXCEPT !.rows = V] \in InfoMods
        BY <1>0 DEF InfoMods
      <3>3. ASSUME NEW V \in SUBSET Holders PROVE [mod EXCEPT !.rows = V, !.complete = FALSE] \in InfoMods
        BY <1>0 DEF InfoMods
      <3>4. ASSUME NEW V \in SUBSET Holders, NEW v \in Nat
            PROVE  [mod EXCEPT !.pc = "send", !.rows = V, !.complete = FALSE, !.holder = h, !.value = v] \in InfoMods
        BY <1>0, <2>2 DEF InfoMods
      <3> QED
        BY <2>1, <2>3, <3>1, <3>2, <3>3, <3>4, Zenon
    <2> QED
      BY <1>0, <1>15, <2>4 DEF Info!ModifyPersonalInfo, InfoTypes
  <1>16. ASSUME Info!Write("Modify", mod.contract, mod.holder, account.pub, mod.value), mod.pc = "send"
         PROVE  record' \in [Contracts -> [Holders -> InfoRecords]] /\ events' \in Seq(InfoEvents)
    <2>1. mod.holder \in Holders
      BY <1>16 DEF InfoInv, InfoPass
    <2>2. mod.contract \in Contracts /\ mod.value \in Nat /\ account.pub \in Nat
      BY <1>0 DEF InfoMods, InfoAccounts
    <2> QED
      BY <1>0, <1>16, <2>1, <2>2, Written
  <1>17. CASE Info!ModifyInfo
    <2>1. mod' \in InfoMods
      BY <1>0, <1>17 DEF Info!ModifyInfo, InfoMods
    <2> QED
      BY <1>0, <1>16, <1>17, <2>1 DEF Info!ModifyInfo, InfoTypes
  <1>18. CASE Info!SinkOnAccount
    <2>1. Info!NoTemp \in InfoTemps /\ Info!IdleMod \in InfoMods
      BY DEF Info!NoTemp, Info!NoPem, InfoTemps, InfoPems, InfoPhrases, Info!IdleMod, InfoMods,
         InfoAssumption, Info!PersonalInfoAssumption
    <2>2. account' \in InfoAccounts
      BY <1>0, <1>18 DEF Info!SinkOnAccount, InfoAccounts
    <2> QED
      BY <1>0, <1>18, <2>1, <2>2 DEF Info!SinkOnAccount, InfoTypes
  <1>19. CASE Info!ModifyFails
    <2>1. Info!IdleMod \in InfoMods
      BY DEF Info!IdleMod, InfoMods, InfoAssumption, Info!PersonalInfoAssumption
    <2>2. past' \in InfoPasts
      BY <1>0, <1>19 DEF Info!ModifyFails, InfoPasts
    <2> QED
      BY <1>0, <1>16, <1>19, <2>1, <2>2 DEF Info!ModifyFails, InfoTypes
  <1>20. CASE UNCHANGED Info!vars
    BY <1>0, <1>20 DEF Info!vars, InfoTypes
  <1> QED
    BY <1>1, <1>2, <1>3, <1>4, <1>5, <1>6, <1>7, <1>8, <1>9, <1>10, <1>11, <1>12, <1>13, <1>14, <1>15,
       <1>17, <1>18, <1>19, <1>20, InfoSteps

\* Which actions change what.
LEMMA InfoMoves ==
    ASSUME InfoTypes, [Info!Next]_Info!vars
    PROVE  /\ \/ UNCHANGED <<account, temp>> \/ Info!GenerateRsaKey \/ Info!SinkOnAccount
              \/ \E p \in Passphrases : Info!CreateIssuerRsaKey(p) \/ Info!ChangeIssuerRsaPassphrase(p)
           /\ contract' = contract \/ Info!SetContract
           /\ UNCHANGED <<record, events>> \/ Info!RegisterInfo \/ Info!ModifyInfo \/ Info!ModifyFails
           /\ flight' \subseteq flight \/ \E h \in Holders : Info!RegisterPersonalInfo(h)
           /\ history' = history \/ Info!SinkOnPersonalInfo
           /\ synced' = synced \/ Info!SetBlockNumber
           /\ \/ ix' = ix \/ Info!RefreshPersonalInfoList \/ Info!SyncRange \/ Info!SinkOnPersonalInfo
              \/ Info!SetBlockNumber \/ Info!IndexerFails
           /\ \/ mod' = mod \/ Info!GetTemporaryList \/ Info!ModifyPersonalInfo \/ Info!ModifyInfo
              \/ Info!SinkOnAccount \/ Info!ModifyFails
           /\ past'.keys = past.keys \/ \E p \in Passphrases : Info!CreateIssuerRsaKey(p)
           /\ past'.changes = past.changes \/ \E p \in Passphrases : Info!ChangeIssuerRsaPassphrase(p)
           /\ past'.late = past.late \/ Info!RegisterInfo
           /\ past'.crashed = past.crashed \/ Info!IndexerFails
  <1> USE DEF Info!db, Info!chain
  <1>0. past \in InfoPasts
    BY DEF InfoTypes
  <1>1. ASSUME NEW p \in Passphrases, Info!CreateIssuerRsaKey(p)
        PROVE  /\ UNCHANGED <<contract, record, events, flight, history, synced, ix, mod>>
               /\ past'.changes = past.changes /\ past'.late = past.late /\ past'.crashed = past.crashed
    BY <1>0, <1>1 DEF Info!CreateIssuerRsaKey, InfoPasts
  <1>2. ASSUME NEW p \in Passphrases, Info!ChangeIssuerRsaPassphrase(p)
        PROVE  /\ UNCHANGED <<contract, record, events, flight, history, synced, ix, mod>>
               /\ past'.keys = past.keys /\ past'.late = past.late /\ past'.crashed = past.crashed
    BY <1>0, <1>2 DEF Info!ChangeIssuerRsaPassphrase, InfoPasts
  <1>3. ASSUME NEW h \in Holders, Info!RegisterPersonalInfo(h)
        PROVE  /\ UNCHANGED <<account, temp, contract, record, events, history, synced, ix, mod>>
               /\ past'.keys = past.keys /\ past'.changes = past.changes /\ past'.late = past.late /\ past'.crashed = past.crashed
    BY <1>0, <1>3 DEF Info!RegisterPersonalInfo, InfoPasts
  <1>4. ASSUME NEW h \in Holders, Info!RegisterOffChain(h)
        PROVE  /\ UNCHANGED <<account, temp, contract, record, events, flight, history, synced, ix, mod>>
               /\ past'.keys = past.keys /\ past'.changes = past.changes /\ past'.late = past.late /\ past'.crashed = past.crashed
    BY <1>0, <1>4 DEF Info!RegisterOffChain, InfoPasts
  <1>5. ASSUME Info!GenerateRsaKey
        PROVE  UNCHANGED <<contract, record, events, flight, history, synced, ix, mod, past>>
    BY <1>0, <1>5 DEF Info!GenerateRsaKey, InfoPasts
  <1>6. ASSUME Info!RegisterInfo
        PROVE  /\ UNCHANGED <<account, temp, contract, history, synced, ix, mod>>
               /\ past'.keys = past.keys /\ past'.changes = past.changes /\ past'.crashed = past.crashed
               /\ flight' \subseteq flight
    BY <1>0, <1>6 DEF Info!RegisterInfo, InfoPasts
  <1>7. ASSUME Info!RegisterInfoFails
        PROVE  /\ UNCHANGED <<account, temp, contract, record, events, history, synced, ix, mod>>
               /\ past'.keys = past.keys /\ past'.changes = past.changes /\ past'.late = past.late /\ past'.crashed = past.crashed
               /\ flight' \subseteq flight
    BY <1>0, <1>7 DEF Info!RegisterInfoFails, InfoPasts
  <1>8. ASSUME Info!SetContract
        PROVE  UNCHANGED <<account, temp, record, events, flight, history, synced, ix, mod, past>>
    BY <1>0, <1>8 DEF Info!SetContract, InfoPasts
  <1>9. ASSUME Info!RefreshPersonalInfoList
        PROVE  UNCHANGED <<account, temp, contract, record, events, flight, history, synced, mod, past>>
    BY <1>0, <1>9 DEF Info!RefreshPersonalInfoList, InfoPasts
  <1>10. ASSUME Info!SyncRange
        PROVE  UNCHANGED <<account, temp, contract, record, events, flight, history, synced, mod, past>>
    BY <1>0, <1>10 DEF Info!SyncRange, InfoPasts
  <1>11. ASSUME Info!SinkOnPersonalInfo
        PROVE  /\ UNCHANGED <<account, temp, contract, record, events, flight, synced, mod>>
               /\ past'.keys = past.keys /\ past'.changes = past.changes /\ past'.late = past.late /\ past'.crashed = past.crashed
    BY <1>0, <1>11 DEF Info!SinkOnPersonalInfo, InfoPasts
  <1>12. ASSUME Info!SetBlockNumber
        PROVE  UNCHANGED <<account, temp, contract, record, events, flight, history, mod, past>>
    BY <1>0, <1>12 DEF Info!SetBlockNumber, InfoPasts
  <1>13. ASSUME Info!IndexerFails
        PROVE  /\ UNCHANGED <<account, temp, contract, record, events, flight, history, synced, mod>>
               /\ past'.keys = past.keys /\ past'.changes = past.changes /\ past'.late = past.late
    BY <1>0, <1>13 DEF Info!IndexerFails, InfoPasts
  <1>14. ASSUME Info!GetTemporaryList
        PROVE  UNCHANGED <<account, temp, contract, record, events, flight, history, synced, ix, past>>
    BY <1>0, <1>14 DEF Info!GetTemporaryList, InfoPasts
  <1>15. ASSUME Info!ModifyPersonalInfo
        PROVE  UNCHANGED <<account, temp, contract, record, events, flight, history, synced, ix, past>>
    BY <1>0, <1>15 DEF Info!ModifyPersonalInfo, InfoPasts
  <1>16. ASSUME Info!ModifyInfo
        PROVE  UNCHANGED <<account, temp, contract, flight, history, synced, ix, past>>
    BY <1>0, <1>16 DEF Info!ModifyInfo, InfoPasts
  <1>17. ASSUME Info!SinkOnAccount
        PROVE  UNCHANGED <<contract, record, events, flight, history, synced, ix, past>>
    BY <1>0, <1>17 DEF Info!SinkOnAccount, InfoPasts
  <1>18. ASSUME Info!ModifyFails
        PROVE  /\ UNCHANGED <<account, temp, contract, flight, history, synced, ix>>
               /\ past'.keys = past.keys /\ past'.changes = past.changes /\ past'.late = past.late /\ past'.crashed = past.crashed
    BY <1>0, <1>18 DEF Info!ModifyFails, InfoPasts
  <1>19. UNCHANGED Info!vars => UNCHANGED <<account, temp, contract, record, events, flight, history, synced, ix, mod, past>>
    BY DEF Info!vars
  <1> QED
    BY <1>1, <1>2, <1>3, <1>4, <1>5, <1>6, <1>7, <1>8, <1>9, <1>10, <1>11, <1>12, <1>13, <1>14, <1>15, <1>16, <1>17, <1>18, <1>19, InfoSteps, Zenon

\* What is written is written of a registration under way or by a pass that is at it.
LEMMA InfoWrites ==
    ASSUME InfoInv, Info!RegisterInfo \/ Info!ModifyInfo \/ Info!ModifyFails, ~UNCHANGED <<record, events>>
    PROVE  \E c \in Contracts, h \in Holders, type \in {"Register", "Modify"}, value \in Nat, key \in Nat :
              /\ Info!Write(type, c, h, key, value)
              /\ \/ /\ \E r \in flight : c = r.contract
                    /\ past' = [past EXCEPT !.late = IF key # account.pub THEN @ \cup {<<c, h>>} ELSE @ \ {<<c, h>>}]
                 \/ c = mod.contract /\ mod.pc = "send" /\ key = account.pub
  <1> USE DEF Info!db, Info!chain
  <1>0. mod \in InfoMods /\ flight \subseteq InfoFlights /\ account \in InfoAccounts /\ (mod.pc = "send" => mod.holder \in Holders)
    BY DEF InfoInv, InfoTypes, InfoPass
  <1>1. CASE Info!RegisterInfo
    <2>1. PICK r \in flight :
             /\ Info!Write("Register", r.contract, r.holder, r.key, r.value)
             /\ past' = [past EXCEPT !.late = IF r.key # account.pub THEN @ \cup {<<r.contract, r.holder>>}
                                                              ELSE @ \ {<<r.contract, r.holder>>}]
      BY <1>1 DEF Info!RegisterInfo
    <2>2. r.contract \in Contracts /\ r.holder \in Holders /\ r.key \in Nat /\ r.value \in Nat
      BY <1>0 DEF InfoFlights
    <2> QED
      BY <2>1, <2>2, Zenon
  <1>2. ASSUME mod.pc = "send", Info!Write("Modify", mod.contract, mod.holder, account.pub, mod.value)
        PROVE  \E c \in Contracts, h \in Holders, type \in {"Register", "Modify"}, value \in Nat, key \in Nat :
                  /\ Info!Write(type, c, h, key, value)
                  /\ c = mod.contract /\ mod.pc = "send" /\ key = account.pub
    <2>1. mod.contract \in Contracts /\ mod.holder \in Holders /\ mod.value \in Nat /\ account.pub \in Nat
      BY <1>0, <1>2 DEF InfoMods, InfoAccounts
    <2> QED
      BY <1>2, <2>1, Zenon
  <1>3. CASE Info!ModifyInfo \/ Info!ModifyFails
    <2>1. mod.pc = "send" /\ Info!Write("Modify", mod.contract, mod.holder, account.pub, mod.value)
      BY <1>3 DEF Info!ModifyInfo, Info!ModifyFails
    <2>2. PICK c \in Contracts, h \in Holders, type \in {"Register", "Modify"}, value \in Nat, key \in Nat :
             /\ Info!Write(type, c, h, key, value)
             /\ c = mod.contract /\ mod.pc = "send" /\ key = account.pub
      BY <1>2, <2>1, Zenon
    <2> QED
      BY <2>2, Zenon
  <1> QED
    BY <1>1, <1>3

LEMMA InfoContractsNext ==
    ASSUME InfoAssumption, InfoInv, [Info!Next]_Info!vars
    PROVE  InfoContracts'
  <1> USE DEF Info!db, Info!chain
  <1> SUFFICES ASSUME ~ContractChanges PROVE InfoContracts'
    BY DEF InfoContracts
  <1>0. /\ contract = FirstContract /\ ix.contract = FirstContract /\ mod.contract = FirstContract
        /\ \A r \in flight : r.contract = FirstContract
        /\ \A i \in DOMAIN events : events[i].contract = FirstContract
        /\ ix \in InfoIxs /\ mod \in InfoMods /\ flight \subseteq InfoFlights /\ InfoTypes
    BY DEF InfoInv, InfoContracts, InfoTypes
  <1>1. contract' = FirstContract
    BY <1>0, InfoMoves DEF Info!SetContract
  <1>2. \A i \in DOMAIN events' : events'[i].contract = FirstContract
    <2>1. CASE UNCHANGED <<record, events>>
      BY <1>0, <2>1
    <2>2. CASE ~UNCHANGED <<record, events>>
      <3>1. Info!RegisterInfo \/ Info!ModifyInfo \/ Info!ModifyFails
        BY <1>0, <2>2, InfoMoves, Zenon
      <3>2. PICK c \in Contracts, h \in Holders, type \in {"Register", "Modify"}, value \in Nat, key \in Nat :
               /\ Info!Write(type, c, h, key, value)
               /\ (\E r \in flight : c = r.contract) \/ c = mod.contract
        BY <2>2, <3>1, InfoWrites, Zenon
      <3>3. c = FirstContract
        BY <1>0, <3>2
      <3>4. /\ Len(events) \in Nat /\ DOMAIN events = 1..Len(events) /\ DOMAIN events' = 1..Len(events) + 1
            /\ events'[Len(events) + 1].contract = c /\ \A i \in DOMAIN events : events'[i] = events[i]
        BY <1>0, <3>2, Written
      <3> QED
        BY <1>0, <3>3, <3>4
    <2> QED
      BY <2>1, <2>2
  <1>3. \A r \in flight' : r.contract = FirstContract
    <2>1. ASSUME NEW h \in Holders, Info!RegisterPersonalInfo(h) PROVE \A r \in flight' : r.contract = FirstContract
      BY <1>0, <2>1 DEF Info!RegisterPersonalInfo
    <2>2. flight' \subseteq flight \/ \E h \in Holders : Info!RegisterPersonalInfo(h)
      BY <1>0, InfoMoves, Zenon
    <2> QED
      BY <1>0, <2>1, <2>2
  <1>4. ix'.contract = FirstContract
    <2>1. CASE Info!RefreshPersonalInfoList \/ Info!SyncRange
      BY <1>0, <2>1 DEF Info!RefreshPersonalInfoList, Info!SyncRange, InfoIxs
    <2>2. CASE Info!SinkOnPersonalInfo
      <3>1. PICK i \in ix.todo : ix' = [ix EXCEPT !.todo = @ \ {i}]
        BY <2>2 DEF Info!SinkOnPersonalInfo
      <3> QED
        BY <1>0, <3>1 DEF InfoIxs
    <2>3. CASE Info!SetBlockNumber \/ Info!IndexerFails
      BY <2>3 DEF Info!SetBlockNumber, Info!IndexerFails, Info!IdleIx
    <2> QED
      BY <1>0, <2>1, <2>2, <2>3, InfoMoves
  <1>5. mod'.contract = FirstContract
    <2>1. CASE Info!GetTemporaryList
      BY <1>0, <2>1 DEF Info!GetTemporaryList, Info!IdleMod
    <2>2. CASE Info!ModifyPersonalInfo
      <3>1. PICK h \in mod.rows :
               \/ mod' = [mod EXCEPT !.rows = @ \ {h}, !.complete = FALSE]
               \/ mod' = [mod EXCEPT !.rows = @ \ {h}]
               \/ mod' = [mod EXCEPT !.pc = "send", !.rows = @ \ {h}, !.complete = FALSE,
                            !.holder = h, !.value = record[mod.contract][h].value]
        BY <2>2, Zenon DEF Info!ModifyPersonalInfo
      <3> QED
        BY <1>0, <3>1 DEF InfoMods
    <2>3. CASE Info!ModifyInfo
      BY <1>0, <2>3 DEF Info!ModifyInfo, InfoMods
    <2>4. CASE Info!SinkOnAccount \/ Info!ModifyFails
      BY <2>4 DEF Info!SinkOnAccount, Info!ModifyFails, Info!IdleMod
    <2> QED
      BY <1>0, <2>1, <2>2, <2>3, <2>4, InfoMoves
  <1> QED
    BY <1>1, <1>2, <1>3, <1>4, <1>5 DEF InfoContracts

LEMMA InfoHistoryNext ==
    ASSUME InfoAssumption, InfoInv, [Info!Next]_Info!vars
    PROVE  InfoHistory'
  <1> USE DEF Info!db, Info!chain
  <1>0. /\ ix \in InfoIxs /\ synced \in Nat /\ Len(events) \in Nat /\ DOMAIN events = 1..Len(events)
        /\ InfoTypes /\ InfoHistory
    BY DEF InfoInv, InfoTypes
  <1> DEFINE Handled(i) == i <= synced \/ (ix.pc = "run" /\ i <= ix.upto /\ i \notin ix.todo)
             Fits(i) == /\ RowsIn(i) \in Nat
                        /\ ~ContractChanges /\ Handled(i) => RowsIn(i) >= 1
                        /\ ~past.crashed => IF Handled(i) THEN RowsIn(i) <= 1 ELSE RowsIn(i) = 0
             Ranged == ix.pc = "run" => /\ synced <= ix.upto /\ ix.upto <= Len(events)
                                        /\ \A i \in ix.todo : synced < i /\ i <= ix.upto
  <1>1. synced <= Len(events) /\ DOMAIN history \subseteq DOMAIN events /\ Ranged /\ \A i \in DOMAIN events : Fits(i)
    BY <1>0 DEF InfoHistory
  <1>2. SUFFICES (synced <= Len(events) /\ DOMAIN history \subseteq DOMAIN events /\ Ranged
                  /\ \A i \in DOMAIN events : Fits(i))'
    BY DEF InfoHistory
  <1>3. CASE events' # events
    <2>1. Info!RegisterInfo \/ Info!ModifyInfo \/ Info!ModifyFails
      BY <1>0, <1>3, InfoMoves, Zenon
    <2>2. PICK c \in Contracts, h \in Holders, type \in {"Register", "Modify"}, value \in Nat, key \in Nat :
             Info!Write(type, c, h, key, value)
      BY <1>3, <2>1, InfoWrites, Zenon
    <2>3. DOMAIN events' = 1..Len(events) + 1 /\ Len(events') = Len(events) + 1
      BY <1>0, <2>2, Written
    <2>4. UNCHANGED <<history, synced, ix>>
      BY <2>1 DEF Info!RegisterInfo, Info!ModifyInfo, Info!ModifyFails
    <2>5. past'.crashed = past.crashed
      BY <1>0, <2>1, InfoMoves DEF Info!RegisterInfo, Info!ModifyInfo, Info!ModifyFails, Info!IndexerFails, Info!IdleIx
    <2>6. RowsIn(Len(events) + 1) = 0
      BY <1>0, <1>1 DEF RowsIn
    <2>7. ~Handled(Len(events) + 1)
      BY <1>0, <1>1 DEF InfoIxs
    <2>8. \A i \in DOMAIN events' : i \in DOMAIN events \/ i = Len(events) + 1
      BY <1>0, <2>3
    <2>9. \A i : RowsIn(i)' = RowsIn(i)
      BY <2>4 DEF RowsIn
    <2>10. \A i \in DOMAIN events' : Fits(i)'
      BY <1>1, <2>4, <2>5, <2>6, <2>7, <2>8, <2>9
    <2>11. (synced <= Len(events) /\ DOMAIN history \subseteq DOMAIN events /\ Ranged)'
      BY <1>0, <1>1, <2>3, <2>4 DEF InfoIxs
    <2> QED
      BY <2>10, <2>11
  <1>4. CASE events' = events /\ ~Info!SinkOnPersonalInfo
    <2>1. history' = history /\ \A i : RowsIn(i)' = RowsIn(i)
      BY <1>0, <1>4, InfoMoves DEF RowsIn
    <2>2. CASE ix' = ix /\ ~Info!SetBlockNumber /\ ~Info!IndexerFails
      <3>1. synced' = synced /\ past'.crashed = past.crashed
        BY <1>0, <2>2, InfoMoves
      <3> QED
        BY <1>1, <1>4, <2>1, <2>2, <3>1
    <2>3. CASE Info!RefreshPersonalInfoList
      <3>1. ix.pc = "idle" /\ ix'.pc = "range" /\ synced' = synced /\ past' = past
        BY <1>0, <2>3 DEF Info!RefreshPersonalInfoList, InfoIxs
      <3> QED
        BY <1>1, <1>4, <2>1, <3>1
    <2>4. CASE Info!SyncRange
      <3> DEFINE found == {i \in synced + 1..Len(events) : events[i].contract = ix.contract}
      <3>1. ix.pc = "range" /\ ix' = [ix EXCEPT !.pc = "run", !.upto = Len(events), !.todo = found] /\ synced' = synced /\ past' = past
        BY <2>4 DEF Info!SyncRange
      <3>2. ix'.pc = "run" /\ ix'.upto = Len(events) /\ ix'.todo = found
        <4> HIDE DEF found
        <4> QED
          BY <1>0, <3>1 DEF InfoIxs
      <3>3. ~ContractChanges => \A i \in DOMAIN events : synced < i => i \in found
        BY <1>0 DEF InfoInv, InfoContracts
      <3>4. \A i \in found : synced < i /\ i <= Len(events)
        BY <1>0
      <3> HIDE DEF found
      <3>5. (synced <= Len(events) /\ DOMAIN history \subseteq DOMAIN events /\ Ranged)'
        BY <1>0, <1>1, <1>4, <2>1, <3>1, <3>2, <3>4
      <3>6. ASSUME NEW i \in DOMAIN events PROVE Fits(i)'
        <4>1. Fits(i) /\ (Handled(i) <=> i <= synced) /\ (Handled(i)' <=> i <= synced \/ i \notin found)
          BY <1>0, <1>1, <3>1, <3>2
        <4>2. ~ContractChanges => (Handled(i)' <=> Handled(i))
          BY <1>0, <3>3, <3>4, <4>1
        <4>3. Handled(i) => Handled(i)'
          BY <4>1
        <4> HIDE DEF Handled
        <4> QED
          BY <2>1, <3>1, <4>1, <4>2, <4>3
      <3> QED
        BY <1>4, <3>5, <3>6
    <2>5. CASE Info!SetBlockNumber
      <3>1. /\ ix.pc = "run" /\ ix.todo = {} /\ synced' = ix.upto /\ ix'.pc = "idle" /\ past' = past
        BY <2>5 DEF Info!SetBlockNumber, Info!IdleIx
      <3>2. ix.upto \in Nat
        BY <1>0 DEF InfoIxs
      <3>3. \A i \in DOMAIN events : Handled(i)' <=> Handled(i)
        BY <1>0, <1>1, <3>1, <3>2
      <3>4. (synced <= Len(events) /\ DOMAIN history \subseteq DOMAIN events /\ Ranged)'
        BY <1>0, <1>1, <1>4, <2>1, <3>1, <3>2
      <3> HIDE DEF Handled
      <3> QED
        BY <1>1, <1>4, <2>1, <3>1, <3>3, <3>4
    <2>6. CASE Info!IndexerFails
      <3>1. /\ ix'.pc = "idle" /\ past'.crashed /\ synced' = synced
        BY <1>0, <2>6 DEF Info!IndexerFails, Info!IdleIx, InfoTypes, InfoPasts
      <3>2. \A i \in DOMAIN events : Handled(i)' => Handled(i)
        BY <3>1
      <3>3. (synced <= Len(events) /\ DOMAIN history \subseteq DOMAIN events /\ Ranged)'
        BY <1>0, <1>1, <1>4, <2>1, <3>1
      <3> HIDE DEF Handled
      <3> QED
        BY <1>1, <1>4, <2>1, <3>1, <3>2, <3>3
    <2> QED
      BY <1>0, <1>4, <2>2, <2>3, <2>4, <2>5, <2>6, InfoMoves, Zenon
  <1>5. CASE Info!SinkOnPersonalInfo
    <2>1. PICK k \in ix.todo :
             /\ ix' = [ix EXCEPT !.todo = @ \ {k}]
             /\ history' = [j \in 1..Len(events) |->
                   (IF j \in DOMAIN history THEN history[j] ELSE 0) + (IF k = j THEN 1 ELSE 0)]
      BY <1>5 DEF Info!SinkOnPersonalInfo
    <2>2. ix.pc = "run" /\ synced' = synced /\ events' = events
      BY <1>5 DEF Info!SinkOnPersonalInfo
    <2>3. past'.crashed = past.crashed
      <3>1. past \in InfoPasts
        BY <1>0 DEF InfoTypes
      <3> QED
        BY <1>5, <3>1 DEF Info!SinkOnPersonalInfo, InfoPasts
    <2>4. ix'.pc = "run" /\ ix'.upto = ix.upto /\ ix'.todo = ix.todo \ {k}
      BY <1>0, <2>1, <2>2 DEF InfoIxs
    <2>5. k \in Nat /\ ix.upto \in Nat
      BY <1>0, <2>1 DEF InfoIxs
    <2>6. k \in DOMAIN events /\ ~Handled(k) /\ synced < k /\ k <= ix.upto
      BY <1>0, <1>1, <2>1, <2>2, <2>5
    <2>7. \A i \in DOMAIN events : /\ RowsIn(i)' = RowsIn(i) + (IF k = i THEN 1 ELSE 0)
                                   /\ Handled(i)' <=> Handled(i) \/ i = k
      BY <1>0, <2>1, <2>2, <2>4, <2>6 DEF RowsIn
    <2>8. (synced <= Len(events) /\ DOMAIN history \subseteq DOMAIN events /\ Ranged)'
      BY <1>0, <1>1, <2>1, <2>2, <2>4
    <2> HIDE DEF Handled
    <2>9. \A i \in DOMAIN events : Fits(i)'
      BY <1>1, <2>3, <2>6, <2>7
    <2> QED
      BY <2>2, <2>8, <2>9
  <1> QED
    BY <1>3, <1>4, <1>5 DEF Info!SinkOnPersonalInfo

\* From the invariant.
LEMMA InfoComplete ==
    ASSUME InfoInv, ~ContractChanges
    PROVE  Info!HistoryIsComplete
  <1>1. /\ synced \in Nat /\ synced <= Len(events) /\ DOMAIN events = 1..Len(events) /\ Len(events) \in Nat
    BY DEF InfoInv, InfoTypes, InfoHistory
  <1>2. \A i \in 1..synced : RowsIn(i) \in Nat /\ RowsIn(i) >= 1 /\ (~past.crashed => RowsIn(i) <= 1)
    BY <1>1 DEF InfoInv, InfoHistory
  <1> QED
    BY <1>1, <1>2 DEF Info!HistoryIsComplete, RowsIn

LEMMA InfoKeysNext ==
    ASSUME InfoAssumption, InfoInv, [Info!Next]_Info!vars
    PROVE  InfoKeys'
  <1> USE DEF Info!db, Info!chain
  <1>0. /\ account \in InfoAccounts /\ temp \in InfoTemps /\ past \in InfoPasts /\ InfoTypes /\ InfoKeys
    BY DEF InfoInv, InfoTypes
  <1>1. ASSUME NEW p \in Passphrases, Info!CreateIssuerRsaKey(p) PROVE InfoKeys'
    <2>1. /\ past'.keys = past.keys + 1 /\ past'.changes = past.changes /\ past.keys \in Nat
          /\ account.status \in {"unset", "set"}
      BY <1>0, <1>1 DEF Info!CreateIssuerRsaKey, InfoPasts
    <2>2. account'.pem = account.pem /\ account'.pub = account.pub
      BY <1>0, <1>1 DEF Info!CreateIssuerRsaKey, InfoAccounts
    <2>3. CASE account.status = "set"
      <3>1. temp' = [pem |-> account.pem, passphrase |-> account.passphrase] /\ account'.status = "changing"
        BY <1>0, <1>1, <2>3 DEF Info!CreateIssuerRsaKey, InfoAccounts
      <3>2. account.pem.key # 0
        BY <1>0, <2>3 DEF InfoKeys
      <3>3. temp' # Info!NoTemp /\ temp'.pem = account.pem
        BY <3>1, <3>2 DEF Info!NoTemp, Info!NoPem
      <3> QED
        BY <1>0, <2>1, <2>2, <3>1, <3>2, <3>3 DEF InfoKeys
    <2>4. CASE account.status = "unset"
      <3>1. temp' = temp /\ account'.status = "creating"
        BY <1>0, <1>1, <2>4 DEF Info!CreateIssuerRsaKey, InfoAccounts
      <3> QED
        BY <1>0, <2>1, <2>2, <2>4, <3>1 DEF InfoKeys
    <2> QED
      BY <2>1, <2>3, <2>4
  <1>2. ASSUME NEW p \in Passphrases, Info!ChangeIssuerRsaPassphrase(p) PROVE InfoKeys'
    <2>1. /\ past'.keys = past.keys /\ past'.changes = past.changes + 1 /\ past.changes \in Nat /\ temp' = temp
      BY <1>0, <1>2 DEF Info!ChangeIssuerRsaPassphrase, InfoPasts
    <2>2. /\ account'.pem = [account.pem EXCEPT !.passphrase = p, !.n = past.changes + 1]
          /\ account'.pub = account.pub /\ account'.status = account.status /\ account.pem \in InfoPems
      BY <1>0, <1>2 DEF Info!ChangeIssuerRsaPassphrase, InfoAccounts
    <2>3. account'.pem.key = account.pem.key /\ account'.pem.n = past.changes + 1
      BY <2>2 DEF InfoPems
    <2>4. temp.pem.n \in Nat
      BY <1>0 DEF InfoTemps, InfoPems
    <2> QED
      BY <1>0, <2>1, <2>2, <2>3, <2>4 DEF InfoKeys
  <1>3. CASE Info!GenerateRsaKey
    <2>1. /\ account.status \in {"creating", "changing"} /\ UNCHANGED <<temp, past>> /\ past.keys \in Nat /\ past.changes \in Nat
      BY <1>0, <1>3 DEF Info!GenerateRsaKey, InfoPasts
    <2>2. /\ account'.pem = [key |-> past.keys, passphrase |-> account.passphrase, n |-> 0]
          /\ account'.pub = past.keys
          /\ account'.status = IF account.status = "creating" THEN "set" ELSE account.status
      BY <1>0, <1>3 DEF Info!GenerateRsaKey, InfoAccounts
    <2>3. account'.pem.key = past.keys /\ account'.pem.n = 0
      BY <2>2
    <2> QED
      BY <1>0, <2>1, <2>2, <2>3 DEF InfoKeys
  <1>4. CASE Info!SinkOnAccount
    <2>1. past' = past
      BY <1>4 DEF Info!SinkOnAccount
    <2>2. CASE UNCHANGED <<account, temp>>
      BY <1>0, <2>1, <2>2 DEF InfoKeys
    <2>3. CASE account' = [account EXCEPT !.status = "set"] /\ temp' = Info!NoTemp
      <3>1. account'.status = "set" /\ account'.pem = account.pem /\ account'.pub = account.pub
        BY <1>0, <2>3 DEF InfoAccounts
      <3>2. mod.pc # "idle" /\ account.status = "changing"
        BY <1>4 DEF Info!SinkOnAccount, InfoInv, InfoPass
      <3>3. temp'.pem.n = 0 /\ past.changes \in Nat
        BY <1>0, <2>3 DEF Info!NoTemp, Info!NoPem, InfoPasts
      <3> QED
        BY <1>0, <2>1, <2>3, <3>1, <3>2, <3>3 DEF InfoKeys
    <2> QED
      BY <1>4, <2>2, <2>3 DEF Info!SinkOnAccount
  <1>5. CASE UNCHANGED <<account, temp>> /\ past'.keys = past.keys /\ past'.changes = past.changes
    BY <1>0, <1>5 DEF InfoKeys
  <1> QED
    BY <1>0, <1>1, <1>2, <1>3, <1>4, <1>5, InfoMoves

\* What is registered during a pass is encrypted with the key of the account, or late.
LEMMA StillRenewed ==
    ASSUME InfoInv, Info!RegisterInfo, NEW h \in Holders, Renewed(h)
    PROVE  \/ <<mod.contract, h>> \in past'.late
           \/ record'[mod.contract][h].key # temp.pem.key
           \/ account.pem.key = temp.pem.key
  <1>0. /\ past \in InfoPasts /\ InfoTypes /\ flight \subseteq InfoFlights /\ mod.contract \in Contracts
        /\ account.pub = account.pem.key
    BY DEF InfoInv, InfoTypes, InfoMods, InfoKeys
  <1>1. PICK r \in flight :
           /\ Info!Write("Register", r.contract, r.holder, r.key, r.value)
           /\ past' = [past EXCEPT !.late = IF r.key # account.pub THEN @ \cup {<<r.contract, r.holder>>}
                                                            ELSE @ \ {<<r.contract, r.holder>>}]
    BY DEF Info!RegisterInfo
  <1>2. r.contract \in Contracts /\ r.holder \in Holders /\ r.key \in Nat /\ r.value \in Nat
    BY <1>0, <1>1 DEF InfoFlights
  <1>3. /\ record'[r.contract][r.holder].key = r.key
        /\ \A d \in Contracts, g \in Holders : d # r.contract \/ g # r.holder => record'[d][g] = record[d][g]
    BY <1>0, <1>1, <1>2, Written
  <1>4. past'.late = IF r.key # account.pub THEN past.late \cup {<<r.contract, r.holder>>}
                                            ELSE past.late \ {<<r.contract, r.holder>>}
    BY <1>0, <1>1 DEF InfoPasts
  <1>5. CASE r.contract = mod.contract /\ r.holder = h
    BY <1>0, <1>3, <1>4, <1>5
  <1>6. CASE r.contract # mod.contract \/ r.holder # h
    <2>1. record'[mod.contract][h] = record[mod.contract][h]
      BY <1>0, <1>3, <1>6
    <2>2. <<mod.contract, h>> # <<r.contract, r.holder>>
      BY <1>6
    <2>3. <<mod.contract, h>> \in past.late => <<mod.contract, h>> \in past'.late
      BY <1>4, <2>2
    <2> QED
      BY <2>1, <2>3 DEF Renewed
  <1> QED
    BY <1>5, <1>6

LEMMA InfoPassNext ==
    ASSUME InfoAssumption, InfoInv, [Info!Next]_Info!vars
    PROVE  InfoPass'
  <1> USE DEF Info!db, Info!chain
  <1>0. /\ account \in InfoAccounts /\ temp \in InfoTemps /\ mod \in InfoMods /\ past \in InfoPasts
        /\ InfoTypes /\ InfoKeys /\ InfoPass
    BY DEF InfoInv, InfoTypes
  <1>1. CASE Info!GetTemporaryList
    <2> DEFINE shown == {h \in Holders : index[h].source = "on"}
    <2>1. /\ temp # Info!NoTemp /\ temp.pem # account.pem /\ UNCHANGED <<account, temp>>
          /\ mod' = [Info!IdleMod EXCEPT !.pc = "run", !.rows = shown, !.listed = shown, !.contract = contract]
      BY <1>1 DEF Info!GetTemporaryList
    <2> HIDE DEF shown
    <2>2. mod'.pc = "run" /\ mod'.rows = shown /\ mod'.listed = shown
      BY <2>1 DEF Info!IdleMod
    <2> QED
      BY <1>0, <2>1, <2>2 DEF InfoPass, InfoKeys
  <1>2. CASE Info!ModifyPersonalInfo
    <2>1. mod.pc = "run" /\ UNCHANGED <<account, temp, record, past>>
      BY <1>2 DEF Info!ModifyPersonalInfo
    <2>2. PICK h \in mod.rows :
             \/ mod' = [mod EXCEPT !.rows = @ \ {h}, !.complete = FALSE]
             \/ /\ record[mod.contract][h].key # temp.pem.key
                /\ mod' = [mod EXCEPT !.rows = @ \ {h}]
             \/ mod' = [mod EXCEPT !.pc = "send", !.rows = @ \ {h}, !.complete = FALSE,
                          !.holder = h, !.value = record[mod.contract][h].value]
      BY <1>2, Zenon DEF Info!ModifyPersonalInfo
    <2>3. /\ h \in Holders /\ mod'.rows = mod.rows \ {h} /\ mod'.listed = mod.listed /\ mod'.contract = mod.contract
          /\ mod'.pc = "send" => mod'.holder = h /\ ~mod'.complete
          /\ mod'.complete => mod.complete /\ record[mod.contract][h].key # temp.pem.key
      BY <1>0, <2>1, <2>2 DEF InfoMods
    <2>4. /\ account.status = "changing" /\ account.pem # temp.pem /\ mod.rows \subseteq mod.listed
          /\ mod.complete => \A g \in mod.listed \ mod.rows : Renewed(g)
      BY <1>0, <2>1 DEF InfoPass
    <2>5. mod'.complete => \A g \in mod'.listed \ mod'.rows : Renewed(g)'
      BY <2>1, <2>3, <2>4 DEF Renewed
    <2> QED
      BY <2>1, <2>3, <2>4, <2>5 DEF InfoPass
  <1>3. CASE Info!ModifyInfo
    <2>1. mod.pc = "send" /\ mod' = [mod EXCEPT !.pc = "run", !.holder = "none", !.value = 0] /\ UNCHANGED <<account, temp>>
      BY <1>3 DEF Info!ModifyInfo
    <2>2. mod'.pc = "run" /\ mod'.rows = mod.rows /\ mod'.listed = mod.listed /\ mod'.complete = mod.complete
      BY <1>0, <2>1 DEF InfoMods
    <2> QED
      BY <1>0, <2>1, <2>2 DEF InfoPass
  <1>4. CASE Info!SinkOnAccount \/ Info!ModifyFails
    <2>1. mod'.pc = "idle"
      BY <1>4 DEF Info!SinkOnAccount, Info!ModifyFails, Info!IdleMod
    <2> QED
      BY <2>1 DEF InfoPass
  <1>5. CASE mod' = mod /\ ~Info!ModifyInfo /\ ~Info!SinkOnAccount /\ ~Info!ModifyFails
    <2> SUFFICES ASSUME mod.pc # "idle" PROVE InfoPass'
      BY <1>5 DEF InfoPass
    <2>1. /\ account.status = "changing" /\ account.pem # temp.pem /\ mod.rows \subseteq mod.listed
          /\ mod.pc = "send" => mod.holder \in Holders /\ ~mod.complete
          /\ mod.complete => \A g \in mod.listed \ mod.rows : Renewed(g)
      BY <1>0 DEF InfoPass
    <2>2. /\ account'.status = "changing" /\ account'.pem # temp.pem /\ account'.pem.key = account.pem.key
          /\ temp' = temp
      <3>1. CASE UNCHANGED <<account, temp>>
        BY <2>1, <3>1
      <3>2. ~Info!GenerateRsaKey
        BY <2>1 DEF Info!GenerateRsaKey
      <3>3. \A p \in Passphrases : ~Info!CreateIssuerRsaKey(p)
        BY <2>1 DEF Info!CreateIssuerRsaKey
      <3>4. ASSUME NEW p \in Passphrases, Info!ChangeIssuerRsaPassphrase(p)
            PROVE  /\ account'.status = "changing" /\ account'.pem # temp.pem /\ account'.pem.key = account.pem.key
                   /\ temp' = temp
        <4>1. /\ account'.pem = [account.pem EXCEPT !.passphrase = p, !.n = past.changes + 1]
              /\ account'.status = account.status /\ account.pem \in InfoPems /\ temp' = temp
          BY <1>0, <3>4 DEF Info!ChangeIssuerRsaPassphrase, InfoAccounts
        <4>2. account'.pem.key = account.pem.key /\ account'.pem.n = past.changes + 1
          BY <4>1 DEF InfoPems
        <4>3. temp.pem.n <= past.changes /\ temp.pem.n \in Nat /\ past.changes \in Nat
          BY <1>0 DEF InfoKeys, InfoTemps, InfoPems, InfoPasts
        <4>4. account'.pem.n # temp.pem.n
          BY <4>2, <4>3
        <4> QED
          BY <2>1, <4>1, <4>2, <4>4
      <3> QED
        BY <1>0, <1>5, <3>1, <3>2, <3>3, <3>4, InfoMoves, Zenon
    <2>3. mod.complete => \A g \in mod.listed \ mod.rows : Renewed(g)'
      <3> SUFFICES ASSUME mod.complete, NEW g \in mod.listed \ mod.rows PROVE Renewed(g)'
        OBVIOUS
      <3>1. g \in Holders /\ Renewed(g)
        BY <1>0, <2>1 DEF InfoMods
      <3>2. \/ <<mod.contract, g>> \in past'.late
            \/ record'[mod.contract][g].key # temp.pem.key
            \/ account.pem.key = temp.pem.key
        <4>1. CASE Info!RegisterInfo
          BY <3>1, <4>1, StillRenewed
        <4>2. CASE ~Info!RegisterInfo
          <5>1. record' = record /\ past'.late = past.late
            BY <1>0, <1>5, <4>2, InfoMoves, Zenon
          <5> QED
            BY <3>1, <5>1 DEF Renewed
        <4> QED
          BY <4>1, <4>2
      <3> QED
        BY <1>5, <2>2, <3>2 DEF Renewed
    <2> QED
      BY <1>5, <2>1, <2>2, <2>3 DEF InfoPass
  <1> QED
    BY <1>0, <1>1, <1>2, <1>3, <1>4, <1>5, InfoMoves, Zenon

LEMMA InfoPreserved ==
    ASSUME InfoAssumption, InfoInv, [Info!Next]_Info!vars
    PROVE  InfoInv'
  BY InfoTypesNext, InfoContractsNext, InfoHistoryNext, InfoKeysNext, InfoPassNext DEF InfoInv

LEMMA InfoInvariant == InfoAssumption => (Info!Spec => []InfoInv)
  <1> SUFFICES ASSUME InfoAssumption PROVE Info!Spec => []InfoInv
    OBVIOUS
  <1>1. Info!Init => InfoInv
    BY InfoInitially
  <1>2. InfoInv /\ [Info!Next]_Info!vars => InfoInv'
    BY InfoPreserved
  <1> QED
    BY <1>1, <1>2, PTL DEF Info!Spec

-----------------------------------------------------------------------------
(* Personal information: what follows from the invariant.                  *)

\* The former key is forgotten at the end of a pass that was complete.
LEMMA InfoForgotten ==
    ASSUME InfoAssumption, InfoInv, [Info!Next]_Info!vars
    PROVE  Info!KeyForgottenUnused
  <1> USE DEF Info!db, Info!chain
  <1> SUFFICES ASSUME temp # Info!NoTemp, temp' = Info!NoTemp, account.pem.key # temp.pem.key,
                      NEW h \in mod.listed, <<mod.contract, h>> \notin past.late
               PROVE  record[mod.contract][h].key # temp.pem.key
    BY DEF Info!KeyForgottenUnused
  <1>0. InfoTypes /\ InfoKeys /\ InfoPass
    BY DEF InfoInv
  <1>1. Info!SinkOnAccount
    <2>1. ~Info!GenerateRsaKey
      BY DEF Info!GenerateRsaKey
    <2>2. \A p \in Passphrases : ~Info!ChangeIssuerRsaPassphrase(p)
      BY DEF Info!ChangeIssuerRsaPassphrase
    <2>3. \A p \in Passphrases : ~Info!CreateIssuerRsaKey(p)
      <3>1. account.status = "changing"
        BY <1>0 DEF InfoKeys
      <3> QED
        BY <3>1 DEF Info!CreateIssuerRsaKey
    <2>4. ~UNCHANGED <<account, temp>>
      OBVIOUS
    <2> QED
      BY <1>0, <2>1, <2>2, <2>3, <2>4, InfoMoves, Zenon
  <1>2. mod.pc = "run" /\ mod.rows = {} /\ mod.complete
    BY <1>1 DEF Info!SinkOnAccount
  <1>3. Renewed(h)
    BY <1>0, <1>2 DEF InfoPass
  <1> QED
    BY <1>3 DEF Renewed

\* The history of personal information has every event of the blocks that are indexed, for
\* any number of holders, events and failures, and once unless the indexer failed in between,
\* if the token keeps its contract.
THEOREM InfoRecorded == InfoAssumption /\ ~ContractChanges => (Info!Spec => []Info!HistoryIsComplete)
  <1> SUFFICES ASSUME InfoAssumption, ~ContractChanges PROVE Info!Spec => []Info!HistoryIsComplete
    OBVIOUS
  <1>1. InfoInv => Info!HistoryIsComplete
    BY InfoComplete
  <1> QED
    BY <1>1, InfoInvariant, PTL

\* When the former key of an issuer is forgotten, no record the last pass knew of needs it,
\* but what was registered late, whatever passphrases, keys and contracts are changed.
THEOREM InfoKeySafe == InfoAssumption => (Info!Spec => [][Info!KeyForgottenUnused]_Info!vars)
  <1> SUFFICES ASSUME InfoAssumption PROVE Info!Spec => [][Info!KeyForgottenUnused]_Info!vars
    OBVIOUS
  <1>1. InfoInv /\ [Info!Next]_Info!vars => [Info!KeyForgottenUnused]_Info!vars
    BY InfoForgotten
  <1> QED
    BY <1>1, InfoInvariant, PTL DEF Info!Spec

==============================================================================
