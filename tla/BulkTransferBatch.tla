-------------------------- MODULE BulkTransferBatch --------------------------
(***************************************************************************)
(* What the bulk transfer of uploads promises, without workers, claims,    *)
(* locks or restarts: lots of pending rows of a pending upload are sent,   *)
(* their result is recorded or forgotten, and an upload is settled once,   *)
(* when all of its rows are.                                               *)
(***************************************************************************)
EXTENDS Integers

CONSTANTS
    Uploads, Rows, UploadOf,
    Keyless,     \* uploads whose issuer has no usable key
    Lots,        \* the sets of rows one transaction may send
    MayForget    \* whether the result of a transaction can be lost

VARIABLES
    status, rows,   \* the two tables
    executed,       \* how often the chain has executed each row
    flight          \* rows sent whose result is not recorded

batchVars == <<status, rows, executed, flight>>

Init ==
    /\ status = [u \in Uploads |-> "absent"]
    /\ rows = [r \in Rows |-> "pending"]
    /\ executed = [r \in Rows |-> 0]
    /\ flight = {}

Post(u) ==
    /\ status[u] = "absent"
    /\ status' = [status EXCEPT ![u] = "pending"]
    /\ UNCHANGED <<rows, executed, flight>>

Execute(u) ==
    /\ status[u] = "pending" /\ u \notin Keyless
    /\ \E lot \in Lots :
          /\ \A r \in lot : UploadOf[r] = u /\ rows[r] = "pending" /\ r \notin flight
          /\ flight' = flight \cup lot
          /\ \/ UNCHANGED executed
             \/ executed' = [r \in Rows |-> IF r \in lot THEN executed[r] + 1
                                            ELSE executed[r]]
    /\ UNCHANGED <<status, rows>>

Record ==
    \E lot \in SUBSET flight, result \in {"succeeded", "failed"} :
        /\ result = "succeeded" => \A r \in lot : executed[r] > 0
        /\ rows' = [r \in Rows |-> IF r \in lot THEN result ELSE rows[r]]
        /\ flight' = flight \ lot
        /\ UNCHANGED <<status, executed>>

Forget ==
    /\ MayForget
    /\ flight' \subseteq flight /\ flight' # flight
    /\ UNCHANGED <<status, rows, executed>>

Settle(u) ==
    /\ status[u] = "pending"
    /\ IF u \in Keyless
         THEN status' = [status EXCEPT ![u] = "failed"]
         ELSE LET mine == {r \in Rows : UploadOf[r] = u}
              IN  /\ \A r \in mine : rows[r] # "pending"
                  /\ status' = [status EXCEPT ![u] =
                        IF \E r \in mine : rows[r] = "failed" THEN "failed"
                        ELSE "succeeded"]
    /\ UNCHANGED <<rows, executed, flight>>

Next == \/ \E u \in Uploads : Post(u) \/ Execute(u) \/ Settle(u)
        \/ Record \/ Forget

Spec == Init /\ [][Next]_batchVars
=============================================================================
