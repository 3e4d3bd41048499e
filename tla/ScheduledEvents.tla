----------------------------- MODULE ScheduledEvents -----------------------------
(***************************************************************************)
(* Scheduled updates of tokens: the endpoints that schedule and delete them   *)
(* (app/routers/issuer/bond.py and share.py) and the workers that carry them  *)
(* out, issuer by issuer (batch/processor_scheduled_events.py).              *)
(***************************************************************************)
EXTENDS Integers, Sequences, FiniteSets, Functions

CONSTANTS
    Workers,        \* SCHEDULED_EVENTS_WORKER_COUNT of them
    Events,
    IssuerOf,       \* issuer of an event
    TypeOf,         \* token type of an event, "bond" or "share"
    At,             \* scheduled_datetime of an event
    End,            \* bound on the clock
    KeyFaults,      \* the account or its key may be missing
    Errors,         \* a connection may fail; what fails always comes to an end
    MaxDeletions,   \* bound on deleted events
    MaxFaults       \* bound on failures

Issuers == {IssuerOf[e] : e \in Events}
Nobody == "nobody"

ScheduledEventsAssumption ==
    /\ IsFiniteSet(Events) /\ DOMAIN IssuerOf = Events /\ Nobody \notin Issuers
    /\ TypeOf \in [Events -> {"bond", "share"}] /\ At \in [Events -> 0..End] /\ End \in Nat
    /\ KeyFaults \in BOOLEAN /\ Errors \in BOOLEAN /\ MaxDeletions \in Nat /\ MaxFaults \in Nat

VARIABLES
    rows,       \* table scheduled_events in the order of id
    status,     \* 0 pending, 1 succeeded, 2 failed, of rows that are or were there
    soft,       \* is_soft_deleted
    log,        \* token_update_operation_log
    notes,      \* notifications
    chain,      \* updates the chain has carried out in full
    now,
    pc,         \* of a worker: "idle", "claim", "load", "event", "save" or "off"
    filter,     \* process_start_time
    issuer,     \* issuer a worker has claimed
    list,       \* events_list that is left
    outcome,    \* of the event that is being saved
    claimed,    \* processing_issuers
    shutdown,
    past        \* failures, deletions, what was lost, rows there when a list was read

db == <<rows, status, soft, log, notes>>
local == <<filter, issuer, list, outcome>>
vars == <<db, chain, now, pc, local, claimed, shutdown, past>>

Init ==
    /\ rows = <<>> /\ status = [e \in Events |-> 0] /\ soft = {} /\ log = <<>> /\ notes = <<>>
    /\ chain = [e \in Events |-> 0] /\ now = 0
    /\ pc = [w \in Workers |-> "idle"] /\ filter = [w \in Workers |-> 0]
    /\ issuer = [w \in Workers |-> Nobody] /\ list = [w \in Workers |-> <<>>]
    /\ outcome = [w \in Workers |-> "none"] /\ claimed = {} /\ shutdown = FALSE
    /\ past = [faults |-> 0, deleted |-> {}, lost |-> {}, seen |-> [w \in Workers |-> {}]]

Known(e) == e \in Range(rows) \/ e \in past.deleted
Id(e) == CHOOSE i \in DOMAIN rows : rows[i] = e
Without(s, i) == SubSeq(s, 1, i - 1) \o SubSeq(s, i + 1, Len(s))
Goto(w, where) == pc' = [pc EXCEPT ![w] = where]

-----------------------------------------------------------------------------
(* API.                                                                    *)

\* The rows of one request, in one commit, each with an id of its own.
Schedule(new, type) ==
    /\ IsInjective(new) /\ \A e \in Range(new) : ~Known(e) /\ TypeOf[e] = type
    /\ rows' = rows \o new
    /\ UNCHANGED <<status, soft, log, notes, chain, now, pc, local, claimed, shutdown, past>>

Requests == UNION {[1..n -> Events] : n \in 2..Cardinality(Events)}
ScheduleBondTokenUpdateEvent(e) == Schedule(<<e>>, "bond")
ScheduleShareTokenUpdateEvent(e) == Schedule(<<e>>, "share")
ScheduleBondTokenUpdateEventsInBatch(s) == Schedule(s, "bond")
ScheduleShareTokenUpdateEventsInBatch(s) == Schedule(s, "share")

\* A row, whatever its status, is marked or removed.
Delete(e, type) ==
    /\ e \in Range(rows) /\ TypeOf[e] = type
    /\ Cardinality(past.deleted) < MaxDeletions /\ past' = [past EXCEPT !.deleted = @ \cup {e}]
    /\ \/ soft' = soft \cup {e} /\ UNCHANGED rows
       \/ rows' = Without(rows, Id(e)) /\ UNCHANGED soft
    /\ UNCHANGED <<status, log, notes, chain, now, pc, local, claimed, shutdown>>

DeleteScheduledBondTokenUpdateEvent(e) == Delete(e, "bond")
DeleteScheduledShareTokenUpdateEvent(e) == Delete(e, "share")

Tick == now < End /\ now' = now + 1
        /\ UNCHANGED <<db, chain, pc, local, claimed, shutdown, past>>

-----------------------------------------------------------------------------
(* Workers.                                                                *)

StartPass(w) ==
    /\ pc[w] = "idle" /\ ~shutdown /\ Goto(w, "claim") /\ filter' = [filter EXCEPT ![w] = now]
    /\ UNCHANGED <<db, chain, now, issuer, list, outcome, claimed, shutdown, past>>

\* Pending events that are due, by date and then by id.
Due(t) == {e \in Range(rows) : status[e] = 0 /\ e \notin soft /\ At[e] <= t}
Earlier(e, f) == At[e] < At[f] \/ (At[e] = At[f] /\ Id(e) < Id(f))

\* Mutant: issuers other workers have claimed are not left out.
Claim_Shared(w) ==
    /\ pc[w] = "claim" /\ ~shutdown
    /\ LET free == Due(filter[w])
       IN  IF free = {}
           THEN Goto(w, "idle") /\ UNCHANGED <<issuer, claimed>>
           ELSE \E first \in free :
                    /\ \A f \in free \ {first} : Earlier(first, f)
                    /\ Goto(w, "load") /\ issuer' = [issuer EXCEPT ![w] = IssuerOf[first]]
                    /\ claimed' = claimed \cup {IssuerOf[first]}
    /\ UNCHANGED <<db, chain, now, filter, list, outcome, shutdown, past>>

\* Under the lock: the issuer of the first event that no worker has claimed.
Claim(w) ==
    /\ pc[w] = "claim" /\ ~shutdown
    /\ LET free == {e \in Due(filter[w]) : IssuerOf[e] \notin claimed}
       IN  IF free = {}
           THEN Goto(w, "idle") /\ UNCHANGED <<issuer, claimed>>
           ELSE \E first \in free :
                    /\ \A f \in free \ {first} : Earlier(first, f)
                    /\ Goto(w, "load") /\ issuer' = [issuer EXCEPT ![w] = IssuerOf[first]]
                    /\ claimed' = claimed \cup {IssuerOf[first]}
    /\ UNCHANGED <<db, chain, now, filter, list, outcome, shutdown, past>>

InOrder(S) ==
    {s \in [1..Cardinality(S) -> S] :
        Range(s) = S /\ \A i, j \in DOMAIN s : i < j => Earlier(s[i], s[j])}

\* The events of the issuer; the pass ends, and the claim stays, when they are gone
\* or the statement fails.
LoadEvents(w) ==
    /\ pc[w] = "load"
    /\ LET own == {e \in Due(filter[w]) : IssuerOf[e] = issuer[w]}
       IN  \/ /\ own # {} /\ Goto(w, "event")
              /\ \E s \in InOrder(own) : list' = [list EXCEPT ![w] = s]
              /\ past' = [past EXCEPT !.seen[w] = Range(rows)] /\ UNCHANGED issuer
           \/ own = {} /\ Goto(w, "idle") /\ issuer' = [issuer EXCEPT ![w] = Nobody]
              /\ UNCHANGED <<list, past>>
           \/ Errors /\ past.faults < MaxFaults /\ past' = [past EXCEPT !.faults = @ + 1]
              /\ Goto(w, "idle") /\ issuer' = [issuer EXCEPT ![w] = Nobody] /\ UNCHANGED list
    /\ UNCHANGED <<db, chain, now, filter, outcome, claimed, shutdown>>

\* The list is done, or left because of the flag or of an error; the issuer is
\* released.
Released(w, where) ==
    /\ Goto(w, where) /\ list' = [list EXCEPT ![w] = <<>>]
    /\ claimed' = claimed \ {issuer[w]} /\ issuer' = [issuer EXCEPT ![w] = Nobody]

ReleaseProcessingIssuer(w) ==
    /\ pc[w] = "event" /\ (shutdown \/ list[w] = <<>>) /\ Released(w, "claim")
    /\ past' = [past EXCEPT !.seen[w] = {}]
    /\ UNCHANGED <<db, chain, now, filter, outcome, shutdown>>

\* The flag is seen by the loop of the pass or of the worker.
LeavePass(w) ==
    /\ pc[w] \in {"claim", "idle"} /\ shutdown /\ Goto(w, "off")
    /\ UNCHANGED <<db, chain, now, local, claimed, shutdown, past>>

Finish(w, result) == Goto(w, "save") /\ outcome' = [outcome EXCEPT ![w] = result]

\* Codes 0 and 1 of the notification
NoKey(w) ==
    /\ pc[w] = "event" /\ ~shutdown /\ list[w] # <<>> /\ KeyFaults
    /\ \E code \in {"no account", "no key"} : Finish(w, code)
    /\ UNCHANGED <<db, chain, now, filter, issuer, list, claimed, shutdown, past>>

\* update() of the token: carried out; or reverted, refused or given up: code 2.
Execute(w) ==
    /\ pc[w] = "event" /\ ~shutdown /\ list[w] # <<>>
    /\ \/ Finish(w, "updated") /\ chain' = [chain EXCEPT ![Head(list[w])] = @ + 1]
       \/ Finish(w, "not sent") /\ UNCHANGED chain
    /\ UNCHANGED <<db, now, filter, issuer, list, claimed, shutdown, past>>

\* Mutant: the list goes on after an error.
ExecuteFails_GoOn(w) ==
    /\ pc[w] = "event" /\ ~shutdown /\ list[w] # <<>> /\ Errors
    /\ past.faults < MaxFaults /\ past' = [past EXCEPT !.faults = @ + 1]
    /\ list' = [list EXCEPT ![w] = Tail(@)]
    /\ UNCHANGED <<db, chain, now, pc, filter, issuer, outcome, claimed, shutdown>>

\* The connection fails before anything is carried out in full: the list is left.
ExecuteFails(w) ==
    /\ pc[w] = "event" /\ ~shutdown /\ list[w] # <<>> /\ Errors
    /\ past.faults < MaxFaults /\ past' = [past EXCEPT !.faults = @ + 1, !.seen[w] = {}]
    /\ Released(w, "claim")
    /\ UNCHANGED <<db, chain, now, filter, outcome, shutdown>>

\* The status, and the operation log or a notification, in one commit; an event that
\* was deleted meanwhile has no row, but its log or notification is written.
Save(w) ==
    /\ pc[w] = "save"
    /\ LET e == Head(list[w])
           ok == outcome[w] = "updated"
       IN  /\ status' = [status EXCEPT ![e] = IF e \notin Range(rows) THEN @ ELSE IF ok THEN 1 ELSE 2]
           /\ log' = IF ok THEN Append(log, e) ELSE log
           /\ notes' = IF ok THEN notes ELSE Append(notes, [event |-> e, code |-> outcome[w]])
    /\ Goto(w, "event") /\ list' = [list EXCEPT ![w] = Tail(@)]
    /\ outcome' = [outcome EXCEPT ![w] = "none"]
    /\ UNCHANGED <<rows, soft, chain, now, filter, issuer, claimed, shutdown, past>>

\* The commit is refused: the issuer is released, and the pass may end.
SaveFails(w) ==
    /\ pc[w] = "save" /\ past.faults < MaxFaults
    /\ past' = [past EXCEPT !.faults = @ + 1, !.seen[w] = {}, !.lost = @ \cup {Head(list[w])}]
    /\ \E where \in {"claim", "idle"} : Released(w, where)
    /\ outcome' = [outcome EXCEPT ![w] = "none"]
    /\ UNCHANGED <<db, chain, now, filter, shutdown>>

Shutdown ==
    /\ ~shutdown /\ past.faults < MaxFaults /\ shutdown' = TRUE
    /\ past' = [past EXCEPT !.faults = @ + 1]
    /\ UNCHANGED <<db, chain, now, pc, local, claimed>>

\* The process dies with all its workers and claims.
Crash ==
    /\ past.faults < MaxFaults /\ \E w \in Workers : pc[w] \notin {"idle", "off"}
    /\ past' = [past EXCEPT !.faults = @ + 1, !.seen = [w \in Workers |-> {}],
                  !.lost = @ \cup {Head(list[w]) : w \in {v \in Workers : pc[v] = "save"}}]
    /\ pc' = [w \in Workers |-> "off"] /\ claimed' = {} /\ shutdown' = TRUE
    /\ issuer' = [w \in Workers |-> Nobody] /\ list' = [w \in Workers |-> <<>>]
    /\ outcome' = [w \in Workers |-> "none"]
    /\ UNCHANGED <<db, chain, now, filter>>

\* The container starts the process again when every worker has ended.
Restart ==
    /\ \A w \in Workers : pc[w] = "off"
    /\ pc' = [w \in Workers |-> "idle"] /\ claimed' = {} /\ shutdown' = FALSE
    /\ UNCHANGED <<db, chain, now, local, past>>

WorkerStep(w) ==
    \/ StartPass(w) \/ Claim(w) \/ LoadEvents(w) \/ ReleaseProcessingIssuer(w) \/ LeavePass(w)
    \/ NoKey(w) \/ Execute(w) \/ ExecuteFails(w) \/ Save(w)

Next ==
    \/ \E e \in Events : ScheduleBondTokenUpdateEvent(e) \/ ScheduleShareTokenUpdateEvent(e)
    \/ \E s \in Requests : \/ ScheduleBondTokenUpdateEventsInBatch(s)
                           \/ ScheduleShareTokenUpdateEventsInBatch(s)
    \/ \E e \in Events : \/ DeleteScheduledBondTokenUpdateEvent(e)
                         \/ DeleteScheduledShareTokenUpdateEvent(e)
    \/ \E w \in Workers : WorkerStep(w) \/ SaveFails(w)
    \/ Tick \/ Shutdown \/ Crash \/ Restart

Spec == Init /\ [][Next]_vars

-----------------------------------------------------------------------------
(* Queries.                                                                *)

\* The events of a token type, and of all types in the order of id.
ListEvents(type) == {e \in Range(rows) : TypeOf[e] = type}
ListAllScheduledBondTokenUpdateEvents == ListEvents("bond")
ListAllScheduledShareTokenUpdateEvents == ListEvents("share")
ListAllScheduledEvents == rows

NotFound == [status |-> 3, is_soft_deleted |-> FALSE]
RetrieveEvent(e, type) ==
    IF e \in Range(rows) /\ TypeOf[e] = type
    THEN [status |-> status[e], is_soft_deleted |-> e \in soft] ELSE NotFound
RetrieveScheduledBondTokenUpdateEvent(e) == RetrieveEvent(e, "bond")
RetrieveScheduledShareTokenUpdateEvent(e) == RetrieveEvent(e, "share")
Answers(e) ==
    {RetrieveScheduledBondTokenUpdateEvent(e), RetrieveScheduledShareTokenUpdateEvent(e)} \ {NotFound}

-----------------------------------------------------------------------------
(* Properties.                                                             *)

\* Every variable keeps its type.
TypeOK ==
    /\ IsInjective(rows) /\ Range(rows) \subseteq Events /\ status \in [Events -> 0..2]
    /\ soft \subseteq past.deleted /\ claimed \subseteq Issuers /\ now \in 0..End
    /\ \A w \in Workers :
          /\ pc[w] \in {"idle", "claim", "load", "event", "save", "off"} /\ filter[w] <= now
          /\ (issuer[w] \in Issuers) = (pc[w] \in {"load", "event", "save"})
          /\ (pc[w] \in {"load", "event", "save"} => issuer[w] \in claimed)
          /\ \A e \in Range(list[w]) : IssuerOf[e] = issuer[w]

\* No two workers have an issuer at a time, and an event is carried out once at
\* most, unless the commit of its status was lost; the log says how often.
ExecutedOnce ==
    /\ \A v, w \in Workers : v # w /\ issuer[v] = issuer[w] => issuer[v] = Nobody
    /\ \A e \in Events \ past.lost :
          LET saving == {w \in Workers : pc[w] = "save" /\ outcome[w] = "updated" /\ Head(list[w]) = e}
              logged == {i \in DOMAIN log : log[i] = e}
          IN  chain[e] <= 1 /\ chain[e] = Cardinality(logged) + Cardinality(saving)

\* The status a query shows is the outcome: 1 carried out and logged, 2 not carried
\* out and notified of once, 0 nothing written yet. The lists show the same events.
StatusIsTrue ==
    /\ \A e \in Events : \A a \in Answers(e) :
          LET told == Cardinality({i \in DOMAIN notes : notes[i].event = e})
          IN  /\ a.status = 1 => e \in Range(log) /\ told = 0
              /\ a.status = 2 => told = 1 /\ e \notin Range(log)
              /\ a.status = 0 => told = 0 /\ e \notin Range(log)
    /\ Range(ListAllScheduledEvents) = {e \in Events : Answers(e) # {}}
    /\ ListAllScheduledBondTokenUpdateEvents \cup ListAllScheduledShareTokenUpdateEvents
       = Range(ListAllScheduledEvents)

\* The updates of an issuer are carried out in the order of their dates: no event
\* that was there when the list was read, and is still pending, comes earlier.
CarriedOutInOrder ==
    \A w \in Workers :
       (pc[w] = "event" /\ pc'[w] = "save" /\ outcome'[w] = "updated") =>
          \A e \in past.seen[w] \cap Range(rows) :
             (IssuerOf[e] = issuer[w] /\ status[e] = 0 /\ e \notin soft
              /\ e # Head(list[w]) /\ Head(list[w]) \in Range(rows))
             => ~Earlier(e, Head(list[w]))

\* An event is settled or deleted, or the claim of its issuer is kept by no worker.
Settled(e) ==
    \/ status[e] # 0 \/ e \in past.deleted
    \/ IssuerOf[e] \in claimed /\ \A w \in Workers : issuer[w] # IssuerOf[e]
=============================================================================
