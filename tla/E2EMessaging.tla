------------------------------ MODULE E2EMessaging ------------------------------
(***************************************************************************)
(* E2E messaging: accounts with RSA keys that are published on the chain and  *)
(* renewed (app/routers/misc/e2e_messaging.py,                               *)
(* batch/processor_rotate_e2e_messaging_rsa_key.py), and messages that are    *)
(* decrypted with the key of their time (batch/indexer_e2e_messaging.py).     *)
(***************************************************************************)
EXTENDS Integers, Sequences, FiniteSets

CONSTANTS
    Accounts,
    Intervals,      \* rsa_key_generate_interval, in the unit of time; 0 for never
    Generations,    \* rsa_generation; 0 for all
    Passphrases, FirstPassphrase,
    MaxTime,        \* bound on the time
    MaxKeys,        \* bound on keys
    MaxMessages,    \* bound on messages
    MaxFaults       \* bound on failures

E2EMessagingAssumption ==
    /\ Intervals \cup Generations \cup {MaxTime, MaxKeys, MaxMessages, MaxFaults} \subseteq Nat
    /\ FirstPassphrase \in Passphrases

VARIABLES
    status,     \* of an account: absent, active, deleted
    interval, generation,
    keys,       \* e2e_messaging_account_rsa_key; born tells when the row was committed
    log,        \* PublicKeyUpdated and Message events
    now,        \* time of the block that is being built
    index,      \* idx_e2e_messaging: how often a message is in it
    synced,     \* time of the last block the index has
    opening,    \* accounts whose key is published and not committed: the key and its time
    rot,        \* rotation: where it is, its accounts, the account, key and passphrase it has
    ix,         \* indexer: where it is, the block it goes to, messages left and read
    used        \* numbers of keys and failures

api == <<status, interval, generation>>
vars == <<api, keys, log, now, index, synced, opening, rot, ix, used>>

IdleRot == [pc |-> "idle", list |-> {}, account |-> "none", base |-> 0, key |-> 0, time |-> 0,
            passphrase |-> FirstPassphrase]
IdleIx == [pc |-> "idle", upto |-> 0, todo |-> {}, found |-> {}]

Init ==
    /\ status = [a \in Accounts |-> "absent"]
    /\ interval = [a \in Accounts |-> 0] /\ generation = [a \in Accounts |-> 0]
    /\ keys = [a \in Accounts |-> {}] /\ log = <<>> /\ now = 1
    /\ index = [i \in 1..(MaxKeys + MaxMessages) |-> 0] /\ synced = 0 /\ opening = {}
    /\ rot = IdleRot /\ ix = IdleIx
    /\ used = [keys |-> 0, faults |-> 0]

Row(k, t, p) == [key |-> k, time |-> t, passphrase |-> p, born |-> Len(log)]
Newest(S) == {r \in S : \A s \in S : s.time <= r.time}
Is(i, type, a) == log[i].type = type /\ log[i].account = a
Published(a) ==
    LET own == {i \in DOMAIN log : Is(i, "key", a)}
    IN  IF own = {} THEN 0 ELSE log[CHOOSE i \in own : \A j \in own : j <= i].key
MessagesSent == Cardinality({i \in DOMAIN log : log[i].type = "message"})

Tick ==
    /\ now < MaxTime /\ now' = now + 1
    /\ UNCHANGED <<api, keys, log, index, synced, opening, rot, ix, used>>

SetPublicKey(a) ==
    /\ used.keys < MaxKeys
    /\ log' = Append(log, [type |-> "key", account |-> a, key |-> used.keys + 1, time |-> now])

-----------------------------------------------------------------------------
(* API.                                                                    *)

\* The key is published, and then account and key are committed, unless that fails.
CreateAccount(a) ==
    /\ status[a] = "absent" /\ \A o \in opening : o.account # a
    /\ SetPublicKey(a) /\ used' = [used EXCEPT !.keys = @ + 1]
    /\ opening' = opening \cup {[account |-> a, key |-> used.keys + 1, time |-> now]}
    /\ UNCHANGED <<api, keys, now, index, synced, rot, ix>>

RegisterAccount(i, g) ==
    \E o \in opening :
       LET a == o.account
       IN  /\ opening' = opening \ {o} /\ status' = [status EXCEPT ![a] = "active"]
           /\ interval' = [interval EXCEPT ![a] = i] /\ generation' = [generation EXCEPT ![a] = g]
           /\ keys' = [keys EXCEPT ![a] = {Row(o.key, o.time, FirstPassphrase)}]
           /\ UNCHANGED <<log, now, index, synced, rot, ix, used>>

DeleteAccount(a) ==
    /\ status[a] = "active" /\ status' = [status EXCEPT ![a] = "deleted"]
    /\ keys' = [keys EXCEPT ![a] = {}]
    /\ UNCHANGED <<interval, generation, log, now, index, synced, opening, rot, ix, used>>

UpdateRsaKey(a, i, g) ==
    /\ status[a] = "active"
    /\ interval' = [interval EXCEPT ![a] = i] /\ generation' = [generation EXCEPT ![a] = g]
    /\ UNCHANGED <<status, keys, log, now, index, synced, opening, rot, ix, used>>

\* Of the newest key.
ChangeRsaPassphrase(a, p) ==
    /\ \E r \in Newest(keys[a]) :
          /\ r.passphrase # p
          /\ keys' = [keys EXCEPT ![a] = (@ \ {r}) \cup {[r EXCEPT !.passphrase = p]}]
    /\ UNCHANGED <<api, log, now, index, synced, opening, rot, ix, used>>

\* The key an account shows: none when it is deleted.
RetrieveAccount(a) == IF status[a] = "active" THEN {r.key : r \in Newest(keys[a])} ELSE {}
\* The list shows the newest key of any account.
ListAllAccounts == [a \in Accounts |-> {r.key : r \in Newest(keys[a])}]
ListAllMessages == {i \in DOMAIN index : index[i] > 0}

\* A sender encrypts with a key that it read from the chain, now or earlier.
SendMessage(a) ==
    /\ MessagesSent < MaxMessages
    /\ \E i \in DOMAIN log :
          /\ Is(i, "key", a)
          /\ log' = Append(log, [type |-> "message", account |-> a, key |-> log[i].key, time |-> now])
    /\ UNCHANGED <<api, keys, now, index, synced, opening, rot, ix, used>>

-----------------------------------------------------------------------------
(* Rotation.                                                               *)

GetAccountList ==
    /\ rot.pc = "idle" /\ \E a \in Accounts : status[a] = "active"
    /\ rot' = [IdleRot EXCEPT !.pc = "next", !.list = {a \in Accounts : status[a] = "active"}, !.base = now]
    /\ UNCHANGED <<api, keys, log, now, index, synced, opening, ix, used>>

EndOfList ==
    /\ rot.pc = "next" /\ rot.list = {} /\ rot' = IdleRot
    /\ UNCHANGED <<api, keys, log, now, index, synced, opening, ix, used>>

\* Without a newest key, of an account that was deleted meanwhile, the pass ends.
GetLatestKey ==
    /\ rot.pc = "next"
    /\ \E a \in rot.list :
          IF interval[a] = 0
          THEN rot' = [rot EXCEPT !.pc = "commit", !.account = a, !.key = 0]
          ELSE \/ /\ keys[a] = {} /\ rot' = IdleRot
               \/ \E r \in Newest(keys[a]) :
                     rot' = [rot EXCEPT !.account = a, !.passphrase = r.passphrase, !.key = 0,
                               !.pc = IF rot.base - r.time < interval[a] THEN "commit" ELSE "send"]
    /\ UNCHANGED <<api, keys, log, now, index, synced, opening, ix, used>>

AutoGenerateRsaKey ==
    /\ rot.pc = "send" /\ SetPublicKey(rot.account) /\ used' = [used EXCEPT !.keys = @ + 1]
    /\ rot' = [rot EXCEPT !.pc = "commit", !.key = used.keys + 1, !.time = now]
    /\ UNCHANGED <<api, keys, now, index, synced, opening, ix>>

\* A transaction that is not mined, or mined after the time that was waited.
AutoGenerateFails ==
    /\ rot.pc = "send" /\ used.faults < MaxFaults /\ rot' = [rot EXCEPT !.pc = "commit"]
    /\ \/ SetPublicKey(rot.account) /\ used' = [keys |-> used.keys + 1, faults |-> used.faults + 1]
       \/ UNCHANGED log /\ used' = [used EXCEPT !.faults = @ + 1]
    /\ UNCHANGED <<api, keys, now, index, synced, opening, ix>>

Exceeding(a, S) ==
    IF generation[a] = 0 THEN {} ELSE {r \in S : Cardinality({s \in S : s.time > r.time}) >= generation[a]}

\* The new key and the keys that are over the number of generations are one commit.
RotateRsaKey ==
    /\ rot.pc = "commit"
    /\ LET a == rot.account
           all == keys[a] \cup (IF rot.key = 0 THEN {} ELSE {Row(rot.key, rot.time, rot.passphrase)})
       IN  keys' = [keys EXCEPT ![a] = all \ Exceeding(a, all)]
    /\ rot' = [IdleRot EXCEPT !.pc = "next", !.base = rot.base, !.list = rot.list \ {rot.account}]
    /\ UNCHANGED <<api, log, now, index, synced, opening, ix, used>>

\* A process, its database or its node fails: the pass, or the request, ends.
Crash ==
    /\ used.faults < MaxFaults /\ used' = [used EXCEPT !.faults = @ + 1]
    /\ \/ rot.pc # "idle" /\ rot' = IdleRot /\ UNCHANGED <<ix, opening>>
       \/ ix.pc # "idle" /\ ix' = IdleIx /\ UNCHANGED <<rot, opening>>
       \/ \E o \in opening : opening' = opening \ {o} /\ UNCHANGED <<rot, ix>>
    /\ UNCHANGED <<api, keys, log, now, index, synced>>

-----------------------------------------------------------------------------
(* Index.                                                                  *)

\* The messages of the blocks that are complete.
SyncAll ==
    /\ ix.pc = "idle" /\ synced < now - 1
    /\ ix' = [ix EXCEPT !.pc = "run", !.upto = now - 1,
                !.todo = {i \in DOMAIN log : log[i].type = "message" /\ synced < log[i].time /\ log[i].time < now}]
    /\ UNCHANGED <<api, keys, log, now, index, synced, opening, rot, used>>

\* Mutant: the key is the newest one, whatever the time of the message.
Readable_Newest(i) ==
    /\ status[log[i].account] = "active"
    /\ \E r \in Newest(keys[log[i].account]) : r.key = log[i].key

\* The account is known, and its newest key of that time or before opens the message.
Readable(i) ==
    /\ status[log[i].account] = "active"
    /\ \E r \in Newest({s \in keys[log[i].account] : s.time <= log[i].time}) : r.key = log[i].key

SyncMessage ==
    /\ ix.pc = "run"
    /\ \E i \in ix.todo :
          /\ \A j \in ix.todo : i <= j
          /\ ix' = [ix EXCEPT !.todo = @ \ {i}, !.found = IF Readable(i) THEN @ \cup {i} ELSE @]
    /\ UNCHANGED <<api, keys, log, now, index, synced, opening, rot, used>>

\* The messages and the block are one commit.
SetBlockNumber ==
    /\ ix.pc = "run" /\ ix.todo = {} /\ ix' = IdleIx /\ synced' = ix.upto
    /\ index' = [i \in DOMAIN index |-> index[i] + (IF i \in ix.found THEN 1 ELSE 0)]
    /\ UNCHANGED <<api, keys, log, now, opening, rot, used>>

Rotation == GetAccountList \/ EndOfList \/ GetLatestKey \/ AutoGenerateRsaKey \/ RotateRsaKey
Indexer == SyncAll \/ SyncMessage \/ SetBlockNumber

Next ==
    \/ Tick \/ Rotation \/ AutoGenerateFails \/ Indexer \/ Crash
    \/ \E a \in Accounts :
          \/ CreateAccount(a) \/ DeleteAccount(a) \/ SendMessage(a)
          \/ \E p \in Passphrases : ChangeRsaPassphrase(a, p)
          \/ \E i \in Intervals, g \in Generations : UpdateRsaKey(a, i, g)
    \/ \E i \in Intervals, g \in Generations : RegisterAccount(i, g)

Spec == Init /\ [][Next]_vars

-----------------------------------------------------------------------------
(* Properties.                                                             *)

\* Every variable keeps its type; an account that is active always has a key to show.
TypeOK ==
    /\ \A a \in Accounts :
          /\ status[a] \in {"absent", "active", "deleted"} /\ interval[a] \in {0} \cup Intervals
          /\ (status[a] = "active") => RetrieveAccount(a) # {} /\ Cardinality(ListAllAccounts[a]) = 1
          /\ status[a] = "absent" => keys[a] = {}
    /\ synced < now /\ rot.key <= used.keys

\* A message is indexed once when it was encrypted with the key the chain had at its time,
\* unless that key was committed after the message, or is deleted by now.
MessageIsRead ==
    \A i \in DOMAIN log :
       /\ index[i] <= 1
       /\ LET a == log[i].account
              later == {j \in DOMAIN log : Is(j, "key", a) /\ log[j].key > log[i].key /\ log[j].time <= log[i].time}
          IN  /\ log[i].type = "message" /\ log[i].time <= synced /\ status[a] = "active" /\ later = {}
              /\ \E r \in keys[a] : r.key = log[i].key /\ r.born < i
              => i \in ListAllMessages

\* While the keys of an account are renewed, the one that is published is in a row.
PublishedIsReadable(a) ==
    status[a] = "active" /\ interval[a] > 0 => Published(a) \in {r.key : r \in keys[a]}
=============================================================================
