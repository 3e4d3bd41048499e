------------------------------- MODULE PersonalInfo -------------------------------
(***************************************************************************)
(* Personal information of token holders, encrypted on the chain with the RSA *)
(* key of the issuer: the change of that key (app/routers/issuer/account.py,  *)
(* batch/processor_generate_rsa_key.py, processor_modify_personal_info.py),   *)
(* registrations (bond.py, share.py, app/model/ibet/personal_info.py) and     *)
(* the decrypted index (batch/indexer_personal_info.py), of one issuer.      *)
(***************************************************************************)
EXTENDS Integers, Sequences, FiniteSets

CONSTANTS
    Holders,
    Contracts,          \* PersonalInfo contracts
    FirstContract,
    ContractChanges,    \* the token of the issuer may be given another contract
    PassphraseChanges,  \* bound on changes of the passphrase
    Passphrases,
    MaxKeys,            \* bound on RSA keys
    MaxWrites,          \* bound on registrations
    MaxFaults,          \* bound on failures
    MaxEvents           \* bound on events of the contracts

PersonalInfoAssumption ==
    /\ FirstContract \in Contracts /\ ContractChanges \in BOOLEAN
    /\ {PassphraseChanges, MaxKeys, MaxWrites, MaxFaults, MaxEvents} \subseteq Nat /\ Passphrases # {}

VARIABLES
    account,    \* rsa_private_key, rsa_public_key, rsa_passphrase and rsa_status of the issuer
    temp,       \* account_rsa_key_temporary: the former key, or NoTemp
    contract,   \* personal_info_contract_address of the token
    record,     \* of a contract and a holder: the key and the value that is encrypted
    events,     \* Register and Modify events of the contracts
    index,      \* idx_personal_info: data source and decrypted value, 0 for none
    history,    \* idx_personal_info_history: number of rows of an event
    synced,     \* block the index has reached
    flight,     \* registrations of the API that are not on the chain yet
    ix,         \* indexer: where it is, the key and the contract it has, and its range
    mod,        \* re-encryption: where it is, its rows, what it found
    past        \* numbers of keys, writes, changes and failures; what came late

db == <<account, temp, index, history, synced>>
chain == <<contract, record, events>>
vars == <<db, chain, flight, ix, mod, past>>

\* A private key is kept encrypted with a passphrase; n tells apart what is written of it.
NoPem == [key |-> 0, passphrase |-> "none", n |-> 0]
NoTemp == [pem |-> NoPem, passphrase |-> "none"]
Empty == [key |-> 0, value |-> 0]
IdleIx == [pc |-> "idle", key |-> 0, contract |-> FirstContract, todo |-> {}, upto |-> 0]
IdleMod == [pc |-> "idle", rows |-> {}, listed |-> {}, complete |-> TRUE, value |-> 0,
            holder |-> "none", contract |-> FirstContract]

Init ==
    /\ account = [pem |-> NoPem, pub |-> 0, passphrase |-> "none", status |-> "unset"]
    /\ temp = NoTemp /\ contract = FirstContract
    /\ record = [c \in Contracts |-> [h \in Holders |-> Empty]] /\ events = <<>>
    /\ index = [h \in Holders |-> [source |-> "none", value |-> 0]]
    /\ history = <<>> /\ synced = 0 /\ flight = {} /\ ix = IdleIx /\ mod = IdleMod
    /\ past = [keys |-> 0, writes |-> 0, changes |-> 0, faults |-> 0,
               late |-> {}, blind |-> {}, crashed |-> FALSE]

Fault == past.faults < MaxFaults

-----------------------------------------------------------------------------
(* The issuer's key.                                                       *)

\* Refused while a key is generated or changed. The passphrase is the new one at once.
CreateIssuerRsaKey(p) ==
    /\ account.status \in {"unset", "set"} /\ past.keys < MaxKeys
    /\ IF account.status = "set"
       THEN /\ temp' = [pem |-> account.pem, passphrase |-> account.passphrase]
            /\ account' = [account EXCEPT !.passphrase = p, !.status = "changing"]
       ELSE account' = [account EXCEPT !.passphrase = p, !.status = "creating"] /\ UNCHANGED temp
    /\ past' = [past EXCEPT !.keys = @ + 1]
    /\ UNCHANGED <<index, history, synced, chain, flight, ix, mod>>

\* Whatever the status; the key must open with the passphrase of the account.
ChangeIssuerRsaPassphrase(p) ==
    /\ account.status # "unset" /\ past.changes < PassphraseChanges
    /\ account.pem.key # 0 /\ account.pem.passphrase = account.passphrase
    /\ account' = [account EXCEPT !.passphrase = p,
                     !.pem = [@ EXCEPT !.passphrase = p, !.n = past.changes + 1]]
    /\ past' = [past EXCEPT !.changes = @ + 1]
    /\ UNCHANGED <<temp, index, history, synced, chain, flight, ix, mod>>

\* A key that is created, or changed and not generated yet.
GenerateRsaKey ==
    /\ \/ account.status = "creating"
       \/ account.status = "changing" /\ account.pem = temp.pem
    /\ account' = [account EXCEPT !.pub = past.keys, !.status = IF @ = "creating" THEN "set" ELSE @,
                     !.pem = [key |-> past.keys, passphrase |-> account.passphrase, n |-> 0]]
    /\ UNCHANGED <<temp, index, history, synced, chain, flight, ix, mod, past>>

-----------------------------------------------------------------------------
(* Registrations.                                                          *)

\* The request reads the public key; the transaction is mined later, or never.
RegisterPersonalInfo(h) ==
    /\ account.pub # 0 /\ past.writes < MaxWrites
    /\ flight' = flight \cup {[holder |-> h, key |-> account.pub, value |-> past.writes + 1, contract |-> contract]}
    /\ past' = [past EXCEPT !.writes = @ + 1]
    /\ UNCHANGED <<db, chain, ix, mod>>

RegisterBondTokenHolderPersonalInfo(h) == RegisterPersonalInfo(h)
RegisterShareTokenHolderPersonalInfo(h) == RegisterPersonalInfo(h)

Write(type, c, h, key, value) ==
    /\ Len(events) < MaxEvents
    /\ record' = [record EXCEPT ![c][h] = [key |-> key, value |-> value]]
    /\ events' = Append(events, [type |-> type, holder |-> h, contract |-> c])

\* forceRegister is mined; late when the key has been changed meanwhile, or is about to
\* be forgotten by a pass that does not know of the record.
RegisterInfo ==
    \E r \in flight :
       /\ flight' = flight \ {r} /\ Write("Register", r.contract, r.holder, r.key, r.value)
       /\ past' = [past EXCEPT !.late = IF r.key # account.pub THEN @ \cup {<<r.contract, r.holder>>}
                                                        ELSE @ \ {<<r.contract, r.holder>>}]
       /\ UNCHANGED <<db, contract, ix, mod>>

RegisterInfoFails ==
    /\ Fault /\ past' = [past EXCEPT !.faults = @ + 1]
    /\ \E r \in flight : flight' = flight \ {r}
    /\ UNCHANGED <<db, chain, ix, mod>>

\* Off-chain information replaces the row, whatever its source, and is not on the chain;
\* its row of the history belongs to no event.
RegisterOffChain(h) ==
    /\ past.writes < MaxWrites /\ past' = [past EXCEPT !.writes = @ + 1]
    /\ index' = [index EXCEPT ![h] = [source |-> "off", value |-> past.writes + 1]]
    /\ UNCHANGED <<account, temp, history, synced, chain, flight, ix, mod>>

SetContract ==
    /\ ContractChanges /\ contract = FirstContract /\ \E c \in Contracts \ {contract} : contract' = c
    /\ UNCHANGED <<db, record, events, flight, ix, mod, past>>

-----------------------------------------------------------------------------
(* Index.                                                                  *)

\* The key a reader of the account opens with its passphrase, or none.
Opened == IF account.pem.passphrase = account.passphrase THEN account.pem.key ELSE 0

\* The account and the contract are read, and then the newest block.
RefreshPersonalInfoList ==
    /\ ix.pc = "idle" /\ synced < Len(events)
    /\ ix' = [ix EXCEPT !.pc = "range", !.key = Opened, !.contract = contract]
    /\ UNCHANGED <<db, chain, flight, mod, past>>

SyncRange ==
    /\ ix.pc = "range"
    /\ ix' = [ix EXCEPT !.pc = "run", !.upto = Len(events),
                !.todo = {i \in synced + 1..Len(events) : events[i].contract = ix.contract}]
    /\ UNCHANGED <<db, chain, flight, mod, past>>

\* Registrations first, and then modifications.
Before(i, j) == IF events[i].type = events[j].type THEN i < j ELSE events[i].type = "Register"

\* The value the record has now, or none if the key does not open it; one commit an
\* event. Blind when the account has another key by now.
SinkOnPersonalInfo ==
    /\ ix.pc = "run"
    /\ \E i \in ix.todo :
          LET h == events[i].holder
              r == record[ix.contract][h]
          IN  /\ \A j \in ix.todo \ {i} : Before(i, j)
              /\ ix' = [ix EXCEPT !.todo = @ \ {i}]
              /\ index' = [index EXCEPT ![h] =
                    [source |-> "on", value |-> IF ix.key # 0 /\ r.key = ix.key THEN r.value ELSE 0]]
              /\ history' = [j \in 1..Len(events) |->
                    (IF j \in DOMAIN history THEN history[j] ELSE 0) + (IF i = j THEN 1 ELSE 0)]
              /\ past' = [past EXCEPT !.blind = IF ix.key # Opened THEN @ \cup {h} ELSE @ \ {h}]
    /\ UNCHANGED <<account, temp, synced, chain, flight, mod>>

\* Mutant: the block reached is the newest one when the pass ends.
SetBlockNumber_Newest ==
    /\ ix.pc = "run" /\ ix.todo = {} /\ synced' = Len(events) /\ ix' = IdleIx
    /\ UNCHANGED <<account, temp, index, history, chain, flight, mod, past>>

SetBlockNumber ==
    /\ ix.pc = "run" /\ ix.todo = {} /\ synced' = ix.upto /\ ix' = IdleIx
    /\ UNCHANGED <<account, temp, index, history, chain, flight, mod, past>>

IndexerFails ==
    /\ ix.pc # "idle" /\ Fault /\ ix' = IdleIx
    /\ past' = [past EXCEPT !.faults = @ + 1, !.crashed = TRUE]
    /\ UNCHANGED <<db, chain, flight, mod>>

-----------------------------------------------------------------------------
(* Re-encryption.                                                          *)

\* Of a key that is changed and has been generated: the on-chain rows of the index.
GetTemporaryList ==
    /\ mod.pc = "idle" /\ temp # NoTemp /\ temp.pem # account.pem
    /\ LET rows == {h \in Holders : index[h].source = "on"}
       IN  mod' = [IdleMod EXCEPT !.pc = "run", !.rows = rows, !.listed = rows, !.contract = contract]
    /\ UNCHANGED <<db, chain, flight, ix, past>>

\* Mutant: a row whose record has the new key is not counted.
ModifyPersonalInfo_Uncounted ==
    /\ mod.pc = "run"
    /\ \E h \in mod.rows :
          LET r == record[mod.contract][h]
              old == r # Empty /\ r.key = temp.pem.key
          IN  mod' = [mod EXCEPT !.pc = IF old THEN "send" ELSE "run", !.rows = @ \ {h}, !.complete = FALSE,
                        !.holder = IF old THEN h ELSE "none", !.value = IF old THEN r.value ELSE 0]
    /\ UNCHANGED <<db, chain, flight, ix, past>>

\* A row whose holder the contract does not know is skipped, and keeps the pass from
\* being complete; one the former key does not open is complete; another is read.
ModifyPersonalInfo ==
    /\ mod.pc = "run"
    /\ \E h \in mod.rows :
          LET r == record[mod.contract][h]
          IN  \/ /\ r = Empty
                 /\ mod' = [mod EXCEPT !.rows = @ \ {h}, !.complete = FALSE]
              \/ /\ r # Empty /\ r.key # temp.pem.key
                 /\ mod' = [mod EXCEPT !.rows = @ \ {h}]
              \/ /\ r # Empty /\ r.key = temp.pem.key
                 /\ mod' = [mod EXCEPT !.pc = "send", !.rows = @ \ {h}, !.complete = FALSE,
                              !.holder = h, !.value = r.value]
    /\ UNCHANGED <<db, chain, flight, ix, past>>

\* Mutant: a row counts as complete when its transaction is sent, before it is mined.
ModifyInfo_Complete ==
    /\ mod.pc = "send" /\ mod' = [mod EXCEPT !.pc = "run", !.holder = "none", !.value = 0, !.complete = TRUE]
    /\ UNCHANGED <<db, chain, flight, ix, past>>

ModifyInfo ==
    /\ mod.pc = "send" /\ Write("Modify", mod.contract, mod.holder, account.pub, mod.value)
    /\ mod' = [mod EXCEPT !.pc = "run", !.holder = "none", !.value = 0]
    /\ UNCHANGED <<db, contract, flight, ix, past>>

\* The key is forgotten when nothing was left to do, which the next pass confirms.
SinkOnAccount ==
    /\ mod.pc = "run" /\ mod.rows = {} /\ mod' = IdleMod
    /\ IF mod.complete THEN account' = [account EXCEPT !.status = "set"] /\ temp' = NoTemp
       ELSE UNCHANGED <<account, temp>>
    /\ UNCHANGED <<index, history, synced, chain, flight, ix, past>>

\* A transaction is reverted, refused or not answered in time, a call fails, or the
\* process is shut down: the pass ends; what was sent may be mined.
ModifyFails ==
    /\ mod.pc # "idle" /\ Fault /\ past' = [past EXCEPT !.faults = @ + 1] /\ mod' = IdleMod
    /\ \/ UNCHANGED <<record, events>>
       \/ mod.pc = "send" /\ Write("Modify", mod.contract, mod.holder, account.pub, mod.value)
    /\ UNCHANGED <<db, contract, flight, ix>>

Indexer == RefreshPersonalInfoList \/ SyncRange \/ SinkOnPersonalInfo \/ SetBlockNumber
Modifier == GetTemporaryList \/ ModifyPersonalInfo \/ ModifyInfo \/ SinkOnAccount

Next ==
    \/ \E p \in Passphrases : CreateIssuerRsaKey(p) \/ ChangeIssuerRsaPassphrase(p)
    \/ GenerateRsaKey
    \/ \E h \in Holders : \/ RegisterBondTokenHolderPersonalInfo(h)
                          \/ RegisterShareTokenHolderPersonalInfo(h)
                          \/ RegisterOffChain(h)
    \/ RegisterInfo \/ RegisterInfoFails \/ SetContract
    \/ Indexer \/ IndexerFails \/ Modifier \/ ModifyFails

Spec == Init /\ [][Next]_vars

-----------------------------------------------------------------------------
(* Queries.                                                                *)

ListAllTokenHoldersPersonalInfo == {h \in Holders : index[h].source # "none"}
ListAllTokenHoldersPersonalInfoHistory == history

-----------------------------------------------------------------------------
(* Properties.                                                             *)

\* Every variable keeps its type; a former key is kept exactly while it is changed.
TypeOK ==
    /\ account.status \in {"unset", "creating", "changing", "set"} /\ account.pub = account.pem.key
    /\ (temp # NoTemp) = (account.status = "changing") /\ contract \in Contracts
    /\ synced \in 0..Len(events) /\ Len(history) <= Len(events) /\ ix.upto <= Len(events)
    /\ mod.rows \subseteq mod.listed /\ (mod.pc # "idle" => temp # NoTemp)
    /\ \A h \in ListAllTokenHoldersPersonalInfo : index[h].value \in 0..MaxWrites

\* When the former key is forgotten and the account has another one, nothing the index
\* had when the last pass began is encrypted with it, except what was registered late.
KeyForgottenUnused ==
    temp # NoTemp /\ temp' = NoTemp /\ account.pem.key # temp.pem.key =>
       \A h \in mod.listed : <<mod.contract, h>> \notin past.late =>
          record[mod.contract][h].key # temp.pem.key

\* Every event up to the block reached is in the history, and once unless the indexer
\* failed in between.
HistoryIsComplete ==
    \A i \in 1..synced :
       LET rows == IF i \in DOMAIN history THEN history[i] ELSE 0
       IN  rows >= 1 /\ (~past.crashed => rows = 1)

\* The index shows the registered information, unless its record was written late or
\* was read with a key that had been changed.
IndexIsCurrent ==
    \A h \in Holders \ past.blind :
       LET r == record[contract][h]
       IN  r # Empty /\ <<contract, h>> \notin past.late =>
              /\ index[h].source # "none"
              /\ (index[h].source = "on" /\ account.status = "set" /\ r.key = account.pub)
                 => index[h].value = r.value

\* When no key is being changed, the personal information of all investors on the chain
\* is encrypted with the key of the account.
AllUpdated ==
    account.status = "set" =>
       \A h \in Holders : record[contract][h] # Empty => record[contract][h].key = account.pub
=============================================================================
