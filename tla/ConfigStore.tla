---------------------------- MODULE ConfigStore ----------------------------
(***************************************************************************)
(* The configuration of a running frpc (client/config_manager.go,          *)
(* pkg/config/source, client/http/controller.go): the entries of the       *)
(* configuration file (ConfigSource) are overlaid by those of a store that *)
(* the admin API edits and that is kept in a file (StoreSource); every     *)
(* edit is saved and then applied to the running client.  reloadMu admits  *)
(* one edit or reload at a time.  frpc may be killed between any two steps *)
(* and started again.  An entry is a key, which stands for a kind (proxy   *)
(* or visitor) and a name, with a value.                                   *)
(***************************************************************************)
EXTENDS Integers, FiniteSets

CONSTANTS Keys,
          Values,       \* what an entry may be set to
          Disabled,     \* values with enabled = false
          Unrunnable,   \* values that need a VirtualNet runtime this frpc lacks
          None, Torn,   \* no entry; a file that was cut short
          Readers,      \* concurrent reload requests
          MaxOps        \* bound: requests

Maps    == [Keys -> Values \cup {None}]
Nothing == [k \in Keys |-> None]

VARIABLES running,      \* "yes", "no" (killed), "failed" (cannot start)
          configFile,   \* the configuration file, as a map or Torn
          storeFile, tmpFile,
          base,         \* entries of ConfigSource
          store,        \* entries of StoreSource
          applied,      \* what the proxy and visitor managers were given last
          inSync,       \* the last attempt to apply a configuration succeeded
          read,         \* per reload request: the file it has read, or None
          writing,      \* PUT /api/config has truncated the file
          op,           \* the request that holds reloadMu
          answer,       \* status of the last answer of the API
          promised,     \* history: key -> values the caller may find in the store
          ops

cvars == <<running, configFile, storeFile, tmpFile, base, store, applied, inSync, read, writing,
           op, answer, promised, ops>>

\* pc of the request, its kind, the entry it edits, its new value and the one it replaced.
NoOp == [pc |-> "idle", kind |-> "none", key |-> None, value |-> None, old |-> None]

ConfigTypeOK ==
    /\ running \in {"yes", "no", "failed"}
    /\ configFile \in Maps \cup {Torn} /\ storeFile \in Maps \cup {Torn}
    /\ tmpFile \in Maps \cup {Torn, None}
    /\ base \in Maps /\ store \in Maps /\ applied \in Maps /\ inSync \in BOOLEAN
    /\ read \in [Readers -> Maps \cup {None}] /\ writing \in BOOLEAN
    /\ op \in [pc : {"idle", "mutate", "create tmp", "write tmp", "rename", "apply"},
               kind : {"none", "add", "update", "remove", "reload"},
               key : Keys \cup {None}, value : Values \cup {None}, old : Values \cup {None}]
    /\ answer \in {0, 200, 400, 404, 409, 500}
    /\ promised \in [Keys -> SUBSET (Values \cup {None})] /\ ops \in 0..MaxOps

\* baseSource.Load leaves out disabled entries, Aggregator.Load lets those of the
\* store replace those of the configuration file.
Load(m) == [k \in Keys |-> IF m[k] \in Disabled THEN None ELSE m[k]]

Aggregate(b, s) == [k \in Keys |-> IF Load(s)[k] # None THEN Load(s)[k] ELSE Load(b)[k]]

ConfigInit ==
    /\ running = "yes" /\ configFile \in Maps
    /\ storeFile = Nothing /\ tmpFile = None
    /\ base = configFile /\ store = Nothing /\ applied = Aggregate(base, store) /\ inSync = TRUE
    /\ read = [r \in Readers |-> None] /\ writing = FALSE
    /\ op = NoOp /\ answer = 0 /\ promised = [k \in Keys |-> {None}] /\ ops = 0

fileVars == <<configFile, storeFile, tmpFile>>
memVars  == <<base, store, applied, inSync>>

Answers(code) == answer' = code /\ op' = NoOp

NewRequest == running = "yes" /\ ops < MaxOps /\ ops' = ops + 1

-----------------------------------------------------------------------------
(* Edits of the store.                                                     *)

\* An edit that is not valid (no body, no name, a name that differs from the
\* URL's, a bad value) is answered 400, ...
Reject ==
    /\ NewRequest /\ answer' = 400
    /\ UNCHANGED <<running, fileVars, memVars, read, writing, op, promised>>

\* ... one that is takes reloadMu.
Begin(kind, k, v) ==
    /\ NewRequest /\ op.pc = "idle"
    /\ op' = [pc |-> "mutate", kind |-> kind, key |-> k, value |-> v, old |-> None]
    /\ UNCHANGED <<running, fileVars, memVars, read, writing, answer, promised>>

\* addStoreEntry, updateStoreEntry, removeStoreEntry.
Edited == [store EXCEPT ![op.key] = op.value]

\* The edit, up to the save: an entry to add must be new, others must exist.
Mutate ==
    /\ op.pc = "mutate"
    /\ LET exists == store[op.key] # None IN
       IF (op.kind = "add") = exists
         THEN Answers(IF exists THEN 409 ELSE 404) /\ UNCHANGED store
         ELSE /\ store' = Edited
              /\ op' = [op EXCEPT !.pc = "create tmp", !.old = store[op.key]]
              /\ UNCHANGED answer
    /\ UNCHANGED <<running, fileVars, base, applied, inSync, read, writing, promised, ops>>

saveRest == <<running, configFile, memVars, read, writing, answer, promised, ops>>

\* A save that truncates the store file itself.
CreateInPlace ==
    /\ op.pc = "create tmp" /\ storeFile' = Torn /\ op' = [op EXCEPT !.pc = "write tmp"]
    /\ UNCHANGED <<saveRest, tmpFile>>

\* saveToFileUnlocked: the temporary file is opened and truncated, written and
\* synced, and renamed over the store file.
CreateTmp ==
    /\ op.pc = "create tmp" /\ tmpFile' = Torn /\ op' = [op EXCEPT !.pc = "write tmp"]
    /\ UNCHANGED <<saveRest, storeFile>>

WriteTmp ==
    /\ op.pc = "write tmp" /\ tmpFile' = store /\ op' = [op EXCEPT !.pc = "rename"]
    /\ UNCHANGED <<saveRest, storeFile>>

Rename ==
    /\ op.pc = "rename" /\ storeFile' = tmpFile /\ tmpFile' = None
    /\ op' = [op EXCEPT !.pc = "apply"]
    /\ UNCHANGED saveRest

\* A step of the save fails: the temporary file is removed if it was opened, and
\* the rollback of the edit puts the old entry back.
SaveFails ==
    /\ op.pc \in {"create tmp", "write tmp", "rename"}
    /\ tmpFile' = IF op.pc = "create tmp" THEN tmpFile ELSE None
    /\ store' = [store EXCEPT ![op.key] = op.old]
    /\ Answers(500)
    /\ UNCHANGED <<running, configFile, storeFile, base, applied, inSync, read, writing,
                   promised, ops>>

\* reloadConfigFromSourcesLocked and the answer of the edit or reload.  An edit
\* that cannot be applied is answered 500 and stays in the store.
Apply ==
    /\ op.pc = "apply"
    /\ LET new == Aggregate(base, store) IN
       IF \E k \in Keys : new[k] \in Unrunnable
         THEN Answers(500) /\ inSync' = FALSE /\ UNCHANGED applied
         ELSE Answers(200) /\ inSync' = TRUE /\ applied' = new
    /\ promised' = IF op.kind = "reload" THEN promised
                     ELSE [promised EXCEPT ![op.key] = {op.value}]
    /\ UNCHANGED <<running, fileVars, base, store, read, writing, ops>>

-----------------------------------------------------------------------------
(* The configuration file.                                                 *)

\* ReloadFromFile reads and checks the file before it takes any lock.
ReloadReads(r) ==
    /\ read[r] = None /\ NewRequest
    /\ IF configFile = Torn
         THEN answer' = 400 /\ UNCHANGED read
         ELSE read' = [read EXCEPT ![r] = configFile] /\ UNCHANGED answer
    /\ UNCHANGED <<running, fileVars, memVars, writing, op, promised>>

\* UpdateConfigSource: ReplaceAll, then the reload under the same lock.
ReloadReplaces(r) ==
    /\ running = "yes" /\ read[r] # None /\ op.pc = "idle"
    /\ base' = read[r] /\ read' = [read EXCEPT ![r] = None]
    /\ op' = [NoOp EXCEPT !.pc = "apply", !.kind = "reload"]
    /\ UNCHANGED <<running, fileVars, store, applied, inSync, writing, answer, promised, ops>>

\* WriteConfigFile: os.WriteFile truncates the file and writes it, without a lock.
PutTruncates ==
    /\ NewRequest /\ ~writing /\ writing' = TRUE /\ configFile' = Torn
    /\ UNCHANGED <<running, storeFile, tmpFile, memVars, read, op, answer, promised>>

PutWrites ==
    /\ running = "yes" /\ writing /\ writing' = FALSE /\ configFile' \in Maps /\ answer' = 200
    /\ UNCHANGED <<running, storeFile, tmpFile, memVars, read, op, promised, ops>>

-----------------------------------------------------------------------------
(* Crashes.                                                                *)

\* The process dies; the requests under way get no answer, so that an edit may
\* or may not be found later.
Crash ==
    /\ running = "yes" /\ running' = "no"
    /\ op' = NoOp /\ read' = [r \in Readers |-> None] /\ writing' = FALSE
    /\ promised' = IF op.kind \in {"add", "update", "remove"}
                     THEN [promised EXCEPT ![op.key] = @ \cup {op.value}] ELSE promised
    /\ UNCHANGED <<fileVars, memVars, answer, ops>>

\* runClientWithAggregator: NewStoreSource reads the store file, the
\* configuration file is read, and frpc starts with both, or not at all.
Restart ==
    /\ running = "no"
    /\ IF configFile = Torn \/ storeFile = Torn
         THEN running' = "failed" /\ UNCHANGED memVars
         ELSE /\ running' = "yes" /\ base' = configFile /\ store' = storeFile
              /\ applied' = Aggregate(configFile, storeFile) /\ inSync' = TRUE
    /\ UNCHANGED <<fileVars, read, writing, op, answer, promised, ops>>

ConfigNext ==
    \/ Reject
    \/ \E k \in Keys : Begin("remove", k, None)
                       \/ \E v \in Values : Begin("add", k, v) \/ Begin("update", k, v)
    \/ Mutate \/ CreateTmp \/ WriteTmp \/ Rename \/ SaveFails \/ Apply
    \/ \E r \in Readers : ReloadReads(r) \/ ReloadReplaces(r)
    \/ PutTruncates \/ PutWrites
    \/ Crash \/ Restart

ConfigSpec == ConfigInit /\ [][ConfigNext]_cvars
-----------------------------------------------------------------------------
(* Properties.                                                             *)

\* The store holds what its callers were told, in memory and on disk, whatever
\* failed and whenever frpc was killed: an edit whose save failed left no trace,
\* one that was answered after its save is found again after a restart, even if
\* it could not be applied, and the store file can always be read
\* (pkg/config/source/store.go saveToFileUnlocked, persistOrRollbackUnlocked,
\* loadFromFileUnlocked).
StoreDurable ==
    /\ storeFile # Torn
    /\ \A k \in Keys : storeFile[k] \in promised[k] \/ (op.key = k /\ storeFile[k] = op.value)
    /\ running = "yes" /\ op.pc = "idle" =>
         store = storeFile /\ \A k \in Keys : store[k] \in promised[k]

\* Outside of an edit or reload the client runs the merged configuration of its
\* sources, unless the last attempt to apply it failed; an entry the store
\* disables does not hide the one of the configuration file
\* (pkg/config/source/source.go:28-29 "not a cross-source tombstone").
AppliedCurrent ==
    running = "yes" /\ op.pc = "idle" /\ inSync =>
        \A k \in Keys :
           applied[k] = IF store[k] \notin Disabled \cup {None} THEN store[k]
                          ELSE IF base[k] \in Disabled THEN None ELSE base[k]
=============================================================================
