-------------------------- MODULE SessionBackends --------------------------
(***************************************************************************)
(* Where the sessions of an agent are kept from one start to the next      *)
(* (initSessionStore in pkg/agent/instance.go): a JSON file per session as *)
(* of old (pkg/session/manager.go), or the JSONL store (JSONLStore.tla),   *)
(* into which the old files are migrated at every start                    *)
(* (pkg/memory/migration.go).  A start that cannot write the store goes    *)
(* back to the old way.  Here an operation of the JSONL store is one step; *)
(* a migration is not: the process may end between any two of its steps.   *)
(***************************************************************************)
EXTENDS Integers, Sequences, FiniteSets, SequencesExt
CONSTANTS SessionKeys,  \* the sessions, as a sequence: their files in the order of the directory
          Summarised,   \* the old sessions with a summary
          MaxAdded,     \* bound: messages added
          MaxStops,     \* bound: times the process ends
          Failing       \* what may fail: "init", "read", "history", "summary", "rename", "save"
ASSUME BackendsAssumption == SessionKeys \in Seq(ToSet(SessionKeys)) /\ MaxAdded \in Nat /\ MaxStops \in Nat
VARIABLES legacy,    \* key.json
          migrated,  \* key.json.migrated
          jsonl,     \* key.jsonl with its key.meta.json
          memory,    \* SessionManager.sessions
          backend,   \* "", "jsonl" or "json"
          migrating, \* the next step of MigrateFromJSON: the entry of the directory and what is next
          accepted,  \* key -> messages that were kept: appended to the store, or saved to a file
          dropped,   \* key -> messages a call has removed
          added, stops
backendVars == <<legacy, migrated, jsonl, memory, backend, migrating, accepted, dropped, added, stops>>

SessionKey == ToSet(SessionKeys)
NoSession == <<0>>     \* no message is 0
PutSession(f, k, v) == [f EXCEPT ![k] = v]
MayFail(what) == what \in Failing
\* the first start after an update: old files with messages, or none
BackendsInit ==
    /\ legacy = [k \in SessionKey |-> IF k = SessionKeys[1] THEN NoSession ELSE <<1, 2>>]
    /\ migrated = [k \in SessionKey |-> NoSession] /\ jsonl = migrated /\ memory = migrated
    /\ backend = "" /\ migrating = [entry |-> 0, next |-> ""]
    /\ accepted = [k \in SessionKey |-> IF legacy[k] = NoSession THEN {} ELSE ToSet(legacy[k])]
    /\ dropped = [k \in SessionKey |-> {}]
    /\ added = 2 /\ stops = 0
Kept == UNCHANGED <<accepted, dropped, added, stops>>
\* NewSessionManager loads every file whose name ends in .json: the old sessions, and after each
\* of them the store's key.meta.json, which has a key and no messages
LoadSessions ==
    /\ backend' = "json"
    /\ memory' = [k \in SessionKey |-> IF jsonl[k] # NoSession THEN <<>> ELSE legacy[k]]
    /\ migrating' = [entry |-> 0, next |-> ""]
\* initSessionStore: NewJSONLStore
Begin ==
    /\ backend = "" /\ migrating.entry = 0
    /\ \/ migrating' = [entry |-> 1, next |-> "history"] /\ UNCHANGED <<memory, backend>>
       \/ MayFail("init") /\ LoadSessions
    /\ UNCHANGED <<legacy, migrated, jsonl>> /\ Kept
Key == SessionKeys[migrating.entry]
NextEntry == migrating' = [entry |-> migrating.entry + 1, next |-> "history"]
AtStep(s) == backend = "" /\ migrating.entry \in 1..Len(SessionKeys) /\ migrating.next = s
\* a migration that adds the old messages to what the store has
MigrateHistory_Appends ==
    /\ AtStep("history") /\ legacy[Key] # NoSession
    /\ jsonl' = PutSession(jsonl, Key, (IF jsonl[Key] = NoSession THEN <<>> ELSE jsonl[Key]) \o legacy[Key])
    /\ migrating' = [migrating EXCEPT !.next = "summary"]
    /\ UNCHANGED <<legacy, migrated, memory, backend>> /\ Kept
\* SetHistory replaces what the store has of the session; a write that fails ends the migration
MigrateHistory ==
    /\ AtStep("history") /\ legacy[Key] # NoSession
    /\ \/ jsonl' = PutSession(jsonl, Key, legacy[Key]) /\ migrating' = [migrating EXCEPT !.next = "summary"]
          /\ UNCHANGED <<memory, backend>>
       \/ MayFail("history") /\ LoadSessions /\ UNCHANGED jsonl
    /\ UNCHANGED <<legacy, migrated>> /\ Kept
\* no old file, or one that cannot be read or parsed
SkipEntry ==
    /\ AtStep("history") /\ (legacy[Key] = NoSession \/ MayFail("read"))
    /\ NextEntry
    /\ UNCHANGED <<legacy, migrated, jsonl, memory, backend>> /\ Kept
MigrateSummary ==
    /\ AtStep("summary")
    /\ \/ migrating' = [migrating EXCEPT !.next = "rename"] /\ UNCHANGED <<memory, backend>>
       \/ Key \in Summarised /\ MayFail("summary") /\ LoadSessions
    /\ UNCHANGED <<legacy, migrated, jsonl>> /\ Kept
\* the old file becomes the backup; a rename that fails is only logged
MigrateRename ==
    /\ AtStep("rename") /\ NextEntry
    /\ \/ migrated' = PutSession(migrated, Key, legacy[Key]) /\ legacy' = PutSession(legacy, Key, NoSession)
       \/ MayFail("rename") /\ UNCHANGED <<migrated, legacy>>
    /\ UNCHANGED <<jsonl, memory, backend>> /\ Kept
MigrationDone ==
    /\ backend = "" /\ migrating.entry = Len(SessionKeys) + 1
    /\ backend' = "jsonl" /\ migrating' = [entry |-> 0, next |-> ""]
    /\ UNCHANGED <<legacy, migrated, jsonl, memory>> /\ Kept
-----------------------------------------------------------------------------
Visible(k) ==
    LET s == IF backend = "jsonl" THEN jsonl[k] ELSE memory[k]
    IN  IF s = NoSession THEN <<>> ELSE s
Becomes(k, msgs) ==
    IF backend = "jsonl" THEN jsonl' = PutSession(jsonl, k, msgs) /\ UNCHANGED memory
    ELSE memory' = PutSession(memory, k, msgs) /\ UNCHANGED jsonl
\* AddMessage, AddFullMessage: kept at once by the store, by the manager only with Save
AddMessage(k) ==
    /\ backend # "" /\ added < MaxAdded /\ added' = added + 1
    /\ Becomes(k, Append(Visible(k), added'))
    /\ accepted' = IF backend = "jsonl" THEN PutSession(accepted, k, accepted[k] \cup {added'}) ELSE accepted
    /\ UNCHANGED <<legacy, migrated, backend, migrating, dropped, stops>>
Keeps(k, msgs) ==
    /\ Becomes(k, msgs)
    /\ dropped' = PutSession(dropped, k, dropped[k] \cup (ToSet(Visible(k)) \ ToSet(msgs)))
    /\ UNCHANGED <<legacy, migrated, backend, migrating, accepted, added, stops>>
\* TruncateHistory keeps the last messages
TruncateHistory(k, keep) ==
    /\ backend # "" /\ Len(Visible(k)) > keep
    /\ Keeps(k, SubSeq(Visible(k), Len(Visible(k)) - keep + 1, Len(Visible(k))))
\* SetHistory, for a forced compression: the manager sets that of a session it has
SetHistory(k) ==
    /\ backend # "" /\ Len(Visible(k)) > 1
    /\ Keeps(k, Tail(Visible(k)))
\* Save of the store compacts, which changes nothing that is seen; the manager's writes the file,
\* atomically, or fails and leaves the one before
SaveSession(k) ==
    /\ backend = "json" /\ memory[k] # NoSession
    /\ \/ legacy' = PutSession(legacy, k, memory[k]) /\ accepted' = PutSession(accepted, k, accepted[k] \cup ToSet(memory[k]))
       \/ MayFail("save") /\ UNCHANGED <<legacy, accepted>>
    /\ UNCHANGED <<migrated, jsonl, memory, backend, migrating, dropped, added, stops>>
\* the process ends, in the middle of a migration or later
Stop ==
    /\ stops < MaxStops /\ stops' = stops + 1
    /\ backend # "" \/ migrating.entry > 0
    /\ backend' = "" /\ migrating' = [entry |-> 0, next |-> ""]
    /\ memory' = [k \in SessionKey |-> NoSession]
    /\ UNCHANGED <<legacy, migrated, jsonl, accepted, dropped, added>>
BackendsNext ==
    \/ Begin \/ MigrateHistory \/ SkipEntry \/ MigrateSummary \/ MigrateRename \/ MigrationDone \/ Stop
    \/ \E k \in SessionKey : AddMessage(k) \/ SetHistory(k) \/ SaveSession(k) \/ \E keep \in 0..1 : TruncateHistory(k, keep)
BackendsSpec == BackendsInit /\ [][BackendsNext]_backendVars
-----------------------------------------------------------------------------
\* "Idempotent" (migration.go): whatever step of a migration failed or was not reached, and whichever
\* backend was used in between, a history never has a message twice or before an older one.
HistoryInOrder == \A k \in SessionKey : \A i, j \in DOMAIN Visible(k) : i < j => Visible(k)[i] < Visible(k)[j]
\* A message that was kept and that no call removed is in the history of every later start: the file
\* of before is a backup, and the old way of keeping sessions avoids a split state.  (Does not hold
\* when a migration fails: the old way reads key.meta.json as an empty session.)
HistoryKept == backend # "" => \A k \in SessionKey : accepted[k] \ dropped[k] \subseteq ToSet(Visible(k))
=============================================================================
