------------------------------ MODULE Heartbeat ------------------------------
(***************************************************************************)
(* Who the assistant speaks to unasked: the file of the last channel       *)
(* (pkg/state/state.go), the agent loop that records it, and the heartbeat *)
(* (pkg/heartbeat/service.go) and device (pkg/devices/service.go) services *)
(* that read it.  Each of the three has a state.Manager of its own, which  *)
(* reads the file when it is made and never again; a reload of the gateway *)
(* makes the services anew, the agent loop stays.                          *)
(***************************************************************************)
EXTENDS Integers, FiniteSets
CONSTANTS Chats,      \* "platform:chat" of users
          MaxChanges, \* bound: messages of users, and restarts and reloads
          Monitor     \* whether the USB monitor is on
ASSUME HeartbeatAssumption == "cli:direct" \notin Chats /\ MaxChanges \in Nat /\ Monitor \in BOOLEAN
VARIABLES stateFile, oldStateFile, \* state/state.json and the state.json of earlier versions, "" for none
          mem,           \* manager -> its copy
          todo,         \* HEARTBEAT.md: "missing", "template", "tasks"
          service,       \* generation -> "on" or "stopped"; the last is the present one
          kick,          \* generations whose first beat, a second after the start, is to come
          beat,          \* heartbeats under way: generation -> chat
          device,        \* generations whose monitor is on
          notified,          \* chats that device notices went to
          lastUser, changes
stateVars == <<stateFile, oldStateFile, mem, todo, service, kick, beat, device, notified, lastUser, changes>>

Direct == "cli:direct"
\* constants.IsInternalChannel, parseLastChannel: nobody is spoken to at the console
Internal(c) == c = Direct
Target(c) == IF Internal(c) THEN "" ELSE c
Managers == {"agent", "heartbeat", "devices"}
\* NewManager: the file, or else the old file, which is then saved in the new place
FromFile == IF stateFile # "" THEN stateFile ELSE oldStateFile
Migrated(saves) == IF stateFile = "" /\ saves THEN oldStateFile ELSE stateFile
Gen == Cardinality(DOMAIN service)
Appended(v) == [g \in 1..Gen + 1 |-> IF g <= Gen THEN service[g] ELSE v]
HeartbeatInit ==
    /\ stateFile = "" /\ oldStateFile \in {""} \cup Chats /\ lastUser = ""
    /\ mem = [m \in Managers |-> oldStateFile]
    /\ todo \in {"missing", "template", "tasks"}
    /\ service = <<"on">> /\ kick = {1} /\ beat = <<>> /\ device = IF Monitor THEN {1} ELSE {}
    /\ notified = {} /\ changes = 0
\* SetLastChannel: the copy first, then the file, atomically; a failed save is only logged
Record(c, saves) ==
    /\ mem' = [mem EXCEPT !["agent"] = c]
    /\ stateFile' = IF saves THEN c ELSE stateFile
\* runAgentLoop records where a turn comes from, the console excepted
RecordLastChannel(c, saves) == IF Internal(c) THEN UNCHANGED <<mem, stateFile>> ELSE Record(c, saves)
UserMessage(c, saves) ==
    /\ changes < MaxChanges /\ changes' = changes + 1
    /\ RecordLastChannel(c, saves)
    /\ lastUser' = IF Internal(c) THEN lastUser ELSE c
    /\ UNCHANGED <<oldStateFile, todo, service, kick, beat, device, notified>>
\* executeHeartbeat begins: the service is running, and there are tasks below the divider;
\* a missing file is made from the template
Execute_Stopped(g) == todo = "tasks" /\ g \notin DOMAIN beat
Execute(g) == service[g] = "on" /\ todo = "tasks" /\ g \notin DOMAIN beat
Tick(g) ==
    /\ \/ g \in kick /\ kick' = kick \ {g}
       \/ g = Gen /\ g \notin kick /\ UNCHANGED kick
    /\ IF Execute(g) THEN beat' = [x \in DOMAIN beat \cup {g} |-> IF x = g THEN mem["heartbeat"] ELSE beat[x]]
       ELSE UNCHANGED beat
    /\ todo' = IF service[g] = "on" /\ todo = "missing" THEN "template" ELSE todo
    /\ UNCHANGED <<stateFile, oldStateFile, mem, service, device, lastUser, changes, notified>>
\* the handler and ProcessHeartbeat: a turn in the name of the channel, or of the console;
\* its answer is silent, whatever it is
Handler(g, saves) ==
    /\ g \in DOMAIN beat
    /\ LET c == Target(beat[g]) IN RecordLastChannel(IF c = "" THEN Direct ELSE c, saves)
    /\ beat' = [x \in DOMAIN beat \ {g} |-> beat[x]]
    /\ UNCHANGED <<oldStateFile, todo, service, kick, device, lastUser, changes, notified>>
\* the user writes tasks, or removes them
EditTasks ==
    /\ changes < MaxChanges /\ changes' = changes + 1
    /\ todo' \in {"template", "tasks"} \ {todo}
    /\ UNCHANGED <<stateFile, oldStateFile, mem, service, kick, beat, device, lastUser, notified>>
\* a device comes or goes: USBMonitor tells the devices' service, and sendNotification the last
\* channel of its manager; with none, or the console, nobody
DeviceEvent ==
    /\ device # {}
    /\ notified' = notified \cup ({Target(mem["devices"])} \ {""})
    /\ UNCHANGED <<stateFile, oldStateFile, mem, todo, service, kick, beat, device, lastUser, changes>>
\* a reload stops the services and makes new ones, with new managers
Reload(saves) ==
    /\ changes < MaxChanges /\ changes' = changes + 1
    /\ service' = [Appended("on") EXCEPT ![Gen] = "stopped"] /\ kick' = kick \cup {Gen + 1}
    /\ device' = IF Monitor THEN {Gen + 1} ELSE {}
    /\ mem' = [mem EXCEPT !["heartbeat"] = FromFile, !["devices"] = FromFile]
    /\ stateFile' = Migrated(saves)
    /\ UNCHANGED <<oldStateFile, todo, beat, lastUser, notified>>
\* the process ends and comes back
Restart(saves) ==
    /\ changes < MaxChanges /\ changes' = changes + 1
    /\ service' = <<"on">> /\ kick' = {1} /\ beat' = <<>>
    /\ device' = IF Monitor THEN {1} ELSE {}
    /\ mem' = [m \in Managers |-> FromFile] /\ stateFile' = Migrated(saves)
    /\ UNCHANGED <<oldStateFile, todo, lastUser, notified>>
HeartbeatNext ==
    \/ \E saves \in BOOLEAN :
         \/ \E c \in Chats \cup {Direct} : UserMessage(c, saves)
         \/ \E g \in DOMAIN service : Handler(g, saves)
         \/ Reload(saves) \/ Restart(saves)
    \/ \E g \in DOMAIN service : Tick(g)
    \/ EditTasks \/ DeviceEvent
HeartbeatSpec == HeartbeatInit /\ [][HeartbeatNext]_stateVars
-----------------------------------------------------------------------------
\* Neither the file nor a copy ever names the console, so that a device's notice and a later
\* heartbeat have somebody to go to once a user has written.
NoInternalTarget == \A c \in {stateFile} \cup {mem[m] : m \in Managers} : ~Internal(c)
\* A service that was stopped begins no heartbeat, its first one included.
StoppedSilent ==
    [][\A g \in DOMAIN service \cap DOMAIN service' :
           service[g] = "stopped" => (g \in DOMAIN beat' => g \in DOMAIN beat)]_stateVars
\* The two of above, of RecordLastChannel and of Stop.
HeartbeatSound == []NoInternalTarget /\ StoppedSilent
\* "channel and chatID are derived from the last active user channel" (service.go:34).  (Does not
\* hold: the heartbeat asks its own copy, read when the service was made.)
LastUserTold ==
    [][\A g \in DOMAIN beat' : g \notin DOMAIN beat /\ lastUser # "" => beat'[g] = lastUser]_stateVars
=============================================================================
