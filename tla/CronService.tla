----------------------------- MODULE CronService -----------------------------
(***************************************************************************)
(* pkg/cron/service.go and its users: the gateway runs one CronService per *)
(* configuration (reload starts the next one on the same file without      *)
(* waiting for the jobs of the last), the cron tool changes jobs in it,    *)
(* and every `nookclaw cron' command is a process of its own that loads    *)
(* the file, changes it and saves it.  The process may die at any time,    *)
(* and a save may fail.                                                    *)
(*                                                                         *)
(* Time is counted in ticks; 0 stands for the nil of NextRunAtMS.  A cron  *)
(* expression behaves like "every": its next run is later than now.        *)
(***************************************************************************)
EXTENDS Integers, FiniteSets

CONSTANTS Job,         \* the job ids; generateID makes each of them once
          OneTime,     \* the jobs of kind "at"; the others recur
          Interval,    \* Interval[j]: delay of a one-time job, period of another
          Generations, \* bound: services started by the gateway
          MaxTime,     \* bound on the clock
          MaxFaults,   \* bound on failed saves
          Reload,      \* the configuration is reloaded
          Commands     \* bound: `nookclaw cron' commands that are run

ASSUME CronAssumption ==
    /\ OneTime \subseteq Job /\ Interval \in [Job -> Nat \ {0}]
    /\ Generations \in Nat \ {0} /\ MaxTime \in Nat \ {0} /\ MaxFaults \in Nat
    /\ Reload \in BOOLEAN /\ Commands \in Nat

Cli     == 0
Gateway == 1..Generations
Service == Gateway \cup {Cli}

\* CronJob: in the file or not, enabled, NextRunAtMS, AtMS
NewJob(enabled, next, at) == [in |-> TRUE, enabled |-> enabled, next |-> next, at |-> at]
NoJob   == [in |-> FALSE, enabled |-> FALSE, next |-> 0, at |-> 0]
JobType == [in : BOOLEAN, enabled : BOOLEAN, next : Nat, at : Nat]
Empty   == [j \in Job |-> NoJob]

VARIABLES
    now,     \* the clock
    disk,    \* jobs.json
    mem,     \* mem[s]: the store in the memory of service s
    life,    \* life[s]: "none", "running", "stopped"; the CLI is "open" or "none"
    commands, \* how many commands have been run
    gen,     \* the latest service of the gateway
    due,     \* due[g]: what checkJobs of service g has still to execute
    exec,    \* exec[g]: the job whose handler runs, at most one
    stale,   \* the copy that addJob of the cron tool holds between AddJob and UpdateJob
    faults,  \* how many saves have failed
    made,    \* the ids that generateID has returned
    acked,   \* the jobs whose AddJob returned without an error
    gone,    \* the jobs that were removed or that have completed
    removed, \* <<s, j>>: RemoveJob(j) of service s has returned true
    fired    \* fired[j]: how often the handler was called for the one-time job j

history == <<made, acked, gone, removed, fired>>
service == <<gen, commands>>
loop    == <<due, exec>>
vars    == <<now, disk, mem, life, service, loop, stale, faults, history>>

\* computeNextRun
NextRun(j, at, t) ==
    IF j \notin OneTime THEN t + Interval[j] ELSE IF at > t THEN at ELSE 0

Init ==
    /\ now = 1 /\ disk = Empty /\ gen = 0 /\ commands = 0
    /\ mem = [s \in Service |-> Empty]
    /\ life = [s \in Service |-> "none"]
    /\ due = [s \in Service |-> {}]
    /\ exec = [s \in Service |-> {}]
    /\ stale = {}
    /\ faults = 0
    /\ made = {} /\ acked = {} /\ gone = {} /\ removed = {}
    /\ fired = [j \in OneTime |-> 0]

Tick == now < MaxTime /\ now' = now + 1
        /\ UNCHANGED <<disk, mem, life, service, loop, stale, faults, history>>

\* saveStoreUnsafe: the file is replaced as a whole, or not at all
Saved(store)  == disk' = store /\ UNCHANGED faults
NotSaved      == faults < MaxFaults /\ faults' = faults + 1 /\ UNCHANGED disk
Save(store)   == Saved(store) \/ NotSaved
Keep(s, store) == mem' = [mem EXCEPT ![s] = store]
-----------------------------------------------------------------------------
(* Start, Stop, and the end of the process.                                 *)


\* recomputeNextRuns
Recompute(store) ==
    [j \in Job |->
        IF store[j].in /\ store[j].enabled
        THEN NewJob(TRUE, NextRun(j, store[j].at, now), store[j].at)
        ELSE store[j]]

\* NewCronService, Start: at the start of the gateway, or after a reload
Start(g) ==
    /\ g = gen + 1 /\ g \in Gateway
    /\ \A h \in Gateway : life[h] = "none" \/ (Reload /\ life[h] = "stopped")
    /\ gen' = g
    /\ life' = [life EXCEPT ![g] = "running"]
    /\ Keep(g, Recompute(disk)) /\ Saved(Recompute(disk))
    /\ UNCHANGED <<now, commands, loop, stale, history>>

\* Stop does not wait for the jobs that run
Stop(g) ==
    /\ life[g] = "running"
    /\ life' = [life EXCEPT ![g] = "stopped"]
    /\ UNCHANGED <<now, disk, mem, service, loop, stale, faults, history>>

\* a crash, or the exit after a shutdown
ProcessEnds ==
    /\ \E g \in Gateway : life[g] # "none"
    /\ life' = [s \in Service |-> IF s = Cli THEN life[s] ELSE "none"]
    /\ mem' = [s \in Service |-> IF s = Cli THEN mem[s] ELSE Empty]
    /\ due' = [s \in Service |-> {}]
    /\ exec' = [s \in Service |-> {}]
    /\ stale' = {}
    /\ UNCHANGED <<now, disk, service, faults, history>>
-----------------------------------------------------------------------------
(* runLoop: checkJobs every second, executeJobByID for each due job.        *)

DueIn(store) == {j \in Job : /\ store[j].in /\ store[j].enabled
                             /\ store[j].next # 0 /\ store[j].next <= now}

\* a check that resets every due job and executes one
CheckJobs_RunsOne(g) ==
    LET D == DueIn(mem[g])
        store == [j \in Job |-> IF j \in D THEN NewJob(TRUE, 0, mem[g][j].at) ELSE mem[g][j]]
    IN
    /\ life[g] = "running" /\ due[g] = {} /\ exec[g] = {}
    /\ Keep(g, store) /\ Save(store)
    /\ \E j \in D : due' = [due EXCEPT ![g] = {j}]
    /\ UNCHANGED <<now, life, service, exec, stale, history>>

\* the file is saved on every tick, with or without a due job
CheckJobs(g) ==
    LET D == DueIn(mem[g])
        store == [j \in Job |-> IF j \in D THEN NewJob(TRUE, 0, mem[g][j].at) ELSE mem[g][j]]
    IN
    /\ life[g] = "running" /\ due[g] = {} /\ exec[g] = {}
    /\ Keep(g, store) /\ Save(store)
    /\ due' = [due EXCEPT ![g] = D]
    /\ UNCHANGED <<now, life, service, exec, stale, history>>

\* a loop that runs what checkJobs collected without looking it up again
BeginJob_NoLookup(g, j) ==
    /\ j \in due[g] /\ exec[g] = {}
    /\ due' = [due EXCEPT ![g] = @ \ {j}]
    /\ exec' = [exec EXCEPT ![g] = {j}]
    /\ fired' = [k \in OneTime |-> IF k = j THEN fired[k] + 1 ELSE fired[k]]
    /\ UNCHANGED <<now, disk, mem, life, service, stale, faults, made, acked, gone, removed>>


\* executeJobByID up to the handler: the job is looked up again
BeginJob(g, j) ==
    /\ j \in due[g] /\ exec[g] = {}
    /\ due' = [due EXCEPT ![g] = @ \ {j}]
    /\ IF mem[g][j].in
       THEN /\ exec' = [exec EXCEPT ![g] = {j}]
            /\ fired' = [k \in OneTime |-> IF k = j THEN fired[k] + 1 ELSE fired[k]]
       ELSE UNCHANGED <<exec, fired>>
    /\ UNCHANGED <<now, disk, mem, life, service, stale, faults, made, acked, gone, removed>>


\* ... and after it: a one-time job is removed, another gets its next run
EndJob(g, j) ==
    LET job   == mem[g][j]
        store == [mem[g] EXCEPT ![j] =
                     IF j \in OneTime THEN NoJob
                     ELSE NewJob(job.enabled, NextRun(j, job.at, now), job.at)]
    IN
    /\ exec[g] = {j}
    /\ exec' = [exec EXCEPT ![g] = {}]
    /\ IF job.in
       THEN /\ Keep(g, store) /\ Save(store)
            /\ gone' = IF j \in OneTime THEN gone \cup {j} ELSE gone
       ELSE UNCHANGED <<mem, disk, faults, gone>>
    /\ UNCHANGED <<now, life, service, due, stale, made, acked, removed, fired>>
-----------------------------------------------------------------------------
(* AddJob, UpdateJob, RemoveJob, EnableJob: by the cron tool on the         *)
(* gateway's latest service, or by a command on its own.                    *)

CanCall(s) == IF s = Cli THEN life[Cli] = "open" ELSE s = gen /\ life[s] # "none"

\* the operation changes the store of s; a command ends after it
Change(s, store) ==
    IF s = Cli THEN life' = [life EXCEPT ![Cli] = "none"] /\ Keep(Cli, Empty)
               ELSE Keep(s, store) /\ UNCHANGED life


\* addJob of the cron tool holds a copy of a job with a command
AddJob(s, j) ==
    LET at    == IF j \in OneTime THEN now + Interval[j] ELSE 0
        job   == NewJob(TRUE, NextRun(j, at, now), at)
        store == [mem[s] EXCEPT ![j] = job]
    IN
    /\ CanCall(s)
    /\ j \notin made /\ made' = made \cup {j}
    /\ s = Cli => j \notin OneTime
    /\ Change(s, store)
    /\ \/ Saved(store) /\ acked' = acked \cup {j}
          /\ stale' \in {stale} \cup (IF s # Cli /\ stale = {} THEN {{<<s, j, job>>}} ELSE {})
       \/ NotSaved /\ UNCHANGED <<acked, stale>>
    /\ UNCHANGED <<now, service, loop, gone, removed, fired>>

\* an update that does not look whether the job is still there
UpdateJob_Inserts(c) ==
    LET s == c[1]  j == c[2]  store == [mem[s] EXCEPT ![j] = c[3]] IN
    /\ c \in stale /\ life[s] # "none"
    /\ stale' = {}
    /\ Keep(s, store) /\ Save(store)
    /\ UNCHANGED <<now, life, service, loop, history>>

\* UpdateJob with that copy, which may be out of date by now
UpdateJob(c) ==
    LET s == c[1]  j == c[2]  store == [mem[s] EXCEPT ![j] = c[3]] IN
    /\ c \in stale /\ life[s] # "none"
    /\ stale' = {}
    /\ IF mem[s][j].in THEN Keep(s, store) /\ Save(store)
                       ELSE UNCHANGED <<mem, disk, faults>>
    /\ UNCHANGED <<now, life, service, loop, history>>

RemoveJob(s, j) ==
    LET store == [mem[s] EXCEPT ![j] = NoJob] IN
    /\ CanCall(s)
    /\ mem[s][j].in
    /\ Change(s, store) /\ Save(store)
    /\ gone' = gone \cup {j}
    /\ removed' = removed \cup {<<s, j>>}
    /\ UNCHANGED <<now, service, loop, stale, made, acked, fired>>

\* an EnableJob that leaves the file as it is
EnableJob_NotSaved(s, j, on) ==
    LET job   == mem[s][j]
        store == [mem[s] EXCEPT ![j] =
                     NewJob(on, IF on THEN NextRun(j, job.at, now) ELSE 0, job.at)]
    IN
    /\ CanCall(s)
    /\ job.in
    /\ Change(s, store) /\ UNCHANGED <<disk, faults>>
    /\ UNCHANGED <<now, service, loop, stale, history>>

EnableJob(s, j, on) ==
    LET job   == mem[s][j]
        store == [mem[s] EXCEPT ![j] =
                     NewJob(on, IF on THEN NextRun(j, job.at, now) ELSE 0, job.at)]
    IN
    /\ CanCall(s)
    /\ job.in
    /\ Change(s, store) /\ Save(store)
    /\ UNCHANGED <<now, service, loop, stale, history>>

\* a `nookclaw cron' process loads the file
OpenCli ==
    /\ commands < Commands /\ commands' = commands + 1
    /\ life[Cli] = "none"
    /\ life' = [life EXCEPT ![Cli] = "open"]
    /\ Keep(Cli, disk)
    /\ UNCHANGED <<now, disk, gen, loop, stale, faults, history>>
-----------------------------------------------------------------------------
Next ==
    \/ Tick
    \/ ProcessEnds
    \/ OpenCli
    \/ \E g \in Gateway :
          \/ Start(g) \/ Stop(g) \/ CheckJobs(g)
          \/ \E j \in Job : BeginJob(g, j) \/ EndJob(g, j)
    \/ \E s \in Service, j \in Job :
          \/ AddJob(s, j) \/ RemoveJob(s, j)
          \/ \E on \in BOOLEAN : EnableJob(s, j, on)
    \/ \E c \in stale : UpdateJob(c)

Spec == Init /\ [][Next]_vars

\* The loop of a service ticks, and its handlers return (they have a timeout).
Fairness ==
    \A g \in Gateway :
        /\ WF_vars(CheckJobs(g))
        /\ \A j \in Job : WF_vars(BeginJob(g, j)) /\ WF_vars(EndJob(g, j))

FairSpec == Spec /\ Fairness
-----------------------------------------------------------------------------
(* Properties.                                                              *)

\* The variables hold values of the kinds the code declares; a service executes
\* one job at a time.
TypeOK ==
    /\ now \in 1..MaxTime /\ gen \in 0..Generations /\ commands \in 0..Commands
    /\ disk \in [Job -> JobType] /\ mem \in [Service -> [Job -> JobType]]
    /\ life \in [Service -> {"none", "running", "stopped", "open"}]
    /\ due \in [Service -> SUBSET Job] /\ exec \in [Service -> SUBSET Job]
    /\ \A g \in Gateway : Cardinality(exec[g]) <= 1
    /\ stale \subseteq Service \X Job \X JobType
    /\ faults \in 0..MaxFaults
    /\ made \subseteq Job /\ acked \subseteq made /\ gone \subseteq Job /\ removed \subseteq Service \X Job
    /\ fired \in [OneTime -> Nat]

\* A one-time job is executed at most once, whatever is reloaded, restarted,
\* updated with an old copy or written back to the file by another process.
AtMostOnce == \A j \in OneTime : fired[j] <= 1

\* When RemoveJob has returned true, that service does not start the job again,
\* even if checkJobs had already collected it.
RemovedNeverStarts ==
    [][\A g \in Gateway, j \in Job :
          exec[g] # {j} /\ exec'[g] = {j} => <<g, j>> \notin removed]_vars

\* A recurring job that is enabled in a running service has a next run, unless
\* it is about to run or running: it never falls out of the schedule.
RecurringScheduled ==
    \A g \in Gateway, j \in Job \ OneTime :
        life[g] = "running" /\ mem[g][j].in /\ mem[g][j].enabled
            => mem[g][j].next # 0 \/ j \in due[g] \cup exec[g]

\* The same for every job: the command line lists a job without a next run as
\* "scheduled".  (Does not hold for a one-time job whose time passed while no
\* service ran or while it was disabled.)
ListedIsScheduled ==
    \A g \in Gateway, j \in Job :
        life[g] = "running" /\ mem[g][j].in /\ mem[g][j].enabled
            => mem[g][j].next # 0 \/ j \in due[g] \cup exec[g]

\* A job whose AddJob succeeded ("Added job") is in the file until it is removed
\* or has completed, so a crash cannot lose it.
AddedSurvives == acked \ gone \subseteq {j \in Job : disk[j].in}

\* While no save fails, the file and the memory of the service agree whenever
\* the lock is free: no operation forgets to save.
DiskTracksMemory ==
    \A g \in Gateway : faults = 0 /\ g = gen /\ life[g] # "none" => disk = mem[g]

\* A due job is executed, unless the service is stopped, or the job is disabled,
\* removed or, by EnableJob, given another next run before (for a one-time job
\* that is due: none).
DueRuns ==
    \A g \in Gateway, j \in Job :
        (life[g] = "running" /\ j \in DueIn(mem[g]))
            ~> \/ exec[g] = {j} \/ life[g] # "running"
               \/ ~mem[g][j].in \/ ~mem[g][j].enabled \/ mem[g][j].next > now
               \/ j \in OneTime /\ mem[g][j].next = 0 /\ j \notin due[g]

\* Whatever is reloaded, restarted, run from the command line or updated with an old copy: no one-time
\* job runs twice, and no recurring job falls out of the schedule.
JobsSound == AtMostOnce /\ RecurringScheduled

\* The file after crashes and failed saves: no added job is missing, it says what the memory says
\* while no save fails, and what it says makes no one-time job run twice.
FileSound == AddedSurvives /\ DiskTracksMemory /\ AtMostOnce
=============================================================================
