------------------------- MODULE CronServiceProofs -------------------------
(***************************************************************************)
(* Proofs about CronService, for any jobs, intervals and number of         *)
(* services, reloads, crashes, failed saves and commands.                  *)
(***************************************************************************)
EXTENDS CronService, FiniteSetTheorems, TLAPS

-----------------------------------------------------------------------------
(* The kinds of the values.                                                *)

\* A service runs no job or one; no exec set is larger.
TypeInv == TypeOK /\ \A s \in Service : exec[s] = {} \/ \E j \in Job : exec[s] = {j}

\* What is written into a store is a job.
LEMMA JobTypes ==
  ASSUME CronAssumption, NEW j \in Job, NEW t \in Nat, NEW at \in Nat, NEW e \in BOOLEAN
  PROVE  /\ NextRun(j, at, t) \in Nat
         /\ j \notin OneTime => NextRun(j, at, t) # 0
         /\ j \in OneTime => (NextRun(j, at, t) = 0 /\ at <= t) \/ (NextRun(j, at, t) = at /\ at > t)
         /\ NoJob \in JobType
         /\ \A n \in Nat : NewJob(e, n, at) \in JobType
BY DEF CronAssumption, NextRun, NoJob, NewJob, JobType

\* A store in which one entry is replaced is a store.
LEMMA StoreTypes ==
  ASSUME NEW store \in [Job -> JobType], NEW j \in Job, NEW job \in JobType
  PROVE  [store EXCEPT ![j] = job] \in [Job -> JobType]
OBVIOUS

\* After a save, whether it failed or not, the file and the count of failures have their types.
LEMMA SaveTypes ==
  ASSUME CronAssumption, TypeOK, NEW store \in [Job -> JobType], Save(store)
  PROVE  disk' \in [Job -> JobType] /\ faults' \in 0..MaxFaults
BY DEF CronAssumption, TypeOK, Save, Saved, NotSaved

\* The same for the memory and the life of the service that an operation changes.
LEMMA ChangeTypes ==
  ASSUME TypeOK, NEW s \in Service, NEW store \in [Job -> JobType], Change(s, store)
  PROVE  /\ mem' \in [Service -> [Job -> JobType]]
         /\ life' \in [Service -> {"none", "running", "stopped", "open"}]
<1>1. Empty \in [Job -> JobType]
  BY DEF Empty, NoJob, JobType
<1> QED BY <1>1 DEF TypeOK, Change, Keep

LEMMA TypeInit == CronAssumption /\ Init => TypeInv
<1> SUFFICES ASSUME CronAssumption, Init PROVE TypeInv
  OBVIOUS
<1>1. Empty \in [Job -> JobType]
  BY DEF Empty, NoJob, JobType
<1>2. \A s \in Service : exec[s] = {} /\ Cardinality(exec[s]) = 0
  BY FS_EmptySet DEF Init
<1>3. \A g \in Gateway : g \in Service
  BY DEF Service
<1> QED BY <1>1, <1>2, <1>3 DEF CronAssumption, Init, TypeInv, TypeOK

LEMMA TypeStep == CronAssumption /\ TypeInv /\ [Next]_vars => TypeInv'
<1> SUFFICES ASSUME CronAssumption, TypeInv, [Next]_vars PROVE TypeInv'
  OBVIOUS
<1> USE DEF TypeInv
<1>0. /\ Generations \in Nat /\ MaxTime \in Nat /\ MaxFaults \in Nat
      /\ Gateway \subseteq Service /\ Cli \in Service /\ OneTime \subseteq Job
      /\ now \in Nat /\ \A j \in Job : Interval[j] \in Nat
      /\ Cli \notin Gateway
  BY DEF CronAssumption, TypeOK, Gateway, Cli, Service
<1>c. ASSUME \A s \in Service : exec'[s] = {} \/ \E j \in Job : exec'[s] = {j}
      PROVE  \A g \in Gateway : Cardinality(exec'[g]) <= 1
  <2> TAKE g \in Gateway
  <2>1. CASE exec'[g] = {}
    <3>1. Cardinality(exec'[g]) = 0
      BY <2>1, FS_EmptySet
    <3> QED BY <3>1
  <2>2. ASSUME NEW j \in Job, exec'[g] = {j} PROVE Cardinality(exec'[g]) <= 1
    <3>1. Cardinality({j}) = 1
      BY FS_Singleton
    <3> QED BY <2>2, <3>1
  <2> QED BY <1>0, <1>c, <2>1, <2>2
<1>e. exec' = exec => \A s \in Service : exec'[s] = {} \/ \E j \in Job : exec'[s] = {j}
  OBVIOUS
<1>j. \A s \in Service, j \in Job : /\ mem[s] \in [Job -> JobType] /\ mem[s][j] \in JobType
                                    /\ mem[s][j].at \in Nat /\ mem[s][j].next \in Nat
                                    /\ mem[s][j].enabled \in BOOLEAN /\ mem[s][j].in \in BOOLEAN
                                    /\ disk[j] \in JobType /\ disk[j].at \in Nat
                                    /\ disk[j].next \in Nat /\ disk[j].in \in BOOLEAN
                                    /\ disk[j].enabled \in BOOLEAN
  BY DEF TypeOK, JobType
<1>1. CASE Tick
  <2>1. now' \in 1..MaxTime
    BY <1>0, <1>1 DEF Tick, TypeOK
  <2> QED BY <1>c, <1>e, <1>1, <2>1 DEF Tick, TypeOK, service, loop, history
<1>2. CASE ProcessEnds
  <2>1. Empty \in [Job -> JobType]
    BY DEF Empty, NoJob, JobType
  <2>2. mem' \in [Service -> [Job -> JobType]]
    BY <1>2, <2>1 DEF ProcessEnds, TypeOK
  <2>3. life' \in [Service -> {"none", "running", "stopped", "open"}]
    BY <1>2 DEF ProcessEnds, TypeOK
  <2>4. /\ \A s \in Service : exec'[s] = {}
        /\ due' \in [Service -> SUBSET Job] /\ exec' \in [Service -> SUBSET Job]
    BY <1>2 DEF ProcessEnds
  <2> QED BY <1>c, <1>2, <2>2, <2>3, <2>4 DEF ProcessEnds, TypeOK, service, history
<1>3. CASE OpenCli
  <2>1. mem' \in [Service -> [Job -> JobType]]
    BY <1>0, <1>3 DEF OpenCli, TypeOK, Keep
  <2>2. life' \in [Service -> {"none", "running", "stopped", "open"}]
    BY <1>0, <1>3 DEF OpenCli, TypeOK
  <2>3. commands' \in 0..Commands
    BY <1>3 DEF OpenCli, TypeOK
  <2> QED BY <1>c, <1>e, <1>3, <2>1, <2>2, <2>3 DEF OpenCli, TypeOK, loop, history
<1>4. ASSUME NEW g \in Gateway, Start(g) PROVE TypeInv'
  <2>1. Recompute(disk) \in [Job -> JobType]
    <3>1. \A j \in Job : Recompute(disk)[j] \in JobType
      BY <1>0, <1>j, JobTypes DEF Recompute
    <3> QED BY <3>1 DEF Recompute
  <2>2. mem' \in [Service -> [Job -> JobType]] /\ disk' \in [Job -> JobType] /\ faults' = faults
    BY <1>0, <1>4, <2>1 DEF Start, TypeOK, Keep, Saved
  <2>3. life' \in [Service -> {"none", "running", "stopped", "open"}]
    BY <1>0, <1>4 DEF Start, TypeOK
  <2>4. gen' \in 0..Generations
    BY <1>0, <1>4 DEF Start, Gateway
  <2> QED BY <1>c, <1>e, <1>4, <2>2, <2>3, <2>4 DEF Start, TypeOK, loop, history
<1>5. ASSUME NEW g \in Gateway, Stop(g) PROVE TypeInv'
  BY <1>0, <1>c, <1>e, <1>5 DEF Stop, TypeOK, service, loop, history
<1>6. ASSUME NEW g \in Gateway, CheckJobs(g) PROVE TypeInv'
  <2> DEFINE D == DueIn(mem[g])
             store == [j \in Job |-> IF j \in D THEN NewJob(TRUE, 0, mem[g][j].at) ELSE mem[g][j]]
  <2>1. store \in [Job -> JobType]
    BY <1>0, <1>j, JobTypes
  <2>2. Keep(g, store) /\ Save(store) /\ due' = [due EXCEPT ![g] = D] /\ D \subseteq Job
    BY <1>6 DEF CheckJobs, DueIn
  <2> HIDE DEF store, D
  <2>3. disk' \in [Job -> JobType] /\ faults' \in 0..MaxFaults
    BY <2>1, <2>2, SaveTypes
  <2>4. mem' \in [Service -> [Job -> JobType]] /\ due' \in [Service -> SUBSET Job]
    BY <1>0, <2>1, <2>2 DEF Keep, TypeOK
  <2> QED BY <1>c, <1>e, <1>6, <2>3, <2>4 DEF CheckJobs, TypeOK, service, history
<1>7. ASSUME NEW g \in Gateway, NEW j \in Job, BeginJob(g, j) PROVE TypeInv'
  <2>1. due' \in [Service -> SUBSET Job] /\ exec' \in [Service -> SUBSET Job]
    BY <1>0, <1>7 DEF BeginJob, TypeOK
  <2>2. fired' \in [OneTime -> Nat]
    BY <1>7 DEF BeginJob, TypeOK
  <2>3. \A s \in Service : exec'[s] = {} \/ \E k \in Job : exec'[s] = {k}
    BY <1>0, <1>7 DEF BeginJob, TypeOK
  <2> QED BY <1>c, <1>7, <2>1, <2>2, <2>3 DEF BeginJob, TypeOK, service
<1>8. ASSUME NEW g \in Gateway, NEW j \in Job, EndJob(g, j) PROVE TypeInv'
  <2> DEFINE job   == mem[g][j]
             store == [mem[g] EXCEPT ![j] =
                          IF j \in OneTime THEN NoJob
                          ELSE NewJob(job.enabled, NextRun(j, job.at, now), job.at)]
  <2>1. store \in [Job -> JobType]
    BY <1>0, <1>j, JobTypes
  <2>2. \/ Keep(g, store) /\ Save(store)
        \/ UNCHANGED <<mem, disk, faults>>
    BY <1>8 DEF EndJob
  <2> HIDE DEF store
  <2>3. disk' \in [Job -> JobType] /\ faults' \in 0..MaxFaults
    BY <2>1, <2>2, SaveTypes DEF TypeOK
  <2>4. mem' \in [Service -> [Job -> JobType]]
    BY <1>0, <2>1, <2>2 DEF Keep, TypeOK
  <2>5. gone' \subseteq Job /\ exec' \in [Service -> SUBSET Job]
    BY <1>0, <1>8 DEF EndJob, TypeOK
  <2>6. \A s \in Service : exec'[s] = {} \/ \E k \in Job : exec'[s] = {k}
    BY <1>0, <1>8 DEF EndJob, TypeOK
  <2> QED BY <1>c, <1>8, <2>3, <2>4, <2>5, <2>6 DEF EndJob, TypeOK, service
<1>9. ASSUME NEW s \in Service, NEW j \in Job, AddJob(s, j) PROVE TypeInv'
  <2> DEFINE at    == IF j \in OneTime THEN now + Interval[j] ELSE 0
             job   == NewJob(TRUE, NextRun(j, at, now), at)
             store == [mem[s] EXCEPT ![j] = job]
  <2>1. job \in JobType /\ store \in [Job -> JobType]
    <3>1. at \in Nat
      BY <1>0
    <3>2. job \in JobType
      BY <1>0, <3>1, JobTypes
    <3> QED BY <1>0, <1>j, <3>2
  <2>2. /\ Change(s, store) /\ Save(store)
        /\ stale' \subseteq stale \cup {<<s, j, job>>} /\ acked' \subseteq acked \cup {j}
        /\ made' = made \cup {j}
    BY <1>9 DEF AddJob, Save
  <2> HIDE DEF store, job
  <2>3. disk' \in [Job -> JobType] /\ faults' \in 0..MaxFaults
    BY <2>1, <2>2, SaveTypes
  <2>4. mem' \in [Service -> [Job -> JobType]] /\ life' \in [Service -> {"none", "running", "stopped", "open"}]
    BY <2>1, <2>2, ChangeTypes
  <2>5. stale' \subseteq Service \X Job \X JobType /\ acked' \subseteq made' /\ made' \subseteq Job
    BY <2>1, <2>2 DEF TypeOK
  <2> QED BY <1>c, <1>e, <1>9, <2>3, <2>4, <2>5 DEF AddJob, TypeOK, service, loop
<1>10. ASSUME NEW s \in Service, NEW j \in Job, RemoveJob(s, j) PROVE TypeInv'
  <2> DEFINE store == [mem[s] EXCEPT ![j] = NoJob]
  <2>1. store \in [Job -> JobType]
    BY <1>0, <1>j, JobTypes
  <2>2. Change(s, store) /\ Save(store)
    BY <1>10 DEF RemoveJob
  <2> HIDE DEF store
  <2>3. disk' \in [Job -> JobType] /\ faults' \in 0..MaxFaults
    BY <2>1, <2>2, SaveTypes
  <2>4. mem' \in [Service -> [Job -> JobType]] /\ life' \in [Service -> {"none", "running", "stopped", "open"}]
    BY <2>1, <2>2, ChangeTypes
  <2>5. gone' \subseteq Job /\ removed' \subseteq Service \X Job
    BY <1>10 DEF RemoveJob, TypeOK
  <2> QED BY <1>c, <1>e, <1>10, <2>3, <2>4, <2>5 DEF RemoveJob, TypeOK, service, loop
<1>11. ASSUME NEW s \in Service, NEW j \in Job, NEW on \in BOOLEAN, EnableJob(s, j, on) PROVE TypeInv'
  <2> DEFINE job   == mem[s][j]
             store == [mem[s] EXCEPT ![j] =
                          NewJob(on, IF on THEN NextRun(j, job.at, now) ELSE 0, job.at)]
  <2>1. store \in [Job -> JobType]
    BY <1>0, <1>j, JobTypes
  <2>2. Change(s, store) /\ Save(store)
    BY <1>11 DEF EnableJob
  <2> HIDE DEF store
  <2>3. disk' \in [Job -> JobType] /\ faults' \in 0..MaxFaults
    BY <2>1, <2>2, SaveTypes
  <2>4. mem' \in [Service -> [Job -> JobType]] /\ life' \in [Service -> {"none", "running", "stopped", "open"}]
    BY <2>1, <2>2, ChangeTypes
  <2> QED BY <1>c, <1>e, <1>11, <2>3, <2>4 DEF EnableJob, TypeOK, service, loop, history
<1>12. ASSUME NEW c \in stale, UpdateJob(c) PROVE TypeInv'
  <2> DEFINE store == [mem[c[1]] EXCEPT ![c[2]] = c[3]]
  <2>1. c[1] \in Service /\ c[2] \in Job /\ c[3] \in JobType /\ store \in [Job -> JobType]
    BY <1>j DEF TypeOK
  <2>2. \/ Keep(c[1], store) /\ Save(store)
        \/ UNCHANGED <<mem, disk, faults>>
    BY <1>12 DEF UpdateJob
  <2> HIDE DEF store
  <2>3. disk' \in [Job -> JobType] /\ faults' \in 0..MaxFaults
    BY <2>1, <2>2, SaveTypes DEF TypeOK
  <2>4. mem' \in [Service -> [Job -> JobType]]
    BY <2>1, <2>2 DEF Keep, TypeOK
  <2> QED BY <1>c, <1>e, <1>12, <2>3, <2>4 DEF UpdateJob, TypeOK, service, loop, history
<1>13. CASE UNCHANGED vars
  BY <1>c, <1>e, <1>13 DEF vars, service, loop, history, TypeOK
<1> QED
  BY <1>1, <1>2, <1>3, <1>4, <1>5, <1>6, <1>7, <1>8, <1>9, <1>10, <1>11, <1>12, <1>13 DEF Next
-----------------------------------------------------------------------------
(* The copies of a job: in the file, in the memories, in the hands of the  *)
(* cron tool.                                                              *)

IsCopy(j, x) == \/ x = disk[j]
                \/ \E s \in Service : x = mem[s][j]
                \/ \E c \in stale : c[2] = j /\ x = c[3]

\* AtMS of a job that is added now
AtOf(j) == IF j \in OneTime THEN now + Interval[j] ELSE 0

\* Where a copy comes from: another copy, whose NextRunAtMS may have been set anew, or AddJob.
Follows(j, x) ==
    \/ x = NoJob
    \/ \E y \in JobType : /\ IsCopy(j, y) /\ x.in = y.in /\ x.at = y.at
                          /\ x.next \in {0, y.next, NextRun(j, y.at, now)}
    \/ j \notin made /\ j \in made' /\ x = NewJob(TRUE, NextRun(j, AtOf(j), now), AtOf(j))

LEMMA CopyType == ASSUME TypeOK, NEW j \in Job, NEW x, IsCopy(j, x) PROVE x \in JobType
BY DEF TypeOK, IsCopy

\* An operation on a store adds the copies of that store at most.
LEMMA StoreCopies ==
  ASSUME TypeOK, NEW s \in Service, NEW store \in [Job -> JobType],
         Change(s, store) \/ Keep(s, store), Save(store) \/ UNCHANGED disk, stale' \subseteq stale,
         NEW j \in Job, NEW x, IsCopy(j, x)'
  PROVE  IsCopy(j, x) \/ x = store[j] \/ x = NoJob
<1>1. disk' = disk \/ disk' = store
  BY DEF Save, Saved, NotSaved
<1>2. \A r \in Service : mem'[r] \in {mem[r], store, Empty}
  BY DEF Change, Keep, TypeOK
<1> QED BY <1>1, <1>2 DEF IsCopy, Empty

LEMMA CopyFollows ==
  ASSUME TypeOK, NEW j \in Job, NEW x, IsCopy(j, x)
  PROVE  Follows(j, x)
BY CopyType DEF Follows

LEMMA CopyStep ==
  ASSUME CronAssumption, TypeInv, [Next]_vars, NEW k \in Job, NEW x, IsCopy(k, x)'
  PROVE  Follows(k, x)
<1>0. /\ Gateway \subseteq Service /\ Cli \in Service /\ now \in Nat
      /\ TypeOK /\ \A s \in Service, j \in Job : mem[s][j] \in JobType
      /\ \A s \in Service : mem[s] \in [Job -> JobType]
      /\ disk \in [Job -> JobType]
  BY DEF CronAssumption, TypeInv, TypeOK, Service
<1>m. \A s \in Service : IsCopy(k, mem[s][k]) /\ mem[s][k] \in JobType
  BY <1>0 DEF IsCopy
<1>a. ASSUME UNCHANGED <<disk, mem, stale>> PROVE Follows(k, x)
  <2>1. IsCopy(k, x)
    BY <1>a DEF IsCopy
  <2> QED BY <1>0, <2>1, CopyFollows
<1>b. ASSUME NEW s \in Service, NEW store \in [Job -> JobType],
             Change(s, store) \/ Keep(s, store), Save(store) \/ UNCHANGED disk, stale' \subseteq stale,
             Follows(k, store[k])
      PROVE  Follows(k, x)
  <2>1. IsCopy(k, x) \/ x = store[k] \/ x = NoJob
    BY <1>0, <1>b, StoreCopies
  <2>2. Follows(k, NoJob)
    BY DEF Follows
  <2> QED BY <1>0, <1>b, <2>1, <2>2, CopyFollows
<1>n. NoJob \in JobType /\ \A b \in BOOLEAN, n \in Nat, t \in Nat :
          /\ NewJob(b, n, t) \in JobType
          /\ NewJob(b, n, t).in = TRUE /\ NewJob(b, n, t).at = t /\ NewJob(b, n, t).next = n
          /\ NewJob(b, n, t).enabled = b
  BY DEF NoJob, NewJob, JobType
<1>j. \A y \in JobType : y.in \in BOOLEAN /\ y.enabled \in BOOLEAN /\ y.next \in Nat /\ y.at \in Nat
  BY DEF JobType
<1>i. /\ \A j \in Job : Interval[j] \in Nat
      /\ \A j \in Job, at \in Nat : NextRun(j, at, now) \in Nat
  BY <1>0, JobTypes DEF CronAssumption
\* A copy of the memory with its next run set anew follows from it.
<1>d. ASSUME NEW s \in Service, NEW e \in BOOLEAN, NEW n \in {0, NextRun(k, mem[s][k].at, now)}, mem[s][k].in
      PROVE  Follows(k, NewJob(e, n, mem[s][k].at)) /\ NewJob(e, n, mem[s][k].at) \in JobType
  <2> DEFINE y == mem[s][k]  z == NewJob(e, n, y.at)
  <2>1. IsCopy(k, y) /\ y \in JobType /\ y.at \in Nat /\ y.in = TRUE /\ n \in Nat
    BY <1>m, <1>j, <1>i, <1>d
  <2>2. z.in = TRUE /\ z.at = y.at /\ z.next = n /\ z \in JobType
    BY <1>n, <2>1
  <2> HIDE DEF y, z
  <2>3. z.in = y.in /\ z.next \in {0, y.next, NextRun(k, y.at, now)}
    BY <2>1, <2>2 DEF y
  <2>4. Follows(k, z)
    BY <2>1, <2>2, <2>3 DEF Follows
  <2> QED BY <2>2, <2>4 DEF y, z
<1>1. CASE Tick
  BY <1>a, <1>1 DEF Tick
<1>2. CASE ProcessEnds
  <2>1. IsCopy(k, x) \/ x = NoJob
    BY <1>0, <1>2 DEF ProcessEnds, IsCopy, Empty, Cli
  <2> QED BY <1>0, <2>1, CopyFollows DEF Follows
<1>3. CASE OpenCli
  <2>1. Follows(k, disk[k])
    BY <1>0, CopyFollows DEF IsCopy
  <2> QED BY <1>0, <1>b, <1>3, <2>1 DEF OpenCli
<1>4. ASSUME NEW g \in Gateway, Start(g) PROVE Follows(k, x)
  <2> DEFINE store == Recompute(disk)  y == disk[k]
  <2>1. ASSUME NEW j \in Job PROVE store[j] \in JobType
    <3>1. disk[j] \in JobType /\ disk[j].at \in Nat /\ NextRun(j, disk[j].at, now) \in Nat
      BY <1>0, <1>j, <1>i
    <3> QED BY <1>n, <3>1 DEF Recompute
  <2>2. store \in [Job -> JobType]
    BY <2>1 DEF Recompute
  <2>3. y \in JobType /\ IsCopy(k, y) /\ Follows(k, y)
    BY <1>0, CopyFollows DEF IsCopy
  <2>4. store[k] = y \/ (y.in /\ store[k] = NewJob(TRUE, NextRun(k, y.at, now), y.at))
    BY DEF Recompute
  <2>5. ASSUME y.in, store[k] = NewJob(TRUE, NextRun(k, y.at, now), y.at) PROVE Follows(k, store[k])
    <3>1. y.at \in Nat /\ y.in = TRUE /\ NextRun(k, y.at, now) \in Nat
      BY <1>j, <1>i, <2>3, <2>5
    <3> DEFINE z == NewJob(TRUE, NextRun(k, y.at, now), y.at)
    <3>2. z.in = TRUE /\ z.at = y.at /\ z.next = NextRun(k, y.at, now)
      BY DEF NewJob
    <3>4. store[k] = z
      BY <2>5
    <3> HIDE DEF z, store, y
    <3>3. store[k].in = y.in /\ store[k].at = y.at /\ store[k].next \in {0, y.next, NextRun(k, y.at, now)}
      BY <3>1, <3>2, <3>4
    <3> QED BY <2>3, <3>3 DEF Follows
  <2>6. Keep(g, store) /\ Save(store) /\ stale' = stale
    BY <1>4 DEF Start, Save
  <2> HIDE DEF store, y
  <2>7. Follows(k, store[k])
    BY <2>3, <2>4, <2>5
  <2> QED BY <1>0, <1>b, <2>2, <2>6, <2>7
<1>5. ASSUME NEW g \in Gateway, Stop(g) PROVE Follows(k, x)
  BY <1>a, <1>5 DEF Stop
<1>6. ASSUME NEW g \in Gateway, CheckJobs(g) PROVE Follows(k, x)
  <2> DEFINE D == DueIn(mem[g])
             store == [j \in Job |-> IF j \in D THEN NewJob(TRUE, 0, mem[g][j].at) ELSE mem[g][j]]
  <2>1. store \in [Job -> JobType]
    BY <1>0, <1>n, <1>j
  <2>2. Keep(g, store) /\ Save(store) /\ stale' = stale
    BY <1>6 DEF CheckJobs
  <2>3. k \in D => mem[g][k].in
    BY DEF DueIn
  <2>4. Follows(k, mem[g][k])
    BY <1>0, <1>m, CopyFollows
  <2>5. Follows(k, store[k])
    <3>1. CASE k \in D
      BY <1>0, <1>d, <2>3, <3>1
    <3>2. CASE k \notin D
      BY <2>4, <3>2
    <3> QED BY <3>1, <3>2
  <2> HIDE DEF store
  <2> QED BY <1>0, <1>b, <2>1, <2>2, <2>5
<1>7. ASSUME NEW g \in Gateway, NEW j \in Job, BeginJob(g, j) PROVE Follows(k, x)
  BY <1>a, <1>7 DEF BeginJob
<1>8. ASSUME NEW g \in Gateway, NEW j \in Job, EndJob(g, j) PROVE Follows(k, x)
  <2> DEFINE job   == mem[g][j]
             next  == IF j \in OneTime THEN NoJob
                      ELSE NewJob(job.enabled, NextRun(j, job.at, now), job.at)
             store == [mem[g] EXCEPT ![j] = next]
  <2>1. CASE ~job.in
    BY <1>a, <1>8, <2>1 DEF EndJob
  <2>2. CASE job.in
    <3>1. job \in JobType /\ next \in JobType
      <4>1. job \in JobType /\ job.at \in Nat /\ job.enabled \in BOOLEAN
        <5>1. job \in JobType
          BY <1>0, <1>8
        <5> QED BY <5>1, <1>j
      <4>2. NextRun(j, job.at, now) \in Nat
        BY <1>i, <1>8, <4>1
      <4>3. NewJob(job.enabled, NextRun(j, job.at, now), job.at) \in JobType
        BY <4>1, <4>2, <1>n
      <4> QED BY <1>n, <4>1, <4>3
    <3>2. store \in [Job -> JobType]
      BY <1>0, <3>1
    <3>3. Keep(g, store) /\ Save(store) /\ stale' = stale
      BY <1>8, <2>2 DEF EndJob
    <3>4. Follows(k, mem[g][k])
      BY <1>0, <1>m, CopyFollows
    <3>5. Follows(k, store[k])
      <4>1. CASE k # j
        BY <1>0, <3>4, <4>1
      <4>2. CASE k = j /\ j \in OneTime
        BY <1>0, <4>2 DEF Follows
      <4>3. CASE k = j /\ j \notin OneTime
        <5>1. store[k] = NewJob(job.enabled, NextRun(j, job.at, now), job.at)
          BY <1>0, <4>3
        <5> QED BY <1>0, <1>d, <1>j, <2>2, <3>1, <4>3, <5>1
      <4> QED BY <4>1, <4>2, <4>3
    <3> HIDE DEF store
    <3> QED BY <1>0, <1>b, <3>2, <3>3, <3>5
  <2> QED BY <2>1, <2>2
<1>9. ASSUME NEW s \in Service, NEW j \in Job, AddJob(s, j) PROVE Follows(k, x)
  <2> DEFINE job   == NewJob(TRUE, NextRun(j, AtOf(j), now), AtOf(j))
             store == [mem[s] EXCEPT ![j] = job]
  <2>1. job \in JobType
    <3>1. AtOf(j) \in Nat
      BY <1>0, <1>i DEF AtOf
    <3> QED BY <1>n, <1>i, <3>1
  <2>2. store \in [Job -> JobType]
    BY <1>0, <2>1
  <2>3. /\ Change(s, store) /\ Save(store) /\ stale' \subseteq stale \cup {<<s, j, job>>}
        /\ j \notin made /\ made' = made \cup {j}
    BY <1>9 DEF AddJob, Save, AtOf
  <2>4. Follows(k, mem[s][k])
    BY <1>0, <1>m, CopyFollows
  <2>5. Follows(j, job)
    BY <2>3 DEF Follows
  <2>6. Follows(k, store[k])
    BY <1>0, <2>4, <2>5
  <2> HIDE DEF store, job
  <2>7. disk' \in {disk, store} /\ \A r \in Service : mem'[r] \in {mem[r], store, Empty}
    BY <1>0, <2>3 DEF Save, Saved, NotSaved, Change, Keep, TypeOK
  <2>8. IsCopy(k, x) \/ x = store[k] \/ x = NoJob \/ (k = j /\ x = job)
    BY <2>3, <2>7 DEF IsCopy, Empty
  <2> QED BY <1>0, <2>5, <2>6, <2>8, CopyFollows DEF Follows
<1>10. ASSUME NEW s \in Service, NEW j \in Job, RemoveJob(s, j) PROVE Follows(k, x)
  <2> DEFINE store == [mem[s] EXCEPT ![j] = NoJob]
  <2>1. store \in [Job -> JobType]
    BY <1>0, <1>n
  <2>2. Change(s, store) /\ Save(store) /\ stale' = stale
    BY <1>10 DEF RemoveJob
  <2>3. Follows(k, mem[s][k]) /\ Follows(k, NoJob)
    BY <1>0, <1>m, CopyFollows DEF Follows
  <2>4. Follows(k, store[k])
    BY <1>0, <2>3
  <2> HIDE DEF store
  <2> QED BY <1>0, <1>b, <2>1, <2>2, <2>4
<1>11. ASSUME NEW s \in Service, NEW j \in Job, NEW on \in BOOLEAN, EnableJob(s, j, on) PROVE Follows(k, x)
  <2> DEFINE job   == mem[s][j]
             next  == NewJob(on, IF on THEN NextRun(j, job.at, now) ELSE 0, job.at)
             store == [mem[s] EXCEPT ![j] = next]
  <2>1. job \in JobType /\ next \in JobType /\ job.in
    BY <1>0, <1>n, <1>j, <1>i, <1>11 DEF EnableJob
  <2>2. store \in [Job -> JobType]
    BY <1>0, <2>1
  <2>3. Change(s, store) /\ Save(store) /\ stale' = stale
    BY <1>11 DEF EnableJob
  <2>4. Follows(k, mem[s][k])
    BY <1>0, <1>m, CopyFollows
  <2>5. Follows(k, store[k])
    <3>1. CASE k # j
      BY <1>0, <2>4, <3>1
    <3>2. CASE k = j
      <4>1. store[k] = next
        BY <1>0, <3>2
      <4> QED BY <1>0, <1>d, <2>1, <3>2, <4>1
    <3> QED BY <3>1, <3>2
  <2> HIDE DEF store
  <2> QED BY <1>0, <1>b, <2>2, <2>3, <2>5
<1>12. ASSUME NEW c \in stale, UpdateJob(c) PROVE Follows(k, x)
  <2> DEFINE store == [mem[c[1]] EXCEPT ![c[2]] = c[3]]
  <2>1. c[1] \in Service /\ c[2] \in Job /\ c[3] \in JobType
    BY <1>0 DEF TypeOK
  <2>2. store \in [Job -> JobType]
    BY <1>0, <2>1
  <2>3. (Keep(c[1], store) /\ Save(store)) \/ UNCHANGED <<mem, disk>>
    BY <1>12 DEF UpdateJob
  <2>4. stale' \subseteq stale
    BY <1>12 DEF UpdateJob
  <2>5. Follows(k, mem[c[1]][k])
    BY <1>0, <1>m, <2>1, CopyFollows
  <2>6. Follows(k, store[k])
    <3>1. CASE k # c[2]
      BY <1>0, <2>1, <2>5, <3>1
    <3>2. CASE k = c[2]
      <4>1. store[k] = c[3] /\ IsCopy(k, c[3])
        BY <1>0, <2>1, <3>2 DEF IsCopy
      <4> QED BY <1>0, <4>1, CopyFollows
    <3> QED BY <3>1, <3>2
  <2> HIDE DEF store
  <2>7. CASE UNCHANGED <<mem, disk>>
    <3>1. IsCopy(k, x)
      BY <2>4, <2>7 DEF IsCopy
    <3> QED BY <1>0, <3>1, CopyFollows
  <2> QED BY <1>0, <1>b, <2>1, <2>2, <2>3, <2>4, <2>6, <2>7
<1>13. CASE UNCHANGED vars
  BY <1>a, <1>13 DEF vars
<1> QED
  BY <1>1, <1>2, <1>3, <1>4, <1>5, <1>6, <1>7, <1>8, <1>9, <1>10, <1>11, <1>12, <1>13 DEF Next
-----------------------------------------------------------------------------
(* What a step does to the clock, the loops and the history.               *)

\* Nothing made is unmade; what is due was due before or is found due by a check; what
\* runs ran before or was due; what has fired was due; what is removed was in a memory.
LEMMA StepFacts ==
  ASSUME CronAssumption, TypeInv, [Next]_vars
  PROVE  /\ made \subseteq made' /\ now \in Nat /\ now' \in Nat /\ now <= now'
         /\ gen \in Nat /\ gen' \in Nat /\ gen <= gen' /\ (gen' # gen => \E h \in Gateway : Start(h))
         /\ \A s \in Service, j \in Job :
               /\ j \in due'[s] => j \in due[s] \/ (s \in Gateway /\ CheckJobs(s) /\ j \in DueIn(mem[s]))
               /\ j \in exec'[s] => j \in exec[s] \/ (s \in Gateway /\ BeginJob(s, j) /\ mem[s][j].in)
               /\ <<s, j>> \in removed' => <<s, j>> \in removed \/ (RemoveJob(s, j) /\ mem[s][j].in)
         /\ \A j \in OneTime :
               fired'[j] # fired[j] => /\ fired'[j] = fired[j] + 1
                                       /\ \E g \in Gateway : BeginJob(g, j) /\ mem[g][j].in
<1> DEFINE Goal == /\ made \subseteq made' /\ now \in Nat /\ now' \in Nat /\ now <= now'
                   /\ gen \in Nat /\ gen' \in Nat /\ gen <= gen' /\ (gen' # gen => \E h \in Gateway : Start(h))
                   /\ \A s \in Service, j \in Job :
                         /\ j \in due'[s] => j \in due[s] \/ (s \in Gateway /\ CheckJobs(s) /\ j \in DueIn(mem[s]))
                         /\ j \in exec'[s] => j \in exec[s] \/ (s \in Gateway /\ BeginJob(s, j) /\ mem[s][j].in)
                         /\ <<s, j>> \in removed' => <<s, j>> \in removed \/ (RemoveJob(s, j) /\ mem[s][j].in)
                   /\ \A j \in OneTime :
                         fired'[j] # fired[j] => /\ fired'[j] = fired[j] + 1
                                                 /\ \E g \in Gateway : BeginJob(g, j) /\ mem[g][j].in
<1> SUFFICES Goal
  OBVIOUS
<1>0. /\ now \in Nat /\ gen \in Nat /\ Gateway \subseteq Service /\ Gateway \subseteq Nat /\ OneTime \subseteq Job
      /\ due \in [Service -> SUBSET Job] /\ exec \in [Service -> SUBSET Job] /\ fired \in [OneTime -> Nat]
  BY DEF CronAssumption, TypeInv, TypeOK, Gateway, Service
<1>a. ASSUME UNCHANGED <<now, gen, due, exec, removed, fired>>, made \subseteq made' PROVE Goal
  BY <1>0, <1>a
<1>1. CASE Tick
  BY <1>0, <1>1 DEF Tick, service, loop, history
<1>2. CASE ProcessEnds
  BY <1>0, <1>2 DEF ProcessEnds, service, history
<1>3. CASE OpenCli
  BY <1>a, <1>3 DEF OpenCli, loop, history
<1>4. ASSUME NEW g \in Gateway, Start(g) PROVE Goal
  <2>1. UNCHANGED <<now, due, exec, made, removed, fired>> /\ gen' = gen + 1
    BY <1>4 DEF Start, loop, history
  <2>2. gen' \in Nat /\ gen <= gen' /\ \E h \in Gateway : Start(h)
    BY <1>0, <1>4, <2>1
  <2> QED BY <1>0, <2>1, <2>2
<1>5. ASSUME NEW g \in Gateway, Stop(g) PROVE Goal
  BY <1>a, <1>5 DEF Stop, service, loop, history
<1>6. ASSUME NEW g \in Gateway, CheckJobs(g) PROVE Goal
  <2>1. due' = [due EXCEPT ![g] = DueIn(mem[g])] /\ UNCHANGED <<now, service, exec, history>>
    BY <1>6 DEF CheckJobs
  <2> QED BY <1>0, <1>6, <2>1 DEF service, history
<1>7. ASSUME NEW g \in Gateway, NEW k \in Job, BeginJob(g, k) PROVE Goal
  <2>1. \A s \in Service, j \in Job : j \in due'[s] => j \in due[s]
    BY <1>0, <1>7 DEF BeginJob
  <2>2. \A s \in Service, j \in Job : j \in exec'[s] => j \in exec[s] \/ (s = g /\ j = k /\ mem[s][j].in)
    BY <1>0, <1>7 DEF BeginJob
  <2>3. \A j \in OneTime : fired'[j] # fired[j] => fired'[j] = fired[j] + 1 /\ j = k /\ mem[g][j].in
    BY <1>0, <1>7 DEF BeginJob
  <2>4. UNCHANGED <<now, gen, made, removed>>
    BY <1>7 DEF BeginJob, service
  <2> QED BY <1>0, <1>7, <2>1, <2>2, <2>3, <2>4
<1>8. ASSUME NEW g \in Gateway, NEW k \in Job, EndJob(g, k) PROVE Goal
  BY <1>0, <1>8 DEF EndJob, service
<1>9. ASSUME NEW s \in Service, NEW j \in Job, AddJob(s, j) PROVE Goal
  BY <1>a, <1>9 DEF AddJob, service, loop
<1>10. ASSUME NEW r \in Service, NEW k \in Job, RemoveJob(r, k) PROVE Goal
  <2>1. removed' = removed \cup {<<r, k>>} /\ mem[r][k].in /\ UNCHANGED <<now, gen, due, exec, made, fired>>
    BY <1>10 DEF RemoveJob, service, loop
  <2> QED BY <1>0, <1>10, <2>1
<1>11. ASSUME NEW s \in Service, NEW j \in Job, NEW on \in BOOLEAN, EnableJob(s, j, on) PROVE Goal
  BY <1>a, <1>11 DEF EnableJob, service, loop, history
<1>12. ASSUME NEW c \in stale, UpdateJob(c) PROVE Goal
  BY <1>a, <1>12 DEF UpdateJob, service, loop, history
<1>13. CASE UNCHANGED vars
  BY <1>a, <1>13 DEF vars, service, loop, history
<1> HIDE DEF Goal
<1> QED
  BY <1>1, <1>2, <1>3, <1>4, <1>5, <1>6, <1>7, <1>8, <1>9, <1>10, <1>11, <1>12, <1>13 DEF Next
-----------------------------------------------------------------------------
(* The inductive invariant.                                                *)

\* Only the latest service runs; the cron tool holds copies of jobs of the gateway.
GenInv ==
    /\ \A g \in Gateway : /\ life[g] \in {"none", "running", "stopped"}
                          /\ life[g] # "none" => g <= gen
                          /\ life[g] = "running" => g = gen
    /\ \A c \in stale : c[1] \in Gateway /\ c[1] <= gen /\ c[3].in /\ c[3].next # 0

\* An id that was not generated is nowhere.
MadeInv ==
    \A j \in Job : j \notin made =>
        /\ \A x \in JobType : IsCopy(j, x) => ~x.in
        /\ \A s \in Service : j \notin due[s] \cup exec[s] /\ <<s, j>> \notin removed
        /\ j \in OneTime => fired[j] = 0

\* All copies of a one-time job agree on its time, and are due then or not at all.
TimeInv ==
    \A j \in OneTime :
        /\ \A x, y \in JobType : IsCopy(j, x) /\ IsCopy(j, y) /\ x.in /\ y.in => x.at = y.at
        /\ \A x \in JobType : IsCopy(j, x) => x.next \in {0, x.at}

\* When a one-time job is collected or has fired, its time has passed, whatever the copy.
Begun(j) == fired[j] # 0 \/ \E g \in Gateway : j \in due[g]
LateInv ==
    \A j \in OneTime : Begun(j) => \A x \in JobType : IsCopy(j, x) /\ x.in => x.at <= now

\* A one-time job that has fired is due nowhere; one that is collected is due nowhere else.
Armed(g, j) == life[g] = "running" /\ mem[g][j].in /\ mem[g][j].enabled /\ mem[g][j].next # 0
FiredInv ==
    \A j \in OneTime :
        /\ fired[j] <= 1
        /\ fired[j] # 0 => \A g \in Gateway : j \notin due[g] /\ (Armed(g, j) => j \in exec[g])
        /\ \A g, h \in Gateway : j \in due[g] /\ g # h => j \notin due[h] /\ ~Armed(h, j)

\* A copy that may still be written to a running service is of a job that only this
\* service has, and has no more once it has run.
StaleInv ==
    \A c \in stale : life[c[1]] = "running" =>
        /\ \A g \in Gateway : g # c[1] => ~mem[g][c[2]].in /\ c[2] \notin due[g]
        /\ c[2] \in OneTime /\ fired[c[2]] # 0 /\ c[2] \notin exec[c[1]] => ~mem[c[1]][c[2]].in

\* What a service has removed does not come back to it.
RemovedInv ==
    \A g \in Gateway, j \in Job : <<g, j>> \in removed => g <= gen /\ j \in made /\ ~mem[g][j].in

LoopInv == GenInv /\ MadeInv /\ TimeInv /\ LateInv /\ FiredInv /\ StaleInv /\ RemovedInv /\ JobsSound
-----------------------------------------------------------------------------
(* What a step does to a job in the memory of a service of the gateway.    *)

\* The entry of j after a step, if it is another one.
MemStep(g, j) ==
    \/ mem'[g][j] \in {mem[g][j], NoJob}
    \/ Start(g) /\ mem'[g][j] = Recompute(disk)[j]
    \/ CheckJobs(g) /\ j \in DueIn(mem[g]) /\ mem'[g][j] = NewJob(TRUE, 0, mem[g][j].at)
    \/ /\ EndJob(g, j) /\ mem[g][j].in /\ j \notin OneTime
       /\ mem'[g][j] = NewJob(mem[g][j].enabled, NextRun(j, mem[g][j].at, now), mem[g][j].at)
    \/ AddJob(g, j) /\ mem'[g][j] = NewJob(TRUE, NextRun(j, AtOf(j), now), AtOf(j))
    \/ \E on \in BOOLEAN :
          /\ EnableJob(g, j, on) /\ mem[g][j].in
          /\ mem'[g][j] = NewJob(on, IF on THEN NextRun(j, mem[g][j].at, now) ELSE 0, mem[g][j].at)
    \/ \E c \in stale : c[1] = g /\ c[2] = j /\ UpdateJob(c) /\ mem[g][j].in /\ mem'[g][j] = c[3]

\* What leaves a loop has run, is not there any more, or the process has ended.
LoopStep(g, j) ==
    /\ j \in due[g] => j \in due'[g] \cup exec'[g] \/ life'[g] = "none" \/ ~mem'[g][j].in
    /\ j \in exec[g] => \/ j \in exec'[g] \/ life'[g] = "none" \/ ~mem'[g][j].in
                        \/ j \notin OneTime /\ mem'[g][j].next # 0

LifeStep(g) ==
    \/ life'[g] = life[g]
    \/ life'[g] = "none"
    \/ life'[g] = "stopped" /\ life[g] = "running"
    \/ Start(g) /\ life'[g] = "running"

LEMMA MemFacts ==
  ASSUME CronAssumption, TypeInv, [Next]_vars, NEW g \in Gateway, NEW j \in Job
  PROVE  MemStep(g, j) /\ LoopStep(g, j) /\ LifeStep(g)
<1>0. /\ Gateway \subseteq Service /\ g # Cli /\ g \in Service /\ Cli \in Service
      /\ mem \in [Service -> [Job -> JobType]] /\ life \in [Service -> {"none", "running", "stopped", "open"}]
      /\ due \in [Service -> SUBSET Job] /\ exec \in [Service -> SUBSET Job]
      /\ NoJob.in = FALSE
  BY DEF CronAssumption, TypeInv, TypeOK, Service, Gateway, Cli, NoJob
<1>a. ASSUME mem'[g] = mem[g], life'[g] = life[g], due'[g] = due[g], exec'[g] = exec[g]
      PROVE  MemStep(g, j) /\ LoopStep(g, j) /\ LifeStep(g)
  BY <1>a DEF MemStep, LoopStep, LifeStep
\* an operation of another service, or of this one on its memory alone
<1>b. ASSUME NEW s \in Service, NEW store, Change(s, store) PROVE life'[g] = life[g] /\ mem'[g] = IF s = g THEN store ELSE mem[g]
  BY <1>0, <1>b DEF Change, Keep
<1>1. CASE Tick
  BY <1>a, <1>1 DEF Tick, loop
<1>2. CASE ProcessEnds
  BY <1>0, <1>2 DEF ProcessEnds, Empty, MemStep, LoopStep, LifeStep
<1>3. CASE OpenCli
  BY <1>0, <1>a, <1>3 DEF OpenCli, Keep, loop
<1>4. ASSUME NEW h \in Gateway, Start(h) PROVE MemStep(g, j) /\ LoopStep(g, j) /\ LifeStep(g)
  <2>1. CASE h = g
    <3>1. mem'[g] = Recompute(disk) /\ life'[g] = "running" /\ due' = due /\ exec' = exec
      BY <1>0, <1>4, <2>1 DEF Start, Keep, loop
    <3> QED BY <1>4, <2>1, <3>1 DEF MemStep, LoopStep, LifeStep
  <2>2. CASE h # g
    BY <1>0, <1>a, <1>4, <2>2 DEF Start, Keep, loop
  <2> QED BY <2>1, <2>2
<1>5. ASSUME NEW h \in Gateway, Stop(h) PROVE MemStep(g, j) /\ LoopStep(g, j) /\ LifeStep(g)
  BY <1>0, <1>5 DEF Stop, loop, MemStep, LoopStep, LifeStep
<1>6. ASSUME NEW h \in Gateway, CheckJobs(h) PROVE MemStep(g, j) /\ LoopStep(g, j) /\ LifeStep(g)
  <2>1. CASE h = g
    <3>1. /\ mem'[g][j] = IF j \in DueIn(mem[g]) THEN NewJob(TRUE, 0, mem[g][j].at) ELSE mem[g][j]
          /\ due[g] = {} /\ exec[g] = {} /\ life' = life
      BY <1>0, <1>6, <2>1 DEF CheckJobs, Keep
    <3> QED BY <1>6, <2>1, <3>1 DEF MemStep, LoopStep, LifeStep
  <2>2. CASE h # g
    BY <1>0, <1>a, <1>6, <2>2 DEF CheckJobs, Keep
  <2> QED BY <2>1, <2>2
<1>7. ASSUME NEW h \in Gateway, NEW k \in Job, BeginJob(h, k) PROVE MemStep(g, j) /\ LoopStep(g, j) /\ LifeStep(g)
  <2>1. mem' = mem /\ life' = life /\ (j \in exec[g] => j \in exec'[g])
    BY <1>0, <1>7 DEF BeginJob
  <2>2. j \in due[g] => j \in due'[g] \cup exec'[g] \/ ~mem'[g][j].in
    BY <1>0, <1>7 DEF BeginJob
  <2> QED BY <2>1, <2>2 DEF MemStep, LoopStep, LifeStep
<1>8. ASSUME NEW h \in Gateway, NEW k \in Job, EndJob(h, k) PROVE MemStep(g, j) /\ LoopStep(g, j) /\ LifeStep(g)
  <2>1. CASE h # g
    BY <1>0, <1>a, <1>8, <2>1 DEF EndJob, Keep
  <2> DEFINE job == mem[g][k]
             new == IF k \in OneTime THEN NoJob ELSE NewJob(job.enabled, NextRun(k, job.at, now), job.at)
  <2>2. CASE h = g
    <3>1. /\ exec[g] = {k} /\ exec'[g] = {} /\ due' = due /\ life' = life
          /\ IF job.in THEN mem'[g] = [mem[g] EXCEPT ![k] = new] ELSE mem' = mem
      BY <1>0, <1>8, <2>2 DEF EndJob, Keep
    <3>2. CASE j # k
      <4>1. mem'[g][j] = mem[g][j]
        BY <1>0, <3>1, <3>2
      <4> QED BY <3>1, <3>2, <4>1 DEF MemStep, LoopStep, LifeStep
    <3>3. CASE j = k /\ ~job.in
      BY <3>1, <3>3 DEF MemStep, LoopStep, LifeStep
    <3>4. CASE j = k /\ job.in /\ j \in OneTime
      <4>1. mem'[g][j] = NoJob
        BY <1>0, <3>1, <3>4
      <4> QED BY <1>0, <3>1, <4>1 DEF MemStep, LoopStep, LifeStep
    <3>5. CASE j = k /\ job.in /\ j \notin OneTime
      <4>1. mem'[g][j] = NewJob(job.enabled, NextRun(j, job.at, now), job.at)
        BY <1>0, <3>1, <3>5
      <4>2. mem'[g][j].next = NextRun(j, job.at, now)
        BY <4>1 DEF NewJob
      <4>3. job \in JobType /\ now \in Nat
        BY <1>0 DEF TypeInv, TypeOK
      <4>4. job.at \in Nat
        BY <4>3 DEF JobType
      <4>5. mem'[g][j].next # 0
        BY <3>5, <4>2, <4>3, <4>4, JobTypes
      <4> QED BY <1>8, <2>2, <3>1, <3>5, <4>1, <4>5 DEF MemStep, LoopStep, LifeStep
    <3> QED BY <3>2, <3>3, <3>4, <3>5
  <2> QED BY <2>1, <2>2
<1>9. ASSUME NEW s \in Service, NEW k \in Job, AddJob(s, k) PROVE MemStep(g, j) /\ LoopStep(g, j) /\ LifeStep(g)
  <2> DEFINE job == NewJob(TRUE, NextRun(k, AtOf(k), now), AtOf(k))
             store == [mem[s] EXCEPT ![k] = job]
  <2>1. Change(s, store) /\ UNCHANGED <<due, exec>>
    BY <1>9 DEF AddJob, AtOf, loop
  <2>2. store[j] = IF j = k THEN job ELSE mem[s][j]
    BY <1>0
  <2>3. job.in /\ (k \notin OneTime => job.in)
    BY DEF NewJob
  <2> HIDE DEF job, store
  <2>4. life'[g] = life[g] /\ (mem'[g][j] = mem[g][j] \/ (s = g /\ j = k /\ mem'[g][j] = job))
    BY <1>b, <2>1, <2>2
  <2>5. MemStep(g, j)
    BY <1>9, <2>4 DEF MemStep, job
  <2> QED BY <2>1, <2>4, <2>5 DEF LoopStep, LifeStep
<1>10. ASSUME NEW s \in Service, NEW k \in Job, RemoveJob(s, k) PROVE MemStep(g, j) /\ LoopStep(g, j) /\ LifeStep(g)
  <2> DEFINE store == [mem[s] EXCEPT ![k] = NoJob]
  <2>1. Change(s, store) /\ UNCHANGED <<due, exec>>
    BY <1>10 DEF RemoveJob, loop
  <2>2. store[j] = IF j = k THEN NoJob ELSE mem[s][j]
    BY <1>0
  <2> HIDE DEF store
  <2>3. life'[g] = life[g] /\ (mem'[g][j] = mem[g][j] \/ mem'[g][j] = NoJob)
    BY <1>b, <2>1, <2>2
  <2> QED BY <1>0, <2>1, <2>3 DEF MemStep, LoopStep, LifeStep
<1>11. ASSUME NEW s \in Service, NEW k \in Job, NEW on \in BOOLEAN, EnableJob(s, k, on)
       PROVE  MemStep(g, j) /\ LoopStep(g, j) /\ LifeStep(g)
  <2> DEFINE job == NewJob(on, IF on THEN NextRun(k, mem[s][k].at, now) ELSE 0, mem[s][k].at)
             store == [mem[s] EXCEPT ![k] = job]
  <2>1. Change(s, store) /\ UNCHANGED <<due, exec>> /\ mem[s][k].in
    BY <1>11 DEF EnableJob, loop
  <2>2. store[j] = IF j = k THEN job ELSE mem[s][j]
    BY <1>0
  <2> HIDE DEF job, store
  <2>3. life'[g] = life[g] /\ (mem'[g][j] = mem[g][j] \/ (s = g /\ j = k /\ mem'[g][j] = job))
    BY <1>b, <2>1, <2>2
  <2>4. MemStep(g, j)
    BY <1>11, <2>1, <2>3 DEF MemStep, job
  <2> QED BY <2>1, <2>3, <2>4 DEF LoopStep, LifeStep
<1>12. ASSUME NEW c \in stale, UpdateJob(c) PROVE MemStep(g, j) /\ LoopStep(g, j) /\ LifeStep(g)
  <2> DEFINE store == [mem[c[1]] EXCEPT ![c[2]] = c[3]]
  <2>1. UNCHANGED <<life, due, exec>>
    BY <1>12 DEF UpdateJob, loop
  <2>2. CASE mem' = mem
    BY <1>a, <2>1, <2>2
  <2>3. CASE mem[c[1]][c[2]].in /\ Keep(c[1], store)
    <3>1. c[1] \in Service /\ c[2] \in Job
      BY DEF TypeInv, TypeOK
    <3>2. mem'[g][j] = mem[g][j] \/ (c[1] = g /\ c[2] = j /\ mem'[g][j] = c[3])
      BY <1>0, <2>3, <3>1 DEF Keep
    <3>3. MemStep(g, j)
      BY <1>12, <2>3, <3>2 DEF MemStep
    <3> QED BY <2>1, <3>3 DEF LoopStep, LifeStep
  <2> QED BY <1>12, <2>2, <2>3 DEF UpdateJob
<1>13. CASE UNCHANGED vars
  BY <1>a, <1>13 DEF vars, loop
<1> QED
  BY <1>1, <1>2, <1>3, <1>4, <1>5, <1>6, <1>7, <1>8, <1>9, <1>10, <1>11, <1>12, <1>13 DEF Next

LEMMA LifeFacts ==
  ASSUME CronAssumption, TypeInv, [Next]_vars, NEW g \in Gateway
  PROVE  LifeStep(g)
<1>1. g \in Service /\ g # Cli /\ life \in [Service -> {"none", "running", "stopped", "open"}] /\ Gateway \subseteq Service
  BY DEF CronAssumption, TypeInv, TypeOK, Service, Gateway, Cli
<1>2. CASE ProcessEnds
  BY <1>1, <1>2 DEF ProcessEnds, LifeStep
<1>3. ASSUME NEW h \in Gateway, Start(h) \/ Stop(h) PROVE LifeStep(g)
  BY <1>1, <1>3 DEF Start, Stop, LifeStep
<1>4. ASSUME NEW s \in Service, NEW store, Change(s, store) PROVE LifeStep(g)
  BY <1>1, <1>4 DEF Change, LifeStep
<1>5. CASE OpenCli
  BY <1>1, <1>5 DEF OpenCli, LifeStep
<1>6. \/ life' = life \/ ProcessEnds \/ OpenCli \/ \E h \in Gateway : Start(h) \/ Stop(h)
      \/ \E s \in Service : \E store : Change(s, store)
  <2>1. ASSUME NEW s \in Service, NEW j \in Job, AddJob(s, j) \/ RemoveJob(s, j) PROVE \E store : Change(s, store)
    BY <2>1 DEF AddJob, RemoveJob
  <2>2. ASSUME NEW s \in Service, NEW j \in Job, NEW on \in BOOLEAN, EnableJob(s, j, on) PROVE \E store : Change(s, store)
    BY <2>2 DEF EnableJob
  <2> QED BY <2>1, <2>2 DEF Next, vars, Tick, CheckJobs, BeginJob, EndJob, UpdateJob
<1> QED BY <1>2, <1>3, <1>4, <1>5, <1>6 DEF LifeStep

\* A copy in the hands of the cron tool was there, or is of the job that it adds.
LEMMA StaleFacts ==
  ASSUME CronAssumption, TypeInv, [Next]_vars, NEW c \in stale'
  PROVE  \/ c \in stale
         \/ /\ c[1] \in Gateway /\ c[1] = gen /\ c[2] \in Job /\ c[2] \notin made
            /\ AddJob(c[1], c[2]) /\ c[3] = NewJob(TRUE, NextRun(c[2], AtOf(c[2]), now), AtOf(c[2]))
<1>0. /\ Gateway \subseteq Service /\ \A s \in Service : s # Cli => s \in Gateway
  BY DEF CronAssumption, Service, Gateway, Cli
<1>1. ASSUME NEW s \in Service, NEW j \in Job, AddJob(s, j)
      PROVE  c \in stale \/ (s # Cli /\ s = gen /\ c = <<s, j, NewJob(TRUE, NextRun(j, AtOf(j), now), AtOf(j))>>)
  <2> DEFINE job == NewJob(TRUE, NextRun(j, AtOf(j), now), AtOf(j))
  <2>1. (stale' \subseteq stale \/ (s # Cli /\ stale' = {<<s, j, job>>})) /\ CanCall(s)
    BY <1>1 DEF AddJob, AtOf
  <2>2. s # Cli /\ CanCall(s) => s = gen
    BY DEF CanCall
  <2> HIDE DEF job
  <2>3. stale' \subseteq stale \/ (s # Cli /\ s = gen /\ stale' = {<<s, j, job>>})
    BY <1>1, <2>1, <2>2 DEF AddJob
  <2> QED BY <2>3 DEF job
<1>2. CASE c \in stale
  BY <1>2
<1>3. CASE c \notin stale
  <2>1. \E s \in Service, j \in Job : AddJob(s, j)
    BY <1>3 DEF Next, vars, loop, history, service, Tick, ProcessEnds, OpenCli, Start, Stop, CheckJobs, BeginJob,
                EndJob, RemoveJob, EnableJob, UpdateJob
  <2>2. PICK s \in Service, j \in Job : AddJob(s, j)
    BY <2>1
  <2>3. s # Cli /\ s = gen /\ c = <<s, j, NewJob(TRUE, NextRun(j, AtOf(j), now), AtOf(j))>>
    BY <1>1, <1>3, <2>2
  <2>4. j \notin made
    BY <2>2 DEF AddJob
  <2> QED BY <1>0, <2>2, <2>3, <2>4
<1> QED BY <1>2, <1>3
-----------------------------------------------------------------------------
(* A step preserves each part.                                             *)

LEMMA GenStep == CronAssumption /\ TypeInv /\ GenInv /\ [Next]_vars => GenInv'
<1> SUFFICES ASSUME CronAssumption, TypeInv, GenInv, [Next]_vars PROVE GenInv'
  OBVIOUS
<1>1. Gateway \subseteq Nat /\ gen \in Nat /\ gen' \in Nat /\ gen <= gen' /\ (gen' # gen => \E h \in Gateway : Start(h))
  BY StepFacts DEF Gateway
<1>2. \A h \in Gateway : Start(h) => gen' = h /\ h = gen + 1 /\ \A g \in Gateway : life[g] # "running"
  BY DEF Start
<1>3. ASSUME NEW g \in Gateway
      PROVE  /\ life'[g] \in {"none", "running", "stopped"}
             /\ life'[g] # "none" => g <= gen'
             /\ life'[g] = "running" => g = gen'
  <2>1. LifeStep(g)
    BY <1>3, LifeFacts
  <2> QED BY <1>1, <1>2, <2>1 DEF GenInv, LifeStep
<1>4. ASSUME NEW c \in stale' PROVE c[1] \in Gateway /\ c[1] <= gen' /\ c[3].in /\ c[3].next # 0
  <2>1. CASE c \in stale
    <3>1. c[1] \in Gateway /\ c[1] <= gen /\ c[3].in /\ c[3].next # 0
      BY <2>1 DEF GenInv
    <3>2. c[1] \in Nat
      BY <1>1, <3>1
    <3>3. c[1] <= gen'
      BY <1>1, <3>1, <3>2
    <3> QED BY <3>1, <3>3
  <2>2. CASE c \notin stale
    <3>1. /\ c[1] \in Gateway /\ c[1] = gen /\ c[2] \in Job
          /\ c[3] = NewJob(TRUE, NextRun(c[2], AtOf(c[2]), now), AtOf(c[2]))
      BY <2>2, StaleFacts
    <3>2. c[3].in /\ c[3].next = NextRun(c[2], AtOf(c[2]), now)
      BY <3>1 DEF NewJob
    <3>3. /\ now \in Nat /\ Interval[c[2]] \in Nat \ {0}
      BY <3>1 DEF CronAssumption, TypeInv, TypeOK
    <3>4. NextRun(c[2], AtOf(c[2]), now) # 0
      BY <3>3 DEF NextRun, AtOf
    <3>5. c[1] <= gen'
      BY <1>1, <3>1
    <3> QED BY <3>1, <3>2, <3>4, <3>5
  <2> QED BY <2>1, <2>2
<1> QED BY <1>3, <1>4 DEF GenInv

LEMMA MadeStep == CronAssumption /\ TypeInv /\ GenInv /\ MadeInv /\ [Next]_vars => MadeInv'
<1> SUFFICES ASSUME CronAssumption, TypeInv, GenInv, MadeInv, [Next]_vars,
                    NEW j \in Job, j \notin made'
             PROVE  /\ \A x \in JobType : IsCopy(j, x)' => ~x.in
                    /\ \A s \in Service : j \notin due'[s] \cup exec'[s] /\ <<s, j>> \notin removed'
                    /\ j \in OneTime => fired'[j] = 0
  BY DEF MadeInv
<1>0. Gateway \subseteq Service /\ \A s \in Service : IsCopy(j, mem[s][j]) /\ mem[s][j] \in JobType
  BY DEF Service, IsCopy, TypeInv, TypeOK
<1>1. j \notin made
  BY StepFacts
<1>2. \A s \in Service : ~mem[s][j].in /\ j \notin due[s] \cup exec[s] /\ <<s, j>> \notin removed
  BY <1>0, <1>1 DEF MadeInv
<1>3. ASSUME NEW x \in JobType, IsCopy(j, x)' PROVE ~x.in
  <2>1. Follows(j, x)
    BY <1>3, CopyStep
  <2>2. x = NoJob \/ \E y \in JobType : IsCopy(j, y) /\ x.in = y.in
    BY <2>1 DEF Follows
  <2>3. NoJob.in = FALSE
    BY DEF NoJob
  <2>4. \A y \in JobType : IsCopy(j, y) => ~y.in
    BY <1>1 DEF MadeInv
  <2> QED BY <2>2, <2>3, <2>4
<1>4. ASSUME NEW s \in Service PROVE j \notin due'[s] \cup exec'[s] /\ <<s, j>> \notin removed'
  BY <1>0, <1>2, <1>4, StepFacts DEF DueIn
<1>5. ASSUME j \in OneTime PROVE fired'[j] = 0
  BY <1>0, <1>1, <1>2, <1>5, StepFacts DEF MadeInv
<1> QED BY <1>3, <1>4, <1>5

LEMMA NextRunOneTime ==
  ASSUME NEW j \in OneTime, NEW at \in Nat, NEW t \in Nat
  PROVE  NextRun(j, at, t) \in {0, at} /\ (at <= t => NextRun(j, at, t) = 0)
BY DEF NextRun

LEMMA TimeStep == CronAssumption /\ TypeInv /\ MadeInv /\ TimeInv /\ [Next]_vars => TimeInv'
<1> SUFFICES ASSUME CronAssumption, TypeInv, MadeInv, TimeInv, [Next]_vars, NEW j \in OneTime
             PROVE  /\ \A x, y \in JobType : IsCopy(j, x)' /\ IsCopy(j, y)' /\ x.in /\ y.in => x.at = y.at
                    /\ \A x \in JobType : IsCopy(j, x)' => x.next \in {0, x.at}
  BY DEF TimeInv
<1>0. j \in Job /\ now \in Nat /\ \A x \in JobType : x.at \in Nat
  BY DEF CronAssumption, TypeInv, TypeOK, JobType
<1>1. ASSUME NEW x \in JobType, IsCopy(j, x)'
      PROVE  /\ x.next \in {0, x.at}
             /\ x.in => \/ j \in made /\ \E y \in JobType : IsCopy(j, y) /\ y.in /\ y.at = x.at
                        \/ j \notin made /\ x.at = AtOf(j)
  <2>1. Follows(j, x)
    BY <1>0, <1>1, CopyStep
  <2>2. CASE x = NoJob
    BY <2>2 DEF NoJob
  <2>3. ASSUME NEW y \in JobType, IsCopy(j, y), x.in = y.in, x.at = y.at, x.next \in {0, y.next, NextRun(j, y.at, now)}
        PROVE  x.next \in {0, x.at} /\ (x.in => j \in made)
    <3>1. y.next \in {0, y.at} /\ NextRun(j, y.at, now) \in {0, y.at}
      BY <1>0, <2>3, NextRunOneTime DEF TimeInv
    <3> QED BY <1>0, <2>3, <3>1 DEF MadeInv
  <2>4. ASSUME j \notin made, x = NewJob(TRUE, NextRun(j, AtOf(j), now), AtOf(j))
        PROVE  x.next \in {0, x.at} /\ x.at = AtOf(j)
    <3>1. AtOf(j) \in Nat
      BY <1>0 DEF AtOf, CronAssumption
    <3>2. x.next = NextRun(j, AtOf(j), now) /\ x.at = AtOf(j)
      BY <2>4 DEF NewJob
    <3> QED BY <1>0, <3>1, <3>2, NextRunOneTime
  <2> QED BY <2>1, <2>2, <2>3, <2>4 DEF Follows, NoJob
<1>2. ASSUME NEW x \in JobType, NEW y \in JobType, IsCopy(j, x)', IsCopy(j, y)', x.in, y.in PROVE x.at = y.at
  <2>1. CASE j \in made
    <3>1. PICK u \in JobType : IsCopy(j, u) /\ u.in /\ u.at = x.at
      BY <1>1, <1>2, <2>1
    <3>2. PICK v \in JobType : IsCopy(j, v) /\ v.in /\ v.at = y.at
      BY <1>1, <1>2, <2>1
    <3> QED BY <3>1, <3>2 DEF TimeInv
  <2>2. CASE j \notin made
    BY <1>1, <1>2, <2>2
  <2> QED BY <2>1, <2>2
<1> QED BY <1>1, <1>2

LEMMA LateStep == CronAssumption /\ TypeInv /\ MadeInv /\ TimeInv /\ LateInv /\ [Next]_vars => LateInv'
<1> SUFFICES ASSUME CronAssumption, TypeInv, MadeInv, TimeInv, LateInv, [Next]_vars,
                    NEW j \in OneTime, Begun(j)', NEW x \in JobType, IsCopy(j, x)', x.in
             PROVE  x.at <= now'
  BY DEF LateInv
<1>0. /\ j \in Job /\ now \in Nat /\ now' \in Nat /\ now <= now' /\ x.at \in Nat
      /\ Gateway \subseteq Service
      /\ \A s \in Service : IsCopy(j, mem[s][j]) /\ mem[s][j] \in JobType
  <2>1. now \in Nat /\ now' \in Nat /\ now <= now'
    BY StepFacts
  <2>2. j \in Job /\ x.at \in Nat /\ Gateway \subseteq Service
    BY DEF CronAssumption, JobType, Service
  <2> QED BY <2>1, <2>2 DEF TypeInv, TypeOK, IsCopy
<1>1. Begun(j) \/ \E g \in Gateway : j \in DueIn(mem[g])
  BY <1>0, StepFacts DEF Begun, BeginJob
<1>2. j \in made
  BY <1>0, <1>1 DEF Begun, MadeInv, DueIn
<1>3. PICK y \in JobType : IsCopy(j, y) /\ y.in /\ y.at = x.at
  <2>1. Follows(j, x)
    BY <1>0, CopyStep
  <2>2. NoJob.in = FALSE
    BY DEF NoJob
  <2> QED BY <1>2, <2>1, <2>2 DEF Follows
<1>4. y.at <= now
  <2>1. CASE Begun(j)
    BY <1>3, <2>1 DEF LateInv
  <2>2. ASSUME NEW g \in Gateway, j \in DueIn(mem[g]) PROVE y.at <= now
    <3>1. mem[g][j].in /\ mem[g][j].next # 0 /\ mem[g][j].next <= now
      BY <2>2 DEF DueIn
    <3>2. mem[g][j].next = mem[g][j].at /\ mem[g][j].at = y.at
      BY <1>0, <1>3, <2>2, <3>1 DEF TimeInv
    <3> QED BY <3>1, <3>2
  <2> QED BY <1>1, <2>1, <2>2
<1> QED BY <1>0, <1>3, <1>4

\* A one-time job becomes due in a running service only before it has begun, or by an old copy.
LEMMA ArmedStep ==
  ASSUME CronAssumption, TypeInv, GenInv, MadeInv, LateInv, [Next]_vars,
         NEW g \in Gateway, NEW j \in OneTime, Armed(g, j)'
  PROVE  \/ Armed(g, j)
         \/ ~Begun(j)
         \/ life[g] = "running" /\ \E c \in stale : c[1] = g /\ c[2] = j /\ mem[g][j].in
<1>0. /\ j \in Job /\ now \in Nat /\ g \in Service /\ Gateway \subseteq Service
      /\ mem \in [Service -> [Job -> JobType]] /\ disk \in [Job -> JobType]
      /\ \A x \in JobType : x.at \in Nat
  BY DEF CronAssumption, TypeInv, TypeOK, Service, JobType
<1>1. life'[g] = "running" /\ mem'[g][j].in /\ mem'[g][j].enabled /\ mem'[g][j].next # 0
  BY DEF Armed
<1>2. ASSUME NEW x \in JobType, IsCopy(j, x), x.in, NextRun(j, x.at, now) # 0 PROVE ~Begun(j)
  <2>1. ~(x.at <= now)
    BY <1>0, <1>2, NextRunOneTime
  <2> QED BY <1>2, <2>1 DEF LateInv
<1>3. CASE Start(g)
  <2>1. mem'[g] = Recompute(disk)
    BY <1>0, <1>3 DEF Start, Keep
  <2>2. CASE disk[j].in /\ disk[j].enabled
    <3>1. mem'[g][j] = NewJob(TRUE, NextRun(j, disk[j].at, now), disk[j].at)
      BY <1>0, <2>1, <2>2 DEF Recompute
    <3>2. NextRun(j, disk[j].at, now) # 0
      BY <1>1, <3>1 DEF NewJob
    <3> QED BY <1>0, <1>2, <2>2, <3>2 DEF IsCopy
  <2>3. CASE ~(disk[j].in /\ disk[j].enabled)
    <3>1. mem'[g][j] = disk[j]
      BY <1>0, <2>1, <2>3 DEF Recompute
    <3> QED BY <1>1, <2>3, <3>1
  <2> QED BY <2>2, <2>3
<1>4. CASE ~Start(g)
  <2>1. life[g] = "running"
    BY <1>1, <1>4, LifeFacts DEF LifeStep
  <2>2. mem[g][j] \in JobType /\ IsCopy(j, mem[g][j])
    BY <1>0 DEF IsCopy
  <2>3. MemStep(g, j)
    BY <1>0, MemFacts
  <2>4. CASE mem'[g][j] \in {mem[g][j], NoJob}
    BY <1>1, <2>1, <2>4 DEF Armed, NoJob
  <2>5. CASE mem'[g][j] = NewJob(TRUE, 0, mem[g][j].at)
    BY <1>1, <2>5 DEF NewJob
  <2>6. CASE AddJob(g, j)
    BY <1>0, <2>6 DEF AddJob, MadeInv, Begun
  <2>7. ASSUME NEW on \in BOOLEAN, mem[g][j].in,
               mem'[g][j] = NewJob(on, IF on THEN NextRun(j, mem[g][j].at, now) ELSE 0, mem[g][j].at)
        PROVE  ~Begun(j)
    <3>1. mem'[g][j].next = IF on THEN NextRun(j, mem[g][j].at, now) ELSE 0
      BY <2>7 DEF NewJob
    <3> QED BY <1>1, <1>2, <2>2, <2>7, <3>1
  <2> QED BY <1>4, <2>1, <2>3, <2>4, <2>5, <2>6, <2>7 DEF MemStep
<1> QED BY <1>3, <1>4

LEMMA FiredStep ==
  CronAssumption /\ TypeInv /\ GenInv /\ MadeInv /\ LateInv /\ StaleInv /\ FiredInv /\ [Next]_vars => FiredInv'
<1> SUFFICES ASSUME CronAssumption, TypeInv, GenInv, MadeInv, LateInv, StaleInv, FiredInv, [Next]_vars,
                    NEW j \in OneTime
             PROVE  /\ fired'[j] <= 1
                    /\ fired'[j] # 0 => \A g \in Gateway : j \notin due'[g] /\ (Armed(g, j)' => j \in exec'[g])
                    /\ \A g, h \in Gateway : j \in due'[g] /\ g # h => j \notin due'[h] /\ ~Armed(h, j)'
  BY DEF FiredInv
<1>0. /\ j \in Job /\ Gateway \subseteq Service /\ fired[j] \in Nat
      /\ due \in [Service -> SUBSET Job] /\ exec \in [Service -> SUBSET Job]
  BY DEF CronAssumption, TypeInv, TypeOK, Service
<1>1. /\ fired[j] <= 1
      /\ fired[j] # 0 => \A g \in Gateway : j \notin due[g] /\ (Armed(g, j) => j \in exec[g])
      /\ \A g, h \in Gateway : j \in due[g] /\ g # h => j \notin due[h] /\ ~Armed(h, j)
  BY DEF FiredInv
<1>2. ASSUME NEW g \in Gateway, CheckJobs(g), j \in DueIn(mem[g])
      PROVE  Armed(g, j) /\ exec[g] = {} /\ life' = life
  BY <1>2 DEF CheckJobs, DueIn, Armed
<1>3. fired'[j] # fired[j] => fired'[j] = fired[j] + 1 /\ \E g \in Gateway : BeginJob(g, j) /\ mem[g][j].in
  BY StepFacts
<1>4. \A g \in Gateway : BeginJob(g, j) => j \in due[g]
  BY DEF BeginJob
<1>5. \A g \in Gateway : j \in due'[g] => j \in due[g] \/ (CheckJobs(g) /\ j \in DueIn(mem[g]))
  BY <1>0, StepFacts
<1>6. fired'[j] <= 1
  BY <1>0, <1>1, <1>3, <1>4
<1>7. ASSUME fired'[j] # 0, NEW g \in Gateway
      PROVE  j \notin due'[g] /\ (Armed(g, j)' => j \in exec'[g])
  <2>1. CASE fired[j] # 0
    <3>1. j \notin due[g] /\ (Armed(g, j) => j \in exec[g])
      BY <1>1, <2>1
    <3>2. j \notin due'[g]
      BY <1>2, <1>5, <3>1
    <3>3. ASSUME Armed(g, j)' PROVE j \in exec'[g]
      <4>1. Begun(j)
        BY <2>1 DEF Begun
      <4>2. j \in exec[g]
        BY <2>1, <3>1, <3>3, <4>1, ArmedStep DEF StaleInv
      <4>3. life'[g] = "running" /\ mem'[g][j].in
        BY <3>3 DEF Armed
      <4> QED BY <1>0, <4>2, <4>3, MemFacts DEF LoopStep
    <3> QED BY <3>2, <3>3
  <2>2. CASE fired[j] = 0
    <3>1. PICK h \in Gateway : BeginJob(h, j) /\ mem[h][j].in
      BY <1>3, <1>7, <2>2
    <3>2. /\ j \in due[h] /\ mem' = mem /\ life' = life /\ exec'[h] = {j}
          /\ due'[h] = due[h] \ {j} /\ \A f \in Gateway : f # h => due'[f] = due[f]
      BY <1>0, <3>1 DEF BeginJob
    <3>3. CASE g = h
      BY <3>2, <3>3
    <3>4. CASE g # h
      <4>1. j \notin due[g] /\ ~Armed(g, j)
        BY <1>1, <3>2, <3>4
      <4> QED BY <3>2, <3>4, <4>1 DEF Armed
    <3> QED BY <3>3, <3>4
  <2> QED BY <2>1, <2>2
<1>8. ASSUME NEW g \in Gateway, NEW h \in Gateway, j \in due'[g], g # h
      PROVE  j \notin due'[h] /\ ~Armed(h, j)'
  <2>1. CASE j \in due[g]
    <3>1. j \notin due[h] /\ ~Armed(h, j) /\ Begun(j)
      BY <1>1, <1>8, <2>1 DEF Begun
    <3>2. j \notin due'[h]
      BY <1>2, <1>5, <3>1
    <3>3. ~Armed(h, j)'
      BY <1>8, <2>1, <3>1, ArmedStep DEF StaleInv
    <3> QED BY <3>2, <3>3
  <2>2. CASE j \notin due[g]
    <3>1. CheckJobs(g) /\ Armed(g, j) /\ life' = life
      BY <1>2, <1>5, <1>8, <2>2
    <3>2. life[h] # "running"
      BY <1>8, <3>1 DEF Armed, GenInv
    <3>3. j \notin due'[h]
      BY <1>1, <1>2, <1>5, <1>8, <3>1, <3>2 DEF Armed
    <3> QED BY <3>1, <3>2, <3>3 DEF Armed
  <2> QED BY <2>1, <2>2
<1> QED BY <1>6, <1>7, <1>8

\* A job that is not in the memory of a service does not come in, unless it starts or adds it.
LEMMA StaysOut ==
  ASSUME CronAssumption, TypeInv, [Next]_vars, NEW g \in Gateway, NEW j \in Job,
         j \in made, ~Start(g), ~mem[g][j].in
  PROVE  ~mem'[g][j].in
<1>1. MemStep(g, j) /\ NoJob.in = FALSE
  BY MemFacts DEF NoJob
<1> QED BY <1>1 DEF MemStep, DueIn, AddJob

LEMMA StaleStep ==
  CronAssumption /\ TypeInv /\ GenInv /\ MadeInv /\ StaleInv /\ [Next]_vars => StaleInv'
<1> SUFFICES ASSUME CronAssumption, TypeInv, GenInv, MadeInv, StaleInv, [Next]_vars,
                    NEW c \in stale', life'[c[1]] = "running"
             PROVE  /\ \A g \in Gateway : g # c[1] => ~mem'[g][c[2]].in /\ c[2] \notin due'[g]
                    /\ c[2] \in OneTime /\ fired'[c[2]] # 0 /\ c[2] \notin exec'[c[1]] => ~mem'[c[1]][c[2]].in
  BY DEF StaleInv
<1> DEFINE s == c[1]  j == c[2]
<1>0. /\ Gateway \subseteq Service /\ Gateway \subseteq Nat /\ OneTime \subseteq Job /\ gen \in Nat
      /\ mem \in [Service -> [Job -> JobType]] /\ stale \subseteq Service \X Job \X JobType
  BY DEF CronAssumption, TypeInv, TypeOK, Service, Gateway
<1>1. CASE c \in stale
  <2>1. s \in Gateway /\ j \in Job /\ c[3] \in JobType /\ s <= gen /\ c[3].in
    BY <1>0, <1>1 DEF GenInv
  <2>2. j \in made
    BY <1>1, <2>1 DEF MadeInv, IsCopy
  <2>3. ~Start(s)
    BY <1>0, <2>1 DEF Start
  <2>4. life[s] = "running" /\ s = gen
    <3>1. life[s] = "running"
      BY <2>1, <2>3, LifeFacts DEF LifeStep
    <3> QED BY <2>1, <3>1 DEF GenInv
  <2>5. \A h \in Gateway : ~Start(h)
    BY <2>1, <2>4 DEF Start
  <2>6. /\ \A g \in Gateway : g # s => ~mem[g][j].in /\ j \notin due[g]
        /\ j \in OneTime /\ fired[j] # 0 /\ j \notin exec[s] => ~mem[s][j].in
    BY <1>1, <2>4 DEF StaleInv
  <2>7. ASSUME NEW g \in Gateway, g # s PROVE ~mem'[g][j].in /\ j \notin due'[g]
    <3>1. ~mem'[g][j].in
      BY <2>1, <2>2, <2>5, <2>6, <2>7, StaysOut
    <3>2. j \notin due'[g]
      BY <1>0, <2>1, <2>6, <2>7, StepFacts DEF DueIn
    <3> QED BY <3>1, <3>2
  <2>8. ASSUME j \in OneTime, fired'[j] # 0, j \notin exec'[s] PROVE ~mem'[s][j].in
    <3>1. CASE fired[j] = 0
      <4>1. PICK h \in Gateway : BeginJob(h, j) /\ mem[h][j].in
        BY <2>8, <3>1, StepFacts
      <4>2. h = s
        BY <2>6, <4>1
      <4>3. exec'[h] = {j}
        BY <1>0, <4>1 DEF BeginJob, TypeInv, TypeOK
      <4> QED BY <2>8, <4>2, <4>3
    <3>2. CASE fired[j] # 0 /\ j \in exec[s]
      <4>1. LoopStep(s, j)
        BY <2>1, MemFacts
      <4> QED BY <2>8, <3>2, <4>1 DEF LoopStep
    <3>3. CASE fired[j] # 0 /\ j \notin exec[s]
      BY <2>1, <2>2, <2>3, <2>6, <2>8, <3>3, StaysOut
    <3> QED BY <3>1, <3>2, <3>3
  <2> QED BY <2>7, <2>8
<1>2. CASE c \notin stale
  <2>1. s \in Gateway /\ s = gen /\ j \in Job /\ j \notin made /\ AddJob(s, j)
    BY <1>2, StaleFacts
  <2>2. ASSUME NEW g \in Gateway PROVE ~mem[g][j].in /\ j \notin due[g]
    <3>1. g \in Service /\ mem[g][j] \in JobType
      BY <1>0, <2>1
    <3>2. IsCopy(j, mem[g][j])
      BY <3>1 DEF IsCopy
    <3> QED BY <2>1, <3>1, <3>2 DEF MadeInv
  <2>3. \A g \in Gateway : g # s => mem'[g] = mem[g]
    BY <1>0, <2>1 DEF AddJob, Change, Keep
  <2>4. due' = due /\ fired' = fired
    BY <2>1 DEF AddJob, loop
  <2>5. j \in OneTime => fired[j] = 0
    BY <2>1 DEF MadeInv
  <2> QED BY <2>2, <2>3, <2>4, <2>5
<1> QED BY <1>1, <1>2

LEMMA RemovedStep ==
  CronAssumption /\ TypeInv /\ GenInv /\ MadeInv /\ RemovedInv /\ [Next]_vars => RemovedInv'
<1> SUFFICES ASSUME CronAssumption, TypeInv, GenInv, MadeInv, RemovedInv, [Next]_vars,
                    NEW g \in Gateway, NEW j \in Job, <<g, j>> \in removed'
             PROVE  g <= gen' /\ j \in made' /\ ~mem'[g][j].in
  BY DEF RemovedInv
<1>0. /\ Gateway \subseteq Service /\ g \in Nat /\ gen \in Nat /\ gen' \in Nat /\ gen <= gen' /\ made \subseteq made'
      /\ mem \in [Service -> [Job -> JobType]] /\ g # Cli
  <2>1. gen \in Nat /\ gen' \in Nat /\ gen <= gen' /\ made \subseteq made'
    BY StepFacts
  <2> QED BY <2>1 DEF CronAssumption, TypeInv, TypeOK, Service, Gateway, Cli
<1>1. CASE <<g, j>> \in removed
  <2>1. g <= gen /\ j \in made /\ ~mem[g][j].in
    BY <1>1 DEF RemovedInv
  <2>2. ~Start(g)
    BY <1>0, <2>1 DEF Start
  <2> QED BY <1>0, <2>1, <2>2, StaysOut
<1>2. CASE <<g, j>> \notin removed
  <2>1. RemoveJob(g, j) /\ mem[g][j].in
    BY <1>0, <1>2, StepFacts
  <2>2. g = gen /\ mem'[g] = [mem[g] EXCEPT ![j] = NoJob]
    BY <1>0, <2>1 DEF RemoveJob, CanCall, Change, Keep
  <2>3. mem'[g][j] = NoJob
    BY <1>0, <2>2
  <2>4. j \in made
    BY <1>0, <2>1 DEF MadeInv, IsCopy
  <2> QED BY <1>0, <2>2, <2>3, <2>4 DEF NoJob
<1> QED BY <1>1, <1>2

LEMMA RecurringStep ==
  CronAssumption /\ TypeInv /\ GenInv /\ RecurringScheduled /\ [Next]_vars => RecurringScheduled'
<1> SUFFICES ASSUME CronAssumption, TypeInv, GenInv, RecurringScheduled, [Next]_vars,
                    NEW g \in Gateway, NEW j \in Job \ OneTime,
                    life'[g] = "running", mem'[g][j].in, mem'[g][j].enabled, mem'[g][j].next = 0
             PROVE  j \in due'[g] \cup exec'[g]
  BY DEF RecurringScheduled
<1>0. /\ g \in Service /\ now \in Nat /\ mem \in [Service -> [Job -> JobType]] /\ disk \in [Job -> JobType]
      /\ due \in [Service -> SUBSET Job] /\ \A x \in JobType : x.at \in Nat
  BY DEF TypeInv, TypeOK, Service, JobType
<1>1. \A x \in JobType : NextRun(j, x.at, now) # 0 /\ NextRun(j, AtOf(j), now) # 0
  BY <1>0 DEF NextRun, CronAssumption
<1>2. CASE Start(g)
  <2>1. mem'[g] = Recompute(disk)
    BY <1>0, <1>2 DEF Start, Keep
  <2>2. mem'[g][j] = IF disk[j].in /\ disk[j].enabled THEN NewJob(TRUE, NextRun(j, disk[j].at, now), disk[j].at) ELSE disk[j]
    BY <1>0, <2>1 DEF Recompute
  <2>3. mem'[g][j] = NewJob(TRUE, NextRun(j, disk[j].at, now), disk[j].at)
    BY <2>2
  <2>4. mem'[g][j].next = NextRun(j, disk[j].at, now)
    BY <2>3 DEF NewJob
  <2> QED BY <1>0, <1>1, <2>4
<1>3. CASE ~Start(g)
  <2>1. life[g] = "running"
    BY <1>3, LifeFacts DEF LifeStep
  <2>2. MemStep(g, j) /\ LoopStep(g, j)
    BY MemFacts
  <2>3. CASE mem'[g][j] = mem[g][j]
    <3>1. j \in due[g] \cup exec[g]
      BY <2>1, <2>3 DEF RecurringScheduled
    <3> QED BY <2>2, <3>1 DEF LoopStep
  <2>4. CASE mem'[g][j] = NoJob
    BY <2>4 DEF NoJob
  <2>5. CASE CheckJobs(g) /\ j \in DueIn(mem[g])
    BY <1>0, <2>5 DEF CheckJobs
  <2>7. ~(mem'[g][j] = NewJob(mem[g][j].enabled, NextRun(j, mem[g][j].at, now), mem[g][j].at))
    BY <1>0, <1>1 DEF NewJob
  <2>8. ~(mem'[g][j] = NewJob(TRUE, NextRun(j, AtOf(j), now), AtOf(j)))
    BY <1>0, <1>1 DEF NewJob
  <2>9. ASSUME NEW on \in BOOLEAN,
               mem'[g][j] = NewJob(on, IF on THEN NextRun(j, mem[g][j].at, now) ELSE 0, mem[g][j].at)
        PROVE  FALSE
    <3>1. mem'[g][j].enabled = on /\ mem'[g][j].next = IF on THEN NextRun(j, mem[g][j].at, now) ELSE 0
      BY <2>9 DEF NewJob
    <3>2. NextRun(j, mem[g][j].at, now) # 0
      BY <1>0, <1>1
    <3> QED BY <3>1, <3>2
  <2>10. \A c \in stale : mem'[g][j] # c[3]
    BY DEF GenInv
  <2> QED BY <1>3, <2>2, <2>3, <2>4, <2>5, <2>7, <2>8, <2>9, <2>10 DEF MemStep
<1> QED BY <1>2, <1>3

\* Nothing is made, due or fired when the gateway starts for the first time.
LEMMA LoopInit == CronAssumption /\ Init => LoopInv
<1> SUFFICES ASSUME CronAssumption, Init PROVE LoopInv
  OBVIOUS
<1>1. /\ \A j \in Job : \A x : IsCopy(j, x) => x = NoJob
      /\ Gateway \subseteq Service /\ OneTime \subseteq Job
  BY DEF CronAssumption, Init, IsCopy, Empty, Service
<1>2. NoJob.in = FALSE /\ NoJob.next = 0
  BY DEF NoJob
<1>3. \A s \in Service : life[s] = "none" /\ due[s] = {} /\ exec[s] = {}
  BY DEF Init
<1>4. GenInv
  BY <1>1, <1>3 DEF GenInv, Init
<1>5. MadeInv
  BY <1>1, <1>2, <1>3 DEF MadeInv, Init
<1>6. TimeInv
  BY <1>1, <1>2 DEF TimeInv
<1>7. LateInv
  BY <1>1, <1>2 DEF LateInv
<1>8. FiredInv
  BY <1>1, <1>3 DEF FiredInv, Armed, Init
<1>9. StaleInv /\ RemovedInv
  BY DEF StaleInv, RemovedInv, Init
<1>10. JobsSound
  BY <1>1, <1>3, <1>8 DEF JobsSound, AtMostOnce, RecurringScheduled, FiredInv
<1> QED BY <1>4, <1>5, <1>6, <1>7, <1>8, <1>9, <1>10 DEF LoopInv

LEMMA LoopInvStep == CronAssumption /\ TypeInv /\ LoopInv /\ [Next]_vars => LoopInv'
<1> SUFFICES ASSUME CronAssumption, TypeInv, LoopInv, [Next]_vars PROVE LoopInv'
  OBVIOUS
<1>1. GenInv' /\ MadeInv' /\ TimeInv' /\ LateInv' /\ StaleInv' /\ RemovedInv' /\ RecurringScheduled'
  BY GenStep, MadeStep, TimeStep, LateStep, StaleStep, RemovedStep, RecurringStep DEF LoopInv, JobsSound
<1>2. FiredInv'
  BY FiredStep DEF LoopInv
<1>3. AtMostOnce'
  BY <1>2 DEF AtMostOnce, FiredInv
<1> QED BY <1>1, <1>2, <1>3 DEF LoopInv, JobsSound
-----------------------------------------------------------------------------
(* The theorems.                                                           *)

LEMMA Inductive == Spec => [](TypeInv /\ LoopInv)
BY TypeInit, TypeStep, LoopInit, LoopInvStep, CronAssumption, PTL DEF Spec

\* The variables keep their types through every start, stop, crash, check and change,
\* and a loop executes one job at a time.
THEOREM CronTypeCorrect == Spec => []TypeOK
<1>1. TypeInv => TypeOK
  BY DEF TypeInv
<1> QED BY <1>1, Inductive, PTL

\* checkJobs resets NextRunAtMS before executeJobByID and recomputeNextRuns gives no
\* next run to an "at" job whose time has passed: no one-time job fires twice, across
\* any number of reloads, restarts, stale updates and `nookclaw cron' commands, and no
\* enabled recurring job of a running service is left without a next run.
THEOREM CronJobsSound == Spec => []JobsSound
<1>1. LoopInv => JobsSound
  BY DEF LoopInv
<1> QED BY <1>1, Inductive, PTL

\* executeJobByID looks the job up again under the lock: a job for which RemoveJob of
\* this service has returned true is not started, though checkJobs had collected it.
THEOREM CronRemovedNeverStarts == Spec => RemovedNeverStarts
<1> DEFINE Starts(g, j) == exec[g] # {j} /\ exec'[g] = {j} => <<g, j>> \notin removed
<1>1. CronAssumption /\ TypeInv /\ LoopInv /\ [Next]_vars
         => [\A g \in Gateway, j \in Job : Starts(g, j)]_vars
  <2> SUFFICES ASSUME CronAssumption, TypeInv, LoopInv, [Next]_vars, NEW g \in Gateway, NEW j \in Job,
                      exec[g] # {j}, exec'[g] = {j}
               PROVE  <<g, j>> \notin removed
    OBVIOUS
  <2>1. g \in Service
    BY DEF Service
  <2>2. j \in exec[g] => exec[g] = {j}
    BY <2>1 DEF TypeInv
  <2>3. mem[g][j].in
    BY <2>1, <2>2, StepFacts
  <2> QED BY <2>3 DEF LoopInv, RemovedInv
<1> QED BY <1>1, Inductive, CronAssumption, PTL DEF Spec, RemovedNeverStarts
-----------------------------------------------------------------------------
(* The file of one service at a time, without commands: with a reload or a *)
(* command the file is written from two memories and AddedSurvives fails.  *)

\* One service lives, and its memory holds what it has acknowledged, as the file does.
FileInv ==
    /\ life[Cli] = "none"
    /\ \A g \in Gateway : /\ life[g] # "none" => g = gen
                          /\ due[g] # {} \/ exec[g] # {} => life[g] # "none"
                          /\ life[g] # "none" => acked \ gone \subseteq {j \in Job : mem[g][j].in}
    /\ AddedSurvives /\ DiskTracksMemory
    /\ commands = 0

\* An operation of the living service that keeps what was acknowledged and acknowledges
\* what it saves.
LEMMA FileOperation ==
  ASSUME TypeInv, FileInv, NEW s \in Gateway, life[s] # "none",
         NEW store \in [Job -> JobType], Keep(s, store), Save(store),
         \A j \in acked' \ gone' : store[j].in,
         disk' = store \/ acked' \ gone' \subseteq acked \ gone,
         \A g \in Gateway : life'[g] = life[g] /\ exec'[g] \subseteq exec[g],
         \A g \in Gateway : g # s => due'[g] = due[g],
         life'[Cli] = life[Cli], UNCHANGED service, acked' \subseteq Job
  PROVE  FileInv'
<1>0. Gateway \subseteq Service /\ s = gen /\ mem \in [Service -> [Job -> JobType]] /\ faults \in Nat
  BY DEF Service, FileInv, TypeInv, TypeOK
<1>1. mem'[s] = store
  BY <1>0 DEF Keep
<1>2. (disk' = store /\ faults' = faults) \/ (disk' = disk /\ faults' = faults + 1)
  BY DEF Save, Saved, NotSaved
<1>3. AddedSurvives'
  BY <1>2 DEF FileInv, AddedSurvives
<1>4. DiskTracksMemory'
  BY <1>0, <1>1, <1>2 DEF FileInv, DiskTracksMemory, service
<1>5. \A g \in Gateway : life'[g] # "none" => g = gen'
  BY DEF FileInv, service
<1>6. \A g \in Gateway : life'[g] # "none" => acked' \ gone' \subseteq {j \in Job : mem'[g][j].in}
  BY <1>0, <1>1, <1>5 DEF service
<1>7. \A g \in Gateway : due'[g] # {} \/ exec'[g] # {} => life'[g] # "none"
  BY <1>0 DEF FileInv
<1> QED BY <1>3, <1>4, <1>5, <1>6, <1>7 DEF FileInv, service

LEMMA FileStep ==
  ASSUME Reload = FALSE, Commands = 0, CronAssumption, TypeInv, GenInv, FileInv, [Next]_vars
  PROVE  FileInv'
<1>0. /\ Gateway \subseteq Service /\ Cli \in Service /\ Cli \notin Gateway
      /\ mem \in [Service -> [Job -> JobType]] /\ life \in [Service -> {"none", "running", "stopped", "open"}]
      /\ due \in [Service -> SUBSET Job] /\ exec \in [Service -> SUBSET Job]
      /\ stale \subseteq Service \X Job \X JobType /\ disk \in [Job -> JobType]
      /\ \A s \in Service : mem[s] \in [Job -> JobType]
  BY DEF TypeInv, TypeOK, Gateway, Service, Cli
<1>t. TypeInv' /\ acked' \subseteq Job
  <2>1. TypeInv'
    BY TypeStep
  <2> QED BY <2>1 DEF TypeInv, TypeOK
<1>s. /\ \A s \in Service : CanCall(s) => s \in Gateway /\ s = gen /\ life[s] # "none"
      /\ \A s \in Gateway : \A store : Change(s, store) => Keep(s, store) /\ life' = life
  BY <1>0 DEF FileInv, CanCall, Change, Service, Cli
<1>a. ASSUME UNCHANGED <<disk, mem, life, service, due, faults, acked, gone>>,
             \A s \in Service : exec'[s] # {} => exec[s] # {} \/ due[s] # {}
      PROVE  FileInv'
  BY <1>0, <1>a DEF FileInv, AddedSurvives, DiskTracksMemory, service
<1>1. CASE Tick
  BY <1>a, <1>1 DEF Tick, loop, history
<1>2. CASE ProcessEnds
  <2>1. \A g \in Gateway : life'[g] = "none" /\ due'[g] = {} /\ exec'[g] = {}
    BY <1>0, <1>2 DEF ProcessEnds
  <2>2. life'[Cli] = "none" /\ UNCHANGED <<disk, acked, gone, commands>>
    BY <1>0, <1>2 DEF ProcessEnds, FileInv, history, service
  <2> QED BY <2>1, <2>2 DEF FileInv, AddedSurvives, DiskTracksMemory
<1>3. CASE OpenCli
  BY <1>3 DEF OpenCli, FileInv
<1>4. ASSUME NEW g \in Gateway, Start(g) PROVE FileInv'
  <2> DEFINE store == Recompute(disk)
  <2>1. \A j \in Job : store[j].in = disk[j].in
    BY DEF Recompute, NewJob
  <2>2. /\ mem' = [mem EXCEPT ![g] = store] /\ disk' = store /\ gen' = g
        /\ life' = [life EXCEPT ![g] = "running"] /\ \A h \in Gateway : life[h] = "none"
        /\ UNCHANGED <<commands, due, exec, acked, gone>>
    BY <1>4 DEF Start, Keep, Saved, loop, history
  <2> HIDE DEF store
  <2>3. mem'[g] = store
    BY <1>0, <2>2
  <2>4. \A h \in Gateway : /\ h = g \/ life'[h] = "none"
                           /\ due'[h] = {} /\ exec'[h] = {}
    BY <1>0, <2>2 DEF FileInv
  <2>5. life'[Cli] = "none"
    BY <1>0, <2>2 DEF FileInv
  <2>6. acked' \ gone' \subseteq {j \in Job : disk'[j].in}
    BY <2>1, <2>2 DEF FileInv, AddedSurvives
  <2> QED BY <2>2, <2>3, <2>4, <2>5, <2>6 DEF FileInv, AddedSurvives, DiskTracksMemory
<1>5. ASSUME NEW g \in Gateway, Stop(g) PROVE FileInv'
  <2>1. /\ \A h \in Gateway : life'[h] = life[h] \/ (h = g /\ life'[h] = "stopped" /\ life[h] = "running")
        /\ life'[Cli] = life[Cli] /\ UNCHANGED <<disk, mem, gen, commands, due, exec, faults, acked, gone>>
    BY <1>0, <1>5 DEF Stop, service, loop, history
  <2> QED BY <2>1 DEF FileInv, AddedSurvives, DiskTracksMemory
<1>6. ASSUME NEW g \in Gateway, CheckJobs(g) PROVE FileInv'
  <2> DEFINE D == DueIn(mem[g])
             store == [j \in Job |-> IF j \in D THEN NewJob(TRUE, 0, mem[g][j].at) ELSE mem[g][j]]
  <2>1. /\ life[g] = "running" /\ Keep(g, store) /\ Save(store)
        /\ due' = [due EXCEPT ![g] = D] /\ UNCHANGED <<life, service, exec, acked, gone>>
    BY <1>6 DEF CheckJobs, history
  <2>2. \A j \in Job : store[j].in = mem[g][j].in
    BY DEF NewJob, DueIn
  <2>3. store \in [Job -> JobType]
    <3>1. \A j \in Job : mem[g][j] \in JobType /\ mem[g][j].at \in Nat
      BY <1>0 DEF JobType
    <3> QED BY <3>1, JobTypes
  <2> HIDE DEF store, D
  <2>4. \A j \in acked' \ gone' : store[j].in
    BY <2>1, <2>2 DEF FileInv
  <2>5. \A h \in Gateway : h # g => due'[h] = due[h]
    BY <1>0, <2>1
  <2> QED BY <1>0, <1>t, <2>1, <2>3, <2>4, <2>5, FileOperation
<1>7. ASSUME NEW g \in Gateway, NEW j \in Job, BeginJob(g, j) PROVE FileInv'
  <2>1. /\ UNCHANGED <<disk, mem, life, service, faults, acked, gone>> /\ j \in due[g]
        /\ \A h \in Gateway : (due'[h] # {} => due[h] # {}) /\ (exec'[h] # {} => exec[h] # {} \/ due[h] # {})
    BY <1>0, <1>7 DEF BeginJob
  <2> QED BY <2>1 DEF FileInv, AddedSurvives, DiskTracksMemory, service
<1>8. ASSUME NEW g \in Gateway, NEW j \in Job, EndJob(g, j) PROVE FileInv'
  <2> DEFINE job == mem[g][j]
             new == IF j \in OneTime THEN NoJob ELSE NewJob(job.enabled, NextRun(j, job.at, now), job.at)
             store == [mem[g] EXCEPT ![j] = new]
  <2>1. /\ exec[g] = {j} /\ exec' = [exec EXCEPT ![g] = {}] /\ UNCHANGED <<life, service, due, acked>>
        /\ job.in => /\ Keep(g, store) /\ Save(store)
                     /\ gone' = IF j \in OneTime THEN gone \cup {j} ELSE gone
        /\ ~job.in => UNCHANGED <<mem, disk, faults, gone>>
    BY <1>8 DEF EndJob
  <2>2. life[g] # "none"
    BY <2>1 DEF FileInv
  <2>3. CASE ~job.in
    <3>1. \A s \in Service : exec'[s] # {} => exec[s] # {} \/ due[s] # {}
      BY <1>0, <2>1
    <3> QED BY <1>a, <2>1, <2>3, <3>1
  <2>4. CASE job.in
    <3>1. new \in JobType /\ (j \notin OneTime => new.in)
      <4>1. job \in JobType /\ now \in Nat
        BY <1>0 DEF TypeInv, TypeOK
      <4>2. job.at \in Nat /\ job.enabled \in BOOLEAN
        BY <4>1 DEF JobType
      <4>3. NextRun(j, job.at, now) \in Nat /\ NoJob \in JobType
        BY <4>1, <4>2, JobTypes
      <4> QED BY <4>2, <4>3 DEF NewJob, JobType
    <3>2. store \in [Job -> JobType] /\ store[j] = new /\ \A k \in Job : k # j => store[k] = mem[g][k]
      BY <1>0, <3>1
    <3> HIDE DEF store, new
    <3>3. \A k \in acked' \ gone' : store[k].in
      BY <1>t, <2>1, <2>2, <2>4, <3>1, <3>2 DEF FileInv
    <3>4. acked' \ gone' \subseteq acked \ gone
      BY <2>1, <2>4
    <3>5. \A h \in Gateway : life'[h] = life[h] /\ exec'[h] \subseteq exec[h]
      BY <1>0, <2>1
    <3> QED BY <1>t, <2>1, <2>2, <2>4, <3>2, <3>3, <3>4, <3>5, FileOperation
  <2> QED BY <2>3, <2>4
<1>9. ASSUME NEW s \in Service, NEW j \in Job, AddJob(s, j) PROVE FileInv'
  <2> DEFINE job == NewJob(TRUE, NextRun(j, AtOf(j), now), AtOf(j))
             store == [mem[s] EXCEPT ![j] = job]
  <2>1. /\ CanCall(s) /\ Change(s, store) /\ UNCHANGED <<service, loop, gone>>
        /\ \/ Saved(store) /\ acked' = acked \cup {j}
           \/ NotSaved /\ acked' = acked
    BY <1>9 DEF AddJob, AtOf
  <2>2. job \in JobType /\ job.in
    <3>1. now \in Nat /\ Interval[j] \in Nat
      BY DEF TypeInv, TypeOK, CronAssumption
    <3>2. AtOf(j) \in Nat
      BY <3>1 DEF AtOf
    <3>3. NextRun(j, AtOf(j), now) \in Nat
      BY <3>1, <3>2, JobTypes
    <3> QED BY <3>2, <3>3 DEF NewJob, JobType
  <2>3. store \in [Job -> JobType] /\ store[j] = job /\ \A k \in Job : k # j => store[k] = mem[s][k]
    BY <1>0, <2>2
  <2> HIDE DEF store, job
  <2>4. s \in Gateway /\ life[s] # "none" /\ Keep(s, store) /\ life' = life /\ due' = due /\ exec' = exec
    BY <1>s, <2>1 DEF loop
  <2>5. \A k \in acked' \ gone' : store[k].in
    BY <1>t, <2>1, <2>2, <2>3, <2>4 DEF FileInv
  <2>6. Save(store) /\ (disk' = store \/ acked' \ gone' \subseteq acked \ gone)
    BY <2>1 DEF Save, Saved
  <2> QED BY <1>t, <2>1, <2>3, <2>4, <2>5, <2>6, FileOperation
<1>10. ASSUME NEW s \in Service, NEW j \in Job, RemoveJob(s, j) PROVE FileInv'
  <2> DEFINE store == [mem[s] EXCEPT ![j] = NoJob]
  <2>1. /\ CanCall(s) /\ Change(s, store) /\ Save(store) /\ UNCHANGED <<service, loop, acked>>
        /\ gone' = gone \cup {j}
    BY <1>10 DEF RemoveJob
  <2>2. store \in [Job -> JobType] /\ \A k \in Job : k # j => store[k] = mem[s][k]
    BY <1>0 DEF NoJob, JobType
  <2> HIDE DEF store
  <2>3. s \in Gateway /\ life[s] # "none" /\ Keep(s, store) /\ life' = life /\ due' = due /\ exec' = exec
    BY <1>s, <2>1 DEF loop
  <2>4. \A k \in acked' \ gone' : store[k].in
    BY <1>t, <2>1, <2>2, <2>3 DEF FileInv
  <2> QED BY <1>t, <2>1, <2>2, <2>3, <2>4, FileOperation
<1>11. ASSUME NEW s \in Service, NEW j \in Job, NEW on \in BOOLEAN, EnableJob(s, j, on) PROVE FileInv'
  <2> DEFINE job == NewJob(on, IF on THEN NextRun(j, mem[s][j].at, now) ELSE 0, mem[s][j].at)
             store == [mem[s] EXCEPT ![j] = job]
  <2>1. /\ CanCall(s) /\ Change(s, store) /\ Save(store) /\ UNCHANGED <<service, loop, acked, gone>>
    BY <1>11 DEF EnableJob, history
  <2>2. job \in JobType /\ job.in
    <3>1. now \in Nat /\ mem[s][j] \in JobType
      BY <1>0 DEF TypeInv, TypeOK
    <3>2. mem[s][j].at \in Nat
      BY <3>1 DEF JobType
    <3>3. NextRun(j, mem[s][j].at, now) \in Nat
      BY <3>1, <3>2, JobTypes
    <3> QED BY <3>2, <3>3 DEF NewJob, JobType
  <2>3. store \in [Job -> JobType] /\ store[j] = job /\ \A k \in Job : k # j => store[k] = mem[s][k]
    BY <1>0, <2>2
  <2> HIDE DEF store, job
  <2>4. s \in Gateway /\ life[s] # "none" /\ Keep(s, store) /\ life' = life /\ due' = due /\ exec' = exec
    BY <1>s, <2>1 DEF loop
  <2>5. \A k \in acked' \ gone' : store[k].in
    BY <1>t, <2>1, <2>2, <2>3, <2>4 DEF FileInv
  <2> QED BY <1>t, <2>1, <2>3, <2>4, <2>5, FileOperation
<1>12. ASSUME NEW c \in stale, UpdateJob(c) PROVE FileInv'
  <2> DEFINE s == c[1]  j == c[2]  store == [mem[s] EXCEPT ![j] = c[3]]
  <2>1. /\ life[s] # "none" /\ UNCHANGED <<life, service, due, exec, acked, gone>>
        /\ \/ Keep(s, store) /\ Save(store)
           \/ UNCHANGED <<mem, disk, faults>>
    BY <1>12 DEF UpdateJob, loop, history
  <2>2. s \in Gateway /\ c[3].in /\ c[3] \in JobType /\ j \in Job
    BY <1>0 DEF GenInv
  <2>3. CASE UNCHANGED <<mem, disk, faults>>
    BY <1>a, <2>1, <2>3
  <2>4. CASE Keep(s, store) /\ Save(store)
    <3>1. store \in [Job -> JobType] /\ store[j] = c[3] /\ \A k \in Job : k # j => store[k] = mem[s][k]
      BY <1>0, <2>2
    <3> HIDE DEF store, s, j
    <3>2. \A k \in acked' \ gone' : store[k].in
      BY <1>t, <2>1, <2>2, <3>1 DEF FileInv
    <3> QED BY <1>t, <2>1, <2>2, <2>4, <3>1, <3>2, FileOperation
  <2> QED BY <2>1, <2>3, <2>4
<1>13. CASE UNCHANGED vars
  BY <1>a, <1>13 DEF vars, loop, history
<1> QED
  BY <1>1, <1>2, <1>3, <1>4, <1>5, <1>6, <1>7, <1>8, <1>9, <1>10, <1>11, <1>12, <1>13 DEF Next

LEMMA FileInit == CronAssumption /\ Init => FileInv
BY DEF CronAssumption, Init, FileInv, AddedSurvives, DiskTracksMemory, Cli, Gateway, Service

\* saveStoreUnsafe after every change: with one service at a time, through crashes,
\* restarts and failed saves, a job that AddJob returned without an error is in the file
\* until it is removed or completes, and the file says what the memory says.
THEOREM CronFileSound ==
  ASSUME Reload = FALSE, Commands = 0
  PROVE  Spec => []FileSound
<1>1. CronAssumption /\ TypeInv /\ LoopInv /\ FileInv /\ [Next]_vars => FileInv'
  BY FileStep DEF LoopInv
<1>2. LoopInv /\ FileInv => FileSound
  BY DEF LoopInv, FileInv, JobsSound, FileSound
<1> QED BY <1>1, <1>2, FileInit, Inductive, CronAssumption, PTL DEF Spec
=============================================================================
