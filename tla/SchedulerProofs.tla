-------------------------- MODULE SchedulerProofs --------------------------
(***************************************************************************)
(* Type correctness, no two runs of a task at once, a backlog caught up    *)
(* with once, and no row that says running without a process: for every    *)
(* set of tasks and schedules and every number of runs, edits and deaths.  *)
(***************************************************************************)
EXTENDS Scheduler, FiniteSetTheorems, TLAPS

RunRows == [task : Tasks, status : Statuses]

\* A process at work on a run: the run is on, unless its task was deleted, or a start
\* of the gateway has called a run-now's interrupted.
JobOK(p) ==
    /\ pc[p] = "idle" => job[p].run = 0
    /\ pc[p] # "idle" => job[p] \in Rows /\ rows[job[p].task] # "unborn"
    /\ pc[p] # "idle" /\ job[p].task \in Cron => job[p].schedule \in Periods
    /\ pc[p] = "start" => job[p].run = 0
    /\ pc[p] \in {"run", "finish", "record"} =>
         /\ job[p].run \in DOMAIN runs
         /\ runs[job[p].run].task = job[p].task
    /\ pc[p] \in {"run", "finish"} =>
         \/ runs[job[p].run].status \in {"running", "gone"}
         \/ p = "cli" /\ job[p].run \in recovered
    /\ pc[p] = "finish" => outcome[p] \in Outcomes

JobsOK ==
    /\ \A p \in Procs : JobOK(p)
    /\ ~up => pc["gateway"] = "idle" /\ list = <<>>
    /\ job["gateway"].run = job["cli"].run => job["cli"].run = 0

\* The rows of `runs` of a task: those of a deleted one are gone.
RunsOK ==
    \A r \in DOMAIN runs : runs[r].status = "gone" => rows[runs[r].task] = "deleted"

\* What is due at slot is due after the loop's last run of t, or that run was never
\* recorded.
After(slot, t) == slot # Never /\ (slot > served[t] \/ t \in unrecorded)

\* The loop's run of t has ended and is still to be recorded.
Moving(t) == pc["gateway"] \in {"finish", "record"} /\ job["gateway"].task = t

\* The times of the tasks, and what the loop has read of them.
TimesOK ==
    /\ \A t \in Cron : schedule[t] \in Periods
    /\ \A t \in Tasks : rows[t] = "unborn" => served[t] = 0
    /\ \A t \in Tasks : Kept(t) /\ next[t] # Never => After(next[t], t) \/ Moving(t)
    /\ \A i \in DOMAIN list :
         /\ After(list[i].slot, list[i].task)
         /\ rows[list[i].task] # "unborn"
         /\ list[i].task \in Cron => list[i].schedule \in Periods
         /\ list[i].run = 0
    /\ \A i, j \in DOMAIN list : i # j => list[i].task # list[j].task
    /\ pc["gateway"] # "idle" =>
         \A i \in DOMAIN list : list[i].task # job["gateway"].task
    /\ pc["gateway"] \in {"start", "run"} =>
         After(job["gateway"].slot, job["gateway"].task)

IInv == TypeOK /\ JobsOK /\ RunsOK /\ TimesOK /\ NoOverlap /\ RunningIsAlive

Pcs == {"idle", "start", "run", "finish", "record"}
Jobs == Rows \cup {NoJob}

USE SchedulerAssumption DEF Procs, Never

-----------------------------------------------------------------------------
(* The inductive invariant *)

\* The next occurrence is after the instant it is computed from.
LEMMA Later ==
    ASSUME NEW period \in Nat \ {0}, NEW after \in Nat
    PROVE  NextOccurrence(period, after) \in Nat /\ NextOccurrence(period, after) > after
  BY DEF NextOccurrence

\* Initially nothing runs and nothing has run.
LEMMA InitIInv == Init => IInv
<1> SUFFICES ASSUME Init PROVE IInv
  OBVIOUS
<1> USE DEF Init
<1>s. /\ schedule \in [Tasks -> Periods \cup {0}] /\ \A t \in Cron : schedule[t] \in Periods
  BY DEF Tasks
<1>n. next \in [Tasks -> Nat] /\ \A t \in Tasks : next[t] > 0
  <2> SUFFICES ASSUME NEW t \in Tasks
               PROVE  FirstTime(t, schedule[t], 1) \in Nat /\ FirstTime(t, schedule[t], 1) > 0
    OBVIOUS
  <2>1. CASE t \in Once
    BY <2>1 DEF FirstTime
  <2>2. CASE t \notin Once
    <3>1. schedule[t] \in Nat \ {0}
      BY <1>s, <2>2 DEF Tasks
    <3>2. NextOccurrence(schedule[t], 1) \in Nat /\ NextOccurrence(schedule[t], 1) > 1
      BY <3>1, Later
    <3> QED BY <2>2, <3>2 DEF FirstTime
  <2> QED BY <2>1, <2>2
<1>e. runs = <<>> /\ list = <<>> /\ DOMAIN runs = {} /\ DOMAIN list = {}
  OBVIOUS
<1>p. /\ \A p \in Procs : pc[p] = "idle" /\ job[p] = NoJob /\ job[p].run = 0
  BY DEF NoJob
<1>1. TypeOK
  <2>1. edits \in 0..MaxEdits /\ deaths \in 0..MaxDeaths /\ clock \in 1..MaxTime
    OBVIOUS
  <2>2. /\ pc \in [Procs -> {"idle", "start", "run", "finish", "record"}]
        /\ job \in [Procs -> Rows \cup {NoJob}]
        /\ outcome \in [Procs -> Statuses]
        /\ endedAt \in [Procs -> 0..MaxTime] /\ served \in [Tasks -> 0..MaxTime]
    BY DEF Statuses
  <2> HIDE DEF Init
  <2>3. /\ rows \in [Tasks -> {"unborn", "kept", "deleted"}] /\ enabled \in [Tasks -> BOOLEAN]
        /\ up \in BOOLEAN /\ held \in BOOLEAN /\ unrecorded = {} /\ recovered = {} /\ left = {}
    BY DEF Init
  <2>4. runs \in Seq([task : Tasks, status : Statuses]) /\ list \in Seq(Rows)
    BY <1>e
  <2> QED BY <1>s, <1>n, <2>1, <2>2, <2>3, <2>4 DEF TypeOK
<1>2. JobsOK
  BY <1>p DEF JobsOK, JobOK
<1>3. RunsOK
  BY <1>e DEF RunsOK
<1>4. TimesOK
  BY <1>e, <1>s, <1>n, <1>p DEF TimesOK, Kept, After
<1>5. NoOverlap
  BY <1>p DEF NoOverlap, InRun
<1>6. RunningIsAlive
  BY <1>e DEF RunningIsAlive
<1> QED BY <1>1, <1>2, <1>3, <1>4, <1>5, <1>6 DEF IInv

\* The rows of `runs` are numbered from 1, without a gap.
LEMMA RunNumbers ==
    ASSUME TypeOK
    PROVE  /\ runs \in Seq(RunRows) /\ DOMAIN runs = 1..Len(runs) /\ Len(runs) \in Nat
           /\ \A r \in DOMAIN runs : r \in Nat /\ runs[r] \in RunRows
           /\ 0 \notin DOMAIN runs
<1>1. runs \in Seq(RunRows)
  BY DEF TypeOK, RunRows
<1>2. DOMAIN runs = 1..Len(runs) /\ Len(runs) \in Nat /\ \A r \in DOMAIN runs : runs[r] \in RunRows
  BY <1>1
<1> QED BY <1>1, <1>2

\* What the tick has read are rows of tasks.
LEMMA ListTyped ==
    ASSUME TypeOK
    PROVE  \A i \in DOMAIN list : /\ list[i] \in Rows /\ list[i].task \in Tasks
                                  /\ list[i].slot \in Nat
<1>1. list \in Seq(Rows)
  BY DEF TypeOK
<1>2. \A i \in DOMAIN list : list[i] \in Rows
  BY <1>1
<1> QED BY <1>2 DEF Rows

\* A process goes on; the other one stays where it is.
LEMMA Moves ==
    ASSUME TypeOK, NEW p \in Procs, NEW to \in Pcs, NEW j \in Jobs,
           pc' = [pc EXCEPT ![p] = to], job' = [job EXCEPT ![p] = j]
    PROVE  /\ pc' \in [Procs -> Pcs] /\ job' \in [Procs -> Jobs]
           /\ pc'[p] = to /\ job'[p] = j
           /\ \A o \in Procs : o # p => pc'[o] = pc[o] /\ job'[o] = job[o]
  BY DEF TypeOK, Pcs, Jobs

\* A process leaves its execution; the other one stays where it is.
LEMMA LeavesTyped ==
    ASSUME TypeOK, NEW p \in Procs, Leaves(p)
    PROVE  /\ pc' \in [Procs -> Pcs] /\ job' \in [Procs -> Jobs]
           /\ outcome' \in [Procs -> Statuses] /\ endedAt' \in [Procs -> 0..MaxTime]
           /\ pc'[p] = "idle" /\ job'[p].run = 0
           /\ \A o \in Procs : o # p => /\ pc'[o] = pc[o] /\ job'[o] = job[o]
                                         /\ outcome'[o] = outcome[o]
<1>1. NoJob \in Jobs /\ NoJob.run = 0 /\ "running" \in Statuses /\ 0 \in 0..MaxTime
  BY DEF NoJob, Jobs, Statuses
<1>2. outcome' \in [Procs -> Statuses] /\ endedAt' \in [Procs -> 0..MaxTime]
  BY <1>1 DEF TypeOK, Leaves
<1>3. \A o \in Procs : o # p => outcome'[o] = outcome[o]
  BY DEF TypeOK, Leaves
<1>4. /\ pc' \in [Procs -> Pcs] /\ job' \in [Procs -> Jobs]
      /\ pc'[p] = "idle" /\ job'[p] = NoJob
      /\ \A o \in Procs : o # p => pc'[o] = pc[o] /\ job'[o] = job[o]
  BY <1>1, Moves DEF Leaves, Pcs
<1> QED BY <1>1, <1>2, <1>3, <1>4

\* A process gives its execution up, or dies: the run it was at, if any, is left.
LEMMA Quits ==
    ASSUME IInv, NEW p \in Procs, Leaves(p), NotRecorded(p),
           UNCHANGED <<clock, table, runs, held, edits, served, recovered>>,
           list' \in {list, <<>>}, up' \in BOOLEAN, ~up' => list' = <<>> /\ pc'["gateway"] = "idle",
           deaths' \in 0..MaxDeaths,
           \/ left' = left \cup ({job[p].run} \ {0})
           \/ pc[p] = "record" /\ left' = left
    PROVE  IInv'
<1> USE DEF IInv, table
<1>0. /\ pc' \in [Procs -> Pcs] /\ job' \in [Procs -> Jobs]
      /\ outcome' \in [Procs -> Statuses] /\ endedAt' \in [Procs -> 0..MaxTime]
      /\ pc'[p] = "idle" /\ job'[p].run = 0
      /\ \A o \in Procs : o # p => /\ pc'[o] = pc[o] /\ job'[o] = job[o]
                                    /\ outcome'[o] = outcome[o]
  BY LeavesTyped
<1>a. job[p].run # 0 => job[p].run \in DOMAIN runs
  BY DEF JobsOK, JobOK, TypeOK, Pcs
<1>l. list' \in Seq(Rows) /\ (DOMAIN list' = {} \/ list' = list)
  <2>1. <<>> \in Seq(Rows) /\ DOMAIN <<>> = {}
    OBVIOUS
  <2> QED BY <2>1 DEF TypeOK
<1>u. /\ unrecorded' \subseteq Tasks /\ unrecorded \subseteq unrecorded'
      /\ pc["gateway"] \in {"finish", "record"} /\ p = "gateway" =>
           job["gateway"].task \in unrecorded'
  BY DEF NotRecorded, TypeOK, JobsOK, JobOK, Rows
<1>1. TypeOK'
  BY <1>0, <1>a, <1>l, <1>u DEF TypeOK, Pcs, Jobs
<1>2. JobsOK'
  <2>1. \A o \in Procs : JobOK(o)'
    BY <1>0 DEF JobsOK, JobOK
  <2> QED BY <1>0, <2>1 DEF JobsOK
<1>3. RunsOK'
  BY DEF RunsOK
<1>4. TimesOK'
  <2>1. pc'["gateway"] = "idle" \/ (pc'["gateway"] = pc["gateway"] /\ job'["gateway"] = job["gateway"])
    BY <1>0
  <2>2. \A t \in Tasks : Kept(t) /\ next[t] # 0 => After(next[t], t)' \/ Moving(t)'
    BY <1>0, <1>u DEF TimesOK, Kept, After, Moving
  <2>3. \A i \in DOMAIN list' : After(list[i].slot, list[i].task)'
    BY <1>l, <1>u DEF TimesOK, After
  <2>4. pc'["gateway"] \in {"start", "run"} => After(job["gateway"].slot, job["gateway"].task)'
    BY <1>u, <2>1 DEF TimesOK, After
  <2> QED BY <1>l, <2>1, <2>2, <2>3, <2>4 DEF TimesOK, Kept, After, Moving
<1>5. NoOverlap'
  BY <1>0 DEF NoOverlap, InRun
<1>6. RunningIsAlive'
  <2> SUFFICES ASSUME NEW r \in DOMAIN runs, runs[r].status = "running", r \notin left'
               PROVE  \E o \in Procs : job'[o].run = r /\ pc'[o] \in {"run", "finish"}
    BY DEF RunningIsAlive
  <2>1. PICK o \in Procs : job[o].run = r /\ pc[o] \in {"run", "finish"}
    BY DEF RunningIsAlive
  <2>2. r # 0
    BY DEF TypeOK
  <2>3. o # p
    BY <2>1, <2>2
  <2> QED BY <1>0, <2>1, <2>3
<1> QED BY <1>1, <1>2, <1>3, <1>4, <1>5, <1>6

\* The gateway's process dies.
LEMMA StepGatewayDies ==
    ASSUME IInv, GatewayDies
    PROVE  IInv'
<1>1. Leaves("gateway") /\ pc'["gateway"] = "idle"
  BY LeavesTyped DEF GatewayDies, IInv
<1>2. deaths' \in 0..MaxDeaths
  BY DEF GatewayDies, IInv, TypeOK
<1> QED BY <1>1, <1>2, Quits DEF GatewayDies, table

\* The process of a run-now dies.
LEMMA StepCliDies ==
    ASSUME IInv, CliDies
    PROVE  IInv'
<1>1. /\ Leaves("cli") /\ pc'["gateway"] = pc["gateway"]
  BY LeavesTyped DEF CliDies, IInv
<1>2. deaths' \in 0..MaxDeaths /\ up' \in BOOLEAN
  BY DEF CliDies, IInv, TypeOK
<1>3. ~up' => list' = <<>> /\ pc'["gateway"] = "idle"
  BY <1>1 DEF CliDies, IInv, JobsOK
<1> QED BY <1>1, <1>2, <1>3, Quits DEF CliDies, NotRecorded, table

\* The end of a run can't be written.
LEMMA StepFinishRefused ==
    ASSUME IInv, NEW p \in Procs, FinishRefused(p)
    PROVE  IInv'
<1>1. /\ Leaves(p) /\ pc'["gateway"] \in {"idle", pc["gateway"]}
  BY LeavesTyped DEF FinishRefused, IInv
<1>2. deaths' \in 0..MaxDeaths /\ up' \in BOOLEAN
  BY DEF FinishRefused, IInv, TypeOK
<1>3. ~up' => list' = <<>> /\ pc'["gateway"] = "idle"
  BY <1>1 DEF FinishRefused, IInv, JobsOK
<1>4. left' = left \cup ({job[p].run} \ {0})
  <2>1. job[p].run \in DOMAIN runs
    BY DEF FinishRefused, IInv, JobsOK, JobOK
  <2>2. 0 \notin DOMAIN runs
    BY RunNumbers DEF IInv
  <2> QED BY <2>1, <2>2 DEF FinishRefused
<1> QED BY <1>1, <1>2, <1>3, <1>4, Quits DEF FinishRefused, table

\* The task's next time can't be written.
LEMMA StepRecordRefused ==
    ASSUME IInv, NEW p \in Procs, RecordRefused(p)
    PROVE  IInv'
<1>1. /\ Leaves(p) /\ pc'["gateway"] \in {"idle", pc["gateway"]}
  BY LeavesTyped DEF RecordRefused, IInv
<1>2. deaths' \in 0..MaxDeaths /\ up' \in BOOLEAN
  BY DEF RecordRefused, IInv, TypeOK
<1>3. ~up' => list' = <<>> /\ pc'["gateway"] = "idle"
  BY <1>1 DEF RecordRefused, IInv, JobsOK
<1> QED BY <1>1, <1>2, <1>3, Quits DEF RecordRefused, table

\* The clock goes on.
LEMMA StepPasses ==
    ASSUME IInv, Passes
    PROVE  IInv'
<1> USE DEF IInv, table, procs, history, Passes
<1>1. TypeOK'
  BY DEF TypeOK
<1>2. JobsOK'
  BY DEF TypeOK, JobsOK, JobOK
<1>3. RunsOK'
  BY DEF TypeOK, RunsOK
<1>4. TimesOK'
  BY DEF TypeOK, TimesOK, Kept, After, Moving
<1>5. NoOverlap'
  BY DEF TypeOK, NoOverlap, InRun
<1>6. RunningIsAlive'
  BY DEF TypeOK, RunningIsAlive
<1> QED BY <1>1, <1>2, <1>3, <1>4, <1>5, <1>6

\* The kill switch holds the ticks, or lets them go on.
LEMMA StepHolds ==
    ASSUME IInv, Holds
    PROVE  IInv'
<1> USE DEF IInv, table, procs, history, Holds
<1>1. TypeOK'
  BY DEF TypeOK
<1>2. JobsOK'
  BY DEF TypeOK, JobsOK, JobOK
<1>3. RunsOK'
  BY DEF TypeOK, RunsOK
<1>4. TimesOK'
  BY DEF TypeOK, TimesOK, Kept, After, Moving
<1>5. NoOverlap'
  BY DEF TypeOK, NoOverlap, InRun
<1>6. RunningIsAlive'
  BY DEF TypeOK, RunningIsAlive
<1> QED BY <1>1, <1>2, <1>3, <1>4, <1>5, <1>6

\* The owner pauses or resumes a task.
LEMMA StepSetEnabled ==
    ASSUME IInv, NEW t \in Tasks, SetEnabled(t)
    PROVE  IInv'
<1> USE DEF IInv, table, procs, history, SetEnabled
<1>1. TypeOK'
  BY SMTT(30) DEF TypeOK
<1>2. JobsOK'
  BY DEF TypeOK, JobsOK, JobOK
<1>3. RunsOK'
  BY DEF TypeOK, RunsOK
<1>4. TimesOK'
  BY DEF TypeOK, TimesOK, Kept, After, Moving
<1>5. NoOverlap'
  BY DEF TypeOK, NoOverlap, InRun
<1>6. RunningIsAlive'
  BY DEF TypeOK, RunningIsAlive
<1> QED BY <1>1, <1>2, <1>3, <1>4, <1>5, <1>6

\* start_run: the row is entered only where no run of the task is on.
LEMMA StepStarts ==
    ASSUME IInv, NEW p \in Procs, Starts(p)
    PROVE  IInv'
<1> DEFINE t == job[p].task
<1>1. CASE (~Kept(t) \/ IsOn(t)) /\ Leaves(p) /\ UNCHANGED runs
  <2>1. /\ pc'["gateway"] \in {"idle", pc["gateway"]}
    BY <1>1, LeavesTyped DEF IInv
  <2>2. deaths' \in 0..MaxDeaths /\ up' \in BOOLEAN
    BY DEF Starts, IInv, TypeOK
  <2>3. ~up' => list' = <<>> /\ pc'["gateway"] = "idle"
    BY <2>1 DEF Starts, IInv, JobsOK
  <2>4. left' = left \cup ({job[p].run} \ {0})
    BY DEF Starts, IInv, JobsOK, JobOK, history
  <2> QED BY <1>1, <2>1, <2>2, <2>3, <2>4, Quits DEF Starts, NotRecorded, table, history
<1>2. CASE /\ Kept(t) /\ ~IsOn(t)
           /\ runs' = Append(runs, [task |-> t, status |-> "running"])
           /\ job' = [job EXCEPT ![p].run = Len(runs')]
           /\ Goto(p, "run")
           /\ UNCHANGED <<outcome, endedAt>>
  <2> DEFINE n == Len(runs) + 1
             row == [task |-> t, status |-> "running"]
             j == [job[p] EXCEPT !.run = n]
  <2>0. /\ pc[p] = "start" /\ Len(runs) < MaxRuns
        /\ UNCHANGED <<clock, rows, enabled, next, schedule, list, up, held, edits, deaths,
                       served, unrecorded, recovered, left, outcome, endedAt>>
    BY <1>2 DEF Starts, table, history
  <2>1. /\ job[p] \in Rows /\ t \in Tasks /\ rows[t] = "kept" /\ job[p].run = 0
        /\ t \in Cron => job[p].schedule \in Periods
    BY <1>2, <2>0 DEF IInv, JobsOK, JobOK, Rows, Kept
  <2>2. row \in RunRows /\ row.task = t /\ row.status = "running"
    BY <2>1 DEF RunRows, Statuses
  <2>3. /\ runs \in Seq(RunRows) /\ DOMAIN runs = 1..Len(runs) /\ Len(runs) \in Nat
        /\ \A r \in DOMAIN runs : r \in Nat /\ runs[r] \in RunRows
    BY RunNumbers DEF IInv
  <2>4. runs' = Append(runs, row)
    BY <1>2
  <2> HIDE DEF row
  <2>5. /\ runs' \in Seq(RunRows) /\ Len(runs') = n /\ DOMAIN runs' = 1..n
        /\ runs'[n] = row /\ \A r \in DOMAIN runs : runs'[r] = runs[r]
    BY <2>2, <2>3, <2>4
  <2>6. n \in 0..MaxRuns /\ n \in DOMAIN runs' /\ n \notin DOMAIN runs /\ n # 0
        /\ \A r \in DOMAIN runs' : r = n \/ r \in DOMAIN runs
    BY <2>0, <2>3, <2>5
  <2>7. /\ j \in Rows /\ j.run = n /\ j.task = t /\ j.slot = job[p].slot
        /\ j.schedule = job[p].schedule
    BY <2>1, <2>6 DEF Rows
  <2>8. pc' = [pc EXCEPT ![p] = "run"] /\ job' = [job EXCEPT ![p] = j]
    BY <1>2, <2>5 DEF Goto, IInv, TypeOK
  <2> HIDE DEF n, j
  <2>9. /\ pc' \in [Procs -> Pcs] /\ job' \in [Procs -> Jobs]
        /\ pc'[p] = "run" /\ job'[p] = j
        /\ \A o \in Procs : o # p => pc'[o] = pc[o] /\ job'[o] = job[o]
    BY <2>7, <2>8, Moves DEF IInv, Pcs, Jobs
  <2> HIDE DEF t
  <2> USE DEF IInv
  <2>a. TypeOK'
    <3>1. DOMAIN runs \subseteq DOMAIN runs'
      BY <2>3, <2>5, <2>6 DEF n
    <3>2. recovered \subseteq DOMAIN runs' /\ left \subseteq DOMAIN runs'
      BY <3>1 DEF TypeOK
    <3>3. runs' \in Seq([task : Tasks, status : Statuses])
      BY <2>5 DEF RunRows
    <3> QED BY <2>0, <2>9, <3>2, <3>3 DEF TypeOK, Pcs, Jobs
  <2>b. JobsOK'
    <3>1. JobOK(p)'
      BY <2>0, <2>1, <2>2, <2>5, <2>6, <2>7, <2>9 DEF JobOK
    <3>2. ASSUME NEW o \in Procs, o # p PROVE JobOK(o)' /\ job'[o].run # n
      <4>1. JobOK(o) /\ pc'[o] = pc[o] /\ job'[o] = job[o] /\ pc[o] \in Pcs
        BY <2>9, <3>2 DEF JobsOK, TypeOK, Pcs
      <4>2. job[o].run = 0 \/ job[o].run \in DOMAIN runs
        BY <4>1 DEF JobOK, Pcs
      <4> QED BY <2>0, <2>5, <2>6, <4>1, <4>2 DEF JobOK
    <3>3. job'["gateway"].run # job'["cli"].run
      BY <2>7, <2>9, <3>2
    <3>4. ~up' => pc'["gateway"] = "idle" /\ list' = <<>>
      BY <2>0, <2>9 DEF JobsOK
    <3> QED BY <3>1, <3>2, <3>3, <3>4 DEF JobsOK
  <2>c. RunsOK'
    BY <2>0, <2>2, <2>5, <2>6 DEF RunsOK
  <2>d. TimesOK'
    <3>1. /\ job'["gateway"].task = job["gateway"].task /\ job'["gateway"].slot = job["gateway"].slot
          /\ pc'["gateway"] = pc["gateway"] \/ (pc["gateway"] = "start" /\ pc'["gateway"] = "run")
      BY <2>0, <2>7, <2>9 DEF t
    <3> QED BY <2>0, <3>1 DEF TimesOK, Kept, After, Moving
  <2>e. NoOverlap'
    <3> SUFFICES ASSUME NEW u \in Tasks, InRun("gateway", u)', InRun("cli", u)'
                 PROVE  job'["cli"].run \in recovered
      BY <2>0 DEF NoOverlap
    <3>1. PICK o \in Procs : o # p
      OBVIOUS
    <3>2. u = t /\ pc[o] \in {"run", "finish"} /\ job[o].task = t /\ JobOK(o)
      BY <2>7, <2>9, <3>1 DEF InRun, JobsOK
    <3>3. job[o].run \in DOMAIN runs /\ runs[job[o].run].task = t
      BY <3>2 DEF JobOK
    <3>4. runs[job[o].run].status # "gone"
      BY <2>1, <3>3 DEF RunsOK
    <3>5. runs[job[o].run].status # "running"
      BY <1>2, <3>3 DEF IsOn, t
    <3>6. o = "cli" /\ job[o].run \in recovered
      BY <3>2, <3>4, <3>5 DEF JobOK
    <3> QED BY <2>9, <3>1, <3>6
  <2>f. RunningIsAlive'
    <3> SUFFICES ASSUME NEW r \in DOMAIN runs', runs'[r].status = "running", r \notin left
                 PROVE  \E o \in Procs : job'[o].run = r /\ pc'[o] \in {"run", "finish"}
      BY <2>0 DEF RunningIsAlive
    <3>1. CASE r = n
      BY <2>7, <2>9, <3>1
    <3>2. CASE r \in DOMAIN runs
      <4>1. PICK o \in Procs : job[o].run = r /\ pc[o] \in {"run", "finish"}
        BY <2>5, <3>2 DEF RunningIsAlive
      <4>2. o # p
        BY <2>0, <4>1
      <4> QED BY <2>9, <4>1, <4>2
    <3> QED BY <2>6, <3>1, <3>2
  <2> QED BY <2>a, <2>b, <2>c, <2>d, <2>e, <2>f
<1> QED BY <1>1, <1>2 DEF Starts

\* A step that leaves every run and the tasks' rows alone.
LEMMA RunsUntouched ==
    ASSUME RunsOK, UNCHANGED <<rows, runs>>
    PROVE  RunsOK'
  BY DEF RunsOK

\* The agent is woken, and ends somehow.
LEMMA StepWakes ==
    ASSUME IInv, NEW p \in Procs, Wakes(p)
    PROVE  IInv'
<1> USE DEF IInv
<1>0. /\ pc[p] = "run" /\ pc' = [pc EXCEPT ![p] = "finish"] /\ job' = job
      /\ UNCHANGED <<clock, rows, enabled, next, schedule, runs, list, up, held, edits, deaths,
                     unrecorded, recovered, left>>
      /\ \E o \in Outcomes : outcome' = [outcome EXCEPT ![p] = o]
      /\ endedAt' = [endedAt EXCEPT ![p] = clock]
      /\ served' = IF p = "gateway" THEN [served EXCEPT ![job[p].task] = clock] ELSE served
  BY DEF Wakes, Goto, table, history
<1>9. /\ pc' \in [Procs -> Pcs]
      /\ pc'[p] = "finish" /\ \A o \in Procs : o # p => pc'[o] = pc[o] /\ outcome'[o] = outcome[o]
      /\ outcome' \in [Procs -> Statuses] /\ outcome'[p] \in Outcomes
      /\ endedAt' \in [Procs -> 0..MaxTime]
  <2>1. clock \in 0..MaxTime
    BY DEF TypeOK
  <2> QED BY <1>0, <2>1 DEF TypeOK, Pcs
<1>s. /\ served' \in [Tasks -> 0..MaxTime]
      /\ \A t \in Tasks : served'[t] # served[t] =>
           p = "gateway" /\ t = job[p].task /\ rows[t] # "unborn"
  <2>1. clock \in 0..MaxTime
    BY DEF TypeOK
  <2>2. job[p].task \in Tasks /\ rows[job[p].task] # "unborn"
    BY <1>0 DEF JobsOK, JobOK, Rows
  <2> QED BY <1>0, <2>1, <2>2 DEF TypeOK
<1>1. TypeOK'
  BY <1>0, <1>9, <1>s DEF TypeOK, Pcs
<1>2. JobsOK'
  BY <1>0, <1>9 DEF JobsOK, JobOK
<1>3. RunsOK'
  BY <1>0, RunsUntouched
<1>4. TimesOK'
  <2>1. p = "gateway" => Moving(job[p].task)'
    BY <1>0, <1>9 DEF Moving
  <2>2. \A t \in Tasks : Kept(t) /\ next[t] # 0 => After(next[t], t)' \/ Moving(t)'
    <3> SUFFICES ASSUME NEW t \in Tasks, Kept(t), next[t] # 0, ~Moving(t)'
                 PROVE  After(next[t], t)'
      BY <1>0
    <3>1. served'[t] = served[t]
      BY <1>0, <1>s, <2>1
    <3>2. ~Moving(t)
      BY <1>0, <1>9 DEF Moving
    <3> QED BY <1>0, <3>1, <3>2 DEF TimesOK, After
  <2>3. \A i \in DOMAIN list : After(list[i].slot, list[i].task)'
    <3> SUFFICES ASSUME NEW i \in DOMAIN list PROVE After(list[i].slot, list[i].task)'
      OBVIOUS
    <3>1. list[i].task \in Tasks /\ (p = "gateway" => list[i].task # job[p].task)
      BY <1>0, ListTyped DEF TimesOK
    <3>2. served'[list[i].task] = served[list[i].task]
      BY <1>s, <3>1
    <3> QED BY <1>0, <3>2 DEF TimesOK, After
  <2>4. pc'["gateway"] \in {"start", "run"} => After(job["gateway"].slot, job["gateway"].task)'
    <3> SUFFICES ASSUME pc'["gateway"] \in {"start", "run"}
                 PROVE  After(job["gateway"].slot, job["gateway"].task)'
      OBVIOUS
    <3>1. p # "gateway" /\ pc'["gateway"] = pc["gateway"] /\ served' = served
      BY <1>0, <1>9
    <3> QED BY <1>0, <3>1 DEF TimesOK, After
  <2>5. \A t \in Tasks : rows[t] = "unborn" => served'[t] = 0
    BY <1>s DEF TimesOK
  <2>6. pc'["gateway"] # "idle" => \A i \in DOMAIN list : list[i].task # job["gateway"].task
    BY <1>0, <1>9 DEF TimesOK
  <2> QED BY <1>0, <2>2, <2>3, <2>4, <2>5, <2>6 DEF TimesOK, Kept, After, Moving
<1>5. NoOverlap'
  BY <1>0, <1>9 DEF NoOverlap, InRun
<1>6. RunningIsAlive'
  BY <1>0, <1>9 DEF RunningIsAlive
<1> QED BY <1>1, <1>2, <1>3, <1>4, <1>5, <1>6

\* The statuses of rows change, and nothing else of them.
LEMMA Restated ==
    ASSUME TypeOK, NEW f \in [DOMAIN runs -> Statuses],
           runs' = [r \in DOMAIN runs |-> [runs[r] EXCEPT !.status = f[r]]]
    PROVE  /\ runs' \in Seq(RunRows) /\ DOMAIN runs' = DOMAIN runs
           /\ \A r \in DOMAIN runs : runs'[r].task = runs[r].task /\ runs'[r].status = f[r]
<1>1. /\ DOMAIN runs = 1..Len(runs) /\ Len(runs) \in Nat
      /\ \A r \in DOMAIN runs : runs[r] \in RunRows
  BY RunNumbers
<1>2. \A r \in DOMAIN runs : /\ runs'[r] \in RunRows /\ runs'[r].task = runs[r].task
                             /\ runs'[r].status = f[r]
  BY <1>1 DEF RunRows
<1>3. runs' \in [1..Len(runs) -> RunRows] /\ DOMAIN runs' = DOMAIN runs
  BY <1>1, <1>2
<1>4. runs' \in Seq(RunRows)
  BY <1>1, <1>3
<1> QED BY <1>2, <1>3, <1>4

\* finish_run: the row of this run, and of no other.
LEMMA StepFinishes ==
    ASSUME IInv, NEW p \in Procs, Finishes(p)
    PROVE  IInv'
<1> USE DEF IInv
<1> DEFINE n == job[p].run
<1>0. /\ pc[p] = "finish" /\ pc' = [pc EXCEPT ![p] = "record"] /\ job' = job
      /\ UNCHANGED <<clock, rows, enabled, next, schedule, list, up, held, edits, deaths,
                     served, unrecorded, recovered, left, outcome, endedAt>>
  BY DEF Finishes, Goto, table, history
<1>j. JobOK(p) /\ n \in DOMAIN runs /\ outcome[p] \in Outcomes /\ outcome[p] # "running"
      /\ outcome[p] # "gone" /\ outcome[p] \in Statuses
  BY <1>0 DEF JobsOK, JobOK, TypeOK
<1>r. /\ runs' \in Seq(RunRows) /\ DOMAIN runs' = DOMAIN runs
      /\ \A r \in DOMAIN runs : runs'[r].task = runs[r].task
      /\ \A r \in DOMAIN runs : r # n => runs'[r] = runs[r]
      /\ runs'[n].status \in {"gone", outcome[p]}
      /\ runs'[n].status = "gone" <=> runs[n].status = "gone"
  <2>1. /\ DOMAIN runs = 1..Len(runs) /\ Len(runs) \in Nat
        /\ \A r \in DOMAIN runs : runs[r] \in RunRows
    BY RunNumbers
  <2>2. runs' = [runs EXCEPT ![n] = [runs[n] EXCEPT !.status = IF @ = "gone" THEN @ ELSE outcome[p]]]
    BY <1>j DEF Finishes
  <2>3. /\ [runs[n] EXCEPT !.status = IF @ = "gone" THEN @ ELSE outcome[p]] \in RunRows
        /\ [runs[n] EXCEPT !.status = IF @ = "gone" THEN @ ELSE outcome[p]].task = runs[n].task
        /\ [runs[n] EXCEPT !.status = IF @ = "gone" THEN @ ELSE outcome[p]].status =
             IF runs[n].status = "gone" THEN "gone" ELSE outcome[p]
    BY <1>j, <2>1 DEF RunRows
  <2>4. runs' \in Seq(RunRows) /\ DOMAIN runs' = DOMAIN runs
    <3>1. runs \in [1..Len(runs) -> RunRows]
      BY <2>1, RunNumbers
    <3>2. runs' \in [1..Len(runs) -> RunRows]
      BY <1>j, <2>1, <2>2, <2>3, <3>1
    <3> QED BY <2>1, <3>2
  <2>5. /\ runs'[n] = [runs[n] EXCEPT !.status = IF @ = "gone" THEN @ ELSE outcome[p]]
        /\ \A r \in DOMAIN runs : r # n => runs'[r] = runs[r]
    BY <1>j, <2>1, <2>2
  <2> QED BY <1>j, <2>3, <2>4, <2>5
<1>9. /\ pc' \in [Procs -> Pcs]
      /\ pc'[p] = "record" /\ \A o \in Procs : o # p => pc'[o] = pc[o]
  BY <1>0 DEF TypeOK, Pcs
<1>n. \A o \in Procs : o # p => job[o].run # n
  <2>1. n # 0
    BY <1>j, RunNumbers
  <2> QED BY <2>1 DEF JobsOK
<1> HIDE DEF n
<1>1. TypeOK'
  BY <1>0, <1>9, <1>r DEF TypeOK, Pcs, RunRows
<1>2. JobsOK'
  <2>1. JobOK(p)'
    BY <1>0, <1>9, <1>j, <1>r DEF JobOK, n
  <2>2. ASSUME NEW o \in Procs, o # p PROVE JobOK(o)'
    <3>1. JobOK(o) /\ job[o].run # n
      BY <1>n, <2>2 DEF JobsOK
    <3> QED BY <1>0, <1>9, <1>r, <2>2, <3>1 DEF JobOK
  <2> QED BY <1>0, <1>9, <2>1, <2>2 DEF JobsOK
<1>3. RunsOK'
  BY <1>0, <1>j, <1>r DEF RunsOK
<1>4. TimesOK'
  BY <1>0, <1>9 DEF TimesOK, Kept, After, Moving
<1>5. NoOverlap'
  BY <1>0, <1>9 DEF NoOverlap, InRun
<1>6. RunningIsAlive'
  <2> SUFFICES ASSUME NEW r \in DOMAIN runs, runs'[r].status = "running", r \notin left
               PROVE  \E o \in Procs : job[o].run = r /\ pc'[o] \in {"run", "finish"}
    BY <1>0, <1>r DEF RunningIsAlive
  <2>1. r # n /\ runs[r].status = "running"
    BY <1>j, <1>r
  <2>2. PICK o \in Procs : job[o].run = r /\ pc[o] \in {"run", "finish"}
    BY <2>1 DEF RunningIsAlive
  <2>3. o # p
    BY <2>1, <2>2 DEF n
  <2> QED BY <1>9, <2>2, <2>3
<1> QED BY <1>1, <1>2, <1>3, <1>4, <1>5, <1>6

\* record_execution: the task's next time is after the end of the run.
LEMMA StepRecords ==
    ASSUME IInv, NEW p \in Procs, Records(p)
    PROVE  IInv'
<1> USE DEF IInv
<1> DEFINE t == job[p].task
           at == Advance(job[p], endedAt[p])
<1>0. /\ pc[p] = "record" /\ Leaves(p)
      /\ next' = (IF Kept(t) THEN [next EXCEPT ![t] = at] ELSE next)
      /\ served' = [served EXCEPT ![t] = IF p = "gateway" THEN endedAt[p] ELSE 0]
      /\ unrecorded' = unrecorded \ {t}
      /\ UNCHANGED <<clock, rows, enabled, schedule, runs, list, up, held, edits, deaths,
                     recovered, left>>
  BY DEF Records
<1>9. /\ pc' \in [Procs -> Pcs] /\ job' \in [Procs -> Jobs]
      /\ outcome' \in [Procs -> Statuses] /\ endedAt' \in [Procs -> 0..MaxTime]
      /\ pc'[p] = "idle" /\ job'[p].run = 0
      /\ \A o \in Procs : o # p => /\ pc'[o] = pc[o] /\ job'[o] = job[o]
                                    /\ outcome'[o] = outcome[o]
  BY <1>0, LeavesTyped
<1>j. JobOK(p) /\ t \in Tasks /\ rows[t] # "unborn" /\ endedAt[p] \in 0..MaxTime
      /\ (t \in Cron => job[p].schedule \in Periods)
  BY <1>0 DEF JobsOK, JobOK, Rows, TypeOK
<1>a. at \in Nat /\ (at # 0 => at > endedAt[p])
  <2>1. CASE t \in Once
    BY <2>1 DEF Advance
  <2>2. CASE t \in Cron
    <3>1. job[p].schedule \in Nat \ {0} /\ t \notin Once
      BY <1>j, <2>2
    <3>2. endedAt[p] \in Nat
      BY <1>j
    <3> QED BY <3>1, <3>2, Later DEF Advance
  <2> QED BY <1>j, <2>1, <2>2 DEF Tasks
<1>s. /\ served' \in [Tasks -> 0..MaxTime] /\ next' \in [Tasks -> Nat]
      /\ \A u \in Tasks : u # t => served'[u] = served[u] /\ next'[u] = next[u]
      /\ served'[t] \in {0, endedAt[p]} /\ (p = "cli" => served'[t] = 0)
      /\ Kept(t) => next'[t] = at
  <2>1. served' \in [Tasks -> 0..MaxTime] /\ next' \in [Tasks -> Nat]
    BY <1>0, <1>j, <1>a, SMTT(30) DEF TypeOK
  <2>2. served'[t] \in {0, endedAt[p]} /\ (p = "cli" => served'[t] = 0)
    BY <1>0, <1>j DEF TypeOK
  <2>3. Kept(t) => next'[t] = at
    BY <1>0, <1>j DEF TypeOK
  <2>4. \A u \in Tasks : u # t => served'[u] = served[u] /\ next'[u] = next[u]
    BY <1>0, <1>j DEF TypeOK
  <2> QED BY <2>1, <2>2, <2>3, <2>4
<1> HIDE DEF t, at
<1>1. TypeOK'
  <2>1. unrecorded' \subseteq Tasks
    BY <1>0 DEF TypeOK
  <2> QED BY <1>0, <1>9, <1>s, <2>1 DEF TypeOK, Pcs, Jobs
<1>2. JobsOK'
  <2>1. \A o \in Procs : JobOK(o)'
    BY <1>0, <1>9 DEF JobsOK, JobOK
  <2> QED BY <1>0, <1>9, <2>1 DEF JobsOK
<1>3. RunsOK'
  BY <1>0, RunsUntouched
<1>4. TimesOK'
  <2>1. \A u \in Tasks : Kept(u)' /\ next'[u] # 0 => After(next[u], u)' \/ Moving(u)'
    <3> SUFFICES ASSUME NEW u \in Tasks, Kept(u), next'[u] # 0, ~Moving(u)' PROVE After(next[u], u)'
      BY <1>0 DEF Kept
    <3>1. CASE u = t
      <4>1. next'[u] > served'[u]
        BY <1>a, <1>j, <1>s, <3>1
      <4> QED BY <4>1 DEF After
    <3>2. CASE u # t
      <4>1. ~Moving(u)
        BY <1>9, <3>2 DEF Moving, t
      <4>2. After(next[u], u) /\ next'[u] = next[u] /\ served'[u] = served[u]
        BY <1>s, <3>2, <4>1 DEF TimesOK
      <4> QED BY <1>0, <3>2, <4>2 DEF After
    <3> QED BY <3>1, <3>2
  <2>2. \A i \in DOMAIN list : list[i].task \in Tasks /\ list[i].slot \in Nat
    BY ListTyped
  <2>7. ASSUME NEW u \in Tasks, NEW slot \in Nat, After(slot, u), u # t \/ p = "cli"
        PROVE  slot # 0 /\ (slot > served'[u] \/ u \in unrecorded')
    <3>1. served[u] \in Nat
      BY DEF TypeOK
    <3>2. CASE u # t
      BY <1>0, <1>s, <2>7, <3>1, <3>2 DEF After
    <3>3. CASE u = t /\ p = "cli"
      <4>1. served'[u] = 0
        BY <1>s, <3>3
      <4> QED BY <2>7, <4>1 DEF After
    <3> QED BY <2>7, <3>2, <3>3
  <2>3. \A i \in DOMAIN list : After(list[i].slot, list[i].task)'
    <3> SUFFICES ASSUME NEW i \in DOMAIN list PROVE After(list[i].slot, list[i].task)'
      OBVIOUS
    <3>1. After(list[i].slot, list[i].task)
      BY DEF TimesOK
    <3>2. list[i].task # t \/ p = "cli"
      BY <1>0 DEF TimesOK, t
    <3>3. list[i].slot # 0 /\ (list[i].slot > served'[list[i].task] \/ list[i].task \in unrecorded')
      BY <2>2, <2>7, <3>1, <3>2
    <3> QED BY <1>0, <3>3 DEF After
  <2>4. pc'["gateway"] = "idle" \/ (p = "cli" /\ pc'["gateway"] = pc["gateway"] /\ job'["gateway"] = job["gateway"])
    BY <1>9
  <2>5. pc'["gateway"] \in {"start", "run"} => After(job["gateway"].slot, job["gateway"].task)'
    <3> SUFFICES ASSUME pc'["gateway"] \in {"start", "run"}
                 PROVE  After(job["gateway"].slot, job["gateway"].task)'
      OBVIOUS
    <3>1. p = "cli" /\ pc'["gateway"] = pc["gateway"] /\ job'["gateway"] = job["gateway"]
      BY <2>4
    <3>2. job["gateway"].task \in Tasks /\ job["gateway"].slot \in Nat
      BY <3>1 DEF JobsOK, JobOK, Rows
    <3>3. After(job["gateway"].slot, job["gateway"].task)
      BY <3>1 DEF TimesOK
    <3>4. /\ job["gateway"].slot # 0
          /\ job["gateway"].slot > served'[job["gateway"].task] \/ job["gateway"].task \in unrecorded'
      BY <2>7, <3>1, <3>2, <3>3
    <3> QED BY <3>1, <3>4 DEF After
  <2>6. \A u \in Tasks : rows[u] = "unborn" => served'[u] = 0
    BY <1>j, <1>s DEF TimesOK
  <2> QED BY <1>0, <2>1, <2>3, <2>4, <2>5, <2>6 DEF TimesOK
<1>5. NoOverlap'
  BY <1>0, <1>9 DEF NoOverlap, InRun
<1>6. RunningIsAlive'
  BY <1>0, <1>9 DEF RunningIsAlive
<1> QED BY <1>1, <1>2, <1>3, <1>4, <1>5, <1>6

\* tick: what is read is due, so it is after the loop's last run of the task.
LEMMA StepTicks ==
    ASSUME IInv, Ticks
    PROVE  IInv'
<1> USE DEF IInv
<1> DEFINE D == {u \in Tasks : Due(u)}
           S == {Row(t) : t \in D}
<1>0. /\ pc["gateway"] = "idle" /\ up /\ list' \in SetToSeqs(S)
      /\ UNCHANGED <<clock, rows, enabled, next, schedule, runs, pc, job, outcome, endedAt,
                     up, held, edits, deaths, served, unrecorded, recovered, left>>
  BY DEF Ticks, table, procs, history
<1>c. Cardinality(S) \in Nat
  <2>1. IsFiniteSet(Tasks)
    BY FS_Union DEF Tasks
  <2>2. IsFiniteSet(D)
    BY <2>1, FS_Subset
  <2>3. IsFiniteSet(S)
    <3> DEFINE g == [t \in D |-> Row(t)]
    <3>1. g \in Surjection(D, S)
      BY DEF Surjection
    <3> QED BY <2>2, <3>1, FS_Surjection
  <2> QED BY <2>3, FS_CardinalityType
<1>r. \A t \in D : /\ Row(t) \in Rows /\ Row(t).task = t /\ Row(t).run = 0
                    /\ Row(t).slot = next[t] /\ Row(t).schedule = schedule[t]
                    /\ t \in Tasks /\ Kept(t) /\ next[t] # 0
  BY DEF Row, Rows, Due, TypeOK
<1>s. \A x \in S : x \in Rows /\ x = Row(x.task) /\ x.task \in D
  BY <1>r
<1>l. /\ list' \in [1..Cardinality(S) -> S]
      /\ \A i, j \in DOMAIN list' : i # j => list'[i] # list'[j]
  BY <1>0, <1>c DEF SetToSeqs
<1> HIDE DEF S, D
<1>m. list' \in Seq(Rows) /\ \A i \in DOMAIN list' : list'[i] \in S
  BY <1>c, <1>l, <1>s
<1>1. TypeOK'
  BY <1>0, <1>m DEF TypeOK
<1>2. JobsOK'
  BY <1>0 DEF JobsOK, JobOK
<1>3. RunsOK'
  BY <1>0, RunsUntouched
<1>4. TimesOK'
  <2>1. \A i \in DOMAIN list' :
          /\ list'[i].task \in D /\ list'[i] = Row(list'[i].task)
    BY <1>m, <1>s
  <2>2. \A i, j \in DOMAIN list' : i # j => list'[i].task # list'[j].task
    BY <1>l, <2>1
  <2>3. \A i \in DOMAIN list' :
         /\ After(list'[i].slot, list'[i].task)
         /\ rows[list'[i].task] # "unborn"
         /\ list'[i].task \in Cron => list'[i].schedule \in Periods
         /\ list'[i].run = 0
    BY <1>0, <1>r, <2>1 DEF TimesOK, Kept, Moving
  <2> QED BY <1>0, <2>2, <2>3 DEF TimesOK, Kept, After, Moving
<1>5. NoOverlap'
  BY <1>0 DEF NoOverlap, InRun
<1>6. RunningIsAlive'
  BY <1>0 DEF RunningIsAlive
<1> QED BY <1>1, <1>2, <1>3, <1>4, <1>5, <1>6

\* The tick goes on to the next task it has read.
LEMMA StepTakesNext ==
    ASSUME IInv, TakesNext
    PROVE  IInv'
<1> USE DEF IInv
<1> DEFINE h == Head(list)
<1>0. /\ pc["gateway"] = "idle" /\ up /\ list # <<>> /\ list' = Tail(list)
      /\ pc' = [pc EXCEPT !["gateway"] = "start"] /\ job' = [job EXCEPT !["gateway"] = h]
      /\ UNCHANGED <<clock, rows, enabled, next, schedule, runs, outcome, endedAt,
                     up, held, edits, deaths, served, unrecorded, recovered, left>>
  BY DEF TakesNext, Goto, table, history
<1>l. /\ list' \in Seq(Rows) /\ h = list[1] /\ 1 \in DOMAIN list /\ h \in Rows
      /\ \A i \in DOMAIN list' : /\ i + 1 \in DOMAIN list /\ i + 1 # 1 /\ list'[i] = list[i + 1]
                                 /\ i \in Int
  <2>1. list \in Seq(Rows) /\ list # <<>>
    BY <1>0 DEF TypeOK
  <2>2. /\ list' \in Seq(Rows) /\ h = list[1] /\ h \in Rows /\ DOMAIN list = 1..Len(list)
        /\ Len(list) \in Nat \ {0} /\ DOMAIN list' = 1..(Len(list) - 1)
    BY <1>0, <2>1
  <2>3. \A i \in DOMAIN list' : /\ i + 1 \in DOMAIN list /\ i + 1 # 1 /\ list'[i] = list[i + 1]
                                /\ i \in Int
    BY <1>0, <2>1, <2>2
  <2> QED BY <2>2, <2>3
<1> HIDE DEF h
<1>9. /\ pc' \in [Procs -> Pcs] /\ job' \in [Procs -> Jobs]
      /\ pc'["gateway"] = "start" /\ job'["gateway"] = h
      /\ pc'["cli"] = pc["cli"] /\ job'["cli"] = job["cli"]
  BY <1>0, <1>l, Moves DEF Pcs, Jobs
<1>h. /\ After(h.slot, h.task) /\ rows[h.task] # "unborn"
      /\ h.task \in Cron => h.schedule \in Periods
      /\ h.run = 0
  BY <1>l DEF TimesOK
<1>1. TypeOK'
  BY <1>0, <1>l, <1>9 DEF TypeOK, Pcs, Jobs
<1>2. JobsOK'
  <2>1. JobOK("gateway")'
    BY <1>0, <1>l, <1>9, <1>h DEF JobOK
  <2>2. JobOK("cli")'
    BY <1>0, <1>9 DEF JobsOK, JobOK
  <2> QED BY <1>0, <1>9, <1>h, <2>1, <2>2 DEF JobsOK
<1>3. RunsOK'
  BY <1>0, RunsUntouched
<1>4. TimesOK'
  <2>1. \A i, j \in DOMAIN list' : i # j => list'[i].task # list'[j].task
    <3> SUFFICES ASSUME NEW i \in DOMAIN list', NEW j \in DOMAIN list', i # j
                 PROVE  list'[i].task # list'[j].task
      OBVIOUS
    <3>1. i + 1 # j + 1
      BY <1>l
    <3> QED BY <1>l, <3>1 DEF TimesOK
  <2>2. \A i \in DOMAIN list' : list'[i].task # h.task
    BY <1>l DEF TimesOK
  <2>3. \A i \in DOMAIN list' :
         /\ After(list'[i].slot, list'[i].task)
         /\ rows[list'[i].task] # "unborn"
         /\ list'[i].task \in Cron => list'[i].schedule \in Periods
         /\ list'[i].run = 0
    BY <1>l DEF TimesOK
  <2>4. \A u \in Tasks : Kept(u) /\ next[u] # 0 => After(next[u], u)
    BY <1>0 DEF TimesOK, Moving
  <2> QED BY <1>0, <1>9, <1>h, <2>1, <2>2, <2>3, <2>4 DEF TimesOK, Kept, After
<1>5. NoOverlap'
  BY <1>0, <1>9 DEF NoOverlap, InRun
<1>6. RunningIsAlive'
  BY <1>0, <1>9 DEF RunningIsAlive
<1> QED BY <1>1, <1>2, <1>3, <1>4, <1>5, <1>6

\* The gateway starts: no run is on, and a run-now that goes on is noted.
LEMMA StepGatewayStarts ==
    ASSUME IInv, GatewayStarts
    PROVE  IInv'
<1> USE DEF IInv
<1> DEFINE f == [r \in DOMAIN runs |-> IF runs[r].status = "running" THEN "failed" ELSE runs[r].status]
<1>0. /\ pc["gateway"] = "idle" /\ up' = TRUE /\ left' = {}
      /\ recovered' = recovered \cup
           {r \in DOMAIN runs : runs[r].status = "running" /\ job["cli"].run = r}
      /\ UNCHANGED <<clock, rows, enabled, next, schedule, pc, job, outcome, endedAt, list,
                     held, edits, deaths, served, unrecorded>>
  BY DEF GatewayStarts, table, procs, JobsOK
<1>t. \A r \in DOMAIN runs : runs[r] \in RunRows
  BY RunNumbers
<1>f. f \in [DOMAIN runs -> Statuses]
  BY <1>t DEF RunRows, Statuses
<1>e. runs' = [r \in DOMAIN runs |-> [runs[r] EXCEPT !.status = f[r]]]
  <2>1. \A r \in DOMAIN runs : runs[r].status # "running" =>
           runs[r] = [runs[r] EXCEPT !.status = f[r]]
    BY <1>t DEF RunRows
  <2> QED BY <2>1 DEF GatewayStarts
<1>r. /\ runs' \in Seq(RunRows) /\ DOMAIN runs' = DOMAIN runs
      /\ \A r \in DOMAIN runs : runs'[r].task = runs[r].task /\ runs'[r].status = f[r]
  BY <1>e, <1>f, Restated
<1>1. TypeOK'
  BY <1>0, <1>r DEF TypeOK, RunRows
<1>2. JobsOK'
  <2>1. \A p \in Procs : JobOK(p)'
    BY <1>0, <1>r DEF JobsOK, JobOK
  <2> QED BY <1>0, <2>1 DEF JobsOK
<1>3. RunsOK'
  BY <1>0, <1>r DEF RunsOK
<1>4. TimesOK'
  BY <1>0 DEF TimesOK, Kept, After, Moving
<1>5. NoOverlap'
  BY <1>0 DEF NoOverlap, InRun
<1>6. RunningIsAlive'
  BY <1>r DEF RunningIsAlive
<1> QED BY <1>1, <1>2, <1>3, <1>4, <1>5, <1>6

\* A task's time is set to one after the loop's last run of it; what the loop has read
\* keeps its order, because the last run counts for nothing from now on.
LEMMA TimeSet ==
    ASSUME TypeOK, JobsOK, TimesOK, NEW t \in Tasks, NEW at \in Nat, at > 0,
           rows' \in [Tasks -> {"unborn", "kept", "deleted"}],
           \A u \in Tasks : u # t => rows'[u] = rows[u],
           rows'[t] # "unborn" \/ rows'[t] = rows[t],
           \A u \in Cron : schedule'[u] \in Periods,
           next' = [next EXCEPT ![t] = at],
           served' = [served EXCEPT ![t] = 0], unrecorded' \in {unrecorded, unrecorded \ {t}},
           UNCHANGED <<list, pc, job>>
    PROVE  /\ TimesOK' /\ next' \in [Tasks -> Nat] /\ served' \in [Tasks -> 0..MaxTime]
           /\ unrecorded' \subseteq Tasks
<1>1. /\ next' \in [Tasks -> Nat] /\ served' \in [Tasks -> 0..MaxTime]
      /\ next'[t] = at /\ served'[t] = 0 /\ unrecorded' \subseteq Tasks
      /\ \A u \in Tasks : u # t => /\ next'[u] = next[u] /\ served'[u] = served[u]
                                    /\ (u \in unrecorded') = (u \in unrecorded)
  <2>1. next \in [Tasks -> Nat] /\ next' \in [Tasks -> Nat]
    BY DEF TypeOK
  <2>2. served \in [Tasks -> 0..MaxTime] /\ 0 \in 0..MaxTime
    BY DEF TypeOK
  <2>3. served' \in [Tasks -> 0..MaxTime]
    BY <2>2
  <2>4. /\ next'[t] = at /\ served'[t] = 0
        /\ \A u \in Tasks : u # t => next'[u] = next[u] /\ served'[u] = served[u]
    BY <2>1, <2>2
  <2>5. unrecorded' \subseteq Tasks
    BY DEF TypeOK
  <2>6. \A u \in Tasks : u # t => (u \in unrecorded') = (u \in unrecorded)
    OBVIOUS
  <2> QED BY <2>1, <2>3, <2>4, <2>5, <2>6
<1>2. \A u \in Tasks : rows'[u] = "unborn" => served'[u] = 0
  BY <1>1 DEF TimesOK
<1>3. \A u \in Tasks : rows'[u] = "kept" /\ next'[u] # 0 => After(next[u], u)' \/ Moving(u)'
  <2> SUFFICES ASSUME NEW u \in Tasks, rows'[u] = "kept", next'[u] # 0
               PROVE  After(next[u], u)' \/ Moving(u)'
    OBVIOUS
  <2>1. CASE u = t
    BY <1>1, <2>1 DEF After
  <2>2. CASE u # t
    BY <1>1, <2>2 DEF TimesOK, Kept, After, Moving
  <2> QED BY <2>1, <2>2
<1>4. ASSUME NEW x, x \in Rows, After(x.slot, x.task)
      PROVE  x.slot # 0 /\ (x.slot > served'[x.task] \/ x.task \in unrecorded')
  <2>1. x.task \in Tasks /\ x.slot \in Nat /\ served[x.task] \in 0..MaxTime /\ x.slot # 0
    BY <1>4 DEF Rows, TypeOK, After
  <2> QED BY <1>1, <1>4, <2>1 DEF After
<1>5. \A i \in DOMAIN list : list[i] \in Rows /\ After(list[i].slot, list[i].task)'
                            /\ rows'[list[i].task] # "unborn"
  BY <1>4, ListTyped DEF TimesOK, After
<1>6. pc["gateway"] \in {"start", "run"} => After(job["gateway"].slot, job["gateway"].task)'
  BY <1>4 DEF JobsOK, JobOK, TimesOK, After
<1> QED BY <1>1, <1>2, <1>3, <1>5, <1>6 DEF TimesOK, Kept, After, Moving

\* add: a task's first time.
LEMMA StepAdds ==
    ASSUME IInv, NEW t \in Tasks, Adds(t)
    PROVE  IInv'
<1> USE DEF IInv
<1> DEFINE at == FirstTime(t, schedule[t], clock)
<1>0. /\ rows[t] = "unborn" /\ rows' = [rows EXCEPT ![t] = "kept"]
      /\ next' = [next EXCEPT ![t] = at]
      /\ UNCHANGED <<clock, enabled, schedule, runs, pc, job, outcome, endedAt, list, up, held,
                     edits, deaths, served, unrecorded, recovered, left>>
  BY DEF Adds, procs, history
<1>a. at \in Nat /\ at > 0
  <2>1. CASE t \in Once
    BY <2>1 DEF FirstTime
  <2>2. CASE t \notin Once
    <3>1. schedule[t] \in Nat \ {0}
      BY <2>2 DEF TimesOK, Tasks
    <3>2. clock \in Nat
      BY DEF TypeOK
    <3>3. NextOccurrence(schedule[t], clock) \in Nat /\ NextOccurrence(schedule[t], clock) > clock
      BY <3>1, <3>2, Later
    <3> QED BY <2>2, <3>2, <3>3 DEF FirstTime
  <2> QED BY <2>1, <2>2
<1>s. served' = [served EXCEPT ![t] = 0]
  BY <1>0 DEF TimesOK, TypeOK
<1>r. /\ rows' \in [Tasks -> {"unborn", "kept", "deleted"}]
      /\ \A u \in Tasks : u # t => rows'[u] = rows[u]
      /\ rows'[t] = "kept"
  BY <1>0 DEF TypeOK
<1> HIDE DEF at
<1>c. \A u \in Cron : schedule'[u] \in Periods
  BY <1>0 DEF TimesOK
<1>4. /\ TimesOK' /\ next' \in [Tasks -> Nat] /\ served' \in [Tasks -> 0..MaxTime]
      /\ unrecorded' \subseteq Tasks
  BY <1>0, <1>a, <1>s, <1>r, <1>c, TimeSet
<1>1. TypeOK'
  BY <1>0, <1>r, <1>4 DEF TypeOK
<1>2. JobsOK'
  <2>1. \A p \in Procs : pc[p] # "idle" => job[p].task \in Tasks
    BY DEF JobsOK, JobOK, Rows
  <2> QED BY <1>0, <1>r, <2>1 DEF JobsOK, JobOK
<1>3. RunsOK'
  <2>1. \A r \in DOMAIN runs : runs[r].task \in Tasks
    BY RunNumbers DEF RunRows
  <2> QED BY <1>0, <1>r, <2>1 DEF RunsOK
<1>5. NoOverlap'
  BY <1>0 DEF NoOverlap, InRun
<1>6. RunningIsAlive'
  BY <1>0 DEF RunningIsAlive
<1> QED BY <1>1, <1>2, <1>3, <1>4, <1>5, <1>6

\* run-now reads the task's row.
LEMMA StepCliRuns ==
    ASSUME IInv, NEW t \in Tasks, CliRuns(t)
    PROVE  IInv'
<1> USE DEF IInv
<1> DEFINE j == Row(t)
<1>0. /\ pc["cli"] = "idle" /\ rows[t] = "kept" /\ edits < MaxEdits /\ edits' = edits + 1
      /\ pc' = [pc EXCEPT !["cli"] = "start"] /\ job' = [job EXCEPT !["cli"] = j]
      /\ UNCHANGED <<clock, rows, enabled, next, schedule, runs, outcome, endedAt, list, up, held,
                     deaths, served, unrecorded, recovered, left>>
  BY DEF CliRuns, Goto, table, history, Kept
<1>j. /\ j \in Rows /\ j.task = t /\ j.run = 0 /\ j.schedule = schedule[t]
  BY DEF Row, Rows, TypeOK
<1> HIDE DEF j
<1>9. /\ pc' \in [Procs -> Pcs] /\ job' \in [Procs -> Jobs]
      /\ pc'["cli"] = "start" /\ job'["cli"] = j
      /\ pc'["gateway"] = pc["gateway"] /\ job'["gateway"] = job["gateway"]
  BY <1>0, <1>j, Moves DEF Pcs, Jobs
<1>1. TypeOK'
  BY <1>0, <1>9, SMTT(30) DEF TypeOK, Pcs, Jobs
<1>2. JobsOK'
  <2>1. JobOK("cli")'
    BY <1>0, <1>j, <1>9 DEF JobOK, TimesOK
  <2>2. JobOK("gateway")'
    BY <1>0, <1>9 DEF JobsOK, JobOK
  <2> QED BY <1>0, <1>9, <1>j, <2>1, <2>2 DEF JobsOK
<1>3. RunsOK'
  BY <1>0, RunsUntouched
<1>4. TimesOK'
  BY <1>0, <1>9 DEF TimesOK, Kept, After, Moving
<1>5. NoOverlap'
  BY <1>0, <1>9 DEF NoOverlap, InRun
<1>6. RunningIsAlive'
  BY <1>0, <1>9 DEF RunningIsAlive
<1> QED BY <1>1, <1>2, <1>3, <1>4, <1>5, <1>6

\* The dashboard makes a task due from this instant.
LEMMA StepRunNow ==
    ASSUME IInv, NEW t \in Tasks, RunNow(t)
    PROVE  IInv'
<1> USE DEF IInv
<1>0. /\ edits < MaxEdits /\ edits' = edits + 1
      /\ next' = [next EXCEPT ![t] = clock] /\ served' = [served EXCEPT ![t] = 0]
      /\ unrecorded' = unrecorded \ {t}
      /\ UNCHANGED <<clock, rows, enabled, schedule, runs, pc, job, outcome, endedAt, list, up,
                     held, deaths, recovered, left>>
  BY DEF RunNow, procs
<1>a. clock \in Nat /\ clock > 0 /\ rows' \in [Tasks -> {"unborn", "kept", "deleted"}]
      /\ \A u \in Cron : schedule'[u] \in Periods
  BY <1>0 DEF TypeOK, TimesOK
<1>4. /\ TimesOK' /\ next' \in [Tasks -> Nat] /\ served' \in [Tasks -> 0..MaxTime]
      /\ unrecorded' \subseteq Tasks
  BY <1>0, <1>a, TimeSet
<1>1. TypeOK'
  BY <1>0, <1>4, SMTT(30) DEF TypeOK
<1>2. JobsOK'
  BY <1>0 DEF JobsOK, JobOK
<1>3. RunsOK'
  BY <1>0, RunsUntouched
<1>5. NoOverlap'
  BY <1>0 DEF NoOverlap, InRun
<1>6. RunningIsAlive'
  BY <1>0 DEF RunningIsAlive
<1> QED BY <1>1, <1>2, <1>3, <1>4, <1>5, <1>6

\* The owner moves a task.
LEMMA StepSetSchedule ==
    ASSUME IInv, NEW t \in Tasks, SetSchedule(t)
    PROVE  IInv'
<1> USE DEF IInv
<1>0. /\ edits < MaxEdits /\ edits' = edits + 1 /\ served' = [served EXCEPT ![t] = 0]
      /\ unrecorded' = unrecorded \ {t}
      /\ UNCHANGED <<clock, rows, enabled, runs, pc, job, outcome, endedAt, list, up,
                     held, deaths, recovered, left>>
  BY DEF SetSchedule, procs
<1>n. /\ \E at \in Nat : at > 0 /\ next' = [next EXCEPT ![t] = at]
      /\ schedule' \in [Tasks -> Periods \cup {0}] /\ \A u \in Cron : schedule'[u] \in Periods
  <2>1. clock \in Nat /\ clock > 0
    BY DEF TypeOK
  <2>2. CASE t \in Cron
    <3>1. PICK period \in Periods : /\ schedule' = [schedule EXCEPT ![t] = period]
                                    /\ next' = [next EXCEPT ![t] = NextOccurrence(period, clock)]
      BY <2>2 DEF SetSchedule
    <3>2. NextOccurrence(period, clock) \in Nat /\ NextOccurrence(period, clock) > clock
      BY <2>1, Later
    <3>3. NextOccurrence(period, clock) > 0
      BY <2>1, <3>2
    <3>4. schedule' \in [Tasks -> Periods \cup {0}] /\ \A u \in Cron : schedule'[u] \in Periods
      BY <3>1 DEF TypeOK, TimesOK, Tasks
    <3> QED BY <3>1, <3>2, <3>3, <3>4
  <2>3. CASE t \in Once
    <3>1. PICK at \in clock..MaxTime : next' = [next EXCEPT ![t] = at] /\ UNCHANGED schedule
      BY <2>3 DEF SetSchedule
    <3>2. at \in Nat /\ at > 0
      BY <2>1
    <3> QED BY <3>1, <3>2 DEF TypeOK, TimesOK
  <2> QED BY <2>2, <2>3 DEF Tasks
<1>a. rows' \in [Tasks -> {"unborn", "kept", "deleted"}]
  BY <1>0 DEF TypeOK
<1>4. /\ TimesOK' /\ next' \in [Tasks -> Nat] /\ served' \in [Tasks -> 0..MaxTime]
      /\ unrecorded' \subseteq Tasks
  BY <1>0, <1>a, <1>n, TimeSet
<1>1. TypeOK'
  BY <1>0, <1>n, <1>4, SMTT(30) DEF TypeOK
<1>2. JobsOK'
  BY <1>0 DEF JobsOK, JobOK
<1>3. RunsOK'
  BY <1>0, RunsUntouched
<1>5. NoOverlap'
  BY <1>0 DEF NoOverlap, InRun
<1>6. RunningIsAlive'
  BY <1>0 DEF RunningIsAlive
<1> QED BY <1>1, <1>2, <1>3, <1>4, <1>5, <1>6

\* delete: the runs of the task go with it, for good.
LEMMA StepDeletes ==
    ASSUME IInv, NEW t \in Tasks, Deletes(t)
    PROVE  IInv'
<1> USE DEF IInv
<1> DEFINE f == [r \in DOMAIN runs |-> IF runs[r].task = t THEN "gone" ELSE runs[r].status]
<1>0. /\ edits < MaxEdits /\ edits' = edits + 1 /\ rows' = [rows EXCEPT ![t] = "deleted"]
      /\ UNCHANGED <<clock, enabled, next, schedule, pc, job, outcome, endedAt, list, up, held,
                     deaths, served, unrecorded, recovered, left>>
  BY DEF Deletes, procs, history
<1>t. \A r \in DOMAIN runs : runs[r] \in RunRows
  BY RunNumbers
<1>f. f \in [DOMAIN runs -> Statuses]
  BY <1>t DEF RunRows, Statuses
<1>e. runs' = [r \in DOMAIN runs |-> [runs[r] EXCEPT !.status = f[r]]]
  <2>1. \A r \in DOMAIN runs : runs[r].task # t => runs[r] = [runs[r] EXCEPT !.status = f[r]]
    BY <1>t DEF RunRows
  <2> QED BY <2>1 DEF Deletes
<1>r. /\ runs' \in Seq(RunRows) /\ DOMAIN runs' = DOMAIN runs
      /\ \A r \in DOMAIN runs : runs'[r].task = runs[r].task /\ runs'[r].status = f[r]
  BY <1>e, <1>f, Restated
<1>k. /\ rows' \in [Tasks -> {"unborn", "kept", "deleted"}] /\ rows'[t] = "deleted"
      /\ \A u \in Tasks : u # t => rows'[u] = rows[u]
      /\ \A r \in DOMAIN runs : runs[r].task \in Tasks
      /\ \A p \in Procs : pc[p] # "idle" => job[p].task \in Tasks
  BY <1>0, <1>t DEF TypeOK, RunRows, JobsOK, JobOK, Rows
<1>1. TypeOK'
  <2>1. edits' \in 0..MaxEdits
    BY <1>0 DEF TypeOK
  <2>2. runs' \in Seq([task : Tasks, status : Statuses])
    BY <1>r DEF RunRows
  <2>3. recovered \subseteq DOMAIN runs' /\ left \subseteq DOMAIN runs'
    BY <1>r DEF TypeOK
  <2> QED BY <1>0, <1>k, <2>1, <2>2, <2>3 DEF TypeOK
<1>2. JobsOK'
  <2>1. \A p \in Procs : JobOK(p)'
    BY <1>0, <1>r, <1>k DEF JobsOK, JobOK
  <2> QED BY <1>0, <2>1 DEF JobsOK
<1>3. RunsOK'
  BY <1>0, <1>r, <1>k DEF RunsOK
<1>4. TimesOK'
  <2>1. \A i \in DOMAIN list : list[i].task \in Tasks
    BY ListTyped
  <2> QED BY <1>0, <1>k, <2>1 DEF TimesOK, Kept, After, Moving
<1>5. NoOverlap'
  BY <1>0 DEF NoOverlap, InRun
<1>6. RunningIsAlive'
  BY <1>0, <1>r DEF RunningIsAlive
<1> QED BY <1>1, <1>2, <1>3, <1>4, <1>5, <1>6

\* Every step keeps the inductive invariant.
LEMMA NextIInv == IInv /\ [Next]_vars => IInv'
<1> SUFFICES ASSUME IInv, [Next]_vars PROVE IInv'
  OBVIOUS
<1>1. ASSUME NEW p \in Procs, Executes(p) PROVE IInv'
  BY <1>1, StepStarts, StepWakes, StepFinishes, StepRecords DEF Executes
<1>2. CASE Gateway
  BY <1>1, <1>2, StepTicks, StepTakesNext DEF Gateway
<1>3. CASE \E t \in Tasks : Adds(t) \/ CliRuns(t) \/ RunNow(t) \/ SetSchedule(t) \/ SetEnabled(t) \/ Deletes(t)
  BY <1>3, StepAdds, StepCliRuns, StepRunNow, StepSetSchedule, StepSetEnabled, StepDeletes
<1>4. CASE UNCHANGED vars
  BY <1>4, SMTT(30) DEF vars, table, procs, history, IInv, TypeOK, JobsOK, JobOK, RunsOK, TimesOK, Kept, After, Moving,
     NoOverlap, InRun, RunningIsAlive
<1> QED BY <1>1, <1>2, <1>3, <1>4, StepPasses, StepFinishRefused, StepRecordRefused, StepGatewayStarts,
           StepGatewayDies, StepCliDies, StepHolds DEF Next

\* The inductive invariant holds in every reachable state.
LEMMA Inductive == Spec => []IInv
  BY InitIInv, NextIInv, PTL DEF Spec

-----------------------------------------------------------------------------
(* Theorems *)

\* Every variable keeps its type.
THEOREM TypeCorrect == Spec => []TypeOK
<1>1. IInv => TypeOK
  BY DEF IInv
<1> QED BY <1>1, Inductive, PTL

\* Two runs of a task are never on together, except beside a run-now that a start of
\* the gateway called interrupted: start_run's one statement reads every row, so what
\* it does not see is a row that was restated under a run.
THEOREM RunsApart == Spec => []NoOverlap
<1>1. IInv => NoOverlap
  BY DEF IInv
<1> QED BY <1>1, Inductive, PTL

\* A backlog is caught up with once: the next time of a task is computed from the end
\* of its run, so whatever the tick has read is due after the end of the loop's last run,
\* recorded or on the way to it; only a death or a refused write between that run's end
\* and record_execution leaves the time it had.
THEOREM CaughtUpOnce == Spec => []OneCatchUp
<1>1. IInv => OneCatchUp
  BY DEF IInv, TimesOK, After, OneCatchUp
<1> QED BY <1>1, Inductive, PTL

\* A row that says running has a process behind it, unless that process died, or could
\* not write, since the gateway last started.
THEOREM RunningAlive == Spec => []RunningIsAlive
<1>1. IInv => RunningIsAlive
  BY DEF IInv
<1> QED BY <1>1, Inductive, PTL
=============================================================================
