----------------------------- MODULE Scheduler -----------------------------
(***************************************************************************)
(* Scheduled tasks: the gateway's tick loop, `ferrule tasks run-now` in a  *)
(* process of its own, and the dashboard, over one SQLite file.            *)
(*                                                                         *)
(* An execution is a row in `runs` and a copy of the task's row that was   *)
(* read before: it starts (unless a run of the task is on), wakes the      *)
(* agent, writes how that ended, and only then moves the task's next time. *)
(* Meanwhile the owner pauses, deletes and moves tasks, processes die, and *)
(* the gateway starts again and calls every run still on interrupted.      *)
(*                                                                         *)
(* One SQL statement is one step.                                          *)
(***************************************************************************)
EXTENDS Integers, Sequences, FiniteSets, SequencesExt

CONSTANTS
    Once, Cron,      \* the tasks, by kind
    Periods,         \* the schedules of cron tasks: every so many instants
    Outcomes,        \* how a woken agent (or its gate) may end
    MaxTime,         \* bound: the clock
    MaxRuns,         \* bound: the rows of `runs`
    MaxEdits,        \* bound: what the owner changes
    MaxDeaths        \* bound: the processes that die

Tasks == Once \cup Cron
Procs == {"gateway", "cli"}
Runs == 1..MaxRuns
Never == 0           \* next_run_at IS NULL; the clock starts at 1
Statuses == {"running", "succeeded", "incomplete", "skipped", "failed",
             "gone"}     \* deleted with its task

ASSUME SchedulerAssumption ==
    /\ Once \cap Cron = {} /\ IsFiniteSet(Once) /\ IsFiniteSet(Cron)
    /\ Periods \subseteq Nat \ {0} /\ Periods # {}
    /\ Outcomes \subseteq Statuses \ {"running", "gone"}
    /\ {MaxRuns, MaxEdits, MaxDeaths} \subseteq Nat /\ MaxTime \in Nat \ {0}

VARIABLES
    clock,
    \* the table `tasks`
    rows, enabled, next, schedule,
    runs,        \* the table `runs`: a sequence of [task, status]
    \* per process
    pc, job, outcome, endedAt,
    list,        \* what is left of the due tasks the tick has read
    up, held,    \* the gateway runs; the kill switch holds its ticks
    edits, deaths,
    \* history
    served,      \* per task: when the loop's last run of it ended, 0 if none did since
                 \* the owner, or a run-now, last set its time
    unrecorded,  \* the tasks whose time was never moved after that run: the gateway
                 \* died, or could not write, between the run's end and record_execution
    recovered,   \* the runs called interrupted while they went on
    left         \* the runs whose process died, or could not write their end, since
                 \* the gateway last started

table == <<rows, enabled, next, schedule>>
procs == <<pc, job, outcome, endedAt>>
history == <<served, unrecorded, recovered, left>>
vars == <<clock, table, runs, procs, list, up, held, edits, deaths, history>>

NoJob == [task |-> "none", slot |-> Never, schedule |-> 0, run |-> 0]
Rows == [task : Tasks, slot : Nat, schedule : Periods \cup {0}, run : 0..MaxRuns]

\* One type per variable.
TypeOK ==
    /\ clock \in 1..MaxTime
    /\ rows \in [Tasks -> {"unborn", "kept", "deleted"}] /\ enabled \in [Tasks -> BOOLEAN]
    /\ next \in [Tasks -> Nat] /\ schedule \in [Tasks -> Periods \cup {0}]
    /\ runs \in Seq([task : Tasks, status : Statuses])
    /\ pc \in [Procs -> {"idle", "start", "run", "finish", "record"}]
    /\ job \in [Procs -> Rows \cup {NoJob}]
    /\ outcome \in [Procs -> Statuses]
    /\ endedAt \in [Procs -> 0..MaxTime]
    /\ list \in Seq(Rows)
    /\ up \in BOOLEAN /\ held \in BOOLEAN
    /\ edits \in 0..MaxEdits /\ deaths \in 0..MaxDeaths
    /\ served \in [Tasks -> 0..MaxTime] /\ unrecorded \subseteq Tasks
    /\ recovered \subseteq DOMAIN runs /\ left \subseteq DOMAIN runs

\* timing: the next occurrence strictly after an instant.
NextOccurrence(period, after) == period * (after \div period + 1)

\* initial_next_run_at: a one-shot keeps its own time, past or not.
FirstTime(t, period, now) == IF t \in Once THEN 1 ELSE NextOccurrence(period, now)

Init ==
    /\ clock = 1
    /\ rows \in [Tasks -> {"unborn", "kept"}] /\ enabled = [t \in Tasks |-> TRUE]
    /\ \E s \in [Cron -> Periods] :
          schedule = [t \in Tasks |-> IF t \in Cron THEN s[t] ELSE 0]
    /\ next = [t \in Tasks |-> FirstTime(t, schedule[t], 1)]
    /\ runs = <<>>
    /\ pc = [p \in Procs |-> "idle"] /\ job = [p \in Procs |-> NoJob]
    /\ outcome = [p \in Procs |-> "running"] /\ endedAt = [p \in Procs |-> 0]
    /\ list = <<>> /\ up = TRUE /\ held = FALSE
    /\ edits = 0 /\ deaths = 0
    /\ served = [t \in Tasks |-> 0] /\ unrecorded = {} /\ recovered = {} /\ left = {}

Passes ==
    /\ clock < MaxTime
    /\ clock' = clock + 1
    /\ UNCHANGED <<table, runs, procs, list, up, held, edits, deaths, history>>

-----------------------------------------------------------------------------
(* Scheduler::execute, by the gateway or by run-now *)

Kept(t) == rows[t] = "kept"

Goto(p, s) == pc' = [pc EXCEPT ![p] = s]

\* A copy of a task's row.
Row(t) == [task |-> t, slot |-> next[t], schedule |-> schedule[t], run |-> 0]

\* A plausible bug, no part of the specification: only the newest row is looked at.
IsOnNewest(t) == runs # <<>> /\ Last(runs) = [task |-> t, status |-> "running"]

IsOn(t) == \E r \in DOMAIN runs : runs[r].task = t /\ runs[r].status = "running"

Leaves(p) ==
    /\ pc' = [pc EXCEPT ![p] = "idle"]
    /\ job' = [job EXCEPT ![p] = NoJob]
    /\ outcome' = [outcome EXCEPT ![p] = "running"]
    /\ endedAt' = [endedAt EXCEPT ![p] = 0]

\* start_run: one statement, only if no run of the task is on.  A deleted task's
\* row is refused (its foreign key).
Starts(p) ==
    /\ pc[p] = "start" /\ Len(runs) < MaxRuns
    /\ LET t == job[p].task IN
        \/ /\ Kept(t) /\ ~IsOn(t)
           /\ runs' = Append(runs, [task |-> t, status |-> "running"])
           /\ job' = [job EXCEPT ![p].run = Len(runs')]
           /\ Goto(p, "run")
           /\ UNCHANGED <<outcome, endedAt>>
        \/ (~Kept(t) \/ IsOn(t)) /\ Leaves(p) /\ UNCHANGED runs
    /\ UNCHANGED <<clock, table, list, up, held, edits, deaths, history>>

\* execute_inner: the gate, the agent's turn and the delivery, or the built-in job.
Wakes(p) ==
    /\ pc[p] = "run"
    /\ \E o \in Outcomes : outcome' = [outcome EXCEPT ![p] = o]
    /\ endedAt' = [endedAt EXCEPT ![p] = clock]
    /\ Goto(p, "finish")
    /\ served' = IF p = "gateway" THEN [served EXCEPT ![job[p].task] = clock] ELSE served
    /\ UNCHANGED <<clock, table, runs, job, list, up, held, edits, deaths, unrecorded,
                   recovered, left>>

\* A plausible bug, no part of the specification: a failed run returns at once.
FinishesIfOk(p) ==
    /\ pc[p] = "finish"
    /\ runs' = IF outcome[p] = "failed" THEN runs
               ELSE [runs EXCEPT ![job[p].run].status = outcome[p]]
    /\ Goto(p, "record")
    /\ UNCHANGED <<clock, table, job, outcome, endedAt, list, up, held, edits, deaths, history>>

\* finish_run: the row by its id, whatever it says by now, if it is still there.
Finishes(p) ==
    /\ pc[p] = "finish"
    /\ runs' = [runs EXCEPT ![job[p].run].status = IF @ = "gone" THEN @ ELSE outcome[p]]
    /\ Goto(p, "record")
    /\ UNCHANGED <<clock, table, job, outcome, endedAt, list, up, held, edits, deaths, history>>

\* The loop's run has ended, and this process will not move the task's time.
NotRecorded(p) ==
    unrecorded' = IF p = "gateway" /\ pc[p] \in {"finish", "record"}
                  THEN unrecorded \cup {job[p].task} ELSE unrecorded

\* ... or it can't be written: execute returns with the row as it is.
FinishRefused(p) ==
    /\ pc[p] = "finish" /\ deaths < MaxDeaths
    /\ deaths' = deaths + 1
    /\ left' = left \cup {job[p].run}
    /\ NotRecorded(p)
    /\ Leaves(p)
    /\ UNCHANGED <<clock, table, runs, list, up, held, edits, served, recovered>>

\* A plausible bug, no part of the specification: chained from the time it was due.
AdvanceFromSlot(j, end) == IF j.task \in Once THEN Never ELSE NextOccurrence(j.schedule, j.slot)

\* advance_next_run_at: from the end of the run, by the schedule the copy has.
Advance(j, end) == IF j.task \in Once THEN Never ELSE NextOccurrence(j.schedule, end)

\* record_execution.
Records(p) ==
    /\ pc[p] = "record"
    /\ LET t == job[p].task IN
        /\ next' = IF Kept(t) THEN [next EXCEPT ![t] = Advance(job[p], endedAt[p])] ELSE next
        /\ served' = [served EXCEPT ![t] = IF p = "gateway" THEN endedAt[p] ELSE 0]
        /\ unrecorded' = unrecorded \ {t}
    /\ Leaves(p)
    /\ UNCHANGED <<clock, rows, enabled, schedule, runs, list, up, held, edits, deaths,
                   recovered, left>>

\* ... or it can't be written: execute returns, the run ended and the task due as before.
RecordRefused(p) ==
    /\ pc[p] = "record" /\ deaths < MaxDeaths
    /\ deaths' = deaths + 1
    /\ NotRecorded(p)
    /\ Leaves(p)
    /\ UNCHANGED <<clock, table, runs, list, up, held, edits, served, recovered, left>>

-----------------------------------------------------------------------------
(* The gateway's loop *)

Due(t) == Kept(t) /\ enabled[t] /\ next[t] # Never /\ next[t] <= clock

\* tick: the due tasks are read, unless the kill switch holds them back ...
Ticks ==
    /\ up /\ ~held /\ pc["gateway"] = "idle" /\ list = <<>>
    /\ \E t \in Tasks : Due(t)
    /\ list' \in {s \in SetToSeqs({Row(t) : t \in {u \in Tasks : Due(u)}}) :
                    \A i, j \in DOMAIN s : i < j => s[i].slot <= s[j].slot}
    /\ UNCHANGED <<clock, table, runs, procs, up, held, edits, deaths, history>>

\* ... and executed one after the other, as they were read.
TakesNext ==
    /\ up /\ pc["gateway"] = "idle" /\ list # <<>>
    /\ job' = [job EXCEPT !["gateway"] = Head(list)]
    /\ list' = Tail(list)
    /\ Goto("gateway", "start")
    /\ UNCHANGED <<clock, table, runs, outcome, endedAt, up, held, edits, deaths, history>>

\* A plausible bug, no part of the specification: no recovery when the gateway starts.
StartsSharing ==
    /\ ~up
    /\ up' = TRUE
    /\ left' = {}
    /\ UNCHANGED <<clock, table, runs, procs, list, held, edits, deaths, served, unrecorded,
                   recovered>>

\* Scheduler::new: every run still on is called interrupted.
GatewayStarts ==
    /\ ~up
    /\ up' = TRUE
    /\ runs' = [r \in DOMAIN runs |->
                  IF runs[r].status = "running" THEN [runs[r] EXCEPT !.status = "failed"]
                  ELSE runs[r]]
    /\ recovered' = recovered \cup
          {r \in DOMAIN runs : runs[r].status = "running" /\ job["cli"].run = r}
    /\ left' = {}
    /\ UNCHANGED <<clock, table, procs, list, held, edits, deaths, served, unrecorded>>

\* A process dies, between any two steps.
GatewayDies ==
    /\ up /\ deaths < MaxDeaths
    /\ up' = FALSE /\ deaths' = deaths + 1
    /\ left' = left \cup ({job["gateway"].run} \ {0})
    /\ list' = <<>>
    /\ NotRecorded("gateway")
    /\ Leaves("gateway")
    /\ UNCHANGED <<clock, table, runs, held, edits, served, recovered>>

CliDies ==
    /\ pc["cli"] # "idle" /\ deaths < MaxDeaths
    /\ deaths' = deaths + 1
    /\ left' = left \cup ({job["cli"].run} \ {0})
    /\ Leaves("cli")
    /\ UNCHANGED <<clock, table, runs, list, up, held, edits, served, unrecorded, recovered>>

-----------------------------------------------------------------------------
(* The owner *)

\* add, by the owner, the assistant or ensure_builtin.
Adds(t) ==
    /\ rows[t] = "unborn"
    /\ rows' = [rows EXCEPT ![t] = "kept"]
    /\ next' = [next EXCEPT ![t] = FirstTime(t, schedule[t], clock)]
    /\ UNCHANGED <<clock, enabled, schedule, runs, procs, list, up, held, edits, deaths,
                   history>>

\* `ferrule tasks run-now`: reads the row, whatever it says, and executes it.
CliRuns(t) ==
    /\ pc["cli"] = "idle" /\ edits < MaxEdits /\ Kept(t)
    /\ edits' = edits + 1
    /\ job' = [job EXCEPT !["cli"] = Row(t)]
    /\ Goto("cli", "start")
    /\ UNCHANGED <<clock, table, runs, outcome, endedAt, list, up, held, deaths, history>>

\* The dashboard's run now: due from this instant.
RunNow(t) ==
    /\ edits < MaxEdits /\ Kept(t) /\ enabled[t]
    /\ edits' = edits + 1
    /\ next' = [next EXCEPT ![t] = clock]
    /\ served' = [served EXCEPT ![t] = 0] /\ unrecorded' = unrecorded \ {t}
    /\ UNCHANGED <<clock, rows, enabled, schedule, runs, procs, list, up, held, deaths,
                   recovered, left>>

\* set_schedule, and ensure_builtin for a built-in task whose config changed.
SetSchedule(t) ==
    /\ edits < MaxEdits /\ Kept(t)
    /\ edits' = edits + 1
    /\ \/ t \in Cron /\ \E period \in Periods \ {schedule[t]} :
             /\ schedule' = [schedule EXCEPT ![t] = period]
             /\ next' = [next EXCEPT ![t] = NextOccurrence(period, clock)]
       \/ t \in Once /\ \E at \in clock..MaxTime : next' = [next EXCEPT ![t] = at]
             /\ UNCHANGED schedule
    /\ served' = [served EXCEPT ![t] = 0] /\ unrecorded' = unrecorded \ {t}
    /\ UNCHANGED <<clock, rows, enabled, runs, procs, list, up, held, deaths, recovered, left>>

\* pause and resume.
SetEnabled(t) ==
    /\ edits < MaxEdits /\ Kept(t)
    /\ edits' = edits + 1
    /\ enabled' = [enabled EXCEPT ![t] = ~@]
    /\ UNCHANGED <<clock, rows, next, schedule, runs, procs, list, up, held, deaths, history>>

\* delete: with the task go its runs (ON DELETE CASCADE), the one that is on too.
Deletes(t) ==
    /\ edits < MaxEdits /\ Kept(t)
    /\ edits' = edits + 1
    /\ rows' = [rows EXCEPT ![t] = "deleted"]
    /\ runs' = [r \in DOMAIN runs |->
                  IF runs[r].task = t THEN [runs[r] EXCEPT !.status = "gone"] ELSE runs[r]]
    /\ UNCHANGED <<clock, enabled, next, schedule, procs, list, up, held, deaths,
                   history>>

Holds ==
    /\ edits < MaxEdits
    /\ edits' = edits + 1
    /\ held' = ~held
    /\ UNCHANGED <<clock, table, runs, procs, list, up, deaths, history>>

-----------------------------------------------------------------------------

Executes(p) == Starts(p) \/ Wakes(p) \/ Finishes(p) \/ Records(p)
Gateway == Ticks \/ TakesNext \/ Executes("gateway")

Next ==
    \/ Passes \/ Gateway \/ Executes("cli")
    \/ \E p \in Procs : FinishRefused(p) \/ RecordRefused(p)
    \/ GatewayStarts \/ GatewayDies \/ CliDies
    \/ \E t \in Tasks : Adds(t) \/ CliRuns(t) \/ RunNow(t) \/ SetSchedule(t) \/ SetEnabled(t) \/ Deletes(t)
    \/ Holds

Spec == Init /\ [][Next]_vars

\* Both processes go on (a turn ends); the gateway is started again by its service.
Fairness == WF_vars(Gateway) /\ WF_vars(Executes("cli")) /\ WF_vars(GatewayStarts)

FairSpec == Spec /\ Fairness

-----------------------------------------------------------------------------
(* Properties *)

InRun(p, t) == pc[p] \in {"run", "finish"} /\ job[p].task = t

\* Two runs of a task are never on together, except beside a run-now that a start
\* of the gateway called interrupted while it went on.
NoOverlap ==
    \A t \in Tasks :
        InRun("gateway", t) /\ InRun("cli", t) => job["cli"].run \in recovered

\* A missed backlog is one run: what the loop runs was due after the end of the
\* loop's last run of the task, whatever was missed, tried and interrupted between,
\* and a one-shot it has run it does not run again; unless the owner, or the end of a
\* run-now, has set the task's time since, or the gateway died, or could not write,
\* after that run's end and before record_execution.  The task is then due as before,
\* and what ran to its end is run again: mod.rs:31's "exactly one run" does not hold
\* across that window, which has a chat's notice in it when the run failed.
OneCatchUp ==
    LET t == job["gateway"].task IN
    pc["gateway"] = "run" => job["gateway"].slot > served[t] \/ t \in unrecorded

\* A row that says running has a process behind it, unless that process died, or
\* could not write, and the gateway has not started since.
RunningIsAlive ==
    \A r \in DOMAIN runs :
        runs[r].status = "running" =>
            \/ \E p \in Procs : job[p].run = r /\ pc[p] \in {"run", "finish"}
            \/ r \in left

Wedged(t) == \E r \in left : runs[r].task = t /\ runs[r].status = "running"

\* A task that is due is run, or taken off by the owner, or already moved on by a
\* run-now; only a run left over by a process that died keeps it waiting.
DueIsRun ==
    \A t \in Tasks :
        Due(t) ~> \/ ~Due(t) \/ held \/ Wedged(t) \/ Len(runs) = MaxRuns
                  \/ InRun("gateway", t)
=============================================================================
