-------------------------- MODULE SupervisorProofs --------------------------
(***************************************************************************)
(* The safety properties of the supervisor, for every tree, every limit    *)
(* and every set of tool calls.                                            *)
(*                                                                         *)
(* IInv says that the calls in progress and the runs agree with the rows.  *)
(* On top of it, one invariant per question: who is behind a running row   *)
(* (BehindOK), where the news of an end is (NewsOK, WaitsOK, ToldOK), what *)
(* is on disk (CopiesOK), and what is still going on when `ferrule run`    *)
(* leaves its loop (LeavingOK).  The lemmas named ...Frame and ...Steps    *)
(* say once which actions change which variables.                          *)
(***************************************************************************)
EXTENDS Supervisor, FiniteSetTheorems, TLAPS

Starting == {"place", "start", "launch"}
AtChild == Starting \cup {"resume"}

\* What a call in progress knows of its child: it is the caller's own and has a
\* row; a resume was only begun below the bound on runs; what a wait or a close
\* goes through are children that have run.
CallOK(a) ==
    /\ op[a].pc \in AtChild =>
         /\ op[a].child \in Children
         /\ parent[op[a].child] = a
         /\ status[op[a].child] # "none"
    /\ op[a].pc = "resume" => run[op[a].child] < MaxRuns
    /\ op[a].pc \in {"rows", "check"} => op[a].ids \subseteq Children
    /\ \A c \in op[a].ids : c \in Children => run[c] >= 1

CallsOK == \A a \in Actors : CallOK(a)

\* A child that was ever started has a run number.
Numbered(c) ==
    parent[c] # None \/ status[c] # "none" \/ task[c] # "none" \/ handle[c]
        => run[c] >= 1

\* The end of run n of c is not recorded yet.
Pending(c, n) == rep[<<c, n>>] \in {"clear", "record"}

\* While a run is alive or its end not recorded, the row is running or closed;
\* the two exclude each other, and an end not recorded is that of the last run.
OneRun(c) ==
    /\ task[c] # "none" => status[c] \in {"running", "closed"}
    /\ task[c] # "none" => \A n \in Runs : ~Pending(c, n)
    /\ \A n \in Runs : Pending(c, n) => status[c] \in {"running", "closed"}
    /\ \A n \in Runs : Pending(c, n) => n = run[c]

\* A call about to start c finds no run of it: for a resume this was read
\* before the lock, and still holds because only the parent starts c.
Vacant(a) ==
    op[a].pc \in AtChild =>
        /\ task[op[a].child] = "none"
        /\ \A n \in Runs : ~Pending(op[a].child, n)
        /\ op[a].pc \in Starting => status[op[a].child] \in {"running", "closed"}

RunsOK ==
    /\ \A c \in Children : Numbered(c) /\ OneRun(c)
    /\ \A a \in Actors : Vacant(a)

IInv == TypeOK /\ CallsOK /\ RunsOK
USE SupervisorAssumption DEF Agents, Actors, Statuses, RepPcs, OpPcs, OpType

-----------------------------------------------------------------------------
(* The inductive invariant *)

\* The initial state satisfies the inductive invariant: no agent was started.
LEMMA InitIInv == Init => IInv
<1> SUFFICES ASSUME Init PROVE IInv
  OBVIOUS
<1>1. TypeOK
  BY DEF Init, TypeOK, Ready
<1>2. CallsOK
  BY DEF Init, CallsOK, CallOK, Ready, AtChild, Starting
<1>3. RunsOK
  BY DEF Init, RunsOK, Numbered, OneRun, Vacant, Pending, Ready, AtChild, Starting,
     Runs, Notices
<1> QED BY <1>1, <1>2, <1>3 DEF IInv

\* Run number 0 (no run, no claim, no copy) is in the range of run numbers.
LEMMA ZeroRuns == 0 \in 0..MaxRuns
  OBVIOUS

\* A call in progress goes on to its next step.
LEMMA CallAdvances ==
    ASSUME op \in [Actors -> OpType], NEW a \in Actors, NEW pc \in OpPcs,
           op' = [op EXCEPT ![a].pc = pc]
    PROVE  op' \in [Actors -> OpType]
  OBVIOUS

\* A step that touches neither the rows, the calls, the tasks nor the reports.
LEMMA Untouched ==
    ASSUME CallsOK, RunsOK, UNCHANGED <<status, parent, run, op, task, handle, rep>>
    PROVE  CallsOK' /\ RunsOK'
  BY DEF CallsOK, RunsOK, CallOK, Numbered, OneRun, Vacant, Pending

\* A step of a report whose end is recorded already.
LEMMA ReportedAlready ==
    ASSUME CallsOK, RunsOK, UNCHANGED <<status, parent, run, op, task, handle>>,
           rep \in [Notices -> RepPcs],
           NEW x \in Notices, NEW pc \in RepPcs \ {"clear", "record"},
           rep' = [rep EXCEPT ![x] = pc]
    PROVE  CallsOK' /\ RunsOK'
  BY DEF CallsOK, RunsOK, CallOK, Numbered, OneRun, Vacant, Pending, Notices

\* A step of a call that is not about to start a child: rows may only close,
\* tasks only go from running to aborting, handles only be taken.
LEMMA OtherCall ==
    ASSUME CallsOK, RunsOK, op \in [Actors -> OpType],
           status \in [Agents -> Statuses], status' \in [Agents -> Statuses],
           NEW x \in Actors, NEW o \in OpType, op' = [op EXCEPT ![x] = o],
           o.pc \notin AtChild,
           o.pc \in {"rows", "check"} => o.ids \subseteq Children,
           \A c \in o.ids : c \in Children => run[c] >= 1,
           UNCHANGED <<parent, run, rep>>,
           \A c \in Children : \/ status'[c] = status[c]
                               \/ status'[c] = "closed" /\ run[c] >= 1,
           \A c \in Children : (task'[c] = "none") = (task[c] = "none"),
           \A c \in Children : handle'[c] => handle[c]
    PROVE  CallsOK' /\ RunsOK'
<1>1. ASSUME NEW a \in Actors PROVE CallOK(a)' /\ Vacant(a)'
  <2>1. CASE a = x
    BY <2>1 DEF CallOK, Vacant, AtChild, Starting
  <2>2. CASE a # x
    <3>1. op'[a] = op[a]
      BY <2>2
    <3>2. CallOK(a) /\ Vacant(a)
      BY DEF CallsOK, RunsOK
    <3> QED BY <3>1, <3>2 DEF CallOK, Vacant, Pending, AtChild, Starting
  <2> QED BY <2>1, <2>2
<1>2. ASSUME NEW c \in Children PROVE Numbered(c)' /\ OneRun(c)'
  <2>1. Numbered(c) /\ OneRun(c)
    BY DEF RunsOK
  <2> QED BY <2>1 DEF Numbered, OneRun, Pending
<1> QED BY <1>1, <1>2 DEF CallsOK, RunsOK

\* spawn's insert keeps the invariant: the new row is fresh, so no run of it is left.
LEMMA StepSpawnRow ==
    ASSUME IInv, NEW a \in Agents, NEW c \in Children, SpawnRow(a, c)
    PROVE  IInv'
<1> USE DEF IInv, SpawnRow, InsertRow, CanCall, Ready
<1>0. /\ op \in [Actors -> OpType]
      /\ status \in [Agents -> Statuses]
      /\ parent \in [Children -> Agents \cup {None}]
      /\ depth \in [Agents -> 0..MaxDepth]
      /\ run \in [Children -> 0..MaxRuns]
      /\ task \in [Children -> {"none", "run", "aborting"}]
      /\ handle \in [Children -> BOOLEAN]
      /\ rep \in [Notices -> RepPcs]
  BY DEF TypeOK
<1>1. TypeOK'
  <2>1. op' \in [Actors -> OpType]
    BY <1>0
  <2>2. status' \in [Agents -> Statuses]
    BY <1>0
  <2>3. parent' \in [Children -> Agents \cup {None}]
    BY <1>0
  <2>4. depth' \in [Agents -> 0..MaxDepth]
    BY <1>0
  <2>5. run' \in [Children -> 0..MaxRuns]
    BY <1>0
  <2> QED
    BY <2>1, <2>2, <2>3, <2>4, <2>5 DEF TypeOK, live, reporting, driver, outside,
       history
<1>2. CallsOK'
  BY <1>0 DEF CallsOK, CallOK, AtChild, Starting, live, reporting
<1>3. RunsOK'
  BY <1>0 DEF CallsOK, CallOK, RunsOK, Numbered, OneRun, Vacant, Pending, AtChild,
     Starting, Runs, Notices, live, reporting
<1> QED BY <1>1, <1>2, <1>3

\* place writes the copy of the run being started.
LEMMA StepPlace ==
    ASSUME IInv, NEW a \in Agents, NEW made \in BOOLEAN, Place(a, made)
    PROVE  IInv'
<1> USE DEF IInv, Place
<1>0. /\ op \in [Actors -> OpType]
      /\ copy \in [Children -> {"none", "worktree", "snapshot"}]
      /\ disk \in [Children -> 0..MaxRuns]
      /\ status \in [Agents -> Statuses]
      /\ parent \in [Children -> Agents \cup {None}]
      /\ run \in [Children -> 0..MaxRuns]
      /\ task \in [Children -> {"none", "run", "aborting"}]
      /\ handle \in [Children -> BOOLEAN]
      /\ rep \in [Notices -> RepPcs]
  BY DEF TypeOK
<1>1. TypeOK'
  <2>1. op' \in [Actors -> OpType]
    BY <1>0, SMTT(30)
  <2>2. copy' \in [Children -> {"none", "worktree", "snapshot"}]
    BY <1>0
  <2>3. disk' \in [Children -> 0..MaxRuns]
    <3>1. op[a].child \in Children
      BY DEF CallsOK, CallOK, AtChild, Starting
    <3>2. run[op[a].child] \in 0..MaxRuns
      BY <1>0, <3>1
    <3> QED BY <1>0, <3>1, <3>2, ZeroRuns
  <2> QED
    BY <2>1, <2>2, <2>3 DEF TypeOK, rows, live, reporting, driver, history
<1>2. CallsOK'
  BY <1>0 DEF CallsOK, CallOK, AtChild, Starting, rows, live, reporting
<1>3. RunsOK'
  BY <1>0 DEF CallsOK, CallOK, RunsOK, Numbered, OneRun, Vacant, Pending, AtChild,
     Starting, Runs, Notices, rows, live, reporting
<1> QED BY <1>1, <1>2, <1>3

\* A failed start ends the row it was about to run; nothing of it runs.
LEMMA StepStartFails ==
    ASSUME IInv, NEW a \in Agents, StartFails(a)
    PROVE  IInv'
<1> USE DEF IInv, StartFails, FinishRow, Ready
<1>0. /\ op \in [Actors -> OpType]
      /\ status \in [Agents -> Statuses]
      /\ heard \subseteq Notices /\ told \subseteq heard /\ refused \subseteq Notices
      /\ parent \in [Children -> Agents \cup {None}]
      /\ run \in [Children -> 0..MaxRuns]
      /\ task \in [Children -> {"none", "run", "aborting"}]
      /\ handle \in [Children -> BOOLEAN]
      /\ rep \in [Notices -> RepPcs]
  BY DEF TypeOK
<1>1. TypeOK'
  <2>1. op' \in [Actors -> OpType]
    BY <1>0
  <2>2. status' \in [Agents -> Statuses]
    BY <1>0
  <2>3. heard' \subseteq Notices /\ told' \subseteq heard' /\ refused' \subseteq Notices
    BY <1>0 DEF CallsOK, CallOK, RunsOK, Numbered, AtChild, Starting, Notices, Runs
  <2> QED
    BY <2>1, <2>2, <2>3 DEF TypeOK, live, reporting, driver, outside
<1>2. CallsOK'
  BY <1>0 DEF CallsOK, CallOK, AtChild, Starting, live, reporting
<1>3. RunsOK'
  BY <1>0 DEF CallsOK, CallOK, RunsOK, Numbered, OneRun, Vacant, Pending, AtChild,
     Starting, Runs, Notices, live, reporting
<1> QED BY <1>1, <1>2, <1>3

\* start's reset of the stop flag moves the call on to the launch.
LEMMA StepStartResets ==
    ASSUME IInv, NEW a \in Agents, StartResets(a)
    PROVE  IInv'
<1> USE DEF IInv, StartResets
<1>0. /\ op \in [Actors -> OpType]
      /\ stop \in [Agents -> BOOLEAN]
      /\ status \in [Agents -> Statuses]
      /\ parent \in [Children -> Agents \cup {None}]
      /\ run \in [Children -> 0..MaxRuns]
      /\ task \in [Children -> {"none", "run", "aborting"}]
      /\ handle \in [Children -> BOOLEAN]
      /\ rep \in [Notices -> RepPcs]
  BY DEF TypeOK
<1>1. TypeOK'
  <2>1. op' \in [Actors -> OpType]
    BY <1>0, CallAdvances
  <2>2. stop' \in [Agents -> BOOLEAN]
    BY <1>0
  <2> QED
    BY <2>1, <2>2 DEF TypeOK, rows, reporting, driver, outside, history
<1>2. CallsOK'
  BY <1>0 DEF CallsOK, CallOK, AtChild, Starting, rows, reporting
<1>3. RunsOK'
  BY <1>0 DEF CallsOK, CallOK, RunsOK, Numbered, OneRun, Vacant, Pending, AtChild,
     Starting, Runs, Notices, rows, reporting
<1> QED BY <1>1, <1>2, <1>3

\* The launch finds no run of the child, so the task it spawns is the only one.
LEMMA StepStartLaunches ==
    ASSUME IInv, NEW a \in Agents, StartLaunches(a)
    PROVE  IInv'
<1> USE DEF IInv, StartLaunches, Ready
<1>0. /\ op \in [Actors -> OpType]
      /\ task \in [Children -> {"none", "run", "aborting"}]
      /\ handle \in [Children -> BOOLEAN]
      /\ status \in [Agents -> Statuses]
      /\ parent \in [Children -> Agents \cup {None}]
      /\ run \in [Children -> 0..MaxRuns]
      /\ rep \in [Notices -> RepPcs]
  BY DEF TypeOK
<1>1. TypeOK'
  <2>1. op' \in [Actors -> OpType]
    BY <1>0
  <2>2. task' \in [Children -> {"none", "run", "aborting"}]
    BY <1>0
  <2>3. handle' \in [Children -> BOOLEAN]
    BY <1>0
  <2> QED
    BY <2>1, <2>2, <2>3 DEF TypeOK, rows, reporting, driver, outside, history
<1>2. CallsOK'
  BY <1>0 DEF CallsOK, CallOK, AtChild, Starting, rows, reporting
<1>3. RunsOK'
  BY <1>0 DEF CallsOK, CallOK, RunsOK, Numbered, OneRun, Vacant, Pending, AtChild,
     Starting, Runs, Notices, rows, reporting
<1> QED BY <1>1, <1>2, <1>3

\* A row read as idle or failed has no run and no end to record.
LEMMA StepResumeReads ==
    ASSUME IInv, NEW a \in Agents, NEW c \in Children, ResumeReads(a, c)
    PROVE  IInv'
<1> USE DEF IInv, ResumeReads, CanCall, Ready
<1>0. /\ op \in [Actors -> OpType]
      /\ status \in [Agents -> Statuses]
      /\ parent \in [Children -> Agents \cup {None}]
      /\ run \in [Children -> 0..MaxRuns]
      /\ task \in [Children -> {"none", "run", "aborting"}]
      /\ handle \in [Children -> BOOLEAN]
      /\ rep \in [Notices -> RepPcs]
  BY DEF TypeOK
<1>1. TypeOK'
  <2>1. op' \in [Actors -> OpType]
    BY <1>0
  <2> QED
    BY <2>1 DEF TypeOK, rows, live, reporting, driver, outside, history
<1>2. CallsOK'
  BY <1>0 DEF CallsOK, CallOK, AtChild, Starting, rows, live, reporting
<1>3. RunsOK'
  BY <1>0 DEF CallsOK, CallOK, RunsOK, Numbered, OneRun, Vacant, Pending, AtChild,
     Starting, Runs, Notices, rows, live, reporting
<1> QED BY <1>1, <1>2, <1>3

\* resume's set_status: the child may be closed by now, but still has no run.
LEMMA StepRerun ==
    ASSUME IInv, NEW a \in Agents, op[a].pc = "resume", Rerun(a, op[a].child)
    PROVE  IInv'
<1> USE DEF IInv, Rerun, About
<1>0. /\ op \in [Actors -> OpType]
      /\ status \in [Agents -> Statuses]
      /\ run \in [Children -> 0..MaxRuns]
      /\ heard \subseteq Notices /\ told \subseteq heard /\ refused \subseteq Notices
      /\ revived \subseteq Children
      /\ parent \in [Children -> Agents \cup {None}]
      /\ task \in [Children -> {"none", "run", "aborting"}]
      /\ handle \in [Children -> BOOLEAN]
      /\ rep \in [Notices -> RepPcs]
  BY DEF TypeOK
<1>1. TypeOK'
  <2>1. op' \in [Actors -> OpType]
    BY <1>0
  <2>2. status' \in [Agents -> Statuses]
    BY <1>0
  <2>3. run' \in [Children -> 0..MaxRuns]
    BY <1>0 DEF CallsOK, CallOK, AtChild
  <2>4. heard' \subseteq Notices /\ told' \subseteq heard' /\ refused' \subseteq Notices
    BY <1>0
  <2>5. op[a].child \in Children
    BY DEF CallsOK, CallOK, AtChild
  <2>6. revived' \subseteq Children
    BY <1>0, <2>5
  <2> QED
    BY <2>1, <2>2, <2>3, <2>4, <2>6 DEF TypeOK, live, reporting, driver, outside
<1>2. CallsOK'
  BY <1>0 DEF CallsOK, CallOK, AtChild, Starting, live, reporting
<1>3. RunsOK'
  BY <1>0 DEF CallsOK, CallOK, RunsOK, Numbered, OneRun, Vacant, Pending, AtChild,
     Starting, Runs, Notices, live, reporting
<1> QED BY <1>1, <1>2, <1>3

\* resume under spawn_lock: the child runs again, or the limit refuses it.
LEMMA StepResumeRow ==
    ASSUME IInv, NEW a \in Agents, ResumeRow(a)
    PROVE  IInv'
<1> USE DEF IInv
<1>1. CASE CheckCanRun(a) /\ Rerun(a, op[a].child)
  BY <1>1, StepRerun DEF ResumeRow
<1>2. CASE /\ op' = [op EXCEPT ![a] = Ready]
           /\ UNCHANGED <<rows, live, inbox, reporting, driver, outside, history>>
  <2>1. TypeOK'
    <3>1. op' \in [Actors -> OpType]
      BY <1>2 DEF TypeOK, Ready
    <3> QED
      BY <1>2, <3>1 DEF TypeOK, rows, live, reporting, driver, outside, history
  <2>2. CallsOK'
    BY <1>2 DEF TypeOK, Ready, CallsOK, CallOK, AtChild, Starting, rows, live, reporting
  <2>3. RunsOK'
    BY <1>2 DEF TypeOK, Ready, CallsOK, CallOK, RunsOK, Numbered, OneRun, Vacant,
       Pending, AtChild, Starting, Runs, Notices, rows, live, reporting
  <2> QED BY <2>1, <2>2, <2>3
<1> QED BY <1>1, <1>2 DEF ResumeRow

\* The end of a run turns the task into one end to record, that of the last run.
LEMMA StepRunEnds ==
    ASSUME IInv, NEW c \in Children, NEW st \in {"idle", "failed"}, RunEnds(c, st)
    PROVE  IInv'
<1> USE DEF IInv, RunEnds
<1>0. /\ task \in [Children -> {"none", "run", "aborting"}]
      /\ rep \in [Notices -> RepPcs]
      /\ out \in [Notices -> {"none", "idle", "failed"}]
      /\ op \in [Actors -> OpType]
      /\ status \in [Agents -> Statuses]
      /\ parent \in [Children -> Agents \cup {None}]
      /\ run \in [Children -> 0..MaxRuns]
      /\ handle \in [Children -> BOOLEAN]
  BY DEF TypeOK
<1>1. TypeOK'
  <2>1. task' \in [Children -> {"none", "run", "aborting"}]
    BY <1>0
  <2>2. rep' \in [Notices -> RepPcs]
    BY <1>0
  <2>3. out' \in [Notices -> {"none", "idle", "failed"}]
    BY <1>0
  <2> QED
    BY <2>1, <2>2, <2>3 DEF TypeOK, rows, driver, outside, history
<1>2. CallsOK'
  BY <1>0 DEF CallsOK, CallOK, AtChild, Starting, rows
<1>3. RunsOK'
  BY <1>0 DEF CallsOK, CallOK, RunsOK, Numbered, OneRun, Vacant, Pending, AtChild,
     Starting, Runs, Notices, rows
<1> QED BY <1>1, <1>2, <1>3

\* An aborted task goes without a report.
LEMMA StepTaskDies ==
    ASSUME IInv, NEW c \in Children, TaskDies(c)
    PROVE  IInv'
<1> USE DEF IInv, TaskDies, Ready
<1>0. /\ op \in [Actors -> OpType]
      /\ task \in [Children -> {"none", "run", "aborting"}]
      /\ status \in [Agents -> Statuses]
      /\ parent \in [Children -> Agents \cup {None}]
      /\ run \in [Children -> 0..MaxRuns]
      /\ handle \in [Children -> BOOLEAN]
      /\ rep \in [Notices -> RepPcs]
  BY DEF TypeOK
<1>1. TypeOK'
  <2>1. op' \in [Actors -> OpType]
    BY <1>0
  <2>2. task' \in [Children -> {"none", "run", "aborting"}]
    BY <1>0
  <2> QED
    BY <2>1, <2>2 DEF TypeOK, rows, reporting, driver, outside, history
<1>2. CallsOK'
  BY <1>0 DEF CallsOK, CallOK, AtChild, Starting, rows, reporting
<1>3. RunsOK'
  BY <1>0 DEF CallsOK, CallOK, RunsOK, Numbered, OneRun, Vacant, Pending, AtChild,
     Starting, Runs, Notices, rows, reporting
<1> QED BY <1>1, <1>2, <1>3

\* report takes its own handle back.
LEMMA StepReportClears ==
    ASSUME IInv, NEW x \in Notices, ReportClears(x)
    PROVE  IInv'
<1> USE DEF IInv, ReportClears, Goto
<1>0. /\ rep \in [Notices -> RepPcs]
      /\ handle \in [Children -> BOOLEAN]
      /\ op \in [Actors -> OpType]
      /\ status \in [Agents -> Statuses]
      /\ parent \in [Children -> Agents \cup {None}]
      /\ run \in [Children -> 0..MaxRuns]
      /\ task \in [Children -> {"none", "run", "aborting"}]
  BY DEF TypeOK
<1>1. TypeOK'
  <2>1. rep' \in [Notices -> RepPcs]
    BY <1>0
  <2>2. handle' \in [Children -> BOOLEAN]
    BY <1>0
  <2> QED
    BY <2>1, <2>2 DEF TypeOK, rows, driver, outside, history
<1>2. CallsOK'
  BY <1>0 DEF CallsOK, CallOK, AtChild, Starting, rows
<1>3. RunsOK'
  BY <1>0 DEF CallsOK, CallOK, RunsOK, Numbered, OneRun, Vacant, Pending, AtChild,
     Starting, Runs, Notices, rows
<1> QED BY <1>1, <1>2, <1>3

\* report records the end: from here on the row may be resumed.
LEMMA StepReportRecords ==
    ASSUME IInv, NEW x \in Notices, ReportRecords(x)
    PROVE  IInv'
<1> USE DEF IInv, ReportRecords, FinishRow, Goto, AfterRelease
<1>0. /\ rep \in [Notices -> RepPcs]
      /\ status \in [Agents -> Statuses]
      /\ out \in [Notices -> {"none", "idle", "failed"}]
      /\ op \in [Actors -> OpType]
      /\ parent \in [Children -> Agents \cup {None}]
      /\ run \in [Children -> 0..MaxRuns]
      /\ task \in [Children -> {"none", "run", "aborting"}]
      /\ handle \in [Children -> BOOLEAN]
  BY DEF TypeOK
<1>1. TypeOK'
  <2>1. rep' \in [Notices -> RepPcs]
    BY <1>0
  <2>2. status' \in [Agents -> Statuses]
    BY <1>0 DEF Notices
  <2> QED
    BY <2>1, <2>2 DEF TypeOK, live, driver, outside, history
<1>2. CallsOK'
  BY <1>0 DEF CallsOK, CallOK, RunsOK, Vacant, Pending, AtChild, Starting, Notices, live
<1>3. RunsOK'
  BY <1>0 DEF CallsOK, CallOK, RunsOK, Numbered, OneRun, Vacant, Pending, AtChild,
     Starting, Runs, Notices, live
<1> QED BY <1>1, <1>2, <1>3

\* The store does not take the end: the row stays as it is.
LEMMA StepReportRefused ==
    ASSUME IInv, NEW x \in Notices, ReportRefused(x)
    PROVE  IInv'
<1> USE DEF IInv, ReportRefused, Goto
<1>0. /\ rep \in [Notices -> RepPcs]
      /\ op \in [Actors -> OpType]
      /\ status \in [Agents -> Statuses]
      /\ parent \in [Children -> Agents \cup {None}]
      /\ run \in [Children -> 0..MaxRuns]
      /\ task \in [Children -> {"none", "run", "aborting"}]
  BY DEF TypeOK
<1>1. TypeOK'
  <2>1. rep' \in [Notices -> RepPcs]
    BY <1>0 DEF RepPcs
  <2>2. refused' \subseteq Notices
    BY DEF TypeOK
  <2> QED
    BY <2>1, <2>2 DEF TypeOK, rows, live, driver, outside
<1>2. CallsOK'
  BY <1>0 DEF CallsOK, CallOK, AtChild, Starting, rows, live
<1>3. RunsOK'
  BY <1>0 DEF CallsOK, CallOK, RunsOK, Numbered, OneRun, Vacant, Pending, AtChild,
     Starting, Runs, Notices, rows, live
<1> QED BY <1>1, <1>2, <1>3

\* report releases the claims of a failed run.
LEMMA StepReportReleases ==
    ASSUME IInv, NEW x \in Notices, ReportReleases(x)
    PROVE  IInv'
<1> USE DEF IInv, ReportReleases, Goto, AfterRelease
<1>0. /\ rep \in [Notices -> RepPcs]
      /\ claim \in [Children -> 0..MaxRuns]
  BY DEF TypeOK
<1>1. TypeOK'
  <2>1. rep' \in [Notices -> RepPcs]
    BY <1>0
  <2>2. claim' \in [Children -> 0..MaxRuns]
    BY <1>0, ZeroRuns
  <2> QED
    BY <2>1, <2>2 DEF TypeOK, rows, live, driver, history
<1>2. CallsOK' /\ RunsOK'
  BY <1>0, ReportedAlready DEF rows, live
<1> QED BY <1>1, <1>2

\* report of a closed agent ends here.
LEMMA StepReportUnrecorded ==
    ASSUME IInv, NEW x \in Notices, ReportUnrecorded(x)
    PROVE  IInv'
<1> USE DEF IInv, ReportUnrecorded, Goto
<1>0. /\ rep \in [Notices -> RepPcs]
      /\ claim \in [Children -> 0..MaxRuns]
  BY DEF TypeOK
<1>1. TypeOK'
  <2>1. rep' \in [Notices -> RepPcs]
    BY <1>0
  <2>2. claim' \in [Children -> 0..MaxRuns]
    BY <1>0, ZeroRuns
  <2> QED
    BY <2>1, <2>2 DEF TypeOK, rows, live, driver, history
<1>2. CallsOK' /\ RunsOK'
  BY <1>0, ReportedAlready DEF rows, live
<1> QED BY <1>1, <1>2

\* report discards a verifier's snapshot.
LEMMA StepReportDiscards ==
    ASSUME IInv, NEW x \in Notices, ReportDiscards(x)
    PROVE  IInv'
<1> USE DEF IInv, ReportDiscards, Goto
<1>0. /\ rep \in [Notices -> RepPcs]
      /\ disk \in [Children -> 0..MaxRuns]
  BY DEF TypeOK
<1>1. TypeOK'
  <2>1. rep' \in [Notices -> RepPcs]
    BY <1>0
  <2>2. disk' \in [Children -> 0..MaxRuns]
    BY <1>0, ZeroRuns
  <2> QED
    BY <2>1, <2>2 DEF TypeOK, rows, live, driver, history
<1>2. CallsOK' /\ RunsOK'
  BY <1>0, ReportedAlready DEF rows, live
<1> QED BY <1>1, <1>2

\* report puts the notice into the parent's inbox.
LEMMA StepReportNotifies ==
    ASSUME IInv, NEW x \in Notices, ReportNotifies(x)
    PROVE  IInv'
<1> USE DEF IInv, ReportNotifies, Goto
<1>0. /\ rep \in [Notices -> RepPcs]
      /\ inbox \in [Agents -> SUBSET Notices]
  BY DEF TypeOK
<1>1. TypeOK'
  <2>1. rep' \in [Notices -> RepPcs]
    BY <1>0
  <2>2. inbox' \in [Agents -> SUBSET Notices]
    BY <1>0
  <2> QED
    BY <2>1, <2>2 DEF TypeOK, rows, live, driver, outside, history
<1>2. CallsOK' /\ RunsOK'
  BY <1>0, ReportedAlready DEF rows, live
<1> QED BY <1>1, <1>2

\* wake_root takes the root's inbox, or leaves it.
LEMMA StepReportWakes ==
    ASSUME IInv, NEW x \in Notices, ReportWakes(x)
    PROVE  IInv'
<1> USE DEF IInv, ReportWakes, Goto
<1>0. /\ rep \in [Notices -> RepPcs]
      /\ inbox \in [Agents -> SUBSET Notices]
      /\ hand \in [Notices -> SUBSET Notices]
      /\ root \in {"running", "idle", "quiet", "counted", "exit", "failed", "left"}
  BY DEF TypeOK
<1>1. TypeOK'
  <2>1. rep' \in [Notices -> RepPcs]
    BY <1>0
  <2>2. inbox' \in [Agents -> SUBSET Notices]
    BY <1>0
  <2>3. hand' \in [Notices -> SUBSET Notices]
    BY <1>0
  <2> QED
    BY <2>1, <2>2, <2>3 DEF TypeOK, rows, live, driver, outside, history
<1>2. CallsOK' /\ RunsOK'
  BY <1>0, ReportedAlready DEF rows, live
<1> QED BY <1>1, <1>2

\* wake_root sends the items, or puts them back.
LEMMA StepReportSends ==
    ASSUME IInv, NEW x \in Notices, ReportSends(x)
    PROVE  IInv'
<1> USE DEF IInv, ReportSends, Goto
<1>0. /\ rep \in [Notices -> RepPcs]
      /\ inbox \in [Agents -> SUBSET Notices]
      /\ hand \in [Notices -> SUBSET Notices]
      /\ woken \subseteq SUBSET Notices
  BY DEF TypeOK
<1>1. TypeOK'
  <2>1. rep' \in [Notices -> RepPcs]
    BY <1>0
  <2>2. inbox' \in [Agents -> SUBSET Notices]
    BY <1>0
  <2>3. hand' \in [Notices -> SUBSET Notices]
    BY <1>0
  <2>4. woken' \subseteq SUBSET Notices
    BY <1>0
  <2> QED
    BY <2>1, <2>2, <2>3, <2>4 DEF TypeOK, rows, live, outside, history
<1>2. CallsOK' /\ RunsOK'
  BY <1>0, ReportedAlready DEF rows, live
<1> QED BY <1>1, <1>2

\* `finishing` goes down.
LEMMA StepReportDone ==
    ASSUME IInv, NEW x \in Notices, ReportDone(x)
    PROVE  IInv'
<1> USE DEF IInv, ReportDone, Goto
<1>0. /\ rep \in [Notices -> RepPcs]
      /\ out \in [Notices -> {"none", "idle", "failed"}]
  BY DEF TypeOK
<1>1. TypeOK'
  <2>1. rep' \in [Notices -> RepPcs]
    BY <1>0
  <2>2. out' \in [Notices -> {"none", "idle", "failed"}]
    BY <1>0
  <2> QED
    BY <2>1, <2>2 DEF TypeOK, rows, live, driver, outside, history
<1>2. CallsOK' /\ RunsOK'
  BY <1>0, ReportedAlready DEF rows, live
<1> QED BY <1>1, <1>2

\* wait is only for children of the caller.
LEMMA StepWaitBegins ==
    ASSUME IInv, NEW a \in Agents, NEW ids \in SUBSET Children, WaitBegins(a, ids)
    PROVE  IInv'
<1> USE DEF IInv, WaitBegins, CanCall, Ready
<1>0. /\ op \in [Actors -> OpType]
      /\ status \in [Agents -> Statuses]
      /\ parent \in [Children -> Agents \cup {None}]
      /\ run \in [Children -> 0..MaxRuns]
      /\ task \in [Children -> {"none", "run", "aborting"}]
      /\ handle \in [Children -> BOOLEAN]
      /\ rep \in [Notices -> RepPcs]
  BY DEF TypeOK
<1>1. TypeOK'
  <2>1. op' \in [Actors -> OpType]
    BY <1>0
  <2> QED
    BY <2>1 DEF TypeOK, rows, live, reporting, driver, outside, history
<1>2. CallsOK'
  BY <1>0 DEF CallsOK, CallOK, AtChild, Starting, rows, live, reporting, RunsOK,
     Numbered
<1>3. RunsOK'
  BY <1>0 DEF CallsOK, CallOK, RunsOK, Numbered, OneRun, Vacant, Pending, AtChild,
     Starting, Runs, Notices, rows, live, reporting
<1> QED BY <1>1, <1>2, <1>3

\* What wait reads as stopped are runs that were started.
LEMMA StepWaitReadsRows ==
    ASSUME IInv, NEW a \in Agents, WaitReadsRows(a)
    PROVE  IInv'
<1> USE DEF IInv
<1> DEFINE g == {<<c, run[c]>> : c \in {d \in op[a].ids : status[d] # "running"}}
           o == [op[a] EXCEPT !.pc = "check", !.got = g]
<1>0. /\ op \in [Actors -> OpType]
      /\ status \in [Agents -> Statuses]
      /\ run \in [Children -> 0..MaxRuns]
  BY DEF TypeOK
<1>1. op[a].ids \subseteq Children /\ \A c \in op[a].ids : c \in Children => run[c] >= 1
  BY DEF WaitReadsRows, CallsOK, CallOK
<1>2. g \subseteq Notices
  BY <1>0, <1>1 DEF Notices, Runs
<1>3. op' = [op EXCEPT ![a] = o]
  BY <1>0 DEF WaitReadsRows
<1>4. o \in OpType /\ o.pc = "check" /\ o.ids = op[a].ids
  <2>1. op[a] \in OpType
    BY <1>0
  <2> HIDE DEF g
  <2> QED BY <1>2, <2>1
<1> HIDE DEF g, o
<1>5. TypeOK'
  <2>1. op' \in [Actors -> OpType]
    BY <1>0, <1>3, <1>4
  <2> QED
    BY <2>1 DEF WaitReadsRows, TypeOK, rows, live, reporting, driver, outside, history
<1>6. CallsOK' /\ RunsOK'
  <2>1. UNCHANGED <<status, parent, run, task, handle, rep>>
    BY DEF WaitReadsRows, rows, live, reporting
  <2>2. o.pc \notin AtChild /\ a \in Actors
    BY <1>4 DEF AtChild, Starting
  <2> QED
    BY <1>0, <1>1, <1>3, <1>4, <2>1, <2>2, OtherCall
<1> QED BY <1>5, <1>6

\* wait leaves, gives up or reads again.
LEMMA StepWaitChecks ==
    ASSUME IInv, NEW a \in Agents, WaitChecks(a)
    PROVE  IInv'
<1> USE DEF IInv, WaitChecks, Ready
<1>0. /\ op \in [Actors -> OpType]
      /\ heard \subseteq Notices /\ told \subseteq heard /\ refused \subseteq Notices
      /\ revived \subseteq Children
      /\ status \in [Agents -> Statuses]
      /\ parent \in [Children -> Agents \cup {None}]
      /\ run \in [Children -> 0..MaxRuns]
      /\ task \in [Children -> {"none", "run", "aborting"}]
      /\ handle \in [Children -> BOOLEAN]
      /\ rep \in [Notices -> RepPcs]
  BY DEF TypeOK
<1>1. TypeOK'
  <2>1. op' \in [Actors -> OpType]
    BY <1>0
  <2>2. heard' \subseteq Notices /\ told' \subseteq heard' /\ refused' \subseteq Notices /\ revived' \subseteq Children
    <3>1. op[a].got \subseteq Notices
      BY <1>0
    <3> QED BY <1>0, <3>1 DEF history
  <2> QED
    BY <2>1, <2>2 DEF TypeOK, rows, live, reporting, driver, outside
<1>2. CallsOK'
  BY <1>0 DEF CallsOK, CallOK, AtChild, Starting, rows, live, reporting
<1>3. RunsOK'
  BY <1>0 DEF CallsOK, CallOK, RunsOK, Numbered, OneRun, Vacant, Pending, AtChild,
     Starting, Runs, Notices, rows, live, reporting
<1> QED BY <1>1, <1>2, <1>3

\* wait drops the notices of the ends it returns.
LEMMA StepWaitForgets ==
    ASSUME IInv, NEW a \in Agents, WaitForgets(a)
    PROVE  IInv'
<1> USE DEF IInv, WaitForgets, Ready
<1>0. /\ op \in [Actors -> OpType]
      /\ inbox \in [Agents -> SUBSET Notices]
  BY DEF TypeOK
<1>1. TypeOK'
  <2>1. op' \in [Actors -> OpType]
    BY <1>0
  <2>2. inbox' \in [Agents -> SUBSET Notices]
    BY <1>0
  <2> QED
    BY <2>1, <2>2 DEF TypeOK, rows, live, reporting, driver, outside, history
<1>2. CallsOK'
  BY <1>0 DEF CallsOK, CallOK, AtChild, Starting, rows, live, reporting
<1>3. RunsOK'
  BY <1>0 DEF CallsOK, CallOK, RunsOK, Numbered, OneRun, Vacant, Pending, AtChild,
     Starting, Runs, Notices, rows, live, reporting
<1> QED BY <1>1, <1>2, <1>3

\* close_tree's walk meets only the agent it starts from and spawned agents.
LEMMA SubtreeMembers ==
    ASSUME NEW t \in Agents, NEW c \in Subtree(t)
    PROVE  c = t \/ (c \in Children /\ parent[c] # None)
<1> DEFINE S == {t} \cup {d \in Children : parent[d] # None}
<1>1. S \in SUBSET Agents /\ t \in S
  OBVIOUS
<1>2. \A d \in Children : parent[d] \in S => d \in S
  OBVIOUS
<1>3. c \in S
  BY <1>1, <1>2 DEF Subtree
<1> QED BY <1>3

\* close_tree's walk meets only agents that were started.
LEMMA StepCloseBegins ==
    ASSUME IInv, NEW x \in Actors, NEW t \in Agents, CloseBegins(x, t)
    PROVE  IInv'
<1> USE DEF IInv, CloseBegins, Ready
<1>0. /\ op \in [Actors -> OpType]
      /\ root \in {"running", "idle", "quiet", "counted", "exit", "failed", "left"}
      /\ status \in [Agents -> Statuses]
      /\ parent \in [Children -> Agents \cup {None}]
      /\ run \in [Children -> 0..MaxRuns]
      /\ task \in [Children -> {"none", "run", "aborting"}]
      /\ handle \in [Children -> BOOLEAN]
      /\ rep \in [Notices -> RepPcs]
  BY DEF TypeOK
<1>1. TypeOK'
  <2>1. op' \in [Actors -> OpType]
    BY <1>0 DEF Subtree
  <2>2. root' \in {"running", "idle", "quiet", "counted", "exit", "failed", "left"}
    BY <1>0
  <2> QED
    BY <2>1, <2>2 DEF TypeOK, rows, live, reporting, driver, outside, history
<1>2. CallsOK' /\ RunsOK'
  <2> DEFINE o == [Ready EXCEPT !.pc = "mark", !.ids = Subtree(t)]
  <2>1. o \in OpType /\ op' = [op EXCEPT ![x] = o]
    BY DEF Subtree
  <2>2. o.pc = "mark" /\ o.ids = Subtree(t)
    OBVIOUS
  <2>3. \A c \in Subtree(t) : c \in Children => run[c] >= 1
    <3>1. \A c \in Subtree(t) : c = t \/ parent[c] # None
      BY SubtreeMembers
    <3>2. t \in Children => run[t] >= 1
      BY DEF RunsOK, Numbered
    <3> QED BY <3>1, <3>2 DEF RunsOK, Numbered
  <2>4. UNCHANGED <<status, parent, run, task, handle, rep>>
    BY DEF rows, live, reporting
  <2>5. o.pc \notin AtChild
    BY DEF AtChild, Starting
  <2> HIDE DEF o, CloseBegins
  <2> QED
    BY <1>0, <2>1, <2>2, <2>3, <2>4, <2>5, OtherCall
<1> QED BY <1>1, <1>2

\* The owner's question starts with an agent that has a row.
LEMMA StepOwnerAsks ==
    ASSUME IInv, NEW t \in Agents, OwnerAsks(t)
    PROVE  IInv'
<1> USE DEF IInv
<1> DEFINE o == [Ready EXCEPT !.pc = "ask", !.child = t, !.ids = {t}]
<1>0. op \in [Actors -> OpType] /\ status \in [Agents -> Statuses]
  BY DEF TypeOK
<1>1. /\ o \in OpType /\ o.pc = "ask" /\ o.ids = {t}
      /\ op' = [op EXCEPT ![Owner] = o]
  BY DEF OwnerAsks, Ready
<1>2. UNCHANGED <<status, parent, run, task, handle, rep>>
  BY DEF OwnerAsks, rows, live, reporting
<1>3. t \in Children => run[t] >= 1
  BY DEF OwnerAsks, RunsOK, Numbered
<1> HIDE DEF o
<1>4. TypeOK'
  <2>1. op' \in [Actors -> OpType]
    BY <1>0, <1>1
  <2> QED
    BY <2>1 DEF OwnerAsks, TypeOK, rows, live, reporting, driver, outside, history
<1>5. CallsOK' /\ RunsOK'
  <2>1. o.pc \notin AtChild /\ Owner \in Actors
    BY <1>1 DEF AtChild, Starting
  <2>2. \A c \in o.ids : c \in Children => run[c] >= 1
    BY <1>1, <1>3
  <2>3. o \in OpType /\ o.pc = "ask" /\ op' = [op EXCEPT ![Owner] = o]
    BY <1>1
  <2> QED BY <1>0, <1>2, <2>1, <2>2, <2>3, OtherCall
<1> QED BY <1>4, <1>5

\* The owner's question goes on to the children of an agent that does not run.
LEMMA StepOwnerAsksNext ==
    ASSUME IInv, NEW c \in Agents, OwnerAsksNext(c)
    PROVE  IInv'
<1> USE DEF IInv
<1> DEFINE more == (op[Owner].ids \ {c}) \cup {d \in Children : parent[d] = c}
           o == IF status[c] = "running" THEN Ready ELSE [op[Owner] EXCEPT !.ids = more]
<1>0. op \in [Actors -> OpType] /\ status \in [Agents -> Statuses]
  BY DEF TypeOK
<1>1. op[Owner] \in OpType /\ op[Owner].pc = "ask"
  BY <1>0 DEF OwnerAsksNext
<1>2. op' = [op EXCEPT ![Owner] = o]
  <2>1. CASE status[c] = "running"
    BY <2>1 DEF OwnerAsksNext
  <2>2. CASE status[c] # "running"
    BY <1>0, <2>2 DEF OwnerAsksNext
  <2> QED BY <2>1, <2>2
<1>3. more \subseteq Agents /\ \A d \in more : d \in Children => run[d] >= 1
  BY <1>1 DEF CallsOK, CallOK, RunsOK, Numbered
<1>4. /\ o \in OpType /\ o.pc \in {"ready", "ask"}
      /\ \A d \in o.ids : d \in Children => run[d] >= 1
  <2> HIDE DEF more
  <2> QED BY <1>1, <1>3 DEF Ready
<1> HIDE DEF o
<1>5. TypeOK'
  <2>1. op' \in [Actors -> OpType]
    BY <1>0, <1>2, <1>4
  <2> QED
    BY <2>1 DEF OwnerAsksNext, TypeOK, rows, live, reporting, driver, outside, history
<1>6. CallsOK' /\ RunsOK'
  <2>1. UNCHANGED <<status, parent, run, task, handle, rep>>
    BY DEF OwnerAsksNext, rows, live, reporting
  <2>2. o.pc \notin AtChild
    BY <1>4 DEF AtChild, Starting
  <2> QED BY <1>0, <1>2, <1>4, <2>1, <2>2, OtherCall
<1> QED BY <1>5, <1>6

\* A mark closes a row and leaves the runs alone.
LEMMA StepCloseMarks ==
    ASSUME IInv, NEW x \in Actors, NEW c \in Agents, CloseMarks(x, c)
    PROVE  IInv'
<1> USE DEF IInv, CloseMarks
<1>0. /\ op \in [Actors -> OpType]
      /\ status \in [Agents -> Statuses]
      /\ parent \in [Children -> Agents \cup {None}]
      /\ run \in [Children -> 0..MaxRuns]
      /\ task \in [Children -> {"none", "run", "aborting"}]
      /\ handle \in [Children -> BOOLEAN]
      /\ rep \in [Notices -> RepPcs]
      /\ copy \in [Children -> {"none", "worktree", "snapshot"}]
  BY DEF TypeOK
<1>1. TypeOK'
  <2>1. op' \in [Actors -> OpType]
    BY <1>0
  <2>2. status' \in [Agents -> Statuses]
    BY <1>0
  <2> QED
    BY <2>1, <2>2 DEF TypeOK, live, reporting, driver, outside, history
<1>2. CallsOK' /\ RunsOK'
  <2>1. \A d \in op[x].ids : d \in Children => run[d] >= 1
    BY DEF CallsOK, CallOK
  <2>2. PICK o \in OpType : /\ op' = [op EXCEPT ![x] = o]
                            /\ o.pc \in {"mark", "halt"}
                            /\ o.ids \subseteq op[x].ids
    <3>1. op'[x] \in OpType
      BY <1>0, <1>1 DEF TypeOK
    <3>2. op' = [op EXCEPT ![x] = op'[x]]
      BY <1>0
    <3>3. op'[x].pc \in {"mark", "halt"} /\ op'[x].ids \subseteq op[x].ids
      BY <1>0
    <3> QED BY <3>1, <3>2, <3>3
  <2>3. \A d \in Children : \/ status'[d] = status[d]
                            \/ status'[d] = "closed" /\ run[d] >= 1
    BY <1>0, <2>1
  <2>4. status' \in [Agents -> Statuses]
    BY <1>1 DEF TypeOK
  <2> QED
    BY <1>0, <2>1, <2>2, <2>3, <2>4, OtherCall DEF AtChild, Starting, live, reporting
<1> QED BY <1>1, <1>2

\* The handle close_tree takes is that of a run that was started.
LEMMA StepCloseHalts ==
    ASSUME IInv, NEW x \in Actors, CloseHalts(x)
    PROVE  IInv'
<1> USE DEF IInv, CloseHalts
<1>0. /\ op \in [Actors -> OpType]
      /\ stop \in [Agents -> BOOLEAN]
      /\ claim \in [Children -> 0..MaxRuns]
      /\ handle \in [Children -> BOOLEAN]
      /\ status \in [Agents -> Statuses]
      /\ parent \in [Children -> Agents \cup {None}]
      /\ run \in [Children -> 0..MaxRuns]
      /\ task \in [Children -> {"none", "run", "aborting"}]
      /\ rep \in [Notices -> RepPcs]
  BY DEF TypeOK
<1>1. TypeOK'
  <2>1. op' \in [Actors -> OpType]
    <3>1. CASE op[x].child \in Children /\ handle[op[x].child]
      <4>1. <<op[x].child, run[op[x].child]>> \in Notices
        BY <1>0, <3>1 DEF RunsOK, Numbered, Notices, Runs
      <4> QED BY <1>0, <3>1, <4>1
    <3>2. CASE op[x].child \in Children /\ ~handle[op[x].child]
      BY <1>0, <3>2
    <3>3. CASE op[x].child \notin Children
      BY <1>0, <3>3, CallAdvances
    <3> QED BY <3>1, <3>2, <3>3
  <2>2. stop' \in [Agents -> BOOLEAN]
    BY <1>0
  <2>3. claim' \in [Children -> 0..MaxRuns]
    BY <1>0
  <2>4. handle' \in [Children -> BOOLEAN]
    BY <1>0
  <2> QED
    BY <2>1, <2>2, <2>3, <2>4 DEF TypeOK, rows, reporting, driver, history
<1>2. CallsOK'
  BY <1>0, SMTT(30) DEF CallsOK, CallOK, AtChild, Starting, rows, reporting
<1>3. RunsOK'
  BY <1>0 DEF CallsOK, CallOK, RunsOK, Numbered, OneRun, Vacant, Pending, AtChild,
     Starting, Runs, Notices, rows, reporting
<1> QED BY <1>1, <1>2, <1>3

\* The parent's inbox forgets the closed child.
LEMMA StepCloseDrops ==
    ASSUME IInv, NEW x \in Actors, CloseDrops(x)
    PROVE  IInv'
<1> USE DEF IInv, CloseDrops
<1>0. /\ op \in [Actors -> OpType]
      /\ inbox \in [Agents -> SUBSET Notices]
  BY DEF TypeOK
<1>1. TypeOK'
  <2>1. op' \in [Actors -> OpType]
    BY <1>0
  <2>2. inbox' \in [Agents -> SUBSET Notices]
    BY <1>0
  <2> QED
    BY <2>1, <2>2 DEF TypeOK, rows, live, reporting, driver, outside, history
<1>2. CallsOK'
  BY <1>0 DEF CallsOK, CallOK, AtChild, Starting, rows, live, reporting
<1>3. RunsOK'
  BY <1>0 DEF CallsOK, CallOK, RunsOK, Numbered, OneRun, Vacant, Pending, AtChild,
     Starting, Runs, Notices, rows, live, reporting
<1> QED BY <1>1, <1>2, <1>3

\* A run that close_tree waited for has returned.
LEMMA StepCloseJoins ==
    ASSUME IInv, NEW x \in Actors, NEW r \in op[x].got, CloseJoins(x, r)
    PROVE  IInv'
<1> USE DEF IInv, CloseJoins, Marked
<1>0. /\ op \in [Actors -> OpType]
  BY DEF TypeOK
<1>1. TypeOK'
  <2>1. op' \in [Actors -> OpType]
    BY <1>0
  <2> QED
    BY <2>1 DEF TypeOK, rows, live, reporting, driver, outside, history
<1>2. CallsOK'
  BY <1>0 DEF CallsOK, CallOK, AtChild, Starting, rows, live, reporting
<1>3. RunsOK'
  BY <1>0 DEF CallsOK, CallOK, RunsOK, Numbered, OneRun, Vacant, Pending, AtChild,
     Starting, Runs, Notices, rows, live, reporting
<1> QED BY <1>1, <1>2, <1>3

\* An abort leaves the task there until its next await.
LEMMA StepCloseAborts ==
    ASSUME IInv, NEW x \in Actors, CloseAborts(x)
    PROVE  IInv'
<1> USE DEF IInv, CloseAborts, Marked
<1>0. /\ op \in [Actors -> OpType]
      /\ task \in [Children -> {"none", "run", "aborting"}]
  BY DEF TypeOK
<1>1. TypeOK'
  <2>1. op' \in [Actors -> OpType]
    BY <1>0, SMTT(30)
  <2>2. task' \in [Children -> {"none", "run", "aborting"}]
    BY <1>0
  <2> QED
    BY <2>1, <2>2 DEF TypeOK, rows, reporting, driver, outside, history
<1>2. CallsOK'
  BY <1>0 DEF CallsOK, CallOK, AtChild, Starting, rows, reporting
<1>3. RunsOK'
  BY <1>0 DEF CallsOK, CallOK, RunsOK, Numbered, OneRun, Vacant, Pending, AtChild,
     Starting, Runs, Notices, rows, reporting
<1> QED BY <1>1, <1>2, <1>3

\* close_tree removes the copies and returns.
LEMMA StepCloseTidies ==
    ASSUME IInv, NEW x \in Actors, NEW kept, CloseTidies(x, kept)
    PROVE  IInv'
<1> USE DEF IInv, CloseTidies, Marked, Ready
<1>0. /\ op \in [Actors -> OpType]
      /\ disk \in [Children -> 0..MaxRuns]
  BY DEF TypeOK
<1>1. TypeOK'
  <2>1. op' \in [Actors -> OpType]
    BY <1>0
  <2>2. disk' \in [Children -> 0..MaxRuns]
    BY <1>0
  <2> QED
    BY <2>1, <2>2 DEF TypeOK, rows, live, reporting, driver, history
<1>2. CallsOK'
  BY <1>0 DEF CallsOK, CallOK, AtChild, Starting, rows, live, reporting
<1>3. RunsOK'
  BY <1>0 DEF CallsOK, CallOK, RunsOK, Numbered, OneRun, Vacant, Pending, AtChild,
     Starting, Runs, Notices, rows, live, reporting
<1> QED BY <1>1, <1>2, <1>3

\* deliver_inbox only moves notices.
LEMMA StepTakes ==
    ASSUME IInv, NEW a \in Agents, Takes(a)
    PROVE  IInv'
<1> USE DEF IInv, Takes
<1>0. /\ inbox \in [Agents -> SUBSET Notices]
      /\ heard \subseteq Notices /\ told \subseteq heard /\ refused \subseteq Notices
  BY DEF TypeOK
<1>1. TypeOK'
  <2>1. inbox' \in [Agents -> SUBSET Notices]
    BY <1>0
  <2>2. heard' \subseteq Notices /\ told' \subseteq heard' /\ refused' \subseteq Notices
    BY <1>0
  <2> QED
    BY <2>1, <2>2 DEF TypeOK, rows, live, reporting, driver, outside
<1>2. CallsOK' /\ RunsOK'
  BY Untouched DEF rows, live, reporting
<1> QED BY <1>1, <1>2

\* task_claim and task_done touch only the claims.
LEMMA StepClaims ==
    ASSUME IInv, NEW c \in Children, Claims(c)
    PROVE  IInv'
<1> USE DEF IInv, Claims
<1>0. /\ claim \in [Children -> 0..MaxRuns]
      /\ run \in [Children -> 0..MaxRuns]
  BY DEF TypeOK
<1>1. TypeOK'
  <2>1. claim' \in [Children -> 0..MaxRuns]
    BY <1>0, ZeroRuns
  <2> QED
    BY <2>1 DEF TypeOK, rows, live, reporting, driver, history
<1>2. CallsOK' /\ RunsOK'
  BY Untouched DEF rows, live, reporting
<1> QED BY <1>1, <1>2

\* The root's driver starts and ends no child.
LEMMA StepDriver ==
    ASSUME IInv, Driver
    PROVE  IInv'
<1> USE DEF IInv, Driver, RootEnds, RootRuns, RootReadsStore, RootReadsFinishing,
   RootLeaves
<1>0. /\ inbox \in [Agents -> SUBSET Notices]
      /\ root \in {"running", "idle", "quiet", "counted", "exit", "failed", "left"}
      /\ woken \subseteq SUBSET Notices
      /\ heard \subseteq Notices /\ told \subseteq heard /\ refused \subseteq Notices
  BY DEF TypeOK
<1>1. TypeOK'
  <2>1. inbox' \in [Agents -> SUBSET Notices]
    BY <1>0
  <2>2. root' \in {"running", "idle", "quiet", "counted", "exit", "failed", "left"}
    BY <1>0
  <2>3. woken' \subseteq SUBSET Notices
    BY <1>0
  <2>4. heard' \subseteq Notices /\ told' \subseteq heard' /\ refused' \subseteq Notices
    <3>1. UNCHANGED history \/ \E news \in woken : heard' = heard \cup news /\ UNCHANGED <<told, refused>>
      BY DEF history
    <3>2. CASE UNCHANGED history
      BY <1>0, <3>2 DEF history
    <3>3. CASE \E news \in woken : heard' = heard \cup news /\ UNCHANGED <<told, refused>>
      BY <1>0, <3>3
    <3> QED BY <3>1, <3>2, <3>3
  <2> QED
    BY <2>1, <2>2, <2>3, <2>4 DEF TypeOK, rows, live, reporting, driver, outside,
       history
<1>2. CallsOK' /\ RunsOK'
  BY Untouched DEF rows, live, reporting
<1> QED BY <1>1, <1>2

\* Every step of a report keeps the inductive invariant.
LEMMA StepReport ==
    ASSUME IInv, NEW x \in Notices, Report(x)
    PROVE  IInv'
  BY StepReportClears, StepReportRecords, StepReportRefused, StepReportReleases,
     StepReportUnrecorded,
     StepReportDiscards, StepReportNotifies, StepReportWakes, StepReportSends,
     StepReportDone
  DEF Report

\* Every step of a call but close_tree's keeps the inductive invariant.
LEMMA StepCall ==
    ASSUME IInv, NEW a \in Agents, Call(a)
    PROVE  IInv'
  BY StepSpawnRow, StepResumeReads, StepPlace, StepStartFails, StepStartResets,
     StepStartLaunches, StepResumeRow, StepWaitBegins, StepWaitReadsRows,
     StepWaitChecks, StepWaitForgets, StepTakes
  DEF Call

\* Every step of close_tree keeps the inductive invariant.
LEMMA StepClose ==
    ASSUME IInv, NEW x \in Actors, Close(x)
    PROVE  IInv'
  BY StepCloseMarks, StepCloseHalts, StepCloseDrops, StepCloseJoins, StepCloseAborts,
     StepCloseTidies
  DEF Close

\* Every step keeps the inductive invariant.
LEMMA NextIInv == IInv /\ [Next]_vars => IInv'
<1> SUFFICES ASSUME IInv, [Next]_vars PROVE IInv'
  OBVIOUS
<1>1. CASE \E a \in Agents : Call(a)
  BY <1>1, StepCall
<1>2. CASE \E x \in Actors : Close(x) \/ \E t \in Agents : CloseBegins(x, t)
  BY <1>2, StepClose, StepCloseBegins
<1>3. CASE \E c \in Children :
              \/ \E st \in {"idle", "failed"} : RunEnds(c, st)
              \/ TaskDies(c)
              \/ Claims(c)
  BY <1>3, StepRunEnds, StepTaskDies, StepClaims
<1>4. CASE \E x \in Notices : Report(x)
  BY <1>4, StepReport
<1>5. CASE Driver
  BY <1>5, StepDriver
<1>6. CASE \E t \in Agents : OwnerAsks(t) \/ OwnerAsksNext(t)
  BY <1>6, StepOwnerAsks, StepOwnerAsksNext
<1>7. CASE UNCHANGED vars
  <2>1. TypeOK'
    BY <1>7 DEF IInv, TypeOK, vars, rows, live, reporting, driver, outside, history
  <2>2. CallsOK' /\ RunsOK'
    BY <1>7, Untouched DEF IInv, vars, rows, live, reporting
  <2> QED BY <2>1, <2>2 DEF IInv
<1> QED BY <1>1, <1>2, <1>3, <1>4, <1>5, <1>6, <1>7 DEF Next

\* The inductive invariant holds in every state: who may start, run or record a child.
THEOREM Inductive == Spec => []IInv
  BY InitIInv, NextIInv, PTL DEF Spec

\* The variables keep their types: in particular no depth beyond max_depth and
\* no notice about a run that was never started.
THEOREM TypeCorrect == Spec => []TypeOK
<1>1. IInv => TypeOK
  BY DEF IInv
<1> QED BY Inductive, <1>1, PTL

-----------------------------------------------------------------------------
(* No agent is run twice at once *)

\* Only the parent of a child is about to start it.
LEMMA AtMostOneStarter ==
    ASSUME CallsOK, NEW c \in Children
    PROVE  Starters(c) \subseteq {parent[c]}
  BY DEF CallsOK, CallOK, Starters, AtChild, Starting

\* A subset of a singleton has at most one element.
LEMMA OneOrNone ==
    ASSUME NEW S, NEW e, S \subseteq {e}
    PROVE  Cardinality(S) \in {0, 1} /\ (S = {} => Cardinality(S) = 0)
<1>1. S = {} \/ S = {e}
  OBVIOUS
<1> QED BY <1>1, FS_EmptySet, FS_Singleton

\* The inductive invariant leaves at most one runner per agent.
LEMMA OneRunner == IInv => SingleRun
<1> SUFFICES ASSUME IInv, NEW c \in Children PROVE Runners(c) <= 1
  BY DEF SingleRun
<1>1. OneRun(c) /\ \A a \in Agents : Vacant(a)
  BY DEF IInv, RunsOK
<1>2. /\ Cardinality(Starters(c)) \in {0, 1}
      /\ Starters(c) = {} => Cardinality(Starters(c)) = 0
  BY AtMostOneStarter, OneOrNone DEF IInv
<1>3. PICK n : Unrecorded(c) \subseteq {n}
  BY <1>1 DEF OneRun, Unrecorded, Pending
<1>4. /\ Cardinality(Unrecorded(c)) \in {0, 1}
      /\ Unrecorded(c) = {} => Cardinality(Unrecorded(c)) = 0
  BY <1>3, OneOrNone
<1>5. CASE Starters(c) # {}
  <2>1. task[c] = "none" /\ Unrecorded(c) = {}
    BY <1>1, <1>5 DEF Starters, Unrecorded, Vacant, Pending, AtChild, Starting
  <2> QED BY <1>2, <1>4, <2>1 DEF Runners
<1>6. CASE Starters(c) = {} /\ task[c] # "none"
  <2>1. Unrecorded(c) = {}
    BY <1>1, <1>6 DEF OneRun, Unrecorded, Pending
  <2> QED BY <1>2, <1>4, <1>6, <2>1 DEF Runners
<1>7. CASE Starters(c) = {} /\ task[c] = "none"
  BY <1>2, <1>4, <1>7 DEF Runners
<1> QED BY <1>5, <1>6, <1>7

\* An agent is never run twice at once: resume reads the row before it takes
\* spawn_lock, and the proof shows that this is safe because only the parent
\* starts the child and a recorded end means that no run of it is left.
THEOREM RunsOnce == Spec => []SingleRun
  BY Inductive, OneRunner, PTL

-----------------------------------------------------------------------------
(* The limit on running children *)

\* The running children are finitely many, so they can be counted.
LEMMA RunningFinite ==
    ASSUME NEW p
    PROVE  IsFiniteSet(RunningChildren(p)) /\ Cardinality(RunningChildren(p)) \in Nat
<1>1. RunningChildren(p) \subseteq Children
  BY DEF RunningChildren
<1>2. IsFiniteSet(RunningChildren(p))
  BY <1>1, FS_Subset
<1> QED BY <1>2, FS_CardinalityType

\* A step after which no more children run than before.
LEMMA NoneStarted ==
    ASSUME ChildrenWithinLimit, UNCHANGED parent,
           \A c \in Children : status'[c] = "running" => status[c] = "running"
    PROVE  ChildrenWithinLimit'
<1> SUFFICES ASSUME NEW p \in Agents
             PROVE  Cardinality(RunningChildren(p)') <= MaxChildren
  BY DEF ChildrenWithinLimit
<1>1. RunningChildren(p)' \subseteq RunningChildren(p)
  BY DEF RunningChildren
<1>2. Cardinality(RunningChildren(p)') <= Cardinality(RunningChildren(p))
  BY <1>1, RunningFinite, FS_Subset
<1>3. /\ Cardinality(RunningChildren(p)) <= MaxChildren
      /\ Cardinality(RunningChildren(p)) \in Nat
  BY RunningFinite DEF ChildrenWithinLimit
<1>4. Cardinality(RunningChildren(p)') \in Nat
  BY <1>1, RunningFinite, FS_Subset, FS_CardinalityType
<1> QED BY <1>2, <1>3, <1>4

\* A step that makes one child of a run, a having a slot left.
LEMMA OneStarted ==
    ASSUME ChildrenWithinLimit, NEW a \in Agents, CheckCanRun(a),
           NEW c \in Children, parent'[c] = a,
           \A d \in Children \ {c} : parent'[d] = parent[d] /\ status'[d] = status[d]
    PROVE  ChildrenWithinLimit'
<1> SUFFICES ASSUME NEW p \in Agents
             PROVE  Cardinality(RunningChildren(p)') <= MaxChildren
  BY DEF ChildrenWithinLimit
<1>0. /\ Cardinality(RunningChildren(p)) <= MaxChildren
      /\ Cardinality(RunningChildren(p)) \in Nat
      /\ IsFiniteSet(RunningChildren(p))
  BY RunningFinite DEF ChildrenWithinLimit
<1>1. CASE p # a
  <2>1. RunningChildren(p)' \subseteq RunningChildren(p)
    BY <1>1 DEF RunningChildren
  <2>2. Cardinality(RunningChildren(p)') <= Cardinality(RunningChildren(p))
    BY <1>0, <2>1, FS_Subset
  <2>3. Cardinality(RunningChildren(p)') \in Nat
    BY <1>0, <2>1, FS_Subset, FS_CardinalityType
  <2> QED BY <1>0, <2>2, <2>3
<1>2. CASE p = a
  <2> DEFINE R == RunningChildren(a) \cup {c}
  <2>1. RunningChildren(p)' \subseteq R
    BY <1>2 DEF RunningChildren
  <2>2. /\ IsFiniteSet(R) /\ Cardinality(R) \in Nat
        /\ Cardinality(R) <= Cardinality(RunningChildren(a)) + 1
    <3>1. /\ IsFiniteSet(R)
          /\ \/ Cardinality(R) = Cardinality(RunningChildren(a))
             \/ Cardinality(R) = Cardinality(RunningChildren(a)) + 1
      BY <1>0, <1>2, FS_AddElement
    <3> HIDE DEF R
    <3> QED BY <1>0, <1>2, <3>1
  <2>3. Cardinality(RunningChildren(p)') <= Cardinality(R)
    BY <2>1, <2>2, FS_Subset
  <2>4. Cardinality(RunningChildren(p)') \in Nat
    BY <2>1, <2>2, FS_Subset, FS_CardinalityType
  <2>5. Cardinality(RunningChildren(a)) < MaxChildren
    BY DEF CheckCanRun
  <2> HIDE DEF R
  <2> QED BY <1>0, <1>2, <2>2, <2>3, <2>4, <2>5
<1> QED BY <1>1, <1>2

\* spawn counts before it inserts, under the same lock.
LEMMA StepSpawnLimit ==
    ASSUME IInv, ChildrenWithinLimit, NEW a \in Agents, NEW c \in Children,
           SpawnRow(a, c)
    PROVE  ChildrenWithinLimit'
<1>1. status \in [Agents -> Statuses] /\ parent \in [Children -> Agents \cup {None}]
  BY DEF IInv, TypeOK
<1>2. CheckCanRun(a) /\ parent'[c] = a
  BY <1>1 DEF SpawnRow, InsertRow
<1>3. \A d \in Children \ {c} : parent'[d] = parent[d] /\ status'[d] = status[d]
  BY <1>1 DEF SpawnRow, InsertRow
<1> QED BY <1>2, <1>3, OneStarted

\* resume counts before it sets the row running, under the same lock.
LEMMA StepResumeLimit ==
    ASSUME IInv, ChildrenWithinLimit, NEW a \in Agents, ResumeRow(a)
    PROVE  ChildrenWithinLimit'
<1>1. status \in [Agents -> Statuses]
  BY DEF IInv, TypeOK
<1>2. CASE CheckCanRun(a) /\ Rerun(a, op[a].child)
  <2>1. op[a].child \in Children /\ parent[op[a].child] = a
    BY DEF ResumeRow, IInv, CallsOK, CallOK, AtChild
  <2>2. parent' = parent
    BY <1>2 DEF Rerun
  <2>3. \A d \in Children \ {op[a].child} : status'[d] = status[d]
    BY <1>1, <1>2 DEF Rerun
  <2> QED BY <1>2, <2>1, <2>2, <2>3, OneStarted
<1>3. CASE UNCHANGED rows
  BY <1>3, NoneStarted DEF rows
<1> QED BY <1>2, <1>3 DEF ResumeRow

\* No other step of a call makes a child run.
LEMMA StepCallLimit ==
    ASSUME IInv, ChildrenWithinLimit, NEW a \in Agents, Call(a)
    PROVE  ChildrenWithinLimit'
<1>1. CASE \E c \in Children : SpawnRow(a, c)
  BY <1>1, StepSpawnLimit
<1>2. CASE ResumeRow(a)
  BY <1>2, StepResumeLimit
<1>3. CASE StartFails(a)
  <2>1. status \in [Agents -> Statuses]
    BY DEF IInv, TypeOK
  <2>2. \A c \in Children : status'[c] = "running" => status[c] = "running"
    BY <1>3, <2>1 DEF StartFails, FinishRow
  <2> QED BY <1>3, <2>2, NoneStarted DEF StartFails
<1>4. CASE UNCHANGED rows
  BY <1>4, NoneStarted DEF rows
<1>5. \/ \E c \in Children : SpawnRow(a, c)
      \/ ResumeRow(a) \/ StartFails(a) \/ UNCHANGED rows
  BY DEF Call, ResumeReads, Place, StartResets, StartLaunches, WaitBegins,
         WaitReadsRows, WaitChecks, WaitForgets, Takes
<1> QED BY <1>1, <1>2, <1>3, <1>4, <1>5

\* close_tree makes no child run.
LEMMA StepCloseLimit ==
    ASSUME IInv, ChildrenWithinLimit, NEW x \in Actors,
           Close(x) \/ \E t \in Agents : CloseBegins(x, t)
    PROVE  ChildrenWithinLimit'
<1>1. CASE \E c \in Agents : CloseMarks(x, c)
  <2>1. status \in [Agents -> Statuses]
    BY DEF IInv, TypeOK
  <2>2. \A d \in Children : status'[d] = "running" => status[d] = "running"
    BY <1>1, <2>1 DEF CloseMarks
  <2> QED BY <1>1, <2>2, NoneStarted DEF CloseMarks
<1>2. CASE UNCHANGED rows
  BY <1>2, NoneStarted DEF rows
<1>3. (\E c \in Agents : CloseMarks(x, c)) \/ UNCHANGED rows
  BY DEF Close, CloseBegins, CloseHalts, CloseDrops, CloseJoins, CloseAborts,
     CloseTidies
<1> QED BY <1>1, <1>2, <1>3

\* A report ends a run and starts none.
LEMMA StepReportLimit ==
    ASSUME IInv, ChildrenWithinLimit, NEW x \in Notices, Report(x)
    PROVE  ChildrenWithinLimit'
<1>1. CASE ReportRecords(x)
  <2>1. /\ status \in [Agents -> Statuses]
        /\ out \in [Notices -> {"none", "idle", "failed"}]
    BY DEF IInv, TypeOK
  <2>2. \A c \in Children : status'[c] = "running" => status[c] = "running"
    BY <1>1, <2>1 DEF ReportRecords, FinishRow
  <2> QED BY <1>1, <2>2, NoneStarted DEF ReportRecords
<1>2. CASE UNCHANGED rows
  BY <1>2, NoneStarted DEF rows
<1>3. ReportRecords(x) \/ UNCHANGED rows
  BY DEF Report, ReportClears, ReportRefused, ReportReleases, ReportUnrecorded,
         ReportDiscards,
         ReportNotifies, ReportWakes, ReportSends, ReportDone
<1> QED BY <1>1, <1>2, <1>3

\* Every step keeps the limit on running children.
LEMMA NextLimit == IInv /\ ChildrenWithinLimit /\ [Next]_vars => ChildrenWithinLimit'
<1> SUFFICES ASSUME IInv, ChildrenWithinLimit, [Next]_vars PROVE ChildrenWithinLimit'
  OBVIOUS
<1>1. CASE \E a \in Agents : Call(a)
  BY <1>1, StepCallLimit
<1>2. CASE \E x \in Actors : Close(x) \/ \E t \in Agents : CloseBegins(x, t)
  BY <1>2, StepCloseLimit
<1>3. CASE \E x \in Notices : Report(x)
  BY <1>3, StepReportLimit
<1>4. CASE UNCHANGED rows
  BY <1>4, NoneStarted DEF rows
<1>5. CASE \/ \E c \in Children :
                \/ \E st \in {"idle", "failed"} : RunEnds(c, st)
                \/ TaskDies(c)
                \/ Claims(c)
           \/ \E t \in Agents : OwnerAsks(t) \/ OwnerAsksNext(t)
           \/ Driver
           \/ UNCHANGED vars
  <2>1. UNCHANGED rows
    BY <1>5 DEF OwnerAsks, OwnerAsksNext, RunEnds, TaskDies, Claims, Driver, RootEnds,
       RootRuns, RootReadsStore,
                RootReadsFinishing, RootLeaves, vars
  <2> QED BY <1>4, <2>1
<1> QED BY <1>1, <1>2, <1>3, <1>5 DEF Next

\* Nothing runs at first.
LEMMA InitLimit == Init => ChildrenWithinLimit
<1> SUFFICES ASSUME Init, NEW p \in Agents
             PROVE  Cardinality(RunningChildren(p)) <= MaxChildren
  BY DEF ChildrenWithinLimit
<1>1. RunningChildren(p) = {}
  BY DEF Init, RunningChildren
<1> QED BY <1>1, FS_EmptySet

\* No agent ever has more than max_children children running, however its spawns
\* and resumes interleave with ends, closes and late reports.
THEOREM RunningLimit == Spec => []ChildrenWithinLimit
  BY Inductive, InitLimit, NextLimit, PTL DEF Spec

-----------------------------------------------------------------------------
(* A report records only over its own run *)

\* The only step that takes a report past recording is ReportRecords.
LEMMA RecordedBy ==
    ASSUME TypeOK, [Next]_vars, NEW x \in Notices, rep[x] = "record",
           rep'[x] \in {"release", "discard", "notice"}
    PROVE  ReportRecords(x)
<1>0. rep \in [Notices -> RepPcs]
  BY DEF TypeOK
<1>1. ~UNCHANGED rep
  OBVIOUS
<1>2. CASE \E y \in Notices : Report(y)
  <2>1. PICK y \in Notices : Report(y)
    BY <1>2
  <2>2. x = y
    BY <1>0, <1>1, <2>1 DEF Report, ReportClears, ReportRecords, ReportRefused, ReportReleases,
       ReportUnrecorded, ReportDiscards, ReportNotifies, ReportWakes, ReportSends,
       ReportDone, Goto
  <2>3. ~ReportRefused(x)
    BY <1>0 DEF ReportRefused, Goto
  <2> QED
    BY <2>1, <2>2, <2>3 DEF Report, ReportClears, ReportReleases, ReportUnrecorded,
       ReportDiscards, ReportNotifies, ReportWakes, ReportSends, ReportDone
<1>3. CASE \E c \in Children, st \in {"idle", "failed"} : RunEnds(c, st)
  <2>1. PICK c \in Children, st \in {"idle", "failed"} : RunEnds(c, st)
    BY <1>3
  <2>2. rep'[x] = IF x = <<c, run[c]>> THEN "clear" ELSE rep[x]
    BY <1>0, <2>1 DEF RunEnds
  <2> QED BY <2>2
<1>4. UNCHANGED rep
      \/ (\E y \in Notices : Report(y))
      \/ (\E c \in Children, st \in {"idle", "failed"} : RunEnds(c, st))
  <2>1. ASSUME NEW a \in Agents, Call(a) PROVE UNCHANGED rep
    BY <2>1 DEF Call, SpawnRow, InsertRow, ResumeReads, ResumeRow, Rerun, Place,
       StartFails, StartResets, StartLaunches, WaitBegins, WaitReadsRows, WaitChecks,
       WaitForgets, Takes, reporting
  <2>2. ASSUME NEW y \in Actors, Close(y) \/ \E t \in Agents : CloseBegins(y, t)
        PROVE  UNCHANGED rep
    BY <2>2 DEF Close, CloseBegins, CloseMarks, CloseHalts, CloseDrops, CloseJoins,
       CloseAborts, CloseTidies, reporting
  <2>3. ASSUME NEW c \in Children, TaskDies(c) \/ Claims(c) PROVE UNCHANGED rep
    BY <2>3 DEF TaskDies, Claims, reporting
  <2>4. Driver => UNCHANGED rep
    BY DEF Driver, RootEnds, RootRuns, RootReadsStore, RootReadsFinishing, RootLeaves,
       reporting
  <2>5. UNCHANGED vars => UNCHANGED rep
    BY DEF vars, reporting
  <2>6. ASSUME NEW t \in Agents, OwnerAsks(t) \/ OwnerAsksNext(t) PROVE UNCHANGED rep
    BY <2>6 DEF OwnerAsks, OwnerAsksNext, reporting
  <2> QED BY <2>1, <2>2, <2>3, <2>4, <2>5, <2>6 DEF Next
<1> QED BY <1>1, <1>2, <1>3, <1>4

\* A report that is about to record is that of the row's last run.
LEMMA RecordsOwn ==
    ASSUME IInv, [Next]_vars, NEW x \in Notices, rep[x] = "record",
           rep'[x] \in {"release", "discard", "notice"}
    PROVE  status[x[1]] = "running" /\ run[x[1]] = x[2]
<1>0. rep \in [Notices -> RepPcs]
  BY DEF IInv, TypeOK
<1>1. ReportRecords(x)
  BY RecordedBy DEF IInv
<1>2. status[x[1]] # "closed"
  BY <1>0, <1>1 DEF ReportRecords, Goto
<1>3. x[1] \in Children /\ x[2] \in Runs /\ x = <<x[1], x[2]>>
  BY DEF Notices
<1>4. Pending(x[1], x[2])
  BY <1>3 DEF Pending
<1> QED BY <1>2, <1>3, <1>4 DEF IInv, RunsOK, OneRun

\* An end is recorded only over the row of its own run: a late report never
\* overwrites the row of an agent that was resumed meanwhile.
THEOREM ReportsOwnRun == Spec => RecordsOwnRun
<1>1. IInv /\ [Next]_vars =>
        [\A x \in Notices :
           rep[x] = "record" /\ rep'[x] \in {"release", "discard", "notice"} =>
               status[x[1]] = "running" /\ run[x[1]] = x[2]]_vars
  BY RecordsOwn
<1> QED BY Inductive, <1>1, PTL DEF Spec, RecordsOwnRun

-----------------------------------------------------------------------------
(* Which steps change which variables *)

\* What a call of an agent leaves alone, and which of its steps change the rest.
LEMMA CallFrame ==
    ASSUME NEW a \in Agents, Call(a)
    PROVE  /\ UNCHANGED <<rep, out, hand, refused, root, woken>>
           /\ \/ UNCHANGED <<status, parent, run, revived>>
              \/ \E c \in Children : SpawnRow(a, c)
              \/ StartFails(a)
              \/ op[a].pc = "resume" /\ Rerun(a, op[a].child)
           /\ UNCHANGED task \/ StartLaunches(a)
           /\ UNCHANGED inbox \/ WaitForgets(a) \/ Takes(a)
           /\ UNCHANGED <<copy, disk>> \/ \E made \in BOOLEAN : Place(a, made)
           /\ \/ UNCHANGED <<heard, told>>
              \/ op[a].pc = "resume" /\ Rerun(a, op[a].child)
              \/ StartFails(a) \/ WaitChecks(a) \/ Takes(a)
<1> USE DEF rows, live, reporting, driver, outside, history
<1>1. CASE \E c \in Children : SpawnRow(a, c)
  BY <1>1 DEF SpawnRow, InsertRow
<1>2. CASE \E c \in Children : ResumeReads(a, c)
  BY <1>2 DEF ResumeReads
<1>3. CASE \E made \in BOOLEAN : Place(a, made)
  BY <1>3 DEF Place
<1>4. CASE StartFails(a)
  BY <1>4 DEF StartFails
<1>5. CASE StartResets(a)
  BY <1>5 DEF StartResets
<1>6. CASE StartLaunches(a)
  BY <1>6 DEF StartLaunches
<1>7. CASE ResumeRow(a)
  BY <1>7 DEF ResumeRow, Rerun
<1>8. CASE \E ids \in SUBSET Children : WaitBegins(a, ids)
  BY <1>8 DEF WaitBegins
<1>9. CASE WaitReadsRows(a)
  BY <1>9 DEF WaitReadsRows
<1>10. CASE WaitChecks(a)
  BY <1>10 DEF WaitChecks
<1>11. CASE WaitForgets(a)
  BY <1>11 DEF WaitForgets
<1>12. CASE Takes(a)
  BY <1>12 DEF Takes
<1> QED BY <1>1, <1>2, <1>3, <1>4, <1>5, <1>6, <1>7, <1>8, <1>9, <1>10, <1>11, <1>12 DEF Call

\* What a close leaves alone, and which of its steps change the rest.
LEMMA CloseFrame ==
    ASSUME NEW x \in Actors, Close(x) \/ \E t \in Agents : CloseBegins(x, t)
    PROVE  /\ UNCHANGED <<rep, out, hand, heard, told, refused, woken, copy, parent, run, revived>>
           /\ UNCHANGED status \/ \E c \in Agents : CloseMarks(x, c)
           /\ UNCHANGED task \/ CloseAborts(x)
           /\ UNCHANGED inbox \/ CloseDrops(x)
           /\ UNCHANGED disk \/ \E kept \in SUBSET op[x].tidy : CloseTidies(x, kept)
           /\ UNCHANGED root \/ \E t \in Agents : CloseBegins(x, t)
<1> USE DEF rows, live, reporting, driver, outside, history
<1>1. CASE \E c \in Agents : CloseMarks(x, c)
  BY <1>1 DEF CloseMarks
<1>2. CASE CloseHalts(x)
  BY <1>2 DEF CloseHalts
<1>3. CASE CloseDrops(x)
  BY <1>3 DEF CloseDrops
<1>4. CASE \E r \in op[x].got : CloseJoins(x, r)
  BY <1>4 DEF CloseJoins
<1>5. CASE CloseAborts(x)
  BY <1>5 DEF CloseAborts
<1>6. CASE \E kept \in SUBSET op[x].tidy : CloseTidies(x, kept)
  BY <1>6 DEF CloseTidies
<1>7. CASE \E t \in Agents : CloseBegins(x, t)
  BY <1>7 DEF CloseBegins
<1> QED BY <1>1, <1>2, <1>3, <1>4, <1>5, <1>6, <1>7 DEF Close

\* What a report leaves alone, and which of its steps change the rest.
LEMMA ReportFrame ==
    ASSUME NEW x \in Notices, Report(x)
    PROVE  /\ UNCHANGED <<parent, run, task, op, root, heard, told, copy, revived>>
           /\ UNCHANGED status \/ ReportRecords(x)
           /\ \/ UNCHANGED <<inbox, hand, woken>>
              \/ ReportNotifies(x) \/ ReportWakes(x) \/ ReportSends(x)
           /\ UNCHANGED refused \/ ReportRefused(x)
           /\ UNCHANGED disk \/ ReportDiscards(x)
<1> USE DEF rows, live, reporting, driver, outside, history
<1>1. CASE ReportClears(x)
  BY <1>1 DEF ReportClears
<1>2. CASE ReportRecords(x)
  BY <1>2 DEF ReportRecords, FinishRow
<1>3. CASE ReportRefused(x)
  BY <1>3 DEF ReportRefused
<1>4. CASE ReportReleases(x)
  BY <1>4 DEF ReportReleases
<1>5. CASE ReportUnrecorded(x)
  BY <1>5 DEF ReportUnrecorded
<1>6. CASE ReportDiscards(x)
  BY <1>6 DEF ReportDiscards
<1>7. CASE ReportNotifies(x)
  BY <1>7 DEF ReportNotifies
<1>8. CASE ReportWakes(x)
  BY <1>8 DEF ReportWakes
<1>9. CASE ReportSends(x)
  BY <1>9 DEF ReportSends
<1>10. CASE ReportDone(x)
  BY <1>10 DEF ReportDone
<1> QED BY <1>1, <1>2, <1>3, <1>4, <1>5, <1>6, <1>7, <1>8, <1>9, <1>10 DEF Report

\* The owner's questions change his own call only.
LEMMA AskFrame ==
    ASSUME NEW t \in Agents, OwnerAsks(t) \/ OwnerAsksNext(t)
    PROVE  UNCHANGED <<rep, out, hand, heard, told, refused, woken, copy, disk, status, parent,
                       run, revived, task, inbox, root>>
<1> USE DEF rows, live, reporting, driver, outside, history
<1>1. CASE OwnerAsks(t)
  BY <1>1 DEF OwnerAsks
<1>2. CASE OwnerAsksNext(t)
  BY <1>2 DEF OwnerAsksNext
<1> QED BY <1>1, <1>2

\* The end or death of a run, and a claim, leave alone what the calls and reports change.
LEMMA TaskFrame ==
    ASSUME NEW c \in Children,
           (\E st \in {"idle", "failed"} : RunEnds(c, st)) \/ TaskDies(c) \/ Claims(c)
    PROVE  /\ UNCHANGED <<hand, heard, told, refused, woken, copy, disk, status, parent, run,
                          revived, inbox, root>>
           /\ UNCHANGED <<rep, out>> \/ \E st \in {"idle", "failed"} : RunEnds(c, st)
           /\ UNCHANGED op \/ TaskDies(c)
           /\ \/ UNCHANGED task
              \/ \E st \in {"idle", "failed"} : RunEnds(c, st)
              \/ TaskDies(c)
<1> USE DEF rows, live, reporting, driver, outside, history
<1>1. CASE \E st \in {"idle", "failed"} : RunEnds(c, st)
  BY <1>1 DEF RunEnds
<1>2. CASE TaskDies(c)
  BY <1>2 DEF TaskDies
<1>3. CASE Claims(c)
  BY <1>3 DEF Claims
<1> QED BY <1>1, <1>2, <1>3

\* The root's driver touches its own state, the root's inbox and what the root has heard.
LEMMA DriverFrame ==
    ASSUME Driver
    PROVE  /\ UNCHANGED <<rep, out, hand, refused, told, copy, disk, status, parent, run, revived,
                          op, task>>
           /\ UNCHANGED <<inbox, woken>> \/ RootEnds \/ RootRuns
           /\ UNCHANGED heard \/ RootRuns
<1> USE DEF rows, live, reporting, driver, outside, history
<1>1. CASE RootEnds
  BY <1>1 DEF RootEnds
<1>2. CASE RootRuns
  BY <1>2 DEF RootRuns
<1>3. CASE RootReadsStore
  BY <1>3 DEF RootReadsStore
<1>4. CASE RootReadsFinishing
  BY <1>4 DEF RootReadsFinishing
<1>5. CASE RootLeaves
  BY <1>5 DEF RootLeaves
<1> QED BY <1>1, <1>2, <1>3, <1>4, <1>5 DEF Driver

\* A stuttering step changes nothing.
LEMMA StutterFrame ==
    ASSUME UNCHANGED vars
    PROVE  UNCHANGED <<rep, out, hand, heard, told, refused, woken, copy, disk, status, parent,
                       run, revived, task, inbox, root, op>>
  BY DEF vars, rows, live, reporting, driver, outside, history

\* The kinds of steps.
LEMMA Kinds ==
    ASSUME [Next]_vars
    PROVE  \/ \E a \in Agents : Call(a)
           \/ \E x \in Actors : Close(x) \/ \E t \in Agents : CloseBegins(x, t)
           \/ \E t \in Agents : OwnerAsks(t) \/ OwnerAsksNext(t)
           \/ \E c \in Children :
                 (\E st \in {"idle", "failed"} : RunEnds(c, st)) \/ TaskDies(c) \/ Claims(c)
           \/ \E x \in Notices : Report(x)
           \/ Driver
           \/ UNCHANGED vars
  BY DEF Next

\* The rows change at a spawn, a start that fails, a resume, the record of an end and
\* the mark of a close.
LEMMA RowSteps ==
    ASSUME [Next]_vars
    PROVE  \/ UNCHANGED <<status, parent, run, revived>>
           \/ \E a \in Agents, c \in Children : SpawnRow(a, c)
           \/ \E a \in Agents : StartFails(a)
           \/ \E a \in Agents : op[a].pc = "resume" /\ Rerun(a, op[a].child)
           \/ \E x \in Notices : ReportRecords(x)
           \/ \E x \in Actors, c \in Agents : CloseMarks(x, c)
  BY Kinds, CallFrame, CloseFrame, ReportFrame, AskFrame, TaskFrame, DriverFrame, StutterFrame

\* A task changes when it is launched, ends, dies, or is aborted.
LEMMA TaskSteps ==
    ASSUME [Next]_vars
    PROVE  \/ UNCHANGED task
           \/ \E a \in Agents : StartLaunches(a)
           \/ \E c \in Children, st \in {"idle", "failed"} : RunEnds(c, st)
           \/ \E c \in Children : TaskDies(c)
           \/ \E x \in Actors : CloseAborts(x)
  BY Kinds, CallFrame, CloseFrame, ReportFrame, AskFrame, TaskFrame, DriverFrame, StutterFrame

\* The inboxes change at a notice, a wake-up, a wait's return, a close, a delivery and
\* the end of the root's run.
LEMMA InboxSteps ==
    ASSUME [Next]_vars
    PROVE  \/ UNCHANGED <<inbox, hand, woken>>
           \/ \E x \in Notices : ReportNotifies(x) \/ ReportWakes(x) \/ ReportSends(x)
           \/ \E a \in Agents : WaitForgets(a) \/ Takes(a)
           \/ \E x \in Actors : CloseDrops(x)
           \/ RootEnds \/ RootRuns
  BY Kinds, CallFrame, CloseFrame, ReportFrame, AskFrame, TaskFrame, DriverFrame, StutterFrame

\* A report begins at the end of a run and goes on by itself.
LEMMA ReportSteps ==
    ASSUME [Next]_vars
    PROVE  \/ UNCHANGED <<rep, out, hand>>
           \/ \E c \in Children, st \in {"idle", "failed"} : RunEnds(c, st)
           \/ \E x \in Notices : Report(x)
  BY Kinds, CallFrame, CloseFrame, ReportFrame, AskFrame, TaskFrame, DriverFrame, StutterFrame

\* The calls change at their own steps, and when a caller's task dies.
LEMMA CallSteps ==
    ASSUME [Next]_vars
    PROVE  \/ UNCHANGED op
           \/ \E a \in Agents : Call(a)
           \/ \E x \in Actors : Close(x) \/ \E t \in Agents : CloseBegins(x, t)
           \/ \E t \in Agents : OwnerAsks(t) \/ OwnerAsksNext(t)
           \/ \E c \in Children : TaskDies(c)
  BY Kinds, CallFrame, CloseFrame, ReportFrame, AskFrame, TaskFrame, DriverFrame, StutterFrame

\* What the parents heard changes at a resume, a start that fails, a wait's return, a
\* delivery and a wake-up of the root.
LEMMA HeardSteps ==
    ASSUME [Next]_vars
    PROVE  \/ UNCHANGED <<heard, told>>
           \/ \E a \in Agents : op[a].pc = "resume" /\ Rerun(a, op[a].child)
           \/ \E a \in Agents : StartFails(a) \/ WaitChecks(a) \/ Takes(a)
           \/ RootRuns
  BY Kinds, CallFrame, CloseFrame, ReportFrame, AskFrame, TaskFrame, DriverFrame, StutterFrame

\* The store refuses the record of an end.
LEMMA RefusedSteps ==
    ASSUME [Next]_vars
    PROVE  UNCHANGED refused \/ \E x \in Notices : ReportRefused(x)
  BY Kinds, CallFrame, CloseFrame, ReportFrame, AskFrame, TaskFrame, DriverFrame, StutterFrame

\* A copy of the repo is made, thrown away after a run, or tidied by a close.
LEMMA CopySteps ==
    ASSUME [Next]_vars
    PROVE  \/ UNCHANGED <<copy, disk>>
           \/ \E a \in Agents, made \in BOOLEAN : Place(a, made)
           \/ \E x \in Notices : ReportDiscards(x)
           \/ \E x \in Actors : \E kept \in SUBSET op[x].tidy : CloseTidies(x, kept)
  BY Kinds, CallFrame, CloseFrame, ReportFrame, AskFrame, TaskFrame, DriverFrame, StutterFrame

\* The root's driver changes its state by its own steps and a close of the whole tree.
LEMMA RootSteps ==
    ASSUME [Next]_vars
    PROVE  \/ UNCHANGED root
           \/ Driver
           \/ \E x \in Actors, t \in Agents : CloseBegins(x, t)
  BY Kinds, CallFrame, CloseFrame, ReportFrame, AskFrame, TaskFrame, DriverFrame, StutterFrame
-----------------------------------------------------------------------------
(* Rows and closes *)

\* A child has a run number only if it has a row; a report knows how its run ended.
BegunOK ==
    /\ \A c \in Children : run[c] >= 1 => parent[c] # None /\ status[c] # "none"
    /\ \A x \in Notices : rep[x] # "none" => out[x] # "none" /\ x[2] <= run[x[1]]

\* Closed, or closed once and set running again by a resume that overtook the close.
Closed(c) == status[c] = "closed" \/ c \in revived

\* A close waits for, aborts, forgets and tidies only what is closed.
ClosingOK ==
    /\ \A x \in Actors :
          /\ op[x].pc \in {"mark", "halt", "drop"} => \A y \in op[x].got : Closed(y[1])
          /\ op[x].pc \in {"halt", "drop"} /\ op[x].child \in Children => Closed(op[x].child)
          /\ \A c \in op[x].tidy : Closed(c)
    /\ \A c \in Children : task[c] = "aborting" => Closed(c)

\* What a step may do to a row: a row stays a row, its parent is for ever, its run number
\* does not go back, and what was closed stays closed but for a resume.
LEMMA RowStays ==
    ASSUME IInv, BegunOK, [Next]_vars, NEW c \in Children
    PROVE  /\ status[c] # "none" => status'[c] # "none" /\ parent'[c] = parent[c]
           /\ run'[c] >= run[c]
           /\ Closed(c) => Closed(c)'
<1> USE DEF Closed
<1>0. /\ status \in [Agents -> Statuses]
      /\ parent \in [Children -> Agents \cup {None}]
      /\ run \in [Children -> 0..MaxRuns]
      /\ out \in [Notices -> {"none", "idle", "failed"}]
      /\ op \in [Actors -> OpType]
  BY DEF IInv, TypeOK
<1>1. CASE UNCHANGED <<status, parent, run, revived>>
  BY <1>0, <1>1
<1>2. CASE \E a \in Agents, d \in Children : SpawnRow(a, d)
  <2>1. PICK a \in Agents, d \in Children : SpawnRow(a, d)
    BY <1>2
  <2>2. c # d \/ run[c] = 0
    BY <1>0, <2>1 DEF SpawnRow, BegunOK
  <2> QED BY <1>0, <2>1, <2>2 DEF SpawnRow, InsertRow, history
<1>3. CASE \E a \in Agents : StartFails(a)
  BY <1>0, <1>3 DEF StartFails, FinishRow
<1>4. CASE \E a \in Agents : op[a].pc = "resume" /\ Rerun(a, op[a].child)
  BY <1>0, <1>4 DEF Rerun
<1>5. CASE \E x \in Notices : ReportRecords(x)
  <2>1. PICK x \in Notices : ReportRecords(x)
    BY <1>5
  <2>2. out[x] # "none" /\ x[1] \in Children
    BY <2>1 DEF ReportRecords, BegunOK, Notices
  <2> QED BY <1>0, <2>1, <2>2 DEF ReportRecords, FinishRow, rows, history
<1>6. CASE \E x \in Actors, d \in Agents : CloseMarks(x, d)
  BY <1>0, <1>6 DEF CloseMarks, history
<1> QED BY <1>1, <1>2, <1>3, <1>4, <1>5, <1>6, RowSteps

\* BegunOK is kept.
LEMMA NextBegun == IInv /\ BegunOK /\ [Next]_vars => BegunOK'
<1> SUFFICES ASSUME IInv, BegunOK, [Next]_vars PROVE BegunOK'
  OBVIOUS
<1>0. /\ status \in [Agents -> Statuses]
      /\ parent \in [Children -> Agents \cup {None}]
      /\ run \in [Children -> 0..MaxRuns]
      /\ run' \in [Children -> 0..MaxRuns]
      /\ rep \in [Notices -> RepPcs]
      /\ out \in [Notices -> {"none", "idle", "failed"}]
      /\ op \in [Actors -> OpType]
  BY NextIInv DEF IInv, TypeOK
<1>1. ASSUME NEW c \in Children, run'[c] >= 1 PROVE parent'[c] # None /\ status'[c] # "none"
  <2>1. CASE run[c] >= 1
    BY <2>1, RowStays DEF BegunOK
  <2>2. CASE run[c] < 1
    <3>1. CASE \E a \in Agents, d \in Children : SpawnRow(a, d)
      BY <1>0, <1>1, <2>2, <3>1 DEF SpawnRow, InsertRow
    <3>2. CASE \E a \in Agents : op[a].pc = "resume" /\ Rerun(a, op[a].child)
      <4>1. PICK a \in Agents : op[a].pc = "resume" /\ Rerun(a, op[a].child)
        BY <3>2
      <4>2. CallOK(a)
        BY DEF IInv, CallsOK
      <4>3. c = op[a].child
        BY <1>0, <1>1, <2>2, <4>1 DEF Rerun
      <4> QED BY <1>0, <4>1, <4>2, <4>3 DEF Rerun, CallOK, AtChild
    <3>3. CASE UNCHANGED run
      BY <1>0, <1>1, <2>2, <3>3
    <3> QED
      BY <3>1, <3>2, <3>3, RowSteps DEF StartFails, ReportRecords, CloseMarks, rows
  <2> QED BY <1>0, <2>1, <2>2
<1>2. ASSUME NEW x \in Notices, rep'[x] # "none" PROVE out'[x] # "none" /\ x[2] <= run'[x[1]]
  <2>0. x[1] \in Children /\ x[2] \in Nat /\ run'[x[1]] >= run[x[1]]
    BY RowStays DEF Notices, Runs
  <2>1. CASE UNCHANGED <<rep, out, hand>>
    BY <1>0, <1>2, <2>0, <2>1 DEF BegunOK
  <2>2. CASE \E c \in Children, st \in {"idle", "failed"} : RunEnds(c, st)
    <3>1. PICK c \in Children, st \in {"idle", "failed"} : RunEnds(c, st)
      BY <2>2
    <3>2. CASE x = <<c, run[c]>>
      BY <1>0, <2>0, <3>1, <3>2 DEF RunEnds, rows
    <3>3. CASE x # <<c, run[c]>>
      BY <1>0, <1>2, <2>0, <3>1, <3>3 DEF RunEnds, rows, BegunOK
    <3> QED BY <3>2, <3>3
  <2>3. CASE \E y \in Notices : Report(y)
    <3>1. PICK y \in Notices : Report(y)
      BY <2>3
    <3>2. rep[x] # "none"
      BY <1>0, <1>2, <3>1 DEF Report, ReportClears, ReportRecords, ReportRefused, ReportReleases,
         ReportUnrecorded, ReportDiscards, ReportNotifies, ReportWakes, ReportSends, ReportDone,
         Goto, AfterRelease
    <3>3. out'[x] = out[x]
      BY <1>0, <1>2, <3>1 DEF Report, ReportClears, ReportRecords, ReportRefused, ReportReleases,
         ReportUnrecorded, ReportDiscards, ReportNotifies, ReportWakes, ReportSends, ReportDone,
         Goto, reporting
    <3> QED BY <1>0, <2>0, <3>2, <3>3 DEF BegunOK
  <2> QED BY <2>1, <2>2, <2>3, ReportSteps
<1> QED BY <1>1, <1>2 DEF BegunOK

\* What a call in progress may still close: its own locals, while a close is on.
Held(o) ==
    /\ o.pc \in {"mark", "halt", "drop"} => \A y \in o.got : Closed(y[1])
    /\ o.pc \in {"halt", "drop"} /\ o.child \in Children => Closed(o.child)
    /\ \A c \in o.tidy : Closed(c)

\* A step changes the call of one caller, and not into a close that holds what is open.
LEMMA CallMoves ==
    ASSUME IInv, ClosingOK, NEW a \in Agents, Call(a)
    PROVE  /\ \A b \in Actors \ {a} : op'[b] = op[b]
           /\ op'[a].pc \notin {"mark", "halt", "drop", "ask"}
           /\ op'[a].tidy \subseteq op[a].tidy
<1> USE DEF Ready
<1>0. op \in [Actors -> OpType] /\ op' \in [Actors -> OpType]
  <2>1. [Next]_vars
    BY DEF Next
  <2> QED BY <2>1, NextIInv DEF IInv, TypeOK
<1>1. CASE \E c \in Children : SpawnRow(a, c)
  BY <1>0, <1>1 DEF SpawnRow, InsertRow
<1>2. CASE \E c \in Children : ResumeReads(a, c)
  BY <1>0, <1>2 DEF ResumeReads
<1>3. CASE \E made \in BOOLEAN : Place(a, made)
  BY <1>0, <1>3 DEF Place
<1>4. CASE StartFails(a)
  BY <1>0, <1>4 DEF StartFails
<1>5. CASE StartResets(a)
  BY <1>0, <1>5 DEF StartResets
<1>6. CASE StartLaunches(a)
  BY <1>0, <1>6 DEF StartLaunches
<1>7. CASE ResumeRow(a)
  BY <1>0, <1>7 DEF ResumeRow, Rerun
<1>8. CASE \E ids \in SUBSET Children : WaitBegins(a, ids)
  BY <1>0, <1>8 DEF WaitBegins
<1>9. CASE WaitReadsRows(a)
  BY <1>0, <1>9 DEF WaitReadsRows
<1>10. CASE WaitChecks(a)
  BY <1>0, <1>10 DEF WaitChecks
<1>11. CASE WaitForgets(a)
  BY <1>0, <1>11 DEF WaitForgets
<1>12. CASE Takes(a)
  <2>1. op[a].pc = "ready" /\ op' = op
    BY <1>12 DEF Takes, CanCall
  <2> QED BY <1>0, <2>1
<1> QED BY <1>1, <1>2, <1>3, <1>4, <1>5, <1>6, <1>7, <1>8, <1>9, <1>10, <1>11, <1>12 DEF Call

\* A step of a close keeps to what is closed.
LEMMA CloseHolds ==
    ASSUME IInv, ClosingOK, NEW x \in Actors, Close(x) \/ \E t \in Agents : CloseBegins(x, t)
    PROVE  (\A b \in Actors \ {x} : op'[b] = op[b]) /\ Held(op[x])'
<1>0. /\ op \in [Actors -> OpType] /\ op' \in [Actors -> OpType]
      /\ status \in [Agents -> Statuses]
  <2>1. [Next]_vars
    BY DEF Next
  <2> QED BY <2>1, NextIInv DEF IInv, TypeOK
<1>1. UNCHANGED revived
  BY CloseFrame
<1>2. Held(op[x])
  BY DEF ClosingOK, Held
<1>3. op[x] \in OpType /\ op'[x] \in OpType
  BY <1>0
<1>4. CASE \E c \in Agents : CloseMarks(x, c)
  <2>1. PICK c \in Agents : CloseMarks(x, c)
    BY <1>4
  <2>2. (\A b \in Actors \ {x} : op'[b] = op[b])
    BY <1>0, <2>1 DEF CloseMarks
  <2>3. op[x].pc = "mark" /\ op'[x].got = op[x].got
    BY <1>0, <2>1 DEF CloseMarks
  <2>4. op'[x].pc = "halt" => op'[x].child = c /\ status'[c] = "closed"
    BY <1>0, <2>1, <2>3 DEF CloseMarks
  <2>5. op'[x].pc \in {"mark", "halt"}
    BY <1>0, <2>1, <2>3 DEF CloseMarks
  <2>6. \A d \in op'[x].tidy : d \in op[x].tidy \/ (d = c /\ status'[c] = "closed")
    BY <1>0, <2>1 DEF CloseMarks
  <2>7. \A d \in Children : Closed(d) => Closed(d)'
    BY <1>0, <1>1, <2>1 DEF CloseMarks, Closed
  <2>8. Held(op[x])'
    BY <1>2, <1>3, <2>3, <2>4, <2>5, <2>6, <2>7 DEF Held, Closed, Notices
  <2> QED BY <1>3, <2>2, <2>8
<1>5. CASE CloseHalts(x)
  <2>1. (\A b \in Actors \ {x} : op'[b] = op[b]) /\ UNCHANGED <<status, revived>>
    BY <1>0, <1>1, <1>5 DEF CloseHalts, rows
  <2>2. op[x].pc = "halt" /\ op'[x].child = op[x].child /\ op'[x].tidy = op[x].tidy
    BY <1>0, <1>5 DEF CloseHalts
  <2>3. \A y \in op'[x].got : y \in op[x].got \/ (op[x].child \in Children /\ y[1] = op[x].child)
    BY <1>0, <1>5 DEF CloseHalts
  <2>4. Held(op[x])'
    BY <1>2, <1>3, <2>1, <2>2, <2>3 DEF Held, Closed
  <2> QED BY <1>3, <2>1, <2>4
<1>6. CASE CloseDrops(x)
  <2>1. /\ op' = [op EXCEPT ![x].pc = "mark"] /\ UNCHANGED <<status, revived>>
        /\ op[x].pc = "drop"
    BY <1>0, <1>6 DEF CloseDrops, rows, history
  <2>2. \A b \in Actors \ {x} : op'[b] = op[b]
    BY <1>0, <2>1
  <2>3. op'[x].got \subseteq op[x].got /\ op'[x].tidy = op[x].tidy /\ op'[x].pc = "mark"
    BY <1>0, <1>3, <2>1
  <2>4. Held(op[x])'
    BY <1>2, <2>1, <2>3 DEF Held, Closed
  <2> QED BY <2>2, <2>4
<1>7. CASE \E r \in op[x].got : CloseJoins(x, r)
  <2>1. PICK r \in op[x].got : CloseJoins(x, r)
    BY <1>7
  <2>2. /\ op' = [op EXCEPT ![x].got = @ \ {r}] /\ UNCHANGED <<status, revived>>
        /\ op[x].pc = "mark"
    BY <1>0, <2>1 DEF CloseJoins, rows, history, Marked
  <2>3. \A b \in Actors \ {x} : op'[b] = op[b]
    BY <1>0, <2>2
  <2>4. op'[x].got \subseteq op[x].got /\ op'[x].tidy = op[x].tidy /\ op'[x].pc = "mark"
    BY <1>0, <1>3, <2>2
  <2>5. Held(op[x])'
    BY <1>2, <2>2, <2>4 DEF Held, Closed
  <2> QED BY <2>3, <2>5
<1>8. CASE CloseAborts(x)
  <2>1. /\ op' = [op EXCEPT ![x].got = {}] /\ UNCHANGED <<status, revived>>
        /\ op[x].pc = "mark"
    BY <1>0, <1>8 DEF CloseAborts, rows, history, Marked
  <2>2. \A b \in Actors \ {x} : op'[b] = op[b]
    BY <1>0, <2>1
  <2>3. op'[x].got \subseteq op[x].got /\ op'[x].tidy = op[x].tidy /\ op'[x].pc = "mark"
    BY <1>0, <1>3, <2>1
  <2>4. Held(op[x])'
    BY <1>2, <2>1, <2>3 DEF Held, Closed
  <2> QED BY <2>2, <2>4
<1>9. CASE \E kept \in SUBSET op[x].tidy : CloseTidies(x, kept)
  <2>1. op' = [op EXCEPT ![x] = Ready]
    BY <1>9 DEF CloseTidies
  <2>2. (\A b \in Actors \ {x} : op'[b] = op[b]) /\ Held(op[x])'
    BY <1>0, <2>1 DEF Held, Ready
  <2> QED BY <2>2
<1>10. CASE \E t \in Agents : CloseBegins(x, t)
  <2>1. PICK t \in Agents : op' = [op EXCEPT ![x] = [Ready EXCEPT !.pc = "mark", !.ids = Subtree(t)]]
    BY <1>10 DEF CloseBegins
  <2>2. (\A b \in Actors \ {x} : op'[b] = op[b]) /\ Held(op[x])'
    BY <1>0, <2>1 DEF Held, Ready
  <2> QED BY <1>3, <2>2
<1> QED BY <1>4, <1>5, <1>6, <1>7, <1>8, <1>9, <1>10 DEF Close

\* ClosingOK is kept.
LEMMA NextClosing == IInv /\ BegunOK /\ ClosingOK /\ [Next]_vars => ClosingOK'
<1> SUFFICES ASSUME IInv, BegunOK, ClosingOK, [Next]_vars PROVE ClosingOK'
  OBVIOUS
<1>0. op \in [Actors -> OpType] /\ task \in [Children -> {"none", "run", "aborting"}]
  BY DEF IInv, TypeOK
<1>1. \A c \in Children : Closed(c) => Closed(c)'
  BY RowStays
<1>2. ASSUME NEW x \in Actors PROVE Held(op[x])'
  <2>1. Held(op[x]) /\ op[x] \in OpType
    BY <1>0 DEF ClosingOK, Held
  <2>2. Held(op[x])' \/ op'[x] # op[x]
    BY <1>1, <2>1 DEF Held, Notices
  <2>3. CASE \E a \in Agents : Call(a)
    BY <1>0, <1>1, <2>1, <2>2, <2>3, CallMoves DEF Held
  <2>4. CASE \E y \in Actors : Close(y) \/ \E t \in Agents : CloseBegins(y, t)
    BY <1>0, <2>2, <2>4, CloseHolds
  <2>5. CASE \E t \in Agents : OwnerAsks(t) \/ OwnerAsksNext(t)
    <3>1. PICK t \in Agents : OwnerAsks(t) \/ OwnerAsksNext(t)
      BY <2>5
    <3>2. CASE OwnerAsks(t)
      BY <1>0, <1>1, <2>1, <2>2, <3>2 DEF OwnerAsks, Held, Ready
    <3>3. CASE OwnerAsksNext(t)
      BY <1>0, <1>1, <2>1, <2>2, <3>3 DEF OwnerAsksNext, Held, Ready
    <3> QED BY <3>1, <3>2, <3>3
  <2>6. CASE \E c \in Children : TaskDies(c)
    BY <1>0, <2>2, <2>6 DEF TaskDies, Held, Ready
  <2> QED BY <2>2, <2>3, <2>4, <2>5, <2>6, CallSteps
<1>3. ASSUME NEW c \in Children, task'[c] = "aborting" PROVE Closed(c)'
  <2>1. CASE task[c] = "aborting"
    BY <1>1, <2>1 DEF ClosingOK
  <2>2. CASE task[c] # "aborting"
    <3>0. ~\E a \in Agents : StartLaunches(a)
      BY <1>0, <1>3, <2>2 DEF StartLaunches
    <3>1. \E x \in Actors : CloseAborts(x)
      BY <1>0, <1>3, <2>2, <3>0, TaskSteps, ZenonT(30) DEF RunEnds, TaskDies
    <3>2. PICK x \in Actors : CloseAborts(x)
      BY <3>1
    <3>3. <<c, run[c]>> \in op[x].got /\ op[x].pc = "mark"
      BY <1>3, <2>2, <3>2 DEF CloseAborts, Marked
    <3>4. Closed(c)
      BY <3>3 DEF ClosingOK
    <3> QED BY <1>1, <3>4
  <2> QED BY <2>1, <2>2
<1> QED BY <1>2, <1>3 DEF ClosingOK, Held

-----------------------------------------------------------------------------
(* Who is behind a running row *)

\* A child whose run's end the store refused is over for good: its row was not written,
\* nobody runs or records it, and nobody is about to.
RefusedOK ==
    \A x \in refused :
        /\ x[2] <= run[x[1]]
        /\ x[2] = run[x[1]] =>
             /\ status[x[1]] \in {"running", "closed"}
             /\ task[x[1]] = "none"
             /\ \A n \in Runs : ~Pending(x[1], n)
             /\ \A a \in Agents : ~(op[a].pc \in AtChild /\ op[a].child = x[1])

\* A call about to start c, a task of it, or an end of it not recorded yet.
Behind(c) ==
    \/ \E a \in Agents : op[a].pc \in Starting /\ op[a].child = c
    \/ task[c] # "none"
    \/ \E n \in Runs : Pending(c, n)

BehindOK ==
    \A c \in Children \ revived :
        status[c] = "running" => <<c, run[c]>> \in refused \/ Behind(c)

\* How a call comes to be about a child, and how a start goes on.
LEMMA CallChild ==
    ASSUME IInv, NEW a \in Agents, Call(a)
    PROVE  /\ op'[a].pc \in AtChild =>
                \/ op[a].pc \in AtChild /\ op'[a].child = op[a].child
                \/ \E c \in Children : /\ c = op'[a].child
                                       /\ SpawnRow(a, c) \/ ResumeReads(a, c)
           /\ op[a].pc \in Starting =>
                \/ StartFails(a) \/ StartLaunches(a)
                \/ op'[a].pc \in Starting /\ op'[a].child = op[a].child
           /\ op[a].pc = "resume" /\ Rerun(a, op[a].child) =>
                op'[a].pc \in Starting /\ op'[a].child = op[a].child
<1> USE DEF Ready, AtChild, Starting
<1>0. op \in [Actors -> OpType]
  BY DEF IInv, TypeOK
<1>1. CASE \E c \in Children : SpawnRow(a, c)
  <2>1. PICK c \in Children : SpawnRow(a, c)
    BY <1>1
  <2>2. op[a].pc = "ready" /\ op'[a].child = c
    BY <1>0, <2>1 DEF SpawnRow, InsertRow, CanCall
  <2> QED BY <2>1, <2>2
<1>2. CASE \E c \in Children : ResumeReads(a, c)
  <2>1. PICK c \in Children : ResumeReads(a, c)
    BY <1>2
  <2>2. op[a].pc = "ready" /\ op'[a].child = c
    BY <1>0, <2>1 DEF ResumeReads, CanCall
  <2> QED BY <2>1, <2>2
<1>3. CASE \E made \in BOOLEAN : Place(a, made)
  BY <1>0, <1>3 DEF Place
<1>4. CASE StartFails(a)
  BY <1>0, <1>4 DEF StartFails
<1>5. CASE StartResets(a)
  BY <1>0, <1>5 DEF StartResets
<1>6. CASE StartLaunches(a)
  BY <1>0, <1>6 DEF StartLaunches
<1>7. CASE ResumeRow(a)
  BY <1>0, <1>7 DEF ResumeRow, Rerun
<1>8. CASE \E ids \in SUBSET Children : WaitBegins(a, ids)
  BY <1>0, <1>8 DEF WaitBegins, CanCall
<1>9. CASE WaitReadsRows(a)
  BY <1>0, <1>9 DEF WaitReadsRows
<1>10. CASE WaitChecks(a)
  BY <1>0, <1>10 DEF WaitChecks
<1>11. CASE WaitForgets(a)
  BY <1>0, <1>11 DEF WaitForgets
<1>12. CASE Takes(a)
  BY <1>12 DEF Takes, CanCall
<1> QED BY <1>1, <1>2, <1>3, <1>4, <1>5, <1>6, <1>7, <1>8, <1>9, <1>10, <1>11, <1>12 DEF Call

\* A close goes on closing until it is over.
LEMMA CloseGoesOn ==
    ASSUME IInv, NEW x \in Actors, Close(x) \/ \E t \in Agents : CloseBegins(x, t)
    PROVE  op'[x].pc \in {"mark", "halt", "drop", "ready"}
<1> USE DEF Ready, Marked
<1>0. op \in [Actors -> OpType]
  BY DEF IInv, TypeOK
<1>1. CASE \E c \in Agents : CloseMarks(x, c)
  BY <1>0, <1>1 DEF CloseMarks
<1>2. CASE CloseHalts(x)
  BY <1>0, <1>2 DEF CloseHalts
<1>3. CASE CloseDrops(x)
  BY <1>0, <1>3 DEF CloseDrops
<1>4. CASE \E r \in op[x].got : CloseJoins(x, r)
  BY <1>0, <1>4 DEF CloseJoins
<1>5. CASE CloseAborts(x)
  BY <1>0, <1>5 DEF CloseAborts
<1>6. CASE \E kept \in SUBSET op[x].tidy : CloseTidies(x, kept)
  BY <1>0, <1>6 DEF CloseTidies
<1>7. CASE \E t \in Agents : CloseBegins(x, t)
  <2>1. PICK t \in Agents : CloseBegins(x, t)
    BY <1>7
  <2>2. op' = [op EXCEPT ![x] = [Ready EXCEPT !.pc = "mark", !.ids = Subtree(t)]]
    BY <2>1 DEF CloseBegins
  <2>3. op'[x].pc = "mark"
    BY <1>0, <2>2
  <2> QED BY <2>3
<1> QED BY <1>1, <1>2, <1>3, <1>4, <1>5, <1>6, <1>7 DEF Close

\* A caller that is not an agent at its own call, or a close, a question or a death, is not
\* about to start a child before or after.
LEMMA OthersChild ==
    ASSUME IInv, [Next]_vars, NEW a \in Agents, ~Call(a)
    PROVE  /\ op'[a].pc \in AtChild => op[a].pc \in AtChild /\ op'[a].child = op[a].child
           /\ op[a].pc \in Starting => op'[a].pc \in Starting /\ op'[a].child = op[a].child
<1> USE DEF Ready, AtChild, Starting
<1>0. op \in [Actors -> OpType] /\ a # Owner
  BY DEF IInv, TypeOK
<1>1. CASE \E b \in Agents : Call(b)
  <2>1. PICK b \in Agents : Call(b)
    BY <1>1
  <2>2. op'[a] = op[a]
    <3>1. a # b
      BY <2>1
    <3> QED
      BY <1>0, <2>1, <3>1 DEF Call, SpawnRow, InsertRow, ResumeReads, Place, StartFails,
         StartResets, StartLaunches, ResumeRow, Rerun, WaitBegins, WaitReadsRows, WaitChecks,
         WaitForgets, Takes
  <2> QED BY <2>2
<1>2. CASE \E x \in Actors : Close(x) \/ \E t \in Agents : CloseBegins(x, t)
  <2>1. PICK x \in Actors : Close(x) \/ \E t \in Agents : CloseBegins(x, t)
    BY <1>2
  <2>2. CASE a # x
    <3>1. op'[a] = op[a]
      BY <1>0, <2>1, <2>2 DEF Close, CloseMarks, CloseHalts, CloseDrops, CloseJoins, CloseAborts,
         CloseTidies, CloseBegins
    <3> QED BY <3>1
  <2>3. CASE a = x
    <3>1. op[a].pc \notin AtChild
      BY <1>0, <2>1, <2>3 DEF Close, CloseMarks, CloseHalts, CloseDrops, CloseJoins, CloseAborts,
         CloseTidies, CloseBegins, Marked, CanCall
    <3>2. op'[a].pc \notin AtChild
      BY <2>1, <2>3, CloseGoesOn
    <3> QED BY <3>1, <3>2
  <2> QED BY <2>2, <2>3
<1>3. CASE \E t \in Agents : OwnerAsks(t) \/ OwnerAsksNext(t)
  BY <1>0, <1>3 DEF OwnerAsks, OwnerAsksNext
<1>4. CASE \E c \in Children : TaskDies(c)
  BY <1>0, <1>4 DEF TaskDies
<1> QED BY <1>1, <1>2, <1>3, <1>4, CallSteps

\* RefusedOK is kept.
LEMMA NextRefused == IInv /\ BegunOK /\ RefusedOK /\ [Next]_vars => RefusedOK'
<1> SUFFICES ASSUME IInv, BegunOK, RefusedOK, [Next]_vars,
                    NEW x \in Notices, x \in refused'
             PROVE  /\ x[2] <= run'[x[1]]
                    /\ x[2] = run'[x[1]] =>
                         /\ status'[x[1]] \in {"running", "closed"}
                         /\ task'[x[1]] = "none"
                         /\ \A n \in Runs : ~Pending(x[1], n)'
                         /\ \A a \in Agents : ~(op'[a].pc \in AtChild /\ op'[a].child = x[1])
  <2>1. ASSUME IInv, [Next]_vars PROVE refused' \subseteq Notices
    BY <2>1, NextIInv DEF IInv, TypeOK
  <2> QED BY <2>1 DEF RefusedOK
<1>0. /\ status \in [Agents -> Statuses]
      /\ parent \in [Children -> Agents \cup {None}]
      /\ run \in [Children -> 0..MaxRuns]
      /\ run' \in [Children -> 0..MaxRuns]
      /\ rep \in [Notices -> RepPcs]
      /\ task \in [Children -> {"none", "run", "aborting"}]
      /\ op \in [Actors -> OpType]
      /\ x[1] \in Children /\ x[2] \in Runs /\ x = <<x[1], x[2]>>
  BY NextIInv DEF IInv, TypeOK, Notices
<1>1. CASE x \notin refused
  <2>1. ReportRefused(x)
    <3>1. PICK y \in Notices : ReportRefused(y)
      BY <1>1, RefusedSteps
    <3>2. x = y
      BY <1>1, <3>1 DEF ReportRefused
    <3> QED BY <3>1, <3>2
  <2>2. Pending(x[1], x[2])
    BY <1>0, <2>1 DEF ReportRefused, Pending
  <2>3. OneRun(x[1])
    BY <1>0 DEF IInv, RunsOK
  <2>4. UNCHANGED <<status, run, task, op>>
    BY <2>1 DEF ReportRefused, rows, live
  <2>5. x[2] = run[x[1]] /\ status[x[1]] \in {"running", "closed"} /\ task[x[1]] = "none"
    BY <1>0, <2>2, <2>3 DEF OneRun
  <2>6. ASSUME NEW n \in Runs PROVE ~Pending(x[1], n)'
    <3>1. rep' = [rep EXCEPT ![x] = "unrecorded"]
      BY <2>1 DEF ReportRefused, Goto
    <3>2. <<x[1], n>> \in Notices
      BY <1>0 DEF Notices
    <3>3. CASE n = x[2]
      BY <1>0, <3>1, <3>2, <3>3 DEF Pending
    <3>4. CASE n # x[2]
      BY <1>0, <2>3, <2>5, <3>1, <3>2, <3>4 DEF Pending, OneRun
    <3> QED BY <3>3, <3>4
  <2>7. \A a \in Agents : ~(op[a].pc \in AtChild /\ op[a].child = x[1])
    BY <1>0, <2>2 DEF IInv, RunsOK, Vacant
  <2> QED BY <1>0, <2>4, <2>5, <2>6, <2>7 DEF Runs
<1>2. CASE x \in refused
  <2>0. run'[x[1]] >= run[x[1]] /\ x[2] <= run[x[1]]
    BY <1>0, <1>2, RowStays DEF RefusedOK
  <2>1. SUFFICES ASSUME x[2] = run'[x[1]]
                 PROVE  /\ status'[x[1]] \in {"running", "closed"}
                        /\ task'[x[1]] = "none"
                        /\ \A n \in Runs : ~Pending(x[1], n)'
                        /\ \A a \in Agents :
                              ~(op'[a].pc \in AtChild /\ op'[a].child = x[1])
    BY <1>0, <2>0 DEF Runs
  <2>2. x[2] = run[x[1]]
    BY <1>0, <2>0, <2>1 DEF Runs
  <2>3. /\ status[x[1]] \in {"running", "closed"} /\ task[x[1]] = "none"
        /\ \A n \in Runs : ~Pending(x[1], n)
        /\ \A a \in Agents : ~(op[a].pc \in AtChild /\ op[a].child = x[1])
    BY <1>2, <2>2 DEF RefusedOK
  <2>4. status'[x[1]] \in {"running", "closed"}
    <3>1. CASE UNCHANGED <<status, parent, run, revived>>
      BY <2>3, <3>1
    <3>2. CASE \E a \in Agents, c \in Children : SpawnRow(a, c)
      BY <1>0, <2>3, <3>2 DEF SpawnRow, InsertRow
    <3>3. CASE \E a \in Agents : StartFails(a)
      BY <1>0, <2>3, <3>3 DEF StartFails, FinishRow, AtChild, Starting
    <3>4. CASE \E a \in Agents : op[a].pc = "resume" /\ Rerun(a, op[a].child)
      BY <1>0, <2>3, <3>4 DEF Rerun, AtChild
    <3>5. CASE \E y \in Notices : ReportRecords(y)
      <4>1. PICK y \in Notices : ReportRecords(y)
        BY <3>5
      <4>2. Pending(y[1], y[2]) /\ y[1] \in Children /\ y[2] \in Runs
        BY <4>1 DEF ReportRecords, Pending, Notices
      <4>3. y[1] # x[1]
        BY <2>3, <4>2
      <4> QED BY <1>0, <2>3, <4>1, <4>2, <4>3 DEF ReportRecords, FinishRow
    <3>6. CASE \E y \in Actors, c \in Agents : CloseMarks(y, c)
      BY <1>0, <2>3, <3>6 DEF CloseMarks
    <3> QED BY <3>1, <3>2, <3>3, <3>4, <3>5, <3>6, RowSteps
  <2>5. task'[x[1]] = "none"
    <3>1. CASE \E a \in Agents : StartLaunches(a)
      BY <1>0, <2>3, <3>1 DEF StartLaunches, AtChild, Starting
    <3>2. CASE \E d \in Children, st \in {"idle", "failed"} : RunEnds(d, st)
      BY <1>0, <2>3, <3>2 DEF RunEnds
    <3>3. CASE \E d \in Children : TaskDies(d)
      BY <1>0, <2>3, <3>3 DEF TaskDies
    <3>4. CASE \E y \in Actors : CloseAborts(y)
      BY <1>0, <2>3, <3>4 DEF CloseAborts
    <3> QED BY <2>3, <3>1, <3>2, <3>3, <3>4, TaskSteps
  <2>6. ASSUME NEW n \in Runs PROVE ~Pending(x[1], n)'
    <3>0. <<x[1], n>> \in Notices /\ rep[<<x[1], n>>] \notin {"clear", "record"}
      BY <1>0, <2>3 DEF Pending, Notices
    <3>1. CASE \E c \in Children, st \in {"idle", "failed"} : RunEnds(c, st)
      <4>1. PICK c \in Children, st \in {"idle", "failed"} : RunEnds(c, st)
        BY <3>1
      <4>2. c # x[1]
        BY <2>3, <4>1 DEF RunEnds
      <4> QED BY <1>0, <3>0, <4>1, <4>2 DEF RunEnds, Pending
    <3>2. CASE \E y \in Notices : Report(y)
      BY <1>0, <3>0, <3>2 DEF Report, ReportClears, ReportRecords, ReportRefused, ReportReleases,
         ReportUnrecorded, ReportDiscards, ReportNotifies, ReportWakes, ReportSends, ReportDone,
         Goto, AfterRelease, Pending
    <3> QED BY <3>0, <3>1, <3>2, ReportSteps DEF Pending
  <2>7. ASSUME NEW a \in Agents PROVE ~(op'[a].pc \in AtChild /\ op'[a].child = x[1])
    <3>1. CASE Call(a)
      <4>1. ~SpawnRow(a, x[1]) /\ ~ResumeReads(a, x[1])
        BY <2>3 DEF SpawnRow, ResumeReads
      <4> QED BY <2>3, <3>1, <4>1, CallChild
    <3>2. CASE ~Call(a)
      BY <2>3, <3>2, OthersChild
    <3> QED BY <3>1, <3>2
  <2> QED BY <2>4, <2>5, <2>6, <2>7
<1> QED BY <1>1, <1>2

\* BehindOK is kept: whoever stops being behind a row has written it, or hands it on.
LEMMA NextBehind == IInv /\ BegunOK /\ ClosingOK /\ BehindOK /\ [Next]_vars => BehindOK'
<1> SUFFICES ASSUME IInv, BegunOK, ClosingOK, BehindOK, [Next]_vars,
                    NEW c \in Children, ~Closed(c)', status'[c] = "running",
                    <<c, run'[c]>> \notin refused'
             PROVE  Behind(c)'
  BY DEF BehindOK, Closed
<1>0. /\ status \in [Agents -> Statuses]
      /\ parent \in [Children -> Agents \cup {None}]
      /\ run \in [Children -> 0..MaxRuns]
      /\ rep \in [Notices -> RepPcs]
      /\ task \in [Children -> {"none", "run", "aborting"}]
      /\ op \in [Actors -> OpType]
      /\ refused \subseteq Notices
  BY DEF IInv, TypeOK
<1>1. ~Closed(c)
  BY RowStays
<1>2. CASE \E a \in Agents : SpawnRow(a, c)
  <2>1. PICK a \in Agents : SpawnRow(a, c)
    BY <1>2
  <2>2. op'[a].pc = "place" /\ op'[a].child = c
    BY <1>0, <2>1 DEF SpawnRow, InsertRow, Ready
  <2> QED BY <2>2 DEF Behind, Starting
<1>3. CASE \E a \in Agents : op[a].pc = "resume" /\ op[a].child = c /\ Rerun(a, c)
  <2>1. PICK a \in Agents : op[a].pc = "resume" /\ op[a].child = c /\ Rerun(a, c)
    BY <1>3
  <2>2. op'[a].pc \in Starting /\ op'[a].child = c
    BY <1>0, <2>1 DEF Rerun, Starting
  <2> QED BY <2>2 DEF Behind
<1>4. CASE /\ ~\E a \in Agents : SpawnRow(a, c)
           /\ ~\E a \in Agents : op[a].pc = "resume" /\ op[a].child = c /\ Rerun(a, c)
  <2>1. status[c] = "running" /\ run'[c] = run[c]
    <3>1. CASE \E a \in Agents, d \in Children : SpawnRow(a, d)
      <4>1. PICK a \in Agents, d \in Children : SpawnRow(a, d)
        BY <3>1
      <4>2. c # d
        BY <1>4, <4>1
      <4> QED BY <1>0, <4>1, <4>2 DEF SpawnRow, InsertRow
    <3>2. CASE \E a \in Agents : StartFails(a)
      BY <1>0, <3>2 DEF StartFails, FinishRow
    <3>3. CASE \E a \in Agents : op[a].pc = "resume" /\ Rerun(a, op[a].child)
      <4>1. PICK a \in Agents : op[a].pc = "resume" /\ Rerun(a, op[a].child)
        BY <3>3
      <4>2. c # op[a].child
        BY <1>4, <4>1
      <4> QED BY <1>0, <4>1, <4>2 DEF Rerun
    <3>4. CASE \E x \in Notices : ReportRecords(x)
      <4>1. PICK x \in Notices : ReportRecords(x)
        BY <3>4
      <4>2. UNCHANGED run /\ status' = [status EXCEPT ![x[1]] = IF @ = "closed" THEN @ ELSE out[x]]
        BY <4>1 DEF ReportRecords, FinishRow
      <4>3. out[x] # "running"
        BY DEF IInv, TypeOK
      <4> QED BY <1>0, <4>2, <4>3
    <3>5. CASE \E y \in Actors, d \in Agents : CloseMarks(y, d)
      BY <1>0, <3>5 DEF CloseMarks
    <3> QED BY <3>1, <3>2, <3>3, <3>4, <3>5, RowSteps
  <2>2. <<c, run[c]>> \notin refused
    BY <2>1, RefusedSteps DEF ReportRefused
  <2>3. Behind(c)
    BY <1>1, <2>1, <2>2 DEF BehindOK, Closed
  <2>4. CASE \E a \in Agents : op[a].pc \in Starting /\ op[a].child = c
    <3>1. PICK a \in Agents : op[a].pc \in Starting /\ op[a].child = c
      BY <2>4
    <3>2. CASE StartFails(a)
      <4>1. status'[c] # "running"
        BY <1>0, <3>1, <3>2 DEF StartFails, FinishRow
      <4> QED BY <4>1
    <3>3. CASE StartLaunches(a)
      <4>1. task'[c] = "run"
        BY <1>0, <3>1, <3>3 DEF StartLaunches
      <4> QED BY <4>1 DEF Behind
    <3>4. CASE ~StartFails(a) /\ ~StartLaunches(a)
      <4>1. op'[a].pc \in Starting /\ op'[a].child = op[a].child
        BY <3>1, <3>4, CallChild, OthersChild
      <4> QED BY <3>1, <4>1 DEF Behind
    <3> QED BY <3>2, <3>3, <3>4
  <2>5. CASE task[c] # "none"
    <3>1. CASE \E st \in {"idle", "failed"} : RunEnds(c, st)
      <4>1. rep'[<<c, run[c]>>] = "clear" /\ run[c] \in Runs
        <5>1. run[c] \in Runs
          BY <1>0, <2>5 DEF IInv, RunsOK, Numbered, Runs
        <5>2. <<c, run[c]>> \in Notices
          BY <5>1 DEF Notices
        <5> QED BY <1>0, <3>1, <5>1, <5>2 DEF RunEnds
      <4> QED BY <4>1 DEF Behind, Pending
    <3>2. CASE TaskDies(c)
      BY <1>1, <3>2 DEF TaskDies, ClosingOK
    <3>3. CASE ~TaskDies(c) /\ ~\E st \in {"idle", "failed"} : RunEnds(c, st)
      <4>1. CASE \E a \in Agents : StartLaunches(a)
        BY <1>0, <2>5, <4>1 DEF StartLaunches, Behind
      <4>2. CASE \E d \in Children, st \in {"idle", "failed"} : RunEnds(d, st)
        <5>1. PICK d \in Children, st \in {"idle", "failed"} : RunEnds(d, st)
          BY <4>2
        <5>2. c # d
          BY <3>3, <5>1
        <5> QED BY <1>0, <2>5, <5>1, <5>2 DEF RunEnds, Behind
      <4>3. CASE \E d \in Children : TaskDies(d)
        <5>1. PICK d \in Children : TaskDies(d)
          BY <4>3
        <5>2. c # d
          BY <3>3, <5>1
        <5> QED BY <1>0, <2>5, <5>1, <5>2 DEF TaskDies, Behind
      <4>4. CASE \E y \in Actors : CloseAborts(y)
        BY <1>0, <2>5, <4>4 DEF CloseAborts, Behind
      <4> QED BY <2>5, <4>1, <4>2, <4>3, <4>4, TaskSteps DEF Behind
    <3> QED BY <3>1, <3>2, <3>3
  <2>6. CASE \E n \in Runs : Pending(c, n)
    <3>1. PICK n \in Runs : Pending(c, n)
      BY <2>6
    <3>2. n = run[c] /\ task[c] = "none" /\ <<c, n>> \in Notices
      BY <3>1 DEF IInv, RunsOK, OneRun, Notices
    <3>3. CASE ReportRecords(<<c, n>>)
      <4>1. status' = [status EXCEPT ![c] = IF @ = "closed" THEN @ ELSE out[<<c, n>>]]
        BY <3>3 DEF ReportRecords, FinishRow
      <4>2. out[<<c, n>>] # "running"
        BY <3>2 DEF IInv, TypeOK
      <4> QED BY <1>0, <2>1, <4>1, <4>2
    <3>4. CASE ReportRefused(<<c, n>>)
      <4>1. <<c, run'[c]>> \in refused'
        BY <2>1, <3>2, <3>4 DEF ReportRefused
      <4> QED BY <4>1
    <3>5. CASE ~ReportRecords(<<c, n>>) /\ ~ReportRefused(<<c, n>>)
      <4>1. CASE \E y \in Notices : Report(y)
        BY <1>0, <3>1, <3>2, <3>5, <4>1 DEF Report, ReportClears, ReportRecords, ReportRefused,
           ReportReleases, ReportUnrecorded, ReportDiscards, ReportNotifies, ReportWakes,
           ReportSends, ReportDone, Goto, AfterRelease, Pending, Behind
      <4>2. CASE \E d \in Children, st \in {"idle", "failed"} : RunEnds(d, st)
        BY <1>0, <3>1, <3>2, <4>2 DEF RunEnds, Pending, Behind
      <4> QED BY <3>1, <4>1, <4>2, ReportSteps DEF Pending, Behind
    <3> QED BY <3>3, <3>4, <3>5
  <2> QED BY <2>3, <2>4, <2>5, <2>6 DEF Behind
<1> QED BY <1>2, <1>3, <1>4

\* No row runs, nothing was refused and nobody closes in the initial state.
LEMMA InitRunners == Init => BegunOK /\ ClosingOK /\ RefusedOK /\ BehindOK
  BY DEF Init, BegunOK, ClosingOK, RefusedOK, BehindOK, Ready

\* Exactly one is behind a running row, or none when the store refused its end.
LEMMA RowHasRunner == IInv /\ RefusedOK /\ BehindOK => RunningHasRunner
<1> SUFFICES ASSUME IInv, RefusedOK, BehindOK,
                    NEW c \in Children \ revived, status[c] = "running"
             PROVE  Runners(c) = IF <<c, run[c]>> \in refused THEN 0 ELSE 1
  BY DEF RunningHasRunner
<1>1. Runners(c) <= 1
  BY OneRunner DEF SingleRun
<1>2. /\ Cardinality(Starters(c)) \in {0, 1}
      /\ Starters(c) = {} => Cardinality(Starters(c)) = 0
  BY AtMostOneStarter, OneOrNone DEF IInv
<1>3. PICK n : Unrecorded(c) \subseteq {n}
  BY DEF IInv, RunsOK, OneRun, Unrecorded, Pending
<1>4. /\ Cardinality(Unrecorded(c)) \in {0, 1}
      /\ Unrecorded(c) = {} => Cardinality(Unrecorded(c)) = 0
  BY <1>3, OneOrNone
<1>5. CASE <<c, run[c]>> \in refused
  <2>1. Starters(c) = {} /\ Unrecorded(c) = {} /\ task[c] = "none"
    BY <1>5 DEF RefusedOK, Starters, Unrecorded, Pending, AtChild, Starting
  <2> QED BY <1>2, <1>4, <1>5, <2>1 DEF Runners
<1>6. CASE <<c, run[c]>> \notin refused
  <2>1. Behind(c)
    BY <1>6 DEF BehindOK
  <2>2. Starters(c) # {} \/ Unrecorded(c) # {} \/ task[c] # "none"
    BY <2>1 DEF Behind, Starters, Unrecorded, Pending, Starting
  <2>3. ASSUME NEW S, NEW e, S \subseteq {e}, S # {} PROVE Cardinality(S) = 1
    BY <2>3, FS_Singleton
  <2>4. /\ Starters(c) # {} => Cardinality(Starters(c)) = 1
        /\ Unrecorded(c) # {} => Cardinality(Unrecorded(c)) = 1
    BY <1>3, <2>3, AtMostOneStarter DEF IInv
  <2> QED BY <1>1, <1>2, <1>4, <1>6, <2>2, <2>4 DEF Runners
<1> QED BY <1>5, <1>6

\* BegunOK holds throughout.
THEOREM BegunHolds == Spec => []BegunOK
<1>1. Init => BegunOK
  BY InitRunners
<1> QED BY <1>1, Inductive, NextBegun, PTL DEF Spec

\* ClosingOK holds throughout.
THEOREM ClosingHolds == Spec => []ClosingOK
<1>1. Init => ClosingOK
  BY InitRunners
<1> QED BY <1>1, Inductive, BegunHolds, NextClosing, PTL DEF Spec

\* finished and report, start and close_tree: a row that says running has exactly one call,
\* task or report behind it that will write its end, unless the store refused that end or a
\* resume overtook a close of the agent.
THEOREM RowsHaveRunners == Spec => []RunningHasRunner
<1>1. Init => RefusedOK /\ BehindOK
  BY InitRunners
<1>2. Spec => []RefusedOK
  BY <1>1, Inductive, BegunHolds, NextRefused, PTL DEF Spec
<1>3. Spec => []BehindOK
  BY <1>1, Inductive, BegunHolds, ClosingHolds, NextBehind, PTL DEF Spec
<1> QED BY <1>2, <1>3, Inductive, RowHasRunner, PTL

-----------------------------------------------------------------------------
(* Where the news of an end is *)

\* A run that is on, or about to be, has no report yet; what a wake-up took from the root's
\* inbox is in hand only while it is being sent; an inbox holds news of its owner's children.
NewsOK ==
    /\ \A c \in Children :
          /\ parent[c] # c
          /\ task[c] # "none" => rep[<<c, run[c]>>] = "none"
          /\ \A a \in Agents :
                op[a].pc \in Starting /\ op[a].child = c => rep[<<c, run[c]>>] = "none"
    /\ \A x \in Notices : hand[x] # {} => rep[x] = "send"
    /\ \A x \in Notices : \A y \in hand[x] : parent[y[1]] = Root
    /\ \A a \in Agents : \A x \in inbox[a] : parent[x[1]] = a
    /\ op[Root].pc \notin {"ready", "mark", "halt", "drop"} => root = "running"

\* A wait is about children of its caller; the ends it has read are those of their last
\* runs, and what it is about to forget was heard.
WaitsOK ==
    \A a \in Agents :
        /\ op[a].pc \in {"rows", "check"} => \A c \in op[a].ids : parent[c] = a
        /\ op[a].pc \in {"check", "forget"} =>
             \A x \in op[a].got :
                parent[x[1]] = a /\ x[2] = run[x[1]] /\ status[x[1]] # "running"
        /\ op[a].pc = "forget" => op[a].got \subseteq heard

\* While a child's parent is not in a resume, nobody sets the child running again, and what
\* was heard of its ends stays heard.
LEMMA LeftByOthers ==
    ASSUME IInv, BegunOK, [Next]_vars, NEW c \in Children, status[c] # "none",
           NEW a \in Agents, parent[c] = a,
           op[a].pc # "resume"
    PROVE  /\ run'[c] = run[c]
           /\ status[c] # "running" => status'[c] # "running"
           /\ \A n \in Runs : <<c, n>> \in heard => <<c, n>> \in heard'
<1>0. /\ status \in [Agents -> Statuses]
      /\ parent \in [Children -> Agents \cup {None}]
      /\ run \in [Children -> 0..MaxRuns]
      /\ out \in [Notices -> {"none", "idle", "failed"}]
      /\ op \in [Actors -> OpType]
  BY DEF IInv, TypeOK
<1>1. ASSUME NEW b \in Agents, op[b].pc = "resume", Rerun(b, op[b].child)
      PROVE  op[b].child \in Children /\ op[b].child # c
  BY <1>1 DEF IInv, CallsOK, CallOK, AtChild
<1>2. run'[c] = run[c] /\ (status[c] # "running" => status'[c] # "running")
  <2>1. CASE \E b \in Agents, d \in Children : SpawnRow(b, d)
    BY <1>0, <2>1 DEF SpawnRow, InsertRow
  <2>2. CASE \E b \in Agents : StartFails(b)
    BY <1>0, <2>2 DEF StartFails, FinishRow
  <2>3. CASE \E b \in Agents : op[b].pc = "resume" /\ Rerun(b, op[b].child)
    <3>1. PICK b \in Agents : op[b].pc = "resume" /\ Rerun(b, op[b].child)
      BY <2>3
    <3>2. op[b].child # c
      BY <1>1, <3>1
    <3> QED BY <1>0, <3>1, <3>2 DEF Rerun
  <2>4. CASE \E x \in Notices : ReportRecords(x)
    <3>1. PICK x \in Notices : ReportRecords(x)
      BY <2>4
    <3>2. UNCHANGED run /\ status' = [status EXCEPT ![x[1]] = IF @ = "closed" THEN @ ELSE out[x]]
      BY <3>1 DEF ReportRecords, FinishRow
    <3>3. out[x] # "running"
      BY <1>0
    <3> QED BY <1>0, <3>2, <3>3
  <2>5. CASE \E y \in Actors, d \in Agents : CloseMarks(y, d)
    BY <1>0, <2>5 DEF CloseMarks
  <2> QED BY <2>1, <2>2, <2>3, <2>4, <2>5, RowSteps
<1>3. ASSUME NEW n \in Runs, <<c, n>> \in heard PROVE <<c, n>> \in heard'
  <2>1. CASE \E b \in Agents : op[b].pc = "resume" /\ Rerun(b, op[b].child)
    BY <1>1, <1>3, <2>1 DEF Rerun, About
  <2>2. CASE \E b \in Agents : StartFails(b)
    BY <1>3, <2>2 DEF StartFails
  <2>3. CASE \E b \in Agents : WaitChecks(b)
    BY <1>3, <2>3 DEF WaitChecks, history
  <2>4. CASE \E b \in Agents : Takes(b)
    BY <1>3, <2>4 DEF Takes
  <2>5. CASE RootRuns
    BY <1>3, <2>5 DEF RootRuns
  <2> QED BY <1>3, <2>1, <2>2, <2>3, <2>4, <2>5, HeardSteps
<1> QED BY <1>2, <1>3

\* What a step does to a wait: it begins, reads the rows, checks them, and forgets.
LEMMA CallWaits ==
    ASSUME IInv, NEW a \in Agents, Call(a), op'[a].pc \in {"rows", "check", "forget"}
    PROVE  \/ \E ids \in SUBSET Children : WaitBegins(a, ids)
           \/ WaitReadsRows(a) \/ WaitChecks(a)
<1> USE DEF Ready
<1>0. op \in [Actors -> OpType]
  BY DEF IInv, TypeOK
<1>1. CASE \E c \in Children : SpawnRow(a, c)
  BY <1>0, <1>1 DEF SpawnRow, InsertRow, CanCall
<1>2. CASE \E c \in Children : ResumeReads(a, c)
  BY <1>0, <1>2 DEF ResumeReads, CanCall
<1>3. CASE \E made \in BOOLEAN : Place(a, made)
  BY <1>0, <1>3 DEF Place
<1>4. CASE StartFails(a)
  BY <1>0, <1>4 DEF StartFails
<1>5. CASE StartResets(a)
  BY <1>0, <1>5 DEF StartResets
<1>6. CASE StartLaunches(a)
  BY <1>0, <1>6 DEF StartLaunches
<1>7. CASE ResumeRow(a)
  BY <1>0, <1>7 DEF ResumeRow, Rerun
<1>8. CASE WaitForgets(a)
  BY <1>0, <1>8 DEF WaitForgets
<1>9. CASE Takes(a)
  BY <1>9 DEF Takes, CanCall
<1> QED BY <1>1, <1>2, <1>3, <1>4, <1>5, <1>6, <1>7, <1>8, <1>9 DEF Call

\* The call of an agent that is not its own step stays as it is, unless it closes or dies.
LEMMA OthersWait ==
    ASSUME IInv, [Next]_vars, NEW a \in Agents, ~Call(a)
    PROVE  \/ op'[a] = op[a]
           \/ /\ op'[a].pc \in {"mark", "halt", "drop", "ready"}
              /\ op[a].pc \notin {"check", "forget"}
<1>0. op \in [Actors -> OpType] /\ a # Owner
  BY DEF IInv, TypeOK
<1>1. CASE \E b \in Agents : Call(b)
  <2>1. PICK b \in Agents : Call(b)
    BY <1>1
  <2>2. a # b
    BY <2>1
  <2>3. op'[a] = op[a]
    BY <1>0, <2>1, <2>2 DEF Call, SpawnRow, InsertRow, ResumeReads, Place, StartFails,
       StartResets, StartLaunches, ResumeRow, Rerun, WaitBegins, WaitReadsRows, WaitChecks,
       WaitForgets, Takes
  <2> QED BY <2>3
<1>2. CASE \E x \in Actors : Close(x) \/ \E t \in Agents : CloseBegins(x, t)
  <2>1. PICK x \in Actors : Close(x) \/ \E t \in Agents : CloseBegins(x, t)
    BY <1>2
  <2>2. CASE a # x
    <3>1. op'[a] = op[a]
      BY <1>0, <2>1, <2>2 DEF Close, CloseMarks, CloseHalts, CloseDrops, CloseJoins, CloseAborts,
         CloseTidies, CloseBegins
    <3> QED BY <3>1
  <2>3. CASE a = x
    <3>1. op[a].pc \notin {"check", "forget"}
      BY <1>0, <2>1, <2>3 DEF Close, CloseMarks, CloseHalts, CloseDrops, CloseJoins, CloseAborts,
         CloseTidies, CloseBegins, Marked, CanCall
    <3> QED BY <2>1, <2>3, <3>1, CloseGoesOn
  <2> QED BY <2>2, <2>3
<1>3. CASE \E t \in Agents : OwnerAsks(t) \/ OwnerAsksNext(t)
  BY <1>0, <1>3 DEF OwnerAsks, OwnerAsksNext
<1>4. CASE \E c \in Children : TaskDies(c)
  BY <1>0, <1>4 DEF TaskDies, Ready
<1> QED BY <1>1, <1>2, <1>3, <1>4, CallSteps


\* A child with a parent keeps it.
LEMMA ParentStays ==
    ASSUME IInv, BegunOK, [Next]_vars, NEW c \in Children, parent[c] # None
    PROVE  status[c] # "none" /\ parent'[c] = parent[c]
<1>1. run[c] >= 1
  BY DEF IInv, RunsOK, Numbered
<1>2. status[c] # "none"
  BY <1>1 DEF BegunOK
<1> QED BY <1>2, RowStays

\* The run number of a child changes at its spawn and its resume only.
LEMMA RunStays ==
    ASSUME IInv, [Next]_vars, NEW c \in Children,
           ~\E a \in Agents : SpawnRow(a, c),
           ~\E a \in Agents : op[a].pc = "resume" /\ op[a].child = c /\ Rerun(a, c)
    PROVE  run'[c] = run[c]
<1>0. run \in [Children -> 0..MaxRuns]
  BY DEF IInv, TypeOK
<1>1. CASE \E a \in Agents, d \in Children : SpawnRow(a, d)
  <2>1. PICK a \in Agents, d \in Children : SpawnRow(a, d)
    BY <1>1
  <2>2. c # d
    BY <2>1
  <2> QED BY <1>0, <2>1, <2>2 DEF SpawnRow, InsertRow
<1>2. CASE \E a \in Agents : op[a].pc = "resume" /\ Rerun(a, op[a].child)
  <2>1. PICK a \in Agents : op[a].pc = "resume" /\ Rerun(a, op[a].child)
    BY <1>2
  <2>2. c # op[a].child
    BY <2>1
  <2> QED BY <1>0, <2>1, <2>2 DEF Rerun
<1> QED BY <1>1, <1>2, RowSteps DEF StartFails, ReportRecords, CloseMarks, rows

\* A run without a report has none after a step, unless it ends in it.
LEMMA NoReportYet ==
    ASSUME IInv, [Next]_vars, NEW x \in Notices, rep[x] = "none",
           ~\E st \in {"idle", "failed"} : RunEnds(x[1], st) /\ x[2] = run[x[1]]
    PROVE  rep'[x] = "none"
<1>0. rep \in [Notices -> RepPcs]
  BY DEF IInv, TypeOK
<1>1. CASE \E c \in Children, st \in {"idle", "failed"} : RunEnds(c, st)
  <2>1. PICK c \in Children, st \in {"idle", "failed"} : RunEnds(c, st)
    BY <1>1
  <2>2. x # <<c, run[c]>>
    BY <2>1
  <2> QED BY <1>0, <2>1, <2>2 DEF RunEnds
<1>2. CASE \E y \in Notices : Report(y)
  BY <1>0, <1>2 DEF Report, ReportClears, ReportRecords, ReportRefused, ReportReleases,
     ReportUnrecorded, ReportDiscards, ReportNotifies, ReportWakes, ReportSends, ReportDone,
     Goto, AfterRelease
<1> QED BY <1>1, <1>2, ReportSteps

\* A run that is on, or about to be, gets no report while it is.
LEMMA RunUnreported ==
    ASSUME IInv, BegunOK, NewsOK, [Next]_vars, NEW c \in Children,
           \/ task'[c] # "none"
           \/ \E a \in Agents : op'[a].pc \in Starting /\ op'[a].child = c
    PROVE  rep'[<<c, run'[c]>>] = "none"
<1>0. /\ run \in [Children -> 0..MaxRuns] /\ run' \in [Children -> 0..MaxRuns]
      /\ rep \in [Notices -> RepPcs]
      /\ status \in [Agents -> Statuses]
      /\ parent \in [Children -> Agents \cup {None}]
      /\ task \in [Children -> {"none", "run", "aborting"}]
      /\ op \in [Actors -> OpType]
  BY NextIInv DEF IInv, TypeOK
<1>1. CASE \E a \in Agents : SpawnRow(a, c)
  <2>1. PICK a \in Agents : SpawnRow(a, c)
    BY <1>1
  <2>2. run'[c] = 1 /\ run[c] = 0 /\ UNCHANGED rep
    BY <1>0, <2>1 DEF SpawnRow, InsertRow, BegunOK, reporting
  <2>3. <<c, 1>> \in Notices
    BY DEF Notices, Runs
  <2> QED BY <1>0, <2>2, <2>3 DEF BegunOK
<1>2. CASE \E a \in Agents : op[a].pc = "resume" /\ op[a].child = c /\ Rerun(a, c)
  <2>1. PICK a \in Agents : op[a].pc = "resume" /\ op[a].child = c /\ Rerun(a, c)
    BY <1>2
  <2>2. run'[c] = run[c] + 1 /\ UNCHANGED rep
    BY <1>0, <2>1 DEF Rerun, reporting
  <2>3. <<c, run'[c]>> \in Notices
    BY <1>0, <2>2 DEF Notices, Runs
  <2> QED BY <1>0, <2>2, <2>3 DEF BegunOK
<1>3. CASE /\ ~\E a \in Agents : SpawnRow(a, c)
           /\ ~\E a \in Agents : op[a].pc = "resume" /\ op[a].child = c /\ Rerun(a, c)
  <2>1. run'[c] = run[c]
    BY <1>3, RunStays
  <2>2. rep[<<c, run[c]>>] = "none" /\ ~\E st \in {"idle", "failed"} : RunEnds(c, st)
    <3>1. CASE task'[c] # "none"
      <4>1. ~\E st \in {"idle", "failed"} : RunEnds(c, st)
        BY <1>0, <3>1 DEF RunEnds
      <4>2. CASE task[c] # "none"
        BY <4>1, <4>2 DEF NewsOK
      <4>3. CASE task[c] = "none"
        <5>1. \E a \in Agents : StartLaunches(a) /\ op[a].child = c
          <6>1. ASSUME NEW d \in Children, RunEnds(d, "idle") \/ RunEnds(d, "failed") PROVE FALSE
            BY <1>0, <3>1, <4>3, <6>1 DEF RunEnds
          <6>2. ASSUME NEW d \in Children, TaskDies(d) PROVE FALSE
            BY <1>0, <3>1, <4>3, <6>2 DEF TaskDies
          <6>3. ASSUME NEW x \in Actors, CloseAborts(x) PROVE FALSE
            BY <1>0, <3>1, <4>3, <6>3 DEF CloseAborts
          <6>4. PICK a \in Agents : StartLaunches(a)
            BY <3>1, <4>3, <6>1, <6>2, <6>3, TaskSteps
          <6>5. op[a].child = c
            BY <1>0, <3>1, <4>3, <6>4 DEF StartLaunches
          <6> QED BY <6>4, <6>5
        <5> QED BY <4>1, <5>1 DEF NewsOK, StartLaunches, Starting
      <4> QED BY <4>2, <4>3
    <3>2. CASE \E a \in Agents : op'[a].pc \in Starting /\ op'[a].child = c
      <4>1. PICK a \in Agents : op'[a].pc \in Starting /\ op'[a].child = c
        BY <3>2
      <4>2. op[a].pc \in AtChild /\ op[a].child = c
        <5>1. CASE Call(a)
          <6>1. ~SpawnRow(a, c)
            BY <1>3
          <6>2. ~ResumeReads(a, c)
            <7>1. ASSUME ResumeReads(a, c) PROVE op'[a].pc = "resume"
              BY <1>0, <7>1 DEF ResumeReads, Ready
            <7> QED BY <4>1, <7>1 DEF Starting
          <6> QED BY <4>1, <5>1, <6>1, <6>2, CallChild DEF AtChild
        <5>2. CASE ~Call(a)
          BY <4>1, <5>2, OthersChild DEF AtChild
        <5> QED BY <5>1, <5>2
      <4>3. op[a].pc # "resume"
        <5>1. ASSUME op[a].pc = "resume" PROVE FALSE
          <6>1. Call(a)
            <7>1. ASSUME ~Call(a) PROVE FALSE
              <8>1. op'[a] = op[a] \/ op'[a].pc \in {"mark", "halt", "drop", "ready"}
                BY <7>1, OthersWait
              <8> QED BY <4>1, <5>1, <8>1 DEF Starting
            <7> QED BY <7>1
          <6>2. ~Rerun(a, c)
            BY <1>3, <4>2, <5>1
          <6>3. ResumeRow(a)
            BY <1>0, <4>1, <5>1, <6>1 DEF Call, SpawnRow, ResumeReads, Place, StartFails,
               StartResets, StartLaunches, ResumeRow, WaitBegins, WaitReadsRows, WaitChecks,
               WaitForgets, Takes, CanCall
          <6>4. op'[a].pc = "ready"
            BY <1>0, <4>2, <6>2, <6>3 DEF ResumeRow, Ready
          <6> QED BY <4>1, <6>4 DEF Starting
        <5> QED BY <5>1
      <4>4. rep[<<c, run[c]>>] = "none"
        BY <4>2, <4>3 DEF NewsOK, AtChild
      <4>5. task[c] = "none"
        BY <4>2 DEF IInv, RunsOK, Vacant
      <4> QED BY <4>4, <4>5 DEF RunEnds
    <3> QED BY <3>1, <3>2
  <2>3. run[c] >= 1
    <3>1. CASE task'[c] # "none"
      BY <2>1, <3>1, NextIInv DEF IInv, RunsOK, Numbered
    <3>2. CASE \E a \in Agents : op'[a].pc \in Starting /\ op'[a].child = c
      <4>1. PICK a \in Agents : op'[a].pc \in Starting /\ op'[a].child = c
        BY <3>2
      <4>2. status'[c] # "none"
        BY <4>1, NextIInv DEF IInv, CallsOK, CallOK, AtChild
      <4> QED BY <2>1, <4>2, NextIInv DEF IInv, RunsOK, Numbered
    <3> QED BY <3>1, <3>2
  <2>4. <<c, run[c]>> \in Notices
    BY <1>0, <2>3 DEF Notices, Runs
  <2> QED BY <2>1, <2>2, <2>4, NoReportYet
<1> QED BY <1>1, <1>2, <1>3

\* What a wake-up took is in hand only while it is being sent.
LEMMA NextHand ==
    ASSUME IInv, BegunOK, NewsOK, [Next]_vars, NEW x \in Notices, hand'[x] # {}
    PROVE  rep'[x] = "send" /\ \A y \in hand'[x] : parent'[y[1]] = Root
<1>0. /\ hand \in [Notices -> SUBSET Notices] /\ hand' \in [Notices -> SUBSET Notices]
      /\ rep \in [Notices -> RepPcs]
      /\ inbox \in [Agents -> SUBSET Notices]
  BY NextIInv DEF IInv, TypeOK
<1>1. ASSUME NEW y \in Notices, parent[y[1]] = Root PROVE parent'[y[1]] = Root
  <2>1. y[1] \in Children
    BY DEF Notices
  <2> QED BY <1>1, <2>1, ParentStays
<1>2. CASE ReportWakes(x)
  <2>1. hand'[x] = {} \/ (hand'[x] = inbox[Root] /\ rep'[x] = "send") \/ hand'[x] = hand[x]
    BY <1>0, <1>2 DEF ReportWakes, Goto
  <2>2. hand[x] = {}
    BY <1>2 DEF ReportWakes, NewsOK
  <2> QED BY <1>0, <1>1, <2>1, <2>2 DEF NewsOK
<1>3. CASE hand'[x] = hand[x] /\ ~ReportWakes(x)
  <2>1. rep[x] = "send" /\ \A y \in hand[x] : parent[y[1]] = Root
    BY <1>3 DEF NewsOK
  <2>2. rep'[x] = "send"
    <3>1. CASE \E c \in Children, st \in {"idle", "failed"} : RunEnds(c, st)
      <4>1. PICK c \in Children, st \in {"idle", "failed"} : RunEnds(c, st)
        BY <3>1
      <4>2. x # <<c, run[c]>>
        BY <2>1, <4>1 DEF RunEnds, NewsOK
      <4> QED BY <1>0, <2>1, <4>1, <4>2 DEF RunEnds
    <3>2. CASE \E y \in Notices : Report(y)
      <4>1. PICK y \in Notices : Report(y)
        BY <3>2
      <4>2. CASE y # x
        BY <1>0, <2>1, <4>1, <4>2 DEF Report, ReportClears, ReportRecords, ReportRefused,
           ReportReleases, ReportUnrecorded, ReportDiscards, ReportNotifies, ReportWakes,
           ReportSends, ReportDone, Goto, AfterRelease
      <4>3. CASE y = x
        <5>1. ReportSends(x)
          BY <2>1, <4>1, <4>3 DEF Report, ReportClears, ReportRecords, ReportRefused,
             ReportReleases, ReportUnrecorded, ReportDiscards, ReportNotifies, ReportWakes,
             ReportDone
        <5>2. hand'[x] = {}
          BY <1>0, <5>1 DEF ReportSends
        <5> QED BY <5>2
      <4> QED BY <4>2, <4>3
    <3> QED BY <2>1, <3>1, <3>2, ReportSteps
  <2> QED BY <1>0, <1>1, <1>3, <2>1, <2>2
<1>4. CASE hand'[x] # hand[x] /\ ~ReportWakes(x)
  <2>1. PICK y \in Notices : ReportNotifies(y) \/ ReportWakes(y) \/ ReportSends(y)
    BY <1>4, InboxSteps DEF WaitForgets, Takes, CloseDrops, RootEnds, RootRuns, reporting
  <2>2. CASE ReportSends(y)
    BY <1>0, <1>4, <2>2 DEF ReportSends
  <2>3. CASE ReportWakes(y)
    <3>1. y # x
      BY <1>4, <2>3
    <3> QED BY <1>0, <1>4, <2>3, <3>1 DEF ReportWakes
  <2>4. CASE ReportNotifies(y)
    BY <1>4, <2>4 DEF ReportNotifies
  <2> QED BY <2>1, <2>2, <2>3, <2>4
<1> QED BY <1>2, <1>3, <1>4

\* An inbox holds news of its owner's children.
LEMMA NextBox ==
    ASSUME IInv, BegunOK, NewsOK, [Next]_vars, NEW a \in Agents, NEW x \in inbox'[a]
    PROVE  parent'[x[1]] = a
<1>0. /\ hand \in [Notices -> SUBSET Notices]
      /\ inbox \in [Agents -> SUBSET Notices] /\ inbox' \in [Agents -> SUBSET Notices]
      /\ parent \in [Children -> Agents \cup {None}]
  BY NextIInv DEF IInv, TypeOK
<1>1. x \in Notices /\ x[1] \in Children
  BY <1>0 DEF Notices
<1>2. x \in inbox[a] \/ parent[x[1]] = a
  <2>1. CASE \E y \in Notices : ReportNotifies(y)
    <3>1. PICK y \in Notices : ReportNotifies(y)
      BY <2>1
    <3>2. x \in inbox[a] \/ (x = y /\ parent[y[1]] = a)
      BY <1>0, <3>1 DEF ReportNotifies
    <3> QED BY <3>2
  <2>2. CASE \E y \in Notices : ReportWakes(y)
    BY <1>0, <2>2 DEF ReportWakes
  <2>3. CASE \E y \in Notices : ReportSends(y)
    <3>1. PICK y \in Notices : ReportSends(y)
      BY <2>3
    <3>2. x \in inbox[a] \/ (x \in hand[y] /\ a = Root)
      BY <1>0, <3>1 DEF ReportSends
    <3> QED BY <3>2 DEF NewsOK
  <2>4. CASE \E b \in Agents : WaitForgets(b)
    BY <1>0, <2>4 DEF WaitForgets
  <2>5. CASE \E b \in Agents : Takes(b)
    BY <1>0, <2>5 DEF Takes
  <2>6. CASE \E y \in Actors : CloseDrops(y)
    BY <1>0, <2>6 DEF CloseDrops
  <2>7. CASE RootEnds
    BY <1>0, <2>7 DEF RootEnds
  <2> QED BY <2>1, <2>2, <2>3, <2>4, <2>5, <2>6, <2>7, InboxSteps DEF RootRuns
<1>3. parent[x[1]] = a
  BY <1>2 DEF NewsOK
<1> QED BY <1>1, <1>3, ParentStays

\* The root's driver stands still while the root is in a call other than a close.
LEMMA NextDriven ==
    ASSUME IInv, BegunOK, NewsOK, [Next]_vars,
           op'[Root].pc \notin {"ready", "mark", "halt", "drop"}
    PROVE  root' = "running"
<1>0. op \in [Actors -> OpType] /\ Root # Owner
  BY DEF IInv, TypeOK
<1>1. CASE Call(Root)
  <2>1. UNCHANGED root
    BY <1>1, CallFrame
  <2>2. CASE op[Root].pc \notin {"ready", "mark", "halt", "drop"}
    BY <2>1, <2>2 DEF NewsOK
  <2>3. CASE op[Root].pc \in {"ready", "mark", "halt", "drop"}
    <3>1. CASE Takes(Root)
      BY <3>1 DEF Takes, CanCall
    <3>2. CASE ~Takes(Root)
      <4>1. CanCall(Root)
        BY <1>1, <2>3, <3>2 DEF Call, SpawnRow, ResumeReads, Place, StartFails, StartResets,
           StartLaunches, ResumeRow, WaitBegins, WaitReadsRows, WaitChecks, WaitForgets
      <4> QED BY <2>1, <4>1 DEF CanCall
    <3> QED BY <3>1, <3>2
  <2> QED BY <2>2, <2>3
<1>2. CASE ~Call(Root)
  <2>1. op'[Root] = op[Root]
    BY <1>2, OthersWait
  <2>2. root = "running" /\ op[Root].pc \notin {"ready", "mark", "halt", "drop"}
    BY <2>1 DEF NewsOK
  <2>3. CASE \E x \in Actors, t \in Agents : CloseBegins(x, t)
    <3>1. PICK x \in Actors, t \in Agents : CloseBegins(x, t)
      BY <2>3
    <3>2. CASE x = t
      <4>1. x \in Agents /\ (x = Root \/ (x \in Children /\ parent[t] = x))
        BY <3>1, <3>2 DEF CloseBegins
      <4>2. x = Root
        BY <3>2, <4>1 DEF NewsOK
      <4> QED BY <2>2, <3>1, <4>2 DEF CloseBegins, CanCall
    <3>3. CASE x # t
      BY <2>2, <3>1, <3>3 DEF CloseBegins
    <3> QED BY <3>2, <3>3
  <2>4. CASE Driver
    BY <2>2, <2>4 DEF Driver, RootEnds, RootRuns, RootReadsStore, RootReadsFinishing, RootLeaves
  <2> QED BY <2>2, <2>3, <2>4, RootSteps
<1> QED BY <1>1, <1>2

\* NewsOK is kept.
LEMMA NextNews == IInv /\ BegunOK /\ NewsOK /\ [Next]_vars => NewsOK'
<1> SUFFICES ASSUME IInv, BegunOK, NewsOK, [Next]_vars PROVE NewsOK'
  OBVIOUS
<1>0. /\ status \in [Agents -> Statuses]
      /\ parent \in [Children -> Agents \cup {None}]
      /\ inbox' \in [Agents -> SUBSET Notices]
  BY NextIInv DEF IInv, TypeOK
<1>1. ASSUME NEW c \in Children PROVE parent'[c] # c
  <2>1. CASE \E a \in Agents, d \in Children : SpawnRow(a, d)
    <3>1. PICK a \in Agents, d \in Children : SpawnRow(a, d)
      BY <2>1
    <3>2. a = Root \/ (a \in Children /\ task[a] = "run")
      BY <3>1 DEF SpawnRow, CanCall
    <3>3. a # d
      BY <3>1, <3>2 DEF IInv, RunsOK, OneRun, SpawnRow
    <3> QED BY <1>0, <3>1, <3>3 DEF SpawnRow, InsertRow, NewsOK
  <2> QED
    BY <2>1, RowSteps DEF NewsOK, StartFails, Rerun, ReportRecords, CloseMarks
<1> QED BY <1>0, <1>1, RunUnreported, NextHand, NextBox, NextDriven DEF NewsOK

\* WaitsOK is kept: a waiting parent resumes nobody, so what it read stays true.
LEMMA NextWaits == IInv /\ BegunOK /\ WaitsOK /\ [Next]_vars => WaitsOK'
<1> SUFFICES ASSUME IInv, BegunOK, WaitsOK, [Next]_vars, NEW a \in Agents
             PROVE  /\ op'[a].pc \in {"rows", "check"} =>
                         \A c \in op'[a].ids : parent'[c] = a
                    /\ op'[a].pc \in {"check", "forget"} =>
                         \A x \in op'[a].got :
                            parent'[x[1]] = a /\ x[2] = run'[x[1]] /\ status'[x[1]] # "running"
                    /\ op'[a].pc = "forget" => op'[a].got \subseteq heard'
  BY DEF WaitsOK
<1>0. /\ op \in [Actors -> OpType] /\ op' \in [Actors -> OpType]
      /\ parent \in [Children -> Agents \cup {None}]
      /\ told \subseteq heard
  BY NextIInv DEF IInv, TypeOK
<1> SUFFICES ASSUME op'[a].pc \in {"rows", "check", "forget"}
             PROVE  /\ op'[a].pc \in {"rows", "check"} => \A c \in op'[a].ids : parent'[c] = a
                    /\ op'[a].pc \in {"check", "forget"} =>
                         \A x \in op'[a].got :
                            parent'[x[1]] = a /\ x[2] = run'[x[1]] /\ status'[x[1]] # "running"
                    /\ op'[a].pc = "forget" => op'[a].got \subseteq heard'
  OBVIOUS
<1>1. CASE \E ids \in SUBSET Children : WaitBegins(a, ids)
  <2>1. PICK ids \in SUBSET Children : WaitBegins(a, ids)
    BY <1>1
  <2>2. op'[a].pc = "rows" /\ op'[a].ids = ids /\ UNCHANGED parent
    BY <1>0, <2>1 DEF WaitBegins, Ready, rows
  <2> QED BY <2>1, <2>2 DEF WaitBegins
<1>2. CASE WaitReadsRows(a)
  <2>1. /\ op[a].pc = "rows" /\ op'[a].pc = "check" /\ op'[a].ids = op[a].ids
        /\ op'[a].got = {<<c, run[c]>> : c \in {d \in op[a].ids : status[d] # "running"}}
        /\ UNCHANGED <<parent, run, status>>
    BY <1>0, <1>2 DEF WaitReadsRows, rows
  <2> QED BY <2>1 DEF WaitsOK
<1>3. CASE WaitChecks(a)
  <2>1. /\ op[a].pc = "check" /\ op'[a].ids = op[a].ids
        /\ op'[a].pc = "forget" => op'[a].got = op[a].got /\ op[a].got \subseteq heard'
        /\ UNCHANGED <<parent, run, status>>
        /\ op'[a].pc # "check"
    BY <1>0, <1>3 DEF WaitChecks, rows, Ready
  <2> QED BY <2>1 DEF WaitsOK
<1>4. CASE ~Call(a)
  <2>1. op'[a] = op[a]
    BY <1>4, OthersWait
  <2>3. ASSUME op[a].pc \in {"rows", "check"}, NEW c \in op[a].ids PROVE parent'[c] = a
    <3>1. parent[c] = a /\ c \in Children
      BY <2>3 DEF WaitsOK, IInv, CallsOK, CallOK
    <3> QED BY <3>1, ParentStays
  <2>4. ASSUME op[a].pc \in {"check", "forget"}, NEW x \in op[a].got
        PROVE  /\ parent'[x[1]] = a /\ x[2] = run'[x[1]] /\ status'[x[1]] # "running"
               /\ x \in heard => x \in heard'
    <3>1. /\ parent[x[1]] = a /\ x[2] = run[x[1]] /\ status[x[1]] # "running"
          /\ x[1] \in Children /\ x[2] \in Runs /\ x = <<x[1], x[2]>>
      BY <1>0, <2>4 DEF WaitsOK, Notices
    <3>2. parent'[x[1]] = a /\ status[x[1]] # "none"
      BY <3>1, ParentStays
    <3> QED BY <2>4, <3>1, <3>2, LeftByOthers
  <2> QED BY <2>1, <2>3, <2>4 DEF WaitsOK
<1> QED BY <1>1, <1>2, <1>3, <1>4, CallWaits
-----------------------------------------------------------------------------
(* The end of a run is heard *)

\* What a parent has heard of a child's last run, it has heard for good, until it sets the
\* child running again.
LEMMA HeardStays ==
    ASSUME IInv, [Next]_vars, NEW c \in Children, NEW n \in Runs, <<c, n>> \in heard,
           ~\E a \in Agents : op[a].pc = "resume" /\ op[a].child = c /\ Rerun(a, c)
    PROVE  <<c, n>> \in heard'
<1>1. CASE \E a \in Agents : op[a].pc = "resume" /\ Rerun(a, op[a].child)
  <2>1. PICK a \in Agents : op[a].pc = "resume" /\ Rerun(a, op[a].child)
    BY <1>1
  <2>2. c # op[a].child
    BY <2>1
  <2> QED BY <2>1, <2>2 DEF Rerun, About
<1>2. CASE \E a \in Agents : StartFails(a)
  BY <1>2 DEF StartFails
<1>3. CASE \E a \in Agents : WaitChecks(a)
  BY <1>3 DEF WaitChecks, history
<1>4. CASE \E a \in Agents : Takes(a)
  BY <1>4 DEF Takes
<1>5. CASE RootRuns
  BY <1>5 DEF RootRuns
<1> QED BY <1>1, <1>2, <1>3, <1>4, <1>5, HeardSteps

\* News sent to the root's driver reaches the root with its next run.
LEMMA SentStays ==
    ASSUME IInv, [Next]_vars, NEW x \in Notices, Sent(x)
    PROVE  Sent(x)' \/ x \in heard'
<1>1. CASE \E y \in Notices : ReportNotifies(y) \/ ReportWakes(y) \/ ReportSends(y)
  BY <1>1 DEF ReportNotifies, ReportWakes, ReportSends, driver, Sent
<1>2. CASE \E a \in Agents : WaitForgets(a) \/ Takes(a)
  BY <1>2 DEF WaitForgets, Takes, driver, Sent
<1>3. CASE \E y \in Actors : CloseDrops(y)
  BY <1>3 DEF CloseDrops, driver, Sent
<1>4. CASE RootEnds
  BY <1>4 DEF RootEnds, Sent
<1>5. CASE RootRuns
  BY <1>5 DEF RootRuns, Sent
<1> QED BY <1>1, <1>2, <1>3, <1>4, <1>5, InboxSteps DEF Sent

\* A notice in an inbox leaves it for the hand of a wake-up, for the driver, for the
\* parent's model, or with the forgetting of what was heard or closed.
LEMMA BoxStays ==
    ASSUME IInv, NewsOK, WaitsOK, ClosingOK, [Next]_vars,
           NEW c \in Children, NEW n \in Runs, n = run[c], ~Closed(c), parent'[c] = parent[c],
           <<c, n>> \in inbox[parent[c]], parent[c] \in Agents,
           ~\E a \in Agents : op[a].pc = "resume" /\ op[a].child = c /\ Rerun(a, c)
    PROVE  \/ <<c, n>> \in inbox'[parent[c]]
           \/ <<c, n>> \in heard'
           \/ \E y \in Notices : <<c, n>> \in hand'[y]
           \/ Sent(<<c, n>>)'
<1> DEFINE x == <<c, n>>
<1>0. /\ inbox \in [Agents -> SUBSET Notices]
      /\ hand \in [Notices -> SUBSET Notices]
      /\ x \in Notices
  BY DEF IInv, TypeOK, Notices
<1>1. CASE \E y \in Notices : ReportNotifies(y)
  BY <1>0, <1>1 DEF ReportNotifies
<1>2. CASE \E y \in Notices : ReportWakes(y)
  BY <1>0, <1>2 DEF ReportWakes
<1>3. CASE \E y \in Notices : ReportSends(y)
  BY <1>0, <1>3 DEF ReportSends
<1>4. CASE \E a \in Agents : WaitForgets(a)
  <2>1. PICK a \in Agents : WaitForgets(a)
    BY <1>4
  <2>2. CASE a = parent[c] /\ \E y \in op[a].got : y[1] = c
    <3>1. PICK y \in op[a].got : y[1] = c
      BY <2>2
    <3>2. op[a].pc = "forget" /\ y[2] = n /\ y \in Notices /\ y \in heard
      BY <2>1, <3>1 DEF WaitForgets, WaitsOK, IInv, TypeOK
    <3>3. y = x
      BY <3>1, <3>2 DEF Notices
    <3> QED BY <1>0, <3>2, <3>3, HeardStays
  <2>3. CASE ~(a = parent[c] /\ \E y \in op[a].got : y[1] = c)
    BY <1>0, <2>1, <2>3 DEF WaitForgets, About
  <2> QED BY <2>2, <2>3
<1>5. CASE \E a \in Agents : Takes(a)
  BY <1>0, <1>5 DEF Takes
<1>6. CASE \E y \in Actors : CloseDrops(y)
  <2>1. PICK y \in Actors : CloseDrops(y)
    BY <1>6
  <2>2. op[y].child # c
    BY <2>1 DEF CloseDrops, ClosingOK
  <2> QED BY <1>0, <2>1, <2>2 DEF CloseDrops, About
<1>7. CASE RootEnds
  BY <1>0, <1>7 DEF RootEnds, Sent
<1> QED BY <1>1, <1>2, <1>3, <1>4, <1>5, <1>6, <1>7, InboxSteps DEF RootRuns

\* A report that has a notice to give goes on to give it.
LEMMA ComesStays ==
    ASSUME IInv, NewsOK, [Next]_vars,
           NEW c \in Children, NEW n \in Runs, n = run[c], status[c] \notin {"running", "closed"},
           parent[c] \in Agents, parent'[c] = parent[c], ToCome(<<c, n>>)
    PROVE  \/ <<c, n>> \in inbox'[parent[c]]
           \/ ToCome(<<c, n>>)'
           \/ Sent(<<c, n>>)'
<1> DEFINE x == <<c, n>>
<1>0. /\ inbox \in [Agents -> SUBSET Notices]
      /\ hand \in [Notices -> SUBSET Notices]
      /\ rep \in [Notices -> RepPcs]
      /\ x \in Notices
      /\ task[c] = "none"
  BY DEF IInv, TypeOK, Notices, RunsOK, OneRun
<1>1. CASE rep[x] \in {"release", "discard", "notice"}
  <2>1. CASE \E d \in Children, st \in {"idle", "failed"} : RunEnds(d, st)
    <3>1. PICK d \in Children, st \in {"idle", "failed"} : RunEnds(d, st)
      BY <2>1
    <3>2. d # c
      BY <1>0, <3>1 DEF RunEnds
    <3> QED BY <1>0, <1>1, <3>1, <3>2 DEF RunEnds, ToCome
  <2>2. CASE \E y \in Notices : Report(y)
    <3>1. PICK y \in Notices : Report(y)
      BY <2>2
    <3>2. CASE y # x
      <4>1. rep'[x] = rep[x]
        BY <1>0, <3>1, <3>2 DEF Report, ReportClears, ReportRecords, ReportRefused,
           ReportReleases, ReportUnrecorded, ReportDiscards, ReportNotifies, ReportWakes,
           ReportSends, ReportDone, Goto
      <4> QED BY <1>1, <4>1 DEF ToCome
    <3>3. CASE y = x
      <4>1. ReportReleases(x) \/ ReportDiscards(x) \/ ReportNotifies(x)
        BY <1>1, <3>1, <3>3 DEF Report, ReportClears, ReportRecords, ReportRefused,
           ReportUnrecorded, ReportWakes, ReportSends, ReportDone
      <4>2. CASE ReportReleases(x)
        BY <1>0, <4>2 DEF ReportReleases, Goto, AfterRelease, ToCome
      <4>3. CASE ReportDiscards(x)
        BY <1>0, <4>3 DEF ReportDiscards, Goto, ToCome
      <4>4. CASE ReportNotifies(x)
        BY <1>0, <4>4 DEF ReportNotifies
      <4> QED BY <4>1, <4>2, <4>3, <4>4
    <3> QED BY <3>2, <3>3
  <2> QED BY <1>1, <2>1, <2>2, ReportSteps DEF ToCome
<1>2. CASE \E y \in Notices : x \in hand[y]
  <2>1. PICK y \in Notices : x \in hand[y]
    BY <1>2
  <2>2. rep[y] = "send" /\ parent[c] = Root
    BY <2>1 DEF NewsOK
  <2>3. CASE ReportSends(y)
    <3>1. x \in inbox'[Root] \/ hand[y] \in woken'
      BY <1>0, <2>1, <2>3 DEF ReportSends
    <3> QED BY <2>1, <2>2, <3>1 DEF Sent
  <2>4. CASE ~ReportSends(y)
    <3>1. hand'[y] = hand[y]
      <4>1. CASE \E z \in Notices : ReportWakes(z)
        <5>1. PICK z \in Notices : ReportWakes(z)
          BY <4>1
        <5>2. y # z
          BY <2>2, <5>1 DEF ReportWakes
        <5> QED BY <1>0, <5>1, <5>2 DEF ReportWakes
      <4>2. CASE \E z \in Notices : ReportSends(z)
        <5>1. PICK z \in Notices : ReportSends(z)
          BY <4>2
        <5>2. y # z
          BY <2>4, <5>1
        <5> QED BY <1>0, <5>1, <5>2 DEF ReportSends
      <4> QED
        BY <4>1, <4>2, InboxSteps DEF ReportNotifies, WaitForgets, Takes, CloseDrops, RootEnds,
           RootRuns, reporting
    <3> QED BY <2>1, <3>1 DEF ToCome
  <2> QED BY <2>3, <2>4
<1> QED BY <1>1, <1>2 DEF ToCome

\* EndIsHeard is kept: a start that fails is heard at once, a recorded end has its notice to
\* come, and what is heard or on its way stays so.
LEMMA NextHeard ==
    IInv /\ BegunOK /\ ClosingOK /\ NewsOK /\ WaitsOK /\ EndIsHeard /\ [Next]_vars => EndIsHeard'
<1> SUFFICES ASSUME IInv, BegunOK, ClosingOK, NewsOK, WaitsOK, EndIsHeard, [Next]_vars,
                    NEW c \in Children, c \notin revived', status'[c] \in {"idle", "failed"},
                    NEW n \in 0..MaxRuns, n = run'[c]
             PROVE  \/ <<c, n>> \in heard'
                    \/ <<c, n>> \in inbox'[parent'[c]]
                    \/ ToCome(<<c, n>>)'
                    \/ Sent(<<c, n>>)'
  <2>1. ASSUME IInv, [Next]_vars PROVE run' \in [Children -> 0..MaxRuns]
    BY <2>1, NextIInv DEF IInv, TypeOK
  <2> QED BY <2>1 DEF EndIsHeard, InBox, ToCome, Sent
<1>0. /\ status \in [Agents -> Statuses]
      /\ parent \in [Children -> Agents \cup {None}]
      /\ run \in [Children -> 0..MaxRuns]
      /\ rep \in [Notices -> RepPcs]
      /\ op \in [Actors -> OpType]
  BY DEF IInv, TypeOK
<1>1. ~Closed(c)' /\ ~Closed(c)
  BY RowStays DEF Closed
<1>2. ASSUME NEW a \in Agents, SpawnRow(a, c) \/ (op[a].child = c /\ Rerun(a, c)) PROVE FALSE
  BY <1>0, <1>2 DEF SpawnRow, InsertRow, Rerun
<1>3. n = run[c]
  BY <1>2, RunStays
<1>4. CASE status[c] \in {"idle", "failed"}
  <2>1. n \in Runs /\ parent[c] # None
    BY <1>0, <1>3, <1>4 DEF IInv, RunsOK, Numbered, Runs, BegunOK
  <2>2. parent'[c] = parent[c] /\ parent[c] \in Agents
    BY <1>0, <2>1, ParentStays
  <2>3. <<c, n>> \in Notices
    BY <2>1 DEF Notices
  <2>4. \/ <<c, n>> \in heard \/ <<c, n>> \in inbox[parent[c]]
        \/ ToCome(<<c, n>>) \/ Sent(<<c, n>>)
    BY <1>1, <1>3, <1>4 DEF EndIsHeard, InBox, Closed
  <2>5. CASE <<c, n>> \in heard
    BY <1>2, <1>3, <2>1, <2>5, HeardStays
  <2>6. CASE <<c, n>> \in inbox[parent[c]]
    BY <1>1, <1>2, <1>3, <2>1, <2>2, <2>6, BoxStays DEF ToCome
  <2>7. CASE ToCome(<<c, n>>)
    BY <1>3, <1>4, <2>1, <2>2, <2>7, ComesStays
  <2>8. CASE Sent(<<c, n>>)
    BY <1>3, <2>3, <2>8, SentStays
  <2> QED BY <2>4, <2>5, <2>6, <2>7, <2>8
<1>5. CASE status[c] \notin {"idle", "failed"}
  <2>1. CASE \E a \in Agents : StartFails(a)
    <3>1. PICK a \in Agents : StartFails(a)
      BY <2>1
    <3>2. op[a].child = c
      BY <1>0, <1>5, <3>1 DEF StartFails, FinishRow
    <3> QED BY <1>3, <3>1, <3>2 DEF StartFails
  <2>2. CASE \E x \in Notices : ReportRecords(x)
    <3>1. PICK x \in Notices : ReportRecords(x)
      BY <2>2
    <3>2. x[1] = c
      BY <1>0, <1>5, <3>1 DEF ReportRecords, FinishRow
    <3>3. x = <<c, x[2]>> /\ x[2] \in Runs /\ Pending(c, x[2])
      BY <3>1, <3>2 DEF ReportRecords, Pending, Notices
    <3>4. x[2] = n
      BY <1>3, <3>3 DEF IInv, RunsOK, OneRun
    <3>5. rep'[x] \in {"release", "discard", "notice"}
      BY <1>0, <1>1, <3>1, <3>2 DEF ReportRecords, Goto, AfterRelease, Closed
    <3> QED BY <1>3, <3>3, <3>4, <3>5 DEF ToCome
  <2>3. CASE \E a \in Agents : op[a].pc = "resume" /\ Rerun(a, op[a].child)
    <3>1. PICK a \in Agents : op[a].pc = "resume" /\ Rerun(a, op[a].child)
      BY <2>3
    <3>2. op[a].child # c
      BY <1>2, <3>1
    <3> QED BY <1>0, <1>5, <3>1, <3>2 DEF Rerun
  <2>4. CASE \E a \in Agents, d \in Children : SpawnRow(a, d)
    BY <1>0, <1>5, <2>4 DEF SpawnRow, InsertRow
  <2>5. CASE \E y \in Actors, d \in Agents : CloseMarks(y, d)
    BY <1>0, <1>5, <2>5 DEF CloseMarks
  <2> QED BY <1>5, <2>1, <2>2, <2>3, <2>4, <2>5, RowSteps
<1> QED BY <1>4, <1>5

\* No end is heard, on its way or waited for in the initial state.
LEMMA InitHeard == Init => NewsOK /\ WaitsOK /\ EndIsHeard
  BY DEF Init, NewsOK, WaitsOK, EndIsHeard, Ready, Starting, AtChild

\* NewsOK holds throughout.
THEOREM NewsHolds == Spec => []NewsOK
<1>1. Init => NewsOK
  BY InitHeard
<1> QED BY <1>1, Inductive, BegunHolds, NextNews, PTL DEF Spec

\* WaitsOK holds throughout.
THEOREM WaitsHold == Spec => []WaitsOK
<1>1. Init => WaitsOK
  BY InitHeard
<1> QED BY <1>1, Inductive, BegunHolds, NextWaits, PTL DEF Spec

\* report, wait, deliver_inbox, wake_root and put_back: once the last run of an agent is
\* recorded as ended, its parent was told or the notice is on its way, unless a resume
\* overtook a close of the agent.
THEOREM EndsAreHeard == Spec => []EndIsHeard
<1>1. Init => EndIsHeard
  BY InitHeard
<1> QED BY <1>1, Inductive, BegunHolds, ClosingHolds, NewsHolds, WaitsHold, NextHeard, PTL DEF Spec

-----------------------------------------------------------------------------
(* The notice of an end that a wait returned is dropped *)

\* An end a wait returned is that of the child's last run; its report is over but for what
\* says nothing to the parent, and a notice still in the inbox is about to be forgotten.
ToldOK ==
    \A x \in told :
        /\ x[2] = run[x[1]] /\ status[x[1]] # "running"
        /\ rep[x] \notin {"release", "discard", "notice"}
        /\ \A y \in Notices : x \notin hand[y]
        /\ x \in inbox[parent[x[1]]] =>
              op[parent[x[1]]].pc = "forget" /\ x \in op[parent[x[1]]].got

\* What a wait returns was read before `finishing` was down to nothing: no report is left
\* that could give a notice.
LEMMA NewlyTold ==
    ASSUME IInv, NewsOK, WaitsOK, [Next]_vars, NEW x \in Notices, x \in told', x \notin told
    PROVE  \E a \in Agents :
              /\ op[a].pc = "check" /\ x \in op[a].got /\ op'[a].pc = "forget"
              /\ op'[a].got = op[a].got
              /\ \A y \in Notices : rep[y] = "none" /\ hand[y] = {}
              /\ UNCHANGED <<status, parent, run, rep, hand, inbox>>
<1>0. op \in [Actors -> OpType]
  BY DEF IInv, TypeOK
<1>1. PICK a \in Agents : WaitChecks(a)
  <2>1. ASSUME NEW b \in Agents, Rerun(b, op[b].child) PROVE FALSE
    BY <2>1 DEF Rerun
  <2> QED BY <2>1, HeardSteps DEF StartFails, Takes, RootRuns
<1>2. op[a].pc = "check" /\ UNCHANGED <<status, parent, run, rep, hand, inbox>>
  BY <1>1 DEF WaitChecks, rows, reporting
<1>3. /\ Finishing = {} /\ op' = [op EXCEPT ![a].pc = "forget"]
      /\ told' = told \cup op[a].got
  BY <1>1 DEF WaitChecks, history
<1>4. op'[a].pc = "forget" /\ op'[a].got = op[a].got /\ x \in op[a].got
  BY <1>0, <1>3
<1>5. ASSUME NEW y \in Notices PROVE rep[y] = "none" /\ hand[y] = {}
  <2>1. rep[y] = "none"
    BY <1>3 DEF Finishing
  <2> QED BY <2>1 DEF NewsOK
<1> QED BY <1>2, <1>4, <1>5

\* ToldOK is kept: no report of an end that was told speaks any more, a wake-up does not take
\* what a root in a wait is about to forget, and a resume makes it an earlier run's end.
LEMMA NextTold == IInv /\ BegunOK /\ NewsOK /\ WaitsOK /\ ToldOK /\ [Next]_vars => ToldOK'
<1> SUFFICES ASSUME IInv, BegunOK, NewsOK, WaitsOK, ToldOK, [Next]_vars,
                    NEW x \in Notices, x \in told'
             PROVE  /\ x[2] = run'[x[1]] /\ status'[x[1]] # "running"
                    /\ rep'[x] \notin {"release", "discard", "notice"}
                    /\ \A y \in Notices : x \notin hand'[y]
                    /\ x \in inbox'[parent'[x[1]]] =>
                          op'[parent'[x[1]]].pc = "forget" /\ x \in op'[parent'[x[1]]].got
  <2>1. ASSUME IInv, [Next]_vars PROVE told' \subseteq Notices
    BY <2>1, NextIInv DEF IInv, TypeOK
  <2> QED BY <2>1 DEF ToldOK
<1>0. /\ status \in [Agents -> Statuses]
      /\ parent \in [Children -> Agents \cup {None}]
      /\ run \in [Children -> 0..MaxRuns]
      /\ rep \in [Notices -> RepPcs]
      /\ out \in [Notices -> {"none", "idle", "failed"}]
      /\ hand \in [Notices -> SUBSET Notices]
      /\ inbox \in [Agents -> SUBSET Notices]
      /\ op \in [Actors -> OpType]
      /\ x[1] \in Children /\ x[2] \in Runs /\ x = <<x[1], x[2]>>
  BY DEF IInv, TypeOK, Notices
<1>1. CASE x \notin told
  <2>1. PICK a \in Agents :
              /\ op[a].pc = "check" /\ x \in op[a].got /\ op'[a].pc = "forget"
              /\ op'[a].got = op[a].got
              /\ \A y \in Notices : rep[y] = "none" /\ hand[y] = {}
              /\ UNCHANGED <<status, parent, run, rep, hand, inbox>>
    BY <1>1, NewlyTold
  <2>2. parent[x[1]] = a /\ x[2] = run[x[1]] /\ status[x[1]] # "running"
    BY <2>1 DEF WaitsOK
  <2> QED BY <2>1, <2>2
<1>2. CASE x \in told
  <2>0. /\ x[2] = run[x[1]] /\ status[x[1]] # "running"
        /\ rep[x] \notin {"release", "discard", "notice"}
        /\ \A y \in Notices : x \notin hand[y]
        /\ x \in inbox[parent[x[1]]] =>
              op[parent[x[1]]].pc = "forget" /\ x \in op[parent[x[1]]].got
    BY <1>2 DEF ToldOK
  <2>1. run[x[1]] >= 1 /\ parent[x[1]] # None /\ status[x[1]] # "none"
    BY <1>0, <2>0 DEF Runs, BegunOK
  <2>2. parent'[x[1]] = parent[x[1]] /\ parent[x[1]] \in Agents
    BY <1>0, <2>1, ParentStays
  <2>3. ASSUME NEW a \in Agents, SpawnRow(a, x[1]) \/ (op[a].child = x[1] /\ Rerun(a, x[1]))
        PROVE  FALSE
    <3>1. CASE SpawnRow(a, x[1])
      BY <2>1, <3>1 DEF SpawnRow
    <3>2. CASE op[a].child = x[1] /\ Rerun(a, x[1])
      BY <3>2 DEF Rerun, About
    <3> QED BY <2>3, <3>1, <3>2
  <2>4. x[2] = run'[x[1]]
    BY <1>0, <2>0, <2>3, RunStays
  <2>5. status'[x[1]] # "running"
    <3>1. CASE \E a \in Agents, d \in Children : SpawnRow(a, d)
      <4>1. PICK a \in Agents, d \in Children : SpawnRow(a, d)
        BY <3>1
      <4>2. d # x[1]
        BY <2>3, <4>1
      <4> QED BY <1>0, <2>0, <4>1, <4>2 DEF SpawnRow, InsertRow
    <3>2. CASE \E a \in Agents : op[a].pc = "resume" /\ Rerun(a, op[a].child)
      <4>1. PICK a \in Agents : op[a].pc = "resume" /\ Rerun(a, op[a].child)
        BY <3>2
      <4>2. op[a].child # x[1]
        BY <2>3, <4>1
      <4> QED BY <1>0, <2>0, <4>1, <4>2 DEF Rerun
    <3>3. CASE \E a \in Agents : StartFails(a)
      BY <1>0, <2>0, <3>3 DEF StartFails, FinishRow
    <3>4. CASE \E y \in Notices : ReportRecords(y)
      <4>1. PICK y \in Notices : ReportRecords(y)
        BY <3>4
      <4>2. status' = [status EXCEPT ![y[1]] = IF @ = "closed" THEN @ ELSE out[y]]
        BY <4>1 DEF ReportRecords, FinishRow
      <4>3. out[y] # "running"
        BY <1>0
      <4> QED BY <1>0, <2>0, <4>2, <4>3
    <3>5. CASE \E y \in Actors, d \in Agents : CloseMarks(y, d)
      BY <1>0, <2>0, <3>5 DEF CloseMarks
    <3> QED BY <2>0, <3>1, <3>2, <3>3, <3>4, <3>5, RowSteps
  <2>6. rep'[x] \notin {"release", "discard", "notice"}
    <3>1. CASE \E c \in Children, st \in {"idle", "failed"} : RunEnds(c, st)
      BY <1>0, <2>0, <3>1 DEF RunEnds
    <3>2. CASE \E y \in Notices : Report(y)
      <4>1. PICK y \in Notices : Report(y)
        BY <3>2
      <4>2. CASE ReportRecords(x)
        <5>1. Pending(x[1], x[2])
          BY <1>0, <4>2 DEF ReportRecords, Pending
        <5>2. status[x[1]] = "closed"
          BY <1>0, <2>0, <5>1 DEF IInv, RunsOK, OneRun
        <5> QED BY <1>0, <4>2, <5>2 DEF ReportRecords, Goto
      <4>3. CASE y = x /\ ~ReportRecords(x)
        BY <1>0, <2>0, <4>1, <4>3 DEF Report, ReportClears, ReportRefused, ReportReleases,
           ReportUnrecorded, ReportDiscards, ReportNotifies, ReportWakes, ReportSends,
           ReportDone, Goto
      <4>4. CASE y # x
        BY <1>0, <2>0, <4>1, <4>4 DEF Report, ReportClears, ReportRecords, ReportRefused,
           ReportReleases, ReportUnrecorded, ReportDiscards, ReportNotifies, ReportWakes,
           ReportSends, ReportDone, Goto
      <4> QED BY <4>1, <4>2, <4>3, <4>4
    <3> QED BY <2>0, <3>1, <3>2, ReportSteps
  <2>7. ASSUME NEW y \in Notices PROVE x \notin hand'[y]
    <3>1. CASE \E z \in Notices : ReportWakes(z)
      <4>1. PICK z \in Notices : ReportWakes(z)
        BY <3>1
      <4>2. CASE x \in inbox[Root] /\ root # "running"
        <5>1. parent[x[1]] = Root
          BY <4>2 DEF NewsOK
        <5>2. op[Root].pc = "forget"
          BY <2>0, <4>2, <5>1
        <5> QED BY <4>2, <5>2 DEF NewsOK
      <4>3. CASE ~(x \in inbox[Root] /\ root # "running")
        BY <1>0, <2>0, <4>1, <4>3 DEF ReportWakes
      <4> QED BY <4>2, <4>3
    <3>2. CASE \E z \in Notices : ReportSends(z)
      BY <1>0, <2>0, <3>2 DEF ReportSends
    <3> QED
      BY <2>0, <3>1, <3>2, InboxSteps DEF ReportNotifies, WaitForgets, Takes, CloseDrops,
         RootEnds, RootRuns, reporting
  <2>8. ASSUME x \in inbox'[parent[x[1]]]
        PROVE  op'[parent[x[1]]].pc = "forget" /\ x \in op'[parent[x[1]]].got
    <3> DEFINE p == parent[x[1]]
    <3>1. x \in inbox[p] /\ ~WaitForgets(p)
      <4> HIDE DEF p
      <4>2. p \in Agents /\ x \in inbox'[p]
        BY <2>2, <2>8 DEF p
      <4>3. x \in inbox[p]
        <5>0. CASE \E y \in Notices : ReportNotifies(y)
          <6>1. PICK y \in Notices : ReportNotifies(y)
            BY <5>0
          <6>2. y # x
            BY <2>0, <6>1 DEF ReportNotifies
          <6> QED BY <1>0, <4>2, <6>1, <6>2 DEF ReportNotifies
        <5>1. CASE \E y \in Notices : ReportWakes(y)
          BY <1>0, <4>2, <5>1 DEF ReportWakes
        <5>2. CASE \E y \in Notices : ReportSends(y)
          BY <1>0, <2>0, <4>2, <5>2 DEF ReportSends
        <5>3. CASE \E a \in Agents : WaitForgets(a)
          BY <1>0, <4>2, <5>3 DEF WaitForgets
        <5>4. CASE \E a \in Agents : Takes(a)
          BY <1>0, <4>2, <5>4 DEF Takes
        <5>5. CASE \E y \in Actors : CloseDrops(y)
          BY <1>0, <4>2, <5>5 DEF CloseDrops
        <5>6. CASE RootEnds
          BY <1>0, <4>2, <5>6 DEF RootEnds
        <5> QED BY <4>2, <5>0, <5>1, <5>2, <5>3, <5>4, <5>5, <5>6, InboxSteps DEF RootRuns
      <4>4. x \in op[p].got
        BY <2>0, <4>3 DEF p
      <4>5. ~WaitForgets(p)
        BY <1>0, <4>2, <4>4 DEF WaitForgets, About
      <4> QED BY <4>3, <4>5
    <3>2. op[p].pc = "forget" /\ x \in op[p].got
      BY <2>0, <3>1
    <3>3. ~Call(p)
      BY <3>1, <3>2 DEF Call, SpawnRow, ResumeReads, Place, StartFails, StartResets,
         StartLaunches, ResumeRow, WaitBegins, WaitReadsRows, WaitChecks, Takes, CanCall
    <3>4. op'[p] = op[p]
      BY <2>2, <3>2, <3>3, OthersWait
    <3> QED BY <3>2, <3>4
  <2> QED BY <2>2, <2>4, <2>5, <2>6, <2>7, <2>8
<1> QED BY <1>1, <1>2

\* wait, finished and forget_about: a result a wait returned in time leaves no notice of that
\* end to come or in the inbox.
THEOREM NoticesDropped == Spec => []NoticeDropped
<1>1. Init => ToldOK
  BY DEF Init, ToldOK
<1>2. Spec => []ToldOK
  BY <1>1, Inductive, BegunHolds, NewsHolds, WaitsHold, NextTold, PTL DEF Spec
<1>3. IInv /\ ToldOK => NoticeDropped
  BY DEF ToldOK, NoticeDropped, ToCome, InBox, IInv, TypeOK
<1> QED BY <1>2, <1>3, Inductive, PTL

-----------------------------------------------------------------------------
(* No notice is stranded *)

\* NoStrandedNotice is kept: the end of the root's run empties its inbox, and a notice that
\* comes to a root that rests brings its wake-up along.
LEMMA NextStranded ==
    IInv /\ BegunOK /\ NewsOK /\ NoStrandedNotice /\ [Next]_vars => NoStrandedNotice'
<1> SUFFICES ASSUME IInv, BegunOK, NewsOK, NoStrandedNotice, [Next]_vars,
                    root' \in {"idle", "quiet", "counted", "exit"}, inbox'[Root] # {}, ~WakeFails
             PROVE  \E x \in Notices : rep'[x] = "wake"
  BY DEF NoStrandedNotice
<1>0. /\ rep \in [Notices -> RepPcs]
      /\ inbox \in [Agents -> SUBSET Notices]
      /\ parent \in [Children -> Agents \cup {None}]
  BY DEF IInv, TypeOK
<1>1. root \in {"idle", "quiet", "counted", "exit"}
  <2>1. ~RootEnds
    BY <1>0 DEF RootEnds
  <2>2. ASSUME NEW x \in Actors, NEW t \in Agents, CloseBegins(x, t), x = t PROVE FALSE
    BY <2>2 DEF CloseBegins
  <2> QED
    BY <2>1, <2>2, RootSteps DEF Driver, RootRuns, RootReadsStore, RootReadsFinishing, RootLeaves,
       CloseBegins
<1>2. CASE \E x \in Notices : ReportNotifies(x) /\ parent[x[1]] = Root
  <2>1. PICK x \in Notices : ReportNotifies(x) /\ parent[x[1]] = Root
    BY <1>2
  <2>2. rep'[x] = "wake"
    BY <1>0, <1>1, <2>1 DEF ReportNotifies, Goto
  <2> QED BY <2>2
<1>3. CASE ~\E x \in Notices : ReportNotifies(x) /\ parent[x[1]] = Root
  <2>1. inbox[Root] # {}
    <3>1. CASE \E y \in Notices : ReportNotifies(y)
      BY <1>0, <1>3, <3>1 DEF ReportNotifies
    <3>2. CASE \E y \in Notices : ReportWakes(y)
      BY <1>0, <3>2 DEF ReportWakes
    <3>3. CASE \E y \in Notices : ReportSends(y)
      BY <1>0, <3>3 DEF ReportSends
    <3>4. CASE \E a \in Agents : WaitForgets(a)
      BY <1>0, <3>4 DEF WaitForgets
    <3>5. CASE \E a \in Agents : Takes(a)
      BY <1>0, <3>5 DEF Takes
    <3>6. CASE \E y \in Actors : CloseDrops(y)
      BY <1>0, <3>6 DEF CloseDrops
    <3> QED BY <3>1, <3>2, <3>3, <3>4, <3>5, <3>6, InboxSteps DEF RootEnds, RootRuns
  <2>2. PICK x \in Notices : rep[x] = "wake"
    BY <1>1, <2>1 DEF NoStrandedNotice
  <2>3. CASE \E c \in Children, st \in {"idle", "failed"} : RunEnds(c, st)
    <3>1. PICK c \in Children, st \in {"idle", "failed"} : RunEnds(c, st)
      BY <2>3
    <3>2. x # <<c, run[c]>>
      BY <2>2, <3>1 DEF RunEnds, NewsOK
    <3> QED BY <1>0, <2>2, <3>1, <3>2 DEF RunEnds
  <2>4. CASE \E y \in Notices : Report(y)
    <3>1. PICK y \in Notices : Report(y)
      BY <2>4
    <3>2. ~ReportWakes(x)
      <4>1. ASSUME ReportWakes(x) PROVE FALSE
        BY <1>0, <1>1, <2>1, <4>1 DEF ReportWakes
      <4> QED BY <4>1
    <3>3. rep'[x] = "wake"
      BY <1>0, <2>2, <3>1, <3>2 DEF Report, ReportClears, ReportRecords, ReportRefused,
         ReportReleases, ReportUnrecorded, ReportDiscards, ReportNotifies, ReportWakes,
         ReportSends, ReportDone, Goto
    <3> QED BY <3>3
  <2> QED BY <2>2, <2>3, <2>4, ReportSteps
<1> QED BY <1>2, <1>3

\* AgentInbox::push and end, wake_root: while the waker takes wake-ups, a root that rests has
\* a notice in its inbox only if the report that will wake it is under way.
THEOREM NoNoticeStranded == Spec => []NoStrandedNotice
<1>1. Init => NoStrandedNotice
  BY DEF Init, NoStrandedNotice
<1> QED BY <1>1, Inductive, BegunHolds, NewsHolds, NextStranded, PTL DEF Spec
-----------------------------------------------------------------------------
(* A running agent's copy is on disk *)

\* Worktrees are not verifiers' and snapshots are; a report discards a verifier's snapshot
\* only, and once its end is recorded; a copy of an open row is on disk, but for a snapshot
\* of a run that ended or was resumed.
CopiesOK ==
    /\ \A c \in Children :
          /\ status[c] = "none" => copy[c] = "none"
          /\ copy[c] = "worktree" => c \notin Verifiers
          /\ copy[c] = "snapshot" => c \in Verifiers
          /\ /\ ~Closed(c) /\ copy[c] # "none"
             /\ copy[c] = "snapshot" => run[c] = 1 /\ status[c] = "running"
             => disk[c] # 0
    /\ \A x \in Notices :
          /\ rep[x] = "discard" => x[1] \in Verifiers
          /\ rep[x] \in {"release", "discard", "notice"} /\ x[2] = run[x[1]] =>
                status[x[1]] # "running"

\* Which steps make a row run.
LEMMA MadeRunning ==
    ASSUME IInv, [Next]_vars, NEW c \in Children, status'[c] = "running",
           ~\E a \in Agents : SpawnRow(a, c),
           ~\E a \in Agents : op[a].pc = "resume" /\ op[a].child = c /\ Rerun(a, c)
    PROVE  status[c] = "running"
<1>0. /\ status \in [Agents -> Statuses]
      /\ out \in [Notices -> {"none", "idle", "failed"}]
  BY DEF IInv, TypeOK
<1>1. CASE \E a \in Agents, d \in Children : SpawnRow(a, d)
  <2>1. PICK a \in Agents, d \in Children : SpawnRow(a, d)
    BY <1>1
  <2>2. c # d
    BY <2>1
  <2> QED BY <1>0, <2>1, <2>2 DEF SpawnRow, InsertRow
<1>2. CASE \E a \in Agents : op[a].pc = "resume" /\ Rerun(a, op[a].child)
  <2>1. PICK a \in Agents : op[a].pc = "resume" /\ Rerun(a, op[a].child)
    BY <1>2
  <2>2. c # op[a].child
    BY <2>1
  <2> QED BY <1>0, <2>1, <2>2 DEF Rerun
<1>3. CASE \E a \in Agents : StartFails(a)
  BY <1>0, <1>3 DEF StartFails, FinishRow
<1>4. CASE \E y \in Notices : ReportRecords(y)
  <2>1. PICK y \in Notices : ReportRecords(y)
    BY <1>4
  <2>2. status' = [status EXCEPT ![y[1]] = IF @ = "closed" THEN @ ELSE out[y]]
    BY <2>1 DEF ReportRecords, FinishRow
  <2>3. out[y] # "running"
    BY <1>0
  <2> QED BY <1>0, <2>2, <2>3
<1>5. CASE \E y \in Actors, d \in Agents : CloseMarks(y, d)
  BY <1>0, <1>5 DEF CloseMarks
<1> QED BY <1>1, <1>2, <1>3, <1>4, <1>5, RowSteps

\* The copy of an open row is made by its start and thrown away by a report of it only.
LEMMA CopyMoves ==
    ASSUME IInv, ClosingOK, [Next]_vars, NEW c \in Children, ~Closed(c)
    PROVE  \/ copy'[c] = copy[c] /\ disk'[c] = disk[c]
           \/ \E a \in Agents, made \in BOOLEAN : Place(a, made) /\ op[a].child = c
           \/ \E x \in Notices : ReportDiscards(x) /\ x[1] = c
<1>0. /\ copy \in [Children -> {"none", "worktree", "snapshot"}]
      /\ disk \in [Children -> 0..MaxRuns]
  BY DEF IInv, TypeOK
<1>1. CASE \E a \in Agents, made \in BOOLEAN : Place(a, made)
  <2>1. PICK a \in Agents, made \in BOOLEAN : Place(a, made)
    BY <1>1
  <2>2. CASE op[a].child # c
    BY <1>0, <2>1, <2>2 DEF Place
  <2> QED BY <2>1, <2>2
<1>2. CASE \E x \in Notices : ReportDiscards(x)
  <2>1. PICK x \in Notices : ReportDiscards(x)
    BY <1>2
  <2>2. CASE x[1] # c
    BY <1>0, <2>1, <2>2 DEF ReportDiscards
  <2> QED BY <2>1, <2>2
<1>3. CASE \E x \in Actors : \E kept \in SUBSET op[x].tidy : CloseTidies(x, kept)
  <2>1. PICK x \in Actors : \E kept \in SUBSET op[x].tidy : CloseTidies(x, kept)
    BY <1>3
  <2>2. c \notin op[x].tidy
    BY DEF ClosingOK
  <2> QED BY <1>0, <2>1, <2>2 DEF CloseTidies
<1> QED BY <1>1, <1>2, <1>3, CopySteps

\* What CopiesOK says of a child is kept.
LEMMA NextCopy ==
    ASSUME IInv, BegunOK, ClosingOK, CopiesOK, [Next]_vars, NEW c \in Children
    PROVE  /\ status'[c] = "none" => copy'[c] = "none"
           /\ copy'[c] = "worktree" => c \notin Verifiers
           /\ copy'[c] = "snapshot" => c \in Verifiers
           /\ /\ ~Closed(c)' /\ copy'[c] # "none"
              /\ copy'[c] = "snapshot" => run'[c] = 1 /\ status'[c] = "running"
              => disk'[c] # 0
<1>0. /\ status \in [Agents -> Statuses]
      /\ run \in [Children -> 0..MaxRuns]
      /\ copy \in [Children -> {"none", "worktree", "snapshot"}]
      /\ disk \in [Children -> 0..MaxRuns]
      /\ op \in [Actors -> OpType]
  BY DEF IInv, TypeOK
<1>1. Closed(c) => Closed(c)'
  BY RowStays
<1>2. CASE \E a \in Agents, made \in BOOLEAN : Place(a, made) /\ op[a].child = c
  <2>1. PICK a \in Agents, made \in BOOLEAN : Place(a, made) /\ op[a].child = c
    BY <1>2
  <2>2. status[c] # "none" /\ run[c] >= 1
    BY <2>1 DEF IInv, CallsOK, CallOK, RunsOK, Numbered, Place, AtChild, Starting
  <2>3. status'[c] # "none"
    BY <2>2, RowStays
  <2>4. /\ copy'[c] = IF ~made THEN "none" ELSE IF c \in Verifiers THEN "snapshot" ELSE "worktree"
        /\ disk'[c] = IF made THEN run[c] ELSE 0
    BY <1>0, <2>1 DEF Place
  <2> QED BY <1>0, <2>2, <2>3, <2>4
<1>3. CASE \E x \in Notices : ReportDiscards(x) /\ x[1] = c
  <2>1. PICK x \in Notices : ReportDiscards(x) /\ x[1] = c
    BY <1>3
  <2>2. UNCHANGED <<status, run, copy, revived>> /\ rep[x] = "discard"
    BY <2>1 DEF ReportDiscards, rows, history
  <2>3. copy[c] # "worktree" /\ x[2] <= run[c] /\ x[2] \in Runs
    BY <2>1, <2>2 DEF CopiesOK, BegunOK, Notices
  <2>4. ~(run[c] = 1 /\ status[c] = "running")
    BY <1>0, <2>1, <2>2, <2>3 DEF CopiesOK, Runs
  <2> QED BY <1>0, <2>2, <2>3, <2>4 DEF CopiesOK
<1>4. CASE copy'[c] = copy[c] /\ disk'[c] = disk[c]
  <2>1. status'[c] = "none" => status[c] = "none"
    BY RowStays
  <2>2. ASSUME copy[c] = "snapshot", run'[c] = 1, status'[c] = "running"
        PROVE  run[c] = 1 /\ status[c] = "running"
    <3>1. status[c] # "none" /\ run[c] >= 1
      BY <2>2 DEF CopiesOK, IInv, RunsOK, Numbered
    <3>2. ASSUME NEW a \in Agents, SpawnRow(a, c) PROVE FALSE
      BY <3>1, <3>2 DEF SpawnRow
    <3>3. ASSUME NEW a \in Agents, op[a].child = c, Rerun(a, c) PROVE FALSE
      BY <1>0, <2>2, <3>1, <3>3 DEF Rerun
    <3> QED BY <2>2, <3>2, <3>3, RunStays, MadeRunning
  <2> QED BY <1>0, <1>1, <1>4, <2>1, <2>2 DEF CopiesOK
<1>5. CASE Closed(c)
  <2>1. CASE \E a \in Agents, made \in BOOLEAN : Place(a, made)
    <3>1. PICK a \in Agents, made \in BOOLEAN : Place(a, made)
      BY <2>1
    <3>2. op[a].child # c => copy'[c] = copy[c] /\ disk'[c] = disk[c]
      BY <1>0, <3>1 DEF Place
    <3> QED BY <1>2, <1>4, <3>1, <3>2
  <2>2. CASE UNCHANGED copy
    <3>1. status'[c] = "none" => status[c] = "none"
      BY RowStays
    <3> QED BY <1>1, <1>5, <2>2, <3>1 DEF CopiesOK
  <2>3. UNCHANGED copy \/ \E a \in Agents, made \in BOOLEAN : Place(a, made)
    BY CopySteps DEF ReportDiscards, CloseTidies
  <2> QED BY <2>1, <2>2, <2>3
<1> QED BY <1>2, <1>3, <1>4, <1>5, CopyMoves

\* What CopiesOK says of a report is kept.
LEMMA NextDiscard ==
    ASSUME IInv, BegunOK, CopiesOK, [Next]_vars, NEW x \in Notices
    PROVE  /\ rep'[x] = "discard" => x[1] \in Verifiers
           /\ rep'[x] \in {"release", "discard", "notice"} /\ x[2] = run'[x[1]] =>
                 status'[x[1]] # "running"
<1>0. /\ status \in [Agents -> Statuses]
      /\ rep \in [Notices -> RepPcs]
      /\ out \in [Notices -> {"none", "idle", "failed"}]
      /\ run \in [Children -> 0..MaxRuns] /\ run' \in [Children -> 0..MaxRuns]
      /\ x[1] \in Children /\ x[2] \in Runs
  BY NextIInv DEF IInv, TypeOK, Notices
<1>1. CASE rep[x] \in {"release", "discard", "notice"} /\ rep'[x] \in {"release", "discard", "notice"}
  <2>1. rep'[x] = "discard" => rep[x] = "discard" \/ copy[x[1]] = "snapshot"
    <3>1. CASE \E y \in Notices : Report(y)
      BY <1>0, <1>1, <3>1 DEF Report, ReportClears, ReportRecords, ReportRefused, ReportReleases,
         ReportUnrecorded, ReportDiscards, ReportNotifies, ReportWakes, ReportSends, ReportDone,
         Goto, AfterRelease
    <3>2. CASE \E c \in Children, st \in {"idle", "failed"} : RunEnds(c, st)
      BY <1>0, <1>1, <3>2 DEF RunEnds
    <3> QED BY <3>1, <3>2, ReportSteps
  <2>2. ASSUME x[2] = run'[x[1]], status'[x[1]] = "running" PROVE FALSE
    <3>1. x[2] <= run[x[1]] /\ run[x[1]] <= run'[x[1]]
      BY <1>0, <1>1, RowStays DEF BegunOK
    <3>2. x[2] = run[x[1]]
      BY <1>0, <2>2, <3>1 DEF Runs
    <3>3. status[x[1]] # "running" /\ status[x[1]] # "none"
      BY <1>0, <1>1, <3>2 DEF CopiesOK, BegunOK, Runs
    <3>4. ASSUME NEW a \in Agents, SpawnRow(a, x[1]) PROVE FALSE
      BY <3>3, <3>4 DEF SpawnRow
    <3>5. ASSUME NEW a \in Agents, op[a].child = x[1], Rerun(a, x[1]) PROVE FALSE
      <4>1. run'[x[1]] = run[x[1]] + 1
        BY <1>0, <3>5 DEF Rerun
      <4>2. run[x[1]] \in Nat
        BY <1>0
      <4>3. ASSUME NEW n \in Nat PROVE n + 1 # n
        OBVIOUS
      <4>4. run'[x[1]] # run[x[1]]
        BY <4>1, <4>2, <4>3
      <4> QED BY <2>2, <3>2, <4>4
    <3> QED BY <1>0, <2>2, <3>3, <3>4, <3>5, MadeRunning
  <2> QED BY <1>0, <1>1, <2>1, <2>2 DEF CopiesOK
<1>2. CASE rep[x] \notin {"release", "discard", "notice"} /\ rep'[x] \in {"release", "discard", "notice"}
  <2>1. ReportRecords(x)
    <3>1. ~\E c \in Children, st \in {"idle", "failed"} : RunEnds(c, st)
      BY <1>0, <1>2 DEF RunEnds
    <3>2. PICK y \in Notices : Report(y)
      BY <1>2, <3>1, ReportSteps
    <3>3. y = x
      BY <1>0, <1>2, <3>2 DEF Report, ReportClears, ReportRecords, ReportRefused, ReportReleases,
         ReportUnrecorded, ReportDiscards, ReportNotifies, ReportWakes, ReportSends, ReportDone,
         Goto
    <3> QED BY <1>0, <1>2, <3>2, <3>3 DEF Report, ReportClears, ReportRefused, ReportReleases,
         ReportUnrecorded, ReportDiscards, ReportNotifies, ReportWakes, ReportSends, ReportDone,
         Goto
  <2>2. rep'[x] = "discard" => copy[x[1]] = "snapshot"
    BY <1>0, <2>1 DEF ReportRecords, Goto, AfterRelease
  <2>3. status'[x[1]] # "running"
    BY <1>0, <2>1 DEF ReportRecords, FinishRow
  <2> QED BY <1>0, <2>2, <2>3 DEF CopiesOK
<1> QED BY <1>1, <1>2

\* CopiesOK is kept.
LEMMA NextCopies == IInv /\ BegunOK /\ ClosingOK /\ CopiesOK /\ [Next]_vars => CopiesOK'
<1> SUFFICES ASSUME IInv, BegunOK, ClosingOK, CopiesOK, [Next]_vars PROVE CopiesOK'
  OBVIOUS
<1> QED BY NextCopy, NextDiscard DEF CopiesOK

\* place, report and close_tree: the copy a running agent works in is on disk, unless it is a
\* resumed verifier's or a resume overtook a close of the agent.
THEOREM CopiesKept == Spec => []CopyUnderRun
<1>1. Init => CopiesOK
  BY DEF Init, CopiesOK, Closed
<1>2. Spec => []CopiesOK
  BY <1>1, Inductive, BegunHolds, ClosingHolds, NextCopies, PTL DEF Spec
<1>3. IInv /\ CopiesOK => CopyUnderRun
  BY DEF CopiesOK, CopyUnderRun, Closed, IInv, RunsOK, OneRun
<1> QED BY <1>2, <1>3, Inductive, PTL
-----------------------------------------------------------------------------
(* `ferrule run` leaves its loop when all is said *)

AtRest == root \in {"idle", "quiet", "counted", "exit"} => op[Root].pc = "ready"

\* An agent in a call has a task.
Alive == \A a \in Children : op[a].pc # "ready" => task[a] # "none"

\* Once busy() found no row running, only what a closed agent goes on to start runs.
QuietOK ==
    root \in {"quiet", "counted", "exit"} =>
        \A c \in Children : status[c] = "running" => UnderClosed(c) /\ parent[c] # Root

\* Once it found `finishing` at 0 too, only such a run or a closed agent's own reports,
\* and none to the root.
CountedOK ==
    root \in {"counted", "exit"} =>
        \A x \in Finishing :
            /\ UnderClosed(x[1]) /\ rep[x] \notin {"wake", "send"}
            /\ parent[x[1]] = Root =>
                 /\ status[x[1]] = "closed"
                 /\ rep[x] \in {"clear", "record", "unrecorded", "done"}

LeavingOK == AtRest /\ Alive /\ QuietOK /\ CountedOK /\ (root = "exit" => woken = {})

\* A call and a close change the call of their own caller only.
LEMMA CallOthers ==
    ASSUME IInv, NEW b \in Agents, Call(b), NEW a \in Actors, a # b
    PROVE  op'[a] = op[a]
<1>0. op \in [Actors -> OpType]
  BY DEF IInv, TypeOK
<1> QED
  BY <1>0 DEF Call, SpawnRow, InsertRow, ResumeReads, Place, StartFails, StartResets,
     StartLaunches, ResumeRow, Rerun, WaitBegins, WaitReadsRows, WaitChecks, WaitForgets, Takes

\* See CallOthers.
LEMMA CloseOthers ==
    ASSUME IInv, NEW x \in Actors, Close(x) \/ \E t \in Agents : CloseBegins(x, t),
           NEW a \in Actors, a # x
    PROVE  op'[a] = op[a]
<1>0. op \in [Actors -> OpType]
  BY DEF IInv, TypeOK
<1> QED
  BY <1>0 DEF Close, CloseMarks, CloseHalts, CloseDrops, CloseJoins, CloseAborts, CloseTidies,
     CloseBegins

\* What is below an agent stays below it, and so does a child of what is.
LEMMA SubtreeGrows ==
    ASSUME IInv, BegunOK, [Next]_vars, NEW a \in Agents
    PROVE  /\ \A d \in Agents : d \in Subtree(a) => d \in Subtree(a)'
           /\ \A c \in Children, d \in Agents :
                 d \in Subtree(a) /\ parent'[c] = d => c \in Subtree(a)'
<1>0. parent \in [Children -> Agents \cup {None}] /\ None \notin Agents
  BY DEF IInv, TypeOK
<1>1. ASSUME NEW S \in SUBSET Agents, \A c \in Children : parent'[c] \in S => c \in S,
             NEW c \in Children, parent[c] \in S
      PROVE  c \in S
  <2>1. parent[c] # None
    BY <1>0, <1>1
  <2> QED BY <1>1, <2>1, ParentStays
<1>2. ASSUME NEW d \in Agents, d \in Subtree(a) PROVE d \in Subtree(a)'
  <2> SUFFICES ASSUME NEW S \in SUBSET Agents, a \in S,
                      \A c \in Children : parent'[c] \in S => c \in S
               PROVE  d \in S
    BY DEF Subtree
  <2> QED BY <1>1, <1>2 DEF Subtree
<1>3. ASSUME NEW c \in Children, NEW d \in Agents, d \in Subtree(a), parent'[c] = d
      PROVE  c \in Subtree(a)'
  <2> SUFFICES ASSUME NEW S \in SUBSET Agents, a \in S,
                      \A e \in Children : parent'[e] \in S => e \in S
               PROVE  c \in S
    BY DEF Subtree
  <2>1. d \in S
    BY <1>1, <1>3 DEF Subtree
  <2> QED BY <1>3, <2>1
<1> QED BY <1>2, <1>3

\* An agent is below itself.
LEMMA BelowItself == \A a \in Agents : a \in Subtree(a)
  BY DEF Subtree

\* What is below a closed agent stays so.
LEMMA BelowStays ==
    ASSUME IInv, BegunOK, [Next]_vars, NEW c \in Children, UnderClosed(c)
    PROVE  UnderClosed(c)'
<1>1. PICK a \in Children : Closed(a) /\ c \in Subtree(a)
  BY DEF UnderClosed, Closed
<1>2. Closed(a)' /\ c \in Subtree(a)'
  BY <1>1, RowStays, SubtreeGrows
<1> QED BY <1>2 DEF UnderClosed, Closed

\* While the loop is being left, a child that is set running is set so by an agent below
\* a closed one.
LEMMA StartedBelow ==
    ASSUME IInv, BegunOK, LeavingOK, [Next]_vars, root \in {"quiet", "counted", "exit"},
           NEW a \in Agents, NEW c \in Children, parent'[c] = a,
           \/ CanCall(a)
           \/ op[a].pc = "resume"
    PROVE  UnderClosed(c)' /\ a # Root
<1>0. status \in [Agents -> Statuses]
  BY DEF IInv, TypeOK
<1>1. a # Root
  BY DEF LeavingOK, AtRest, CanCall
<1>2. a \in Children /\ task[a] # "none"
  BY <1>1 DEF LeavingOK, Alive, CanCall
<1>3. status[a] \in {"running", "closed"}
  BY <1>2 DEF IInv, RunsOK, OneRun
<1>4. PICK b \in Children : Closed(b) /\ a \in Subtree(b)
  <2>1. CASE status[a] = "closed"
    BY <1>2, <2>1, BelowItself DEF Closed
  <2>2. CASE status[a] = "running"
    BY <1>2, <2>2 DEF LeavingOK, QuietOK, UnderClosed, Closed
  <2> QED BY <1>3, <2>1, <2>2
<1>5. Closed(b)' /\ c \in Subtree(b)'
  BY <1>2, <1>4, RowStays, SubtreeGrows
<1> QED BY <1>1, <1>5 DEF UnderClosed, Closed

\* AtRest is kept: a root at rest makes no call, and closes the tree only as it leaves.
LEMMA NextAtRest ==
    ASSUME IInv, BegunOK, NewsOK, LeavingOK, [Next]_vars,
           root' \in {"idle", "quiet", "counted", "exit"}
    PROVE  op'[Root].pc = "ready"
<1>0. op \in [Actors -> OpType] /\ Root # Owner
  BY DEF IInv, TypeOK
<1>1. op[Root].pc = "ready" /\ root' # "left" /\ (root = "running" => RootEnds)
  <2>1. CASE root \in {"idle", "quiet", "counted", "exit"}
    BY <2>1 DEF LeavingOK, AtRest
  <2>2. CASE root \notin {"idle", "quiet", "counted", "exit"}
    <3>1. \A x \in Actors, t \in Agents : CloseBegins(x, t) => root' \in {root, "left"}
      BY DEF CloseBegins
    <3>2. RootEnds
      BY <2>2, <3>1, RootSteps DEF Driver, RootRuns, RootReadsStore, RootReadsFinishing, RootLeaves
    <3> QED BY <3>2 DEF RootEnds
  <2> QED
    <3>1. ASSUME root = "running" PROVE RootEnds
      <4>1. \A x \in Actors, t \in Agents : CloseBegins(x, t) => root' \in {root, "left"}
        BY DEF CloseBegins
      <4> QED
        BY <3>1, <4>1, RootSteps DEF Driver, RootRuns, RootReadsStore, RootReadsFinishing, RootLeaves
    <3> QED BY <2>1, <2>2, <3>1
<1>2. CASE RootEnds
  BY <1>1, <1>2 DEF RootEnds
<1>3. CASE root # "running"
  <2>1. ~CanCall(Root)
    BY <1>3 DEF CanCall
  <2>2. ~Call(Root)
    BY <1>1, <2>1 DEF Call, SpawnRow, ResumeReads, Place, StartFails, StartResets,
       StartLaunches, ResumeRow, WaitBegins, WaitReadsRows, WaitChecks, WaitForgets, Takes
  <2>3. CASE \E x \in Actors : Close(x) \/ \E t \in Agents : CloseBegins(x, t)
    <3>1. PICK x \in Actors : Close(x) \/ \E t \in Agents : CloseBegins(x, t)
      BY <2>3
    <3>2. CASE x = Root
      <4>1. ~Close(Root)
        BY <1>1 DEF Close, CloseMarks, CloseHalts, CloseDrops, CloseJoins, CloseAborts,
           CloseTidies, Marked
      <4>2. PICK t \in Agents : CloseBegins(Root, t)
        BY <3>1, <3>2, <4>1
      <4>3. t = Root
        BY <1>0, <2>1, <4>2 DEF CloseBegins
      <4> QED BY <1>1, <4>2, <4>3 DEF CloseBegins
    <3>3. CASE x # Root
      <4>1. op'[Root] = op[Root]
        BY <3>1, <3>3, CloseOthers
      <4> QED BY <1>1, <4>1
    <3> QED BY <3>2, <3>3
  <2>4. CASE \E b \in Agents : Call(b)
    <3>1. PICK b \in Agents : Call(b)
      BY <2>4
    <3>2. b # Root
      BY <2>2, <3>1
    <3> QED BY <1>1, <3>1, <3>2, CallOthers
  <2>5. CASE \E t \in Agents : OwnerAsks(t) \/ OwnerAsksNext(t)
    BY <1>0, <1>1, <2>5 DEF OwnerAsks, OwnerAsksNext
  <2>6. CASE \E c \in Children : TaskDies(c)
    BY <1>0, <1>1, <2>6 DEF TaskDies
  <2> QED BY <1>1, <2>3, <2>4, <2>5, <2>6, CallSteps
<1> QED BY <1>1, <1>2, <1>3

\* Alive is kept: a run ends between two calls, and a task that dies takes its call along.
LEMMA NextAlive ==
    ASSUME IInv, LeavingOK, [Next]_vars, NEW a \in Children, op'[a].pc # "ready"
    PROVE  task'[a] # "none"
<1>0. /\ op \in [Actors -> OpType] /\ a \in Agents /\ a # Root /\ a # Owner
      /\ task \in [Children -> {"none", "run", "aborting"}]
  BY DEF IInv, TypeOK
<1>1. task[a] # "none"
  <2>1. CASE op[a].pc # "ready"
    BY <2>1 DEF LeavingOK, Alive
  <2>2. CASE op[a].pc = "ready"
    <3>1. CASE \E b \in Agents : Call(b)
      <4>1. PICK b \in Agents : Call(b)
        BY <3>1
      <4>2. b = a
        BY <1>0, <2>2, <4>1, CallOthers
      <4>3. CanCall(a)
        BY <2>2, <4>1, <4>2 DEF Call, SpawnRow, ResumeReads, Place, StartFails, StartResets,
           StartLaunches, ResumeRow, WaitBegins, WaitReadsRows, WaitChecks, WaitForgets, Takes
      <4> QED BY <1>0, <4>3 DEF CanCall
    <3>2. CASE \E x \in Actors : Close(x) \/ \E t \in Agents : CloseBegins(x, t)
      <4>1. PICK x \in Actors : Close(x) \/ \E t \in Agents : CloseBegins(x, t)
        BY <3>2
      <4>2. x = a
        BY <1>0, <2>2, <4>1, CloseOthers
      <4>3. \E t \in Agents : CloseBegins(a, t)
        BY <2>2, <4>1, <4>2 DEF Close, CloseMarks, CloseHalts, CloseDrops, CloseJoins,
           CloseAborts, CloseTidies, Marked
      <4> QED BY <1>0, <4>3 DEF CloseBegins, CanCall
    <3>3. CASE \E t \in Agents : OwnerAsks(t) \/ OwnerAsksNext(t)
      BY <1>0, <2>2, <3>3 DEF OwnerAsks, OwnerAsksNext
    <3>4. CASE \E c \in Children : TaskDies(c)
      BY <1>0, <2>2, <3>4 DEF TaskDies, Ready
    <3> QED BY <2>2, <3>1, <3>2, <3>3, <3>4, CallSteps
  <2> QED BY <2>1, <2>2
<1>2. CASE \E b \in Agents : StartLaunches(b)
  BY <1>0, <1>1, <1>2 DEF StartLaunches
<1>3. CASE \E c \in Children, st \in {"idle", "failed"} : RunEnds(c, st)
  BY <1>0, <1>1, <1>3 DEF RunEnds
<1>4. CASE \E c \in Children : TaskDies(c)
  BY <1>0, <1>1, <1>4 DEF TaskDies, Ready
<1>5. CASE \E x \in Actors : CloseAborts(x)
  BY <1>0, <1>1, <1>5 DEF CloseAborts
<1> QED BY <1>1, <1>2, <1>3, <1>4, <1>5, TaskSteps

\* The states of the loop's last look follow each other.
LEMMA LeavingSteps ==
    ASSUME [Next]_vars
    PROVE  /\ root' = "exit" => root = "exit" \/ RootLeaves
           /\ root' \in {"counted", "exit"} =>
                 root \in {"counted", "exit"} \/ (RootReadsFinishing /\ Finishing = {})
           /\ root' \in {"quiet", "counted", "exit"} =>
                 root \in {"quiet", "counted", "exit"} \/ RootReadsStore
<1>1. \A x \in Actors, t \in Agents : CloseBegins(x, t) => root' \in {root, "left"}
  BY DEF CloseBegins
<1>2. UNCHANGED root \/ Driver \/ root' \in {root, "left"}
  BY <1>1, RootSteps
<1>3. CASE Driver
  BY <1>3 DEF Driver, RootEnds, RootRuns, RootReadsStore, RootReadsFinishing, RootLeaves
<1> QED BY <1>2, <1>3

\* A child with a run or a report has a parent for ever.
LEMMA BegunParent ==
    ASSUME IInv, BegunOK, [Next]_vars, NEW c \in Children,
           \/ status[c] # "none" \/ task[c] # "none"
           \/ \E n \in Runs : rep[<<c, n>>] # "none"
    PROVE  parent[c] # None /\ parent'[c] = parent[c] /\ status[c] # "none"
<1>0. run \in [Children -> 0..MaxRuns]
  BY DEF IInv, TypeOK
<1>1. run[c] >= 1
  <2>1. CASE \E n \in Runs : rep[<<c, n>>] # "none"
    <3>1. PICK n \in Runs : rep[<<c, n>>] # "none"
      BY <2>1
    <3>2. <<c, n>> \in Notices
      BY DEF Notices
    <3>3. n <= run[c]
      BY <3>1, <3>2 DEF BegunOK
    <3> QED BY <1>0, <3>3 DEF Runs
  <2> QED BY <2>1 DEF IInv, RunsOK, Numbered
<1>2. parent[c] # None
  BY <1>1 DEF BegunOK
<1> QED BY <1>2, ParentStays

\* QuietOK is kept.
LEMMA NextQuiet ==
    ASSUME IInv, BegunOK, LeavingOK, [Next]_vars, root' \in {"quiet", "counted", "exit"},
           NEW c \in Children, status'[c] = "running"
    PROVE  UnderClosed(c)' /\ parent'[c] # Root
<1>0. /\ op \in [Actors -> OpType]
      /\ parent \in [Children -> Agents \cup {None}]
  BY DEF IInv, TypeOK
<1>1. CASE RootReadsStore
  BY <1>1 DEF RootReadsStore, rows
<1>2. CASE root \in {"quiet", "counted", "exit"}
  <2>1. CASE \E a \in Agents : SpawnRow(a, c)
    <3>1. PICK a \in Agents : SpawnRow(a, c)
      BY <2>1
    <3>2. CanCall(a) /\ parent'[c] = a
      BY <1>0, <3>1 DEF SpawnRow, InsertRow
    <3> QED BY <1>2, <3>2, StartedBelow
  <2>2. CASE \E a \in Agents : op[a].pc = "resume" /\ op[a].child = c /\ Rerun(a, c)
    <3>1. PICK a \in Agents : op[a].pc = "resume" /\ op[a].child = c /\ Rerun(a, c)
      BY <2>2
    <3>2. parent'[c] = a
      BY <3>1 DEF IInv, CallsOK, CallOK, AtChild, Rerun
    <3> QED BY <1>2, <3>1, <3>2, StartedBelow
  <2>3. CASE status[c] = "running"
    <3>1. UnderClosed(c) /\ parent[c] # Root
      BY <1>2, <2>3 DEF LeavingOK, QuietOK
    <3>2. parent'[c] = parent[c]
      BY <2>3, BegunParent
    <3> QED BY <3>1, <3>2, BelowStays
  <2> QED BY <2>1, <2>2, <2>3, MadeRunning
<1> QED BY <1>1, <1>2, LeavingSteps

\* CountedOK is kept: a run that ends meanwhile was below a closed agent, and a closed
\* agent's report gives no notice.
LEMMA NextCounted ==
    ASSUME IInv, BegunOK, LeavingOK, [Next]_vars, root' \in {"counted", "exit"},
           NEW x \in Notices, rep'[x] # "none"
    PROVE  /\ UnderClosed(x[1])' /\ rep'[x] \notin {"wake", "send"}
           /\ parent'[x[1]] = Root =>
                /\ status'[x[1]] = "closed"
                /\ rep'[x] \in {"clear", "record", "unrecorded", "done"}
<1>0. /\ rep \in [Notices -> RepPcs]
      /\ status \in [Agents -> Statuses]
      /\ op \in [Actors -> OpType]
      /\ x[1] \in Children /\ x[2] \in Runs /\ x = <<x[1], x[2]>>
  BY DEF IInv, TypeOK, Notices
<1>1. CASE RootReadsFinishing /\ Finishing = {}
  BY <1>0, <1>1 DEF RootReadsFinishing, Finishing, reporting
<1>2. CASE root \in {"counted", "exit"} /\ rep[x] = "none"
  <2>1. PICK st \in {"idle", "failed"} : RunEnds(x[1], st) /\ x[2] = run[x[1]]
    BY <1>2, NoReportYet
  <2>2. rep'[x] = "clear" /\ UNCHANGED <<status, parent>> /\ task[x[1]] = "run"
    BY <1>0, <2>1 DEF RunEnds, rows
  <2>3. status[x[1]] \in {"running", "closed"}
    BY <1>0, <2>2 DEF IInv, RunsOK, OneRun
  <2>4. CASE status[x[1]] = "running"
    <3>1. UnderClosed(x[1]) /\ parent[x[1]] # Root
      BY <1>0, <1>2, <2>4 DEF LeavingOK, QuietOK
    <3> QED BY <1>0, <2>2, <3>1, BelowStays
  <2>5. CASE status[x[1]] = "closed"
    <3>1. UnderClosed(x[1])
      BY <1>0, <2>5, BelowItself DEF UnderClosed
    <3> QED BY <1>0, <2>2, <2>5, <3>1, BelowStays
  <2> QED BY <2>3, <2>4, <2>5
<1>3. CASE root \in {"counted", "exit"} /\ rep[x] # "none"
  <2>1. /\ UnderClosed(x[1]) /\ rep[x] \notin {"wake", "send"}
        /\ parent[x[1]] = Root =>
             /\ status[x[1]] = "closed"
             /\ rep[x] \in {"clear", "record", "unrecorded", "done"}
    BY <1>3 DEF LeavingOK, CountedOK, Finishing
  <2>2. parent'[x[1]] = parent[x[1]]
    BY <1>0, <1>3, BegunParent
  <2>3. /\ rep'[x] \notin {"wake", "send"}
        /\ parent[x[1]] = Root => rep'[x] \in {"clear", "record", "unrecorded", "done"}
    <3>1. CASE \E c \in Children, st \in {"idle", "failed"} : RunEnds(c, st)
      BY <1>0, <2>1, <3>1 DEF RunEnds
    <3>2. CASE \E y \in Notices : Report(y)
      <4>1. PICK y \in Notices : Report(y)
        BY <3>2
      <4>2. CASE y # x
        <5>1. rep'[x] = rep[x]
          BY <1>0, <4>1, <4>2 DEF Report, ReportClears, ReportRecords, ReportRefused,
             ReportReleases, ReportUnrecorded, ReportDiscards, ReportNotifies, ReportWakes,
             ReportSends, ReportDone, Goto
        <5> QED BY <2>1, <5>1
      <4>3. CASE y = x
        <5>1. ~ReportWakes(x) /\ ~ReportSends(x)
          BY <2>1 DEF ReportWakes, ReportSends
        <5>2. rep'[x] \notin {"wake", "send"}
          BY <1>0, <2>1, <4>1, <4>3, <5>1 DEF Report, ReportClears, ReportRecords, ReportRefused,
             ReportReleases, ReportUnrecorded, ReportDiscards, ReportNotifies, ReportDone,
             Goto, AfterRelease
        <5>3. ASSUME parent[x[1]] = Root
              PROVE  rep'[x] \in {"clear", "record", "unrecorded", "done"}
          BY <1>0, <1>3, <2>1, <4>1, <4>3, <5>1, <5>3 DEF Report, ReportClears, ReportRecords,
             ReportRefused, ReportReleases, ReportUnrecorded, ReportDiscards, ReportNotifies,
             ReportDone, Goto, AfterRelease
        <5> QED BY <5>2, <5>3
      <4> QED BY <4>2, <4>3
    <3> QED BY <2>1, <3>1, <3>2, ReportSteps
  <2>4. ASSUME parent[x[1]] = Root PROVE status'[x[1]] = "closed"
    <3>1. status[x[1]] = "closed" /\ op[Root].pc = "ready"
      BY <1>3, <2>1, <2>4 DEF LeavingOK, AtRest
    <3>2. CASE \E a \in Agents : op[a].pc = "resume" /\ Rerun(a, op[a].child)
      <4>1. PICK a \in Agents : op[a].pc = "resume" /\ Rerun(a, op[a].child)
        BY <3>2
      <4>2. op[a].child # x[1]
        BY <2>4, <3>1, <4>1 DEF IInv, CallsOK, CallOK, AtChild
      <4> QED BY <1>0, <3>1, <4>1, <4>2 DEF Rerun
    <3>3. CASE \E a \in Agents, d \in Children : SpawnRow(a, d)
      BY <1>0, <3>1, <3>3 DEF SpawnRow, InsertRow
    <3>4. CASE \E a \in Agents : StartFails(a)
      BY <1>0, <3>1, <3>4 DEF StartFails, FinishRow
    <3>5. CASE \E y \in Notices : ReportRecords(y)
      BY <1>0, <3>1, <3>5 DEF ReportRecords, FinishRow
    <3>6. CASE \E y \in Actors, d \in Agents : CloseMarks(y, d)
      BY <1>0, <3>1, <3>6 DEF CloseMarks
    <3> QED BY <3>1, <3>2, <3>3, <3>4, <3>5, <3>6, RowSteps
  <2> QED BY <1>0, <2>1, <2>2, <2>3, <2>4, BelowStays
<1> QED BY <1>1, <1>2, <1>3, LeavingSteps

\* Nothing is sent to a loop that is left.
LEMMA NextSent ==
    ASSUME IInv, LeavingOK, [Next]_vars, root' = "exit"
    PROVE  woken' = {}
<1>1. CASE RootLeaves
  BY <1>1 DEF RootLeaves
<1>2. CASE root = "exit"
  <2>1. woken = {} /\ \A x \in Notices : rep[x] # "send"
    BY <1>2 DEF LeavingOK, CountedOK, Finishing
  <2> QED
    BY <1>2, <2>1, InboxSteps DEF ReportNotifies, ReportWakes, ReportSends, WaitForgets, Takes,
       CloseDrops, RootEnds, RootRuns, driver
<1> QED BY <1>1, <1>2, LeavingSteps

\* LeavingOK is kept.
LEMMA NextLeaving == IInv /\ BegunOK /\ NewsOK /\ LeavingOK /\ [Next]_vars => LeavingOK'
<1> SUFFICES ASSUME IInv, BegunOK, NewsOK, LeavingOK, [Next]_vars PROVE LeavingOK'
  OBVIOUS
<1>1. AtRest'
  BY NextAtRest DEF AtRest
<1>2. Alive'
  BY NextAlive DEF Alive
<1>3. QuietOK'
  BY NextQuiet DEF QuietOK
<1>4. CountedOK'
  BY NextCounted DEF CountedOK, Finishing
<1> QED BY <1>1, <1>2, <1>3, <1>4, NextSent DEF LeavingOK

\* busy(), `finishing` and the inbox: `ferrule run` leaves its loop only when no agent runs
\* or reports but below a closed one, and every end of a child of the root was read by it.
THEOREM LoopExits == Spec => []LoopExitComplete
<1>1. Init => LeavingOK
  BY DEF Init, LeavingOK, AtRest, Alive, QuietOK, CountedOK, Ready
<1>2. Spec => []LeavingOK
  BY <1>1, Inductive, BegunHolds, NewsHolds, NextLeaving, PTL DEF Spec
<1>3. LeavingOK /\ NoStrandedNotice => LoopExitComplete
  BY DEF LeavingOK, QuietOK, CountedOK, Finishing, NoStrandedNotice, LoopExitComplete
<1> QED BY <1>2, <1>3, NoNoticeStranded, PTL
=============================================================================
