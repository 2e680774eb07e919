------------------------------- MODULE Caps -------------------------------
(***************************************************************************)
(* The spend caps: per run, per day and per scheduled task.                *)
(*                                                                         *)
(* Several processes append to one ledger; each counts the day back from   *)
(* it with a meter that reads only the file's new tail, and a run's spend  *)
(* from its own memory.  A cap is looked at before a model call and while  *)
(* it is under way.  A write may be torn, fail, or die with its process;   *)
(* midnight starts a new day at any point.                                 *)
(*                                                                         *)
(* One unit stands for tokens and dollars alike; a model call spends one,  *)
(* or none, as on a plan.                                                  *)
(***************************************************************************)
EXTENDS Integers, Sequences, FiniteSets, FiniteSetsExt

CONSTANTS
    Agents, Procs, Trees, Tasks,
    NoTask,
    ProcOf, TreeOf,      \* of each tree; of each agent
    TaskOf,              \* of each tree
    Roots,               \* the agents at the root of their tree
    RunCap, DayCap, TaskCap,
    PerCheck,            \* model calls behind one check: a compaction's pieces, the turn
    MaxDay,              \* bound: the last day
    MaxCalls,            \* bound: the model calls
    MaxTroubles          \* bound: torn and failed writes, deaths, turns of the switch

ASSUME CapsAssumption ==
    /\ ProcOf \in [Trees -> Procs] /\ TreeOf \in [Agents -> Trees]
    /\ NoTask \notin Tasks /\ TaskOf \in [Trees -> Tasks \cup {NoTask}]
    /\ Roots \subseteq Agents /\ IsFiniteSet(Agents)
    /\ {RunCap, DayCap, TaskCap, MaxCalls, MaxTroubles} \subseteq Nat
    /\ PerCheck \in Nat \ {0} /\ MaxDay \in Nat \ {0}

VARIABLES
    now,                 \* the day
    ledger,              \* the file: whole rows, and halves that end in no newline
    readable,
    kill,                \* the stop file
    meter,               \* per process: Meter's State
    spend,               \* RunState::spend, per tree
    pc, calls, overAtStart, stamp,   \* per agent
    made, troubles

files == <<ledger, readable, kill>>
memory == <<meter, spend>>
agents == <<pc, calls, overAtStart, stamp>>
bounds == <<made, troubles>>
vars == <<now, files, memory, agents, bounds>>

Proc(a) == ProcOf[TreeOf[a]]
Task(a) == TaskOf[TreeOf[a]]

Fresh(day) == [day |-> day, offset |-> 0, today |-> 0, tasks |-> [t \in Tasks |-> 0]]

Init ==
    /\ now = 1 /\ ledger = <<>> /\ readable = TRUE /\ kill = FALSE
    /\ meter = [p \in Procs |-> Fresh(0)]
    /\ spend = [t \in Trees |-> 0]
    /\ pc = [a \in Agents |-> "idle"] /\ calls = [a \in Agents |-> 0]
    /\ overAtStart = [a \in Agents |-> FALSE] /\ stamp = [a \in Agents |-> 0]
    /\ made = 0 /\ troubles = 0

Trouble == troubles < MaxTroubles /\ troubles' = troubles + 1

-----------------------------------------------------------------------------
(* The meter *)

Half == [whole |-> FALSE, tree |-> CHOOSE t \in Trees : TRUE, day |-> 0]
Row(tree, day) == [whole |-> TRUE, tree |-> tree, day |-> day]

\* The rows of a part of the file that parse, and are of this day: what follows a half
\* is one line with it.
Counted(from, to, day) ==
    {i \in from..to : /\ ledger[i].whole /\ ledger[i].day = day
                      /\ i > from => ledger[i - 1].whole}

OfTask(rows, task) == {i \in rows : TaskOf[ledger[i].tree] = task}

\* A plausible bug, no part of the specification: the half line is passed over.
ReadToTheEnd(p) ==
    LET st == IF meter[p].day = now THEN meter[p] ELSE Fresh(now)
        rows == Counted(st.offset + 1, Len(ledger), now)
    IN  IF ~readable THEN st
        ELSE [st EXCEPT !.offset = Len(ledger), !.today = @ + Cardinality(rows),
                        !.tasks = [t \in Tasks |-> @[t] + Cardinality(OfTask(rows, t))]]

\* read and refresh: a new day starts over; the new tail, up to its last newline.
Read(p) ==
    LET st == IF meter[p].day = now THEN meter[p] ELSE Fresh(now)
        end == Max({st.offset} \cup {i \in (st.offset + 1)..Len(ledger) : ledger[i].whole})
        rows == Counted(st.offset + 1, end, now)
    IN  IF ~readable THEN st
        ELSE [st EXCEPT !.offset = end, !.today = @ + Cardinality(rows),
                        !.tasks = [t \in Tasks |-> @[t] + Cardinality(OfTask(rows, t))]]

Reads(p) == meter' = [meter EXCEPT ![p] = Read(p)]

-----------------------------------------------------------------------------
(* measure *)

\* An agent is at or over a cap that is set.
Over(a) ==
    LET m == Read(Proc(a)) IN
    \/ RunCap > 0 /\ spend[TreeOf[a]] >= RunCap
    \/ readable /\ DayCap > 0 /\ m.today >= DayCap
    \/ readable /\ TaskCap > 0 /\ Task(a) # NoTask /\ m.tasks[Task(a)] >= TaskCap

NeedsLedger == DayCap > 0 \/ TaskCap > 0

-----------------------------------------------------------------------------
(* A run *)

Goto(a, where) == pc' = [pc EXCEPT ![a] = where]

\* The run is over, and its locals are gone.
Leaves(a) ==
    /\ Goto(a, "idle")
    /\ calls' = [calls EXCEPT ![a] = 0]
    /\ overAtStart' = [overAtStart EXCEPT ![a] = FALSE]
    /\ stamp' = [stamp EXCEPT ![a] = 0]

\* begin_run, for a root: its spend starts from nothing, under a new id.
Begins(a) ==
    /\ pc[a] = "idle"
    /\ Goto(a, "top")
    /\ spend' = [spend EXCEPT ![TreeOf[a]] = IF a \in Roots THEN 0 ELSE @]
    /\ UNCHANGED <<now, files, meter, calls, overAtStart, stamp, bounds>>

\* A plausible bug, no part of the specification: only a cap that is passed stops.
StoppedPast(a) ==
    \/ kill \/ (~readable /\ NeedsLedger)
    \/ spend[TreeOf[a]] > RunCap \/ Read(Proc(a)).today > DayCap

\* A plausible bug, no part of the specification: the caps stop nothing.
StoppedUncounted(a) == kill \/ (~readable /\ NeedsLedger)

Stopped(a) == kill \/ (~readable /\ NeedsLedger) \/ Over(a)

\* check: the switch, a ledger that can't be read, or a cap ends the run ...
Stops(a) ==
    /\ pc[a] = "top" /\ Stopped(a)
    /\ Leaves(a)
    /\ IF kill THEN UNCHANGED meter ELSE Reads(Proc(a))
    /\ UNCHANGED <<now, files, spend, bounds>>

\* ... or the call is let through.
Passes(a) ==
    /\ pc[a] = "top" /\ ~Stopped(a)
    /\ Reads(Proc(a))
    /\ Goto(a, "checked")
    /\ calls' = [calls EXCEPT ![a] = PerCheck]
    /\ UNCHANGED <<now, files, spend, overAtStart, stamp, bounds>>

\* The call, and with it halted's wait: a cap crossed by now is no longer its business.
Calls(a) ==
    /\ pc[a] = "checked"
    /\ overAtStart' = [overAtStart EXCEPT ![a] = Over(a)]
    /\ Reads(Proc(a))
    /\ Goto(a, "calling")
    /\ UNCHANGED <<now, files, spend, calls, stamp, bounds>>

MustStop(a) == kill \/ (~overAtStart[a] /\ Over(a))

\* The wait looks again, at a charge in its process and every second: it cuts the call ...
Cuts(a) ==
    /\ pc[a] = "calling" /\ MustStop(a)
    /\ IF kill THEN UNCHANGED meter ELSE Reads(Proc(a))
    /\ Leaves(a)
    /\ UNCHANGED <<now, files, spend, bounds>>

\* ... or has only read on.
Looks(a) ==
    /\ pc[a] = "calling" /\ ~MustStop(a) /\ ~overAtStart[a]
    /\ Reads(Proc(a))
    /\ UNCHANGED <<now, files, spend, agents, bounds>>

\* The model answers: TrustSink charges the run, and then has the row written.
Answers(a) ==
    /\ pc[a] = "calling" /\ made < MaxCalls
    /\ made' = made + 1
    /\ spend' = [spend EXCEPT ![TreeOf[a]] = @ + 1]
    /\ stamp' = [stamp EXCEPT ![a] = now]
    /\ Goto(a, "recording")
    /\ UNCHANGED <<now, files, meter, calls, overAtStart, troubles>>

\* append: the whole row; half of it; or nothing.
Records(a) ==
    /\ pc[a] = "recording"
    /\ \/ ledger' = Append(ledger, Row(TreeOf[a], stamp[a])) /\ UNCHANGED troubles
       \/ Trouble /\ ledger' \in {ledger, Append(ledger, Half)}
    /\ calls' = [calls EXCEPT ![a] = @ - 1]
    /\ Goto(a, IF calls[a] > 1 THEN "calling" ELSE "top")
    /\ overAtStart' = [overAtStart EXCEPT ![a] = @ /\ calls[a] > 1]
    /\ stamp' = [stamp EXCEPT ![a] = 0]
    /\ UNCHANGED <<now, readable, kill, memory, made>>

\* An answer that costs nothing: its row adds to no count.
AnswersFree(a) ==
    /\ pc[a] = "calling"
    /\ calls' = [calls EXCEPT ![a] = @ - 1]
    /\ Goto(a, IF calls[a] > 1 THEN "calling" ELSE "top")
    /\ overAtStart' = [overAtStart EXCEPT ![a] = @ /\ calls[a] > 1]
    /\ UNCHANGED <<now, files, memory, stamp, bounds>>

\* The call fails for good.
Fails(a) ==
    /\ pc[a] = "calling"
    /\ Leaves(a)
    /\ UNCHANGED <<now, files, memory, bounds>>

\* The run is done.
Ends(a) ==
    /\ pc[a] = "top"
    /\ Leaves(a)
    /\ UNCHANGED <<now, files, memory, bounds>>

-----------------------------------------------------------------------------
(* The world *)

NextDay ==
    /\ now < MaxDay
    /\ now' = now + 1
    /\ UNCHANGED <<files, memory, agents, bounds>>

\* engage and clear; the ledger's permissions.
Flips ==
    /\ Trouble
    /\ \/ kill' = ~kill /\ UNCHANGED readable
       \/ readable' = ~readable /\ UNCHANGED kill
    /\ UNCHANGED <<now, ledger, memory, agents, made>>

\* The process dies, in the middle of a row or not, and is started again.
Dies(p) ==
    /\ Trouble
    /\ LET mine == {a \in Agents : Proc(a) = p} IN
        /\ pc' = [a \in Agents |-> IF a \in mine THEN "idle" ELSE pc[a]]
        /\ calls' = [a \in Agents |-> IF a \in mine THEN 0 ELSE calls[a]]
        /\ overAtStart' = [a \in Agents |-> a \notin mine /\ overAtStart[a]]
        /\ stamp' = [a \in Agents |-> IF a \in mine THEN 0 ELSE stamp[a]]
        /\ ledger' \in {ledger} \cup
                {Append(ledger, Half) : a \in {x \in mine : pc[x] = "recording"}}
    /\ meter' = [meter EXCEPT ![p] = Fresh(0)]
    /\ spend' = [t \in Trees |-> IF ProcOf[t] = p THEN 0 ELSE spend[t]]
    /\ UNCHANGED <<now, readable, kill, made>>

-----------------------------------------------------------------------------

Step(a) ==
    \/ Stops(a) \/ Passes(a) \/ Calls(a) \/ Cuts(a)
    \/ Answers(a) \/ Records(a) \/ AnswersFree(a) \/ Fails(a)

Next ==
    \/ \E a \in Agents : Begins(a) \/ Step(a) \/ Looks(a) \/ Ends(a)
    \/ \E p \in Procs : Dies(p)
    \/ NextDay \/ Flips

Spec == Init /\ [][Next]_vars

\* The runtime polls its tasks, and a model call answers or fails.
FairSpec == Spec /\ \A a \in Agents : WF_vars(Step(a))

-----------------------------------------------------------------------------
(* Properties *)

Pcs == {"idle", "top", "checked", "calling", "recording"}

\* One type per variable.
TypeOK ==
    /\ now \in 1..MaxDay /\ readable \in BOOLEAN /\ kill \in BOOLEAN
    /\ ledger \in Seq([whole : BOOLEAN, tree : Trees, day : 0..MaxDay])
    /\ meter \in [Procs -> [day : 0..MaxDay, offset : 0..Len(ledger), today : Nat,
                            tasks : [Tasks -> Nat]]]
    /\ spend \in [Trees -> Nat]
    /\ pc \in [Agents -> Pcs] /\ calls \in [Agents -> 0..PerCheck]
    /\ overAtStart \in [Agents -> BOOLEAN] /\ stamp \in [Agents -> 0..MaxDay]
    /\ made \in 0..MaxCalls /\ troubles \in 0..MaxTroubles

\* A meter that follows the tail counts what one that reads the whole file does, however
\* its reads fell between rows, halves, days and deaths.
MeterIsLedger ==
    \A p \in Procs : LET rows == Counted(1, meter[p].offset, meter[p].day) IN
        /\ meter[p].today = Cardinality(rows)
        /\ \A t \in Tasks : meter[p].tasks[t] = Cardinality(OfTask(rows, t))

\* What a cap lets through: beyond it only the calls behind checks that were made
\* before it was reached.
Bounded(spent, cap, under) == cap > 0 => spent <= cap - 1 + PerCheck * Cardinality(under)

\* A day's rows, a task's, and a run's spend never pass their cap by more than each
\* agent's calls behind one check, whatever the processes, midnight and the torn rows.
SpendBounded ==
    LET today == Counted(1, Len(ledger), now) IN
    /\ Bounded(Cardinality(today), DayCap, Agents)
    /\ \A t \in Tasks :
        Bounded(Cardinality(OfTask(today, t)), TaskCap, {a \in Agents : Task(a) = t})
    /\ \A t \in Trees : Bounded(spend[t], RunCap, {a \in Agents : TreeOf[a] = t})

DayOver == DayCap > 0 /\ Cardinality(Counted(1, Len(ledger), now)) >= DayCap

\* Once the day's cap is reached every run is over before long, or it is the next day.
CapEndsRuns == \A a \in Agents :
    DayOver /\ pc[a] # "idle" ~> ~DayOver \/ pc[a] = "idle"
=============================================================================
