---------------------------- MODULE Supervisor ----------------------------
(***************************************************************************)
(* The agent supervisor of ferrule-agents: one process's tree of agents.   *)
(* A root agent spawns children, children spawn grandchildren; every run   *)
(* of a child is a task of its own, and its end is recorded in the agent   *)
(* table and reported to the parent's inbox.                               *)
(*                                                                         *)
(* Steps are the critical sections of the code: one SQLite statement, one  *)
(* locked section or one atomic counter access.  Everything between two of *)
(* them can interleave with every other actor.  An agent makes its tool    *)
(* calls one after the other, so it has at most one supervisor call open;  *)
(* the owner, at the dashboard of this process, is one more caller.        *)
(***************************************************************************)
EXTENDS Naturals, FiniteSets

CONSTANTS
    Root,          \* the root agent of the tree
    Owner,         \* the owner, who may close agents from the dashboard
    None,          \* no agent
    Children,      \* the ids that spawns may use
    Verifiers,     \* the children spawned as verifiers (snapshot, not worktree)
    MaxDepth,      \* limits.max_depth
    MaxChildren,   \* limits.max_children: running children of one agent
    MaxAgents,     \* limits.max_agents: open spawned agents of the tree
    MaxRuns,       \* bound: runs of one child in an instance
    Tools,         \* which calls the agents of an instance make
    Resumed,       \* the children that are resumed in an instance
    OwnerCloses,   \* the agents the owner may close
    Gateway,       \* the root is a chat's lane (else the loop of `ferrule run`)
    WakeFails      \* the waker may refuse a wake-up it said it could take

Agents == {Root} \cup Children
Actors == Agents \cup {Owner}
Runs == 1..MaxRuns
Notices == Children \X Runs      \* <<c, n>>: run n of c has ended
ToolNames == {"wait", "deadline", "close", "claim", "copy", "rest",
             "refuse"}           \* ... and the store may refuse the write of an end

ASSUME SupervisorAssumption ==
    /\ IsFiniteSet(Children)
    /\ Root \notin Children /\ Owner \notin Agents /\ None \notin Actors
    /\ Verifiers \subseteq Children
    /\ MaxDepth \in Nat /\ MaxChildren \in Nat /\ MaxAgents \in Nat
    /\ MaxRuns \in Nat \ {0}
    /\ Tools \subseteq ToolNames
    /\ Resumed \subseteq Children /\ OwnerCloses \subseteq Agents
    /\ Gateway \in BOOLEAN /\ WakeFails \in BOOLEAN

VARIABLES
    \* the agents table
    status, parent, depth,
    copy,      \* the row's copy of the repo: none, a worktree, a snapshot
    run,       \* which run of the child the row is about (history)
    \* per-agent runtime state of the process: Live, and the run task
    task, stop, handle, inbox,
    rep,       \* per run: where its finished/report call stands
    out,       \* per run being reported: how it ended
    hand,      \* per run being reported: the items wake_root took
    op,        \* per caller: its supervisor call in progress
    \* the root's driver
    root, woken,
    \* what the calls touch outside the supervisor
    claim,     \* the run in which a child claimed the task it holds; 0: none
    disk,      \* the run whose copy of the repo is on disk; 0: none
    \* history
    heard,     \* the ends the parents were told of, by notice or by result
    told,      \* the ends a wait returned before its deadline
    refused,   \* the ends the store did not take
    revived    \* the children that a resume set running after they were closed

rows == <<status, parent, depth, run>>
live == <<task, stop, handle>>
reporting == <<rep, out, hand>>
driver == <<root, woken>>
outside == <<claim, disk, copy>>
history == <<heard, told, refused, revived>>
vars == <<rows, live, inbox, reporting, op, driver, outside, history>>

Statuses == {"none", "idle", "running", "failed", "closed"}
RepPcs == {"none", "clear", "record", "release", "unrecorded", "discard",
           "notice", "wake", "send", "done"}
OpPcs == {"ready", "place", "start", "launch", "resume",
          "rows", "check", "forget", "ask", "mark", "halt", "drop"}
OpType == [pc : OpPcs, child : Agents \cup {None}, ids : SUBSET Agents,
           got : SUBSET Notices, tidy : SUBSET Children]

\* One type per variable.
TypeOK ==
    /\ status \in [Agents -> Statuses]
    /\ parent \in [Children -> Agents \cup {None}]
    /\ depth \in [Agents -> 0..MaxDepth]
    /\ run \in [Children -> 0..MaxRuns]
    /\ copy \in [Children -> {"none", "worktree", "snapshot"}]
    /\ task \in [Children -> {"none", "run", "aborting"}]
    /\ stop \in [Agents -> BOOLEAN]
    /\ handle \in [Children -> BOOLEAN]
    /\ inbox \in [Agents -> SUBSET Notices]
    /\ rep \in [Notices -> RepPcs]
    /\ out \in [Notices -> {"none", "idle", "failed"}]
    /\ hand \in [Notices -> SUBSET Notices]
    /\ op \in [Actors -> OpType]
    /\ root \in {"running", "idle", "quiet", "counted", "exit", "failed", "left"}
    /\ woken \subseteq SUBSET Notices
    /\ claim \in [Children -> 0..MaxRuns]
    /\ disk \in [Children -> 0..MaxRuns]
    /\ heard \subseteq Notices
    /\ told \subseteq heard
    /\ refused \subseteq Notices
    /\ revived \subseteq Children

Ready == [pc |-> "ready", child |-> None, ids |-> {}, got |-> {}, tidy |-> {}]

Init ==
    /\ status = [a \in Agents |-> IF a = Root THEN "idle" ELSE "none"]
    /\ parent = [c \in Children |-> None]
    /\ depth = [a \in Agents |-> 0]
    /\ run = [c \in Children |-> 0]
    /\ copy = [c \in Children |-> "none"]
    /\ task = [c \in Children |-> "none"]
    /\ stop = [a \in Agents |-> FALSE]
    /\ handle = [c \in Children |-> FALSE]
    /\ inbox = [a \in Agents |-> {}]
    /\ rep = [x \in Notices |-> "none"]
    /\ out = [x \in Notices |-> "none"]
    /\ hand = [x \in Notices |-> {}]
    /\ op = [a \in Actors |-> Ready]
    /\ root = "running"
    /\ woken = {}
    /\ claim = [c \in Children |-> 0]
    /\ disk = [c \in Children |-> 0]
    /\ heard = {} /\ told = {} /\ refused = {} /\ revived = {}

-----------------------------------------------------------------------------
(* Helpers *)

RunningChildren(p) == {c \in Children : parent[c] = p /\ status[c] = "running"}
OpenInTree == {c \in Children : status[c] \notin {"none", "closed"}}

\* `finishing`: the runs between fetch_add and fetch_sub.
Finishing == {x \in Notices : rep[x] # "none"}

\* close_tree's walk: `a` and everything below it.
Subtree(a) ==
    {d \in Agents :
        \A S \in SUBSET Agents :
            (a \in S /\ \A c \in Children : parent[c] \in S => c \in S) => d \in S}

About(c) == {x \in Notices : x[1] = c}

\* The agent is running and between two calls.
CanCall(a) ==
    /\ op[a].pc = "ready"
    /\ \/ a = Root /\ root = "running"
       \/ a \in Children /\ task[a] = "run"

\* store.finish: "a closed agent stays closed".
FinishRow(c, st) ==
    status' = [status EXCEPT ![c] = IF @ = "closed" THEN @ ELSE st]

\* check_can_run, the count of running children.
CheckCanRun(p) == Cardinality(RunningChildren(p)) < MaxChildren

\* spawn's insert: the row, already `running`.
InsertRow(a, c) ==
    /\ status' = [status EXCEPT ![c] = "running"]
    /\ parent' = [parent EXCEPT ![c] = a]
    /\ depth' = [depth EXCEPT ![c] = depth[a] + 1]
    /\ run' = [run EXCEPT ![c] = 1]
    /\ op' = [op EXCEPT ![a] = [Ready EXCEPT !.pc = "place", !.child = c]]
    /\ UNCHANGED <<live, inbox, reporting, driver, outside, history>>

\* resume's set_status, over a row that may have been closed since it was read; a
\* verifier gets a new snapshot.  (The history keeps the ends of the last run of
\* each child only.)
Rerun(a, c) ==
    /\ status' = [status EXCEPT ![c] = "running"]
    /\ run' = [run EXCEPT ![c] = @ + 1]
    /\ heard' = heard \ About(c) /\ told' = told \ About(c)
    /\ revived' = revived \cup (IF status[c] = "closed" THEN {c} ELSE {})
    /\ op' = [op EXCEPT ![a].pc = IF copy[c] = "snapshot" THEN "place" ELSE "start"]
    /\ UNCHANGED <<parent, depth, live, inbox, reporting, driver, outside, refused>>

\* A report's next step; a row without a snapshot has nothing to discard.
Goto(x, pc) == rep' = [rep EXCEPT ![x] = pc]
AfterRelease(x) == IF copy[x[1]] = "snapshot" THEN "discard" ELSE "notice"

-----------------------------------------------------------------------------
(* Plausible bugs, each an action below with one thing wrong; no part of the *)
(* specification.  Each breaks the property it is paired with.               *)

\* spawn forgets the depth limit.
SpawnTooDeep(a, c) ==
    /\ CanCall(a) /\ status[c] = "none"
    /\ CheckCanRun(a) /\ Cardinality(OpenInTree) < MaxAgents
    /\ InsertRow(a, c)

\* A failed start leaves the row running.
StartFailsSilently(a) ==
    /\ op[a].pc = "start"
    /\ op' = [op EXCEPT ![a] = Ready]
    /\ UNCHANGED <<rows, live, inbox, reporting, driver, outside, history>>

\* resume does not count the running children.
ResumeUncounted(a) == op[a].pc = "resume" /\ Rerun(a, op[a].child)

\* The row is written as soon as the run is over, and again with its result.
ReportClearsEarly(x) ==
    /\ rep[x] = "clear"
    /\ FinishRow(x[1], out[x])
    /\ Goto(x, "record")
    /\ UNCHANGED <<parent, depth, run, live, inbox, out, hand, op, driver, outside, history>>

\* The early return of a closed agent's report skips the fetch_sub.
ReportStaysCounted(x) ==
    /\ rep[x] = "unrecorded" /\ out[x] = "failed"
    /\ claim' = [claim EXCEPT ![x[1]] = 0]
    /\ UNCHANGED <<rows, live, inbox, reporting, op, driver, disk, copy, history>>

\* The items of a refused wake-up are not put back.
ReportSendsOnce(x) ==
    /\ rep[x] = "send"
    /\ woken' \in {woken \cup {hand[x]}} \cup (IF WakeFails THEN {woken} ELSE {})
    /\ hand' = [hand EXCEPT ![x] = {}]
    /\ Goto(x, "done")
    /\ UNCHANGED <<rows, live, inbox, out, op, root, outside, history>>

\* wait leaves as soon as a row is not running.
WaitChecksRowsOnly(a) ==
    /\ op[a].pc = "check"
    /\ IF op[a].got # {}
       THEN /\ op' = [op EXCEPT ![a].pc = "forget"]
            /\ told' = told \cup op[a].got
            /\ heard' = heard \cup op[a].got
            /\ UNCHANGED <<refused, revived>>
       ELSE /\ op' = [op EXCEPT ![a].pc = "rows"]
            /\ UNCHANGED history
    /\ UNCHANGED <<rows, live, inbox, reporting, driver, outside>>

\* close_tree tidies every copy below the caller, marked or not.
TidiesTooMuch(x, kept) ==
    /\ op[x].pc = "mark" /\ op[x].ids = {} /\ op[x].got = {}
    /\ kept \subseteq op[x].tidy
    /\ disk' = [c \in Children |-> IF c \in kept THEN disk[c] ELSE 0]
    /\ op' = [op EXCEPT ![x] = Ready]
    /\ UNCHANGED <<rows, live, inbox, reporting, driver, claim, copy, history>>

\* The end of the root's run does not look at the inbox.
RootEndsDeaf ==
    /\ "rest" \in Tools /\ root = "running" /\ op[Root].pc = "ready"
    /\ root' \in IF Gateway THEN {"idle"} ELSE {"idle", "failed"}
    /\ UNCHANGED <<rows, live, inbox, reporting, op, woken, outside, history>>

\* busy() does not look at `finishing`.
RootSkipsFinishing ==
    /\ root = "quiet"
    /\ root' = "counted"
    /\ UNCHANGED <<rows, live, inbox, reporting, op, woken, outside, history>>

-----------------------------------------------------------------------------
(* spawn *)

\* Under spawn_lock: the limits, then the row.
SpawnRow(a, c) ==
    /\ CanCall(a)
    /\ status[c] = "none"
    /\ depth[a] + 1 <= MaxDepth
    /\ CheckCanRun(a)
    /\ Cardinality(OpenInTree) < MaxAgents
    /\ InsertRow(a, c)

\* place: the child's own copy of the repo, or none (no repo, not wanted, or
\* git failed).  An earlier snapshot at the same path is discarded first.
Place(a, made) ==
    /\ op[a].pc = "place"
    /\ made => "copy" \in Tools
    /\ LET c == op[a].child IN
        /\ copy' = [copy EXCEPT ![c] =
              IF ~made THEN "none"
              ELSE IF c \in Verifiers THEN "snapshot" ELSE "worktree"]
        /\ disk' = [disk EXCEPT ![c] = IF made THEN run[c] ELSE 0]
    /\ op' = [op EXCEPT ![a].pc = "start"]
    /\ UNCHANGED <<rows, live, inbox, reporting, driver, claim, history>>

\* start failed before the task was spawned (transcript, factory): the caller
\* gets the error.
StartFails(a) ==
    /\ op[a].pc = "start"
    /\ FinishRow(op[a].child, "failed")
    /\ heard' = heard \cup {<<op[a].child, run[op[a].child]>>}
    /\ op' = [op EXCEPT ![a] = Ready]
    /\ UNCHANGED <<parent, depth, run, live, inbox, reporting, driver, outside, told,
                   refused, revived>>

\* start: the agent is built and its stop flag reset ...
StartResets(a) ==
    /\ op[a].pc = "start"
    /\ stop' = [stop EXCEPT ![op[a].child] = FALSE]
    /\ op' = [op EXCEPT ![a].pc = "launch"]
    /\ UNCHANGED <<rows, task, handle, inbox, reporting, driver, outside, history>>

\* ... then, under the live lock, the task is spawned and its handle kept.
StartLaunches(a) ==
    /\ op[a].pc = "launch"
    /\ task' = [task EXCEPT ![op[a].child] = "run"]
    /\ handle' = [handle EXCEPT ![op[a].child] = TRUE]
    /\ op' = [op EXCEPT ![a] = Ready]
    /\ UNCHANGED <<rows, stop, inbox, reporting, driver, outside, history>>

-----------------------------------------------------------------------------
(* resume *)

\* child_of: the row as it is before spawn_lock is taken.
ResumeReads(a, c) ==
    /\ c \in Resumed
    /\ CanCall(a)
    /\ parent[c] = a
    /\ status[c] \in {"idle", "failed"}
    /\ run[c] < MaxRuns
    /\ op' = [op EXCEPT ![a] = [Ready EXCEPT !.pc = "resume", !.child = c]]
    /\ UNCHANGED <<rows, live, inbox, reporting, driver, outside, history>>

\* Under spawn_lock, with the row read before it.
ResumeRow(a) ==
    /\ op[a].pc = "resume"
    /\ \/ CheckCanRun(a) /\ Rerun(a, op[a].child)
       \/ /\ ~CheckCanRun(a)
          /\ op' = [op EXCEPT ![a] = Ready]
          /\ UNCHANGED <<rows, live, inbox, reporting, driver, outside, history>>

-----------------------------------------------------------------------------
(* A run, its end and its report *)

\* A run ends when the agent is between calls: an answer, or an error (a
\* stopped run's is "the agent was stopped").  `finishing` goes up first.
RunEnds(c, st) ==
    /\ task[c] = "run" /\ op[c].pc = "ready"
    /\ task' = [task EXCEPT ![c] = "none"]
    /\ rep' = [rep EXCEPT ![<<c, run[c]>>] = "clear"]
    /\ out' = [out EXCEPT ![<<c, run[c]>>] = st]
    /\ UNCHANGED <<rows, stop, handle, inbox, hand, op, driver, outside, history>>

\* An aborted task goes at its next await: between two calls, in wait's sleep
\* or while close_tree awaits a handle.  Nothing is reported.
TaskDies(c) ==
    /\ task[c] = "aborting"
    /\ \/ op[c].pc \in {"ready", "rows"}
       \/ op[c].pc = "mark" /\ op[c].ids = {} /\ op[c].got # {}
    /\ task' = [task EXCEPT ![c] = "none"]
    /\ op' = [op EXCEPT ![c] = Ready]
    /\ UNCHANGED <<rows, stop, handle, inbox, reporting, driver, outside, history>>

ReportClears(x) ==
    /\ rep[x] = "clear"
    /\ handle' = [handle EXCEPT ![x[1]] = FALSE]
    /\ Goto(x, "record")
    /\ UNCHANGED <<rows, task, stop, inbox, out, hand, op, driver, outside, history>>

ReportRecords(x) ==
    /\ rep[x] = "record"
    /\ FinishRow(x[1], out[x])
    /\ Goto(x, IF status[x[1]] = "closed" THEN "unrecorded"
               ELSE IF out[x] = "failed" /\ "claim" \in Tools THEN "release"
               ELSE AfterRelease(x))
    /\ UNCHANGED <<parent, depth, run, live, inbox, out, hand, op, driver, outside, history>>

\* The store refuses the write: the row stays as it is, and the report goes on as if the
\* agent had been closed.
ReportRefused(x) ==
    /\ "refuse" \in Tools
    /\ rep[x] = "record"
    /\ refused' = refused \cup {x}
    /\ Goto(x, "unrecorded")
    /\ UNCHANGED <<rows, live, inbox, out, hand, op, driver, outside, heard, told, revived>>

\* release_claims, for a run that failed and was recorded ...
ReportReleases(x) ==
    /\ rep[x] = "release"
    /\ claim' = [claim EXCEPT ![x[1]] = 0]
    /\ Goto(x, AfterRelease(x))
    /\ UNCHANGED <<rows, live, inbox, out, hand, op, driver, disk, copy, history>>

\* ... or was closed meanwhile: then that is all of the report.
ReportUnrecorded(x) ==
    /\ rep[x] = "unrecorded"
    /\ claim' = IF out[x] = "failed" THEN [claim EXCEPT ![x[1]] = 0] ELSE claim
    /\ Goto(x, "done")
    /\ UNCHANGED <<rows, live, inbox, out, hand, op, driver, disk, copy, history>>

\* "A verifier's snapshot is thrown away as soon as it's done."
ReportDiscards(x) ==
    /\ rep[x] = "discard"
    /\ disk' = [disk EXCEPT ![x[1]] = 0]
    /\ Goto(x, "notice")
    /\ UNCHANGED <<rows, live, inbox, out, hand, op, driver, claim, copy, history>>

\* AgentInbox::push: the notice wakes an idle root.
ReportNotifies(x) ==
    /\ rep[x] = "notice"
    /\ inbox' = [inbox EXCEPT ![parent[x[1]]] = @ \cup {x}]
    /\ Goto(x, IF parent[x[1]] = Root /\ root # "running" THEN "wake" ELSE "done")
    /\ UNCHANGED <<rows, live, out, hand, op, driver, outside, history>>

\* wake_root: can_wake (a gateway's may say no), then take_if_idle ...
ReportWakes(x) ==
    /\ rep[x] = "wake"
    /\ \/ /\ root # "running" /\ inbox[Root] # {}
          /\ hand' = [hand EXCEPT ![x] = inbox[Root]]
          /\ inbox' = [inbox EXCEPT ![Root] = {}]
          /\ Goto(x, "send")
       \/ /\ root = "running" \/ inbox[Root] = {} \/ WakeFails
          /\ Goto(x, "done")
          /\ UNCHANGED <<inbox, hand>>
    /\ UNCHANGED <<rows, live, out, op, driver, outside, history>>

\* ... then waker.wake, or put_back when it refuses.
ReportSends(x) ==
    /\ rep[x] = "send"
    /\ \/ /\ woken' = woken \cup {hand[x]}
          /\ UNCHANGED inbox
       \/ /\ WakeFails
          /\ inbox' = [inbox EXCEPT ![Root] = @ \cup hand[x]]
          /\ UNCHANGED woken
    /\ hand' = [hand EXCEPT ![x] = {}]
    /\ Goto(x, "done")
    /\ UNCHANGED <<rows, live, out, op, root, outside, history>>

\* `finishing` goes down.
ReportDone(x) ==
    /\ rep[x] = "done"
    /\ Goto(x, "none")
    /\ out' = [out EXCEPT ![x] = "none"]
    /\ UNCHANGED <<rows, live, inbox, hand, op, driver, outside, history>>

Report(x) ==
    \/ ReportClears(x) \/ ReportRecords(x) \/ ReportRefused(x) \/ ReportReleases(x)
    \/ ReportUnrecorded(x) \/ ReportDiscards(x) \/ ReportNotifies(x)
    \/ ReportWakes(x) \/ ReportSends(x) \/ ReportDone(x)

-----------------------------------------------------------------------------
(* wait *)

WaitBegins(a, ids) ==
    /\ "wait" \in Tools
    /\ CanCall(a)
    /\ ids # {} /\ \A c \in ids : parent[c] = a
    /\ op' = [op EXCEPT ![a] = [Ready EXCEPT !.pc = "rows", !.ids = ids]]
    /\ UNCHANGED <<rows, live, inbox, reporting, driver, outside, history>>

\* The rows; only then is `finishing` read.
WaitReadsRows(a) ==
    /\ op[a].pc = "rows"
    /\ op' = [op EXCEPT ![a].pc = "check",
                        ![a].got = {<<c, run[c]>> : c \in
                                      {d \in op[a].ids : status[d] # "running"}}]
    /\ UNCHANGED <<rows, live, inbox, reporting, driver, outside, history>>

\* One turn of the loop: leave with what stopped, give up when the caller was
\* stopped, leave at the deadline, or sleep and read again.
WaitChecks(a) ==
    /\ op[a].pc = "check"
    /\ LET stopped == op[a].got # {} /\ Finishing = {} IN
        \/ /\ stopped
           /\ op' = [op EXCEPT ![a].pc = "forget"]
           /\ told' = told \cup op[a].got
           /\ heard' = heard \cup op[a].got
           /\ UNCHANGED <<refused, revived>>
        \/ /\ ~stopped /\ stop[a]
           /\ op' = [op EXCEPT ![a] = Ready]
           /\ UNCHANGED history
        \/ /\ ~stopped /\ ~stop[a] /\ "deadline" \in Tools
           /\ op' = [op EXCEPT ![a].pc = "forget"]
           /\ heard' = heard \cup op[a].got
           /\ UNCHANGED <<told, refused, revived>>
        \/ /\ ~stopped /\ ~stop[a]
           /\ op' = [op EXCEPT ![a].pc = "rows", ![a].got = {}]
           /\ UNCHANGED history
    /\ UNCHANGED <<rows, live, inbox, reporting, driver, outside>>

\* forget_about each child whose result is returned.
WaitForgets(a) ==
    /\ op[a].pc = "forget"
    /\ inbox' = [inbox EXCEPT ![a] = @ \ UNION {About(x[1]) : x \in op[a].got}]
    /\ op' = [op EXCEPT ![a] = Ready]
    /\ UNCHANGED <<rows, live, reporting, driver, outside, history>>

-----------------------------------------------------------------------------
(* close_tree *)

\* The dashboard's Close asks first, agent by agent, whether any runs: a store
\* opened for the question takes this process's own for another's, so one that
\* does refuses the whole close.
OwnerAsks(t) ==
    /\ op[Owner].pc = "ready" /\ t \in OwnerCloses /\ status[t] # "none"
    /\ op' = [op EXCEPT ![Owner] = [Ready EXCEPT !.pc = "ask", !.child = t, !.ids = {t}]]
    /\ UNCHANGED <<rows, live, inbox, reporting, driver, outside, history>>

OwnerAsksNext(c) ==
    /\ op[Owner].pc = "ask" /\ c \in op[Owner].ids
    /\ \/ /\ status[c] = "running"
          /\ op' = [op EXCEPT ![Owner] = Ready]
       \/ /\ status[c] # "running"
          /\ op' = [op EXCEPT ![Owner].ids =
                      (@ \ {c}) \cup {d \in Children : parent[d] = c}]
    /\ UNCHANGED <<rows, live, inbox, reporting, driver, outside, history>>

\* The walk; parents come before their children.
CloseBegins(x, t) ==
    /\ \/ x = Owner /\ op[x].pc = "ask" /\ op[x].ids = {} /\ op[x].child = t
       \/ /\ "close" \in Tools /\ x # Owner /\ t \in Children
          /\ CanCall(x) /\ parent[t] = x
       \/ x = Root /\ t = Root /\ root \in {"exit", "failed"} /\ op[x].pc = "ready"
    /\ status[t] # "none"
    /\ root' = IF x = t THEN "left" ELSE root
    /\ op' = [op EXCEPT ![x] = [Ready EXCEPT !.pc = "mark", !.ids = Subtree(t)]]
    /\ UNCHANGED <<rows, live, inbox, reporting, woken, outside, history>>

\* The next agent of the walk: skipped if closed, else marked.
CloseMarks(x, c) ==
    /\ op[x].pc = "mark" /\ c \in op[x].ids
    /\ c = Root \/ (c # Root /\ parent[c] \notin op[x].ids)
    /\ IF status[c] = "closed"
       THEN /\ op' = [op EXCEPT ![x].ids = @ \ {c}]
            /\ UNCHANGED status
       ELSE /\ status' = [status EXCEPT ![c] = "closed"]
            /\ op' = [op EXCEPT ![x].pc = "halt", ![x].child = c,
                                ![x].ids = @ \ {c},
                                ![x].tidy = IF c # Root /\ copy[c] # "none"
                                            THEN @ \cup {c} ELSE @]
    /\ UNCHANGED <<parent, depth, run, live, inbox, reporting, driver, outside, history>>

\* release_claims, the stop flag, and its run's handle.
CloseHalts(x) ==
    /\ op[x].pc = "halt"
    /\ LET c == op[x].child IN
        /\ stop' = [stop EXCEPT ![c] = TRUE]
        /\ IF c \in Children
           THEN /\ claim' = [claim EXCEPT ![c] = 0]
                /\ handle' = [handle EXCEPT ![c] = FALSE]
                /\ op' = [op EXCEPT ![x].pc = "drop",
                            ![x].got = IF handle[c] THEN @ \cup {<<c, run[c]>>} ELSE @]
           ELSE /\ op' = [op EXCEPT ![x].pc = "mark"]
                /\ UNCHANGED <<claim, handle>>
    /\ UNCHANGED <<rows, task, inbox, reporting, driver, disk, copy, history>>

\* The parent's inbox forgets the closed child.
CloseDrops(x) ==
    /\ op[x].pc = "drop"
    /\ inbox' = [inbox EXCEPT ![parent[op[x].child]] = @ \ About(op[x].child)]
    /\ op' = [op EXCEPT ![x].pc = "mark"]
    /\ UNCHANGED <<rows, live, reporting, driver, outside, history>>

Marked(x) == op[x].pc = "mark" /\ op[x].ids = {}

\* The run whose handle this is has returned, report and all.
Joined(r) == (task[r[1]] = "none" \/ run[r[1]] # r[2]) /\ rep[r] = "none"

CloseJoins(x, r) ==
    /\ Marked(x) /\ r \in op[x].got /\ Joined(r)
    /\ op' = [op EXCEPT ![x].got = @ \ {r}]
    /\ UNCHANGED <<rows, live, inbox, reporting, driver, outside, history>>

\* CLOSE_GRACE is over: whatever still runs is aborted.
CloseAborts(x) ==
    /\ Marked(x) /\ op[x].got # {}
    /\ task' = [c \in Children |->
                  IF task[c] = "run" /\ <<c, run[c]>> \in op[x].got
                  THEN "aborting" ELSE task[c]]
    /\ op' = [op EXCEPT ![x].got = {}]
    /\ UNCHANGED <<rows, stop, handle, inbox, reporting, driver, outside, history>>

\* The worktrees and snapshots go, except one whose leftovers could not be
\* committed.  In a blocking task: an abort of the caller does not stop it.
CloseTidies(x, kept) ==
    /\ Marked(x) /\ op[x].got = {}
    /\ kept \subseteq op[x].tidy \ Verifiers
    /\ disk' = [c \in Children |-> IF c \in op[x].tidy \ kept THEN 0 ELSE disk[c]]
    /\ op' = [op EXCEPT ![x] = Ready]
    /\ UNCHANGED <<rows, live, inbox, reporting, driver, claim, copy, history>>

Close(x) ==
    \/ \E c \in Agents : CloseMarks(x, c)
    \/ CloseHalts(x)
    \/ CloseDrops(x)
    \/ \E r \in op[x].got : CloseJoins(x, r)
    \/ CloseAborts(x)
    \/ \E kept \in SUBSET op[x].tidy : CloseTidies(x, kept)

-----------------------------------------------------------------------------
(* The rest of a run, and the root's driver *)

\* deliver_inbox, before a model call.
Takes(a) ==
    /\ CanCall(a) /\ inbox[a] # {}
    /\ heard' = heard \cup inbox[a]
    /\ inbox' = [inbox EXCEPT ![a] = {}]
    /\ UNCHANGED <<rows, live, reporting, op, driver, outside, told,
                   refused, revived>>

\* task_claim and task_done, as far as the supervisor's releases reach them.
Claims(c) ==
    /\ "claim" \in Tools /\ CanCall(c)
    /\ claim' = [claim EXCEPT ![c] = IF @ = 0 THEN run[c] ELSE 0]
    /\ UNCHANGED <<rows, live, inbox, reporting, op, driver, disk, copy, history>>

\* The root's run ends (AgentInbox::end): not running any more, and whatever
\* is in the inbox wakes it again.  An error ends the loop of `ferrule run`.
RootEnds ==
    /\ "rest" \in Tools
    /\ root = "running" /\ op[Root].pc = "ready"
    /\ root' \in IF Gateway THEN {"idle"} ELSE {"idle", "failed"}
    /\ \/ /\ inbox[Root] # {}
          /\ woken' = woken \cup {inbox[Root]}
          /\ inbox' = [inbox EXCEPT ![Root] = {}]
       \/ /\ inbox[Root] = {} \/ WakeFails
          /\ UNCHANGED <<woken, inbox>>
    /\ UNCHANGED <<rows, live, reporting, op, outside, history>>

\* The next run: on news from the waker, or (in a chat) on a message.
RootRuns ==
    /\ root = "idle"
    /\ \/ /\ Gateway /\ UNCHANGED <<woken, heard>>
       \/ \E news \in woken : woken' = woken \ {news} /\ heard' = heard \cup news
    /\ root' = "running"
    /\ UNCHANGED <<rows, live, inbox, reporting, op, outside, told,
                   refused, revived>>

\* `ferrule run`, no news: busy() reads the store first ...
RootReadsStore ==
    /\ ~Gateway /\ root = "idle" /\ woken = {}
    /\ \A c \in Children : status[c] # "running"
    /\ root' = "quiet"
    /\ UNCHANGED <<rows, live, inbox, reporting, op, woken, outside, history>>

\* ... then `finishing` ...
RootReadsFinishing ==
    /\ root = "quiet"
    /\ root' = IF Finishing = {} THEN "counted" ELSE "idle"
    /\ UNCHANGED <<rows, live, inbox, reporting, op, woken, outside, history>>

\* ... and the loop is left if nothing was sent meanwhile.
RootLeaves ==
    /\ root = "counted"
    /\ root' = IF woken = {} THEN "exit" ELSE "idle"
    /\ UNCHANGED <<rows, live, inbox, reporting, op, woken, outside, history>>

Driver == RootEnds \/ RootRuns \/ RootReadsStore \/ RootReadsFinishing \/ RootLeaves

-----------------------------------------------------------------------------

Call(a) ==
    \/ \E c \in Children : SpawnRow(a, c) \/ ResumeReads(a, c)
    \/ \E made \in BOOLEAN : Place(a, made)
    \/ StartFails(a) \/ StartResets(a) \/ StartLaunches(a)
    \/ ResumeRow(a)
    \/ \E ids \in SUBSET Children : WaitBegins(a, ids)
    \/ WaitReadsRows(a) \/ WaitChecks(a) \/ WaitForgets(a)
    \/ Takes(a)

Next ==
    \/ \E a \in Agents : Call(a)
    \/ \E x \in Actors : Close(x) \/ \E t \in Agents : CloseBegins(x, t)
    \/ \E t \in Agents : OwnerAsks(t) \/ OwnerAsksNext(t)
    \/ \E c \in Children :
          \/ \E st \in {"idle", "failed"} : RunEnds(c, st)
          \/ TaskDies(c)
          \/ Claims(c)
    \/ \E x \in Notices : Report(x)
    \/ Driver

Spec == Init /\ [][Next]_vars
-----------------------------------------------------------------------------
(* Properties that hold *)

\* No agent ever has more than max_children children running: "two spawns at
\* once can't both take the last slot", and a resume counts like a spawn.
ChildrenWithinLimit ==
    \A p \in Agents : Cardinality(RunningChildren(p)) <= MaxChildren

\* Who may still write the end of c's present run: a call about to start it,
\* its task, and a run of c whose end is not recorded yet.
Starters(c) ==
    {a \in Agents : op[a].child = c /\ op[a].pc \in {"place", "start", "launch"}}
Unrecorded(c) == {n \in Runs : rep[<<c, n>>] \in {"clear", "record"}}
Runners(c) ==
    Cardinality(Starters(c)) + Cardinality(Unrecorded(c))
      + (IF task[c] = "none" THEN 0 ELSE 1)

\* An agent is never run twice at once (two tasks on one transcript), whatever
\* resumes, closes and late reports do.
SingleRun == \A c \in Children : Runners(c) <= 1

\* An agent whose row says running is being started, runs, or has its end on
\* the way to the store: otherwise its parent would wait for it, and `ferrule
\* run` would stay busy, for ever.  An end that the store refused leaves such a
\* row, and then of an agent that is over; and so does a resume that overtook a
\* close, whose abort then hits the new run.  (Of what the store may refuse only
\* the write of an end is modelled: a resume that marks the row and then can't
\* read its parent or write its copy's place leaves one, too.)
RunningHasRunner ==
    \A c \in Children \ revived :
        status[c] = "running" => Runners(c) = IF <<c, run[c]>> \in refused THEN 0 ELSE 1

\* An end is recorded only over the row of its own run: a late report never
\* overwrites an agent that was resumed meanwhile.
RecordsOwnRun ==
    [][\A x \in Notices :
         rep[x] = "record" /\ rep'[x] \in {"release", "discard", "notice"} =>
             status[x[1]] = "running" /\ run[x[1]] = x[2]]_vars

\* Where news of an end may be on its way to the parent.
InBox(x) == x \in inbox[parent[x[1]]]
ToCome(x) == \/ rep[x] \in {"release", "discard", "notice"}
             \/ \E y \in Notices : x \in hand[y]
Sent(x) == \E news \in woken : x \in news

\* Once the last run of an agent is recorded as ended, its parent has been told
\* (the notice read, or the result returned) or the notice is on its way; no
\* interleaving of reports, waits, takes, wake-ups and put-backs loses it.  (A close
\* that a resume overtook forgets the notice of the new run too.)
EndIsHeard ==
    \A c \in Children \ revived :
        status[c] \in {"idle", "failed"} =>
            LET x == <<c, run[c]>> IN x \in heard \/ InBox(x) \/ ToCome(x) \/ Sent(x)

\* A result returned by a wait that did not run into its deadline leaves no
\* notice of that end in the inbox or still to come.
NoticeDropped ==
    \A x \in told :
        ~ToCome(x) /\ (InBox(x) => op[parent[x[1]]].pc = "forget")

\* No lost wake-up: while the waker takes wake-ups, an idle root has a notice in
\* its inbox only if the report that will wake it is under way.
NoStrandedNotice ==
    root \in {"idle", "quiet", "counted", "exit"} /\ inbox[Root] # {} /\ ~WakeFails =>
        \E x \in Notices : rep[x] = "wake"

\* Below an agent that was closed, itself included.
UnderClosed(c) ==
    \E a \in Children : (status[a] = "closed" \/ a \in revived) /\ c \in Subtree(a)

\* `ferrule run` leaves its loop only when no agent runs or reports, every end of a
\* child of the root was read by it, and nothing is left to say; but for what a
\* closed agent that still runs goes on to start, which the root did not ask for.
LoopExitComplete ==
    root = "exit" =>
        /\ \A c \in Children : status[c] = "running" => UnderClosed(c)
        /\ \A x \in Finishing : UnderClosed(x[1])
        /\ woken = {} /\ (inbox[Root] = {} \/ WakeFails)

\* A running agent that is not closed has its copy of the repo on disk: no
\* report or close of another throws it away under it.  Except that of a verifier
\* that was resumed, when the report of the run before is not over yet, and that
\* of an agent whose resume overtook its close.
CopyUnderRun ==
    \A c \in Children \ revived :
        /\ task[c] = "run" /\ status[c] # "closed" /\ copy[c] # "none"
        /\ copy[c] = "snapshot" => run[c] = 1
        => disk[c] # 0

\* Under the fairness below, `ferrule run` ends: its loop is left, the tree is
\* closed, and the close returns.
LoopEnds == <>(root = "left" /\ op[Root] = Ready)

\* The calls and reports in progress go on (they never block for good), a run
\* ends (max_iterations bounds it), and the loop polls.
Fairness ==
    /\ \A a \in Agents : WF_vars(\/ Place(a, FALSE) \/ StartFails(a) \/ StartResets(a)
                                 \/ StartLaunches(a) \/ ResumeRow(a)
                                 \/ WaitReadsRows(a) \/ WaitChecks(a) \/ WaitForgets(a))
    /\ \A x \in Actors : WF_vars(Close(x))
    /\ \A x \in Notices : WF_vars(Report(x))
    /\ \A c \in Children : WF_vars(TaskDies(c)) /\ SF_vars(RunEnds(c, "idle"))
    /\ SF_vars(RootEnds)
    /\ WF_vars(RootRuns) /\ WF_vars(RootReadsStore)
    /\ WF_vars(RootReadsFinishing) /\ WF_vars(RootLeaves)
    /\ WF_vars(CloseBegins(Root, Root))

FairSpec == Spec /\ Fairness

-----------------------------------------------------------------------------
(* What comments and docs say of closing and reporting, and the code does  *)
(* not keep in every interleaving                                          *)

\* Some close_tree has not gone through c yet.
BeingClosed(c) ==
    \E x \in Actors :
        \/ op[x].pc \in {"mark", "halt", "drop"} /\ c \in op[x].ids
        \/ op[x].pc \in {"halt", "drop"} /\ op[x].child = c

\* close: "Closes `caller`'s child `id` and everything it started": below a
\* closed agent everything is closed, or about to be.
CloseReachesAll ==
    \A c \in Children :
        /\ parent[c] \in Children /\ status[parent[c]] = "closed"
        => status[c] = "closed" \/ BeingClosed(c)

\* close_tree: "Every agent is told to stop first": a closed agent that still
\* runs has its stop flag set, or is about to be told.
ClosedIsToldToStop ==
    \A c \in Children :
        status[c] = "closed" /\ task[c] = "run" => stop[c] \/ BeingClosed(c)

\* "When an agent fails or is closed, its claimed tasks go back to open": a
\* closed agent that runs no more holds no task.
ClosedHoldsNothing ==
    \A c \in Children :
        status[c] = "closed" /\ Runners(c) = 0 /\ Finishing = {} /\ ~BeingClosed(c)
            => claim[c] = 0

\* "Then each worktree is tidied": once nothing is being closed, a closed
\* verifier that runs no more has left no snapshot on disk.
ClosedIsTidied ==
    \A c \in Verifiers :
        /\ status[c] = "closed" /\ Runners(c) = 0 /\ ~BeingClosed(c)
        /\ \A x \in Actors : c \notin op[x].tidy
        => disk[c] = 0

\* close_tree's promises together, for whoever calls it and whenever.
CloseKeepsItsWord ==
    CloseReachesAll /\ ClosedIsToldToStop /\ ClosedHoldsNothing /\ ClosedIsTidied
=============================================================================
