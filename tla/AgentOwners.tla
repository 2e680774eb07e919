---------------------------- MODULE AgentOwners ----------------------------
(***************************************************************************)
(* Which process runs which agent: the owner lock files of the agent store *)
(* of ferrule-agents, and the recovery at a process's start.               *)
(*                                                                         *)
(* Several ferrule processes (the gateway, a `ferrule run` next to it)     *)
(* share one agents.db.  Each holds a lock file while it lives; a process  *)
(* that starts probes the owners of the running rows, marks the rows of    *)
(* those that are gone, and sweeps their files.  A probe is itself a       *)
(* try_lock, held until the probe's file is dropped.                       *)
(***************************************************************************)
EXTENDS Naturals, FiniteSets

CONSTANTS
    Procs,      \* the starts of a ferrule process, each with an id of its own
    Seat,       \* what a process is: the gateway, a `ferrule run`, ...
    Agents,     \* the agents with a row
    Home,       \* the seat whose process hosts the agent's tree
    None,       \* nobody
    Asker       \* a store opened for one question (list, doctor, close)

ASSUME OwnersAssumption ==
    None \notin Procs \cup {Asker} /\ Asker \notin Procs

VARIABLES
    pc,         \* per process: where its start stands
    file,       \* the lock files in agents.owners/
    held,       \* per lock file: whose handle holds its lock
    status, owner,   \* the agents' rows
    todo,       \* per process: rows (with their owners) or files to be probed
    gone,       \* per process: rows to mark, or files to remove
    probe,      \* per process: the file whose lock its probe holds
    ask,        \* the question in progress (at most one): by whom, of which agent
    runs,       \* per agent: the processes with a task of it (history)
    dead,       \* per process: those gone when it read the rows (history)
    masked,     \* per process: those it took for alive for a probe (history)
    overlapped  \* two processes were starting at the same time (history)

rows == <<status, owner>>
start == <<pc, file, todo, gone, probe>>
history == <<runs, dead, masked, overlapped>>
vars == <<start, held, rows, ask, history>>

Pcs == {"new", "created", "locked", "rows", "mark", "files", "remove", "up", "gone"}
Live == {p \in Procs : pc[p] \notin {"new", "gone"}}
NoAsk == [by |-> None, file |-> None, of |-> None, elsewhere |-> FALSE]

\* One type per variable.
TypeOK ==
    /\ pc \in [Procs -> Pcs]
    /\ file \subseteq Procs
    /\ held \in [Procs -> Procs \cup {None, Asker}]
    /\ status \in [Agents -> {"idle", "running", "interrupted"}]
    /\ owner \in [Agents -> Procs \cup {None}]
    /\ todo \in [Procs -> SUBSET ((Agents \cup Procs) \X (Procs \cup {None}))]
    /\ gone \in [Procs -> SUBSET (Agents \cup Procs)]
    /\ probe \in [Procs -> Procs \cup {None}]
    /\ ask \in [by : Procs \cup {None, Asker}, file : Procs \cup {None},
                of : Agents \cup {None}, elsewhere : BOOLEAN]
    /\ runs \in [Agents -> SUBSET Procs]
    /\ dead \in [Procs -> SUBSET Procs]
    /\ masked \in [Procs -> SUBSET Procs]
    /\ overlapped \in BOOLEAN

Init ==
    /\ pc = [p \in Procs |-> "new"]
    /\ file = {}
    /\ held = [p \in Procs |-> None]
    /\ status = [a \in Agents |-> "idle"]
    /\ owner = [a \in Agents |-> None]
    /\ todo = [p \in Procs |-> {}]
    /\ gone = [p \in Procs |-> {}]
    /\ probe = [p \in Procs |-> None]
    /\ ask = NoAsk
    /\ runs = [a \in Agents |-> {}]
    /\ dead = [p \in Procs |-> {}]
    /\ masked = [p \in Procs |-> {}]
    /\ overlapped = FALSE

Goto(p, q) == pc' = [pc EXCEPT ![p] = q]

-----------------------------------------------------------------------------
(* Plausible bugs, each an action below with one thing wrong; no part of the *)
(* specification.  Each breaks the property it is paired with.               *)

\* A taken lock counts as gone.
ProbesBackwards(p, x, o) ==
    /\ pc[p] \in {"rows", "files"} /\ probe[p] = None /\ <<x, o>> \in todo[p]
    /\ todo' = [todo EXCEPT ![p] = @ \ {<<x, o>>}]
    /\ gone' = [gone EXCEPT ![p] = IF o = p THEN @ ELSE @ \cup {x}]
    /\ UNCHANGED <<pc, file, held, rows, probe, ask, history>>

\* A missing file counts as alive.
ProbesMissing(p, x, o) ==
    /\ pc[p] \in {"rows", "files"} /\ probe[p] = None /\ <<x, o>> \in todo[p]
    /\ todo' = [todo EXCEPT ![p] = @ \ {<<x, o>>}]
    /\ IF o # p /\ o \in file /\ held[o] = None
       THEN gone' = [gone EXCEPT ![p] = @ \cup {x}] /\ UNCHANGED masked
       ELSE /\ masked' = [masked EXCEPT ![p] =
                            IF o \in file /\ held[o] # o THEN @ \cup {o} ELSE @]
            /\ UNCHANGED gone
    /\ UNCHANGED <<pc, file, held, rows, probe, ask, runs, dead, overlapped>>

-----------------------------------------------------------------------------
(* claim_process *)

\* File::create: the lock file is there, and not locked yet.
Creates(p) ==
    /\ pc[p] = "new"
    /\ \A q \in Live : Seat[q] # Seat[p]
    /\ file' = file \cup {p}
    /\ overlapped' = (overlapped \/ \E q \in Live : pc[q] # "up")
    /\ Goto(p, "created")
    /\ UNCHANGED <<held, rows, todo, gone, probe, ask, runs, dead, masked>>

\* try_lock; "owner lock is taken" ends the start.
Locks(p) ==
    /\ pc[p] = "created"
    /\ \/ /\ held[p] = None
          /\ held' = [held EXCEPT ![p] = p]
          /\ Goto(p, "locked")
       \/ /\ held[p] # None
          /\ Goto(p, "gone")
          /\ UNCHANGED held
    /\ UNCHANGED <<file, rows, todo, gone, probe, ask, history>>

-----------------------------------------------------------------------------
(* mark_interrupted *)

\* The running rows and their owners; then the owners are probed one by one.
ReadsRows(p) ==
    /\ pc[p] = "locked"
    /\ todo' = [todo EXCEPT ![p] =
                  {<<a, owner[a]>> : a \in {b \in Agents : status[b] = "running"}}]
    /\ dead' = [dead EXCEPT ![p] = {q \in Procs : pc[q] = "gone"}]
    /\ Goto(p, "rows")
    /\ UNCHANGED <<file, held, rows, gone, probe, ask, runs, masked, overlapped>>

\* alive_elsewhere(o), for a row or a file x: gone if there is no file or its
\* lock is free; a free lock is then held until the probe's file is dropped.
Probes(p, x, o) ==
    /\ pc[p] \in {"rows", "files"} /\ probe[p] = None /\ <<x, o>> \in todo[p]
    /\ todo' = [todo EXCEPT ![p] = @ \ {<<x, o>>}]
    /\ \/ /\ o = p
          /\ UNCHANGED <<gone, probe, held, masked>>
       \/ /\ o # p /\ o \notin file
          /\ gone' = [gone EXCEPT ![p] = @ \cup {x}]
          /\ UNCHANGED <<probe, held, masked>>
       \/ /\ o # p /\ o \in file /\ held[o] = None
          /\ gone' = [gone EXCEPT ![p] = @ \cup {x}]
          /\ probe' = [probe EXCEPT ![p] = o]
          /\ held' = [held EXCEPT ![o] = p]
          /\ UNCHANGED masked
       \/ /\ o # p /\ o \in file /\ held[o] # None
          /\ masked' = [masked EXCEPT ![p] = IF held[o] = o THEN @ ELSE @ \cup {o}]
          /\ UNCHANGED <<gone, probe, held>>
    /\ UNCHANGED <<pc, file, rows, ask, runs, dead, overlapped>>

ProbeDrops(p) ==
    /\ probe[p] # None
    /\ held' = [held EXCEPT ![probe[p]] = None]
    /\ probe' = [probe EXCEPT ![p] = None]
    /\ UNCHANGED <<pc, file, rows, todo, gone, ask, history>>

Probed(p) == todo[p] = {} /\ probe[p] = None

BeginsMarks(p) ==
    /\ pc[p] = "rows" /\ Probed(p)
    /\ Goto(p, "mark")
    /\ UNCHANGED <<file, held, rows, todo, gone, probe, ask, history>>

\* UPDATE ... SET status = 'interrupted' WHERE id = a AND status = 'running'.
Marks(p, a) ==
    /\ pc[p] = "mark" /\ a \in gone[p]
    /\ status' = [status EXCEPT ![a] = IF @ = "running" THEN "interrupted" ELSE @]
    /\ gone' = [gone EXCEPT ![p] = @ \ {a}]
    /\ UNCHANGED <<pc, file, held, owner, todo, probe, ask, history>>

\* read_dir: every file is probed the same way ...
ListsFiles(p) ==
    /\ pc[p] = "mark" /\ gone[p] = {}
    /\ todo' = [todo EXCEPT ![p] = {<<q, q>> : q \in file}]
    /\ Goto(p, "files")
    /\ UNCHANGED <<file, held, rows, gone, probe, ask, history>>

BeginsRemoves(p) ==
    /\ pc[p] = "files" /\ Probed(p)
    /\ Goto(p, "remove")
    /\ UNCHANGED <<file, held, rows, todo, gone, probe, ask, history>>

\* ... and only when all were, the stale ones are removed.
Removes(p, o) ==
    /\ pc[p] = "remove" /\ o \in gone[p]
    /\ file' = file \ {o}
    /\ gone' = [gone EXCEPT ![p] = @ \ {o}]
    /\ UNCHANGED <<pc, held, rows, todo, probe, ask, history>>

Started(p) ==
    /\ pc[p] = "remove" /\ gone[p] = {}
    /\ Goto(p, "up")
    /\ UNCHANGED <<file, held, rows, todo, gone, probe, ask, history>>

-----------------------------------------------------------------------------
(* The life of a process *)

\* spawn and resume: a row that is not running; insert and set_status write the
\* owner.
Runs(p, a) ==
    /\ pc[p] = "up" /\ Home[a] = Seat[p] /\ status[a] # "running"
    /\ status' = [status EXCEPT ![a] = "running"]
    /\ owner' = [owner EXCEPT ![a] = p]
    /\ runs' = [runs EXCEPT ![a] = @ \cup {p}]
    /\ UNCHANGED <<start, held, ask, dead, masked, overlapped>>

\* finish: the run has ended.
Ends(p, a) ==
    /\ p \in runs[a]
    /\ status' = [status EXCEPT ![a] = "idle"]
    /\ runs' = [runs EXCEPT ![a] = @ \ {p}]
    /\ UNCHANGED <<start, held, owner, ask, dead, masked, overlapped>>

\* A process goes, at any point: its tasks and its locks go with it.
Dies(p) ==
    /\ p \in Live
    /\ Goto(p, "gone")
    /\ held' = [o \in Procs |-> IF held[o] = p THEN None ELSE held[o]]
    /\ probe' = [probe EXCEPT ![p] = None]
    /\ todo' = [todo EXCEPT ![p] = {}]
    /\ gone' = [gone EXCEPT ![p] = {}]
    /\ runs' = [a \in Agents |-> runs[a] \ {p}]
    /\ ask' = IF ask.by = p THEN NoAsk ELSE ask
    /\ UNCHANGED <<file, rows, dead, masked, overlapped>>

-----------------------------------------------------------------------------
(* running_elsewhere, asked by `ferrule agents list`, doctor and close *)

\* A store opened for the question: it has claimed no process, so no file is its
\* own, not even in a process that has a supervisor (the dashboard's Close).
Asks(q, a) ==
    /\ ask.by = None
    /\ q = Asker \/ (q \in Procs /\ pc[q] = "up")
    /\ status[a] = "running"
    /\ LET o == owner[a] IN
        IF o \in file /\ held[o] = None
        THEN /\ ask' = [by |-> q, file |-> o, of |-> a, elsewhere |-> FALSE]
             /\ held' = [held EXCEPT ![o] = q]
        ELSE /\ ask' = [by |-> q, file |-> None, of |-> a, elsewhere |-> o \in file]
             /\ UNCHANGED held
    /\ UNCHANGED <<start, rows, history>>

\* The answer is given and the file dropped.
Answers ==
    /\ ask.by # None
    /\ ask' = NoAsk
    /\ held' = [o \in Procs |-> IF o = ask.file THEN None ELSE held[o]]
    /\ UNCHANGED <<start, rows, history>>

-----------------------------------------------------------------------------

StartUp(p) ==
    \/ Creates(p) \/ Locks(p) \/ ReadsRows(p)
    \/ \E x \in todo[p] : Probes(p, x[1], x[2])
    \/ ProbeDrops(p) \/ BeginsMarks(p)
    \/ \E a \in Agents : Marks(p, a)
    \/ ListsFiles(p) \/ BeginsRemoves(p)
    \/ \E o \in Procs : Removes(p, o)
    \/ Started(p)

Next ==
    \/ \E p \in Procs :
          \/ StartUp(p) \/ Dies(p)
          \/ \E a \in Agents : Runs(p, a) \/ Ends(p, a)
    \/ \E q \in Procs \cup {Asker}, a \in Agents : Asks(q, a)
    \/ Answers

Spec == Init /\ [][Next]_vars
-----------------------------------------------------------------------------
(* Properties *)

\* While a process runs an agent, the row says so, whoever else dies, asks or
\* starts, as long as no two starts overlap: two that do may find a lock file that is
\* not locked yet, or update by a list of rows that is out of date.
LeftAloneBySingleStarts ==
    \A a \in Agents : \A p \in runs[a] :
        ~overlapped => status[a] = "running" /\ owner[a] = p

\* "whatever was running in a process that is gone is `interrupted`": after a
\* start no row says running for a process that was gone before it read the
\* rows, except one whose lock somebody's question held just then.
DeadMarked ==
    \A p \in Live : \A a \in Agents :
        /\ pc[p] \in {"files", "remove", "up"}
        /\ status[a] = "running" /\ owner[a] \in dead[p]
        => owner[a] \in masked[p]
=============================================================================
