-------------------------- MODULE AgentOwnersProofs --------------------------
(***************************************************************************)
(* Type correctness, and that starts leave running agents alone and mark   *)
(* the dead ones: for every number of processes, seats and agents.         *)
(***************************************************************************)
EXTENDS AgentOwners, TLAPS

StartingPcs == {"created", "locked", "rows", "mark", "files", "remove"}
LockedPcs == {"locked", "rows", "mark", "files", "remove", "up"}

\* A process holds its own lock from try_lock to its death; a probe or a question holds
\* another's.
LocksOK ==
    /\ \A p \in Procs : held[p] = p <=> pc[p] \in LockedPcs
    /\ \A p \in Procs : probe[p] # None =>
        held[probe[p]] = p /\ probe[p] # p /\ pc[p] \in {"rows", "files"}
    /\ ask.file # None =>
        /\ held[ask.file] = ask.by /\ ask.by # ask.file
        /\ ask.by = Asker \/ (ask.by \in Procs /\ pc[ask.by] = "up")
    /\ \A p \in file : pc[p] # "new"

\* What a start's lists are about: rows first, then files.
ListsOK ==
    \A p \in Procs :
        /\ pc[p] = "rows" => todo[p] \subseteq Agents \X Procs
        /\ pc[p] = "files" => \A x \in todo[p] : \E o \in Procs : x = <<o, o>> /\ pc[o] # "new"
        /\ pc[p] \notin {"rows", "files"} => todo[p] = {}
        /\ pc[p] \in {"rows", "mark"} => gone[p] \subseteq Agents
        /\ pc[p] \in {"files", "remove"} => gone[p] \subseteq Procs
        /\ pc[p] \notin {"rows", "mark", "files", "remove"} => gone[p] = {}

\* Whoever runs an agent, or is said to, sits where the agent belongs, and no two
\* processes sit there.
RowsOK ==
    /\ \A a \in Agents : status[a] = "running" =>
        owner[a] \in Procs /\ pc[owner[a]] \in {"up", "gone"} /\ Seat[owner[a]] = Home[a]
    /\ \A a \in Agents : \A p \in runs[a] : pc[p] = "up" /\ Seat[p] = Home[a]
    /\ \A p, q \in Live : Seat[p] = Seat[q] => p = q
    /\ \A p \in Procs : \A q \in dead[p] : pc[q] = "gone"

\* Nobody but o can run agent a.
OnlyBy(a, o) == \A p \in Procs : pc[p] = "up" /\ Seat[p] = Home[a] => p = o

\* While starts do not overlap: what a start has yet to probe, to mark or to remove.
SingleOK ==
    /\ \A p, q \in Procs : pc[p] \in StartingPcs /\ pc[q] \in StartingPcs => p = q
    /\ Live \subseteq file
    /\ \A a \in Agents : \A p \in runs[a] : status[a] = "running" /\ owner[a] = p
    /\ \A q \in Procs : pc[q] = "rows" => \A a \in Agents, o \in Procs : <<a, o>> \in todo[q] =>
        /\ pc[o] \in {"up", "gone"} /\ Seat[o] = Home[a]
        /\ (status[a] = "running" /\ owner[a] = o) \/ OnlyBy(a, o)
    /\ \A q \in Procs : pc[q] \in {"rows", "mark"} => \A a \in gone[q] :
        \/ status[a] = "running" /\ pc[owner[a]] = "gone"
        \/ \A p \in Procs : pc[p] = "up" => Seat[p] # Home[a]
    /\ \A q \in Procs : pc[q] \in {"files", "remove"} => \A o \in gone[q] : pc[o] = "gone"

\* A row of a process that was gone is probed, marked, or taken for alive.
MarksOK ==
    \A p \in Procs, a \in Agents : status[a] = "running" /\ owner[a] \in dead[p] =>
        /\ pc[p] = "rows" =>
            <<a, owner[a]>> \in todo[p] \/ a \in gone[p] \/ owner[a] \in masked[p]
        /\ pc[p] = "mark" => a \in gone[p] \/ owner[a] \in masked[p]
        /\ pc[p] \in {"files", "remove", "up"} => owner[a] \in masked[p]

IInv == TypeOK /\ LocksOK /\ ListsOK /\ RowsOK /\ (~overlapped => SingleOK) /\ MarksOK

USE OwnersAssumption

-----------------------------------------------------------------------------
(* The start, step by step *)

\* Nobody has started yet.
LEMMA InitIInv == Init => IInv
<1> SUFFICES ASSUME Init PROVE IInv
  OBVIOUS
<1>1. TypeOK
  <2>1. ask \in [by : Procs \cup {None, Asker}, file : Procs \cup {None},
                 of : Agents \cup {None}, elsewhere : BOOLEAN]
    BY DEF Init, NoAsk
  <2>2. pc \in [Procs -> Pcs]
    BY DEF Init, Pcs
  <2> QED BY <2>1, <2>2 DEF Init, TypeOK
<1>2. LocksOK
  BY DEF Init, LocksOK, NoAsk, LockedPcs
<1>3. ListsOK
  BY DEF Init, ListsOK
<1>4. Live = {}
  BY DEF Init, Live
<1>5. RowsOK
  BY <1>4 DEF Init, RowsOK
<1>6. SingleOK
  BY <1>4 DEF Init, SingleOK, StartingPcs
<1>7. MarksOK
  BY DEF Init, MarksOK
<1> QED BY <1>1, <1>2, <1>3, <1>5, <1>6, <1>7 DEF IInv

\* Where the processes are after Goto.
LEMMA GotoMoves ==
    ASSUME TypeOK, NEW p \in Procs, NEW s \in Pcs, Goto(p, s)
    PROVE  /\ pc' \in [Procs -> Pcs] /\ pc'[p] = s
           /\ \A q \in Procs : q # p => pc'[q] = pc[q]
  BY DEF TypeOK, Goto

\* The lock file is created: the start overlaps another, or is the only one.
LEMMA StepCreates == ASSUME IInv, NEW p \in Procs, Creates(p) PROVE IInv'
<1>0. TypeOK /\ LocksOK /\ ListsOK /\ RowsOK /\ (~overlapped => SingleOK) /\ MarksOK
  BY DEF IInv
<1>1. /\ pc[p] = "new" /\ (\A q \in Live : Seat[q] # Seat[p]) /\ file' = file \cup {p}
      /\ overlapped' = (overlapped \/ \E q \in Live : pc[q] # "up")
      /\ UNCHANGED <<held, status, owner, todo, gone, probe, ask, runs, dead, masked>>
      /\ Goto(p, "created")
  BY DEF Creates, rows
<1>2. /\ pc' \in [Procs -> Pcs] /\ pc'[p] = "created"
      /\ \A q \in Procs : q # p => pc'[q] = pc[q]
  BY <1>0, <1>1, GotoMoves DEF Pcs
<1>3. TypeOK'
  <2>1. overlapped' \in BOOLEAN
    BY <1>1
  <2> QED BY <1>0, <1>1, <1>2, <2>1 DEF TypeOK
<1>4. LocksOK'
  BY <1>0, <1>1, <1>2 DEF LocksOK, LockedPcs, TypeOK
<1>5. ListsOK'
  BY <1>0, <1>1, <1>2 DEF ListsOK
<1>6. Live' = Live \cup {p}
  BY <1>1, <1>2 DEF Live
<1>7. RowsOK'
  <2>1. \A a \in Agents : status'[a] = "running" =>
           owner'[a] \in Procs /\ pc'[owner'[a]] \in {"up", "gone"} /\ Seat[owner'[a]] = Home[a]
    BY <1>0, <1>1, <1>2 DEF RowsOK
  <2>2. \A a \in Agents : \A q \in runs'[a] : pc'[q] = "up" /\ Seat[q] = Home[a]
    BY <1>0, <1>1, <1>2 DEF RowsOK, TypeOK
  <2>3. \A q, r \in Live' : Seat[q] = Seat[r] => q = r
    BY <1>0, <1>1, <1>6 DEF RowsOK
  <2>4. \A q \in Procs : \A r \in dead'[q] : pc'[r] = "gone"
    BY <1>0, <1>1, <1>2 DEF RowsOK, TypeOK
  <2> QED BY <2>1, <2>2, <2>3, <2>4 DEF RowsOK
<1>8. ASSUME ~overlapped' PROVE SingleOK'
  <2>1. SingleOK /\ \A q \in Procs : pc[q] \notin StartingPcs
    <3>1. ~overlapped /\ \A q \in Live : pc[q] = "up"
      BY <1>1, <1>8
    <3> QED BY <1>0, <3>1 DEF Live, StartingPcs
  <2>2. \A q \in Procs : q # p => pc'[q] \notin StartingPcs
    BY <1>2, <2>1
  <2>3. \A q, r \in Procs : pc'[q] \in StartingPcs /\ pc'[r] \in StartingPcs => q = r
    BY <2>2
  <2>4. Live' \subseteq file'
    BY <1>1, <1>6, <2>1 DEF SingleOK
  <2>5. \A a \in Agents : \A q \in runs'[a] : status'[a] = "running" /\ owner'[a] = q
    BY <1>1, <2>1 DEF SingleOK
  <2>6. \A q \in Procs : pc'[q] \notin {"rows", "mark", "files", "remove"}
    BY <1>2, <2>2 DEF StartingPcs
  <2> QED BY <2>3, <2>4, <2>5, <2>6 DEF SingleOK
<1>9. MarksOK'
  BY <1>0, <1>1, <1>2 DEF MarksOK
<1> QED BY <1>3, <1>4, <1>5, <1>7, <1>8, <1>9 DEF IInv

\* A process that is starting goes on, and nobody's runs change.
LEMMA Advances ==
    ASSUME IInv, NEW p \in Procs, pc[p] \in StartingPcs,
           pc' \in [Procs -> Pcs], pc'[p] # "new",
           \A q \in Procs : q # p => pc'[q] = pc[q],
           UNCHANGED <<owner, runs>>,
           \A a \in Agents : status'[a] = "running" => status[a] = "running",
           \A q \in Procs : \A r \in dead'[q] : r \in Procs /\ pc[r] = "gone"
    PROVE  RowsOK'
<1>0. /\ TypeOK /\ RowsOK /\ "up" \notin StartingPcs /\ "gone" \notin StartingPcs
      /\ "new" \notin StartingPcs
  BY DEF IInv, StartingPcs
<1>1. \A a \in Agents : status'[a] = "running" =>
         owner'[a] \in Procs /\ pc'[owner'[a]] \in {"up", "gone"} /\ Seat[owner'[a]] = Home[a]
  BY <1>0 DEF RowsOK
<1>2. \A a \in Agents : \A q \in runs'[a] : pc'[q] = "up" /\ Seat[q] = Home[a]
  BY <1>0 DEF RowsOK, TypeOK
<1>3. \A q, r \in Live' : Seat[q] = Seat[r] => q = r
  <2>1. Live' \subseteq Live
    BY <1>0 DEF Live
  <2> QED BY <1>0, <2>1 DEF RowsOK
<1>4. \A q \in Procs : \A r \in dead'[q] : pc'[r] = "gone"
  BY <1>0
<1> QED BY <1>1, <1>2, <1>3, <1>4 DEF RowsOK

\* While it is the only one, what it has yet to do is all there is to do.
LEMMA OneStart ==
    ASSUME IInv, NEW p \in Procs, pc[p] \in StartingPcs, ~overlapped,
           pc' \in [Procs -> Pcs], pc'[p] # "new",
           \A q \in Procs : q # p => pc'[q] = pc[q],
           UNCHANGED <<owner, runs>>,
           \A q \in Live : q \in file',
           \A a \in Agents : \A q \in runs[a] : status'[a] = "running",
           pc'[p] = "rows" => \A a \in Agents, o \in Procs : <<a, o>> \in todo'[p] =>
              /\ pc'[o] \in {"up", "gone"} /\ Seat[o] = Home[a]
              /\ (status'[a] = "running" /\ owner'[a] = o) \/ OnlyBy(a, o)',
           pc'[p] \in {"rows", "mark"} => \A a \in gone'[p] :
              \/ status'[a] = "running" /\ pc'[owner'[a]] = "gone"
              \/ \A q \in Procs : pc'[q] = "up" => Seat[q] # Home[a],
           pc'[p] \in {"files", "remove"} => \A o \in gone'[p] : pc'[o] = "gone"
    PROVE  SingleOK'
<1>0. TypeOK /\ SingleOK /\ "new" \notin StartingPcs /\ "gone" \notin StartingPcs
  BY DEF IInv, StartingPcs
<1>1. \A q \in Procs : q # p => pc'[q] \notin StartingPcs
  BY <1>0 DEF SingleOK
<1>2. \A q, r \in Procs : pc'[q] \in StartingPcs /\ pc'[r] \in StartingPcs => q = r
  BY <1>1
<1>3. Live' \subseteq file'
  <2>1. Live' \subseteq Live
    BY <1>0 DEF Live
  <2> QED BY <2>1
<1>4. \A a \in Agents : \A q \in runs'[a] : status'[a] = "running" /\ owner'[a] = q
  BY <1>0 DEF SingleOK
<1>5. \A q \in Procs : pc'[q] \in {"rows", "mark", "files", "remove"} => q = p
  BY <1>1 DEF StartingPcs
<1> QED BY <1>2, <1>3, <1>4, <1>5 DEF SingleOK

\* The lock is taken, or the start ends.
LEMMA StepLocks == ASSUME IInv, NEW p \in Procs, Locks(p) PROVE IInv'
<1>0. TypeOK /\ LocksOK /\ ListsOK /\ RowsOK /\ (~overlapped => SingleOK) /\ MarksOK
  BY DEF IInv
<1>1. /\ pc[p] = "created"
      /\ \/ held[p] = None /\ held' = [held EXCEPT ![p] = p] /\ Goto(p, "locked")
         \/ held[p] # None /\ Goto(p, "gone") /\ UNCHANGED held
      /\ UNCHANGED <<file, status, owner, todo, gone, probe, ask, runs, dead, masked, overlapped>>
  BY DEF Locks, rows, history
<1>2. /\ pc' \in [Procs -> Pcs]
      /\ (pc'[p] = "locked" /\ held[p] = None) \/ (pc'[p] = "gone" /\ held[p] # None)
      /\ \A q \in Procs : q # p => pc'[q] = pc[q]
  <2>1. "locked" \in Pcs /\ "gone" \in Pcs
    BY DEF Pcs
  <2> QED BY <1>0, <1>1, <2>1, GotoMoves
<1>3. /\ held' \in [Procs -> Procs \cup {None, Asker}]
      /\ pc'[p] = "locked" => held'[p] = p
      /\ pc'[p] = "gone" => held'[p] = held[p]
      /\ \A q \in Procs : q # p => held'[q] = held[q]
  BY <1>0, <1>1, <1>2 DEF TypeOK
<1>4. TypeOK'
  BY <1>0, <1>1, <1>2, <1>3 DEF TypeOK
<1>5. LocksOK'
  <2>1. \A q \in Procs : held'[q] = q <=> pc'[q] \in LockedPcs
    BY <1>0, <1>1, <1>2, <1>3 DEF LocksOK, LockedPcs
  <2>2. \A q \in Procs : probe'[q] # None =>
           held'[probe'[q]] = q /\ probe'[q] # q /\ pc'[q] \in {"rows", "files"}
    BY <1>0, <1>1, <1>2, <1>3 DEF LocksOK, TypeOK
  <2>3. ask'.file # None =>
           /\ held'[ask'.file] = ask'.by /\ ask'.by # ask'.file
           /\ ask'.by = Asker \/ (ask'.by \in Procs /\ pc'[ask'.by] = "up")
    BY <1>0, <1>1, <1>2, <1>3 DEF LocksOK, TypeOK
  <2> QED BY <1>0, <1>1, <1>2, <2>1, <2>2, <2>3 DEF LocksOK, TypeOK
<1>6. ListsOK'
  BY <1>0, <1>1, <1>2 DEF ListsOK
<1>7. pc[p] \in StartingPcs /\ pc'[p] # "new"
  BY <1>1, <1>2 DEF StartingPcs
<1>8. RowsOK'
  <2>1. \A q \in Procs : \A r \in dead'[q] : r \in Procs /\ pc[r] = "gone"
    BY <1>0, <1>1 DEF RowsOK, TypeOK
  <2> QED BY <1>1, <1>2, <1>7, <2>1, Advances
<1>9. ASSUME ~overlapped' PROVE SingleOK'
  <2>1. ~overlapped /\ SingleOK
    BY <1>0, <1>1, <1>9
  <2>2. /\ \A q \in Live : q \in file'
        /\ \A a \in Agents : \A q \in runs[a] : status'[a] = "running"
    BY <1>1, <2>1 DEF SingleOK
  <2>3. pc'[p] \notin {"rows", "mark", "files", "remove"}
    BY <1>2
  <2> QED BY <1>1, <1>2, <1>7, <2>1, <2>2, <2>3, OneStart
<1>10. MarksOK'
  BY <1>0, <1>1, <1>2 DEF MarksOK
<1> QED BY <1>4, <1>5, <1>6, <1>8, <1>9, <1>10 DEF IInv

\* A process's probe, its question and its lock, when only its lists change.
LEMMA LocksStay ==
    ASSUME IInv, NEW p \in Procs, pc[p] \in LockedPcs, pc'[p] \in LockedPcs,
           pc[p] # "up", probe[p] # None => pc'[p] = pc[p],
           \A q \in Procs : q # p => pc'[q] = pc[q],
           UNCHANGED <<held, probe, ask>>, file' \subseteq file
    PROVE  LocksOK'
<1>0. TypeOK /\ LocksOK /\ "new" \notin LockedPcs
  BY DEF IInv, LockedPcs
<1>1. \A q \in Procs : held'[q] = q <=> pc'[q] \in LockedPcs
  BY <1>0 DEF LocksOK
<1>2. \A q \in Procs : probe'[q] # None =>
         held'[probe'[q]] = q /\ probe'[q] # q /\ pc'[q] \in {"rows", "files"}
  BY <1>0 DEF LocksOK
<1>3. ask'.file # None =>
         /\ held'[ask'.file] = ask'.by /\ ask'.by # ask'.file
         /\ ask'.by = Asker \/ (ask'.by \in Procs /\ pc'[ask'.by] = "up")
  BY <1>0 DEF LocksOK
<1>4. \A q \in file' : pc'[q] # "new"
  BY <1>0 DEF LocksOK, TypeOK
<1> QED BY <1>1, <1>2, <1>3, <1>4 DEF LocksOK

\* The running rows are read.
LEMMA StepReadsRows == ASSUME IInv, NEW p \in Procs, ReadsRows(p) PROVE IInv'
<1> DEFINE L == {<<a, owner[a]>> : a \in {b \in Agents : status[b] = "running"}}
           D == {q \in Procs : pc[q] = "gone"}
<1>0. TypeOK /\ LocksOK /\ ListsOK /\ RowsOK /\ (~overlapped => SingleOK) /\ MarksOK
  BY DEF IInv
<1>1. /\ pc[p] = "locked" /\ todo' = [todo EXCEPT ![p] = L] /\ dead' = [dead EXCEPT ![p] = D]
      /\ Goto(p, "rows")
      /\ UNCHANGED <<file, held, status, owner, gone, probe, ask, runs, masked, overlapped>>
  BY DEF ReadsRows, rows
<1>2. /\ pc' \in [Procs -> Pcs] /\ pc'[p] = "rows"
      /\ \A q \in Procs : q # p => pc'[q] = pc[q]
  BY <1>0, <1>1, GotoMoves DEF Pcs
<1>3. L \subseteq Agents \X Procs
  BY <1>0 DEF RowsOK
<1>31. \A a \in Agents : status[a] = "running" => <<a, owner[a]>> \in L
  OBVIOUS
<1>32. \A a, o : <<a, o>> \in L => a \in Agents /\ status[a] = "running" /\ owner[a] = o
  OBVIOUS
<1> HIDE DEF L
<1>4. /\ todo' \in [Procs -> SUBSET ((Agents \cup Procs) \X (Procs \cup {None}))] /\ todo'[p] = L
      /\ \A q \in Procs : q # p => todo'[q] = todo[q]
  <2>1. L \in SUBSET ((Agents \cup Procs) \X (Procs \cup {None}))
    BY <1>3
  <2> QED BY <1>0, <1>1, <2>1 DEF TypeOK
<1>5. /\ dead' \in [Procs -> SUBSET Procs] /\ dead'[p] = D
      /\ \A q \in Procs : q # p => dead'[q] = dead[q]
  BY <1>0, <1>1 DEF TypeOK
<1>6. TypeOK'
  BY <1>0, <1>1, <1>2, <1>4, <1>5 DEF TypeOK
<1>7. pc[p] \in StartingPcs /\ pc[p] \in LockedPcs /\ pc'[p] \in LockedPcs /\ probe[p] = None
  BY <1>0, <1>1, <1>2 DEF StartingPcs, LockedPcs, LocksOK
<1>8. LocksOK'
  BY <1>1, <1>2, <1>7, LocksStay
<1>9. ListsOK'
  <2>1. gone[p] = {}
    BY <1>0, <1>1 DEF ListsOK
  <2> QED BY <1>0, <1>1, <1>2, <1>3, <1>4, <2>1 DEF ListsOK
<1>10. RowsOK'
  <2>1. \A q \in Procs : \A r \in dead'[q] : r \in Procs /\ pc[r] = "gone"
    BY <1>0, <1>5 DEF RowsOK, TypeOK
  <2> QED BY <1>1, <1>2, <1>7, <2>1, Advances
<1>11. ASSUME ~overlapped' PROVE SingleOK'
  <2>1. ~overlapped /\ SingleOK
    BY <1>0, <1>1, <1>11
  <2>2. /\ \A q \in Live : q \in file'
        /\ \A a \in Agents : \A q \in runs[a] : status'[a] = "running"
    BY <1>1, <2>1 DEF SingleOK
  <2>3. \A a \in Agents, o \in Procs : <<a, o>> \in todo'[p] =>
           /\ pc'[o] \in {"up", "gone"} /\ Seat[o] = Home[a]
           /\ (status'[a] = "running" /\ owner'[a] = o) \/ OnlyBy(a, o)'
    BY <1>0, <1>1, <1>2, <1>32, <1>4 DEF RowsOK
  <2>4. gone'[p] = {}
    BY <1>0, <1>1 DEF ListsOK
  <2> QED BY <1>1, <1>2, <1>7, <2>1, <2>2, <2>3, <2>4, OneStart
<1>12. MarksOK'
  BY <1>0, <1>1, <1>2, <1>31, <1>4, <1>5 DEF MarksOK
<1> QED BY <1>6, <1>8, <1>9, <1>10, <1>11, <1>12 DEF IInv

\* All were probed: on to what they were probed for.
LEMMA StepBegins == ASSUME IInv, NEW p \in Procs, BeginsMarks(p) \/ BeginsRemoves(p) PROVE IInv'
<1>0. TypeOK /\ LocksOK /\ ListsOK /\ RowsOK /\ (~overlapped => SingleOK) /\ MarksOK
  BY DEF IInv
<1>1. /\ (pc[p] = "rows" /\ Goto(p, "mark")) \/ (pc[p] = "files" /\ Goto(p, "remove"))
      /\ todo[p] = {} /\ probe[p] = None
      /\ UNCHANGED <<file, held, status, owner, todo, gone, probe, ask, runs, dead, masked,
                     overlapped>>
  BY DEF BeginsMarks, BeginsRemoves, Probed, rows, history
<1>2. /\ pc' \in [Procs -> Pcs]
      /\ (pc[p] = "rows" /\ pc'[p] = "mark") \/ (pc[p] = "files" /\ pc'[p] = "remove")
      /\ \A q \in Procs : q # p => pc'[q] = pc[q]
  <2>1. "mark" \in Pcs /\ "remove" \in Pcs
    BY DEF Pcs
  <2> QED BY <1>0, <1>1, <2>1, GotoMoves
<1>3. TypeOK'
  BY <1>0, <1>1, <1>2 DEF TypeOK
<1>4. pc[p] \in StartingPcs /\ pc[p] \in LockedPcs /\ pc'[p] \in LockedPcs
  BY <1>2 DEF StartingPcs, LockedPcs
<1>5. LocksOK'
  BY <1>1, <1>2, <1>4, LocksStay
<1>6. ListsOK'
  BY <1>0, <1>1, <1>2 DEF ListsOK
<1>7. RowsOK'
  <2>1. \A q \in Procs : \A r \in dead'[q] : r \in Procs /\ pc[r] = "gone"
    BY <1>0, <1>1 DEF RowsOK, TypeOK
  <2> QED BY <1>1, <1>2, <1>4, <2>1, Advances
<1>8. ASSUME ~overlapped' PROVE SingleOK'
  <2>1. ~overlapped /\ SingleOK
    BY <1>0, <1>1, <1>8
  <2>2. /\ \A q \in Live : q \in file'
        /\ \A a \in Agents : \A q \in runs[a] : status'[a] = "running"
    BY <1>1, <2>1 DEF SingleOK
  <2>3. \A r \in Procs : pc[r] \in {"up", "gone"} => pc'[r] = pc[r]
    BY <1>2
  <2>4. pc'[p] \in {"rows", "mark"} => \A a \in gone'[p] :
           \/ status'[a] = "running" /\ pc'[owner'[a]] = "gone"
           \/ \A q \in Procs : pc'[q] = "up" => Seat[q] # Home[a]
    <3> SUFFICES ASSUME pc'[p] = "mark", NEW a \in gone[p]
                 PROVE  \/ status[a] = "running" /\ pc'[owner[a]] = "gone"
                        \/ \A q \in Procs : pc'[q] = "up" => Seat[q] # Home[a]
      BY <1>1, <1>2
    <3>1. pc[p] = "rows" /\ a \in Agents
      BY <1>0, <1>2 DEF ListsOK
    <3>2. \/ status[a] = "running" /\ pc[owner[a]] = "gone"
          \/ \A q \in Procs : pc[q] = "up" => Seat[q] # Home[a]
      BY <2>1, <3>1 DEF SingleOK
    <3>3. status[a] = "running" => owner[a] \in Procs
      BY <1>0, <3>1 DEF RowsOK
    <3> QED BY <1>2, <2>3, <3>2, <3>3
  <2>5. pc'[p] \in {"files", "remove"} => \A o \in gone'[p] : pc'[o] = "gone"
    BY <1>0, <1>1, <1>2, <2>1, <2>3 DEF SingleOK, ListsOK
  <2>6. pc'[p] # "rows" /\ pc'[p] # "new"
    BY <1>2
  <2> QED BY <1>1, <1>2, <1>4, <2>1, <2>2, <2>4, <2>5, <2>6, OneStart
<1>9. MarksOK'
  BY <1>0, <1>1, <1>2 DEF MarksOK
<1> QED BY <1>3, <1>5, <1>6, <1>7, <1>8, <1>9 DEF IInv

\* The files are listed, or all that were stale are removed: nothing is left to mark.
LEMMA StepLists == ASSUME IInv, NEW p \in Procs, ListsFiles(p) \/ Started(p) PROVE IInv'
<1>0. TypeOK /\ LocksOK /\ ListsOK /\ RowsOK /\ (~overlapped => SingleOK) /\ MarksOK
  BY DEF IInv
<1>1. /\ \/ pc[p] = "mark" /\ Goto(p, "files") /\ todo' = [todo EXCEPT ![p] = {<<q, q>> : q \in file}]
         \/ pc[p] = "remove" /\ Goto(p, "up") /\ UNCHANGED todo
      /\ gone[p] = {}
      /\ UNCHANGED <<file, held, status, owner, gone, probe, ask, runs, dead, masked, overlapped>>
  BY DEF ListsFiles, Started, rows, history
<1>2. /\ pc' \in [Procs -> Pcs]
      /\ (pc[p] = "mark" /\ pc'[p] = "files") \/ (pc[p] = "remove" /\ pc'[p] = "up")
      /\ \A q \in Procs : q # p => pc'[q] = pc[q]
  <2>1. "files" \in Pcs /\ "up" \in Pcs
    BY DEF Pcs
  <2> QED BY <1>0, <1>1, <2>1, GotoMoves
<1>3. /\ todo' \in [Procs -> SUBSET ((Agents \cup Procs) \X (Procs \cup {None}))]
      /\ \A x \in todo'[p] : \E o \in Procs : x = <<o, o>> /\ pc[o] # "new"
      /\ pc'[p] = "up" => todo'[p] = {}
      /\ \A q \in Procs : q # p => todo'[q] = todo[q]
  <2>1. CASE pc[p] = "mark" /\ Goto(p, "files") /\ todo' = [todo EXCEPT ![p] = {<<q, q>> : q \in file}]
    <3> DEFINE F == {<<q, q>> : q \in file}
    <3>1. /\ F \in SUBSET ((Agents \cup Procs) \X (Procs \cup {None}))
          /\ \A x \in F : \E o \in Procs : x = <<o, o>> /\ pc[o] # "new"
      BY <1>0 DEF TypeOK, LocksOK
    <3>2. todo' = [todo EXCEPT ![p] = F]
      BY <2>1
    <3> HIDE DEF F
    <3>3. /\ todo' \in [Procs -> SUBSET ((Agents \cup Procs) \X (Procs \cup {None}))] /\ todo'[p] = F
          /\ \A q \in Procs : q # p => todo'[q] = todo[q]
      BY <1>0, <3>1, <3>2 DEF TypeOK
    <3>4. pc'[p] # "up"
      BY <1>2, <2>1
    <3> QED BY <3>1, <3>3, <3>4
  <2>2. CASE pc[p] = "remove" /\ UNCHANGED todo
    <3>1. todo[p] = {}
      BY <1>0, <2>2 DEF ListsOK
    <3> QED BY <1>0, <2>2, <3>1 DEF TypeOK
  <2> QED BY <1>1, <2>1, <2>2
<1>4. TypeOK'
  BY <1>0, <1>1, <1>2, <1>3 DEF TypeOK
<1>5. /\ pc[p] \in StartingPcs /\ pc[p] \in LockedPcs /\ pc'[p] \in LockedPcs /\ pc[p] # "up"
      /\ probe[p] = None /\ pc'[p] # "new"
  BY <1>0, <1>2 DEF StartingPcs, LockedPcs, LocksOK
<1>6. LocksOK'
  BY <1>1, <1>2, <1>5, LocksStay
<1>7. \A o \in Procs : pc[o] # "new" => pc'[o] # "new"
  BY <1>2
<1>8. ListsOK'
  BY <1>0, <1>1, <1>2, <1>3, <1>7 DEF ListsOK
<1>9. RowsOK'
  <2>1. \A q \in Procs : \A r \in dead'[q] : r \in Procs /\ pc[r] = "gone"
    BY <1>0, <1>1 DEF RowsOK, TypeOK
  <2> QED BY <1>1, <1>2, <1>5, <2>1, Advances
<1>10. ASSUME ~overlapped' PROVE SingleOK'
  <2>1. ~overlapped /\ SingleOK
    BY <1>0, <1>1, <1>10
  <2>2. /\ \A q \in Live : q \in file'
        /\ \A a \in Agents : \A q \in runs[a] : status'[a] = "running"
    BY <1>1, <2>1 DEF SingleOK
  <2>3. pc'[p] \notin {"rows", "mark"} /\ gone'[p] = {}
    BY <1>1, <1>2
  <2> QED BY <1>1, <1>2, <1>5, <2>1, <2>2, <2>3, OneStart
<1>11. MarksOK'
  BY <1>0, <1>1, <1>2, <1>3 DEF MarksOK
<1> QED BY <1>4, <1>6, <1>8, <1>9, <1>10, <1>11 DEF IInv

\* A row of a process that is gone is marked: nobody runs its agent.
LEMMA StepMarks == ASSUME IInv, NEW p \in Procs, NEW a \in Agents, Marks(p, a) PROVE IInv'
<1>0. TypeOK /\ LocksOK /\ ListsOK /\ RowsOK /\ (~overlapped => SingleOK) /\ MarksOK
  BY DEF IInv
<1>1. /\ pc[p] = "mark" /\ a \in gone[p] /\ gone' = [gone EXCEPT ![p] = @ \ {a}]
      /\ status' = [status EXCEPT ![a] = IF @ = "running" THEN "interrupted" ELSE @]
      /\ UNCHANGED <<pc, file, held, owner, todo, probe, ask, runs, dead, masked, overlapped>>
  BY DEF Marks, history
<1>2. /\ status' \in [Agents -> {"idle", "running", "interrupted"}] /\ status'[a] # "running"
      /\ \A b \in Agents : b # a => status'[b] = status[b]
  BY <1>0, <1>1 DEF TypeOK
<1>3. /\ gone' \in [Procs -> SUBSET (Agents \cup Procs)] /\ gone'[p] = gone[p] \ {a}
      /\ \A q \in Procs : q # p => gone'[q] = gone[q]
  BY <1>0, <1>1 DEF TypeOK
<1>4. TypeOK'
  BY <1>0, <1>1, <1>2, <1>3 DEF TypeOK
<1>5. /\ pc[p] \in StartingPcs /\ pc[p] \in LockedPcs /\ pc[p] # "up" /\ pc'[p] # "new"
      /\ UNCHANGED <<owner, runs>> /\ \A q \in Procs : q # p => pc'[q] = pc[q]
      /\ \A b \in Agents : status'[b] = "running" => status[b] = "running"
      /\ pc' \in [Procs -> Pcs] /\ UNCHANGED pc
  BY <1>0, <1>1, <1>2 DEF StartingPcs, LockedPcs, TypeOK
<1>6. LocksOK'
  BY <1>1, <1>5, LocksStay
<1>7. ListsOK'
  BY <1>0, <1>1, <1>3 DEF ListsOK
<1>8. RowsOK'
  <2>1. \A q \in Procs : \A r \in dead'[q] : r \in Procs /\ pc[r] = "gone"
    BY <1>0, <1>1 DEF RowsOK, TypeOK
  <2> QED BY <1>5, <2>1, Advances
<1>9. ASSUME ~overlapped' PROVE SingleOK'
  <2>1. ~overlapped /\ SingleOK
    BY <1>0, <1>1, <1>9
  <2>2. \A q \in Live : q \in file'
    BY <1>1, <2>1 DEF SingleOK
  <2>3. runs[a] = {}
    <3> SUFFICES ASSUME NEW q \in runs[a] PROVE FALSE
      OBVIOUS
    <3>1. q \in Procs /\ pc[q] = "up" /\ Seat[q] = Home[a] /\ owner[a] = q
      BY <1>0, <2>1 DEF RowsOK, SingleOK, TypeOK
    <3>2. \/ status[a] = "running" /\ pc[owner[a]] = "gone"
          \/ \A r \in Procs : pc[r] = "up" => Seat[r] # Home[a]
      BY <1>1, <2>1 DEF SingleOK
    <3> QED BY <3>1, <3>2
  <2>4. \A b \in Agents : \A q \in runs[b] : status'[b] = "running"
    BY <1>2, <2>1, <2>3 DEF SingleOK
  <2>5. \A b \in gone'[p] :
           \/ status'[b] = "running" /\ pc'[owner'[b]] = "gone"
           \/ \A q \in Procs : pc'[q] = "up" => Seat[q] # Home[b]
    <3>1. \A b \in gone[p] :
           \/ status[b] = "running" /\ pc[owner[b]] = "gone"
           \/ \A q \in Procs : pc[q] = "up" => Seat[q] # Home[b]
      BY <1>1, <2>1 DEF SingleOK
    <3>2. \A b \in gone'[p] : b \in Agents /\ b # a /\ b \in gone[p]
      BY <1>0, <1>1, <1>3 DEF ListsOK
    <3> QED BY <1>1, <1>2, <3>1, <3>2
  <2>6. pc'[p] = "mark"
    BY <1>1
  <2> QED BY <1>5, <2>1, <2>2, <2>4, <2>5, <2>6, OneStart
<1>10. MarksOK'
  BY <1>0, <1>1, <1>2, <1>3 DEF MarksOK
<1> QED BY <1>4, <1>6, <1>7, <1>8, <1>9, <1>10 DEF IInv

\* A stale file is removed.
LEMMA StepRemoves == ASSUME IInv, NEW p \in Procs, NEW o \in Procs, Removes(p, o) PROVE IInv'
<1>0. TypeOK /\ LocksOK /\ ListsOK /\ RowsOK /\ (~overlapped => SingleOK) /\ MarksOK
  BY DEF IInv
<1>1. /\ pc[p] = "remove" /\ o \in gone[p] /\ gone' = [gone EXCEPT ![p] = @ \ {o}]
      /\ file' = file \ {o}
      /\ UNCHANGED <<pc, held, status, owner, todo, probe, ask, runs, dead, masked, overlapped>>
  BY DEF Removes, rows, history
<1>2. /\ gone' \in [Procs -> SUBSET (Agents \cup Procs)] /\ gone'[p] = gone[p] \ {o}
      /\ \A q \in Procs : q # p => gone'[q] = gone[q]
  BY <1>0, <1>1 DEF TypeOK
<1>3. TypeOK'
  BY <1>0, <1>1, <1>2 DEF TypeOK
<1>4. /\ pc[p] \in StartingPcs /\ pc[p] \in LockedPcs /\ pc[p] # "up" /\ pc'[p] # "new"
      /\ pc' \in [Procs -> Pcs] /\ UNCHANGED pc
  BY <1>0, <1>1 DEF StartingPcs, LockedPcs, TypeOK
<1>5. LocksOK'
  BY <1>1, <1>4, LocksStay
<1>6. ListsOK'
  BY <1>0, <1>1, <1>2 DEF ListsOK
<1>7. RowsOK'
  <2>1. \A q \in Procs : \A r \in dead'[q] : r \in Procs /\ pc[r] = "gone"
    BY <1>0, <1>1 DEF RowsOK, TypeOK
  <2> QED BY <1>1, <1>4, <2>1, Advances
<1>8. ASSUME ~overlapped' PROVE SingleOK'
  <2>1. ~overlapped /\ SingleOK
    BY <1>0, <1>1, <1>8
  <2>2. \A q \in gone[p] : pc[q] = "gone"
    BY <1>1, <2>1 DEF SingleOK
  <2>3. \A q \in Live : q \in file'
    BY <1>1, <2>1, <2>2 DEF SingleOK, Live
  <2>4. \A b \in Agents : \A q \in runs[b] : status'[b] = "running"
    BY <1>1, <2>1 DEF SingleOK
  <2>5. \A q \in gone'[p] : pc'[q] = "gone"
    BY <1>1, <1>2, <2>2
  <2>6. pc'[p] = "remove"
    BY <1>1
  <2> QED BY <1>1, <1>4, <2>1, <2>3, <2>4, <2>5, <2>6, OneStart
<1>9. MarksOK'
  BY <1>0, <1>1, <1>2 DEF MarksOK
<1> QED BY <1>3, <1>5, <1>6, <1>7, <1>8, <1>9 DEF IInv

\* An owner or a file is probed: what is found free belongs to a process that is gone.
LEMMA StepProbes ==
    ASSUME IInv, NEW p \in Procs, NEW x, NEW o, Probes(p, x, o)
    PROVE  IInv'
<1>0. TypeOK /\ LocksOK /\ ListsOK /\ RowsOK /\ (~overlapped => SingleOK) /\ MarksOK
  BY DEF IInv
<1>1. /\ pc[p] \in {"rows", "files"} /\ probe[p] = None /\ <<x, o>> \in todo[p]
      /\ todo' = [todo EXCEPT ![p] = @ \ {<<x, o>>}]
      /\ UNCHANGED <<pc, file, status, owner, ask, runs, dead, overlapped>>
  BY DEF Probes, rows
<1> DEFINE Free == o # p /\ (o \notin file \/ held[o] = None)
           Taken == o # p /\ o \in file /\ held[o] # None
<1>2. /\ Free => gone' = [gone EXCEPT ![p] = @ \cup {x}]
      /\ ~Free => UNCHANGED gone
      /\ \/ UNCHANGED <<probe, held>>
         \/ /\ o # p /\ held[o] = None
            /\ probe' = [probe EXCEPT ![p] = o] /\ held' = [held EXCEPT ![o] = p]
      /\ Taken => masked' = [masked EXCEPT ![p] = IF held[o] = o THEN @ ELSE @ \cup {o}]
      /\ ~Taken => UNCHANGED masked
  BY DEF Probes
<1>3. /\ o \in Procs /\ x \in Agents \cup Procs
      /\ pc[p] = "rows" => x \in Agents
      /\ pc[p] = "files" => x = o /\ pc[o] # "new"
  <2>1. CASE pc[p] = "rows"
    BY <1>0, <1>1, <2>1 DEF ListsOK
  <2>2. CASE pc[p] = "files"
    BY <1>0, <1>1, <2>2 DEF ListsOK
  <2> QED BY <1>1, <2>1, <2>2
<1>4. /\ todo' \in [Procs -> SUBSET ((Agents \cup Procs) \X (Procs \cup {None}))]
      /\ todo'[p] = todo[p] \ {<<x, o>>}
      /\ \A q \in Procs : q # p => todo'[q] = todo[q]
  <2>1. todo[p] \ {<<x, o>>} \in SUBSET ((Agents \cup Procs) \X (Procs \cup {None}))
    BY <1>0 DEF TypeOK
  <2> QED BY <1>0, <1>1, <2>1 DEF TypeOK
<1>5. /\ gone' \in [Procs -> SUBSET (Agents \cup Procs)]
      /\ gone'[p] = IF Free THEN gone[p] \cup {x} ELSE gone[p]
      /\ \A q \in Procs : q # p => gone'[q] = gone[q]
  <2> HIDE DEF Free
  <2>1. CASE Free
    BY <1>0, <1>2, <1>3, <2>1 DEF TypeOK
  <2>2. CASE ~Free
    BY <1>0, <1>2, <2>2 DEF TypeOK
  <2> QED BY <2>1, <2>2
<1>6. /\ masked' \in [Procs -> SUBSET Procs] /\ masked[p] \subseteq masked'[p]
      /\ Taken /\ held[o] # o => o \in masked'[p]
      /\ \A q \in Procs : q # p => masked'[q] = masked[q]
  <2> HIDE DEF Taken
  <2>1. CASE Taken
    BY <1>0, <1>2, <1>3, <2>1 DEF TypeOK
  <2>2. CASE ~Taken
    BY <1>0, <1>2, <2>2 DEF TypeOK
  <2> QED BY <2>1, <2>2
<1>7. /\ probe' \in [Procs -> Procs \cup {None}] /\ held' \in [Procs -> Procs \cup {None, Asker}]
      /\ \/ UNCHANGED <<probe, held>>
         \/ /\ o # p /\ held[o] = None /\ probe'[p] = o /\ held'[o] = p
            /\ \A q \in Procs : q # p => probe'[q] = probe[q]
            /\ \A q \in Procs : q # o => held'[q] = held[q]
  BY <1>0, <1>2, <1>3 DEF TypeOK
<1>8. TypeOK'
  BY <1>0, <1>1, <1>4, <1>5, <1>6, <1>7 DEF TypeOK
<1>9. LocksOK'
  <2>1. CASE UNCHANGED <<probe, held>>
    BY <1>0, <1>1, <2>1 DEF LocksOK
  <2>2. CASE /\ o # p /\ held[o] = None /\ probe'[p] = o /\ held'[o] = p
             /\ \A q \in Procs : q # p => probe'[q] = probe[q]
             /\ \A q \in Procs : q # o => held'[q] = held[q]
    <3>1. \A q \in Procs : held'[q] = q <=> pc'[q] \in LockedPcs
      BY <1>0, <1>1, <1>3, <2>2 DEF LocksOK
    <3>2. \A q \in Procs : probe'[q] # None =>
             held'[probe'[q]] = q /\ probe'[q] # q /\ pc'[q] \in {"rows", "files"}
      BY <1>0, <1>1, <1>3, <2>2 DEF LocksOK, TypeOK
    <3>3. ask'.file # None =>
             /\ held'[ask'.file] = ask'.by /\ ask'.by # ask'.file
             /\ ask'.by = Asker \/ (ask'.by \in Procs /\ pc'[ask'.by] = "up")
      BY <1>0, <1>1, <1>3, <2>2 DEF LocksOK, TypeOK
    <3> QED BY <1>0, <1>1, <3>1, <3>2, <3>3 DEF LocksOK
  <2> QED BY <1>7, <2>1, <2>2
<1>10. ListsOK'
  BY <1>0, <1>1, <1>3, <1>4, <1>5 DEF ListsOK
<1>11. /\ pc[p] \in StartingPcs /\ pc' \in [Procs -> Pcs] /\ pc'[p] # "new"
       /\ UNCHANGED <<owner, runs, status, dead, pc, file>>
  BY <1>0, <1>1 DEF StartingPcs, TypeOK
<1>12. RowsOK'
  <2>1. \A q \in Procs : \A r \in dead'[q] : r \in Procs /\ pc[r] = "gone"
    BY <1>0, <1>1 DEF RowsOK, TypeOK
  <2> QED BY <1>11, <2>1, Advances
<1>13. ASSUME ~overlapped' PROVE SingleOK'
  <2>1. ~overlapped /\ SingleOK
    BY <1>0, <1>1, <1>13
  <2>2. /\ \A q \in Live : q \in file'
        /\ \A b \in Agents : \A q \in runs[b] : status'[b] = "running"
    BY <1>11, <2>1 DEF SingleOK
  <2>3. Free /\ pc[o] = "up" => FALSE
    BY <1>0, <1>3, <2>1 DEF SingleOK, LocksOK, LockedPcs, Live
  <2>4. pc'[p] = "rows" => \A b \in Agents, r \in Procs : <<b, r>> \in todo'[p] =>
           /\ pc'[r] \in {"up", "gone"} /\ Seat[r] = Home[b]
           /\ (status'[b] = "running" /\ owner'[b] = r) \/ OnlyBy(b, r)'
    <3>1. pc[p] = "rows" => \A b \in Agents, r \in Procs : <<b, r>> \in todo[p] =>
           /\ pc[r] \in {"up", "gone"} /\ Seat[r] = Home[b]
           /\ (status[b] = "running" /\ owner[b] = r) \/ OnlyBy(b, r)
      BY <2>1 DEF SingleOK
    <3> QED BY <1>4, <1>11, <3>1 DEF OnlyBy
  <2>5. pc'[p] \in {"rows", "mark"} => \A b \in gone'[p] :
           \/ status'[b] = "running" /\ pc'[owner'[b]] = "gone"
           \/ \A q \in Procs : pc'[q] = "up" => Seat[q] # Home[b]
    <3> SUFFICES ASSUME pc[p] = "rows", NEW b \in gone'[p]
                 PROVE  \/ status[b] = "running" /\ pc[owner[b]] = "gone"
                        \/ \A q \in Procs : pc[q] = "up" => Seat[q] # Home[b]
      BY <1>1, <1>11
    <3>1. CASE b \in gone[p]
      BY <2>1, <3>1 DEF SingleOK
    <3>2. CASE b = x /\ Free
      <4>1. pc[o] = "gone" /\ ((status[x] = "running" /\ owner[x] = o) \/ OnlyBy(x, o))
        <5>1. pc[o] \in {"up", "gone"} /\ ((status[x] = "running" /\ owner[x] = o) \/ OnlyBy(x, o))
          BY <1>1, <1>3, <2>1 DEF SingleOK
        <5> QED BY <2>3, <3>2, <5>1
      <4> QED BY <3>2, <4>1 DEF OnlyBy
    <3> QED BY <1>5, <3>1, <3>2
  <2>6. pc'[p] \in {"files", "remove"} => \A r \in gone'[p] : pc'[r] = "gone"
    <3> SUFFICES ASSUME pc[p] = "files", NEW r \in gone'[p] PROVE pc[r] = "gone"
      BY <1>1, <1>11
    <3>1. CASE r \in gone[p]
      BY <2>1, <3>1 DEF SingleOK
    <3>2. CASE r = x /\ Free
      <4>1. x = o /\ pc[o] # "new" /\ pc[o] # "up" /\ pc[o] \in Pcs
        BY <1>0, <1>3, <2>3, <3>2 DEF TypeOK
      <4>2. pc[o] \notin StartingPcs
        BY <1>3, <1>11, <2>1, <3>2 DEF SingleOK
      <4> QED BY <3>2, <4>1, <4>2 DEF Pcs, StartingPcs
    <3> QED BY <1>5, <3>1, <3>2
  <2> QED BY <1>11, <2>1, <2>2, <2>4, <2>5, <2>6, OneStart
<1>14. MarksOK'
  <2> SUFFICES ASSUME NEW q \in Procs, NEW b \in Agents, status[b] = "running", owner[b] \in dead[q]
               PROVE  /\ pc[q] = "rows" =>
                          <<b, owner[b]>> \in todo'[q] \/ b \in gone'[q] \/ owner[b] \in masked'[q]
                      /\ pc[q] = "mark" => b \in gone'[q] \/ owner[b] \in masked'[q]
                      /\ pc[q] \in {"files", "remove", "up"} => owner[b] \in masked'[q]
    BY <1>11 DEF MarksOK
  <2>1. /\ pc[q] = "rows" =>
             <<b, owner[b]>> \in todo[q] \/ b \in gone[q] \/ owner[b] \in masked[q]
        /\ pc[q] = "mark" => b \in gone[q] \/ owner[b] \in masked[q]
        /\ pc[q] \in {"files", "remove", "up"} => owner[b] \in masked[q]
    BY <1>0 DEF MarksOK
  <2>2. CASE q # p
    BY <1>4, <1>5, <1>6, <2>1, <2>2
  <2>3. CASE q = p /\ <<b, owner[b]>> = <<x, o>> /\ pc[p] = "rows"
    <3>1. b = x /\ owner[b] = o
      BY <2>3
    <3>2. pc[o] = "gone"
      BY <1>0, <3>1 DEF RowsOK
    <3>3. held[o] # o /\ o # p
      BY <1>0, <1>3, <2>3, <3>2 DEF LocksOK, LockedPcs
    <3>4. Free \/ Taken
      BY <3>3
    <3> QED BY <1>5, <1>6, <2>3, <3>1, <3>3, <3>4
  <2>4. CASE q = p /\ ~(<<b, owner[b]>> = <<x, o>> /\ pc[p] = "rows")
    BY <1>4, <1>5, <1>6, <2>1, <2>4
  <2> QED BY <2>2, <2>3, <2>4
<1> QED BY <1>8, <1>9, <1>10, <1>12, <1>13, <1>14 DEF IInv

\* Only locks change.
LEMMA LocksOnly ==
    ASSUME IInv, TypeOK', LocksOK',
           UNCHANGED <<pc, file, todo, gone, status, owner, runs, dead, masked, overlapped>>
    PROVE  IInv'
<1>1. ListsOK' /\ RowsOK' /\ MarksOK'
  BY DEF IInv, ListsOK, RowsOK, MarksOK, Live
<1>2. (~overlapped => SingleOK)'
  BY DEF IInv, SingleOK, Live, OnlyBy
<1> QED BY <1>1, <1>2 DEF IInv

\* A probe's lock is let go of: it was no process's own.
LEMMA StepProbeDrops == ASSUME IInv, NEW p \in Procs, ProbeDrops(p) PROVE IInv'
<1>0. TypeOK /\ LocksOK
  BY DEF IInv
<1>1. /\ probe[p] # None /\ held' = [held EXCEPT ![probe[p]] = None]
      /\ probe' = [probe EXCEPT ![p] = None]
      /\ UNCHANGED <<pc, file, status, owner, todo, gone, ask, runs, dead, masked, overlapped>>
  BY DEF ProbeDrops, rows, history
<1> DEFINE o == probe[p]
<1>2. o \in Procs /\ held[o] = p /\ o # p /\ pc[p] \in {"rows", "files"}
  BY <1>0, <1>1 DEF TypeOK, LocksOK
<1>3. /\ held' \in [Procs -> Procs \cup {None, Asker}] /\ held'[o] = None
      /\ \A q \in Procs : q # o => held'[q] = held[q]
      /\ probe' \in [Procs -> Procs \cup {None}] /\ probe'[p] = None
      /\ \A q \in Procs : q # p => probe'[q] = probe[q]
  BY <1>0, <1>1, <1>2 DEF TypeOK
<1> HIDE DEF o
<1>4. TypeOK'
  BY <1>0, <1>1, <1>3 DEF TypeOK
<1>5. LocksOK'
  <2>1. \A q \in Procs : held'[q] = q <=> pc'[q] \in LockedPcs
    BY <1>0, <1>1, <1>2, <1>3 DEF LocksOK
  <2>2. \A q \in Procs : probe'[q] # None =>
           held'[probe'[q]] = q /\ probe'[q] # q /\ pc'[q] \in {"rows", "files"}
    BY <1>0, <1>1, <1>2, <1>3 DEF LocksOK, TypeOK
  <2>3. ask'.file # None =>
           /\ held'[ask'.file] = ask'.by /\ ask'.by # ask'.file
           /\ ask'.by = Asker \/ (ask'.by \in Procs /\ pc'[ask'.by] = "up")
    BY <1>0, <1>1, <1>2, <1>3 DEF LocksOK, TypeOK
  <2> QED BY <1>0, <1>1, <2>1, <2>2, <2>3 DEF LocksOK
<1> QED BY <1>1, <1>4, <1>5, LocksOnly

\* A question is asked: a lock that was free is held for it.
LEMMA StepAsks ==
    ASSUME IInv, NEW q \in Procs \cup {Asker}, NEW a \in Agents, Asks(q, a)
    PROVE  IInv'
<1>0. TypeOK /\ LocksOK
  BY DEF IInv
<1> DEFINE o == owner[a]
<1>1. /\ ask.by = None /\ (q = Asker \/ (q \in Procs /\ pc[q] = "up"))
      /\ \/ /\ o \in file /\ held[o] = None
            /\ ask' = [by |-> q, file |-> o, of |-> a, elsewhere |-> FALSE]
            /\ held' = [held EXCEPT ![o] = q]
         \/ /\ ask' = [by |-> q, file |-> None, of |-> a, elsewhere |-> o \in file]
            /\ UNCHANGED held
      /\ UNCHANGED <<pc, file, todo, gone, probe, status, owner, runs, dead, masked, overlapped>>
  BY DEF Asks, start, rows, history
<1> HIDE DEF o
<1>2. CASE /\ o \in file /\ held[o] = None
           /\ ask' = [by |-> q, file |-> o, of |-> a, elsewhere |-> FALSE]
           /\ held' = [held EXCEPT ![o] = q]
  <2>1. /\ o \in Procs /\ held' \in [Procs -> Procs \cup {None, Asker}] /\ held'[o] = q
        /\ \A r \in Procs : r # o => held'[r] = held[r]
    BY <1>0, <1>2 DEF TypeOK
  <2>2. q # o
    BY <1>0, <1>1, <1>2, <2>1 DEF LocksOK, LockedPcs
  <2>3. TypeOK'
    <3>1. ask' \in [by : Procs \cup {None, Asker}, file : Procs \cup {None},
                    of : Agents \cup {None}, elsewhere : BOOLEAN]
      BY <1>2, <2>1
    <3> QED BY <1>0, <1>1, <2>1, <3>1 DEF TypeOK
  <2>4. LocksOK'
    <3>1. \A r \in Procs : held'[r] = r <=> pc'[r] \in LockedPcs
      BY <1>0, <1>1, <1>2, <2>1, <2>2 DEF LocksOK
    <3>2. \A r \in Procs : probe'[r] # None =>
             held'[probe'[r]] = r /\ probe'[r] # r /\ pc'[r] \in {"rows", "files"}
      BY <1>0, <1>1, <1>2, <2>1 DEF LocksOK, TypeOK
    <3>3. ask'.file = o /\ ask'.by = q
      BY <1>2
    <3> QED BY <1>0, <1>1, <2>1, <2>2, <3>1, <3>2, <3>3 DEF LocksOK
  <2> QED BY <1>1, <2>3, <2>4, LocksOnly
<1>3. CASE /\ ask' = [by |-> q, file |-> None, of |-> a, elsewhere |-> o \in file]
           /\ UNCHANGED held
  <2>1. TypeOK'
    <3>1. ask' \in [by : Procs \cup {None, Asker}, file : Procs \cup {None},
                    of : Agents \cup {None}, elsewhere : BOOLEAN]
      BY <1>3
    <3> QED BY <1>0, <1>1, <1>3, <3>1 DEF TypeOK
  <2>2. ask'.file = None
    BY <1>3
  <2>3. LocksOK'
    BY <1>0, <1>1, <1>3, <2>2 DEF LocksOK
  <2> QED BY <1>1, <2>1, <2>3, LocksOnly
<1> QED BY <1>1, <1>2, <1>3

\* It is answered.
LEMMA StepAnswers == ASSUME IInv, Answers PROVE IInv'
<1>0. TypeOK /\ LocksOK
  BY DEF IInv
<1>1. /\ ask.by # None /\ ask' = NoAsk
      /\ held' = [o \in Procs |-> IF o = ask.file THEN None ELSE held[o]]
      /\ UNCHANGED <<pc, file, todo, gone, probe, status, owner, runs, dead, masked, overlapped>>
  BY DEF Answers, start, rows, history
<1>2. /\ held' \in [Procs -> Procs \cup {None, Asker}]
      /\ \A r \in Procs : r # ask.file => held'[r] = held[r]
      /\ ask.file \in Procs => held'[ask.file] = None
  BY <1>0, <1>1 DEF TypeOK
<1>3. TypeOK'
  <2>1. ask' \in [by : Procs \cup {None, Asker}, file : Procs \cup {None},
                  of : Agents \cup {None}, elsewhere : BOOLEAN]
    BY <1>1 DEF NoAsk
  <2> QED BY <1>0, <1>1, <1>2, <2>1 DEF TypeOK
<1>4. LocksOK'
  <2>0. ask.file \in Procs \cup {None} /\ ask'.file = None
    BY <1>0, <1>1 DEF TypeOK, NoAsk
  <2>1. \A r \in Procs : held'[r] = r <=> pc'[r] \in LockedPcs
    BY <1>0, <1>1, <1>2, <2>0 DEF LocksOK
  <2>2. ASSUME NEW r \in Procs, probe[r] # None
        PROVE  held'[probe[r]] = r /\ probe[r] # r /\ pc[r] \in {"rows", "files"}
    <3>1. held[probe[r]] = r /\ probe[r] # r /\ pc[r] \in {"rows", "files"} /\ probe[r] \in Procs
      BY <1>0, <2>2 DEF LocksOK, TypeOK
    <3>2. probe[r] # ask.file
      BY <1>0, <3>1 DEF LocksOK
    <3> QED BY <1>2, <3>1, <3>2
  <2> QED BY <1>0, <1>1, <2>0, <2>1, <2>2 DEF LocksOK
<1> QED BY <1>1, <1>3, <1>4, LocksOnly

-----------------------------------------------------------------------------
(* The life of a process *)

\* An agent is run by the only process that may.
LEMMA StepRuns == ASSUME IInv, NEW p \in Procs, NEW a \in Agents, Runs(p, a) PROVE IInv'
<1>0. TypeOK /\ LocksOK /\ ListsOK /\ RowsOK /\ (~overlapped => SingleOK) /\ MarksOK
  BY DEF IInv
<1>1. /\ pc[p] = "up" /\ Home[a] = Seat[p] /\ status[a] # "running"
      /\ status' = [status EXCEPT ![a] = "running"]
      /\ owner' = [owner EXCEPT ![a] = p]
      /\ runs' = [runs EXCEPT ![a] = @ \cup {p}]
      /\ UNCHANGED <<pc, file, todo, gone, probe, held, ask, dead, masked, overlapped>>
  BY DEF Runs, start
<1>2. /\ status' \in [Agents -> {"idle", "running", "interrupted"}] /\ status'[a] = "running"
      /\ owner' \in [Agents -> Procs \cup {None}] /\ owner'[a] = p
      /\ runs' \in [Agents -> SUBSET Procs] /\ runs'[a] = runs[a] \cup {p}
      /\ \A b \in Agents : b # a => status'[b] = status[b] /\ owner'[b] = owner[b] /\ runs'[b] = runs[b]
  BY <1>0, <1>1 DEF TypeOK
<1>3. TypeOK'
  BY <1>0, <1>1, <1>2 DEF TypeOK
<1>4. LocksOK' /\ ListsOK'
  BY <1>0, <1>1 DEF LocksOK, ListsOK
<1>5. Live' = Live
  BY <1>1 DEF Live
<1>6. RowsOK'
  <2>1. \A b \in Agents : status'[b] = "running" =>
           owner'[b] \in Procs /\ pc'[owner'[b]] \in {"up", "gone"} /\ Seat[owner'[b]] = Home[b]
    BY <1>0, <1>1, <1>2 DEF RowsOK
  <2>2. \A b \in Agents : \A q \in runs'[b] : pc'[q] = "up" /\ Seat[q] = Home[b]
    BY <1>0, <1>1, <1>2 DEF RowsOK
  <2> QED BY <1>0, <1>1, <1>5, <2>1, <2>2 DEF RowsOK
<1>7. ASSUME ~overlapped' PROVE SingleOK'
  <2>1. SingleOK
    BY <1>0, <1>1, <1>7
  <2>2. \A b \in Agents : \A q \in runs'[b] : status'[b] = "running" /\ owner'[b] = q
    BY <1>1, <1>2, <2>1 DEF SingleOK
  <2>3. ASSUME NEW q \in Procs, pc[q] = "rows", NEW b \in Agents, NEW o \in Procs,
               <<b, o>> \in todo[q]
        PROVE  /\ pc[o] \in {"up", "gone"} /\ Seat[o] = Home[b]
               /\ (status'[b] = "running" /\ owner'[b] = o) \/ OnlyBy(b, o)
    <3>1. /\ pc[o] \in {"up", "gone"} /\ Seat[o] = Home[b]
          /\ (status[b] = "running" /\ owner[b] = o) \/ OnlyBy(b, o)
      BY <2>1, <2>3 DEF SingleOK
    <3>2. CASE b = a
      <4>1. OnlyBy(a, o)
        BY <1>1, <3>1, <3>2
      <4> QED BY <3>1, <3>2, <4>1
    <3>3. CASE b # a
      BY <1>2, <3>1, <3>3
    <3> QED BY <3>2, <3>3
  <2>4. ASSUME NEW q \in Procs, pc[q] \in {"rows", "mark"}, NEW b \in gone[q]
        PROVE  \/ status'[b] = "running" /\ pc[owner'[b]] = "gone"
               \/ \A r \in Procs : pc[r] = "up" => Seat[r] # Home[b]
    <3>1. \/ status[b] = "running" /\ pc[owner[b]] = "gone"
          \/ \A r \in Procs : pc[r] = "up" => Seat[r] # Home[b]
      BY <2>1, <2>4 DEF SingleOK
    <3>2. b \in Agents
      BY <1>0, <2>4 DEF ListsOK
    <3> QED BY <1>1, <1>2, <3>1, <3>2
  <2>5. /\ \A q, r \in Procs : pc[q] \in StartingPcs /\ pc[r] \in StartingPcs => q = r
        /\ Live \subseteq file
        /\ \A q \in Procs : pc[q] \in {"files", "remove"} => \A o \in gone[q] : pc[o] = "gone"
    BY <2>1 DEF SingleOK
  <2> QED BY <1>1, <1>5, <2>2, <2>3, <2>4, <2>5 DEF SingleOK, OnlyBy
<1>8. MarksOK'
  <2>1. \A q \in Procs : p \notin dead[q]
    BY <1>0, <1>1 DEF RowsOK
  <2> QED BY <1>0, <1>1, <1>2, <2>1 DEF MarksOK
<1> QED BY <1>3, <1>4, <1>6, <1>7, <1>8 DEF IInv

\* A run has ended.
LEMMA StepEnds == ASSUME IInv, NEW p \in Procs, NEW a \in Agents, Ends(p, a) PROVE IInv'
<1>0. TypeOK /\ LocksOK /\ ListsOK /\ RowsOK /\ (~overlapped => SingleOK) /\ MarksOK
  BY DEF IInv
<1>1. /\ p \in runs[a] /\ status' = [status EXCEPT ![a] = "idle"]
      /\ runs' = [runs EXCEPT ![a] = @ \ {p}]
      /\ UNCHANGED <<pc, file, todo, gone, probe, held, owner, ask, dead, masked, overlapped>>
  BY DEF Ends, start
<1>2. /\ status' \in [Agents -> {"idle", "running", "interrupted"}] /\ status'[a] = "idle"
      /\ runs' \in [Agents -> SUBSET Procs] /\ runs'[a] = runs[a] \ {p}
      /\ \A b \in Agents : b # a => status'[b] = status[b] /\ runs'[b] = runs[b]
  BY <1>0, <1>1 DEF TypeOK
<1>3. TypeOK'
  BY <1>0, <1>1, <1>2 DEF TypeOK
<1>4. LocksOK' /\ ListsOK'
  BY <1>0, <1>1 DEF LocksOK, ListsOK
<1>5. Live' = Live
  BY <1>1 DEF Live
<1>6. RowsOK'
  <2>1. \A b \in Agents : status'[b] = "running" => status[b] = "running"
    BY <1>2
  <2>2. \A b \in Agents : \A q \in runs'[b] : pc'[q] = "up" /\ Seat[q] = Home[b]
    BY <1>0, <1>1, <1>2 DEF RowsOK
  <2> QED BY <1>0, <1>1, <1>5, <2>1, <2>2 DEF RowsOK
<1>7. ASSUME ~overlapped' PROVE SingleOK'
  <2>1. SingleOK
    BY <1>0, <1>1, <1>7
  <2>2. pc[p] = "up" /\ Seat[p] = Home[a] /\ owner[a] = p
    BY <1>0, <1>1, <2>1 DEF RowsOK, SingleOK
  <2>3. \A b \in Agents : \A q \in runs'[b] : status'[b] = "running" /\ owner'[b] = q
    BY <1>1, <1>2, <2>1 DEF SingleOK
  <2>4. ASSUME NEW q \in Procs, pc[q] = "rows", NEW b \in Agents, NEW o \in Procs,
               <<b, o>> \in todo[q]
        PROVE  /\ pc[o] \in {"up", "gone"} /\ Seat[o] = Home[b]
               /\ (status'[b] = "running" /\ owner[b] = o) \/ OnlyBy(b, o)
    <3>1. /\ pc[o] \in {"up", "gone"} /\ Seat[o] = Home[b]
          /\ (status[b] = "running" /\ owner[b] = o) \/ OnlyBy(b, o)
      BY <2>1, <2>4 DEF SingleOK
    <3>2. OnlyBy(a, p)
      BY <1>0, <2>2 DEF OnlyBy, RowsOK, Live
    <3>3. CASE b = a
      BY <2>2, <3>1, <3>2, <3>3
    <3>4. CASE b # a
      BY <1>2, <3>1, <3>4
    <3> QED BY <3>3, <3>4
  <2>5. ASSUME NEW q \in Procs, pc[q] \in {"rows", "mark"}, NEW b \in gone[q]
        PROVE  \/ status'[b] = "running" /\ pc[owner[b]] = "gone"
               \/ \A r \in Procs : pc[r] = "up" => Seat[r] # Home[b]
    <3>1. \/ status[b] = "running" /\ pc[owner[b]] = "gone"
          \/ \A r \in Procs : pc[r] = "up" => Seat[r] # Home[b]
      BY <2>1, <2>5 DEF SingleOK
    <3>2. b \in Agents
      BY <1>0, <2>5 DEF ListsOK
    <3> QED BY <1>2, <2>2, <3>1, <3>2
  <2>6. /\ \A q, r \in Procs : pc[q] \in StartingPcs /\ pc[r] \in StartingPcs => q = r
        /\ Live \subseteq file
        /\ \A q \in Procs : pc[q] \in {"files", "remove"} => \A o \in gone[q] : pc[o] = "gone"
    BY <2>1 DEF SingleOK
  <2> QED BY <1>1, <1>5, <2>3, <2>4, <2>5, <2>6 DEF SingleOK, OnlyBy
<1>8. MarksOK'
  BY <1>0, <1>1, <1>2 DEF MarksOK
<1> QED BY <1>3, <1>4, <1>6, <1>7, <1>8 DEF IInv

\* A process dies, at whatever point.
LEMMA StepDies == ASSUME IInv, NEW p \in Procs, Dies(p) PROVE IInv'
<1>0. TypeOK /\ LocksOK /\ ListsOK /\ RowsOK /\ (~overlapped => SingleOK) /\ MarksOK
  BY DEF IInv
<1>1. /\ p \in Live /\ Goto(p, "gone")
      /\ held' = [o \in Procs |-> IF held[o] = p THEN None ELSE held[o]]
      /\ probe' = [probe EXCEPT ![p] = None]
      /\ todo' = [todo EXCEPT ![p] = {}] /\ gone' = [gone EXCEPT ![p] = {}]
      /\ runs' = [a \in Agents |-> runs[a] \ {p}]
      /\ ask' = IF ask.by = p THEN NoAsk ELSE ask
      /\ UNCHANGED <<file, status, owner, dead, masked, overlapped>>
  BY DEF Dies, rows
<1>2. /\ pc' \in [Procs -> Pcs] /\ pc'[p] = "gone"
      /\ \A q \in Procs : q # p => pc'[q] = pc[q]
  BY <1>0, <1>1, GotoMoves DEF Pcs
<1>3. /\ held' \in [Procs -> Procs \cup {None, Asker}]
      /\ \A q \in Procs : held'[q] = IF held[q] = p THEN None ELSE held[q]
      /\ probe' \in [Procs -> Procs \cup {None}] /\ probe'[p] = None
      /\ \A q \in Procs : q # p => probe'[q] = probe[q]
  BY <1>0, <1>1 DEF TypeOK
<1>4. /\ todo' \in [Procs -> SUBSET ((Agents \cup Procs) \X (Procs \cup {None}))] /\ todo'[p] = {}
      /\ gone' \in [Procs -> SUBSET (Agents \cup Procs)] /\ gone'[p] = {}
      /\ \A q \in Procs : q # p => todo'[q] = todo[q] /\ gone'[q] = gone[q]
  <2>1. {} \in SUBSET ((Agents \cup Procs) \X (Procs \cup {None})) /\ {} \in SUBSET (Agents \cup Procs)
    OBVIOUS
  <2> QED BY <1>0, <1>1, <2>1 DEF TypeOK
<1>5. /\ runs' \in [Agents -> SUBSET Procs]
      /\ \A a \in Agents : runs'[a] = runs[a] \ {p}
  BY <1>0, <1>1 DEF TypeOK
<1>6. /\ ask' \in [by : Procs \cup {None, Asker}, file : Procs \cup {None},
                   of : Agents \cup {None}, elsewhere : BOOLEAN]
      /\ ask'.file # None => ask' = ask /\ ask.by # p
  <2>1. NoAsk \in [by : Procs \cup {None, Asker}, file : Procs \cup {None},
                   of : Agents \cup {None}, elsewhere : BOOLEAN] /\ NoAsk.file = None
    BY DEF NoAsk
  <2> QED BY <1>0, <1>1, <2>1 DEF TypeOK
<1>7. TypeOK'
  BY <1>0, <1>1, <1>2, <1>3, <1>4, <1>5, <1>6 DEF TypeOK
<1>8. LocksOK'
  <2>1. \A q \in Procs : held'[q] = q <=> pc'[q] \in LockedPcs
    <3>1. "gone" \notin LockedPcs
      BY DEF LockedPcs
    <3> QED BY <1>0, <1>2, <1>3, <3>1 DEF LocksOK
  <2>2. \A q \in Procs : probe'[q] # None =>
           held'[probe'[q]] = q /\ probe'[q] # q /\ pc'[q] \in {"rows", "files"}
    BY <1>0, <1>2, <1>3 DEF LocksOK, TypeOK
  <2>3. ask'.file # None =>
           /\ held'[ask'.file] = ask'.by /\ ask'.by # ask'.file
           /\ ask'.by = Asker \/ (ask'.by \in Procs /\ pc'[ask'.by] = "up")
    <3> SUFFICES ASSUME ask'.file # None
                 PROVE  /\ held'[ask.file] = ask.by /\ ask.by # ask.file
                        /\ ask.by = Asker \/ (ask.by \in Procs /\ pc'[ask.by] = "up")
      BY <1>6
    <3>1. ask.file # None /\ ask.file \in Procs /\ ask.by # p
      BY <1>0, <1>6 DEF TypeOK
    <3>2. /\ held[ask.file] = ask.by /\ ask.by # ask.file
          /\ ask.by = Asker \/ (ask.by \in Procs /\ pc[ask.by] = "up")
      BY <1>0, <3>1 DEF LocksOK
    <3> QED BY <1>2, <1>3, <3>1, <3>2
  <2>4. \A q \in file' : pc'[q] # "new"
    BY <1>0, <1>1, <1>2 DEF LocksOK, TypeOK
  <2> QED BY <2>1, <2>2, <2>3, <2>4 DEF LocksOK
<1>9. \A q \in Procs : pc[q] \in {"new", "gone"} => pc'[q] = pc[q]
  BY <1>1, <1>2 DEF Live
<1>10. ListsOK'
  <2> SUFFICES ASSUME NEW q \in Procs
               PROVE  /\ pc'[q] = "rows" => todo'[q] \subseteq Agents \X Procs
                      /\ pc'[q] = "files" =>
                            \A x \in todo'[q] : \E o \in Procs : x = <<o, o>> /\ pc'[o] # "new"
                      /\ pc'[q] \notin {"rows", "files"} => todo'[q] = {}
                      /\ pc'[q] \in {"rows", "mark"} => gone'[q] \subseteq Agents
                      /\ pc'[q] \in {"files", "remove"} => gone'[q] \subseteq Procs
                      /\ pc'[q] \notin {"rows", "mark", "files", "remove"} => gone'[q] = {}
    BY DEF ListsOK
  <2>1. CASE q = p
    BY <1>2, <1>4, <2>1
  <2>2. CASE q # p
    <3>1. \A o \in Procs : pc[o] # "new" => pc'[o] # "new"
      BY <1>2
    <3> QED BY <1>0, <1>2, <1>4, <2>2, <3>1 DEF ListsOK
  <2> QED BY <2>1, <2>2
<1>11. Live' = Live \ {p}
  BY <1>2 DEF Live
<1>12. RowsOK'
  <2>1. \A b \in Agents : status'[b] = "running" =>
           owner'[b] \in Procs /\ pc'[owner'[b]] \in {"up", "gone"} /\ Seat[owner'[b]] = Home[b]
    BY <1>0, <1>1, <1>2 DEF RowsOK
  <2>2. \A b \in Agents : \A q \in runs'[b] : pc'[q] = "up" /\ Seat[q] = Home[b]
    BY <1>0, <1>2, <1>5 DEF RowsOK, TypeOK
  <2>3. \A q, r \in Live' : Seat[q] = Seat[r] => q = r
    BY <1>0, <1>11 DEF RowsOK
  <2>4. \A q \in Procs : \A r \in dead'[q] : pc'[r] = "gone"
    BY <1>0, <1>1, <1>9 DEF RowsOK, TypeOK
  <2> QED BY <2>1, <2>2, <2>3, <2>4 DEF RowsOK
<1>13. ASSUME ~overlapped' PROVE SingleOK'
  <2>1. SingleOK
    BY <1>0, <1>1, <1>13
  <2>2. /\ \A q, r \in Procs : pc'[q] \in StartingPcs /\ pc'[r] \in StartingPcs => q = r
        /\ Live' \subseteq file'
    <3>1. "gone" \notin StartingPcs
      BY DEF StartingPcs
    <3> QED BY <1>1, <1>2, <1>11, <2>1, <3>1 DEF SingleOK
  <2>3. \A b \in Agents : \A q \in runs'[b] : status'[b] = "running" /\ owner'[b] = q
    BY <1>1, <1>5, <2>1 DEF SingleOK
  <2>4. \A q \in Procs : pc'[q] \in {"rows", "mark", "files", "remove"} =>
           q # p /\ pc'[q] = pc[q] /\ todo'[q] = todo[q] /\ gone'[q] = gone[q]
    BY <1>2, <1>4
  <2>5. ASSUME NEW q \in Procs, pc'[q] = "rows", NEW b \in Agents, NEW o \in Procs,
               <<b, o>> \in todo'[q]
        PROVE  /\ pc'[o] \in {"up", "gone"} /\ Seat[o] = Home[b]
               /\ (status'[b] = "running" /\ owner'[b] = o) \/ OnlyBy(b, o)'
    <3>1. /\ pc[o] \in {"up", "gone"} /\ Seat[o] = Home[b]
          /\ (status[b] = "running" /\ owner[b] = o) \/ OnlyBy(b, o)
      BY <2>1, <2>4, <2>5 DEF SingleOK
    <3>2. OnlyBy(b, o) => OnlyBy(b, o)'
      BY <1>2 DEF OnlyBy
    <3> QED BY <1>1, <1>2, <3>1, <3>2
  <2>6. ASSUME NEW q \in Procs, pc'[q] \in {"rows", "mark"}, NEW b \in gone'[q]
        PROVE  \/ status'[b] = "running" /\ pc'[owner'[b]] = "gone"
               \/ \A r \in Procs : pc'[r] = "up" => Seat[r] # Home[b]
    <3>0. pc[q] \in {"rows", "mark"} /\ b \in gone[q]
      BY <2>4, <2>6
    <3>1. \/ status[b] = "running" /\ pc[owner[b]] = "gone"
          \/ \A r \in Procs : pc[r] = "up" => Seat[r] # Home[b]
      BY <2>1, <3>0 DEF SingleOK
    <3>2. b \in Agents
      BY <1>0, <3>0 DEF ListsOK
    <3>3. status[b] = "running" => owner[b] \in Procs
      BY <1>0, <3>2 DEF RowsOK
    <3>4. \A r \in Procs : pc'[r] = "up" => pc[r] = "up"
      BY <1>2
    <3> QED BY <1>1, <1>9, <3>1, <3>3, <3>4
  <2>7. \A q \in Procs : pc'[q] \in {"files", "remove"} => \A o \in gone'[q] : pc'[o] = "gone"
    BY <1>0, <1>9, <2>1, <2>4 DEF SingleOK, ListsOK
  <2> QED BY <2>2, <2>3, <2>5, <2>6, <2>7 DEF SingleOK
<1>14. MarksOK'
  BY <1>0, <1>1, <1>2, <1>4 DEF MarksOK
<1> QED BY <1>7, <1>8, <1>10, <1>12, <1>13, <1>14 DEF IInv

-----------------------------------------------------------------------------
(* The inductive invariant, and what follows from it *)

\* Every step keeps the invariant.
LEMMA NextIInv == IInv /\ [Next]_vars => IInv'
<1> SUFFICES ASSUME IInv, [Next]_vars PROVE IInv'
  OBVIOUS
<1>1. ASSUME NEW p \in Procs, StartUp(p) PROVE IInv'
  BY <1>1, StepCreates, StepLocks, StepReadsRows, StepProbes, StepProbeDrops, StepBegins,
     StepMarks, StepLists, StepRemoves DEF StartUp
<1>2. ASSUME UNCHANGED vars PROVE IInv'
  <2>1. UNCHANGED <<pc, file, todo, gone, probe, held, status, owner, ask, runs, dead, masked,
                    overlapped>>
    BY <1>2 DEF vars, start, rows, history
  <2>2. TypeOK' /\ LocksOK'
    BY <2>1 DEF IInv, TypeOK, LocksOK
  <2> QED BY <2>1, <2>2, LocksOnly
<1> QED BY <1>1, <1>2, StepDies, StepRuns, StepEnds, StepAsks, StepAnswers DEF Next

\* The invariant holds.
LEMMA Inductive == Spec => []IInv
  BY InitIInv, NextIInv, PTL DEF Spec

\* The types of the variables.
THEOREM TypeCorrect == Spec => []TypeOK
<1>1. IInv => TypeOK
  BY DEF IInv
<1> QED BY <1>1, Inductive, PTL

\* LeftAloneBySingleStarts, for any number of processes: mark_interrupted never marks a row
\* whose process lives, as long as no two processes are in claim_process and the recovery
\* at the same time.
THEOREM LeftAlone == Spec => []LeftAloneBySingleStarts
<1>1. IInv => LeftAloneBySingleStarts
  BY DEF IInv, SingleOK, LeftAloneBySingleStarts
<1> QED BY <1>1, Inductive, PTL

\* DeadMarked, for any number of processes, starts overlapping or not: after
\* mark_interrupted no row is left running for a process that was gone before, except
\* where somebody's probe held that process's lock.
THEOREM DeadAreMarked == Spec => []DeadMarked
<1>1. IInv => DeadMarked
  BY DEF IInv, MarksOK, DeadMarked, Live
<1> QED BY <1>1, Inductive, PTL
=============================================================================
