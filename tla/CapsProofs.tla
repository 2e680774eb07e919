----------------------------- MODULE CapsProofs -----------------------------
(***************************************************************************)
(* The meter counts what is in the ledger, and the caps bound what is      *)
(* spent: for any agents, processes, trees and tasks, any caps, any number *)
(* of model calls behind one check, and any days, calls and troubles.      *)
(***************************************************************************)
EXTENDS Caps, FiniteSetTheorems, WellFoundedInduction, SequenceTheorems, TLAPS

Lines == [whole : BOOLEAN, tree : Trees, day : 0..MaxDay]
Meters(n) == [day : 0..MaxDay, offset : 0..n, today : Nat, tasks : [Tasks -> Nat]]

\* The day's rows.
Today == Counted(1, Len(ledger), now)

\* An agent has calls left exactly while it is behind a check; a row is of its day or before.
AgentsOK ==
    \A a \in Agents :
        /\ pc[a] \in {"checked", "calling", "recording"} => calls[a] > 0
        /\ pc[a] \in {"idle", "top"} => calls[a] = 0
        /\ stamp[a] <= now

\* No row is of a day to come.
DaysOK == \A i \in 1..Len(ledger) : ledger[i].day <= now

\* What a meter reads next begins a line.
OffsetsOK == \A p \in Procs : meter[p].offset # 0 => ledger[meter[p].offset].whole

\* The calls behind the agents' last checks that are made, or that can no longer be made;
\* a call that is charged to the run is made before its row is written.
Used(A) == {x \in A \X (1..PerCheck) : x[2] > calls[x[1]]}
Charged(A) ==
    {x \in A \X (1..PerCheck) :
        x[2] > calls[x[1]] \/ (x[2] = calls[x[1]] /\ pc[x[1]] = "recording")}

Of(task) == {a \in Agents : Task(a) = task}
In(tree) == {a \in Agents : TreeOf[a] = tree}

\* What passes a cap is made of such calls.
DayOK == DayCap > 0 => Cardinality(Today) <= DayCap - 1 + Cardinality(Used(Agents))
TasksOK ==
    TaskCap > 0 => \A t \in Tasks :
        Cardinality(OfTask(Today, t)) <= TaskCap - 1 + Cardinality(Used(Of(t)))
RunsOK ==
    RunCap > 0 => \A t \in Trees : spend[t] <= RunCap - 1 + Cardinality(Charged(In(t)))

IInv == /\ TypeOK /\ AgentsOK /\ DaysOK /\ OffsetsOK /\ MeterIsLedger
        /\ DayOK /\ TasksOK /\ RunsOK

USE CapsAssumption

-----------------------------------------------------------------------------
(* Rows and their number *)

\* A finite set of numbers has its largest.
LEMMA MaxOf ==
    ASSUME NEW n \in Nat, NEW S, S \subseteq 0..n, S # {}
    PROVE  Max(S) \in S /\ \A y \in S : Max(S) >= y
<1> DEFINE T == {n - x : x \in S}
<1>1. T \subseteq Nat /\ T # {}
  <2>1. \A x \in S : n - x \in Nat
    OBVIOUS
  <2>2. T \subseteq Nat
    BY <2>1
  <2>3. PICK x : x \in S
    OBVIOUS
  <2>4. n - x \in T
    BY <2>3
  <2> QED BY <2>2, <2>4
<1>2. PICK z \in T : \A y \in T : ~(<<y, z>> \in OpToRel(<, Nat))
  BY <1>1, NatLessThanWellFounded, WFMin
<1>3. PICK x \in S : z = n - x
  OBVIOUS
<1>4. \A y \in S : x >= y
  <2> SUFFICES ASSUME NEW y \in S, x < y PROVE FALSE
    OBVIOUS
  <2>1. n - y \in T /\ n - y < z /\ n - y \in Nat /\ z \in Nat
    BY <1>1, <1>3
  <2> QED BY <1>2, <2>1 DEF OpToRel
<1> QED BY <1>4 DEF Max

\* The rows of a part of the file can be counted.
LEMMA RowsFinite ==
    ASSUME NEW from \in Int, NEW to \in Int, NEW day
    PROVE  /\ IsFiniteSet(Counted(from, to, day)) /\ Cardinality(Counted(from, to, day)) \in Nat
           /\ \A t : /\ IsFiniteSet(OfTask(Counted(from, to, day), t))
                     /\ Cardinality(OfTask(Counted(from, to, day), t)) \in Nat
<1>1. IsFiniteSet(Counted(from, to, day))
  <2>1. Counted(from, to, day) \in SUBSET (from..to)
    BY DEF Counted
  <2> QED BY <2>1, FS_Interval, FS_Subset
<1>2. ASSUME NEW t PROVE IsFiniteSet(OfTask(Counted(from, to, day), t))
  <2>1. OfTask(Counted(from, to, day), t) \in SUBSET Counted(from, to, day)
    BY DEF OfTask
  <2> QED BY <1>1, <2>1, FS_Subset
<1> QED BY <1>1, <1>2, FS_CardinalityType

\* Two parts of a set are counted apart.
LEMMA DisjointCount ==
    ASSUME NEW S, NEW T, IsFiniteSet(S), IsFiniteSet(T), S \cap T = {}
    PROVE  Cardinality(S \cup T) = Cardinality(S) + Cardinality(T)
<1>1. Cardinality(S) \in Nat /\ Cardinality(T) \in Nat /\ Cardinality({}) = 0
  BY FS_CardinalityType, FS_EmptySet
<1>2. Cardinality(S \cup T) = Cardinality(S) + Cardinality(T) - Cardinality(S \cap T)
  BY FS_Union
<1>3. PICK a \in Nat, b \in Nat : a = Cardinality(S) /\ b = Cardinality(T)
  BY <1>1
<1>4. Cardinality(S \cup T) = a + b - 0
  BY <1>1, <1>2, <1>3
<1>5. a + b - 0 = a + b
  OBVIOUS
<1> QED BY <1>3, <1>4, <1>5

\* Read on from the end of a whole row, and the rows are those of the whole part.
LEMMA RowsSplit ==
    ASSUME NEW o \in Nat, NEW e \in Nat, o <= e, NEW day, o # 0 => ledger[o].whole
    PROVE  /\ Cardinality(Counted(1, e, day))
                = Cardinality(Counted(1, o, day)) + Cardinality(Counted(o + 1, e, day))
           /\ \A t : Cardinality(OfTask(Counted(1, e, day), t))
                = Cardinality(OfTask(Counted(1, o, day), t))
                  + Cardinality(OfTask(Counted(o + 1, e, day), t))
<1> DEFINE A == Counted(1, o, day)
           B == Counted(o + 1, e, day)
<1>1. Counted(1, e, day) = A \cup B
  <2>1. \A i \in 1..e : (i \in 1..o /\ i \notin (o + 1)..e) \/ (i \in (o + 1)..e /\ i \notin 1..o)
    OBVIOUS
  <2>2. \A i \in (o + 1)..e : i \in 1..e
    OBVIOUS
  <2>3. \A i \in 1..o : i \in 1..e
    OBVIOUS
  <2>4. \A i \in (o + 1)..e : (i > o + 1 \/ i = o + 1) /\ (i > 1 <=> i > o + 1 \/ o # 0)
    OBVIOUS
  <2>5. (o + 1) - 1 = o
    OBVIOUS
  <2>6. \A i \in 1..e : i \in Counted(1, e, day) <=> i \in A \cup B
    <3> SUFFICES ASSUME NEW i \in 1..e PROVE i \in Counted(1, e, day) <=> i \in A \cup B
      OBVIOUS
    <3>1. CASE i \in 1..o /\ i \notin (o + 1)..e
      BY <3>1 DEF Counted
    <3>2. CASE i \in (o + 1)..e /\ i \notin 1..o
      <4>1. CASE i = o + 1
        BY <2>4, <2>5, <3>2, <4>1 DEF Counted
      <4>2. CASE i > o + 1
        BY <2>4, <3>2, <4>2 DEF Counted
      <4> QED BY <2>4, <3>2, <4>1, <4>2
    <3> QED BY <2>1, <3>1, <3>2
  <2>7. A \cup B \subseteq 1..e /\ Counted(1, e, day) \subseteq 1..e
    BY <2>2, <2>3 DEF Counted
  <2> QED BY <2>6, <2>7
<1>2. A \cap B = {}
  BY DEF Counted
<1>3. IsFiniteSet(A) /\ IsFiniteSet(B)
  BY RowsFinite
<1>4. ASSUME NEW t
      PROVE  Cardinality(OfTask(A \cup B, t)) = Cardinality(OfTask(A, t)) + Cardinality(OfTask(B, t))
  <2>1. /\ OfTask(A \cup B, t) = OfTask(A, t) \cup OfTask(B, t) /\ OfTask(A, t) \cap OfTask(B, t) = {}
    BY <1>2 DEF OfTask
  <2>2. IsFiniteSet(OfTask(A, t)) /\ IsFiniteSet(OfTask(B, t))
    BY RowsFinite
  <2> QED BY <2>1, <2>2, DisjointCount
<1> HIDE DEF A, B
<1>5. Cardinality(A \cup B) = Cardinality(A) + Cardinality(B)
  BY <1>2, <1>3, DisjointCount
<1> QED BY <1>1, <1>4, <1>5 DEF A, B

\* Halves behind a row are no rows.
LEMMA NoMoreRows ==
    ASSUME NEW o \in Nat, NEW n \in Nat, o <= n, NEW day, \A i \in (o + 1)..n : ~ledger[i].whole
    PROVE  Counted(1, n, day) = Counted(1, o, day)
<1>1. \A i \in 1..n : i \in 1..o \/ i \in (o + 1)..n
  OBVIOUS
<1>2. \A i \in 1..o : i \in 1..n
  OBVIOUS
<1> QED BY <1>1, <1>2 DEF Counted

\* The meter reads up to the last whole row: it counts the day's rows as one that reads
\* the whole file does.
LEMMA ReadCounts ==
    ASSUME TypeOK, OffsetsOK, MeterIsLedger, NEW p \in Procs
    PROVE  /\ Read(p) \in Meters(Len(ledger))
           /\ Read(p).offset # 0 => ledger[Read(p).offset].whole
           /\ Read(p).today = Cardinality(Counted(1, Read(p).offset, Read(p).day))
           /\ \A t \in Tasks : Read(p).tasks[t]
                = Cardinality(OfTask(Counted(1, Read(p).offset, Read(p).day), t))
           /\ readable => /\ Read(p).today = Cardinality(Today)
                          /\ \A t \in Tasks : Read(p).tasks[t] = Cardinality(OfTask(Today, t))
<1>0. /\ meter[p] \in Meters(Len(ledger)) /\ Len(ledger) \in Nat /\ now \in 0..MaxDay
      /\ ledger \in Seq(Lines)
  BY DEF TypeOK, Meters, Lines
<1> DEFINE st == IF meter[p].day = now THEN meter[p] ELSE Fresh(now)
<1>1. /\ st \in Meters(Len(ledger)) /\ st.day = now
      /\ st.offset # 0 => ledger[st.offset].whole
      /\ st.today = Cardinality(Counted(1, st.offset, now))
      /\ \A t \in Tasks : st.tasks[t] = Cardinality(OfTask(Counted(1, st.offset, now), t))
  <2>1. CASE meter[p].day = now
    BY <1>0, <2>1 DEF OffsetsOK, MeterIsLedger
  <2>2. CASE meter[p].day # now
    <3>1. st = Fresh(now)
      BY <2>2
    <3>2. /\ Fresh(now) \in Meters(Len(ledger)) /\ Fresh(now).day = now /\ Fresh(now).offset = 0
          /\ Fresh(now).today = 0 /\ \A t \in Tasks : Fresh(now).tasks[t] = 0
      BY <1>0 DEF Fresh, Meters
    <3>3. Counted(1, 0, now) = {} /\ \A t : OfTask(Counted(1, 0, now), t) = {}
      BY DEF Counted, OfTask
    <3> QED BY <3>1, <3>2, <3>3, FS_EmptySet
  <2> QED BY <2>1, <2>2
<1>2. CASE ~readable
  <2>1. Read(p) = st
    BY <1>2 DEF Read
  <2> QED BY <1>1, <1>2, <2>1
<1>3. CASE readable
  <2> DEFINE S == {st.offset} \cup {i \in (st.offset + 1)..Len(ledger) : ledger[i].whole}
             e == Max(S)
             rows == Counted(st.offset + 1, e, now)
  <2> HIDE DEF st
  <2>1. st.offset \in Nat /\ st.offset <= Len(ledger) /\ st.today \in Nat /\ st.tasks \in [Tasks -> Nat]
    BY <1>0, <1>1 DEF Meters
  <2>2. S \subseteq 0..Len(ledger) /\ S # {}
    BY <1>0, <2>1
  <2>3. e \in S /\ \A y \in S : e >= y
    BY <1>0, <2>2, MaxOf
  <2>4. /\ e \in Nat /\ st.offset <= e /\ e <= Len(ledger) /\ e \in 0..Len(ledger)
        /\ e # 0 => ledger[e].whole
    BY <1>0, <1>1, <2>1, <2>2, <2>3
  <2>5. \A i \in (e + 1)..Len(ledger) : ~ledger[i].whole
    <3> SUFFICES ASSUME NEW i \in (e + 1)..Len(ledger), ledger[i].whole PROVE FALSE
      OBVIOUS
    <3>1. i \in S /\ ~(e >= i)
      BY <1>0, <2>1, <2>4
    <3> QED BY <2>3, <3>1
  <2> HIDE DEF S, e
  <2>6. Read(p) = [st EXCEPT !.offset = e, !.today = st.today + Cardinality(rows),
                             !.tasks = [t \in Tasks |-> st.tasks[t] + Cardinality(OfTask(rows, t))]]
    BY <1>3 DEF Read, st, e, S
  <2>7. /\ Cardinality(rows) \in Nat /\ \A t \in Tasks : Cardinality(OfTask(rows, t)) \in Nat
    <3>1. st.offset + 1 \in Int /\ e \in Int
      BY <2>1, <2>4
    <3> QED BY <3>1, RowsFinite
  <2>8. /\ Cardinality(Counted(1, e, now)) = st.today + Cardinality(rows)
        /\ \A t \in Tasks : Cardinality(OfTask(Counted(1, e, now), t))
                              = st.tasks[t] + Cardinality(OfTask(rows, t))
    <3>1. PICK o \in Nat : o = st.offset
      BY <2>1
    <3>2. o <= e /\ (o # 0 => ledger[o].whole)
      BY <1>1, <2>4, <3>1
    <3>3. /\ Cardinality(Counted(1, e, now))
                = Cardinality(Counted(1, o, now)) + Cardinality(Counted(o + 1, e, now))
          /\ \A t : Cardinality(OfTask(Counted(1, e, now), t))
                = Cardinality(OfTask(Counted(1, o, now), t))
                  + Cardinality(OfTask(Counted(o + 1, e, now), t))
      BY <2>4, <3>2, RowsSplit
    <3>4. rows = Counted(o + 1, e, now)
      BY <3>1
    <3> QED BY <1>1, <3>1, <3>3, <3>4
  <2> HIDE DEF rows
  <2>9. /\ Read(p) \in Meters(Len(ledger)) /\ Read(p).offset = e /\ Read(p).day = now
        /\ Read(p).today = st.today + Cardinality(rows)
        /\ \A t \in Tasks : Read(p).tasks[t] = st.tasks[t] + Cardinality(OfTask(rows, t))
    <3> DEFINE f == [t \in Tasks |-> st.tasks[t] + Cardinality(OfTask(rows, t))]
    <3>1. PICK n : n = st.today + Cardinality(rows)
      OBVIOUS
    <3>2. n \in Nat
      BY <2>1, <2>7, <3>1
    <3>3. \A t \in Tasks : st.tasks[t] + Cardinality(OfTask(rows, t)) \in Nat
      BY <2>1, <2>7
    <3>4. /\ f \in [Tasks -> Nat]
          /\ \A t \in Tasks : f[t] = st.tasks[t] + Cardinality(OfTask(rows, t))
      BY <3>3
    <3> HIDE DEF f
    <3>5. Read(p) = [st EXCEPT !.offset = e, !.today = n, !.tasks = f]
      BY <2>6, <3>1 DEF f
    <3>6. /\ Read(p) \in Meters(Len(ledger)) /\ Read(p).offset = e /\ Read(p).day = now
          /\ Read(p).today = n /\ Read(p).tasks = f
      BY <1>1, <2>4, <3>2, <3>4, <3>5 DEF Meters
    <3> QED BY <3>1, <3>4, <3>6
  <2>10. Today = Counted(1, e, now)
    BY <1>0, <2>4, <2>5, NoMoreRows DEF Today
  <2> QED BY <2>4, <2>8, <2>9, <2>10
<1> QED BY <1>2, <1>3
-----------------------------------------------------------------------------
(* The calls behind a check *)

\* Each agent of a set has at most the calls of one check, made or charged.
LEMMA CallsBehind ==
    ASSUME NEW A \in SUBSET Agents
    PROVE  /\ IsFiniteSet(Used(A)) /\ IsFiniteSet(Used(A)')
           /\ IsFiniteSet(Charged(A)) /\ IsFiniteSet(Charged(A)')
           /\ Cardinality(Used(A)) \in Nat /\ Cardinality(Used(A)') \in Nat
           /\ Cardinality(Charged(A)) \in Nat /\ Cardinality(Charged(A)') \in Nat
           /\ Cardinality(Used(A)) <= PerCheck * Cardinality(A)
           /\ Cardinality(Charged(A)) <= PerCheck * Cardinality(A)
           /\ Cardinality(A) \in Nat
<1> DEFINE P == A \X (1..PerCheck)
<1>1. IsFiniteSet(A) /\ Cardinality(A) \in Nat
  BY FS_Subset, FS_CardinalityType
<1>2. IsFiniteSet(1..PerCheck) /\ Cardinality(1..PerCheck) = PerCheck
  <2>1. PICK n \in Nat : n = PerCheck /\ n # 0
    OBVIOUS
  <2>2. IsFiniteSet(1..n) /\ Cardinality(1..n) = IF 1 > n THEN 0 ELSE n - 1 + 1
    <3>1. 1 \in Int /\ n \in Int
      OBVIOUS
    <3> QED BY ONLY <3>1, FS_Interval, Zenon
  <2>3. (IF 1 > n THEN 0 ELSE n - 1 + 1) = n
    BY <2>1
  <2> QED BY <2>1, <2>2, <2>3
<1>3. IsFiniteSet(P) /\ Cardinality(P) = Cardinality(A) * Cardinality(1..PerCheck)
  BY <1>1, <1>2, FS_Product
<1>4. Cardinality(P) = PerCheck * Cardinality(A)
  <2>1. PICK n \in Nat : n = Cardinality(A)
    BY <1>1
  <2>2. n * PerCheck = PerCheck * n
    OBVIOUS
  <2> QED BY <1>2, <1>3, <2>1, <2>2
<1>5. /\ Used(A) \in SUBSET P /\ Used(A)' \in SUBSET P
      /\ Charged(A) \in SUBSET P /\ Charged(A)' \in SUBSET P
  BY DEF Used, Charged
<1> HIDE DEF P
<1>6. ASSUME NEW S \in SUBSET P
      PROVE  IsFiniteSet(S) /\ Cardinality(S) \in Nat /\ Cardinality(S) <= Cardinality(P)
  BY <1>3, FS_Subset, FS_CardinalityType
<1> QED BY <1>1, <1>4, <1>5, <1>6

\* Fewer rows and more calls made keep what is below a cap there.
LEMMA Eased ==
    ASSUME NEW S, NEW S2 \in SUBSET S, IsFiniteSet(S),
           NEW U, NEW U2, U \in SUBSET U2, IsFiniteSet(U2),
           NEW cap \in Nat, Cardinality(S) <= cap - 1 + Cardinality(U)
    PROVE  Cardinality(S2) <= cap - 1 + Cardinality(U2)
<1>1. /\ Cardinality(S2) <= Cardinality(S) /\ IsFiniteSet(S2)
      /\ Cardinality(U) <= Cardinality(U2) /\ IsFiniteSet(U)
  BY FS_Subset
<1>2. PICK s \in Nat, s2 \in Nat, u \in Nat, u2 \in Nat :
        /\ s = Cardinality(S) /\ s2 = Cardinality(S2)
        /\ u = Cardinality(U) /\ u2 = Cardinality(U2)
  BY <1>1, FS_CardinalityType
<1>3. s2 <= s /\ u <= u2 /\ s <= cap - 1 + u
  BY <1>1, <1>2
<1>4. s2 <= cap - 1 + u2
  BY <1>3
<1> QED BY <1>2, <1>4

\* One row more is one call more that is made.
LEMMA OneMore ==
    ASSUME NEW S, NEW n, NEW S2 \in SUBSET (S \cup {n}), IsFiniteSet(S),
           NEW U, NEW x, x \notin U, NEW U2, U \cup {x} \in SUBSET U2, IsFiniteSet(U2),
           NEW cap \in Nat, Cardinality(S) <= cap - 1 + Cardinality(U)
    PROVE  Cardinality(S2) <= cap - 1 + Cardinality(U2)
<1>1. IsFiniteSet(U) /\ IsFiniteSet(S \cup {n}) /\ IsFiniteSet(U \cup {x})
  BY FS_Subset, FS_AddElement
<1>2. PICK s \in Nat, t \in Nat, u \in Nat, v \in Nat :
        /\ s = Cardinality(S) /\ t = Cardinality(S \cup {n})
        /\ u = Cardinality(U) /\ v = Cardinality(U \cup {x})
  BY <1>1, FS_CardinalityType
<1>3. v = u + 1 /\ t <= s + 1
  <2>1. v = u + 1
    BY <1>1, <1>2, FS_AddElement
  <2>2. CASE n \in S
    <3>1. S \cup {n} = S
      BY <2>2
    <3>2. t = s
      BY <1>2, <3>1
    <3> QED BY <2>1, <3>2
  <2>3. CASE n \notin S
    <3>1. t = s + 1
      BY <1>2, <2>3, FS_AddElement
    <3> QED BY <2>1, <3>1
  <2> QED BY <2>2, <2>3
<1>4. t <= cap - 1 + v
  BY <1>2, <1>3
<1>5. Cardinality(S \cup {n}) <= cap - 1 + Cardinality(U \cup {x})
  BY <1>2, <1>4
<1> QED BY <1>1, <1>5, Eased

-----------------------------------------------------------------------------
(* The ledger grows, and the meters follow *)

LedgerGrows == ledger' = ledger \/ \E r \in Lines : ledger' = Append(ledger, r)
MeterMoves == /\ meter' = [p \in Procs |-> meter'[p]]
              /\ \A p \in Procs : meter'[p] \in {meter[p], Read(p), Fresh(0)}

\* What is in the file stays there.
LEMMA Grown ==
    ASSUME TypeOK, LedgerGrows
    PROVE  /\ ledger' \in Seq(Lines) /\ Len(ledger) \in Nat /\ Len(ledger') \in Nat
           /\ Len(ledger) <= Len(ledger')
           /\ \A i \in 1..Len(ledger) : ledger'[i] = ledger[i]
<1>1. ledger \in Seq(Lines) /\ Len(ledger) \in Nat
  BY DEF TypeOK, Lines
<1>2. CASE ledger' = ledger
  BY <1>1, <1>2
<1>3. ASSUME NEW r \in Lines, ledger' = Append(ledger, r)
      PROVE  /\ ledger' \in Seq(Lines) /\ Len(ledger') = Len(ledger) + 1
             /\ \A i \in 1..Len(ledger) : ledger'[i] = ledger[i]
  BY <1>1, <1>3
<1> HIDE DEF Lines
<1> QED BY <1>1, <1>2, <1>3 DEF LedgerGrows

\* A meter has counted what a reader of the whole file would, and goes on to.
LEMMA MetersFollow ==
    ASSUME TypeOK, OffsetsOK, MeterIsLedger, LedgerGrows, MeterMoves
    PROVE  meter' \in [Procs -> Meters(Len(ledger'))] /\ OffsetsOK' /\ MeterIsLedger'
<1>1. /\ Len(ledger) \in Nat /\ Len(ledger') \in Nat /\ Len(ledger) <= Len(ledger')
      /\ \A i \in 1..Len(ledger) : ledger'[i] = ledger[i]
  BY Grown
<1>2. ASSUME NEW p \in Procs
      PROVE  /\ meter'[p] \in Meters(Len(ledger))
             /\ meter'[p].offset # 0 => ledger[meter'[p].offset].whole
             /\ meter'[p].today = Cardinality(Counted(1, meter'[p].offset, meter'[p].day))
             /\ \A t \in Tasks : meter'[p].tasks[t]
                  = Cardinality(OfTask(Counted(1, meter'[p].offset, meter'[p].day), t))
  <2>1. CASE meter'[p] = meter[p]
    <3>1. meter[p] \in Meters(Len(ledger))
      BY DEF TypeOK, Meters
    <3> QED BY <2>1, <3>1 DEF OffsetsOK, MeterIsLedger
  <2>2. CASE meter'[p] = Read(p)
    BY <2>2, ReadCounts
  <2>3. CASE meter'[p] = Fresh(0)
    <3>1. /\ Fresh(0) \in Meters(Len(ledger)) /\ Fresh(0).day = 0 /\ Fresh(0).offset = 0
          /\ Fresh(0).today = 0 /\ \A t \in Tasks : Fresh(0).tasks[t] = 0
      BY <1>1 DEF Fresh, Meters
    <3>2. Counted(1, 0, 0) = {} /\ \A t : OfTask(Counted(1, 0, 0), t) = {}
      BY DEF Counted, OfTask
    <3> QED BY <2>3, <3>1, <3>2, FS_EmptySet
  <2> QED BY <2>1, <2>2, <2>3 DEF MeterMoves
<1>3. ASSUME NEW p \in Procs
      PROVE  /\ meter'[p] \in Meters(Len(ledger'))
             /\ meter'[p].offset # 0 => ledger'[meter'[p].offset].whole
             /\ meter'[p].today = Cardinality(Counted(1, meter[p].offset, meter[p].day)')
             /\ \A t \in Tasks : meter'[p].tasks[t]
                  = Cardinality(OfTask(Counted(1, meter[p].offset, meter[p].day), t)')
  <2>1. PICK o \in Nat, d \in 0..MaxDay : o = meter'[p].offset /\ d = meter'[p].day
    BY <1>1, <1>2 DEF Meters
  <2>2. o <= Len(ledger) /\ (o # 0 => o \in 1..Len(ledger))
    BY <1>1, <1>2, <2>1, SMTT(30) DEF Meters
  <2>3. \A i \in 1..o : /\ ledger'[i] = ledger[i]
                        /\ i > 1 => ledger'[i - 1] = ledger[i - 1]
    <3> SUFFICES ASSUME NEW i \in 1..o
                 PROVE  /\ ledger'[i] = ledger[i]
                        /\ i > 1 => ledger'[i - 1] = ledger[i - 1]
      OBVIOUS
    <3>1. i \in 1..Len(ledger) /\ (i > 1 => i - 1 \in 1..Len(ledger))
      BY <1>1, <2>2
    <3> QED BY <1>1, <3>1
  <2>4. Counted(1, o, d)' = Counted(1, o, d)
    BY <2>3 DEF Counted
  <2>5. Counted(1, o, d) \subseteq 1..o
    BY DEF Counted
  <2>6. \A t : OfTask(Counted(1, o, d), t)' = OfTask(Counted(1, o, d), t)
    BY <2>3, <2>4, <2>5 DEF OfTask
  <2>7. Counted(1, meter[p].offset, meter[p].day)' = Counted(1, o, d)'
    BY <2>1
  <2>8. \A t : OfTask(Counted(1, meter[p].offset, meter[p].day), t)' = OfTask(Counted(1, o, d), t)'
    BY <2>7 DEF OfTask
  <2>9. meter'[p] \in Meters(Len(ledger'))
    BY <1>1, <1>2 DEF Meters
  <2>10. o # 0 => ledger'[o].whole
    BY <1>1, <1>2, <2>1, <2>2
  <2> QED BY <1>2, <2>1, <2>4, <2>6, <2>7, <2>8, <2>9, <2>10
<1>4. meter' \in [Procs -> Meters(Len(ledger'))]
  BY <1>3 DEF MeterMoves
<1>5. OffsetsOK'
  BY <1>3 DEF OffsetsOK
<1>6. MeterIsLedger'
  BY <1>3 DEF MeterIsLedger
<1> QED BY <1>4, <1>5, <1>6

\* A new line adds at most one row to the day's, and a half none.
LEMMA NewRows ==
    ASSUME TypeOK, now' = now, NEW r \in Lines, ledger' = Append(ledger, r)
    PROVE  /\ Today' \subseteq Today \cup {Len(ledger) + 1}
           /\ ~r.whole => Today' \subseteq Today
           /\ \A t : OfTask(Today, t)' \subseteq OfTask(Today, t) \cup {Len(ledger) + 1}
           /\ \A t : ~r.whole \/ TaskOf[r.tree] # t => OfTask(Today, t)' \subseteq OfTask(Today, t)
<1>1. ledger \in Seq(Lines) /\ Len(ledger) \in Nat
  BY DEF TypeOK, Lines
<1> HIDE DEF Lines
<1>2. PICK n \in Nat : n = Len(ledger)
  BY <1>1
<1>3. /\ Len(ledger') = n + 1 /\ ledger'[n + 1] = r /\ \A i \in 1..n : ledger'[i] = ledger[i]
  BY <1>1, <1>2
<1>4. \A i \in 1..(n + 1) : i # n + 1 => i \in 1..n /\ (i > 1 => i - 1 \in 1..n)
  OBVIOUS
<1>5. \A i \in Today' : i \in 1..(n + 1) /\ (i # n + 1 => i \in Today)
  BY <1>2, <1>3, <1>4 DEF Today, Counted
<1>6. n + 1 \in Today' => r.whole
  BY <1>3 DEF Today, Counted
<1>7. \A i \in Today' : i # n + 1 => ledger'[i] = ledger[i]
  BY <1>3, <1>4, <1>5
<1> HIDE DEF Today
<1>8. \A t, i : i \in OfTask(Today, t)' => i \in Today' /\ TaskOf[ledger'[i].tree] = t
  BY DEF OfTask
<1>9. \A t : \A i \in OfTask(Today, t)' : i # n + 1 => i \in OfTask(Today, t)
  BY <1>5, <1>7, <1>8 DEF OfTask
<1>10. \A t : n + 1 \in OfTask(Today, t)' => r.whole /\ TaskOf[r.tree] = t
  BY <1>3, <1>6, <1>8
<1> QED BY <1>2, <1>5, <1>6, <1>9, <1>10

\* The file is left as it is: the day's rows are, until midnight.
LEMMA SameRows ==
    ASSUME TypeOK, DaysOK, ledger' = ledger, now' = now \/ now' = now + 1
    PROVE  Today' \subseteq Today /\ \A t : OfTask(Today, t)' \subseteq OfTask(Today, t)
<1>1. CASE now' = now
  BY <1>1 DEF Today, Counted, OfTask
<1>2. CASE now' = now + 1
  <2>1. \A i \in 1..Len(ledger) : ledger[i].day # now + 1
    <3> SUFFICES ASSUME NEW i \in 1..Len(ledger) PROVE ledger[i].day # now + 1
      OBVIOUS
    <3>1. ledger[i].day <= now /\ ledger[i].day \in Int /\ now \in Int
      <4>1. ledger \in Seq(Lines) /\ now \in Int
        BY DEF TypeOK, Lines
      <4>2. ledger[i] \in Lines
        BY <4>1
      <4>3. ledger[i].day \in Int
        BY <4>2 DEF Lines
      <4> QED BY <4>1, <4>3 DEF DaysOK
    <3> QED BY <3>1
  <2>2. Today' = {}
    BY <1>2, <2>1 DEF Today, Counted
  <2> QED BY <2>2 DEF OfTask
<1> QED BY <1>1, <1>2

\* Calls that are made stay made.
LEMMA UsedGrows ==
    ASSUME TypeOK, calls' \in [Agents -> 0..PerCheck], NEW A \in SUBSET Agents,
           \A a \in A : calls'[a] <= calls[a]
    PROVE  /\ Used(A) \in SUBSET Used(A)'
           /\ (\A a \in A : pc[a] = "recording" => pc'[a] = "recording" \/ calls'[a] < calls[a])
                => Charged(A) \in SUBSET Charged(A)'
<1>1. \A x \in A \X (1..PerCheck) :
        /\ x[1] \in A /\ x[2] \in Int /\ calls[x[1]] \in Int /\ calls'[x[1]] \in Int
        /\ calls'[x[1]] <= calls[x[1]]
  BY DEF TypeOK
<1>2. Used(A) \in SUBSET Used(A)'
  BY <1>1 DEF Used
<1>3. ASSUME \A a \in A : pc[a] = "recording" => pc'[a] = "recording" \/ calls'[a] < calls[a]
      PROVE  Charged(A) \in SUBSET Charged(A)'
  <2> SUFFICES ASSUME NEW x \in Charged(A) PROVE x \in Charged(A)'
    OBVIOUS
  <2>1. x \in A \X (1..PerCheck)
    BY DEF Charged
  <2>2. PICK b \in A, m \in Int, c \in Int, c2 \in Int :
          b = x[1] /\ m = x[2] /\ c = calls[b] /\ c2 = calls'[b] /\ c2 <= c
    BY <1>1, <2>1
  <2>3. m > c \/ (m = c /\ pc[b] = "recording")
    BY <2>2 DEF Charged
  <2>4. m > c2 \/ (m = c2 /\ pc'[b] = "recording")
    BY <1>3, <2>2, <2>3
  <2> QED BY <2>1, <2>2, <2>4 DEF Charged
<1> QED BY <1>2, <1>3

\* Nothing is spent, and no check lets calls through: the caps hold as before.
LEMMA NothingSpent ==
    ASSUME IInv, calls' \in [Agents -> 0..PerCheck], \A a \in Agents : calls'[a] <= calls[a]
    PROVE  /\ Today' \subseteq Today => DayOK'
           /\ (\A t : OfTask(Today, t)' \subseteq OfTask(Today, t)) => TasksOK'
           /\ (/\ \A a \in Agents : pc[a] = "recording" => pc'[a] = "recording" \/ calls'[a] < calls[a]
               /\ spend' \in [Trees -> Nat] /\ \A t \in Trees : spend'[t] <= spend[t]) => RunsOK'
<1>1. TypeOK /\ DayOK /\ TasksOK /\ RunsOK
  BY DEF IInv
<1>2. IsFiniteSet(Today) /\ \A t : IsFiniteSet(OfTask(Today, t))
  <2>1. Len(ledger) \in Int
    BY <1>1 DEF TypeOK
  <2> QED BY <2>1, RowsFinite DEF Today
<1>3. ASSUME Today' \subseteq Today PROVE DayOK'
  <2>1. Used(Agents) \in SUBSET Used(Agents)' /\ IsFiniteSet(Used(Agents)')
    BY <1>1, UsedGrows, CallsBehind
  <2>2. ASSUME DayCap > 0 PROVE Cardinality(Today') <= DayCap - 1 + Cardinality(Used(Agents)')
    <3>1. Cardinality(Today) <= DayCap - 1 + Cardinality(Used(Agents))
      BY <1>1, <2>2 DEF DayOK
    <3> QED BY <1>2, <1>3, <2>1, <3>1, Eased
  <2> QED BY <2>2 DEF DayOK
<1>4. ASSUME \A t : OfTask(Today, t)' \subseteq OfTask(Today, t) PROVE TasksOK'
  <2>1. ASSUME TaskCap > 0, NEW t \in Tasks
        PROVE  Cardinality(OfTask(Today, t)') <= TaskCap - 1 + Cardinality(Used(Of(t))')
    <3>1. Of(t) \in SUBSET Agents
      BY DEF Of
    <3>2. Used(Of(t)) \in SUBSET Used(Of(t))' /\ IsFiniteSet(Used(Of(t))')
      BY <1>1, <3>1, UsedGrows, CallsBehind
    <3>3. Cardinality(OfTask(Today, t)) <= TaskCap - 1 + Cardinality(Used(Of(t)))
      BY <1>1, <2>1 DEF TasksOK
    <3> QED BY <1>2, <1>4, <3>2, <3>3, Eased
  <2> QED BY <2>1 DEF TasksOK
<1>5. ASSUME \A a \in Agents : pc[a] = "recording" => pc'[a] = "recording" \/ calls'[a] < calls[a],
             spend' \in [Trees -> Nat], \A t \in Trees : spend'[t] <= spend[t]
      PROVE  RunsOK'
  <2>1. ASSUME RunCap > 0, NEW t \in Trees
        PROVE  spend'[t] <= RunCap - 1 + Cardinality(Charged(In(t))')
    <3>1. In(t) \in SUBSET Agents
      BY DEF In
    <3>2. Charged(In(t)) \in SUBSET Charged(In(t))'
      BY <1>1, <1>5, <3>1, UsedGrows
    <3>3. PICK u \in Nat, v \in Nat : /\ u = Cardinality(Charged(In(t))) /\ u <= v
                                      /\ v = Cardinality(Charged(In(t))')
      BY <3>1, <3>2, CallsBehind, FS_Subset
    <3>4. spend[t] <= RunCap - 1 + u
      BY <1>1, <2>1, <3>3 DEF RunsOK
    <3>5. spend[t] \in Nat /\ spend'[t] \in Nat /\ spend'[t] <= spend[t]
      BY <1>1, <1>5 DEF TypeOK
    <3>6. spend'[t] <= RunCap - 1 + v
      BY <3>3, <3>4, <3>5
    <3> QED BY <3>3, <3>6
  <2> QED BY <2>1 DEF RunsOK
<1> QED BY <1>3, <1>4, <1>5

-----------------------------------------------------------------------------
(* The steps of an agent *)

\* What one agent's step does to itself, with the meters on their way and the ledger grown.
LEMMA AgentStep ==
    ASSUME IInv, NEW a \in Agents, NEW w \in Pcs, NEW n \in 0..PerCheck, NEW o \in BOOLEAN,
           NEW d \in 0..MaxDay, d <= now,
           w \in {"checked", "calling", "recording"} => n > 0, w \in {"idle", "top"} => n = 0,
           pc' = [pc EXCEPT ![a] = w], calls' = [calls EXCEPT ![a] = n],
           overAtStart' = [overAtStart EXCEPT ![a] = o], stamp' = [stamp EXCEPT ![a] = d],
           now' = now, LedgerGrows, DaysOK', MeterMoves, UNCHANGED <<readable, kill>>,
           spend' \in [Trees -> Nat], made' \in 0..MaxCalls, troubles' \in 0..MaxTroubles
    PROVE  TypeOK' /\ AgentsOK' /\ DaysOK' /\ OffsetsOK' /\ MeterIsLedger'
<1>1. TypeOK /\ AgentsOK /\ OffsetsOK /\ MeterIsLedger
  BY DEF IInv
<1>2. /\ ledger' \in Seq(Lines) /\ meter' \in [Procs -> Meters(Len(ledger'))]
      /\ OffsetsOK' /\ MeterIsLedger'
  BY <1>1, Grown, MetersFollow
<1>3. /\ pc' \in [Agents -> Pcs] /\ calls' \in [Agents -> 0..PerCheck]
      /\ overAtStart' \in [Agents -> BOOLEAN] /\ stamp' \in [Agents -> 0..MaxDay]
      /\ now' \in 1..MaxDay /\ readable' \in BOOLEAN /\ kill' \in BOOLEAN
  BY <1>1 DEF TypeOK
<1>4. TypeOK'
  BY <1>2, <1>3 DEF TypeOK, Lines, Meters
<1>5. AgentsOK'
  <2> SUFFICES ASSUME NEW b \in Agents
               PROVE  /\ pc'[b] \in {"checked", "calling", "recording"} => calls'[b] > 0
                      /\ pc'[b] \in {"idle", "top"} => calls'[b] = 0
                      /\ stamp'[b] <= now'
    BY DEF AgentsOK
  <2>1. CASE b = a
    <3>1. pc'[b] = w /\ calls'[b] = n /\ stamp'[b] = d
      BY <1>1, <2>1 DEF TypeOK
    <3> QED BY <3>1
  <2>2. CASE b # a
    <3>1. pc'[b] = pc[b] /\ calls'[b] = calls[b] /\ stamp'[b] = stamp[b]
      BY <1>1, <2>2 DEF TypeOK
    <3> QED BY <1>1, <3>1 DEF AgentsOK
  <2> QED BY <2>1, <2>2
<1> QED BY <1>2, <1>4, <1>5

\* The same, for a step that spends nothing and lets no call through.
LEMMA QuietStep ==
    ASSUME IInv, NEW a \in Agents, NEW w \in Pcs, NEW n \in 0..PerCheck, NEW o \in BOOLEAN,
           NEW d \in 0..MaxDay, d <= now,
           w \in {"checked", "calling", "recording"} => n > 0, w \in {"idle", "top"} => n = 0,
           pc' = [pc EXCEPT ![a] = w], calls' = [calls EXCEPT ![a] = n],
           overAtStart' = [overAtStart EXCEPT ![a] = o], stamp' = [stamp EXCEPT ![a] = d],
           n <= calls[a], pc[a] = "recording" => n < calls[a],
           now' = now, UNCHANGED ledger, MeterMoves, UNCHANGED <<readable, kill>>,
           spend' \in [Trees -> Nat], \A t \in Trees : spend'[t] <= spend[t],
           UNCHANGED <<made, troubles>>
    PROVE  IInv'
<1>1. TypeOK /\ AgentsOK /\ DaysOK
  BY DEF IInv
<1>2. /\ LedgerGrows /\ DaysOK' /\ made' \in 0..MaxCalls /\ troubles' \in 0..MaxTroubles
  BY <1>1 DEF LedgerGrows, DaysOK, TypeOK
<1>3. TypeOK' /\ AgentsOK' /\ DaysOK' /\ OffsetsOK' /\ MeterIsLedger'
  BY <1>2, AgentStep
<1>4. /\ calls' \in [Agents -> 0..PerCheck]
      /\ \A b \in Agents : calls'[b] <= calls[b]
      /\ \A b \in Agents : pc[b] = "recording" => pc'[b] = "recording" \/ calls'[b] < calls[b]
  <2>1. calls' \in [Agents -> 0..PerCheck]
    BY <1>1 DEF TypeOK
  <2>2. ASSUME NEW b \in Agents
        PROVE  /\ calls'[b] <= calls[b]
               /\ pc[b] = "recording" => pc'[b] = "recording" \/ calls'[b] < calls[b]
    <3>1. CASE b = a
      <4>1. calls'[b] = n
        BY <1>1, <3>1 DEF TypeOK
      <4> QED BY <3>1, <4>1
    <3>2. CASE b # a
      <4>1. calls'[b] = calls[b] /\ pc'[b] = pc[b] /\ calls[b] \in Int
        BY <1>1, <3>2 DEF TypeOK
      <4> QED BY <4>1
    <3> QED BY <3>1, <3>2
  <2> QED BY <2>1, <2>2
<1>5. Today' \subseteq Today /\ \A t : OfTask(Today, t)' \subseteq OfTask(Today, t)
  BY <1>1, SameRows
<1>6. DayOK' /\ TasksOK' /\ RunsOK'
  BY <1>4, <1>5, NothingSpent
<1> QED BY <1>3, <1>6 DEF IInv

\* A meter that is read, or left, is on its way.
LEMMA MeterReads ==
    ASSUME TypeOK, NEW p \in Procs, Reads(p) \/ UNCHANGED meter
    PROVE  MeterMoves
<1>1. meter = [q \in Procs |-> meter[q]]
  BY DEF TypeOK
<1>2. CASE UNCHANGED meter
  BY <1>1, <1>2 DEF MeterMoves
<1>3. CASE Reads(p)
  <2>1. meter' = [meter EXCEPT ![p] = Read(p)]
    BY <1>3 DEF Reads
  <2>2. meter' = [q \in Procs |-> IF q = p THEN Read(p) ELSE meter[q]]
    BY <1>1, <2>1
  <2> QED BY <2>2 DEF MeterMoves
<1> QED BY <1>2, <1>3

\* An agent that stays where it is, as an assignment of what it has.
LEMMA Same ==
    ASSUME TypeOK, NEW a \in Agents
    PROVE  /\ pc[a] \in Pcs /\ calls[a] \in 0..PerCheck /\ overAtStart[a] \in BOOLEAN
           /\ stamp[a] \in 0..MaxDay /\ Proc(a) \in Procs
           /\ pc = [pc EXCEPT ![a] = pc[a]] /\ calls = [calls EXCEPT ![a] = calls[a]]
           /\ overAtStart = [overAtStart EXCEPT ![a] = overAtStart[a]]
           /\ stamp = [stamp EXCEPT ![a] = stamp[a]]
           /\ spend \in [Trees -> Nat] /\ \A t \in Trees : spend[t] <= spend[t]
           /\ 0 \in 0..MaxDay /\ 0 \in 0..PerCheck /\ 0 <= now
BY SMTT(30) DEF TypeOK, Proc

\* A run that ends, whatever for, is quiet.
LEMMA LeavesIInv ==
    ASSUME IInv, NEW a \in Agents, Leaves(a), pc[a] # "recording",
           Reads(Proc(a)) \/ UNCHANGED meter,
           UNCHANGED <<now, ledger, readable, kill, spend, made, troubles>>
    PROVE  IInv'
<1>1. TypeOK
  BY DEF IInv
<1>2. MeterMoves
  BY <1>1, Same, MeterReads
<1>3. /\ pc' = [pc EXCEPT ![a] = "idle"] /\ calls' = [calls EXCEPT ![a] = 0]
      /\ overAtStart' = [overAtStart EXCEPT ![a] = FALSE] /\ stamp' = [stamp EXCEPT ![a] = 0]
      /\ "idle" \in Pcs /\ FALSE \in BOOLEAN
  BY DEF Leaves, Goto, Pcs
<1>4. 0 <= calls[a]
  BY <1>1, Same
<1> QED BY <1>1, <1>2, <1>3, <1>4, Same, QuietStep

\* The steps that end a run keep the invariant.
LEMMA EndIInv ==
    ASSUME IInv, NEW a \in Agents, Stops(a) \/ Cuts(a) \/ Fails(a) \/ Ends(a)
    PROVE  IInv'
<1>1. CASE Stops(a)
  <2>1. /\ pc[a] # "recording" /\ Leaves(a) /\ (Reads(Proc(a)) \/ UNCHANGED meter)
        /\ UNCHANGED <<now, ledger, readable, kill, spend, made, troubles>>
    BY <1>1 DEF Stops, files, bounds
  <2> QED BY <2>1, LeavesIInv
<1>2. CASE Cuts(a)
  <2>1. /\ pc[a] # "recording" /\ Leaves(a) /\ (Reads(Proc(a)) \/ UNCHANGED meter)
        /\ UNCHANGED <<now, ledger, readable, kill, spend, made, troubles>>
    BY <1>2 DEF Cuts, files, bounds
  <2> QED BY <2>1, LeavesIInv
<1>3. CASE Fails(a)
  <2>1. /\ pc[a] # "recording" /\ Leaves(a) /\ UNCHANGED meter
        /\ UNCHANGED <<now, ledger, readable, kill, spend, made, troubles>>
    BY <1>3 DEF Fails, files, memory, bounds
  <2> QED BY <2>1, LeavesIInv
<1>4. CASE Ends(a)
  <2>1. /\ pc[a] # "recording" /\ Leaves(a) /\ UNCHANGED meter
        /\ UNCHANGED <<now, ledger, readable, kill, spend, made, troubles>>
    BY <1>4 DEF Ends, files, memory, bounds
  <2> QED BY <2>1, LeavesIInv
<1> QED BY <1>1, <1>2, <1>3, <1>4

\* A run that begins spends nothing yet.
LEMMA BeginsIInv ==
    ASSUME IInv, NEW a \in Agents, Begins(a)
    PROVE  IInv'
<1>1. TypeOK /\ AgentsOK
  BY DEF IInv
<1>2. /\ pc[a] = "idle" /\ pc' = [pc EXCEPT ![a] = "top"] /\ "top" \in Pcs
      /\ spend' = [spend EXCEPT ![TreeOf[a]] = IF a \in Roots THEN 0 ELSE spend[TreeOf[a]]]
      /\ UNCHANGED <<now, ledger, readable, kill, meter, calls, overAtStart, stamp, made, troubles>>
  BY DEF Begins, Goto, files, bounds, Pcs
<1>3. calls[a] = 0 /\ calls[a] <= calls[a] /\ stamp[a] <= now
  BY <1>1, <1>2 DEF AgentsOK
<1>4. spend' \in [Trees -> Nat] /\ \A t \in Trees : spend'[t] <= spend[t]
  <2>1. spend \in [Trees -> Nat] /\ TreeOf[a] \in Trees
    BY <1>1 DEF TypeOK
  <2>2. PICK n \in Nat : n = (IF a \in Roots THEN 0 ELSE spend[TreeOf[a]]) /\ n <= spend[TreeOf[a]]
    BY <2>1
  <2>3. spend' = [spend EXCEPT ![TreeOf[a]] = n]
    BY <1>2, <2>2
  <2>4. \A t \in Trees : spend'[t] = IF t = TreeOf[a] THEN n ELSE spend[t]
    BY <2>1, <2>3
  <2> QED BY <2>1, <2>2, <2>3, <2>4
<1>5. MeterMoves
  BY <1>1, <1>2, Same, MeterReads
<1> QED BY <1>1, <1>2, <1>3, <1>4, <1>5, Same, QuietStep

\* Over is a truth value.
LEMMA OverType ==
    ASSUME NEW a \in Agents
    PROVE  Over(a) \in BOOLEAN
BY DEF Over

\* The call is sent.
LEMMA CallsIInv ==
    ASSUME IInv, NEW a \in Agents, Calls(a)
    PROVE  IInv'
<1>1. TypeOK /\ AgentsOK
  BY DEF IInv
<1>2. /\ pc[a] = "checked" /\ pc' = [pc EXCEPT ![a] = "calling"] /\ "calling" \in Pcs
      /\ overAtStart' = [overAtStart EXCEPT ![a] = Over(a)] /\ Reads(Proc(a))
      /\ UNCHANGED <<now, ledger, readable, kill, spend, calls, stamp, made, troubles>>
  BY DEF Calls, Goto, files, bounds, Pcs
<1>3. PICK o \in BOOLEAN : o = Over(a)
  BY OverType
<1>4. calls[a] > 0 /\ calls[a] <= calls[a] /\ stamp[a] <= now
  BY <1>1, <1>2 DEF AgentsOK, TypeOK
<1>5. MeterMoves
  BY <1>1, <1>2, Same, MeterReads
<1> QED BY <1>1, <1>2, <1>3, <1>4, <1>5, Same, QuietStep

\* The wait only reads on.
LEMMA LooksIInv ==
    ASSUME IInv, NEW a \in Agents, Looks(a)
    PROVE  IInv'
<1>1. TypeOK /\ AgentsOK
  BY DEF IInv
<1>2. /\ pc[a] = "calling" /\ Reads(Proc(a))
      /\ UNCHANGED <<now, ledger, readable, kill, spend, pc, calls, overAtStart, stamp, made, troubles>>
  BY DEF Looks, files, agents, bounds
<1>3. calls[a] > 0 /\ calls[a] <= calls[a] /\ stamp[a] <= now
  BY <1>1, <1>2 DEF AgentsOK, TypeOK
<1>4. MeterMoves
  BY <1>1, <1>2, Same, MeterReads
<1> QED BY <1>1, <1>2, <1>3, <1>4, Same, QuietStep

\* An answer that costs nothing spends nothing.
LEMMA AnswersFreeIInv ==
    ASSUME IInv, NEW a \in Agents, AnswersFree(a)
    PROVE  IInv'
<1>1. TypeOK /\ AgentsOK
  BY DEF IInv
<1> DEFINE w == IF calls[a] > 1 THEN "calling" ELSE "top"
           o == overAtStart[a] /\ calls[a] > 1
<1>2. /\ pc[a] = "calling" /\ pc' = [pc EXCEPT ![a] = w]
      /\ calls' = [calls EXCEPT ![a] = calls[a] - 1]
      /\ overAtStart' = [overAtStart EXCEPT ![a] = o]
      /\ UNCHANGED <<now, ledger, readable, kill, meter, spend, stamp, made, troubles>>
  BY DEF AnswersFree, Goto, files, memory, bounds
<1>3. calls[a] > 0 /\ calls[a] \in 0..PerCheck /\ stamp[a] <= now
  BY <1>1, <1>2 DEF AgentsOK, TypeOK
<1>4. PICK n \in 0..PerCheck : n = calls[a] - 1 /\ n <= calls[a]
  BY <1>3
<1>5. w \in Pcs /\ (w = "calling" => n > 0) /\ (w = "top" => n = 0) /\ w \in {"calling", "top"}
  BY <1>3, <1>4 DEF Pcs
<1>6. o \in BOOLEAN
  OBVIOUS
<1> HIDE DEF w, o
<1>7. MeterMoves
  BY <1>1, <1>2, Same, MeterReads
<1> QED BY <1>1, <1>2, <1>3, <1>4, <1>5, <1>6, <1>7, Same, QuietStep

\* A check that lets the call through has seen every cap that is set above what is spent.
LEMMA PassesIInv ==
    ASSUME IInv, NEW a \in Agents, Passes(a)
    PROVE  IInv'
<1>1. /\ TypeOK /\ AgentsOK /\ DaysOK /\ OffsetsOK /\ MeterIsLedger
      /\ DayOK /\ TasksOK /\ RunsOK
  BY DEF IInv
<1>2. /\ pc[a] = "top" /\ ~Stopped(a) /\ Reads(Proc(a))
      /\ pc' = [pc EXCEPT ![a] = "checked"] /\ "checked" \in Pcs
      /\ calls' = [calls EXCEPT ![a] = PerCheck] /\ PerCheck \in 0..PerCheck /\ PerCheck > 0
      /\ UNCHANGED <<now, ledger, readable, kill, spend, overAtStart, stamp, made, troubles>>
  BY DEF Passes, Goto, files, bounds, Pcs
<1>3. /\ LedgerGrows /\ DaysOK' /\ made' \in 0..MaxCalls /\ troubles' \in 0..MaxTroubles
      /\ spend' \in [Trees -> Nat] /\ stamp[a] <= now
  BY <1>1, <1>2 DEF LedgerGrows, DaysOK, TypeOK, AgentsOK
<1>4. MeterMoves
  BY <1>1, <1>2, Same, MeterReads
<1>5. TypeOK' /\ AgentsOK' /\ DaysOK' /\ OffsetsOK' /\ MeterIsLedger'
  BY <1>1, <1>2, <1>3, <1>4, Same, AgentStep
<1>6. calls' \in [Agents -> 0..PerCheck] /\ \A b \in Agents : b # a => calls'[b] = calls[b]
  BY <1>1, <1>2 DEF TypeOK
<1>7. /\ Today' \subseteq Today /\ \A t : OfTask(Today, t)' \subseteq OfTask(Today, t)
      /\ IsFiniteSet(Today) /\ \A t : IsFiniteSet(OfTask(Today, t))
      /\ Cardinality(Today) \in Nat /\ \A t : Cardinality(OfTask(Today, t)) \in Nat
  <2>1. Len(ledger) \in Int
    BY <1>1 DEF TypeOK
  <2>2. /\ IsFiniteSet(Today) /\ \A t : IsFiniteSet(OfTask(Today, t))
        /\ Cardinality(Today) \in Nat /\ \A t : Cardinality(OfTask(Today, t)) \in Nat
    BY <2>1, RowsFinite DEF Today
  <2>3. Today' \subseteq Today /\ \A t : OfTask(Today, t)' \subseteq OfTask(Today, t)
    BY <1>1, <1>2, SameRows
  <2> QED BY <2>2, <2>3
<1>8. Proc(a) \in Procs
  BY <1>1, Same
<1>9. DayOK'
  <2> SUFFICES ASSUME DayCap > 0
               PROVE  Cardinality(Today') <= DayCap - 1 + Cardinality(Used(Agents)')
    BY DEF DayOK
  <2>1. readable /\ ~(Read(Proc(a)).today >= DayCap)
    BY <1>2 DEF Stopped, Over, NeedsLedger
  <2>2. Read(Proc(a)).today = Cardinality(Today)
    BY <1>1, <1>8, <2>1, ReadCounts
  <2>3. PICK n \in Nat, m \in Nat, u \in Nat :
          n = Cardinality(Today) /\ m = Cardinality(Today') /\ u = Cardinality(Used(Agents)') /\ m <= n
    BY <1>7, FS_Subset, FS_CardinalityType, CallsBehind
  <2>4. ~(n >= DayCap)
    BY <2>1, <2>2, <2>3
  <2>5. m <= DayCap - 1 + u
    BY <2>3, <2>4
  <2> QED BY <2>3, <2>5
<1>10. TasksOK'
  <2> SUFFICES ASSUME TaskCap > 0, NEW t \in Tasks
               PROVE  Cardinality(OfTask(Today, t)') <= TaskCap - 1 + Cardinality(Used(Of(t))')
    BY DEF TasksOK
  <2>1. Of(t) \in SUBSET Agents
    BY DEF Of
  <2>2. CASE Task(a) = t
    <3>1. readable /\ ~(Read(Proc(a)).tasks[t] >= TaskCap)
      BY <1>2, <2>2 DEF Stopped, Over, NeedsLedger
    <3>2. Read(Proc(a)).tasks[t] = Cardinality(OfTask(Today, t))
      BY <1>1, <1>8, <3>1, ReadCounts
    <3>3. PICK n \in Nat, m \in Nat, u \in Nat :
            /\ n = Cardinality(OfTask(Today, t)) /\ m = Cardinality(OfTask(Today, t)')
            /\ u = Cardinality(Used(Of(t))') /\ m <= n
      BY <1>7, <2>1, FS_Subset, FS_CardinalityType, CallsBehind
    <3>4. ~(n >= TaskCap)
      BY <3>1, <3>2, <3>3
    <3>5. m <= TaskCap - 1 + u
      BY <3>3, <3>4
    <3> QED BY <3>3, <3>5
  <2>3. CASE Task(a) # t
    <3>1. \A b \in Of(t) : b \in Agents /\ b # a
      BY <2>3 DEF Of
    <3>2. \A b \in Of(t) : calls'[b] <= calls[b]
      BY <1>1, <1>6, <3>1 DEF TypeOK
    <3>3. Used(Of(t)) \in SUBSET Used(Of(t))' /\ IsFiniteSet(Used(Of(t))')
      BY <1>1, <1>6, <2>1, <3>2, UsedGrows, CallsBehind
    <3>4. Cardinality(OfTask(Today, t)) <= TaskCap - 1 + Cardinality(Used(Of(t)))
      BY <1>1 DEF TasksOK
    <3> QED BY <1>7, <3>3, <3>4, Eased
  <2> QED BY <2>2, <2>3
<1>11. RunsOK'
  <2> SUFFICES ASSUME RunCap > 0, NEW t \in Trees
               PROVE  spend'[t] <= RunCap - 1 + Cardinality(Charged(In(t))')
    BY DEF RunsOK
  <2>1. In(t) \in SUBSET Agents
    BY DEF In
  <2>2. PICK v \in Nat : v = Cardinality(Charged(In(t))')
    BY <2>1, CallsBehind
  <2>3. spend[t] \in Nat /\ spend'[t] = spend[t]
    BY <1>1, <1>2 DEF TypeOK
  <2>4. CASE TreeOf[a] = t
    <3>1. ~(spend[t] >= RunCap)
      BY <1>2, <2>4 DEF Stopped, Over
    <3>2. spend'[t] <= RunCap - 1 + v
      BY <2>2, <2>3, <3>1
    <3> QED BY <2>2, <3>2
  <2>5. CASE TreeOf[a] # t
    <3>1. \A b \in In(t) : b \in Agents /\ b # a
      BY <2>5 DEF In
    <3>2. \A b \in In(t) : calls'[b] <= calls[b]
      BY <1>1, <1>6, <3>1 DEF TypeOK
    <3>3. \A b \in In(t) : pc'[b] = pc[b]
      BY <1>1, <1>2, <3>1 DEF TypeOK
    <3>4. Charged(In(t)) \in SUBSET Charged(In(t))'
      BY <1>1, <1>6, <2>1, <3>2, <3>3, UsedGrows
    <3>5. PICK u \in Nat : u = Cardinality(Charged(In(t))) /\ u <= v
      BY <2>1, <2>2, <3>4, CallsBehind, FS_Subset
    <3>6. spend[t] <= RunCap - 1 + u
      BY <1>1, <3>5 DEF RunsOK
    <3>7. spend'[t] <= RunCap - 1 + v
      BY <2>2, <2>3, <3>5, <3>6
    <3> QED BY <2>2, <3>7
  <2> QED BY <2>4, <2>5
<1> QED BY <1>5, <1>9, <1>10, <1>11 DEF IInv

\* An answer is charged to the run by a call behind a check, one not charged before.
LEMMA AnswersIInv ==
    ASSUME IInv, NEW a \in Agents, Answers(a)
    PROVE  IInv'
<1>1. TypeOK /\ AgentsOK /\ DaysOK /\ RunsOK
  BY DEF IInv
<1>2. /\ pc[a] = "calling" /\ pc' = [pc EXCEPT ![a] = "recording"] /\ "recording" \in Pcs
      /\ spend' = [spend EXCEPT ![TreeOf[a]] = spend[TreeOf[a]] + 1]
      /\ stamp' = [stamp EXCEPT ![a] = now] /\ made < MaxCalls /\ made' = made + 1
      /\ UNCHANGED <<now, ledger, readable, kill, meter, calls, overAtStart, troubles>>
  BY DEF Answers, Goto, files, Pcs
<1>3. /\ LedgerGrows /\ DaysOK' /\ made' \in 0..MaxCalls /\ troubles' \in 0..MaxTroubles
      /\ spend' \in [Trees -> Nat] /\ now \in 0..MaxDay /\ now <= now
  <2>1. LedgerGrows /\ DaysOK'
    BY <1>1, <1>2 DEF LedgerGrows, DaysOK
  <2>2. /\ made' \in 0..MaxCalls /\ troubles' \in 0..MaxTroubles
        /\ now \in 0..MaxDay /\ now <= now
    BY <1>1, <1>2 DEF TypeOK
  <2>3. spend \in [Trees -> Nat] /\ TreeOf[a] \in Trees /\ spend[TreeOf[a]] + 1 \in Nat
    BY <1>1, SMTT(30) DEF TypeOK
  <2>4. spend' \in [Trees -> Nat]
    BY <1>2, <2>3
  <2> QED BY <2>1, <2>2, <2>4
<1>4. calls[a] > 0 /\ calls[a] \in 1..PerCheck
  BY <1>1, <1>2 DEF AgentsOK, TypeOK
<1>5. MeterMoves
  BY <1>1, <1>2, Same, MeterReads
<1>6. TypeOK' /\ AgentsOK' /\ DaysOK' /\ OffsetsOK' /\ MeterIsLedger'
  BY <1>1, <1>2, <1>3, <1>4, <1>5, Same, AgentStep
<1>7. /\ calls' \in [Agents -> 0..PerCheck] /\ \A b \in Agents : calls'[b] <= calls[b]
      /\ \A b \in Agents : pc[b] = "recording" => pc'[b] = "recording"
  BY <1>1, <1>2, SMTT(30) DEF TypeOK
<1>8. DayOK' /\ TasksOK'
  BY <1>1, <1>2, <1>7, SameRows, NothingSpent
<1>9. RunsOK'
  <2> SUFFICES ASSUME RunCap > 0, NEW t \in Trees
               PROVE  spend'[t] <= RunCap - 1 + Cardinality(Charged(In(t))')
    BY DEF RunsOK
  <2>1. In(t) \in SUBSET Agents
    BY DEF In
  <2>2. Charged(In(t)) \in SUBSET Charged(In(t))'
    BY <1>1, <1>7, <2>1, UsedGrows
  <2>3. PICK u \in Nat, v \in Nat :
          u = Cardinality(Charged(In(t))) /\ v = Cardinality(Charged(In(t))') /\ u <= v
    BY <2>1, <2>2, CallsBehind, FS_Subset
  <2>4. spend[t] <= RunCap - 1 + u /\ spend[t] \in Nat
    BY <1>1, <2>3 DEF RunsOK, TypeOK
  <2>5. CASE TreeOf[a] # t
    <3>1. spend'[t] = spend[t]
      BY <1>1, <1>2, <2>5 DEF TypeOK
    <3>2. spend'[t] <= RunCap - 1 + v
      BY <2>3, <2>4, <3>1
    <3> QED BY <2>3, <3>2
  <2>6. CASE TreeOf[a] = t
    <3>1. spend'[t] = spend[t] + 1
      BY <1>1, <1>2, <2>6 DEF TypeOK
    <3> DEFINE x == <<a, calls[a]>>
    <3>2. x \notin Charged(In(t))
      <4>1. x[1] = a /\ x[2] = calls[a] /\ ~(calls[a] > calls[a])
        BY <1>4
      <4> QED BY <1>2, <4>1 DEF Charged
    <3>3. x \in Charged(In(t))'
      <4>1. x \in In(t) \X (1..PerCheck) /\ x[1] = a /\ x[2] = calls[a]
        BY <1>4, <2>6 DEF In
      <4>2. pc'[a] = "recording" /\ calls'[a] = calls[a]
        BY <1>1, <1>2 DEF TypeOK
      <4> QED BY <4>1, <4>2 DEF Charged
    <3> HIDE DEF x
    <3>4. Charged(In(t)) \cup {x} \in SUBSET Charged(In(t))'
      BY <2>2, <3>3
    <3>5. /\ IsFiniteSet(Charged(In(t)) \cup {x})
          /\ Cardinality(Charged(In(t)) \cup {x}) = Cardinality(Charged(In(t))) + 1
      BY <2>1, <3>2, CallsBehind, FS_AddElement
    <3>6. Cardinality(Charged(In(t)) \cup {x}) <= Cardinality(Charged(In(t))')
      BY <2>1, <3>4, CallsBehind, FS_Subset
    <3>7. u + 1 <= v
      BY <2>3, <3>5, <3>6
    <3>8. spend'[t] <= RunCap - 1 + v
      BY <2>3, <2>4, <3>1, <3>7
    <3> QED BY <2>3, <3>8
  <2> QED BY <2>5, <2>6
<1> QED BY <1>6, <1>8, <1>9 DEF IInv

\* The call whose row is written was behind a check, and is made with it.
LEMMA MadeWithRow ==
    ASSUME TypeOK, NEW a \in Agents, NEW A \in SUBSET Agents, a \in A, calls[a] \in 1..PerCheck,
           calls' = [calls EXCEPT ![a] = calls[a] - 1]
    PROVE  <<a, calls[a]>> \notin Used(A) /\ Used(A) \cup {<<a, calls[a]>>} \in SUBSET Used(A)'
<1> DEFINE x == <<a, calls[a]>>
<1>1. x \in A \X (1..PerCheck) /\ x[1] = a /\ x[2] = calls[a]
  OBVIOUS
<1>2. ~(calls[a] > calls[a]) /\ calls[a] > calls[a] - 1
  OBVIOUS
<1>3. /\ calls' \in [Agents -> 0..PerCheck] /\ calls'[a] = calls[a] - 1
      /\ \A b \in A : calls'[b] <= calls[b]
  <2>1. PICK n \in 0..PerCheck : n = calls[a] - 1 /\ n <= calls[a]
    OBVIOUS
  <2>2. calls' = [calls EXCEPT ![a] = n] /\ calls \in [Agents -> 0..PerCheck]
    BY <2>1 DEF TypeOK
  <2>3. \A b \in Agents : calls'[b] = IF b = a THEN n ELSE calls[b]
    BY <2>2
  <2> QED BY <2>1, <2>2, <2>3
<1> HIDE DEF x
<1>4. x \notin Used(A)
  BY <1>1, <1>2 DEF Used
<1>5. x \in Used(A)'
  BY <1>1, <1>2, <1>3 DEF Used
<1>6. Used(A) \in SUBSET Used(A)'
  BY <1>3, UsedGrows
<1> QED BY <1>4, <1>5, <1>6 DEF x

\* A torn row is a line of the file.
LEMMA HalfLine ==
    ASSUME NEW a \in Agents
    PROVE  Half \in Lines /\ ~Half.whole /\ Half.day = 0
<1>1. (CHOOSE t \in Trees : TRUE) \in Trees
  <2>1. TreeOf[a] \in Trees
    OBVIOUS
  <2> QED BY <2>1
<1> QED BY <1>1 DEF Half, Lines

\* A line of today, or before, leaves the ledger in order.
LEMMA DaysGrow ==
    ASSUME TypeOK, DaysOK, now' = now, NEW r \in Lines, r.day <= now, ledger' = Append(ledger, r)
    PROVE  DaysOK' /\ LedgerGrows
<1>1. ledger \in Seq(Lines) /\ Len(ledger) \in Nat
  BY DEF TypeOK, Lines
<1>2. PICK n \in Nat : n = Len(ledger)
  BY <1>1
<1>3. /\ Len(ledger') = n + 1 /\ ledger'[n + 1] = r /\ \A i \in 1..n : ledger'[i] = ledger[i]
  BY <1>1, <1>2
<1>4. \A i \in 1..(n + 1) : i = n + 1 \/ i \in 1..n
  OBVIOUS
<1> QED BY <1>2, <1>3, <1>4 DEF DaysOK, LedgerGrows

\* Records, whatever becomes of the row.
LEMMA RecordsIInv ==
    ASSUME IInv, NEW a \in Agents, Records(a)
    PROVE  IInv'
<1>1. TypeOK /\ AgentsOK /\ DaysOK /\ DayOK /\ TasksOK /\ RunsOK
  BY DEF IInv
<1> DEFINE w == IF calls[a] > 1 THEN "calling" ELSE "top"
           o == overAtStart[a] /\ calls[a] > 1
           r == Row(TreeOf[a], stamp[a])
<1>2. /\ pc[a] = "recording" /\ pc' = [pc EXCEPT ![a] = w]
      /\ calls' = [calls EXCEPT ![a] = calls[a] - 1]
      /\ overAtStart' = [overAtStart EXCEPT ![a] = o] /\ stamp' = [stamp EXCEPT ![a] = 0]
      /\ UNCHANGED <<now, readable, kill, meter, spend, made>>
  BY DEF Records, Goto, memory
<1>3. \/ ledger' = Append(ledger, r) /\ troubles' = troubles
      \/ /\ troubles < MaxTroubles /\ troubles' = troubles + 1
         /\ ledger' = ledger \/ ledger' = Append(ledger, Half)
  BY DEF Records, Trouble
<1>4. calls[a] > 0 /\ calls[a] \in 1..PerCheck /\ stamp[a] <= now /\ stamp[a] \in 0..MaxDay
  BY <1>1, <1>2 DEF AgentsOK, TypeOK
<1>5. PICK n \in 0..PerCheck : n = calls[a] - 1 /\ n < calls[a]
  BY <1>4
<1>6. w \in Pcs /\ (w = "calling" => n > 0) /\ (w = "top" => n = 0) /\ w \in {"calling", "top"}
  BY <1>4, <1>5 DEF Pcs
<1>7. o \in BOOLEAN
  OBVIOUS
<1>8. r \in Lines /\ r.day = stamp[a] /\ r.tree = TreeOf[a]
  BY <1>4 DEF Row, Lines
<1> HIDE DEF w, o, r
<1>9. MeterMoves
  BY <1>1, <1>2, Same, MeterReads
<1>10. Half \in Lines /\ ~Half.whole /\ Half.day = 0 /\ Half.day <= now
  BY <1>1, HalfLine, Same
<1>11. DaysOK' /\ LedgerGrows
  <2>1. CASE ledger' = ledger
    BY <1>1, <1>2, <2>1 DEF DaysOK, LedgerGrows
  <2>2. CASE ledger' = Append(ledger, r)
    BY <1>1, <1>2, <1>4, <1>8, <2>2, DaysGrow
  <2>3. CASE ledger' = Append(ledger, Half)
    BY <1>1, <1>2, <1>10, <2>3, DaysGrow
  <2> QED BY <1>3, <2>1, <2>2, <2>3
<1>12. made' \in 0..MaxCalls /\ troubles' \in 0..MaxTroubles /\ spend' \in [Trees -> Nat]
  <2>1. troubles \in 0..MaxTroubles /\ made' \in 0..MaxCalls /\ spend' \in [Trees -> Nat]
    BY <1>1, <1>2 DEF TypeOK
  <2>2. troubles' = troubles \/ (troubles < MaxTroubles /\ troubles' = troubles + 1)
    BY <1>3
  <2> QED BY <2>1, <2>2
<1>13. TypeOK' /\ AgentsOK' /\ DaysOK' /\ OffsetsOK' /\ MeterIsLedger'
  BY <1>1, <1>2, <1>5, <1>6, <1>7, <1>9, <1>11, <1>12, Same, AgentStep
<1>14. /\ calls' \in [Agents -> 0..PerCheck]
       /\ \A b \in Agents : calls'[b] <= calls[b]
       /\ \A b \in Agents : pc[b] = "recording" => pc'[b] = "recording" \/ calls'[b] < calls[b]
  <2>1. calls \in [Agents -> 0..PerCheck] /\ calls' = [calls EXCEPT ![a] = n] /\ pc \in [Agents -> Pcs]
    BY <1>1, <1>2, <1>5 DEF TypeOK
  <2>2. \A b \in Agents : IF b = a THEN calls'[b] = n ELSE calls'[b] = calls[b] /\ pc'[b] = pc[b]
    BY <1>2, <2>1
  <2> QED BY <1>5, <2>1, <2>2
<1>15. RunsOK'
  <2>1. \A t \in Trees : spend'[t] <= spend[t]
    BY <1>1, <1>2, Same
  <2> QED BY <1>12, <1>14, <2>1, NothingSpent
<1>16. DayOK' /\ TasksOK'
  <2>1. CASE ledger' = ledger
    BY <1>1, <1>2, <1>14, <2>1, SameRows, NothingSpent
  <2>2. CASE ledger' = Append(ledger, Half)
    BY <1>1, <1>2, <1>10, <1>14, <2>2, NewRows, NothingSpent
  <2>3. CASE ledger' = Append(ledger, r)
    <3>1. /\ Today' \in SUBSET (Today \cup {Len(ledger) + 1})
          /\ \A t : OfTask(Today, t)' \in SUBSET (OfTask(Today, t) \cup {Len(ledger) + 1})
          /\ \A t : Task(a) # t => OfTask(Today, t)' \in SUBSET OfTask(Today, t)
      BY <1>1, <1>2, <1>8, <2>3, NewRows DEF Task
    <3>2. IsFiniteSet(Today) /\ \A t : IsFiniteSet(OfTask(Today, t))
      <4>1. Len(ledger) \in Int
        BY <1>1 DEF TypeOK
      <4> QED BY <4>1, RowsFinite DEF Today
    <3>3. ASSUME DayCap > 0 PROVE Cardinality(Today') <= DayCap - 1 + Cardinality(Used(Agents)')
      <4>1. /\ <<a, calls[a]>> \notin Used(Agents) /\ IsFiniteSet(Used(Agents)')
            /\ Used(Agents) \cup {<<a, calls[a]>>} \in SUBSET Used(Agents)'
        BY <1>1, <1>2, <1>4, MadeWithRow, CallsBehind
      <4>2. Cardinality(Today) <= DayCap - 1 + Cardinality(Used(Agents))
        BY <1>1, <3>3 DEF DayOK
      <4> QED BY <3>1, <3>2, <4>1, <4>2, OneMore
    <3>4. ASSUME TaskCap > 0, NEW t \in Tasks
          PROVE  Cardinality(OfTask(Today, t)') <= TaskCap - 1 + Cardinality(Used(Of(t))')
      <4>1. Of(t) \in SUBSET Agents
        BY DEF Of
      <4>2. Cardinality(OfTask(Today, t)) <= TaskCap - 1 + Cardinality(Used(Of(t)))
        BY <1>1, <3>4 DEF TasksOK
      <4>3. CASE Task(a) = t
        <5>1. a \in Of(t)
          BY <4>3 DEF Of
        <5>2. /\ <<a, calls[a]>> \notin Used(Of(t)) /\ IsFiniteSet(Used(Of(t))')
              /\ Used(Of(t)) \cup {<<a, calls[a]>>} \in SUBSET Used(Of(t))'
          BY <1>1, <1>2, <1>4, <4>1, <5>1, MadeWithRow, CallsBehind
        <5>3. PICK x : x = <<a, calls[a]>>
          OBVIOUS
        <5>4. /\ x \notin Used(Of(t)) /\ Used(Of(t)) \cup {x} \in SUBSET Used(Of(t))'
          BY <5>2, <5>3
        <5>5. /\ OfTask(Today, t)' \in SUBSET (OfTask(Today, t) \cup {Len(ledger) + 1})
              /\ IsFiniteSet(OfTask(Today, t))
          BY <3>1, <3>2
        <5>6. TaskCap \in Nat
          OBVIOUS
        <5>7. PICK S, S2, U, U2, k : /\ S = OfTask(Today, t) /\ S2 = OfTask(Today, t)'
                                     /\ U = Used(Of(t)) /\ U2 = Used(Of(t))' /\ k = Len(ledger) + 1
          OBVIOUS
        <5>8. /\ S2 \in SUBSET (S \cup {k}) /\ IsFiniteSet(S) /\ IsFiniteSet(U2)
              /\ x \notin U /\ U \cup {x} \in SUBSET U2
              /\ Cardinality(S) <= TaskCap - 1 + Cardinality(U)
          BY <4>2, <5>2, <5>4, <5>5, <5>7
        <5>9. Cardinality(S2) <= TaskCap - 1 + Cardinality(U2)
          BY ONLY <5>6, <5>8, OneMore
        <5> QED BY <5>7, <5>9
      <4>4. CASE Task(a) # t
        <5>1. Used(Of(t)) \in SUBSET Used(Of(t))' /\ IsFiniteSet(Used(Of(t))')
          BY <1>1, <1>14, <4>1, UsedGrows, CallsBehind
        <5>2. OfTask(Today, t)' \in SUBSET OfTask(Today, t)
          BY <3>1, <4>4
        <5> QED BY <3>2, <4>2, <5>1, <5>2, Eased
      <4> QED BY <4>3, <4>4
    <3>5. DayOK'
      BY <3>3 DEF DayOK
    <3>6. TasksOK'
      BY <3>4 DEF TasksOK
    <3> QED BY <3>5, <3>6
  <2> QED BY <1>3, <2>1, <2>2, <2>3
<1> QED BY <1>13, <1>15, <1>16 DEF IInv

-----------------------------------------------------------------------------
(* The steps of the world *)

\* A new day, a turn of the switch, the ledger's permissions, or nothing: no agent moves.
LEMMA WorldIInv ==
    ASSUME IInv, NextDay \/ Flips \/ UNCHANGED vars
    PROVE  IInv'
<1>1. TypeOK /\ AgentsOK /\ DaysOK /\ OffsetsOK /\ MeterIsLedger
  BY DEF IInv
<1>2. /\ UNCHANGED <<ledger, meter, spend, pc, calls, overAtStart, stamp, made>>
      /\ now' = now \/ now' = now + 1
      /\ now' \in 1..MaxDay /\ readable' \in BOOLEAN /\ kill' \in BOOLEAN
      /\ troubles' \in 0..MaxTroubles
  <2>1. /\ now \in 1..MaxDay /\ readable \in BOOLEAN /\ kill \in BOOLEAN
        /\ troubles \in 0..MaxTroubles
    BY <1>1 DEF TypeOK
  <2>2. CASE NextDay
    <3>1. /\ now < MaxDay /\ now' = now + 1
          /\ UNCHANGED <<ledger, readable, kill, meter, spend, pc, calls, overAtStart, stamp, made,
                         troubles>>
      BY <2>2 DEF NextDay, files, memory, agents, bounds
    <3>2. now' \in 1..MaxDay
      BY <2>1, <3>1
    <3> QED BY <2>1, <3>1, <3>2
  <2>3. CASE Flips
    <3>1. /\ troubles < MaxTroubles /\ troubles' = troubles + 1
          /\ UNCHANGED <<now, ledger, meter, spend, pc, calls, overAtStart, stamp, made>>
      BY <2>3 DEF Flips, Trouble, memory, agents
    <3>2. readable' \in BOOLEAN /\ kill' \in BOOLEAN
      BY <2>1, <2>3 DEF Flips
    <3>3. troubles' \in 0..MaxTroubles
      BY <2>1, <3>1
    <3> QED BY <2>1, <3>1, <3>2, <3>3
  <2>4. CASE UNCHANGED vars
    BY <2>1, <2>4 DEF vars, files, memory, agents, bounds
  <2> QED BY <2>2, <2>3, <2>4
<1>3. LedgerGrows /\ MeterMoves
  BY <1>1, <1>2 DEF LedgerGrows, MeterMoves, TypeOK
<1>4. OffsetsOK' /\ MeterIsLedger'
  BY <1>1, <1>3, MetersFollow
<1>5. TypeOK'
  BY <1>1, <1>2 DEF TypeOK
<1>6. AgentsOK'
  BY <1>1, <1>2, SMTT(30) DEF AgentsOK, TypeOK
<1>7. DaysOK'
  <2> SUFFICES ASSUME NEW i \in 1..Len(ledger) PROVE ledger[i].day <= now'
    BY <1>2 DEF DaysOK
  <2>1. ledger \in Seq(Lines) /\ now \in Int
    BY <1>1 DEF TypeOK, Lines
  <2>2. ledger[i] \in Lines
    BY <2>1
  <2>3. ledger[i].day \in Int
    BY <2>2 DEF Lines
  <2>4. ledger[i].day <= now
    BY <1>1 DEF DaysOK
  <2> QED BY <1>2, <2>1, <2>3, <2>4
<1>8. /\ calls' \in [Agents -> 0..PerCheck] /\ \A b \in Agents : calls'[b] <= calls[b]
      /\ \A b \in Agents : pc[b] = "recording" => pc'[b] = "recording"
      /\ spend' \in [Trees -> Nat] /\ \A t \in Trees : spend'[t] <= spend[t]
  BY <1>1, <1>2 DEF TypeOK
<1>9. DayOK' /\ TasksOK' /\ RunsOK'
  BY <1>1, <1>2, <1>8, SameRows, NothingSpent
<1> QED BY <1>4, <1>5, <1>6, <1>7, <1>9 DEF IInv

\* A process that dies forgets its agents' calls, and its runs' spend with them.
LEMMA DiesIInv ==
    ASSUME IInv, NEW p \in Procs, Dies(p)
    PROVE  IInv'
<1>1. TypeOK /\ AgentsOK /\ DaysOK /\ OffsetsOK /\ MeterIsLedger
  BY DEF IInv
<1> DEFINE mine == {a \in Agents : Proc(a) = p}
<1>2. /\ pc' = [a \in Agents |-> IF a \in mine THEN "idle" ELSE pc[a]]
      /\ calls' = [a \in Agents |-> IF a \in mine THEN 0 ELSE calls[a]]
      /\ overAtStart' = [a \in Agents |-> a \notin mine /\ overAtStart[a]]
      /\ stamp' = [a \in Agents |-> IF a \in mine THEN 0 ELSE stamp[a]]
      /\ meter' = [meter EXCEPT ![p] = Fresh(0)]
      /\ spend' = [t \in Trees |-> IF ProcOf[t] = p THEN 0 ELSE spend[t]]
      /\ troubles < MaxTroubles /\ troubles' = troubles + 1
      /\ UNCHANGED <<now, readable, kill, made>>
  BY DEF Dies, Trouble
<1>3. ledger' = ledger \/ \E a \in Agents : ledger' = Append(ledger, Half)
  BY DEF Dies
<1> HIDE DEF mine
<1>5. ASSUME NEW a \in Agents, ledger' = Append(ledger, Half)
      PROVE  /\ DaysOK' /\ LedgerGrows
             /\ Today' \subseteq Today /\ \A t : OfTask(Today, t)' \subseteq OfTask(Today, t)
  <2>1. Half \in Lines /\ ~Half.whole /\ Half.day <= now
    BY <1>1, HalfLine, Same
  <2> QED BY <1>1, <1>2, <1>5, <2>1, NewRows, DaysGrow
<1>6. /\ DaysOK' /\ LedgerGrows
      /\ Today' \subseteq Today /\ \A t : OfTask(Today, t)' \subseteq OfTask(Today, t)
  <2>1. CASE ledger' = ledger
    BY <1>1, <1>2, <2>1, SameRows DEF DaysOK, LedgerGrows
  <2> QED BY <1>3, <1>5, <2>1
<1>7. MeterMoves
  <2>1. meter = [q \in Procs |-> meter[q]]
    BY <1>1 DEF TypeOK
  <2>2. meter' = [q \in Procs |-> IF q = p THEN Fresh(0) ELSE meter[q]]
    BY <1>2, <2>1
  <2> QED BY <2>2 DEF MeterMoves
<1>8. /\ ledger' \in Seq(Lines) /\ meter' \in [Procs -> Meters(Len(ledger'))]
      /\ OffsetsOK' /\ MeterIsLedger'
  BY <1>1, <1>6, <1>7, Grown, MetersFollow
<1>9. \A a \in Agents : /\ pc'[a] = IF a \in mine THEN "idle" ELSE pc[a]
                        /\ calls'[a] = IF a \in mine THEN 0 ELSE calls[a]
                        /\ overAtStart'[a] = (a \notin mine /\ overAtStart[a])
                        /\ stamp'[a] = IF a \in mine THEN 0 ELSE stamp[a]
  BY <1>2
<1>10. \A a \in Agents : /\ pc[a] \in Pcs /\ calls[a] \in 0..PerCheck
                         /\ stamp[a] \in 0..MaxDay /\ stamp[a] <= now
                         /\ pc[a] = "recording" => calls[a] > 0
                         /\ 0 \in 0..PerCheck /\ 0 \in 0..MaxDay /\ "idle" \in Pcs
  <2>1. 0 \in 0..PerCheck /\ 0 \in 0..MaxDay /\ "idle" \in Pcs
    BY DEF Pcs
  <2> QED BY <1>1, <2>1 DEF TypeOK, AgentsOK
<1>11. /\ pc' \in [Agents -> Pcs] /\ calls' \in [Agents -> 0..PerCheck]
       /\ overAtStart' \in [Agents -> BOOLEAN] /\ stamp' \in [Agents -> 0..MaxDay]
  BY <1>2, <1>10
<1>12. \A t \in Trees : spend[t] \in Nat /\ spend'[t] \in Nat /\ spend'[t] <= spend[t]
  BY <1>1, <1>2 DEF TypeOK
<1>13. spend' \in [Trees -> Nat]
  BY <1>2, <1>12
<1>14. TypeOK'
  <2>1. /\ now' \in 1..MaxDay /\ readable' \in BOOLEAN /\ kill' \in BOOLEAN
        /\ made' \in 0..MaxCalls /\ troubles' \in 0..MaxTroubles
    BY <1>1, <1>2 DEF TypeOK
  <2> QED BY <1>8, <1>11, <1>13, <2>1 DEF TypeOK, Lines, Meters
<1>15. AgentsOK'
  <2> SUFFICES ASSUME NEW a \in Agents
               PROVE  /\ pc'[a] \in {"checked", "calling", "recording"} => calls'[a] > 0
                      /\ pc'[a] \in {"idle", "top"} => calls'[a] = 0
                      /\ stamp'[a] <= now'
    BY DEF AgentsOK
  <2>1. CASE a \in mine
    <3>1. pc'[a] = "idle" /\ calls'[a] = 0 /\ stamp'[a] = 0
      BY <1>9, <2>1
    <3>2. 0 <= now
      BY <1>1 DEF TypeOK
    <3> QED BY <1>2, <3>1, <3>2
  <2>2. CASE a \notin mine
    <3>1. pc'[a] = pc[a] /\ calls'[a] = calls[a] /\ stamp'[a] = stamp[a]
      BY <1>9, <2>2
    <3> QED BY <1>1, <1>2, <3>1 DEF AgentsOK
  <2> QED BY <2>1, <2>2
<1>16. /\ \A a \in Agents : calls'[a] <= calls[a]
       /\ \A a \in Agents : pc[a] = "recording" => pc'[a] = "recording" \/ calls'[a] < calls[a]
  BY <1>9, <1>10
<1>17. DayOK' /\ TasksOK' /\ RunsOK'
  BY <1>6, <1>11, <1>12, <1>13, <1>16, NothingSpent
<1> QED BY <1>6, <1>8, <1>14, <1>15, <1>17 DEF IInv

-----------------------------------------------------------------------------
(* The theorems *)

\* Nothing is spent, and nothing read, at the start.
LEMMA InitIInv == Init => IInv
<1> SUFFICES ASSUME Init PROVE IInv
  OBVIOUS
<1>1. /\ now = 1 /\ ledger = <<>> /\ readable = TRUE /\ kill = FALSE
      /\ meter = [p \in Procs |-> Fresh(0)] /\ spend = [t \in Trees |-> 0]
      /\ pc = [a \in Agents |-> "idle"] /\ calls = [a \in Agents |-> 0]
      /\ overAtStart = [a \in Agents |-> FALSE] /\ stamp = [a \in Agents |-> 0]
      /\ made = 0 /\ troubles = 0 /\ Len(ledger) = 0
  BY DEF Init
<1>2. /\ Fresh(0) \in Meters(0) /\ Fresh(0).day = 0 /\ Fresh(0).offset = 0
      /\ Fresh(0).today = 0 /\ \A t \in Tasks : Fresh(0).tasks[t] = 0
  BY DEF Fresh, Meters
<1>3. \A d : Counted(1, 0, d) = {} /\ \A t : OfTask(Counted(1, 0, d), t) = {}
  BY DEF Counted, OfTask
<1>4. TypeOK
  <2>1. meter \in [Procs -> Meters(Len(ledger))]
    BY <1>1, <1>2
  <2>2. ledger \in Seq(Lines)
    BY <1>1
  <2>3. /\ now \in 1..MaxDay /\ readable \in BOOLEAN /\ kill \in BOOLEAN
        /\ spend \in [Trees -> Nat]
        /\ pc \in [Agents -> Pcs] /\ calls \in [Agents -> 0..PerCheck]
        /\ overAtStart \in [Agents -> BOOLEAN] /\ stamp \in [Agents -> 0..MaxDay]
        /\ made \in 0..MaxCalls /\ troubles \in 0..MaxTroubles
    <3>1. 1 \in 1..MaxDay /\ 0 \in 0..PerCheck /\ 0 \in 0..MaxDay
      OBVIOUS
    <3>2. 0 \in 0..MaxCalls /\ 0 \in 0..MaxTroubles
      OBVIOUS
    <3>3. "idle" \in Pcs
      BY DEF Pcs
    <3> QED BY <1>1, <3>1, <3>2, <3>3
  <2> QED BY <2>1, <2>2, <2>3 DEF TypeOK, Lines, Meters
<1>5. AgentsOK /\ DaysOK
  BY <1>1 DEF AgentsOK, DaysOK
<1>6. OffsetsOK
  BY <1>1, <1>2 DEF OffsetsOK
<1>7. MeterIsLedger
  BY <1>1, <1>2, <1>3, FS_EmptySet DEF MeterIsLedger
<1>8. Today = {} /\ \A t : OfTask(Today, t) = {}
  BY <1>1, <1>3 DEF Today
<1>9. DayOK
  <2>1. PICK u \in Nat : u = Cardinality(Used(Agents))
    BY CallsBehind
  <2>2. DayCap > 0 => 0 <= DayCap - 1 + u
    OBVIOUS
  <2> QED BY <1>8, <2>1, <2>2, FS_EmptySet DEF DayOK
<1>10. TasksOK
  <2> SUFFICES ASSUME TaskCap > 0, NEW t \in Tasks
               PROVE  Cardinality(OfTask(Today, t)) <= TaskCap - 1 + Cardinality(Used(Of(t)))
    BY DEF TasksOK
  <2>1. PICK u \in Nat : u = Cardinality(Used(Of(t)))
    <3>1. Of(t) \in SUBSET Agents
      BY DEF Of
    <3> QED BY <3>1, CallsBehind
  <2>2. 0 <= TaskCap - 1 + u
    OBVIOUS
  <2> QED BY <1>8, <2>1, <2>2, FS_EmptySet
<1>11. RunsOK
  <2> SUFFICES ASSUME RunCap > 0, NEW t \in Trees
               PROVE  spend[t] <= RunCap - 1 + Cardinality(Charged(In(t)))
    BY DEF RunsOK
  <2>1. PICK u \in Nat : u = Cardinality(Charged(In(t)))
    <3>1. In(t) \in SUBSET Agents
      BY DEF In
    <3> QED BY <3>1, CallsBehind
  <2>2. 0 <= RunCap - 1 + u /\ spend[t] = 0
    BY <1>1
  <2> QED BY <2>1, <2>2
<1> QED BY <1>4, <1>5, <1>6, <1>7, <1>9, <1>10, <1>11 DEF IInv

\* Every step keeps the invariant.
LEMMA NextIInv == IInv /\ [Next]_vars => IInv'
<1> SUFFICES ASSUME IInv, [Next]_vars PROVE IInv'
  OBVIOUS
<1>1. ASSUME NEW a \in Agents, Begins(a) \/ Step(a) \/ Looks(a) \/ Ends(a) PROVE IInv'
  BY <1>1, BeginsIInv, EndIInv, PassesIInv, CallsIInv, LooksIInv, AnswersIInv, RecordsIInv,
     AnswersFreeIInv DEF Step
<1>2. ASSUME NEW p \in Procs, Dies(p) PROVE IInv'
  BY <1>2, DiesIInv
<1>3. CASE NextDay \/ Flips \/ UNCHANGED vars
  BY <1>3, WorldIInv
<1> QED BY <1>1, <1>2, <1>3 DEF Next

\* The invariant holds in every reachable state.
LEMMA Inductive == Spec => []IInv
BY InitIInv, NextIInv, PTL DEF Spec

\* Every variable has its type in every reachable state.
THEOREM TypeCorrect == Spec => []TypeOK
<1>1. IInv => TypeOK
  BY DEF IInv
<1> QED BY <1>1, Inductive, PTL

\* read and refresh: a meter that follows the ledger's tail counts, for its day and for
\* each task, what one that reads the whole file does, wherever its reads fell among whole
\* and torn rows, midnights and restarts.
THEOREM MeterCounts == Spec => []MeterIsLedger
<1>1. IInv => MeterIsLedger
  BY DEF IInv
<1> QED BY <1>1, Inductive, PTL

\* check and TrustSink: no day, task or run passes its cap by more than the calls behind
\* one check of each of its agents, however the processes' steps interleave.
THEOREM SpendIsBounded == Spec => []SpendBounded
<1>1. IInv => SpendBounded
  <2> SUFFICES ASSUME IInv PROVE SpendBounded
    OBVIOUS
  <2>1. TypeOK /\ DayOK /\ TasksOK /\ RunsOK
    BY DEF IInv
  <2>2. ASSUME NEW s \in Int, NEW cap \in Nat, NEW A \in SUBSET Agents, NEW U,
               Cardinality(U) \in Nat, Cardinality(U) <= PerCheck * Cardinality(A),
               cap > 0 => s <= cap - 1 + Cardinality(U)
        PROVE  Bounded(s, cap, A)
    <3>1. Cardinality(A) \in Nat
      BY CallsBehind
    <3>2. PICK u \in Nat, v \in Nat : u = Cardinality(U) /\ v = PerCheck * Cardinality(A)
      BY <2>2, <3>1
    <3>3. u <= v /\ (cap > 0 => s <= cap - 1 + u)
      BY <2>2, <3>2
    <3>4. cap > 0 => s <= cap - 1 + v
      BY <3>3
    <3> QED BY <3>2, <3>4 DEF Bounded
  <2>3. Cardinality(Today) \in Int /\ \A t : Cardinality(OfTask(Today, t)) \in Int
    <3>1. Len(ledger) \in Int
      BY <2>1 DEF TypeOK
    <3> QED BY <3>1, RowsFinite DEF Today
  <2>4. Bounded(Cardinality(Today), DayCap, Agents)
    BY <2>1, <2>2, <2>3, CallsBehind DEF DayOK
  <2>5. ASSUME NEW t \in Tasks
        PROVE  Bounded(Cardinality(OfTask(Today, t)), TaskCap, {a \in Agents : Task(a) = t})
    <3>1. Of(t) \in SUBSET Agents
      BY DEF Of
    <3>2. TaskCap > 0 => Cardinality(OfTask(Today, t)) <= TaskCap - 1 + Cardinality(Used(Of(t)))
      BY <2>1 DEF TasksOK
    <3>3. Bounded(Cardinality(OfTask(Today, t)), TaskCap, Of(t))
      BY <2>2, <2>3, <3>1, <3>2, CallsBehind
    <3> QED BY <3>3 DEF Of
  <2>6. ASSUME NEW t \in Trees
        PROVE  Bounded(spend[t], RunCap, {a \in Agents : TreeOf[a] = t})
    <3>1. In(t) \in SUBSET Agents
      BY DEF In
    <3>2. RunCap > 0 => spend[t] <= RunCap - 1 + Cardinality(Charged(In(t)))
      BY <2>1 DEF RunsOK
    <3>3. spend[t] \in Int
      BY <2>1 DEF TypeOK
    <3>4. Bounded(spend[t], RunCap, In(t))
      BY <2>2, <3>1, <3>2, <3>3, CallsBehind
    <3> QED BY <3>4 DEF In
  <2> QED BY <2>4, <2>5, <2>6 DEF SpendBounded, Today
<1> QED BY <1>1, Inductive, PTL
=============================================================================
