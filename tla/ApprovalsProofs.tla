-------------------------- MODULE ApprovalsProofs --------------------------
(***************************************************************************)
(* Type correctness, no question without somebody who waits for it, and no *)
(* gated call without the owner's word: for every tree of agents, every    *)
(* set of subjects, chats and codes, and every number of questions, runs   *)
(* and restarts.                                                           *)
(***************************************************************************)
EXTENDS Approvals, FiniteSetTheorems, SequenceTheorems, TLAPS

Waits == {"sending", "waiting", "late"}

\* An agent has a call from the model's answer on, and a question while it waits.
AgentsOK ==
    \A a \in Agents :
        /\ pc[a] \notin {"out", "ready"} => call[a] \in Subjects
        /\ (on[a] # 0) = (pc[a] \in Waits)
        /\ on[a] # 0 => on[a] \in DOMAIN q /\ q[on[a]].agent = a

\* The codes the hub remembers are of one question each.
CodesOK ==
    /\ \A i, j \in Remembered : Code(i) = Code(j) => i = j
    /\ \A i \in pending : answer[i] = "none"

\* The word w, at least as far as the answer r reaches.
Covers(w, r) ==
    /\ r \in Yes => w \in Yes
    /\ r = "always" => w \in {"always", "remember"}
    /\ r = "remember" => w = "remember"

\* An answer was given to a question of the kind that was offered it, by a word that
\* covers it; the word for a question that is no longer pending stays what it is.
AnswersOK ==
    \A i \in Questions : answer[i] # "none" =>
        /\ i \in DOMAIN q \ pending
        /\ Covers(word[i], answer[i])
        /\ answer[i] = "always" => q[i].subject \in ForRun
        /\ answer[i] = "remember" => q[i].subject \in Keep

\* The owner's settled word for a subject: in a run, or for good.
Always(s, r) ==
    \E i \in DOMAIN q \ pending :
        q[i].subject = s /\ q[i].run = r /\ word[i] \in {"always", "remember"}
Remember(s) == \E i \in DOMAIN q \ pending : q[i].subject = s /\ word[i] = "remember"

GrantsOK ==
    /\ \A s \in granted : Always(s, run)
    /\ \A s \in standing : Remember(s)

\* What a call went ahead on.
Bases == [on : {"nothing", "question", "grant", "standing", "terminal"},
          id : Subjects \cup Nat, run : Nat]
BasisOK ==
    /\ basis \in [Agents -> Bases]
    /\ \A a \in Agents :
        /\ basis[a].on = "question" => basis[a].id \in DOMAIN q \ pending /\ word[basis[a].id] \in Yes
        /\ basis[a].on = "grant" => Always(basis[a].id, basis[a].run)
        /\ basis[a].on = "standing" => Remember(basis[a].id)

IInv ==
    /\ TypeOK /\ AgentsOK /\ PendingIsAwaited /\ CodesOK /\ AnswersOK /\ GrantsOK /\ BasisOK

Pcs == {"out", "ready", "called", "asking", "prompt", "sending", "waiting", "late", "running"}
Said == {"none", "no"} \cup Yes
Asked == [agent : Agents, subject : Subjects, chat : Chats, code : Codes, run : 0..MaxRuns]

USE ApprovalsAssumption

-----------------------------------------------------------------------------
(* Lists, and the questions *)

\* The questions are numbered from 1, without a gap, and are among those allowed for.
LEMMA Numbers ==
    ASSUME TypeOK
    PROVE  /\ q \in Seq(Asked) /\ DOMAIN q = 1..Len(q) /\ Len(q) \in Nat
           /\ \A i \in DOMAIN q : i \in Questions /\ i # 0 /\ i \in Nat /\ q[i] \in Asked
<1>1. q \in Seq(Asked) /\ Len(q) <= MaxQuestions
  BY DEF TypeOK, Asked
<1>2. /\ DOMAIN q = 1..Len(q) /\ Len(q) \in Nat /\ \A i \in DOMAIN q : q[i] \in Asked
  BY <1>1
<1> QED BY <1>1, <1>2 DEF Questions

\* What is left of a list that has aged is part of it.
LEMMA AgedPart ==
    ASSUME NEW S, NEW list \in Seq(S), NEW l \in Aged(list)
    PROVE  l \in Seq(S) /\ ToSet(l) \subseteq ToSet(list)
<1>1. PICK k \in 1..(Len(list) + 1) : l = SubSeq(list, k, Len(list))
  BY DEF Aged
<1>2. Len(list) \in Nat /\ DOMAIN list = 1..Len(list)
  OBVIOUS
<1>3. /\ l \in Seq(S) /\ DOMAIN l = 1..(Len(list) - k + 1)
      /\ \A i \in DOMAIN l : i + k - 1 \in DOMAIN list /\ l[i] = list[i + k - 1]
  <2>1. k \in Int /\ Len(list) \in Int /\ \A i \in k..Len(list) : list[i] \in S
    BY <1>2
  <2>2. /\ l \in Seq(S) /\ Len(l) = (IF k <= Len(list) THEN Len(list) - k + 1 ELSE 0)
        /\ \A i \in 1..(Len(list) - k + 1) : l[i] = list[k + i - 1]
    BY <1>1, <2>1, SubSeqProperties
  <2>3. Len(l) = Len(list) - k + 1
    BY <1>2, <2>2
  <2>4. DOMAIN l = 1..(Len(list) - k + 1)
    BY <2>2, <2>3
  <2>5. \A i \in 1..(Len(list) - k + 1) : i + k - 1 \in 1..Len(list) /\ i + k - 1 = k + i - 1
    BY <1>2
  <2> QED BY <1>2, <2>2, <2>4, <2>5
<1> QED BY <1>3 DEF ToSet

\* What an appended list holds.
LEMMA AppendedPart ==
    ASSUME NEW S, NEW list \in Seq(S), NEW x \in S
    PROVE  Append(list, x) \in Seq(S) /\ ToSet(Append(list, x)) \subseteq ToSet(list) \cup {x}
<1>1. /\ Append(list, x) \in Seq(S) /\ Len(list) \in Nat /\ DOMAIN list = 1..Len(list)
      /\ DOMAIN Append(list, x) = 1..(Len(list) + 1)
  OBVIOUS
<1>2. \A i \in DOMAIN Append(list, x) :
         \/ i \in DOMAIN list /\ Append(list, x)[i] = list[i]
         \/ Append(list, x)[i] = x
  BY <1>1
<1> QED BY <1>1, <1>2 DEF ToSet

\* The questions answered, in whatever order, behind those answered before.
LEMMA UsedPart ==
    ASSUME NEW S, NEW list \in Seq(S), NEW I \in SUBSET S, IsFiniteSet(I), NEW l \in SetToSeqs(I)
    PROVE  list \o l \in Seq(S) /\ ToSet(list \o l) \subseteq ToSet(list) \cup I
<1>1. Cardinality(I) \in Nat
  BY FS_CardinalityType
<1>2. l \in [1..Cardinality(I) -> I]
  BY DEF SetToSeqs
<1>3. l \in Seq(I) /\ l \in Seq(S)
  BY <1>1, <1>2, SMTT(30)
<1>4. /\ list \o l \in Seq(S) /\ Len(list) \in Nat /\ Len(l) \in Nat /\ DOMAIN list = 1..Len(list)
      /\ DOMAIN l = 1..Len(l) /\ DOMAIN (list \o l) = 1..(Len(list) + Len(l))
  BY <1>3
<1>5. \A i \in DOMAIN (list \o l) :
         \/ i \in DOMAIN list /\ (list \o l)[i] = list[i]
         \/ i - Len(list) \in DOMAIN l /\ (list \o l)[i] = l[i - Len(list)]
  BY <1>3, <1>4
<1>6. \A i \in DOMAIN l : l[i] \in I
  BY <1>3
<1> QED BY <1>4, <1>5, <1>6 DEF ToSet

-----------------------------------------------------------------------------
(* What steps have in common *)

\* The owner's settled word is never taken back.
LEMMA Settled ==
    ASSUME \A i \in DOMAIN q \ pending :
              i \in DOMAIN q' \ pending' /\ q'[i] = q[i] /\ word'[i] = word[i]
    PROVE  /\ \A s, r : Always(s, r) => Always(s, r)'
           /\ \A s : Remember(s) => Remember(s)'
  BY DEF Always, Remember

\* The calls that go on, or are over.
LEMMA BasisStays ==
    ASSUME BasisOK, basis' \in [Agents -> Bases],
           \A a \in Agents : basis'[a] = basis[a] \/ basis'[a].on \in {"nothing", "terminal"},
           \A i \in DOMAIN q \ pending :
              i \in DOMAIN q' \ pending' /\ q'[i] = q[i] /\ word'[i] = word[i]
    PROVE  BasisOK'
<1>1. /\ \A s, r : Always(s, r) => Always(s, r)'
      /\ \A s : Remember(s) => Remember(s)'
  BY Settled
<1> SUFFICES ASSUME NEW a \in Agents
             PROVE  /\ basis'[a].on = "question" =>
                         basis'[a].id \in DOMAIN q' \ pending' /\ word'[basis'[a].id] \in Yes
                    /\ basis'[a].on = "grant" => Always(basis[a].id, basis[a].run)' /\ basis'[a] = basis[a]
                    /\ basis'[a].on = "standing" => Remember(basis[a].id)' /\ basis'[a] = basis[a]
  BY DEF BasisOK, Always, Remember
<1>2. CASE basis'[a] = basis[a]
  <2>1. /\ basis[a].on = "grant" => Always(basis[a].id, basis[a].run)
        /\ basis[a].on = "standing" => Remember(basis[a].id)
        /\ basis[a].on = "question" => basis[a].id \in DOMAIN q \ pending /\ word[basis[a].id] \in Yes
    BY DEF BasisOK
  <2> HIDE DEF BasisOK
  <2>2. /\ basis[a].on = "question" => basis[a].id \in DOMAIN q' \ pending' /\ word'[basis[a].id] \in Yes
    BY <2>1
  <2>3. /\ basis[a].on = "grant" => Always(basis[a].id, basis[a].run)'
        /\ basis[a].on = "standing" => Remember(basis[a].id)'
    BY <1>1, <1>2, <2>1 DEF Always, Remember
  <2> QED BY <1>2, <2>2, <2>3
<1>3. CASE basis'[a].on \in {"nothing", "terminal"}
  BY <1>3
<1> QED BY <1>2, <1>3

\* An agent goes on; if it waits no more, its question is not pending.
LEMMA AgentMoves ==
    ASSUME TypeOK, AgentsOK, PendingIsAwaited, NEW a \in Agents,
           \A b \in Agents : b # a => pc'[b] = pc[b] /\ call'[b] = call[b] /\ on'[b] = on[b],
           pc'[a] \notin {"out", "ready"} => call'[a] \in Subjects,
           (on'[a] # 0) = (pc'[a] \in Waits), on'[a] \in {0, on[a]},
           on'[a] = 0 => on[a] \notin pending',
           UNCHANGED q, pending' \subseteq pending
    PROVE  AgentsOK' /\ PendingIsAwaited'
<1>1. AgentsOK'
  BY DEF AgentsOK
<1>2. PendingIsAwaited'
  <2> SUFFICES ASSUME NEW i \in pending'
               PROVE  pc'[q[i].agent] \in Waits /\ on'[q[i].agent] = i
    BY DEF PendingIsAwaited, Waits
  <2>1. pc[q[i].agent] \in Waits /\ on[q[i].agent] = i /\ q[i].agent \in Agents /\ i # 0
    BY Numbers DEF PendingIsAwaited, Waits, TypeOK, Asked
  <2> QED BY <2>1
<1> QED BY <1>1, <1>2

\* What is withdrawn expires if it was pending, and what its channel held is gone.
LEMMA Expires ==
    ASSUME TypeOK, NEW i \in DOMAIN q, Withdraws(i)
    PROVE  /\ expired' \in Seq(DOMAIN q)
           /\ ToSet(expired') \subseteq ToSet(expired) \cup ({i} \cap pending)
           /\ answer' \in [Questions -> Said] /\ answer'[i] = "none"
           /\ \A j \in Questions : j # i => answer'[j] = answer[j]
<1>0. i \in Questions /\ answer \in [Questions -> Said] /\ expired \in Seq(DOMAIN q)
  BY Numbers DEF TypeOK, Said
<1>1. /\ answer' \in [Questions -> Said] /\ answer'[i] = "none"
      /\ \A j \in Questions : j # i => answer'[j] = answer[j]
  BY <1>0 DEF Withdraws, Said
<1>2. CASE i \in pending
  <2>1. /\ Append(expired, i) \in Seq(DOMAIN q)
        /\ ToSet(Append(expired, i)) \subseteq ToSet(expired) \cup {i}
    BY <1>0, AppendedPart
  <2>2. expired' \in Aged(Append(expired, i))
    BY <1>2 DEF Withdraws
  <2>3. expired' \in Seq(DOMAIN q) /\ ToSet(expired') \subseteq ToSet(Append(expired, i))
    BY <2>1, <2>2, AgedPart
  <2> QED BY <1>1, <1>2, <2>1, <2>3
<1>3. CASE i \notin pending
  <2>1. expired' \in Aged(expired)
    BY <1>3 DEF Withdraws
  <2> QED BY <1>0, <1>1, <2>1, AgedPart
<1> QED BY <1>2, <1>3

\* A question is withdrawn: it is pending no more, and what it held is gone.
LEMMA Withdrawn ==
    ASSUME IInv, NEW i \in DOMAIN q, Withdraws(i), pending' = pending \ {i},
           UNCHANGED <<q, used, word>>
    PROVE  /\ CodesOK' /\ AnswersOK'
           /\ pending' \subseteq DOMAIN q /\ expired' \in Seq(DOMAIN q)
           /\ answer' \in [Questions -> Said]
<1> USE DEF IInv
<1>1. /\ expired' \in Seq(DOMAIN q)
      /\ ToSet(expired') \subseteq ToSet(expired) \cup ({i} \cap pending)
      /\ answer' \in [Questions -> Said] /\ answer'[i] = "none"
      /\ \A j \in Questions : j # i => answer'[j] = answer[j]
  BY Expires
<1>3. CodesOK'
  <2>1. Remembered' \subseteq Remembered
    BY <1>1 DEF Remembered
  <2>2. \A j, k \in Remembered' : Code(j)' = Code(k)' => j = k
    BY <2>1 DEF CodesOK, Code
  <2>3. \A j \in pending' : answer'[j] = "none"
    BY <1>1, Numbers DEF CodesOK, TypeOK
  <2> QED BY <2>2, <2>3 DEF CodesOK
<1>4. AnswersOK'
  BY <1>1 DEF AnswersOK, Covers
<1> QED BY <1>1, <1>3, <1>4 DEF TypeOK

\* At the start there are no questions, and nobody does anything.
LEMMA InitIInv == Init => IInv
<1> SUFFICES ASSUME Init PROVE IInv
  OBVIOUS
<1>1. TypeOK
  <2>1. /\ pc \in [Agents -> Pcs] /\ call \in [Agents -> Subjects \cup {NoCall}]
        /\ 0 \in 0..MaxQuestions /\ 0 \in 0..MaxRuns /\ 0 \in 0..0 /\ 0 \in 0..MaxRestarts
    BY DEF Init, Pcs
  <2>2. on \in [Agents -> 0..MaxQuestions]
    BY <2>1 DEF Init
  <2>3. /\ answer \in [Questions -> Said] /\ word \in [Questions -> Said]
    BY DEF Init, Said
  <2>4. q \in Seq(Asked) /\ Len(q) = 0 /\ DOMAIN q = {}
    BY DEF Init
  <2>5. expired \in Seq(DOMAIN q) /\ used \in Seq(DOMAIN q)
    BY DEF Init
  <2>6. /\ run \in 0..MaxRuns /\ streak \in 0..total /\ total \in Nat
        /\ restarts \in 0..MaxRestarts /\ Len(q) <= MaxQuestions
    BY <2>1, <2>4 DEF Init
  <2>7. /\ granted \subseteq ForRun /\ standing \subseteq Keep /\ escalated \in BOOLEAN
        /\ route \in Routes /\ stop \in {"off", "here", "elsewhere"}
        /\ pending \subseteq DOMAIN q /\ shown \subseteq DOMAIN q
    BY DEF Init
  <2> QED BY <2>1, <2>2, <2>3, <2>4, <2>5, <2>6, <2>7 DEF TypeOK, Pcs, Said, Asked
<1>2. AgentsOK /\ PendingIsAwaited
  BY DEF Init, AgentsOK, PendingIsAwaited, Waits
<1>3. CodesOK /\ AnswersOK /\ GrantsOK
  <2>1. Remembered = {}
    <3>1. ToSet(<<>>) = {}
      BY DEF ToSet
    <3> QED BY <3>1 DEF Init, Remembered
  <2> QED BY <2>1 DEF Init, CodesOK, AnswersOK, GrantsOK
<1>4. BasisOK
  <2>1. Nothing \in Bases /\ Nothing.on = "nothing"
    BY DEF Nothing, Bases
  <2>2. basis = [a \in Agents |-> Nothing]
    BY DEF Init
  <2> QED BY <2>1, <2>2 DEF BasisOK
<1> QED BY <1>1, <1>2, <1>3, <1>4 DEF IInv

\* Where an agent is after Goto, ...
LEMMA GotoMoves ==
    ASSUME TypeOK, NEW a \in Agents, NEW p \in Pcs, Goto(a, p)
    PROVE  /\ pc' \in [Agents -> Pcs] /\ pc'[a] = p
           /\ \A b \in Agents : b # a => pc'[b] = pc[b]
  BY DEF TypeOK, Goto, Pcs

\* ... and after Leaves.
LEMMA LeavesMoves ==
    ASSUME TypeOK, NEW a \in Agents, NEW p \in {"out", "ready"}, Leaves(a, p)
    PROVE  /\ pc' \in [Agents -> Pcs] /\ pc'[a] = p
           /\ call' \in [Agents -> Subjects \cup {NoCall}]
           /\ on' \in [Agents -> 0..MaxQuestions] /\ on'[a] = 0
           /\ \A b \in Agents : b # a => pc'[b] = pc[b] /\ call'[b] = call[b] /\ on'[b] = on[b]
<1>1. Goto(a, p) /\ p \in Pcs
  BY DEF Leaves, Pcs
<1>2. /\ pc' \in [Agents -> Pcs] /\ pc'[a] = p
      /\ \A b \in Agents : b # a => pc'[b] = pc[b]
  BY <1>1, GotoMoves
<1>3. /\ call' \in [Agents -> Subjects \cup {NoCall}]
      /\ \A b \in Agents : b # a => call'[b] = call[b]
  BY DEF TypeOK, Leaves
<1>4. 0 \in 0..MaxQuestions
  OBVIOUS
<1>5. /\ on' \in [Agents -> 0..MaxQuestions] /\ on'[a] = 0
      /\ \A b \in Agents : b # a => on'[b] = on[b]
  BY <1>4 DEF TypeOK, Leaves
<1> QED BY <1>2, <1>3, <1>5

\* An agent moves and nothing is asked or answered.
LEMMA Goes ==
    ASSUME IInv, NEW a \in Agents,
           UNCHANGED <<route, q, pending, expired, used, answer, word, restarts>>,
           pc' \in [Agents -> Pcs], call' \in [Agents -> Subjects \cup {NoCall}],
           on' \in [Agents -> 0..MaxQuestions],
           \A b \in Agents : b # a => pc'[b] = pc[b] /\ call'[b] = call[b] /\ on'[b] = on[b],
           pc'[a] \notin {"out", "ready"} => call'[a] \in Subjects,
           on'[a] = on[a], (pc'[a] \in Waits) = (pc[a] \in Waits),
           run' \in 0..MaxRuns, total' \in Nat, streak' \in 0..total', escalated' \in BOOLEAN,
           granted' = {} \/ (granted' = granted /\ run' = run),
           standing' \subseteq standing, stop' \in {"off", "here", "elsewhere"},
           shown' \subseteq DOMAIN q, BasisOK'
    PROVE  IInv'
<1>1. TypeOK'
  <2>1. granted' \subseteq ForRun /\ standing' \subseteq Keep
    BY DEF IInv, TypeOK
  <2> QED BY <2>1 DEF IInv, TypeOK, Pcs
<1>2. AgentsOK' /\ PendingIsAwaited'
  <2>0. TypeOK /\ AgentsOK /\ PendingIsAwaited
    BY DEF IInv
  <2>1. (on'[a] # 0) = (pc'[a] \in Waits) /\ (on'[a] = 0 => on[a] \notin pending')
    <3>1. (on[a] # 0) = (pc[a] \in Waits)
      BY <2>0 DEF AgentsOK
    <3>2. 0 \notin pending
      BY <2>0, Numbers DEF TypeOK
    <3> QED BY <3>1, <3>2
  <2> QED BY <2>0, <2>1, AgentMoves
<1>3. CodesOK' /\ AnswersOK'
  BY DEF IInv, CodesOK, AnswersOK, Remembered, Code
<1>4. GrantsOK'
  <2>1. /\ \A s, r : Always(s, r) => Always(s, r)'
        /\ \A s : Remember(s) => Remember(s)'
    BY Settled
  <2>2. /\ \A s \in granted : Always(s, run)
        /\ \A s \in standing : Remember(s)
    BY DEF IInv, GrantsOK
  <2>3. \A s \in granted' : Always(s, run)'
    BY <2>1, <2>2 DEF Always
  <2> QED BY <2>1, <2>2, <2>3 DEF GrantsOK
<1> QED BY <1>1, <1>2, <1>3, <1>4 DEF IInv

-----------------------------------------------------------------------------
(* The agents' steps that ask and answer nothing *)

\* A run begins, or a sub-agent joins it.
LEMMA StepBegins == ASSUME IInv, NEW a \in Agents, Begins(a) PROVE IInv'
<1>1. /\ UNCHANGED <<route, q, pending, expired, used, answer, word, restarts, call, on>>
      /\ UNCHANGED <<standing, stop, shown, basis>>
      /\ pc[a] = "out" /\ Goto(a, "ready") /\ TypeOK
  BY DEF Begins, approvals, history, IInv
<1>2. /\ pc' \in [Agents -> Pcs] /\ pc'[a] = "ready"
      /\ \A b \in Agents : b # a => pc'[b] = pc[b]
  BY <1>1, GotoMoves DEF Pcs
<1>3. /\ run' \in 0..MaxRuns /\ total' \in Nat /\ streak' \in 0..total'
      /\ granted' = {} \/ (granted' = granted /\ run' = run)
  <2>1. CASE run < MaxRuns /\ run' = run + 1 /\ granted' = {} /\ streak' = 0 /\ total' = 0
    BY <1>1, <2>1 DEF TypeOK
  <2>2. CASE UNCHANGED runState
    BY <1>1, <2>2 DEF TypeOK, runState
  <2> QED BY <2>1, <2>2 DEF Begins
<1>4. escalated' \in BOOLEAN
  BY <1>1 DEF Begins, runState, TypeOK
<1>5. BasisOK'
  BY <1>1 DEF IInv, BasisOK, Always, Remember
<1>6. (pc'[a] \in Waits) = (pc[a] \in Waits) /\ on'[a] = on[a]
  BY <1>1, <1>2 DEF Waits
<1>7. /\ call' \in [Agents -> Subjects \cup {NoCall}] /\ on' \in [Agents -> 0..MaxQuestions]
      /\ stop' \in {"off", "here", "elsewhere"} /\ shown' \subseteq DOMAIN q
  BY <1>1 DEF TypeOK
<1> QED BY <1>1, <1>2, <1>3, <1>4, <1>5, <1>6, <1>7, Goes

\* The model is called, or the run is over.
LEMMA StepCallsModel == ASSUME IInv, NEW a \in Agents, CallsModel(a) PROVE IInv'
<1>1. /\ UNCHANGED <<route, q, pending, expired, used, answer, word, restarts, on>>
      /\ UNCHANGED <<run, granted, streak, total, escalated, standing, stop, shown, basis>>
      /\ pc[a] = "ready" /\ TypeOK
  BY DEF CallsModel, approvals, history, runState, IInv
<1>2. /\ pc' \in [Agents -> Pcs] /\ pc'[a] \in {"out", "called"}
      /\ \A b \in Agents : b # a => pc'[b] = pc[b]
      /\ call' \in [Agents -> Subjects \cup {NoCall}]
      /\ \A b \in Agents : b # a => call'[b] = call[b]
      /\ pc'[a] = "called" => call'[a] \in Subjects
  <2>1. CASE Goto(a, "called") /\ \E s \in Subjects : call' = [call EXCEPT ![a] = s]
    <3>1. /\ pc' \in [Agents -> Pcs] /\ pc'[a] = "called"
          /\ \A b \in Agents : b # a => pc'[b] = pc[b]
      BY <1>1, <2>1, GotoMoves DEF Pcs
    <3>2. /\ call' \in [Agents -> Subjects \cup {NoCall}] /\ call'[a] \in Subjects
          /\ \A b \in Agents : b # a => call'[b] = call[b]
      BY <1>1, <2>1 DEF TypeOK
    <3> QED BY <3>1, <3>2
  <2>2. CASE Goto(a, "out") /\ UNCHANGED call
    <3>1. /\ pc' \in [Agents -> Pcs] /\ pc'[a] = "out"
          /\ \A b \in Agents : b # a => pc'[b] = pc[b]
      BY <1>1, <2>2, GotoMoves DEF Pcs
    <3> QED BY <1>1, <2>2, <3>1 DEF TypeOK
  <2> QED BY <2>1, <2>2 DEF CallsModel
<1>5. BasisOK'
  BY <1>1 DEF IInv, BasisOK, Always, Remember
<1>6. (pc'[a] \in Waits) = (pc[a] \in Waits) /\ on'[a] = on[a]
  BY <1>1, <1>2 DEF Waits
<1>7. /\ on' \in [Agents -> 0..MaxQuestions] /\ run' \in 0..MaxRuns /\ total' \in Nat
      /\ streak' \in 0..total' /\ escalated' \in BOOLEAN
      /\ stop' \in {"off", "here", "elsewhere"} /\ shown' \subseteq DOMAIN q
  BY <1>1 DEF TypeOK
<1> QED BY <1>1, <1>2, <1>5, <1>6, <1>7, Goes

\* A call goes ahead on what is recorded.
LEMMA Through ==
    ASSUME IInv, NEW a \in Agents, NEW what \in Bases, LetsThrough(a, what)
    PROVE  /\ pc' \in [Agents -> Pcs] /\ pc'[a] = "running"
           /\ on' \in [Agents -> 0..MaxQuestions] /\ on'[a] = 0
           /\ \A b \in Agents : b # a => pc'[b] = pc[b] /\ on'[b] = on[b] /\ basis'[b] = basis[b]
           /\ basis' \in [Agents -> Bases] /\ basis'[a] = what
           /\ total' \in Nat /\ streak' \in 0..total' /\ escalated' \in BOOLEAN
           /\ UNCHANGED <<call, run, total, escalated, word>>
<1>1. /\ Goto(a, "running") /\ TypeOK /\ basis \in [Agents -> Bases] /\ streak' = 0
      /\ basis' = [basis EXCEPT ![a] = what] /\ on' = [on EXCEPT ![a] = 0]
      /\ UNCHANGED <<call, run, total, escalated, word>>
  BY DEF LetsThrough, IInv, BasisOK
<1>2. /\ pc' \in [Agents -> Pcs] /\ pc'[a] = "running"
      /\ \A b \in Agents : b # a => pc'[b] = pc[b]
  BY <1>1, GotoMoves DEF Pcs
<1>3. 0 \in 0..MaxQuestions /\ total' \in Nat /\ streak' \in 0..total'
  BY <1>1 DEF TypeOK
<1>4. /\ on' \in [Agents -> 0..MaxQuestions] /\ on'[a] = 0
      /\ \A b \in Agents : b # a => on'[b] = on[b]
  BY <1>1, <1>3 DEF TypeOK
<1>5. /\ basis' \in [Agents -> Bases] /\ basis'[a] = what
      /\ \A b \in Agents : b # a => basis'[b] = basis[b]
  BY <1>1
<1>6. escalated' \in BOOLEAN
  BY <1>1 DEF TypeOK
<1> QED BY <1>1, <1>2, <1>3, <1>4, <1>5, <1>6

\* On a grant of the run, on a standing one, or on what is said at the terminal.
LEMMA Ahead ==
    ASSUME IInv, NEW a \in Agents, NEW kind \in {"grant", "standing", "terminal"},
           LetsThrough(a, [on |-> kind, id |-> call[a], run |-> run]),
           pc[a] \in {"called", "prompt"},
           kind = "grant" => call[a] \in granted, kind = "standing" => call[a] \in standing,
           UNCHANGED <<route, granted, standing, stop, q, pending, expired, used, answer, shown,
                       restarts>>
    PROVE  IInv'
<1> DEFINE what == [on |-> kind, id |-> call[a], run |-> run]
<1>0. TypeOK /\ AgentsOK /\ GrantsOK /\ BasisOK
  BY DEF IInv
<1>1. call[a] \in Subjects /\ what \in Bases
  <2>1. call[a] \in Subjects
    BY <1>0 DEF AgentsOK
  <2>2. run \in Nat
    BY <1>0 DEF TypeOK
  <2> QED BY <2>1, <2>2 DEF Bases
<1>2. LetsThrough(a, what)
  OBVIOUS
<1>3. what.on = kind /\ what.id = call[a] /\ what.run = run
  OBVIOUS
<1> HIDE DEF what
<1>4. /\ pc' \in [Agents -> Pcs] /\ pc'[a] = "running"
      /\ on' \in [Agents -> 0..MaxQuestions] /\ on'[a] = 0
      /\ \A b \in Agents : b # a => pc'[b] = pc[b] /\ on'[b] = on[b] /\ basis'[b] = basis[b]
      /\ basis' \in [Agents -> Bases] /\ basis'[a] = what
      /\ total' \in Nat /\ streak' \in 0..total' /\ escalated' \in BOOLEAN
      /\ UNCHANGED <<call, run, total, escalated, word>>
  BY <1>1, <1>2, Through
<1>5. (pc'[a] \in Waits) = (pc[a] \in Waits) /\ on'[a] = on[a]
  <2>1. pc[a] \notin Waits /\ pc'[a] \notin Waits
    BY <1>4 DEF Waits
  <2>2. (on[a] # 0) = (pc[a] \in Waits)
    BY <1>0 DEF AgentsOK
  <2> QED BY <1>4, <2>1, <2>2
<1>6. BasisOK'
  <2>1. /\ kind = "grant" => Always(call[a], run)
        /\ kind = "standing" => Remember(call[a])
    BY <1>0 DEF GrantsOK
  <2>2. /\ \A s, r : Always(s, r) => Always(s, r)'
        /\ \A s : Remember(s) => Remember(s)'
    BY <1>4, Settled
  <2>3. ASSUME NEW b \in Agents
        PROVE  /\ basis'[b].on = "question" =>
                    basis'[b].id \in DOMAIN q' \ pending' /\ word'[basis'[b].id] \in Yes
               /\ basis'[b].on = "grant" => Always(basis[b].id, basis[b].run)'
               /\ basis'[b].on = "standing" => Remember(basis[b].id)'
    <3>1. CASE b = a
      <4>1. basis'[b] = what
        BY <3>1, <1>4
      <4>2. /\ kind = "grant" => Always(what.id, what.run)
            /\ kind = "standing" => Remember(what.id)
        BY <2>1, <1>3
      <4> QED BY <4>1, <4>2, <1>3, <1>4 DEF Always, Remember
    <3>2. CASE b # a
      <4>1. basis'[b] = basis[b]
        BY <3>2, <1>4
      <4>2. /\ basis[b].on = "grant" => Always(basis[b].id, basis[b].run)
            /\ basis[b].on = "standing" => Remember(basis[b].id)
            /\ basis[b].on = "question" => basis[b].id \in DOMAIN q \ pending /\ word[basis[b].id] \in Yes
        BY <1>0 DEF BasisOK
      <4> QED BY <4>1, <4>2, <1>4 DEF Always, Remember
    <3> QED BY <3>1, <3>2
  <2> QED BY <2>3, <1>4 DEF BasisOK, Always, Remember
<1>7. /\ call' \in [Agents -> Subjects \cup {NoCall}] /\ run' \in 0..MaxRuns
      /\ stop' \in {"off", "here", "elsewhere"} /\ shown' \subseteq DOMAIN q
  BY <1>0, <1>4 DEF TypeOK
<1>8. call'[a] \in Subjects
  BY <1>1, <1>4
<1> QED BY <1>4, <1>5, <1>6, <1>7, <1>8, Goes

\* A call goes ahead on a grant of its run.
LEMMA StepOnGrant == ASSUME IInv, NEW a \in Agents, OnGrant(a) PROVE IInv'
<1>1. /\ LetsThrough(a, [on |-> "grant", id |-> call[a], run |-> run])
      /\ pc[a] = "called" /\ call[a] \in granted
      /\ UNCHANGED <<route, granted, standing, stop, q, pending, expired, used, answer, shown,
                     restarts>>
  BY DEF OnGrant, approvals
<1> QED BY <1>1, Ahead

\* A call goes ahead on a standing grant.
LEMMA StepOnStanding == ASSUME IInv, NEW a \in Agents, OnStanding(a) PROVE IInv'
<1>1. /\ LetsThrough(a, [on |-> "standing", id |-> call[a], run |-> run])
      /\ pc[a] = "called" /\ call[a] \in standing
      /\ UNCHANGED <<route, granted, standing, stop, q, pending, expired, used, answer, shown,
                     restarts>>
  BY DEF OnStanding, approvals
<1> QED BY <1>1, Ahead

\* A refusal is counted.
LEMMA Counted ==
    ASSUME TypeOK, Denies
    PROVE  /\ total' \in Nat /\ streak' \in 0..total' /\ escalated' \in BOOLEAN
           /\ UNCHANGED <<run, granted>>
<1>1. total' \in Nat /\ streak' \in 0..total'
  BY DEF TypeOK, Denies
<1>2. escalated' \in BOOLEAN
  BY DEF Denies
<1> QED BY <1>1, <1>2 DEF Denies

\* A call that nobody was asked about, or that was refused at the terminal, is over.
LEMMA Refused ==
    ASSUME IInv, NEW a \in Agents, pc[a] \in {"called", "prompt", "running"}, Leaves(a, "ready"),
           total' \in Nat, streak' \in 0..total', escalated' \in BOOLEAN,
           UNCHANGED <<route, run, granted, standing, stop, q, pending, expired, used, answer, shown,
                       restarts, word>>,
           BasisOK'
    PROVE  IInv'
<1>0. TypeOK /\ AgentsOK
  BY DEF IInv
<1>1. /\ pc' \in [Agents -> Pcs] /\ pc'[a] = "ready"
      /\ call' \in [Agents -> Subjects \cup {NoCall}]
      /\ on' \in [Agents -> 0..MaxQuestions] /\ on'[a] = 0
      /\ \A b \in Agents : b # a => pc'[b] = pc[b] /\ call'[b] = call[b] /\ on'[b] = on[b]
  BY <1>0, LeavesMoves
<1>2. (pc'[a] \in Waits) = (pc[a] \in Waits) /\ on'[a] = on[a]
  <2>1. pc[a] \notin Waits /\ pc'[a] \notin Waits
    BY <1>1 DEF Waits
  <2>2. (on[a] # 0) = (pc[a] \in Waits)
    BY <1>0 DEF AgentsOK
  <2> QED BY <1>1, <2>1, <2>2
<1>3. /\ run' \in 0..MaxRuns /\ stop' \in {"off", "here", "elsewhere"} /\ shown' \subseteq DOMAIN q
  BY <1>0 DEF TypeOK
<1> QED BY <1>1, <1>2, <1>3, Goes

\* An agent goes from one place to another, with the call and the question it has.
LEMMA Moves ==
    ASSUME IInv, NEW a \in Agents, NEW p \in Pcs, Goto(a, p),
           pc[a] \notin {"out", "ready"}, (p \in Waits) = (pc[a] \in Waits),
           UNCHANGED <<route, call, on, run, granted, streak, total, escalated, standing, stop, q,
                       pending, expired, used, answer, shown, restarts, word, basis>>
    PROVE  IInv'
<1>0. TypeOK /\ AgentsOK /\ BasisOK
  BY DEF IInv
<1>1. /\ pc' \in [Agents -> Pcs] /\ pc'[a] = p
      /\ \A b \in Agents : b # a => pc'[b] = pc[b]
  BY <1>0, GotoMoves
<1>2. call'[a] \in Subjects
  BY <1>0 DEF AgentsOK
<1>3. BasisOK'
  BY <1>0 DEF BasisOK, Always, Remember
<1>4. /\ call' \in [Agents -> Subjects \cup {NoCall}] /\ on' \in [Agents -> 0..MaxQuestions]
      /\ run' \in 0..MaxRuns /\ total' \in Nat /\ streak' \in 0..total' /\ escalated' \in BOOLEAN
      /\ stop' \in {"off", "here", "elsewhere"} /\ shown' \subseteq DOMAIN q
  BY <1>0 DEF TypeOK
<1> QED BY <1>1, <1>2, <1>3, <1>4, Goes

\* Somebody is asked, or the call is refused.
LEMMA StepAsks == ASSUME IInv, NEW a \in Agents, Asks(a) PROVE IInv'
<1>0. TypeOK /\ BasisOK
  BY DEF IInv
<1>1. /\ UNCHANGED <<route, standing, stop, q, pending, expired, used, answer, shown, restarts, word,
                     basis>>
      /\ pc[a] = "called"
  BY DEF Asks, approvals, history
<1>2. CASE Leaves(a, "ready") /\ UNCHANGED runState
  <2>1. /\ UNCHANGED <<run, granted, streak, total, escalated>>
        /\ total' \in Nat /\ streak' \in 0..total' /\ escalated' \in BOOLEAN
    BY <1>0, <1>2 DEF runState, TypeOK
  <2>2. BasisOK'
    BY <1>0, <1>1 DEF BasisOK, Always, Remember
  <2> QED BY <1>1, <1>2, <2>1, <2>2, Refused
<1>3. CASE Leaves(a, "ready") /\ Denies
  <2>1. BasisOK'
    BY <1>0, <1>1 DEF BasisOK, Always, Remember
  <2> QED BY <1>0, <1>1, <1>3, <2>1, Counted, Refused
<1>4. CASE (Goto(a, "prompt") \/ Goto(a, "asking")) /\ UNCHANGED <<call, on, runState>>
  <2>1. PICK p \in {"prompt", "asking"} : Goto(a, p)
    BY <1>4
  <2>2. p \in Pcs /\ (p \in Waits) = (pc[a] \in Waits)
    BY <1>1 DEF Pcs, Waits
  <2>3. UNCHANGED <<call, on, run, granted, streak, total, escalated>>
    BY <1>4 DEF runState
  <2> QED BY <1>1, <2>1, <2>2, <2>3, Moves
<1> QED BY <1>2, <1>3, <1>4 DEF Asks

\* A line is read at the terminal.
LEMMA StepTerminalAnswers == ASSUME IInv, NEW a \in Agents, TerminalAnswers(a) PROVE IInv'
<1>0. TypeOK /\ BasisOK
  BY DEF IInv
<1>1. /\ UNCHANGED <<route, standing, stop, q, pending, expired, used, answer, shown, restarts>>
      /\ pc[a] = "prompt"
  BY DEF TerminalAnswers, approvals
<1>2. CASE LetsThrough(a, [on |-> "terminal", id |-> call[a], run |-> run]) /\ UNCHANGED granted
  BY <1>1, <1>2, Ahead
<1>3. CASE Denies /\ Leaves(a, "ready") /\ UNCHANGED history
  <2>1. UNCHANGED <<word, basis>>
    BY <1>3 DEF history
  <2>2. BasisOK'
    BY <1>0, <1>1, <2>1 DEF BasisOK, Always, Remember
  <2> QED BY <1>0, <1>1, <1>3, <2>1, <2>2, Counted, Refused
<1> QED BY <1>2, <1>3 DEF TerminalAnswers

\* A message reaches its chat.
LEMMA StepDelivered == ASSUME IInv, NEW a \in Agents, Delivered(a) PROVE IInv'
<1>0. TypeOK /\ AgentsOK
  BY DEF IInv
<1>1. /\ UNCHANGED <<route, pc, call, on, run, granted, streak, total, escalated, standing, stop, q,
                     pending, expired, used, answer, restarts, word, basis>>
      /\ pc[a] = "sending" /\ shown' = shown \cup {on[a]}
  BY DEF Delivered, approvals, history, runState
<1>2. on[a] \in DOMAIN q
  BY <1>0, <1>1 DEF AgentsOK, Waits
<1>3. TypeOK'
  BY <1>0, <1>1, <1>2 DEF TypeOK
<1>4. /\ AgentsOK' /\ PendingIsAwaited' /\ CodesOK' /\ AnswersOK'
  BY <1>1 DEF IInv, AgentsOK, PendingIsAwaited, CodesOK, AnswersOK, Remembered, Code
<1>5. GrantsOK' /\ BasisOK'
  BY <1>1 DEF IInv, GrantsOK, BasisOK, Always, Remember
<1> QED BY <1>3, <1>4, <1>5 DEF IInv

\* The message is sent.
LEMMA StepSent == ASSUME IInv, NEW a \in Agents, Sent(a) PROVE IInv'
<1>1. /\ UNCHANGED <<route, call, on, run, granted, streak, total, escalated, standing, stop, q,
                     pending, expired, used, answer, shown, restarts, word, basis>>
      /\ pc[a] = "sending" /\ Goto(a, "waiting")
  BY DEF Sent, approvals, history, runState
<1>2. "waiting" \in Pcs /\ ("waiting" \in Waits) = (pc[a] \in Waits) /\ pc[a] \notin {"out", "ready"}
  BY <1>1 DEF Pcs, Waits
<1> QED BY <1>1, <1>2, Moves

\* The timer fires.
LEMMA StepTimesOut == ASSUME IInv, NEW a \in Agents, TimesOut(a) PROVE IInv'
<1>1. /\ UNCHANGED <<route, call, on, run, granted, streak, total, escalated, standing, stop, q,
                     pending, expired, used, answer, shown, restarts, word, basis>>
      /\ pc[a] = "waiting" /\ Goto(a, "late")
  BY DEF TimesOut, approvals, history, runState
<1>2. "late" \in Pcs /\ ("late" \in Waits) = (pc[a] \in Waits) /\ pc[a] \notin {"out", "ready"}
  BY <1>1 DEF Pcs, Waits
<1> QED BY <1>1, <1>2, Moves

\* A call that went ahead is over, or never was: there is nothing it goes ahead on.
LEMMA BasisOver ==
    ASSUME IInv, NEW a \in Agents, basis' = [basis EXCEPT ![a] = Nothing],
           \A i \in DOMAIN q \ pending :
              i \in DOMAIN q' \ pending' /\ q'[i] = q[i] /\ word'[i] = word[i]
    PROVE  BasisOK'
<1>1. Nothing \in Bases /\ Nothing.on = "nothing"
  BY DEF Nothing, Bases
<1>2. BasisOK /\ basis \in [Agents -> Bases]
  BY DEF IInv, BasisOK
<1>3. /\ basis' \in [Agents -> Bases] /\ basis'[a] = Nothing
      /\ \A b \in Agents : b # a => basis'[b] = basis[b]
  BY <1>1, <1>2
<1>4. \A b \in Agents : basis'[b] = basis[b] \/ basis'[b].on \in {"nothing", "terminal"}
  BY <1>1, <1>3
<1> QED BY <1>2, <1>3, <1>4, BasisStays

\* The tool is done.
LEMMA StepToolEnds == ASSUME IInv, NEW a \in Agents, ToolEnds(a) PROVE IInv'
<1>1. /\ UNCHANGED <<route, run, granted, streak, total, escalated, standing, stop, q, pending,
                     expired, used, answer, shown, restarts, word>>
      /\ pc[a] = "running" /\ Leaves(a, "ready") /\ basis' = [basis EXCEPT ![a] = Nothing]
  BY DEF ToolEnds, approvals, runState
<1>2. BasisOK'
  BY <1>1, BasisOver
<1>3. total' \in Nat /\ streak' \in 0..total' /\ escalated' \in BOOLEAN
  BY <1>1 DEF IInv, TypeOK
<1> QED BY <1>1, <1>2, <1>3, Refused

-----------------------------------------------------------------------------
(* The steps that end a wait *)

\* An agent waits no more: its question is withdrawn.
LEMMA WaitEnds ==
    ASSUME IInv, NEW a \in Agents, on[a] # 0, Withdraws(on[a]), pending' = pending \ {on[a]},
           UNCHANGED <<route, q, used, word, stop, shown, restarts>>,
           pc' \in [Agents -> Pcs], call' \in [Agents -> Subjects \cup {NoCall}],
           on' \in [Agents -> 0..MaxQuestions],
           \A b \in Agents : b # a => pc'[b] = pc[b] /\ call'[b] = call[b] /\ on'[b] = on[b],
           pc'[a] \notin {"out", "ready"} => call'[a] \in Subjects,
           on'[a] = 0, pc'[a] \notin Waits,
           run' = run, total' \in Nat, streak' \in 0..total', escalated' \in BOOLEAN,
           granted' \subseteq ForRun, standing' \subseteq Keep, GrantsOK', BasisOK'
    PROVE  IInv'
<1>0. TypeOK /\ AgentsOK /\ PendingIsAwaited
  BY DEF IInv
<1>1. on[a] \in DOMAIN q
  BY <1>0 DEF AgentsOK
<1>2. /\ CodesOK' /\ AnswersOK'
      /\ pending' \subseteq DOMAIN q /\ expired' \in Seq(DOMAIN q)
      /\ answer' \in [Questions -> Said]
  BY <1>1, Withdrawn
<1>3. TypeOK'
  BY <1>0, <1>2 DEF TypeOK, Pcs, Said
<1>4. AgentsOK' /\ PendingIsAwaited'
  <2>1. (on'[a] # 0) = (pc'[a] \in Waits)
    OBVIOUS
  <2> QED BY <1>0, <2>1, AgentMoves
<1> QED BY <1>2, <1>3, <1>4 DEF IInv

\* Questions that are withdrawn take no settled word with them.
LEMMA WordsStay ==
    ASSUME IInv, UNCHANGED <<q, word>>, pending' \subseteq pending,
           granted' = granted, standing' = standing, run' = run
    PROVE  /\ \A i \in DOMAIN q \ pending :
                 i \in DOMAIN q' \ pending' /\ q'[i] = q[i] /\ word'[i] = word[i]
           /\ GrantsOK'
           /\ UNCHANGED basis => BasisOK'
           /\ granted' \subseteq ForRun /\ standing' \subseteq Keep
<1>1. \A i \in DOMAIN q \ pending :
         i \in DOMAIN q' \ pending' /\ q'[i] = q[i] /\ word'[i] = word[i]
  OBVIOUS
<1>2. GrantsOK'
  <2>1. /\ \A s, r : Always(s, r) => Always(s, r)'
        /\ \A s : Remember(s) => Remember(s)'
    BY <1>1, Settled
  <2>2. /\ \A s \in granted : Always(s, run)
        /\ \A s \in standing : Remember(s)
    BY DEF IInv, GrantsOK
  <2>3. \A s \in granted' : Always(s, run)'
    BY <2>1, <2>2 DEF Always
  <2> QED BY <2>1, <2>2, <2>3 DEF GrantsOK
<1>3. ASSUME UNCHANGED basis PROVE BasisOK'
  <2>1. BasisOK /\ basis' \in [Agents -> Bases]
    BY <1>3 DEF IInv, BasisOK
  <2> QED BY <1>1, <1>3, <2>1, BasisStays
<1> QED BY <1>1, <1>2, <1>3 DEF IInv, TypeOK

\* Refused, by the owner or because nobody could be asked or answered.
LEMMA WaitRefused ==
    ASSUME IInv, NEW a \in Agents, pc[a] \in Waits, Withdraws(on[a]), Denies,
           pending' = pending \ {on[a]}, Leaves(a, "ready"),
           UNCHANGED <<route, standing, stop, q, used, shown, restarts, word, basis>>
    PROVE  IInv'
<1>0. TypeOK /\ AgentsOK
  BY DEF IInv
<1>1. on[a] # 0
  BY <1>0 DEF AgentsOK
<1>2. /\ pc' \in [Agents -> Pcs] /\ pc'[a] = "ready"
      /\ call' \in [Agents -> Subjects \cup {NoCall}]
      /\ on' \in [Agents -> 0..MaxQuestions] /\ on'[a] = 0
      /\ \A b \in Agents : b # a => pc'[b] = pc[b] /\ call'[b] = call[b] /\ on'[b] = on[b]
  BY <1>0, LeavesMoves
<1>3. /\ total' \in Nat /\ streak' \in 0..total' /\ escalated' \in BOOLEAN
      /\ UNCHANGED <<run, granted>>
  BY <1>0, Counted
<1>4. pending' \subseteq pending
  OBVIOUS
<1>5. GrantsOK' /\ BasisOK' /\ granted' \subseteq ForRun /\ standing' \subseteq Keep
  BY <1>3, <1>4, WordsStay
<1>6. pc'[a] \notin Waits
  BY <1>2 DEF Waits
<1> QED BY <1>1, <1>2, <1>3, <1>5, <1>6, WaitEnds

\* The question that timed out is withdrawn.
LEMMA StepTimedOut == ASSUME IInv, NEW a \in Agents, TimedOut(a) PROVE IInv'
<1>1. /\ Withdraws(on[a]) /\ Denies /\ pending' = pending \ {on[a]} /\ Leaves(a, "ready")
      /\ pc[a] \in Waits
      /\ UNCHANGED <<route, standing, stop, q, used, shown, restarts, word, basis>>
  BY DEF TimedOut, history, Waits
<1> QED BY <1>1, WaitRefused

\* What an agent waits for is dropped.
LEMMA StepHalts == ASSUME IInv, NEW a \in Agents, Halts(a) PROVE IInv'
<1>0. TypeOK /\ AgentsOK
  BY DEF IInv
<1>1. /\ IF on[a] = 0 THEN UNCHANGED <<expired, answer>> ELSE Withdraws(on[a])
      /\ pending' = pending \ {on[a]} /\ Leaves(a, "out")
      /\ basis' = [basis EXCEPT ![a] = Nothing]
      /\ UNCHANGED <<route, run, granted, streak, total, escalated, standing, stop, q, used, shown,
                     restarts, word>>
  BY DEF Halts, runState
<1>2. /\ pc' \in [Agents -> Pcs] /\ pc'[a] = "out"
      /\ call' \in [Agents -> Subjects \cup {NoCall}]
      /\ on' \in [Agents -> 0..MaxQuestions] /\ on'[a] = 0
      /\ \A b \in Agents : b # a => pc'[b] = pc[b] /\ call'[b] = call[b] /\ on'[b] = on[b]
  BY <1>0, <1>1, LeavesMoves
<1>3. pending' \subseteq pending
  BY <1>1
<1>4. /\ GrantsOK' /\ granted' \subseteq ForRun /\ standing' \subseteq Keep
      /\ \A i \in DOMAIN q \ pending :
             i \in DOMAIN q' \ pending' /\ q'[i] = q[i] /\ word'[i] = word[i]
  BY <1>1, <1>3, WordsStay
<1>5. BasisOK'
  BY <1>1, <1>4, BasisOver
<1>6. /\ total' \in Nat /\ streak' \in 0..total' /\ escalated' \in BOOLEAN /\ run' \in 0..MaxRuns
      /\ stop' \in {"off", "here", "elsewhere"} /\ shown' \subseteq DOMAIN q
  BY <1>0, <1>1 DEF TypeOK
<1>7. pc'[a] \notin Waits
  BY <1>2 DEF Waits
<1>8. CASE on[a] = 0
  <2>1. (on[a] # 0) = (pc[a] \in Waits)
    BY <1>0 DEF AgentsOK
  <2>2. on'[a] = on[a] /\ (pc'[a] \in Waits) = (pc[a] \in Waits)
    BY <1>2, <1>7, <1>8, <2>1
  <2>3. UNCHANGED <<pending, expired, answer>>
    <3>1. 0 \notin pending
      BY <1>0, Numbers DEF TypeOK
    <3> QED BY <1>1, <1>8, <3>1
  <2> QED BY <1>1, <1>2, <1>5, <1>6, <2>2, <2>3, Goes
<1>9. CASE on[a] # 0
  BY <1>1, <1>2, <1>4, <1>5, <1>6, <1>7, <1>9, WaitEnds
<1> QED BY <1>8, <1>9

\* The answer is taken.
LEMMA StepTakesAnswer == ASSUME IInv, NEW a \in Agents, TakesAnswer(a) PROVE IInv'
<1> DEFINE i == on[a] w == answer[i]
<1>0. TypeOK /\ AgentsOK /\ AnswersOK /\ BasisOK
  BY DEF IInv
<1>1. /\ pc[a] = "waiting" /\ w # "none" /\ Withdraws(i) /\ pending' = pending \ {i}
      /\ \/ /\ w \in Yes
            /\ LetsThrough(a, [on |-> "question", id |-> i, run |-> run])
            /\ granted' = IF w = "always" /\ q[i].run = run THEN granted \cup {q[i].subject}
                          ELSE granted
            /\ standing' = IF w = "remember" THEN standing \cup {q[i].subject} ELSE standing
         \/ /\ w = "no"
            /\ Denies /\ Leaves(a, "ready")
            /\ UNCHANGED <<standing, word, basis>>
      /\ UNCHANGED <<route, stop, q, used, shown, restarts>>
  BY DEF TakesAnswer, history
<1>2. pc[a] \in Waits /\ i # 0 /\ i \in DOMAIN q /\ i \in Questions /\ i \in Nat
  <2>1. pc[a] \in Waits
    BY <1>1 DEF Waits
  <2>2. i # 0 /\ i \in DOMAIN q
    BY <1>0, <2>1 DEF AgentsOK
  <2> QED BY <1>0, <2>1, <2>2, Numbers
<1>3. /\ i \in DOMAIN q \ pending /\ Covers(word[i], w)
      /\ w = "always" => q[i].subject \in ForRun
      /\ w = "remember" => q[i].subject \in Keep
  BY <1>0, <1>1, <1>2 DEF AnswersOK
<1> DEFINE what == [on |-> "question", id |-> i, run |-> run]
<1>4. what \in Bases /\ what.on = "question" /\ what.id = i
  <2>1. run \in Nat
    BY <1>0 DEF TypeOK
  <2> QED BY <1>2, <2>1 DEF Bases
<1>5. ASSUME w \in Yes, LetsThrough(a, what),
             granted' = IF w = "always" /\ q[i].run = run THEN granted \cup {q[i].subject}
                        ELSE granted,
             standing' = IF w = "remember" THEN standing \cup {q[i].subject} ELSE standing
      PROVE  IInv'
  <2> HIDE DEF what, i, w
  <2>1. /\ pc' \in [Agents -> Pcs] /\ pc'[a] = "running"
        /\ on' \in [Agents -> 0..MaxQuestions] /\ on'[a] = 0
        /\ \A b \in Agents : b # a => pc'[b] = pc[b] /\ on'[b] = on[b] /\ basis'[b] = basis[b]
        /\ basis' \in [Agents -> Bases] /\ basis'[a] = what
        /\ total' \in Nat /\ streak' \in 0..total' /\ escalated' \in BOOLEAN
        /\ UNCHANGED <<call, run, total, escalated, word>>
    BY <1>4, <1>5, Through
  <2>2. \A j \in DOMAIN q \ pending :
           j \in DOMAIN q' \ pending' /\ q'[j] = q[j] /\ word'[j] = word[j]
    BY <1>1, <2>1
  <2>3. /\ \A s, r : Always(s, r) => Always(s, r)'
        /\ \A s : Remember(s) => Remember(s)'
    BY <2>2, Settled
  <2>4. GrantsOK' /\ granted' \subseteq ForRun /\ standing' \subseteq Keep
    <3>1. /\ \A s \in granted : Always(s, run)
          /\ \A s \in standing : Remember(s)
      BY DEF IInv, GrantsOK
    <3>2. \A s \in granted' : Always(s, run)
      <4>1. w = "always" /\ q[i].run = run => Always(q[i].subject, run)
        BY <1>3 DEF Always, Covers
      <4> QED BY <1>5, <3>1, <4>1
    <3>3. \A s \in standing' : Remember(s)
      <4>1. w = "remember" => Remember(q[i].subject)
        BY <1>3 DEF Remember, Covers
      <4> QED BY <1>5, <3>1, <4>1
    <3>4. \A s \in granted' : Always(s, run)'
      BY <2>1, <2>3, <3>2 DEF Always
    <3>5. GrantsOK'
      BY <2>3, <3>3, <3>4 DEF GrantsOK
    <3> QED BY <1>0, <1>3, <1>5, <3>5 DEF TypeOK
  <2>5. BasisOK'
    <3>1. ASSUME NEW b \in Agents
          PROVE  /\ basis'[b].on = "question" =>
                      basis'[b].id \in DOMAIN q' \ pending' /\ word'[basis'[b].id] \in Yes
                 /\ basis'[b].on = "grant" => Always(basis[b].id, basis[b].run)'
                 /\ basis'[b].on = "standing" => Remember(basis[b].id)'
      <4>1. CASE b = a
        <5>1. basis'[b] = what /\ word[i] \in Yes /\ i \in DOMAIN q' \ pending' /\ word'[i] = word[i]
          BY <4>1, <2>1, <2>2, <1>3, <1>5 DEF Covers
        <5> QED BY <5>1, <1>4
      <4>2. CASE b # a
        <5>1. basis'[b] = basis[b]
          BY <4>2, <2>1
        <5>2. /\ basis[b].on = "grant" => Always(basis[b].id, basis[b].run)
              /\ basis[b].on = "standing" => Remember(basis[b].id)
              /\ basis[b].on = "question" => basis[b].id \in DOMAIN q \ pending /\ word[basis[b].id] \in Yes
          BY <1>0 DEF BasisOK
        <5>3. basis[b].on = "question" => basis[b].id \in DOMAIN q' \ pending' /\ word'[basis[b].id] \in Yes
          BY <5>2, <2>2
        <5>4. /\ basis[b].on = "grant" => Always(basis[b].id, basis[b].run)'
              /\ basis[b].on = "standing" => Remember(basis[b].id)'
          BY <5>1, <5>2, <2>3 DEF Always, Remember
        <5> QED BY <5>1, <5>3, <5>4
      <4> QED BY <4>1, <4>2
    <3> QED BY <3>1, <2>1 DEF BasisOK, Always, Remember
  <2>6. pc'[a] \notin Waits /\ call'[a] \in Subjects /\ call' \in [Agents -> Subjects \cup {NoCall}]
    <3>1. pc'[a] \notin Waits
      BY <2>1 DEF Waits
    <3>2. call[a] \in Subjects
      BY <1>0, <1>1 DEF AgentsOK
    <3>3. call' \in [Agents -> Subjects \cup {NoCall}]
      BY <1>0, <2>1 DEF TypeOK
    <3> QED BY <3>1, <3>2, <3>3, <2>1
  <2>7. on[a] # 0 /\ Withdraws(on[a]) /\ pending' = pending \ {on[a]}
    BY <1>1, <1>2 DEF i
  <2> QED BY <1>1, <2>1, <2>4, <2>5, <2>6, <2>7, WaitEnds
<1>6. ASSUME w = "no", Denies, Leaves(a, "ready"), UNCHANGED <<standing, word, basis>>
      PROVE  IInv'
  BY <1>1, <1>2, <1>6, WaitRefused
<1> QED BY <1>1, <1>5, <1>6

-----------------------------------------------------------------------------
(* The steps that open a question *)

\* A new question, in the place of the one its agent had, if any: no remembered
\* question has its code.
LEMMA Opened ==
    ASSUME IInv, NEW a \in Agents, NEW chat \in Chats, OpensQuestion(a, chat),
           pc[a] \in {"asking", "sending"}, pending' = (pending \ {on[a]}) \cup {Len(q')},
           expired' \in Seq(DOMAIN q),
           ToSet(expired') \subseteq ToSet(expired) \cup pending,
           answer' \in [Questions -> Said],
           \A j \in Questions : answer'[j] \in {answer[j], "none"},
           UNCHANGED <<route, call, run, granted, streak, total, escalated, standing, stop, shown,
                       restarts, word, basis>>
    PROVE  IInv'
<1>0. TypeOK /\ AgentsOK /\ PendingIsAwaited /\ CodesOK /\ AnswersOK /\ GrantsOK /\ BasisOK
  BY DEF IInv
<1> DEFINE n == Len(q) + 1 old == DOMAIN q
           kept == pending \cup ToSet(expired) \cup ToSet(used')
<1>1. PICK c \in Codes :
         /\ c \notin {Code(i) : i \in kept}
         /\ q' = Append(q, [agent |-> a, subject |-> call[a], chat |-> chat, code |-> c,
                            run |-> IF on[a] = 0 THEN run ELSE q[on[a]].run])
  BY DEF OpensQuestion
<1>2. /\ Len(q) < MaxQuestions /\ used' \in Aged(used) /\ Goto(a, "sending")
      /\ on' = [on EXCEPT ![a] = Len(q')]
  BY DEF OpensQuestion
<1> DEFINE x == [agent |-> a, subject |-> call[a], chat |-> chat, code |-> c,
                 run |-> IF on[a] = 0 THEN run ELSE q[on[a]].run]
<1>3. x \in Asked /\ x.agent = a /\ x.code = c
  <2>1. call[a] \in Subjects
    BY <1>0 DEF AgentsOK
  <2>2. run \in 0..MaxRuns /\ (on[a] # 0 => on[a] \in DOMAIN q)
    BY <1>0 DEF AgentsOK, TypeOK
  <2>3. on[a] # 0 => q[on[a]].run \in 0..MaxRuns
    BY <1>0, <2>2, Numbers DEF Asked
  <2> QED BY <2>1, <2>2, <2>3 DEF Asked
<1>4. q' = Append(q, x)
  BY <1>1
<1> HIDE DEF x
<1>5. /\ q \in Seq(Asked) /\ old = 1..Len(q) /\ Len(q) \in Nat /\ n \in Questions /\ n \notin old
      /\ n # 0 /\ n \in Nat
  BY <1>0, <1>2, Numbers DEF Questions
<1>6. /\ q' \in Seq(Asked) /\ Len(q') = n /\ DOMAIN q' = old \cup {n}
      /\ q'[n] = x /\ \A j \in old : q'[j] = q[j]
  BY <1>3, <1>4, <1>5
<1>7. /\ pending \subseteq old /\ expired \in Seq(old) /\ used \in Seq(old) /\ shown \subseteq old
  BY <1>0 DEF TypeOK
<1>8. used' \in Seq(old) /\ ToSet(used') \subseteq ToSet(used)
  BY <1>2, <1>7, AgedPart
<1>9. n \in 0..MaxQuestions
  BY <1>5 DEF Questions
<1> DEFINE nowPending == (pending \ {on[a]}) \cup {n}
<1>10. pending' = nowPending /\ on' = [on EXCEPT ![a] = n]
  BY <1>2, <1>6
<1>11. /\ on' \in [Agents -> 0..MaxQuestions] /\ on'[a] = n
       /\ \A b \in Agents : b # a => on'[b] = on[b]
  BY <1>0, <1>9, <1>10 DEF TypeOK
<1>12. /\ pc' \in [Agents -> Pcs] /\ pc'[a] = "sending"
       /\ \A b \in Agents : b # a => pc'[b] = pc[b]
  BY <1>0, <1>2, GotoMoves DEF Pcs
<1>13. /\ ToSet(expired) \subseteq old /\ ToSet(used) \subseteq old
  BY <1>7 DEF ToSet
<1> HIDE DEF n, old
<1>14. TypeOK'
  <2>1. DOMAIN q' = old \cup {n} /\ old \subseteq DOMAIN q'
    BY <1>6
  <2>2. expired' \in Seq(DOMAIN q') /\ used' \in Seq(DOMAIN q')
    <3>1. expired' \in Seq(old)
      BY DEF old
    <3> QED BY <2>1, <3>1, <1>8
  <2>3. pending' \subseteq DOMAIN q' /\ shown' \subseteq DOMAIN q'
    BY <1>7, <1>10, <2>1
  <2>4. Len(q') <= MaxQuestions
    BY <1>6, <1>9 DEF Questions
  <2>5. /\ route' \in Routes /\ call' \in [Agents -> Subjects \cup {NoCall}]
        /\ run' \in 0..MaxRuns /\ granted' \subseteq ForRun /\ streak' \in 0..total'
        /\ total' \in Nat /\ escalated' \in BOOLEAN /\ standing' \subseteq Keep
        /\ stop' \in {"off", "here", "elsewhere"} /\ restarts' \in 0..MaxRestarts
        /\ word' \in [Questions -> Said]
    BY <1>0 DEF TypeOK, Said
  <2> QED BY <1>6, <1>11, <1>12, <2>2, <2>3, <2>4, <2>5 DEF TypeOK, Pcs, Said, Asked
<1>15. AgentsOK'
  <2> SUFFICES ASSUME NEW b \in Agents
               PROVE  /\ pc'[b] \notin {"out", "ready"} => call'[b] \in Subjects
                      /\ (on'[b] # 0) = (pc'[b] \in Waits)
                      /\ on'[b] # 0 => on'[b] \in DOMAIN q' /\ q'[on'[b]].agent = b
    BY DEF AgentsOK
  <2>1. CASE b = a
    <3>1. call'[a] \in Subjects
      BY <1>0 DEF AgentsOK
    <3>2. "sending" \in Waits
      BY DEF Waits
    <3> QED BY <2>1, <3>1, <3>2, <1>3, <1>5, <1>6, <1>11, <1>12
  <2>2. CASE b # a
    <3>1. /\ pc[b] \notin {"out", "ready"} => call[b] \in Subjects
          /\ (on[b] # 0) = (pc[b] \in Waits)
          /\ on[b] # 0 => on[b] \in old /\ q[on[b]].agent = b
      BY <1>0 DEF AgentsOK, old
    <3>2. on[b] # 0 => on[b] \in DOMAIN q' /\ q'[on[b]].agent = b
      BY <3>1, <1>6
    <3> QED BY <2>2, <3>1, <3>2, <1>11, <1>12
  <2> QED BY <2>1, <2>2
<1>16. PendingIsAwaited'
  <2> SUFFICES ASSUME NEW j \in nowPending
               PROVE  pc'[q'[j].agent] \in Waits /\ on'[q'[j].agent] = j
    BY <1>10 DEF PendingIsAwaited, Waits
  <2>1. CASE j = n
    BY <2>1, <1>3, <1>6, <1>11, <1>12 DEF Waits
  <2>2. CASE j \in pending /\ j # on[a]
    <3>1. pc[q[j].agent] \in Waits /\ on[q[j].agent] = j /\ j \in old
      BY <2>2, <1>0, <1>7 DEF PendingIsAwaited, Waits
    <3>2. q[j].agent \in Agents
      BY <1>0, <3>1, Numbers DEF Asked, old
    <3>3. q[j].agent # a /\ q'[j] = q[j]
      BY <2>2, <3>1, <1>6
    <3> QED BY <3>1, <3>2, <3>3, <1>11, <1>12
  <2> QED BY <2>1, <2>2
<1>17. CodesOK'
  <2>1. Remembered' \subseteq kept \cup {n}
    BY <1>10 DEF Remembered
  <2>2. kept \subseteq Remembered /\ kept \subseteq old
    BY <1>7, <1>8, <1>13 DEF Remembered
  <2>3. \A j \in kept : q'[j] = q[j] /\ q[j].code # c
    BY <1>1, <1>6, <2>2 DEF Code
  <2>4. \A j, k \in kept : q[j].code = q[k].code => j = k
    BY <1>0, <2>2 DEF CodesOK, Code
  <2>5. q'[n].code = c
    BY <1>3, <1>6
  <2>6. \A j, k \in kept \cup {n} : q'[j].code = q'[k].code => j = k
    BY <2>3, <2>4, <2>5
  <2>7. \A j \in pending' : answer'[j] = "none"
    <3>1. answer[n] = "none"
      BY <1>0, <1>5 DEF AnswersOK, old
    <3>2. \A j \in pending : answer[j] = "none" /\ j \in Questions
      BY <1>0, Numbers DEF CodesOK, TypeOK
    <3> QED BY <1>5, <1>10, <3>1, <3>2
  <2> QED BY <2>1, <2>6, <2>7 DEF CodesOK, Code
<1>18. \A j \in old \ pending :
          j \in DOMAIN q' \ pending' /\ q'[j] = q[j] /\ word'[j] = word[j]
  BY <1>5, <1>6, <1>10
<1>19. AnswersOK'
  <2> SUFFICES ASSUME NEW j \in Questions, answer'[j] # "none"
               PROVE  /\ j \in DOMAIN q' \ pending'
                      /\ Covers(word'[j], answer'[j])
                      /\ answer'[j] = "always" => q'[j].subject \in ForRun
                      /\ answer'[j] = "remember" => q'[j].subject \in Keep
    BY DEF AnswersOK, Covers
  <2>1. answer'[j] = answer[j]
    OBVIOUS
  <2>2. /\ j \in old \ pending
        /\ Covers(word[j], answer[j])
        /\ answer[j] = "always" => q[j].subject \in ForRun
        /\ answer[j] = "remember" => q[j].subject \in Keep
    BY <1>0, <2>1 DEF AnswersOK, old
  <2> QED BY <2>1, <2>2, <1>18
<1>20. GrantsOK'
  <2>1. /\ \A s, r : Always(s, r) => Always(s, r)'
        /\ \A s : Remember(s) => Remember(s)'
    BY <1>18, Settled DEF old
  <2>2. /\ \A s \in granted : Always(s, run)
        /\ \A s \in standing : Remember(s)
    BY <1>0 DEF GrantsOK
  <2>3. \A s \in granted' : Always(s, run)'
    BY <2>1, <2>2, SMTT(30) DEF Always
  <2> QED BY <2>1, <2>2, <2>3 DEF GrantsOK
<1>21. BasisOK'
  <2>1. basis' \in [Agents -> Bases]
    BY <1>0 DEF BasisOK
  <2> QED BY <1>0, <1>18, <2>1, BasisStays DEF old
<1> QED BY <1>14, <1>15, <1>16, <1>17, <1>19, <1>20, <1>21 DEF IInv

\* The first question of a call.
LEMMA StepAsksOwner == ASSUME IInv, NEW a \in Agents, AsksOwner(a) PROVE IInv'
<1>0. TypeOK /\ AgentsOK
  BY DEF IInv
<1>1. /\ pc[a] = "asking" /\ OpensQuestion(a, 1) /\ pending' = pending \cup {Len(q')}
      /\ UNCHANGED <<route, call, run, granted, streak, total, escalated, standing, stop, expired,
                     answer, shown, restarts, word, basis>>
  BY DEF AsksOwner, runState, history
<1>2. on[a] = 0 /\ 0 \notin pending /\ 1 \in Chats
  <2>1. pc[a] \notin Waits
    BY <1>1 DEF Waits
  <2>2. on[a] = 0
    BY <1>0, <2>1 DEF AgentsOK
  <2>3. 0 \notin pending
    BY <1>0, Numbers DEF TypeOK
  <2> QED BY <2>2, <2>3 DEF Chats
<1>3. pending' = (pending \ {on[a]}) \cup {Len(q')}
  BY <1>1, <1>2
<1>4. /\ expired' \in Seq(DOMAIN q) /\ answer' \in [Questions -> Said]
      /\ \A j \in Questions : answer'[j] \in {answer[j], "none"}
  BY <1>0, <1>1 DEF TypeOK, Said
<1> QED BY <1>1, <1>2, <1>3, <1>4, Opened

\* The message could not be sent: the next chat, or a refusal.
LEMMA StepSendFails == ASSUME IInv, NEW a \in Agents, SendFails(a) PROVE IInv'
<1> DEFINE i == on[a]
<1>0. TypeOK /\ AgentsOK
  BY DEF IInv
<1>1. /\ pc[a] = "sending" /\ UNCHANGED <<route, standing, stop, shown, restarts, word, basis>>
      /\ \/ /\ q[i].chat < NChats
            /\ Withdraws(i)
            /\ OpensQuestion(a, q[i].chat + 1)
            /\ pending' = (pending \ {i}) \cup {Len(q')}
            /\ UNCHANGED <<call, run, granted, streak, total, escalated>>
         \/ /\ Withdraws(i) /\ Denies
            /\ pending' = pending \ {i}
            /\ Leaves(a, "ready")
            /\ UNCHANGED <<q, used>>
  BY DEF SendFails, history, runState
<1>2. pc[a] \in Waits /\ i \in DOMAIN q
  <2>1. pc[a] \in Waits
    BY <1>1 DEF Waits
  <2> QED BY <1>0, <2>1 DEF AgentsOK
<1>3. CASE /\ q[i].chat < NChats
           /\ Withdraws(i)
           /\ OpensQuestion(a, q[i].chat + 1)
           /\ pending' = (pending \ {i}) \cup {Len(q')}
           /\ UNCHANGED <<call, run, granted, streak, total, escalated>>
  <2>1. /\ expired' \in Seq(DOMAIN q)
        /\ ToSet(expired') \subseteq ToSet(expired) \cup ({i} \cap pending)
        /\ answer' \in [Questions -> Said] /\ answer'[i] = "none"
        /\ \A j \in Questions : j # i => answer'[j] = answer[j]
    BY <1>0, <1>2, <1>3, Expires
  <2>2. q[i].chat + 1 \in Chats
    <3>1. q[i].chat \in Chats
      BY <1>0, <1>2, Numbers DEF Asked
    <3> QED BY <1>3, <3>1 DEF Chats
  <2>3. \A j \in Questions : answer'[j] \in {answer[j], "none"}
    BY <2>1
  <2>4. ToSet(expired') \subseteq ToSet(expired) \cup pending
    BY <2>1
  <2> QED BY <1>1, <1>3, <2>1, <2>2, <2>3, <2>4, Opened
<1>4. CASE /\ Withdraws(i) /\ Denies
           /\ pending' = pending \ {i}
           /\ Leaves(a, "ready")
           /\ UNCHANGED <<q, used>>
  BY <1>1, <1>2, <1>4, WaitRefused
<1> QED BY <1>1, <1>3, <1>4

-----------------------------------------------------------------------------
(* The owner's steps, and the process *)

\* An answer reaches no further than the word, and than what was offered.
LEMMA ReachCovered ==
    ASSUME NEW i, NEW w \in Words
    PROVE  /\ Reach(i, w) \in {"no"} \cup Yes /\ Covers(w, Reach(i, w))
           /\ Reach(i, w) = "always" => q[i].subject \in ForRun
           /\ Reach(i, w) = "remember" => q[i].subject \in Keep
<1>1. w \in {"yes", "always", "remember", "no"}
  BY DEF Yes
<1>2. CASE w = "yes"
  BY <1>2 DEF Reach, Covers, Yes
<1>3. CASE w = "no"
  BY <1>3 DEF Reach, Covers, Yes
<1>4. CASE w = "always"
  BY <1>4 DEF Reach, Covers, Yes
<1>5. CASE w = "remember"
  BY <1>5 DEF Reach, Covers, Yes
<1> QED BY <1>1, <1>2, <1>3, <1>4, <1>5

\* Pending questions are answered by a word that was meant for them.
LEMMA Answered ==
    ASSUME IInv, NEW I \in SUBSET pending, NEW w \in Words, Answers(I, w),
           word' \in [Questions -> Said], \A i \in I : word'[i] = w,
           \A i \in Questions \ pending : word'[i] = word[i],
           UNCHANGED <<route, pc, call, on, run, granted, streak, total, escalated, standing, stop,
                       shown, restarts, basis>>
    PROVE  IInv'
<1>0. TypeOK /\ AgentsOK /\ PendingIsAwaited /\ CodesOK /\ AnswersOK /\ GrantsOK /\ BasisOK
  BY DEF IInv
<1>1. /\ pending' = pending \ I /\ UNCHANGED <<q, expired>>
      /\ answer' = [i \in Questions |-> IF i \in I THEN Reach(i, w) ELSE answer[i]]
  BY DEF Answers
<1>2. PICK s \in SetToSeqs(I) : used' = used \o s
  BY DEF Answers
<1>3. I \in SUBSET (DOMAIN q) /\ used \in Seq(DOMAIN q) /\ IsFiniteSet(I)
  <2>1. I \in SUBSET (DOMAIN q) /\ used \in Seq(DOMAIN q)
    BY <1>0 DEF TypeOK
  <2>2. IsFiniteSet(1..Len(q)) /\ I \subseteq 1..Len(q)
    BY <1>0, <2>1, Numbers, FS_Interval
  <2> QED BY <2>1, <2>2, FS_Subset
<1>4. used' \in Seq(DOMAIN q) /\ ToSet(used') \subseteq ToSet(used) \cup I
  <2>1. used \o s \in Seq(DOMAIN q) /\ ToSet(used \o s) \subseteq ToSet(used) \cup I
    BY ONLY <1>3, s \in SetToSeqs(I), UsedPart
  <2> QED BY <1>2, <2>1
<1>5. /\ answer' \in [Questions -> Said]
      /\ \A i \in Questions : i \in I => answer'[i] = Reach(i, w)
      /\ \A i \in Questions : i \notin I => answer'[i] = answer[i]
  <2>1. \A i \in Questions : Reach(i, w) \in Said
    BY ReachCovered DEF Said
  <2>2. answer \in [Questions -> Said]
    BY <1>0 DEF TypeOK, Said
  <2> HIDE DEF Reach
  <2> QED BY <1>1, <2>1, <2>2
<1>6. TypeOK'
  BY <1>0, <1>1, <1>4, <1>5 DEF TypeOK, Said
<1>7. AgentsOK' /\ PendingIsAwaited'
  BY <1>0, <1>1 DEF AgentsOK, PendingIsAwaited
<1>8. CodesOK'
  <2>1. Remembered' \subseteq Remembered
    BY <1>1, <1>4 DEF Remembered
  <2>2. \A j, k \in Remembered' : Code(j)' = Code(k)' => j = k
    BY <1>0, <1>1, <2>1 DEF CodesOK, Code
  <2>3. \A j \in pending' : answer'[j] = "none"
    <3>1. \A j \in pending : answer[j] = "none" /\ j \in Questions
      BY <1>0, Numbers DEF CodesOK, TypeOK
    <3> QED BY <1>1, <1>5, <3>1
  <2> QED BY <2>2, <2>3 DEF CodesOK
<1>9. AnswersOK'
  <2> SUFFICES ASSUME NEW j \in Questions, answer'[j] # "none"
               PROVE  /\ j \in DOMAIN q' \ pending'
                      /\ Covers(word'[j], answer'[j])
                      /\ answer'[j] = "always" => q'[j].subject \in ForRun
                      /\ answer'[j] = "remember" => q'[j].subject \in Keep
    BY DEF AnswersOK, Covers
  <2>1. CASE j \in I
    <3>1. answer'[j] = Reach(j, w) /\ word'[j] = w /\ j \in DOMAIN q' \ pending' /\ q' = q
      BY <2>1, <1>1, <1>3, <1>5
    <3> HIDE DEF Reach, Covers
    <3> QED BY <3>1, ReachCovered
  <2>2. CASE j \notin I
    <3>1. answer'[j] = answer[j] /\ q' = q
      BY <2>2, <1>1, <1>5
    <3>2. /\ j \in DOMAIN q \ pending
          /\ Covers(word[j], answer[j])
          /\ answer[j] = "always" => q[j].subject \in ForRun
          /\ answer[j] = "remember" => q[j].subject \in Keep
      BY <1>0, <3>1 DEF AnswersOK
    <3>3. word'[j] = word[j] /\ j \notin pending'
      BY <3>2, <1>1
    <3> QED BY <3>1, <3>2, <3>3
  <2> QED BY <2>1, <2>2
<1>10. \A j \in DOMAIN q \ pending :
          j \in DOMAIN q' \ pending' /\ q'[j] = q[j] /\ word'[j] = word[j]
  BY <1>0, <1>1, Numbers
<1>11. GrantsOK'
  <2>1. /\ \A t, r : Always(t, r) => Always(t, r)'
        /\ \A t : Remember(t) => Remember(t)'
    BY <1>10, Settled
  <2>2. /\ \A t \in granted : Always(t, run)
        /\ \A t \in standing : Remember(t)
    BY <1>0 DEF GrantsOK
  <2>3. \A t \in granted' : Always(t, run)'
    BY <2>1, <2>2 DEF Always
  <2> QED BY <2>1, <2>2, <2>3 DEF GrantsOK
<1>12. BasisOK'
  <2>1. basis' \in [Agents -> Bases]
    BY <1>0 DEF BasisOK
  <2> QED BY <1>0, <1>10, <2>1, BasisStays
<1> QED BY <1>6, <1>7, <1>8, <1>9, <1>11, <1>12 DEF IInv

\* What a word is noted for.
LEMMA Means ==
    ASSUME TypeOK, NEW I, NEW w \in Words, MeansFor(I, w)
    PROVE  /\ word' \in [Questions -> Said]
           /\ \A i \in I \cap pending : word'[i] = w
           /\ \A i \in Questions \ pending : word'[i] = word[i]
<1>1. word \in [Questions -> Said] /\ w \in Said /\ pending \subseteq Questions
  BY Numbers DEF TypeOK, Said, Yes
<1>2. word' = [i \in Questions |-> IF i \in I \cap pending THEN w ELSE word[i]]
  BY DEF MeansFor
<1> QED BY <1>1, <1>2

\* A button of a message settles only questions it is meant for: codes are of one each.
LEMMA StepTaps ==
    ASSUME IInv, NEW i \in DOMAIN q, NEW w \in Words, Taps(i, w) PROVE IInv'
<1> DEFINE I == Settles(q[i].chat, w, {Code(i)}, TRUE)
<1>0. TypeOK /\ CodesOK
  BY DEF IInv
<1>1. /\ Answers(I, w) /\ MeansFor(Meant(i), w)
      /\ UNCHANGED <<route, pc, call, on, run, granted, streak, total, escalated, standing, stop,
                     shown, restarts, basis>>
  BY DEF Taps, runState
<1>2. I \subseteq {j \in pending : Code(j) = Code(i) /\ q[j].chat = q[i].chat}
  BY DEF Settles, Named, Here
<1>3. I \subseteq Meant(i) \cap pending
  <2> SUFFICES ASSUME NEW j \in I PROVE j \in Meant(i) /\ j \in pending
    OBVIOUS
  <2>1. j \in pending /\ Code(j) = Code(i) /\ q[j].chat = q[i].chat
    BY <1>2
  <2>2. j \in Remembered /\ j \in DOMAIN q
    BY <1>0, <2>1 DEF Remembered, TypeOK
  <2>3. i \in Remembered => j = i
    BY <1>0, <2>1, <2>2 DEF CodesOK
  <2> QED BY <2>1, <2>2, <2>3 DEF Meant
<1> HIDE DEF I
<1>4. /\ word' \in [Questions -> Said]
      /\ \A j \in Meant(i) \cap pending : word'[j] = w
      /\ \A j \in Questions \ pending : word'[j] = word[j]
  BY <1>0, <1>1, Means
<1>5. I \in SUBSET pending /\ \A j \in I : word'[j] = w
  BY <1>3, <1>4
<1> QED BY <1>1, <1>4, <1>5, Answered

\* Somebody else settles nothing.
LEMMA StepGuestTaps ==
    ASSUME IInv, NEW i \in DOMAIN q, NEW w \in Words, GuestTaps(i, w) PROVE IInv'
<1>1. /\ Answers({}, w)
      /\ UNCHANGED <<route, pc, call, on, run, granted, streak, total, escalated, standing, stop,
                     shown, restarts, word, basis>>
  BY DEF GuestTaps, Settles, runState, history
<1>2. word' \in [Questions -> Said]
  BY <1>1 DEF IInv, TypeOK, Said
<1> QED BY <1>1, <1>2, Answered

\* A bare word settles what it is meant for.
LEMMA StepSays ==
    ASSUME IInv, NEW chat \in Chats, NEW w \in Words, Says(chat, w) PROVE IInv'
<1> DEFINE I == IF w \in Yes THEN {i \in Here(chat) : Here(chat) = {i}} ELSE Here(chat)
<1>0. TypeOK
  BY DEF IInv
<1>1. Settles(chat, w, {}, TRUE) = I
  BY DEF Settles
<1>2. /\ Answers(I, w) /\ MeansFor(I, w)
      /\ UNCHANGED <<route, pc, call, on, run, granted, streak, total, escalated, standing, stop,
                     shown, restarts, basis>>
  BY <1>1 DEF Says, runState
<1>3. I \in SUBSET pending
  BY DEF Here
<1> HIDE DEF I
<1>4. /\ word' \in [Questions -> Said]
      /\ \A j \in I \cap pending : word'[j] = w
      /\ \A j \in Questions \ pending : word'[j] = word[j]
  BY <1>0, <1>2, Means
<1>5. \A j \in I : word'[j] = w
  BY <1>3, <1>4
<1> QED BY <1>2, <1>3, <1>4, <1>5, Answered

\* The dashboard settles what it listed.
LEMMA StepDecides ==
    ASSUME IInv, NEW i \in DOMAIN q, NEW w \in Words, Decides(i, w) PROVE IInv'
<1> DEFINE I == IF i \in Remembered THEN {i} ELSE {j \in DOMAIN q : Code(j) = Code(i)}
<1>0. TypeOK /\ CodesOK
  BY DEF IInv
<1>1. PICK k \in pending : Code(k) = Code(i) /\ Answers({k}, w)
  BY DEF Decides
<1>2. /\ MeansFor(I, w)
      /\ UNCHANGED <<route, pc, call, on, run, granted, streak, total, escalated, standing, stop,
                     shown, restarts, basis>>
  BY DEF Decides, runState
<1>3. k \in I
  <2>1. k \in Remembered /\ k \in DOMAIN q
    BY <1>0 DEF Remembered, TypeOK
  <2>2. i \in Remembered => k = i
    BY <1>0, <1>1, <2>1 DEF CodesOK
  <2> QED BY <1>1, <2>1, <2>2
<1> HIDE DEF I
<1>4. /\ word' \in [Questions -> Said]
      /\ \A j \in I \cap pending : word'[j] = w
      /\ \A j \in Questions \ pending : word'[j] = word[j]
  BY <1>0, <1>2, Means
<1>5. {k} \in SUBSET pending /\ \A j \in {k} : word'[j] = w
  BY <1>3, <1>4
<1> QED BY <1>1, <1>2, <1>4, <1>5, Answered

\* A grant is taken back, or the switch is turned.
LEMMA StepFiles ==
    ASSUME IInv, standing' \subseteq standing, stop' \in {"off", "here", "elsewhere"},
           UNCHANGED <<route, pc, call, on, run, granted, streak, total, escalated, q, pending,
                       expired, used, answer, shown, restarts, word, basis>>
    PROVE  IInv'
<1>1. TypeOK'
  BY DEF IInv, TypeOK
<1>2. /\ AgentsOK' /\ PendingIsAwaited' /\ CodesOK' /\ AnswersOK'
  BY DEF IInv, AgentsOK, PendingIsAwaited, CodesOK, AnswersOK, Remembered, Code
<1>3. GrantsOK' /\ BasisOK'
  BY DEF IInv, GrantsOK, BasisOK, Always, Remember
<1> QED BY <1>1, <1>2, <1>3 DEF IInv

\* After a restart only the questions, words and standing grants are left.
LEMMA StepRestarts == ASSUME IInv, Restarts PROVE IInv'
<1>0. TypeOK /\ GrantsOK
  BY DEF IInv
<1>1. /\ restarts < MaxRestarts /\ restarts' = restarts + 1
      /\ pc' = [a \in Agents |-> "out"] /\ on' = [a \in Agents |-> 0]
      /\ call' = [a \in Agents |-> NoCall] /\ basis' = [a \in Agents |-> Nothing]
      /\ pending' = {} /\ expired' = <<>> /\ used' = <<>>
      /\ answer' = [i \in Questions |-> "none"]
      /\ granted' = {} /\ streak' = 0 /\ total' = 0 /\ escalated' = FALSE
      /\ UNCHANGED <<route, run, standing, stop, q, shown, word>>
  BY DEF Restarts
<1>2. TypeOK'
  <2>1. 0 \in 0..MaxQuestions /\ restarts' \in 0..MaxRestarts /\ streak' \in 0..total'
    BY <1>0, <1>1 DEF TypeOK
  <2>2. /\ pc' \in [Agents -> Pcs] /\ on' \in [Agents -> 0..MaxQuestions]
        /\ call' \in [Agents -> Subjects \cup {NoCall}]
        /\ answer' \in [Questions -> Said]
    BY <1>1, <2>1 DEF Pcs, Said
  <2>3. expired' \in Seq(DOMAIN q') /\ used' \in Seq(DOMAIN q')
    BY <1>1
  <2>4. escalated' \in BOOLEAN
    BY <1>1
  <2> QED BY <1>0, <1>1, <2>1, <2>2, <2>3, <2>4 DEF TypeOK, Pcs, Said
<1>3. AgentsOK' /\ PendingIsAwaited'
  BY <1>1 DEF AgentsOK, PendingIsAwaited, Waits
<1>4. CodesOK' /\ AnswersOK'
  <2>1. ToSet(<<>>) = {}
    BY DEF ToSet
  <2>2. Remembered' = {}
    BY <1>1, <2>1 DEF Remembered
  <2> QED BY <1>1, <2>2 DEF CodesOK, AnswersOK
<1>5. GrantsOK'
  BY <1>0, <1>1 DEF GrantsOK, Remember
<1>6. BasisOK'
  <2>1. Nothing \in Bases /\ Nothing.on = "nothing"
    BY DEF Nothing, Bases
  <2>2. /\ basis' \in [Agents -> Bases] /\ \A a \in Agents : basis'[a] = Nothing
    BY <1>1, <2>1
  <2> QED BY <2>1, <2>2 DEF BasisOK
<1> QED BY <1>2, <1>3, <1>4, <1>5, <1>6 DEF IInv

-----------------------------------------------------------------------------
(* The inductive invariant, and what follows from it *)

\* Every step keeps the invariant.
LEMMA NextIInv == IInv /\ [Next]_vars => IInv'
<1> SUFFICES ASSUME IInv, [Next]_vars PROVE IInv'
  OBVIOUS
<1>1. ASSUME NEW a \in Agents, Agent(a) PROVE IInv'
  BY <1>1, StepBegins, StepCallsModel, StepOnGrant, StepOnStanding, StepAsks, StepTerminalAnswers,
     StepAsksOwner, StepDelivered, StepSent, StepSendFails, StepTakesAnswer, StepTimesOut,
     StepTimedOut, StepToolEnds, StepHalts DEF Agent
<1>2. ASSUME Owner PROVE IInv'
  <2>1. ASSUME NEW s \in standing, Revokes(s) PROVE IInv'
    <3>1. /\ standing' \subseteq standing /\ stop' \in {"off", "here", "elsewhere"}
          /\ UNCHANGED <<route, pc, call, on, run, granted, streak, total, escalated, q, pending,
                         expired, used, answer, shown, restarts, word, basis>>
      BY <2>1 DEF Revokes, runState, approvals, history, IInv, TypeOK
    <3> QED BY <3>1, StepFiles
  <2>2. ASSUME \/ \E where \in Stops : Engages(where)
               \/ Clears
        PROVE  IInv'
    <3>1. /\ standing' \subseteq standing /\ stop' \in {"off", "here", "elsewhere"}
          /\ UNCHANGED <<route, pc, call, on, run, granted, streak, total, escalated, q, pending,
                         expired, used, answer, shown, restarts, word, basis>>
      BY <2>2 DEF Engages, Clears, runState, approvals, history
    <3> QED BY <3>1, StepFiles
  <2> QED BY <1>2, <2>1, <2>2, StepTaps, StepGuestTaps, StepDecides, StepSays DEF Owner
<1>3. ASSUME UNCHANGED vars PROVE IInv'
  <2>1. /\ standing' \subseteq standing /\ stop' \in {"off", "here", "elsewhere"}
        /\ UNCHANGED <<route, pc, call, on, run, granted, streak, total, escalated, q, pending,
                       expired, used, answer, shown, restarts, word, basis>>
    BY <1>3 DEF vars, runState, approvals, history, IInv, TypeOK
  <2> QED BY <2>1, StepFiles
<1> QED BY <1>1, <1>2, <1>3, StepRestarts DEF Next

\* The invariant holds.
LEMMA Inductive == Spec => []IInv
  BY InitIInv, NextIInv, PTL DEF Spec

\* The types of the variables, among them that the questions' numbers are in order,
\* that what is pending, expired or used was asked, and that grants were offered.
THEOREM TypeCorrect == Spec => []TypeOK
<1>1. IInv => TypeOK
  BY DEF IInv
<1> QED BY <1>1, Inductive, PTL

\* PendingIsAwaited, for every tree: no failed message, late answer, timeout, stopped
\* turn or restart leaves a question of Approvals behind that nobody waits for.
THEOREM Awaited == Spec => []PendingIsAwaited
<1>1. IInv => PendingIsAwaited
  BY DEF IInv
<1> QED BY <1>1, Inductive, PTL

\* OnTheOwnersWord, for every tree: no gated call of TrustGuard::ask goes ahead in the
\* owner's chat without the owner's word for that question, for that command in that
\* run, or for that command from now on.
THEOREM OwnersWord == Spec => []OnTheOwnersWord
<1>1. IInv => OnTheOwnersWord
  <2> SUFFICES ASSUME IInv, NEW a \in Agents
               PROVE  /\ basis[a].on = "question" => word[basis[a].id] \in Yes
                      /\ basis[a].on = "grant" =>
                          \E i \in DOMAIN q :
                              /\ q[i].subject = basis[a].id /\ q[i].run = basis[a].run
                              /\ word[i] \in {"always", "remember"}
                      /\ basis[a].on = "standing" =>
                          \E i \in DOMAIN q : q[i].subject = basis[a].id /\ word[i] = "remember"
    BY DEF OnTheOwnersWord
  <2>1. /\ basis[a].on = "question" => basis[a].id \in DOMAIN q \ pending /\ word[basis[a].id] \in Yes
        /\ basis[a].on = "grant" => Always(basis[a].id, basis[a].run)
        /\ basis[a].on = "standing" => Remember(basis[a].id)
    BY DEF IInv, BasisOK
  <2> QED BY <2>1 DEF Always, Remember
<1> QED BY <1>1, Inductive, PTL
=============================================================================
