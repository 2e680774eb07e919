---------------------------- MODULE RouterProofs ----------------------------
(***************************************************************************)
(* Type correctness, the count of what waits, one working lane and no lost *)
(* message: for any number of messages, wake-ups and lanes, every queue    *)
(* capacity, with and without merging and the dashboard.                   *)
(***************************************************************************)
EXTENDS Router, SequenceTheorems, TLAPS

Turn == {"start", "armed", "run", "reply"}
Taken == {"taken", "merge", "begin"}
Offering(l) == call["dispatcher"] = [pc |-> "send", lane |-> l]

\* The callers' calls, and the lanes they are about.
CallsOK ==
    /\ \A x \in Callers :
        /\ call[x].pc = "ready" => call[x] = Ready
        /\ call[x].pc # "ready" => call[x].lane \in Lanes /\ w[call[x].lane] # "none"
        /\ call[x].pc = "join" => retired[call[x].lane]
    /\ call["dispatcher"].pc \in {"count", "send"} => sent # 0
    /\ call["dashboard"].pc \notin {"count", "send"}
    /\ ~Beside => call["dashboard"] = Ready
    /\ phase # "up" => call["dispatcher"] = Ready
    /\ cur # 0 => w[cur] # "none"
    /\ waker = "checked" => woke < MaxNews

\* What a lane holds where its task is.
LanesOK ==
    \A l \in Lanes :
        /\ w[l] = "none" => /\ queue[l] = <<>> /\ held[l] = <<>> /\ queued[l] = 0
                            /\ ~retired[l]
        /\ w[l] \in {"none", "recv"} => job[l] = <<>>
        /\ late[l] # <<>> => w[l] \in {"reply", "gone"}
        /\ waiting[l] # <<>> => w[l] \in {"run", "gone"}
        /\ open[l] => w[l] \in {"run", "gone"}
        /\ w[l] \in Turn => busy[l]
        /\ busy[l] => w[l] \in Turn \cup {"gone"}

\* What waits in a lane.
Waits(l) == Len(queue[l]) + Len(held[l]) + (IF w[l] \in Taken THEN 1 ELSE 0)

Counted(l) == Waits(l) + (IF Offering(l) THEN 1 ELSE 0)

\* The count is exact; a retired lane's is not too small before the stop sets it to 0.
CountsOK ==
    \A l \in Lanes :
        /\ ~retired[l] => queued[l] = Counted(l)
        /\ phase \in {"up", "closing"} => queued[l] >= Counted(l)

\* What is in a lane was accepted, and what its turn answers was read.
MessagesOK ==
    \A l \in Lanes :
        /\ InLane(l) \subseteq accepted
        /\ w[l] \in Turn => Range(job[l]) \subseteq Range(read)

\* A lane that will take no message any more.
Idle(l) ==
    \/ w[l] \in {"none", "gone"}
    \/ w[l] = "recv" /\ queue[l] = <<>> /\ held[l] = <<>> /\ cur # l

\* The lane that is being reset.
Resetting(l) == call["dispatcher"].pc \in {"retire", "join"} /\ call["dispatcher"].lane = l

\* Until the bot's stop drops what waits: all lanes but the map's are idle, or being
\* reset, and no message is lost.
UpOK ==
    /\ cur # 0 => ~retired[cur] /\ w[cur] # "gone"
    /\ call["dispatcher"].pc \in {"count", "send"} => call["dispatcher"].lane = cur
    /\ call["dispatcher"].pc \in {"retire", "join"} => cur = 0
    /\ \A l \in Lanes : l # cur => Idle(l) \/ Resetting(l) \/ (phase = "closing" /\ retired[l])
    /\ \A l \in Lanes : retired[l] => InLane(l) \subseteq cut
    /\ \A m \in accepted :
        \/ m \in cut \/ m \in Range(read)
        \/ \E l \in Lanes : w[l] \notin {"none", "gone"} /\ m \in InLane(l)

SoloOK ==
    /\ \A k, l \in Lanes : ~Idle(k) /\ ~Idle(l) => k = l
    /\ phase \in {"up", "closing"} => UpOK

IInv == TypeOK /\ CallsOK /\ LanesOK /\ CountsOK /\ MessagesOK /\ (~Beside => SoloOK)

Ms == Msgs \cup News
Lists == Seq(Seq(Ms))
HeldIn(s) == UNION {Range(h) : h \in Range(s)}

USE RouterAssumption

-----------------------------------------------------------------------------
(* Lists *)

\* An empty list holds nothing.
LEMMA RangeEmpty == Range(<<>>) = {} /\ HeldIn(<<>>) = {}
<1>1. Range(<<>>) = {}
  BY DEF Range
<1> QED BY <1>1 DEF HeldIn

\* A list that is longer by one.
LEMMA RangeAppended ==
    ASSUME NEW S, NEW s \in Seq(S), NEW x \in S
    PROVE  /\ Append(s, x) \in Seq(S) /\ Len(Append(s, x)) = Len(s) + 1 /\ Len(s) \in Nat
           /\ Range(Append(s, x)) = Range(s) \cup {x}
<1>1. /\ Append(s, x) \in Seq(S) /\ Len(s) \in Nat /\ DOMAIN s = 1..Len(s)
      /\ DOMAIN Append(s, x) = 1..(Len(s) + 1) /\ Len(Append(s, x)) = Len(s) + 1
      /\ Append(s, x)[Len(s) + 1] = x /\ \A i \in 1..Len(s) : Append(s, x)[i] = s[i]
  OBVIOUS
<1>2. DOMAIN Append(s, x) = DOMAIN s \cup {Len(s) + 1}
  BY <1>1
<1> QED BY <1>1, <1>2 DEF Range

\* A list without its first.
LEMMA RangeTaken ==
    ASSUME NEW S, NEW s \in Seq(S), s # <<>>
    PROVE  /\ Head(s) \in S /\ Tail(s) \in Seq(S) /\ Len(s) \in Nat /\ Len(s) > 0
           /\ Len(Tail(s)) = Len(s) - 1
           /\ Range(s) = {Head(s)} \cup Range(Tail(s))
<1>1. /\ Head(s) \in S /\ Tail(s) \in Seq(S) /\ Len(s) \in Nat /\ Len(s) > 0
      /\ DOMAIN s = 1..Len(s) /\ Head(s) = s[1] /\ DOMAIN Tail(s) = 1..(Len(s) - 1)
      /\ \A i \in 1..(Len(s) - 1) : Tail(s)[i] = s[i + 1]
      /\ Len(Tail(s)) = Len(s) - 1
  OBVIOUS
<1>2. ASSUME NEW i \in 1..Len(s), i # 1
      PROVE  i - 1 \in 1..(Len(s) - 1) /\ s[i] = Tail(s)[i - 1]
  <2>1. i - 1 \in 1..(Len(s) - 1) /\ (i - 1) + 1 = i
    BY <1>1, <1>2
  <2> QED BY <1>1, <2>1
<1>3. \A i \in 1..(Len(s) - 1) : i + 1 \in 1..Len(s)
  BY <1>1
<1>4. 1 \in 1..Len(s)
  BY <1>1
<1>5. Range(s) \subseteq {Head(s)} \cup Range(Tail(s))
  <2> SUFFICES ASSUME NEW i \in 1..Len(s) PROVE s[i] \in {Head(s)} \cup Range(Tail(s))
    BY <1>1 DEF Range
  <2>1. CASE i = 1
    BY <1>1, <2>1
  <2>2. CASE i # 1
    <3>1. i - 1 \in DOMAIN Tail(s) /\ s[i] = Tail(s)[i - 1]
      BY <1>1, <1>2, <2>2
    <3> QED BY <3>1 DEF Range
  <2> QED BY <2>1, <2>2
<1>6. {Head(s)} \cup Range(Tail(s)) \subseteq Range(s)
  BY <1>1, <1>3, <1>4 DEF Range
<1> QED BY <1>1, <1>5, <1>6

\* One more job that is held.
LEMMA HeldAppended ==
    ASSUME NEW s \in Lists, NEW x \in Seq(Ms)
    PROVE  /\ Append(s, x) \in Lists /\ Len(Append(s, x)) = Len(s) + 1 /\ Len(s) \in Nat
           /\ HeldIn(Append(s, x)) = HeldIn(s) \cup Range(x)
  BY RangeAppended DEF HeldIn, Lists

\* The first job that is held is taken.
LEMMA HeldTaken ==
    ASSUME NEW s \in Lists, s # <<>>
    PROVE  /\ Head(s) \in Seq(Ms) /\ Tail(s) \in Lists /\ Len(s) \in Nat /\ Len(s) > 0
           /\ Len(Tail(s)) = Len(s) - 1
           /\ HeldIn(s) = Range(Head(s)) \cup HeldIn(Tail(s))
  BY RangeTaken DEF HeldIn, Lists

\* One in front of the others.
LEMMA HeldFirst ==
    ASSUME NEW s \in Lists, NEW x \in Seq(Ms)
    PROVE  /\ <<x>> \o s \in Lists /\ Len(<<x>> \o s) = Len(s) + 1 /\ Len(s) \in Nat
           /\ HeldIn(<<x>> \o s) = HeldIn(s) \cup Range(x)
<1>1. <<x>> \in Lists /\ Len(<<x>>) = 1 /\ Range(<<x>>) = {x}
  BY DEF Range, Lists
<1>2. <<x>> \o s \in Lists /\ Len(<<x>> \o s) = Len(s) + 1 /\ Len(s) \in Nat
  BY <1>1 DEF Lists
<1>3. Range(<<x>> \o s) = {x} \cup Range(s)
  <2>1. <<x>> \in Seq(Seq(Ms)) /\ s \in Seq(Seq(Ms))
    BY <1>1 DEF Lists
  <2>2. Range(<<x>> \o s) = Range(<<x>>) \cup Range(s)
    BY ONLY <2>1, RangeConcatenation, ZenonT(30)
  <2> QED BY <1>1, <2>2
<1> QED BY <1>2, <1>3 DEF HeldIn

\* A list of one.
LEMMA RangeOne == ASSUME NEW x PROVE Range(<<x>>) = {x} /\ Len(<<x>>) = 1
  BY DEF Range

\* What is in a lane, by its five places.
LEMMA InLaneIs ==
    ASSUME NEW l
    PROVE  InLane(l) = Range(queue[l]) \cup Range(job[l]) \cup Range(late[l]) \cup Range(waiting[l])
                         \cup HeldIn(held[l])
  BY DEF InLane, HeldIn

\* A lane that nothing was done to holds what it held.
LEMMA InLaneStays ==
    ASSUME NEW l, queue'[l] = queue[l], job'[l] = job[l], late'[l] = late[l],
           waiting'[l] = waiting[l], held'[l] = held[l]
    PROVE  InLane(l)' = InLane(l)
  BY DEF InLane

-----------------------------------------------------------------------------

\* The bot is up and there is no lane.
LEMMA InitIInv == Init => IInv
<1> SUFFICES ASSUME Init PROVE IInv
  OBVIOUS
<1>1. TypeOK
  <2>1. call \in [Callers -> [pc : CallPcs, lane : 0..MaxLanes]]
    <3>1. Ready \in [pc : CallPcs, lane : 0..MaxLanes]
      BY DEF Ready, CallPcs
    <3> QED BY <3>1 DEF Init
  <2>2. w \in [Lanes -> Pcs]
    BY DEF Init, Pcs
  <2>3. /\ cur \in 0..MaxLanes /\ sent \in 0..MaxMsgs /\ woke \in 0..MaxNews
    BY DEF Init
  <2>4. /\ job \in [Lanes -> Seq(Msgs \cup News)] /\ held \in [Lanes -> Seq(Seq(Msgs \cup News))]
        /\ late \in [Lanes -> Seq(Msgs)] /\ queue \in [Lanes -> Seq(Msgs \cup News)]
        /\ waiting \in [Lanes -> Seq(Msgs)] /\ read \in Seq(Msgs \cup News)
        /\ queued \in [Lanes -> Nat]
    BY DEF Init
  <2>5. /\ busy \in [Lanes -> BOOLEAN] /\ retired \in [Lanes -> BOOLEAN]
        /\ stale \in [Lanes -> BOOLEAN] /\ open \in [Lanes -> BOOLEAN]
        /\ stopped \in [Lanes -> BOOLEAN] /\ told \in BOOLEAN
        /\ waker \in {"idle", "checked"}
        /\ phase \in {"up", "closing", "draining", "stopping", "down"}
        /\ accepted \subseteq Msgs \cup News /\ cut \subseteq accepted
    BY DEF Init
  <2> QED BY <2>1, <2>2, <2>3, <2>4, <2>5 DEF TypeOK
<1>2. \A x \in Callers : call[x] = Ready /\ Ready.pc = "ready"
  BY DEF Init, Ready
<1>3. CallsOK
  BY <1>2 DEF Init, CallsOK, Callers
<1>4. LanesOK
  BY DEF Init, LanesOK, Turn
<1>5. CountsOK
  <2>1. \A l : ~Offering(l)
    BY <1>2 DEF Offering, Ready, Callers
  <2>2. \A l \in Lanes : Waits(l) = 0
    BY DEF Init, Waits, Taken
  <2>3. \A l \in Lanes : Counted(l) = 0 /\ queued[l] = 0
    BY <2>1, <2>2 DEF Counted, Init
  <2> QED BY <2>3 DEF CountsOK
<1>6. MessagesOK
  <2>1. \A l \in Lanes : InLane(l) = {}
    BY RangeEmpty, InLaneIs DEF Init
  <2> QED BY <2>1 DEF Init, MessagesOK, Turn
<1>7. SoloOK
  <2>1. \A l \in Lanes : Idle(l)
    BY DEF Init, Idle
  <2> QED BY <1>2, <2>1 DEF Init, SoloOK, UpOK, Callers
<1> QED BY <1>1, <1>3, <1>4, <1>5, <1>6, <1>7 DEF IInv
-----------------------------------------------------------------------------
(* The steps of a lane's task *)

\* Nothing happens to the other lanes.
OnlyIn(l) ==
    \A k \in Lanes \ {l} :
        /\ w'[k] = w[k] /\ job'[k] = job[k] /\ held'[k] = held[k] /\ late'[k] = late[k]
        /\ queue'[k] = queue[k] /\ queued'[k] = queued[k] /\ busy'[k] = busy[k]
        /\ retired'[k] = retired[k] /\ open'[k] = open[k] /\ waiting'[k] = waiting[k]

\* What every lane's step has in common: it takes nothing out of the lane that no turn
\* reads, counts what it starts, and ends the lane only when it is retired or empty.
LaneStep(l) ==
    /\ UNCHANGED <<cur, call, sent, waker, woke, phase, retired, accepted, cut>>
    /\ OnlyIn(l)
    /\ w[l] \notin {"none", "gone"} /\ w'[l] # "none"
    /\ queued[l] >= Waits(l) =>
        \/ queued'[l] - Waits(l)' = queued[l] - Waits(l)
        \/ retired[l] /\ queued'[l] - Waits(l)' >= queued[l] - Waits(l)
    /\ Range(read) \subseteq Range(read')
    /\ InLane(l)' \subseteq InLane(l)
    /\ w'[l] \in Turn => Range(job'[l]) \subseteq Range(read')
    /\ w'[l] # "gone" => InLane(l) \subseteq InLane(l)' \cup Range(read')
    /\ w'[l] = "gone" => retired[l] \/ (cur # l /\ InLane(l) = {})
    /\ Idle(l) => Idle(l)'

\* What waits is a number.
LEMMA WaitsIs ==
    ASSUME NEW q \in Seq(Msgs \cup News), NEW h \in Seq(Seq(Msgs \cup News)), NEW pc
    PROVE  Len(q) + Len(h) + (IF pc \in Taken THEN 1 ELSE 0) \in Nat
<1>1. PICK a \in Nat : a = Len(q)
  OBVIOUS
<1>2. PICK b \in Nat : b = Len(h)
  OBVIOUS
<1>3. a + b + (IF pc \in Taken THEN 1 ELSE 0) \in Nat
  BY ONLY a \in Nat, b \in Nat
<1> QED BY ONLY <1>1, <1>2, <1>3

\* So is what waits in each lane.
LEMMA WaitsNat == ASSUME TypeOK, NEW l \in Lanes PROVE Waits(l) \in Nat /\ queued[l] \in Nat
<1>1. queue[l] \in Seq(Msgs \cup News) /\ held[l] \in Seq(Seq(Msgs \cup News)) /\ queued[l] \in Nat
  BY DEF TypeOK
<1> QED BY <1>1, WaitsIs DEF Waits

\* A step of a lane's task keeps the invariant.
LEMMA LaneStepKeeps ==
    ASSUME IInv, TypeOK', LanesOK', NEW l \in Lanes, LaneStep(l)
    PROVE  IInv'
<1>0. TypeOK /\ CallsOK /\ LanesOK /\ CountsOK /\ MessagesOK /\ (~Beside => SoloOK)
  BY DEF IInv
<1>1. /\ cur' = cur /\ call' = call /\ sent' = sent /\ waker' = waker /\ woke' = woke
      /\ phase' = phase /\ retired' = retired /\ accepted' = accepted /\ cut' = cut
      /\ w[l] \notin {"none", "gone"} /\ w'[l] # "none"
      /\ Range(read) \subseteq Range(read')
      /\ InLane(l)' \subseteq InLane(l)
      /\ w'[l] \in Turn => Range(job'[l]) \subseteq Range(read')
      /\ w'[l] # "gone" => InLane(l) \subseteq InLane(l)' \cup Range(read')
      /\ w'[l] = "gone" => retired[l] \/ (cur # l /\ InLane(l) = {})
      /\ Idle(l) => Idle(l)'
  BY DEF LaneStep
<1>2. queued[l] >= Waits(l) =>
        \/ queued'[l] - Waits(l)' = queued[l] - Waits(l)
        \/ retired[l] /\ queued'[l] - Waits(l)' >= queued[l] - Waits(l)
  BY DEF LaneStep
<1>3. \A k \in Lanes \ {l} :
        /\ w'[k] = w[k] /\ job'[k] = job[k] /\ held'[k] = held[k] /\ late'[k] = late[k]
        /\ queue'[k] = queue[k] /\ queued'[k] = queued[k] /\ busy'[k] = busy[k]
        /\ retired'[k] = retired[k] /\ open'[k] = open[k] /\ waiting'[k] = waiting[k]
  BY DEF LaneStep, OnlyIn
<1>4. \A k \in Lanes \ {l} : InLane(k)' = InLane(k)
  BY <1>3, InLaneStays
<1>5. CallsOK'
  <2>1. \A k \in Lanes : w[k] # "none" => w'[k] # "none"
    BY <1>1, <1>3
  <2>2. cur \in 0..MaxLanes
    BY <1>0 DEF TypeOK
  <2>3. cur # 0 => cur \in Lanes
    BY <2>2 DEF Lanes
  <2> QED BY <1>0, <1>1, <2>1, <2>3 DEF CallsOK
<1>6. CountsOK'
  <2>1. \A k : Offering(k)' <=> Offering(k)
    BY <1>1 DEF Offering
  <2>2. \A k \in Lanes \ {l} : Waits(k)' = Waits(k)
    BY <1>3 DEF Waits
  <2>3. \A k \in Lanes : Waits(k) \in Nat /\ queued[k] \in Nat
    BY <1>0, WaitsNat
  <2>4. Waits(l)' \in Nat /\ queued'[l] \in Nat
    <3>1. queue'[l] \in Seq(Msgs \cup News) /\ held'[l] \in Seq(Seq(Msgs \cup News)) /\ queued'[l] \in Nat
      BY DEF TypeOK
    <3> QED BY <3>1, WaitsIs DEF Waits
  <2>5. /\ ~retired'[l] => queued'[l] = Counted(l)'
        /\ phase' \in {"up", "closing"} => queued'[l] >= Counted(l)'
    BY <1>0, <1>1, <1>2, <2>1, <2>3, <2>4 DEF CountsOK, Counted
  <2>6. ASSUME NEW k \in Lanes \ {l}
        PROVE  /\ ~retired'[k] => queued'[k] = Counted(k)'
               /\ phase' \in {"up", "closing"} => queued'[k] >= Counted(k)'
    BY <1>0, <1>1, <1>3, <2>1, <2>2 DEF CountsOK, Counted
  <2> QED BY <2>5, <2>6 DEF CountsOK
<1>7. MessagesOK'
  <2>1. \A k \in Lanes : InLane(k)' \subseteq accepted'
    BY <1>0, <1>1, <1>4 DEF MessagesOK
  <2>2. \A k \in Lanes : w'[k] \in Turn => Range(job'[k]) \subseteq Range(read')
    BY <1>0, <1>1, <1>3 DEF MessagesOK
  <2> QED BY <2>1, <2>2 DEF MessagesOK
<1>8. ASSUME ~Beside PROVE SoloOK'
  <2>0. SoloOK
    BY <1>0, <1>8
  <2>1. \A k \in Lanes : Idle(k) => Idle(k)'
    <3>1. \A k \in Lanes \ {l} : Idle(k) => Idle(k)'
      BY <1>1, <1>3 DEF Idle
    <3> QED BY <1>1, <3>1
  <2>2. \A k \in Lanes : Resetting(k)' <=> Resetting(k)
    BY <1>1 DEF Resetting
  <2>3. ASSUME phase \in {"up", "closing"} PROVE UpOK'
    <3>0. UpOK
      BY <2>0, <2>3 DEF SoloOK
    <3>1. cur' # 0 => ~retired'[cur'] /\ w'[cur'] # "gone"
      <4>1. cur # 0 => cur \in Lanes
        BY <1>0 DEF TypeOK, Lanes
      <4>2. cur # 0 => ~retired[cur] /\ w[cur] # "gone"
        BY <3>0 DEF UpOK
      <4> QED BY <1>1, <1>3, <4>1, <4>2
    <3>2. /\ call'["dispatcher"].pc \in {"count", "send"} => call'["dispatcher"].lane = cur'
          /\ call'["dispatcher"].pc \in {"retire", "join"} => cur' = 0
      BY <1>1, <3>0 DEF UpOK
    <3>3. \A k \in Lanes : k # cur' =>
            Idle(k)' \/ Resetting(k)' \/ (phase' = "closing" /\ retired'[k])
      BY <1>1, <2>1, <2>2, <3>0 DEF UpOK
    <3>4. \A k \in Lanes : retired'[k] => InLane(k)' \subseteq cut'
      BY <1>1, <1>4, <3>0 DEF UpOK
    <3>5. ASSUME NEW m \in accepted'
          PROVE  \/ m \in cut' \/ m \in Range(read')
                 \/ \E k \in Lanes : w'[k] \notin {"none", "gone"} /\ m \in InLane(k)'
      <4>1. \/ m \in cut \/ m \in Range(read)
            \/ \E k \in Lanes : w[k] \notin {"none", "gone"} /\ m \in InLane(k)
        BY <1>1, <3>0, <3>5 DEF UpOK
      <4>2. ASSUME NEW k \in Lanes, w[k] \notin {"none", "gone"}, m \in InLane(k)
            PROVE  \/ m \in cut' \/ m \in Range(read')
                   \/ w'[k] \notin {"none", "gone"} /\ m \in InLane(k)'
        <5>1. CASE k # l
          BY <1>3, <1>4, <4>2, <5>1
        <5>2. CASE k = l /\ w'[l] # "gone"
          BY <1>1, <4>2, <5>2
        <5>3. CASE k = l /\ w'[l] = "gone"
          BY <1>1, <3>0, <4>2, <5>3 DEF UpOK
        <5> QED BY <5>1, <5>2, <5>3
      <4> QED BY <1>1, <4>1, <4>2
    <3> QED BY <3>1, <3>2, <3>3, <3>4, <3>5 DEF UpOK
  <2> QED BY <1>1, <2>0, <2>1, <2>3 DEF SoloOK
<1> QED BY <1>5, <1>6, <1>7, <1>8 DEF IInv

\* What waits, when the first of the held jobs or of the queue is taken.
LEMMA CountTaken ==
    ASSUME NEW q \in Seq(Ms), NEW h \in Lists
    PROVE  /\ \A t \in Lists : Len(t) = Len(h) - 1 => Len(q) + Len(t) + 1 = Len(q) + Len(h)
           /\ \A t \in Seq(Ms) : Len(t) = Len(q) - 1 => Len(t) + Len(h) + 1 = Len(q) + Len(h)
<1>1. PICK a \in Nat : a = Len(q)
  OBVIOUS
<1>2. PICK b \in Nat : b = Len(h)
  BY DEF Lists
<1>3. a + (b - 1) + 1 = a + b /\ (a - 1) + b + 1 = a + b
  BY ONLY a \in Nat, b \in Nat
<1> QED BY ONLY <1>1, <1>2, <1>3

\* What the invariant says of one lane.
LEMMA OneLane ==
    ASSUME IInv, NEW l \in Lanes
    PROVE  /\ w[l] \in Pcs /\ job[l] \in Seq(Ms) /\ held[l] \in Lists /\ late[l] \in Seq(Msgs)
           /\ queue[l] \in Seq(Ms) /\ queued[l] \in Nat /\ waiting[l] \in Seq(Msgs)
           /\ w[l] \in {"none", "recv"} => job[l] = <<>>
           /\ w[l] \notin {"reply", "gone"} => late[l] = <<>>
           /\ w[l] \notin {"run", "gone"} => waiting[l] = <<>> /\ ~open[l]
           /\ w[l] \in Turn => busy[l]
           /\ busy[l] => w[l] \in Turn \cup {"gone"}
           /\ w[l] \in Turn => Range(job[l]) \subseteq Range(read)
           /\ InLane(l) \subseteq accepted
           /\ busy[l] \in BOOLEAN /\ open[l] \in BOOLEAN /\ retired[l] \in BOOLEAN
  BY DEF IInv, TypeOK, LanesOK, MessagesOK, Ms, Lists

\* The lane takes its next job, or ends.
LEMMA ReceivesStep == ASSUME IInv, NEW l \in Lanes, Receives(l) PROVE IInv'
<1>0. TypeOK /\ LanesOK
  BY DEF IInv
<1>1. /\ w[l] = "recv"
      /\ UNCHANGED <<cur, late, queued, busy, retired, stale, open, waiting, stopped, call, sent,
                     waker, woke, phase, accepted, read, cut, told>>
  BY DEF Receives, state, steering, callers, history
<1>2. /\ job[l] = <<>> /\ late[l] = <<>> /\ waiting[l] = <<>> /\ held[l] \in Lists
      /\ queue[l] \in Seq(Ms) /\ queued[l] \in Nat /\ ~busy[l] /\ ~open[l]
  BY <1>1, OneLane DEF Turn
<1>3. \/ /\ held[l] # <<>> /\ queue' = queue
         /\ job' = [job EXCEPT ![l] = Head(held[l])] /\ held' = [held EXCEPT ![l] = Tail(held[l])]
         /\ w' = [w EXCEPT ![l] = "taken"]
      \/ /\ held[l] = <<>> /\ queue[l] # <<>> /\ held' = held
         /\ job' = [job EXCEPT ![l] = <<Head(queue[l])>>]
         /\ queue' = [queue EXCEPT ![l] = Tail(queue[l])]
         /\ w' = [w EXCEPT ![l] = "taken"]
      \/ /\ held[l] = <<>> /\ queue[l] = <<>> /\ cur # l
         /\ w' = [w EXCEPT ![l] = "gone"] /\ job' = job /\ held' = held /\ queue' = queue
  BY DEF Receives, Goto, HasSender
<1>4. /\ w \in [Lanes -> Pcs] /\ job \in [Lanes -> Seq(Ms)] /\ held \in [Lanes -> Lists]
      /\ queue \in [Lanes -> Seq(Ms)]
  BY <1>0 DEF TypeOK, Ms, Lists
<1>5. /\ w' \in [Lanes -> Pcs] /\ job' \in [Lanes -> Seq(Ms)] /\ held' \in [Lanes -> Lists]
      /\ queue' \in [Lanes -> Seq(Ms)] /\ OnlyIn(l) /\ w'[l] \in {"taken", "gone"}
      /\ (queue[l] = <<>> /\ held[l] = <<>>) <=> w'[l] = "gone"
      /\ w'[l] = "gone" => cur # l
      /\ Len(queue'[l]) + Len(held'[l]) + (IF w'[l] \in Taken THEN 1 ELSE 0)
           = Len(queue[l]) + Len(held[l])
      /\ HeldIn(held[l]) \cup Range(queue[l])
           = Range(job'[l]) \cup HeldIn(held'[l]) \cup Range(queue'[l])
  <2>1. CASE held[l] # <<>>
    <3>1. /\ Head(held[l]) \in Seq(Ms) /\ Tail(held[l]) \in Lists /\ Len(held[l]) \in Nat
          /\ Len(Tail(held[l])) = Len(held[l]) - 1 /\ Len(queue[l]) \in Nat
          /\ HeldIn(held[l]) = Range(Head(held[l])) \cup HeldIn(Tail(held[l]))
      BY <1>2, <2>1, HeldTaken
    <3>2. /\ w'[l] = "taken" /\ job'[l] = Head(held[l]) /\ held'[l] = Tail(held[l])
          /\ queue'[l] = queue[l] /\ w' \in [Lanes -> Pcs] /\ job' \in [Lanes -> Seq(Ms)]
          /\ held' \in [Lanes -> Lists] /\ queue' \in [Lanes -> Seq(Ms)]
      BY <1>3, <1>4, <2>1, <3>1 DEF Pcs
    <3>3. OnlyIn(l)
      BY <1>1, <1>3, <1>4, <2>1 DEF OnlyIn
    <3>4. w'[l] \in Taken
      BY <3>2 DEF Taken
    <3>5. Len(queue'[l]) + Len(held'[l]) + (IF w'[l] \in Taken THEN 1 ELSE 0)
            = Len(queue[l]) + Len(held[l])
      <4>1. Len(queue[l]) + Len(Tail(held[l])) + 1 = Len(queue[l]) + Len(held[l])
        BY ONLY <1>2, <3>1, CountTaken
      <4> QED BY ONLY <3>2, <3>4, <4>1
    <3> QED BY <2>1, <3>1, <3>2, <3>3, <3>5
  <2>2. CASE held[l] = <<>> /\ queue[l] # <<>>
    <3>1. /\ Head(queue[l]) \in Ms /\ Tail(queue[l]) \in Seq(Ms) /\ Len(queue[l]) \in Nat
          /\ Len(Tail(queue[l])) = Len(queue[l]) - 1 /\ Len(held[l]) \in Nat
          /\ Range(queue[l]) = {Head(queue[l])} \cup Range(Tail(queue[l]))
          /\ Range(<<Head(queue[l])>>) = {Head(queue[l])} /\ <<Head(queue[l])>> \in Seq(Ms)
      BY <1>2, <2>2, RangeTaken, RangeOne
    <3>2. /\ w'[l] = "taken" /\ job'[l] = <<Head(queue[l])>> /\ queue'[l] = Tail(queue[l])
          /\ held'[l] = held[l] /\ w' \in [Lanes -> Pcs] /\ job' \in [Lanes -> Seq(Ms)]
          /\ held' \in [Lanes -> Lists] /\ queue' \in [Lanes -> Seq(Ms)]
      BY <1>3, <1>4, <2>2, <3>1 DEF Pcs
    <3>3. OnlyIn(l)
      BY <1>1, <1>3, <1>4, <2>2 DEF OnlyIn
    <3>4. w'[l] \in Taken
      BY <3>2 DEF Taken
    <3>5. Len(queue'[l]) + Len(held'[l]) + (IF w'[l] \in Taken THEN 1 ELSE 0)
            = Len(queue[l]) + Len(held[l])
      <4>1. Len(Tail(queue[l])) + Len(held[l]) + 1 = Len(queue[l]) + Len(held[l])
        BY ONLY <1>2, <3>1, CountTaken
      <4> QED BY ONLY <3>2, <3>4, <4>1
    <3> QED BY <2>2, <3>1, <3>2, <3>3, <3>5
  <2>3. CASE held[l] = <<>> /\ queue[l] = <<>>
    <3>1. /\ w'[l] = "gone" /\ job'[l] = job[l] /\ queue'[l] = queue[l] /\ cur # l
          /\ held'[l] = held[l] /\ w' \in [Lanes -> Pcs] /\ job' \in [Lanes -> Seq(Ms)]
          /\ held' \in [Lanes -> Lists] /\ queue' \in [Lanes -> Seq(Ms)]
      BY <1>3, <1>4, <2>3 DEF Pcs
    <3>2. OnlyIn(l)
      BY <1>1, <1>3, <1>4, <2>3 DEF OnlyIn
    <3>3. w'[l] \notin Taken
      BY <3>1 DEF Taken
    <3> QED BY <1>2, <2>3, <3>1, <3>2, <3>3, RangeEmpty
  <2> QED BY <2>1, <2>2, <2>3
<1>6. TypeOK'
  BY <1>0, <1>1, <1>5 DEF TypeOK, Ms, Lists
<1>7. LanesOK'
  <2>1. \A k \in Lanes \ {l} : /\ w'[k] = w[k] /\ job'[k] = job[k] /\ held'[k] = held[k]
                               /\ queue'[k] = queue[k]
    BY <1>5 DEF OnlyIn
  <2>2. w'[l] \in {"taken", "gone"} /\ late'[l] = <<>> /\ waiting'[l] = <<>> /\ ~open'[l] /\ ~busy'[l]
    BY <1>1, <1>2, <1>5
  <2> QED BY <1>0, <1>1, <2>1, <2>2 DEF LanesOK, Turn
<1>8. LaneStep(l)
  <2>1. Waits(l) = Len(queue[l]) + Len(held[l])
    <3>1. w[l] \notin Taken
      BY <1>1 DEF Taken
    <3>2. Len(queue[l]) \in Nat /\ Len(held[l]) \in Nat
      BY <1>2 DEF Lists
    <3> QED BY <3>1, <3>2 DEF Waits
  <2>2. Waits(l)' = Waits(l) /\ Waits(l) \in Nat
    BY <1>0, <1>5, <2>1, WaitsNat DEF Waits
  <2>3. InLane(l)' = InLane(l)
    <3>1. InLane(l) = Range(queue[l]) \cup HeldIn(held[l])
      BY <1>2, RangeEmpty, InLaneIs
    <3>2. InLane(l)' = Range(queue'[l]) \cup Range(job'[l]) \cup HeldIn(held'[l])
      BY <1>1, <1>2, RangeEmpty DEF InLane, HeldIn
    <3> QED BY <1>5, <3>1, <3>2
  <2>4. w'[l] = "gone" => InLane(l) = {}
    BY <1>2, <1>5, RangeEmpty, InLaneIs
  <2>5. Idle(l) => Idle(l)'
    BY <1>1, <1>5 DEF Idle
  <2>6. w[l] \notin {"none", "gone"} /\ w'[l] # "none" /\ w'[l] \notin Turn
    BY <1>1, <1>5 DEF Turn
  <2> QED BY <1>1, <1>2, <1>5, <2>2, <2>3, <2>4, <2>5, <2>6 DEF LaneStep
<1> QED BY <1>6, <1>7, <1>8, LaneStepKeeps

\* The person's messages are messages.
LEMMA MsgsAreMs == ASSUME NEW s \in Seq(Msgs) PROVE s \in Seq(Ms)
<1>1. s \in [1..Len(s) -> Msgs] /\ Len(s) \in Nat
  OBVIOUS
<1>2. s \in [1..Len(s) -> Ms]
  BY <1>1 DEF Ms
<1> QED BY <1>1, <1>2

\* What waits in a lane, by the numbers of its parts.
LEMMA WaitsOf ==
    ASSUME NEW l, NEW a \in Nat, NEW b \in Nat, a = Len(queue[l]), b = Len(held[l])
    PROVE  Waits(l) = IF w[l] \in Taken THEN a + b + 1 ELSE a + b
<1>1. Waits(l) = a + b + (IF w[l] \in Taken THEN 1 ELSE 0)
  BY DEF Waits
<1> QED BY ONLY <1>1, a \in Nat, b \in Nat

\* The same after a step.
LEMMA WaitsThen ==
    ASSUME NEW l, NEW a \in Nat, NEW b \in Nat, a = Len(queue'[l]), b = Len(held'[l])
    PROVE  Waits(l)' = IF w'[l] \in Taken THEN a + b + 1 ELSE a + b
<1>1. Waits(l)' = a + b + (IF w'[l] \in Taken THEN 1 ELSE 0)
  BY DEF Waits
<1> QED BY ONLY <1>1, a \in Nat, b \in Nat

\* A retired lane ends with the job it took; another goes on.
LEMMA ChecksRetiredStep == ASSUME IInv, NEW l \in Lanes, ChecksRetired(l) PROVE IInv'
<1>0. TypeOK /\ LanesOK
  BY DEF IInv
<1>1. /\ w[l] = "taken"
      /\ UNCHANGED <<cur, job, held, late, queue, queued, busy, retired, stale, open, waiting,
                     stopped, call, sent, waker, woke, phase, accepted, read, cut, told>>
  BY DEF ChecksRetired, state, steering, callers, history
<1>2. /\ late[l] = <<>> /\ waiting[l] = <<>> /\ held[l] \in Lists
      /\ queue[l] \in Seq(Ms) /\ queued[l] \in Nat /\ ~busy[l] /\ ~open[l]
  BY <1>1, OneLane DEF Turn
<1>3. \/ w' = [w EXCEPT ![l] = "gone"] /\ retired[l]
      \/ \E pc \in {"merge", "begin"} : w' = [w EXCEPT ![l] = pc]
  BY DEF ChecksRetired, Goto
<1>4. w \in [Lanes -> Pcs]
  BY <1>0 DEF TypeOK
<1>5. /\ w' \in [Lanes -> Pcs] /\ w'[l] \in {"gone", "merge", "begin"}
      /\ w'[l] = "gone" => retired[l]
      /\ \A k \in Lanes \ {l} : w'[k] = w[k]
  BY <1>3, <1>4 DEF Pcs
<1>6. TypeOK'
  BY <1>0, <1>1, <1>5 DEF TypeOK
<1>7. LanesOK'
  BY <1>0, <1>1, <1>2, <1>5 DEF LanesOK, Turn
<1>8. LaneStep(l)
  <2>1. PICK a \in Nat : a = Len(queue[l])
    BY <1>2
  <2>2. PICK b \in Nat : b = Len(held[l])
    BY <1>2 DEF Lists
  <2>3. Waits(l) = a + b + 1
    BY <1>1, <2>1, <2>2, WaitsOf DEF Taken
  <2>4. Waits(l)' = (IF w'[l] = "gone" THEN a + b ELSE a + b + 1)
    BY <1>1, <1>5, <2>1, <2>2, WaitsThen DEF Taken
  <2>5. \/ queued'[l] - Waits(l)' = queued[l] - Waits(l)
        \/ retired[l] /\ queued'[l] - Waits(l)' >= queued[l] - Waits(l)
    BY <1>1, <1>2, <1>5, <2>3, <2>4
  <2>6. InLane(l)' = InLane(l)
    BY <1>1, InLaneStays
  <2>7. OnlyIn(l)
    BY <1>1, <1>5 DEF OnlyIn
  <2>8. /\ w[l] \notin {"none", "gone"} /\ w'[l] # "none" /\ w'[l] \notin Turn /\ ~Idle(l)
    BY <1>1, <1>5 DEF Turn, Idle
  <2> QED BY <1>1, <1>5, <2>5, <2>6, <2>7, <2>8 DEF LaneStep
<1> QED BY <1>6, <1>7, <1>8, LaneStepKeeps

\* TurnGuard::arm moves the lane on.
LEMMA ArmsStep == ASSUME IInv, NEW l \in Lanes, Arms(l) PROVE IInv'
<1>0. TypeOK /\ LanesOK
  BY DEF IInv
<1>1. /\ w[l] = "start" /\ stopped' = [stopped EXCEPT ![l] = FALSE] /\ w' = [w EXCEPT ![l] = "armed"]
      /\ UNCHANGED <<cur, job, held, late, queue, queued, busy, retired, stale, open, waiting,
                     call, sent, waker, woke, phase, accepted, read, cut, told>>
  BY DEF Arms, Goto, state, steering, callers, history
<1>2. /\ late[l] = <<>> /\ waiting[l] = <<>> /\ busy[l] /\ ~open[l]
      /\ Range(job[l]) \subseteq Range(read)
  BY <1>1, OneLane DEF Turn
<1>3. w \in [Lanes -> Pcs] /\ stopped \in [Lanes -> BOOLEAN]
  BY <1>0 DEF TypeOK
<1>4. /\ w' \in [Lanes -> Pcs] /\ w'[l] = "armed" /\ \A k \in Lanes \ {l} : w'[k] = w[k]
      /\ stopped' \in [Lanes -> BOOLEAN]
  BY <1>1, <1>3 DEF Pcs
<1>5. TypeOK'
  BY <1>0, <1>1, <1>4 DEF TypeOK
<1>6. LanesOK'
  BY <1>0, <1>1, <1>2, <1>4 DEF LanesOK, Turn
<1>7. LaneStep(l)
  <2>1. Waits(l)' = Waits(l)
    BY <1>1, <1>4 DEF Waits, Taken
  <2>2. InLane(l)' = InLane(l)
    BY <1>1, InLaneStays
  <2>3. OnlyIn(l)
    BY <1>1, <1>4 DEF OnlyIn
  <2>4. w[l] \notin {"none", "gone"} /\ w'[l] \notin {"none", "gone"} /\ ~Idle(l)
    BY <1>1, <1>4 DEF Idle
  <2> QED BY <1>1, <1>2, <2>1, <2>2, <2>3, <2>4 DEF LaneStep
<1> QED BY <1>5, <1>6, <1>7, LaneStepKeeps

\* The turn runs, and may be open to steering.
LEMMA OpensStep == ASSUME IInv, NEW l \in Lanes, Opens(l) PROVE IInv'
<1>0. TypeOK /\ LanesOK
  BY DEF IInv
<1>1. /\ w[l] = "armed" /\ w' = [w EXCEPT ![l] = "run"]
      /\ open' = [open EXCEPT ![l] = open[l] \/ Person(job[l][1])]
      /\ UNCHANGED <<cur, job, held, late, queue, queued, busy, retired, stale, waiting, stopped,
                     call, sent, waker, woke, phase, accepted, read, cut, told>>
  BY DEF Opens, Goto, state, steering, callers, history
<1>2. /\ late[l] = <<>> /\ waiting[l] = <<>> /\ busy[l] /\ ~open[l]
      /\ Range(job[l]) \subseteq Range(read)
  BY <1>1, OneLane DEF Turn
<1>3. w \in [Lanes -> Pcs] /\ open \in [Lanes -> BOOLEAN]
  BY <1>0 DEF TypeOK
<1>4. /\ w' \in [Lanes -> Pcs] /\ w'[l] = "run" /\ \A k \in Lanes \ {l} : w'[k] = w[k]
      /\ \A k \in Lanes \ {l} : open'[k] = open[k]
  BY <1>1, <1>3 DEF Pcs
<1>5. open' \in [Lanes -> BOOLEAN]
  <2>1. (open[l] \/ Person(job[l][1])) \in BOOLEAN
    BY DEF Person
  <2> QED BY <1>1, <1>3, <2>1
<1>6. TypeOK'
  BY <1>0, <1>1, <1>4, <1>5 DEF TypeOK
<1>7. LanesOK'
  BY <1>0, <1>1, <1>2, <1>4 DEF LanesOK, Turn
<1>8. LaneStep(l)
  <2>1. Waits(l)' = Waits(l)
    BY <1>1, <1>4 DEF Waits, Taken
  <2>2. InLane(l)' = InLane(l)
    BY <1>1, InLaneStays
  <2>3. OnlyIn(l)
    BY <1>1, <1>4 DEF OnlyIn
  <2>4. w[l] \notin {"none", "gone"} /\ w'[l] \notin {"none", "gone"} /\ ~Idle(l)
    BY <1>1, <1>4 DEF Idle
  <2> QED BY <1>1, <1>2, <2>1, <2>2, <2>3, <2>4 DEF LaneStep
<1> QED BY <1>6, <1>7, <1>8, LaneStepKeeps

\* What waits joins the job or is held, and the lane goes on when the queue is empty.
LEMMA MergesNextStep == ASSUME IInv, NEW l \in Lanes, MergesNext(l) PROVE IInv'
<1>0. TypeOK /\ LanesOK
  BY DEF IInv
<1>1. /\ w[l] = "merge"
      /\ UNCHANGED <<cur, late, busy, retired, stale, open, waiting, stopped, call, sent, waker,
                     woke, phase, accepted, read, cut, told>>
  BY DEF MergesNext, steering, callers, history
<1>2. /\ late[l] = <<>> /\ waiting[l] = <<>> /\ held[l] \in Lists /\ job[l] \in Seq(Ms)
      /\ queue[l] \in Seq(Ms) /\ queued[l] \in Nat /\ ~busy[l] /\ ~open[l]
  BY <1>1, OneLane DEF Turn
<1>3. /\ w \in [Lanes -> Pcs] /\ job \in [Lanes -> Seq(Ms)] /\ held \in [Lanes -> Lists]
      /\ queue \in [Lanes -> Seq(Ms)] /\ queued \in [Lanes -> Nat]
  BY <1>0 DEF TypeOK, Ms, Lists
<1>4. PICK a \in Nat : a = Len(queue[l])
  BY <1>2
<1>5. PICK b \in Nat : b = Len(held[l])
  BY <1>2 DEF Lists
<1>6. Waits(l) = a + b + 1
  BY <1>1, <1>4, <1>5, WaitsOf DEF Taken
<1>7. InLane(l) = Range(queue[l]) \cup Range(job[l]) \cup HeldIn(held[l])
  BY <1>2, RangeEmpty, InLaneIs
<1>8. /\ w' \in [Lanes -> Pcs] /\ job' \in [Lanes -> Seq(Ms)] /\ held' \in [Lanes -> Lists]
      /\ queue' \in [Lanes -> Seq(Ms)] /\ queued' \in [Lanes -> Nat]
      /\ OnlyIn(l) /\ w'[l] \in {"merge", "begin"}
      /\ queued[l] >= Waits(l) => queued'[l] - Waits(l)' = queued[l] - Waits(l)
      /\ Range(queue[l]) \cup Range(job[l]) \cup HeldIn(held[l])
           = Range(queue'[l]) \cup Range(job'[l]) \cup HeldIn(held'[l])
  <2>1. CASE /\ queue[l] # <<>> /\ Person(Head(queue[l]))
             /\ job' = [job EXCEPT ![l] = Append(job[l], Head(queue[l]))]
             /\ queued' = [queued EXCEPT ![l] = IF queued[l] = 0 THEN 0 ELSE queued[l] - 1]
             /\ queue' = [queue EXCEPT ![l] = Tail(queue[l])]
             /\ w' = w /\ held' = held
    <3>1. /\ Head(queue[l]) \in Ms /\ Tail(queue[l]) \in Seq(Ms)
          /\ Len(Tail(queue[l])) = Len(queue[l]) - 1 /\ Len(queue[l]) > 0
          /\ Range(queue[l]) = {Head(queue[l])} \cup Range(Tail(queue[l]))
      BY <1>2, <2>1, RangeTaken
    <3>2. /\ Append(job[l], Head(queue[l])) \in Seq(Ms)
          /\ Range(Append(job[l], Head(queue[l]))) = Range(job[l]) \cup {Head(queue[l])}
      BY <1>2, <3>1, RangeAppended
    <3>3. (IF queued[l] = 0 THEN 0 ELSE queued[l] - 1) \in Nat
      BY <1>2
    <3>4. /\ w' \in [Lanes -> Pcs] /\ job' \in [Lanes -> Seq(Ms)] /\ held' \in [Lanes -> Lists]
          /\ queue' \in [Lanes -> Seq(Ms)] /\ queued' \in [Lanes -> Nat]
          /\ w'[l] = "merge" /\ job'[l] = Append(job[l], Head(queue[l])) /\ held'[l] = held[l]
          /\ queue'[l] = Tail(queue[l]) /\ queued'[l] = IF queued[l] = 0 THEN 0 ELSE queued[l] - 1
      BY <1>1, <1>3, <2>1, <3>1, <3>2, <3>3
    <3>5. OnlyIn(l)
      BY <1>1, <1>3, <2>1 DEF OnlyIn
    <3>6. a - 1 \in Nat /\ a - 1 = Len(queue'[l]) /\ b = Len(held'[l])
      BY <1>4, <1>5, <3>1, <3>4
    <3>7. Waits(l)' = (a - 1) + b + 1
      BY <3>4, <3>6, WaitsThen DEF Taken
    <3>8. queued[l] >= Waits(l) => queued'[l] - Waits(l)' = queued[l] - Waits(l)
      BY <1>2, <1>6, <3>4, <3>7
    <3> QED BY <3>1, <3>2, <3>4, <3>5, <3>8
  <2>2. CASE /\ queue[l] # <<>> /\ ~Person(Head(queue[l]))
             /\ held' = [held EXCEPT ![l] = Append(held[l], <<Head(queue[l])>>)]
             /\ queue' = [queue EXCEPT ![l] = Tail(queue[l])]
             /\ w' = [w EXCEPT ![l] = "begin"] /\ job' = job /\ queued' = queued
    <3>1. /\ Head(queue[l]) \in Ms /\ Tail(queue[l]) \in Seq(Ms)
          /\ Len(Tail(queue[l])) = Len(queue[l]) - 1 /\ Len(queue[l]) > 0
          /\ Range(queue[l]) = {Head(queue[l])} \cup Range(Tail(queue[l]))
      BY <1>2, <2>2, RangeTaken
    <3>2. <<Head(queue[l])>> \in Seq(Ms) /\ Range(<<Head(queue[l])>>) = {Head(queue[l])}
      BY <3>1, RangeOne
    <3>3. /\ Append(held[l], <<Head(queue[l])>>) \in Lists
          /\ Len(Append(held[l], <<Head(queue[l])>>)) = Len(held[l]) + 1
          /\ HeldIn(Append(held[l], <<Head(queue[l])>>)) = HeldIn(held[l]) \cup {Head(queue[l])}
      BY <1>2, <3>2, HeldAppended
    <3>4. /\ w' \in [Lanes -> Pcs] /\ job' \in [Lanes -> Seq(Ms)] /\ held' \in [Lanes -> Lists]
          /\ queue' \in [Lanes -> Seq(Ms)] /\ queued' \in [Lanes -> Nat]
          /\ w'[l] = "begin" /\ job'[l] = job[l] /\ queued'[l] = queued[l]
          /\ held'[l] = Append(held[l], <<Head(queue[l])>>) /\ queue'[l] = Tail(queue[l])
      BY <1>1, <1>3, <2>2, <3>1, <3>3 DEF Pcs
    <3>5. OnlyIn(l)
      BY <1>1, <1>3, <2>2 DEF OnlyIn
    <3>6. a - 1 \in Nat /\ b + 1 \in Nat /\ a - 1 = Len(queue'[l]) /\ b + 1 = Len(held'[l])
      BY <1>4, <1>5, <3>1, <3>3, <3>4
    <3>7. Waits(l)' = (a - 1) + (b + 1) + 1
      BY <3>4, <3>6, WaitsThen DEF Taken
    <3>8. queued[l] >= Waits(l) => queued'[l] - Waits(l)' = queued[l] - Waits(l)
      BY <1>2, <1>6, <3>4, <3>7
    <3> QED BY <3>1, <3>3, <3>4, <3>5, <3>8
  <2>3. CASE /\ queue[l] = <<>> /\ w' = [w EXCEPT ![l] = "begin"] /\ job' = job
             /\ held' = held /\ queue' = queue /\ queued' = queued
    <3>1. w' \in [Lanes -> Pcs] /\ w'[l] = "begin"
      BY <1>3, <2>3 DEF Pcs
    <3>2. OnlyIn(l)
      BY <1>1, <1>3, <2>3 DEF OnlyIn
    <3>3. Waits(l)' = Waits(l)
      BY <1>1, <2>3, <3>1 DEF Waits, Taken
    <3> QED BY <1>2, <1>3, <1>6, <2>3, <3>1, <3>2, <3>3
  <2> QED BY <2>1, <2>2, <2>3 DEF MergesNext, Goto
<1>9. TypeOK'
  BY <1>0, <1>1, <1>8 DEF TypeOK, Ms, Lists
<1>10. LanesOK'
  <2>1. \A k \in Lanes \ {l} : /\ w'[k] = w[k] /\ job'[k] = job[k] /\ held'[k] = held[k]
                               /\ queue'[k] = queue[k] /\ queued'[k] = queued[k]
    BY <1>8 DEF OnlyIn
  <2>2. w'[l] \in {"merge", "begin"} /\ late'[l] = <<>> /\ waiting'[l] = <<>> /\ ~open'[l] /\ ~busy'[l]
    BY <1>1, <1>2, <1>8
  <2> QED BY <1>0, <1>1, <2>1, <2>2 DEF LanesOK, Turn
<1>11. LaneStep(l)
  <2>1. InLane(l)' = Range(queue'[l]) \cup Range(job'[l]) \cup HeldIn(held'[l])
    BY <1>1, <1>2, RangeEmpty DEF InLane, HeldIn
  <2>2. w[l] \notin {"none", "gone"} /\ w'[l] \notin {"none", "gone"} \cup Turn /\ ~Idle(l)
    BY <1>1, <1>8 DEF Turn, Idle
  <2> QED BY <1>1, <1>7, <1>8, <2>1, <2>2 DEF LaneStep
<1> QED BY <1>9, <1>10, <1>11, LaneStepKeeps

\* LaneWatch::start: the turn answers the job's messages.
LEMMA StartsStep == ASSUME IInv, NEW l \in Lanes, Starts(l) PROVE IInv'
<1>0. TypeOK /\ LanesOK
  BY DEF IInv
<1>1. /\ w[l] = "begin" /\ w' = [w EXCEPT ![l] = "start"]
      /\ queued' = [queued EXCEPT ![l] = IF queued[l] = 0 THEN 0 ELSE queued[l] - 1]
      /\ busy' = [busy EXCEPT ![l] = TRUE] /\ read' = read \o job[l]
      /\ UNCHANGED <<cur, job, held, late, queue, retired, stale, open, waiting, stopped, call,
                     sent, waker, woke, phase, accepted, cut, told>>
  BY DEF Starts, Goto, steering, callers
<1>2. /\ late[l] = <<>> /\ waiting[l] = <<>> /\ held[l] \in Lists /\ job[l] \in Seq(Ms)
      /\ queue[l] \in Seq(Ms) /\ queued[l] \in Nat /\ ~open[l]
  BY <1>1, OneLane DEF Turn
<1>3. /\ w \in [Lanes -> Pcs] /\ queued \in [Lanes -> Nat] /\ busy \in [Lanes -> BOOLEAN]
      /\ read \in Seq(Ms)
  BY <1>0 DEF TypeOK, Ms
<1>4. (IF queued[l] = 0 THEN 0 ELSE queued[l] - 1) \in Nat
  BY <1>2
<1>5. /\ w' \in [Lanes -> Pcs] /\ queued' \in [Lanes -> Nat] /\ busy' \in [Lanes -> BOOLEAN]
      /\ w'[l] = "start" /\ queued'[l] = (IF queued[l] = 0 THEN 0 ELSE queued[l] - 1) /\ busy'[l]
      /\ \A k \in Lanes \ {l} : w'[k] = w[k] /\ queued'[k] = queued[k] /\ busy'[k] = busy[k]
  BY <1>1, <1>3, <1>4 DEF Pcs
<1>6. read' \in Seq(Ms) /\ Range(read') = Range(read) \cup Range(job[l])
  BY <1>1, <1>2, <1>3, RangeConcatenation
<1>7. TypeOK'
  BY <1>0, <1>1, <1>5, <1>6 DEF TypeOK, Ms
<1>8. LanesOK'
  BY <1>0, <1>1, <1>2, <1>5 DEF LanesOK, Turn
<1>9. LaneStep(l)
  <2>1. PICK a \in Nat : a = Len(queue[l])
    BY <1>2
  <2>2. PICK b \in Nat : b = Len(held[l])
    BY <1>2 DEF Lists
  <2>3. Waits(l) = a + b + 1
    BY <1>1, <2>1, <2>2, WaitsOf DEF Taken
  <2>4. Waits(l)' = a + b
    <3>1. a = Len(queue'[l]) /\ b = Len(held'[l]) /\ w'[l] \notin Taken
      BY <1>1, <1>5, <2>1, <2>2 DEF Taken
    <3> QED BY <3>1, WaitsThen
  <2>5. queued[l] >= Waits(l) => queued'[l] - Waits(l)' = queued[l] - Waits(l)
    BY <1>2, <1>5, <2>3, <2>4
  <2>6. InLane(l)' = InLane(l)
    BY <1>1, InLaneStays
  <2>7. OnlyIn(l)
    BY <1>1, <1>5 DEF OnlyIn
  <2>8. w[l] \notin {"none", "gone"} /\ w'[l] \notin {"none", "gone"} /\ ~Idle(l)
    BY <1>1, <1>5 DEF Idle
  <2> QED BY <1>1, <1>6, <2>5, <2>6, <2>7, <2>8 DEF LaneStep
<1> QED BY <1>7, <1>8, <1>9, LaneStepKeeps

\* The running turn reads what steered it.
LEMMA TurnReadsStep == ASSUME IInv, NEW l \in Lanes, TurnReads(l) PROVE IInv'
<1>0. TypeOK /\ LanesOK
  BY DEF IInv
<1>1. /\ w[l] = "run" /\ read' = read \o waiting[l] /\ waiting' = [waiting EXCEPT ![l] = <<>>]
      /\ UNCHANGED <<cur, w, job, held, late, queue, queued, busy, retired, stale, open, stopped,
                     call, sent, waker, woke, phase, accepted, cut, told>>
  BY DEF TurnReads, task, state, callers
<1>2. waiting[l] \in Seq(Ms) /\ Range(job[l]) \subseteq Range(read)
  BY <1>1, OneLane, MsgsAreMs DEF Turn
<1>3. waiting \in [Lanes -> Seq(Msgs)] /\ read \in Seq(Ms)
  BY <1>0 DEF TypeOK, Ms
<1>4. /\ waiting' \in [Lanes -> Seq(Msgs)] /\ waiting'[l] = <<>>
      /\ \A k \in Lanes \ {l} : waiting'[k] = waiting[k]
  BY <1>1, <1>3
<1>5. read' \in Seq(Ms) /\ Range(read') = Range(read) \cup Range(waiting[l])
  BY <1>1, <1>2, <1>3, RangeConcatenation
<1>6. TypeOK'
  BY <1>0, <1>1, <1>4, <1>5 DEF TypeOK, Ms
<1>7. LanesOK'
  BY <1>0, <1>1, <1>4 DEF LanesOK
<1>8. LaneStep(l)
  <2>1. Waits(l)' = Waits(l)
    BY <1>1 DEF Waits
  <2>2. InLane(l) = InLane(l)' \cup Range(waiting[l])
    <3>1. InLane(l)' = Range(queue[l]) \cup Range(job[l]) \cup Range(late[l]) \cup HeldIn(held[l])
      BY <1>1, <1>4, RangeEmpty DEF InLane, HeldIn
    <3> QED BY <3>1, InLaneIs
  <2>3. OnlyIn(l)
    BY <1>1, <1>4 DEF OnlyIn
  <2>4. w[l] \notin {"none", "gone"} /\ w'[l] \notin {"none", "gone"} /\ ~Idle(l)
    BY <1>1 DEF Idle
  <2> QED BY <1>1, <1>2, <1>5, <2>1, <2>2, <2>3, <2>4 DEF LaneStep
<1> QED BY <1>6, <1>7, <1>8, LaneStepKeeps

\* The turn is over: what it did not read is late.
LEMMA TurnEndsStep == ASSUME IInv, NEW l \in Lanes, TurnEnds(l) PROVE IInv'
<1>0. TypeOK /\ LanesOK
  BY DEF IInv
<1>1. /\ w[l] = "run" /\ w' = [w EXCEPT ![l] = "reply"]
      /\ open' = [open EXCEPT ![l] = FALSE] /\ late' = [late EXCEPT ![l] = waiting[l]]
      /\ waiting' = [waiting EXCEPT ![l] = <<>>]
      /\ UNCHANGED <<cur, job, held, queue, queued, busy, retired, stale, stopped,
                     call, sent, waker, woke, phase, accepted, read, cut, told>>
  BY DEF TurnEnds, Goto, state, callers, history
<1>2. /\ waiting[l] \in Seq(Msgs) /\ Range(job[l]) \subseteq Range(read) /\ late[l] = <<>> /\ busy[l]
  BY <1>1, OneLane DEF Turn
<1>3. /\ waiting \in [Lanes -> Seq(Msgs)] /\ late \in [Lanes -> Seq(Msgs)]
      /\ open \in [Lanes -> BOOLEAN] /\ w \in [Lanes -> Pcs]
  BY <1>0 DEF TypeOK
<1>4. /\ waiting' \in [Lanes -> Seq(Msgs)] /\ waiting'[l] = <<>>
      /\ late' \in [Lanes -> Seq(Msgs)] /\ late'[l] = waiting[l]
      /\ open' \in [Lanes -> BOOLEAN] /\ ~open'[l] /\ w' \in [Lanes -> Pcs] /\ w'[l] = "reply"
      /\ \A k \in Lanes \ {l} : /\ waiting'[k] = waiting[k] /\ late'[k] = late[k]
                                /\ open'[k] = open[k] /\ w'[k] = w[k]
  BY <1>1, <1>2, <1>3 DEF Pcs
<1>5. TypeOK'
  BY <1>0, <1>1, <1>4 DEF TypeOK
<1>6. LanesOK'
  BY <1>0, <1>1, <1>2, <1>4 DEF LanesOK, Turn
<1>7. LaneStep(l)
  <2>1. Waits(l)' = Waits(l)
    BY <1>1, <1>4 DEF Waits, Taken
  <2>2. InLane(l) = InLane(l)'
    <3>1. InLane(l)' = Range(queue[l]) \cup Range(job[l]) \cup Range(waiting[l]) \cup HeldIn(held[l])
      BY <1>1, <1>4, RangeEmpty DEF InLane, HeldIn
    <3> QED BY <1>2, <3>1, InLaneIs, RangeEmpty
  <2>3. OnlyIn(l)
    BY <1>1, <1>4 DEF OnlyIn
  <2>4. w[l] \notin {"none", "gone"} /\ w'[l] \notin {"none", "gone"} /\ ~Idle(l)
    BY <1>1, <1>4 DEF Idle
  <2> QED BY <1>1, <1>2, <2>1, <2>2, <2>3, <2>4 DEF LaneStep
<1> QED BY <1>5, <1>6, <1>7, LaneStepKeeps

\* LaneWatch::finish: what came too late is the next job.
LEMMA FinishesStep == ASSUME IInv, NEW l \in Lanes, Finishes(l) PROVE IInv'
<1>0. TypeOK /\ LanesOK
  BY DEF IInv
<1>1. /\ w[l] = "reply" /\ w' = [w EXCEPT ![l] = "recv"]
      /\ late' = [late EXCEPT ![l] = <<>>] /\ job' = [job EXCEPT ![l] = <<>>]
      /\ busy' = [busy EXCEPT ![l] = FALSE]
      /\ UNCHANGED <<cur, queue, retired, stale, open, waiting, stopped, call, sent, waker, woke,
                     phase, accepted, read, cut, told>>
  BY DEF Finishes, Goto, steering, callers, history
<1>2. /\ waiting[l] = <<>> /\ Range(job[l]) \subseteq Range(read) /\ late[l] \in Seq(Msgs)
      /\ held[l] \in Lists /\ queue[l] \in Seq(Ms) /\ queued[l] \in Nat /\ ~open[l]
  BY <1>1, OneLane DEF Turn
<1>3. /\ w \in [Lanes -> Pcs] /\ late \in [Lanes -> Seq(Msgs)] /\ job \in [Lanes -> Seq(Ms)]
      /\ busy \in [Lanes -> BOOLEAN] /\ held \in [Lanes -> Lists] /\ queued \in [Lanes -> Nat]
  BY <1>0 DEF TypeOK, Ms, Lists
<1>4. /\ w' \in [Lanes -> Pcs] /\ w'[l] = "recv" /\ late' \in [Lanes -> Seq(Msgs)] /\ late'[l] = <<>>
      /\ job' \in [Lanes -> Seq(Ms)] /\ job'[l] = <<>> /\ busy' \in [Lanes -> BOOLEAN] /\ ~busy'[l]
      /\ \A k \in Lanes \ {l} : /\ w'[k] = w[k] /\ late'[k] = late[k]
                                /\ job'[k] = job[k] /\ busy'[k] = busy[k]
  BY <1>1, <1>3 DEF Pcs
<1>5. PICK a \in Nat : a = Len(queue[l])
  BY <1>2
<1>6. PICK b \in Nat : b = Len(held[l])
  BY <1>2 DEF Lists
<1>7. Waits(l) = a + b
  <2>1. w[l] \notin Taken
    BY <1>1 DEF Taken
  <2> QED BY <1>5, <1>6, <2>1, WaitsOf
<1>8. /\ held' \in [Lanes -> Lists] /\ queued' \in [Lanes -> Nat]
      /\ \A k \in Lanes \ {l} : held'[k] = held[k] /\ queued'[k] = queued[k]
      /\ HeldIn(held'[l]) = HeldIn(held[l]) \cup Range(late[l])
      /\ queued'[l] - Waits(l)' = queued[l] - Waits(l)
  <2>0. w'[l] \notin Taken /\ queue'[l] = queue[l]
    BY <1>1, <1>4 DEF Taken
  <2>1. CASE late[l] = <<>>
    <3>1. held' = held /\ queued' = queued
      BY <2>1 DEF Finishes
    <3>2. Waits(l)' = a + b
      BY <1>5, <1>6, <2>0, <3>1, WaitsThen
    <3> QED BY <1>2, <1>3, <1>7, <2>1, <3>1, <3>2, RangeEmpty
  <2>2. CASE late[l] # <<>>
    <3>1. /\ held' = [held EXCEPT ![l] = <<late[l]>> \o held[l]]
          /\ queued' = [queued EXCEPT ![l] = queued[l] + 1]
      BY <2>2 DEF Finishes
    <3>2. /\ <<late[l]>> \o held[l] \in Lists /\ Len(<<late[l]>> \o held[l]) = Len(held[l]) + 1
          /\ HeldIn(<<late[l]>> \o held[l]) = HeldIn(held[l]) \cup Range(late[l])
      BY <1>2, HeldFirst, MsgsAreMs
    <3>3. /\ held' \in [Lanes -> Lists] /\ held'[l] = <<late[l]>> \o held[l]
          /\ queued' \in [Lanes -> Nat] /\ queued'[l] = queued[l] + 1
          /\ \A k \in Lanes \ {l} : held'[k] = held[k] /\ queued'[k] = queued[k]
      BY <1>2, <1>3, <3>1, <3>2
    <3>4. b + 1 \in Nat /\ b + 1 = Len(held'[l])
      BY <1>6, <3>2, <3>3
    <3>5. Waits(l)' = a + (b + 1)
      BY <1>5, <2>0, <3>4, WaitsThen
    <3>6. queued'[l] - Waits(l)' = queued[l] - Waits(l)
      BY <1>2, <1>7, <3>3, <3>5
    <3> QED BY <3>2, <3>3, <3>6
  <2> QED BY <2>1, <2>2
<1>9. TypeOK'
  BY <1>0, <1>1, <1>4, <1>8 DEF TypeOK, Ms, Lists
<1>10. LanesOK'
  BY <1>0, <1>1, <1>2, <1>4, <1>8 DEF LanesOK, Turn
<1>11. LaneStep(l)
  <2>1. InLane(l)' = Range(queue[l]) \cup Range(late[l]) \cup HeldIn(held[l])
    BY <1>1, <1>2, <1>4, <1>8, RangeEmpty DEF InLane, HeldIn
  <2>2. InLane(l) = Range(queue[l]) \cup Range(job[l]) \cup Range(late[l]) \cup HeldIn(held[l])
    BY <1>2, RangeEmpty, InLaneIs
  <2>3. OnlyIn(l)
    BY <1>1, <1>4, <1>8 DEF OnlyIn
  <2>4. w[l] \notin {"none", "gone"} /\ w'[l] \notin {"none", "gone"} \cup Turn /\ ~Idle(l)
    BY <1>1, <1>4 DEF Idle, Turn
  <2> QED BY <1>1, <1>2, <1>8, <2>1, <2>2, <2>3, <2>4 DEF LaneStep
<1> QED BY <1>9, <1>10, <1>11, LaneStepKeeps

-----------------------------------------------------------------------------
(* Steps that change no lane *)

LanesSame ==
    UNCHANGED <<w, job, held, late, queue, queued, busy, retired, open, waiting>>

\* What is said of the lanes stays true.
LEMMA SameLanes ==
    ASSUME LanesSame
    PROVE  /\ LanesOK => LanesOK'
           /\ \A l : Waits(l)' = Waits(l) /\ InLane(l)' = InLane(l)
<1>1. /\ w' = w /\ job' = job /\ held' = held /\ late' = late /\ queue' = queue
      /\ queued' = queued /\ busy' = busy /\ retired' = retired /\ open' = open
      /\ waiting' = waiting
  BY DEF LanesSame
<1>2. LanesOK => LanesOK'
  BY <1>1 DEF LanesOK
<1> QED BY <1>1, <1>2 DEF Waits, InLane

\* Nor do they change what the callers do and the chat's messages.
LEMMA SameStep ==
    ASSUME IInv, TypeOK', LanesSame, UNCHANGED <<cur, call, accepted, read, cut>>,
           sent # 0 => sent' # 0, waker' = "checked" => woke' < MaxNews,
           phase' = phase \/ (phase # "up" /\ phase' \notin {"up", "closing"})
    PROVE  IInv'
<1>0. TypeOK /\ CallsOK /\ LanesOK /\ CountsOK /\ MessagesOK /\ (~Beside => SoloOK)
  BY DEF IInv
<1>1. /\ w' = w /\ job' = job /\ held' = held /\ late' = late /\ queue' = queue
      /\ queued' = queued /\ busy' = busy /\ retired' = retired /\ open' = open
      /\ waiting' = waiting
  BY DEF LanesSame
<1>2. /\ LanesOK' /\ \A l : Waits(l)' = Waits(l) /\ InLane(l)' = InLane(l)
  BY <1>0, SameLanes
<1>3. CallsOK'
  BY <1>0, <1>1 DEF CallsOK
<1>4. CountsOK'
  <2>1. \A l \in Lanes : Counted(l)' = Counted(l)
    BY <1>2 DEF Counted, Offering
  <2> QED BY <1>0, <1>1, <2>1 DEF CountsOK
<1>5. MessagesOK'
  BY <1>0, <1>1, <1>2 DEF MessagesOK
<1>6. ASSUME ~Beside PROVE SoloOK'
  <2>0. SoloOK
    BY <1>0, <1>6
  <2>1. \A l \in Lanes : (Idle(l)' <=> Idle(l)) /\ (Resetting(l)' <=> Resetting(l))
    BY <1>1 DEF Idle, Resetting
  <2>2. ASSUME phase' \in {"up", "closing"} PROVE UpOK'
    <3>0. phase' = phase /\ UpOK
      BY <2>0, <2>2 DEF SoloOK
    <3> QED BY <1>1, <1>2, <2>1, <3>0 DEF UpOK
  <2> QED BY <2>0, <2>1, <2>2 DEF SoloOK
<1> QED BY <1>2, <1>3, <1>4, <1>5, <1>6 DEF IInv

\* No agent can be built.
LEMMA OfferRefusedStep == ASSUME IInv, OfferRefused PROVE IInv'
<1>0. TypeOK
  BY DEF IInv
<1>1. /\ sent < MaxMsgs /\ sent' = sent + 1
      /\ UNCHANGED <<cur, w, job, held, late, queue, queued, busy, retired, stale, open, waiting,
                     stopped, call, waker, woke, phase, accepted, read, cut, told>>
  BY DEF OfferRefused, task, state, steering, history
<1>2. sent' \in 0..MaxMsgs /\ sent' # 0
  BY <1>0, <1>1 DEF TypeOK
<1>3. TypeOK'
  BY <1>0, <1>1, <1>2 DEF TypeOK
<1>4. waker' = "checked" => woke' < MaxNews
  BY <1>1 DEF IInv, CallsOK
<1> QED BY <1>1, <1>2, <1>3, <1>4, SameStep DEF LanesSame

\* The supervisor asks for a wake-up.
LEMMA WakeChecksStep == ASSUME IInv, WakeChecks PROVE IInv'
<1>0. TypeOK
  BY DEF IInv
<1>1. /\ woke < MaxNews /\ waker' = "checked"
      /\ UNCHANGED <<cur, w, job, held, late, queue, queued, busy, retired, stale, open, waiting,
                     stopped, call, sent, woke, phase, accepted, read, cut, told>>
  BY DEF WakeChecks, task, state, steering, history
<1>2. TypeOK'
  BY <1>0, <1>1 DEF TypeOK
<1> QED BY <1>1, <1>2, SameStep DEF LanesSame

\* The map's lane is a lane.
LEMMA CurIsLane == ASSUME TypeOK, cur # 0 PROVE cur \in Lanes
  BY DEF TypeOK, Lanes

\* A turn is asked to stop.
LEMMA StopsStep == ASSUME IInv, Stops \/ DrainStops \/ Drained PROVE IInv'
<1>0. TypeOK
  BY DEF IInv
<1>1. /\ UNCHANGED <<cur, w, job, held, late, queue, queued, busy, retired, stale, open, waiting,
                     call, sent, waker, woke, accepted, read, cut, told>>
      /\ phase' = phase \/ (phase # "up" /\ phase' \in {"stopping", "down"})
      /\ stopped' = stopped \/ (cur # 0 /\ stopped' = [stopped EXCEPT ![cur] = TRUE])
  BY DEF Stops, DrainStops, Drained, Running, task, state, steering, callers, history
<1>2. stopped' \in [Lanes -> BOOLEAN]
  BY <1>0, <1>1 DEF TypeOK
<1>3. TypeOK'
  BY <1>0, <1>1, <1>2 DEF TypeOK
<1>4. waker' = "checked" => woke' < MaxNews
  BY <1>1 DEF IInv, CallsOK
<1> QED BY <1>1, <1>3, <1>4, SameStep DEF LanesSame

\* The bot's stop begins: the dispatcher is ended at an await.
LEMMA ClosesStep == ASSUME IInv, Closes PROVE IInv'
<1>0. TypeOK /\ CallsOK /\ LanesOK /\ CountsOK /\ MessagesOK /\ (~Beside => SoloOK)
  BY DEF IInv
<1>1. /\ phase = "up" /\ call["dispatcher"].pc \in {"ready", "join"} /\ phase' = "closing"
      /\ call' = [call EXCEPT !["dispatcher"] = Ready]
      /\ UNCHANGED <<cur, w, job, held, late, queue, queued, busy, retired, stale, open, waiting,
                     stopped, sent, waker, woke, accepted, read, cut, told>>
  BY DEF Closes, task, state, steering, history
<1>2. /\ call' \in [Callers -> [pc : CallPcs, lane : 0..MaxLanes]] /\ call'["dispatcher"] = Ready
      /\ call'["dashboard"] = call["dashboard"] /\ Ready.pc = "ready"
  BY <1>0, <1>1 DEF TypeOK, Ready, Callers, CallPcs
<1>3. TypeOK'
  BY <1>0, <1>1, <1>2 DEF TypeOK
<1>4. LanesOK' /\ \A l : Waits(l)' = Waits(l) /\ InLane(l)' = InLane(l)
  BY <1>0, <1>1, SameLanes DEF LanesSame
<1>5. CallsOK'
  BY <1>0, <1>1, <1>2 DEF CallsOK, Callers
<1>6. CountsOK'
  <2>1. \A l \in Lanes : ~Offering(l) /\ ~Offering(l)'
    BY <1>1, <1>2 DEF Offering
  <2>2. \A l \in Lanes : Counted(l)' = Counted(l)
    BY <1>4, <2>1 DEF Counted
  <2> QED BY <1>0, <1>1, <2>2 DEF CountsOK
<1>7. MessagesOK'
  BY <1>0, <1>1, <1>4 DEF MessagesOK
<1>8. ASSUME ~Beside PROVE SoloOK'
  <2>0. SoloOK /\ UpOK
    BY <1>0, <1>1, <1>8 DEF SoloOK
  <2>1. \A l \in Lanes : Idle(l)' <=> Idle(l)
    BY <1>1 DEF Idle
  <2>2. \A l \in Lanes : Resetting(l) => retired[l]
    BY <1>0, <1>1 DEF Resetting, CallsOK, Callers
  <2>3. UpOK'
    BY <1>1, <1>2, <1>4, <2>0, <2>1, <2>2 DEF UpOK
  <2> QED BY <2>0, <2>1, <2>3 DEF SoloOK
<1> QED BY <1>3, <1>4, <1>5, <1>6, <1>7, <1>8 DEF IInv

-----------------------------------------------------------------------------
(* The callers' steps *)

\* A message steers the running turn.
LEMMA SteersStep == ASSUME IInv, Steers PROVE IInv'
<1>0. TypeOK /\ CallsOK /\ LanesOK /\ CountsOK /\ MessagesOK /\ (~Beside => SoloOK)
  BY DEF IInv
<1>1. /\ phase = "up" /\ sent < MaxMsgs /\ cur # 0 /\ ~retired[cur] /\ open[cur]
      /\ sent' = sent + 1 /\ waiting' = [waiting EXCEPT ![cur] = Append(waiting[cur], sent')]
      /\ accepted' = accepted \cup {sent'}
      /\ UNCHANGED <<cur, w, job, held, late, queue, queued, busy, retired, stale, open, stopped,
                     call, waker, woke, phase, read, cut, told>>
  BY DEF Steers, task, state
<1>2. /\ cur \in Lanes /\ w[cur] \in {"run", "gone"} /\ waiting[cur] \in Seq(Msgs)
  <2>1. cur \in Lanes
    BY <1>0, <1>1, CurIsLane
  <2> QED BY <1>0, <1>1, <2>1 DEF TypeOK, LanesOK
<1>3. sent' \in 0..MaxMsgs /\ sent' # 0 /\ sent' \in Msgs
  BY <1>0, <1>1 DEF TypeOK, Msgs
<1>4. /\ Append(waiting[cur], sent') \in Seq(Msgs)
      /\ Range(Append(waiting[cur], sent')) = Range(waiting[cur]) \cup {sent'}
  BY <1>2, <1>3, RangeAppended
<1>5. /\ waiting' \in [Lanes -> Seq(Msgs)] /\ Range(waiting'[cur]) = Range(waiting[cur]) \cup {sent'}
      /\ \A k \in Lanes \ {cur} : waiting'[k] = waiting[k]
  BY <1>0, <1>1, <1>2, <1>4 DEF TypeOK
<1>6. TypeOK'
  BY <1>0, <1>1, <1>3, <1>5 DEF TypeOK
<1>7. LanesOK'
  BY <1>0, <1>1, <1>2, <1>5 DEF LanesOK
<1>8. CallsOK'
  BY <1>0, <1>1, <1>3 DEF CallsOK
<1>9. CountsOK'
  <2>1. \A l \in Lanes : Counted(l)' = Counted(l)
    BY <1>1 DEF Counted, Offering, Waits
  <2> QED BY <1>0, <1>1, <2>1 DEF CountsOK
<1>10. /\ InLane(cur)' = InLane(cur) \cup {sent'}
       /\ \A k \in Lanes \ {cur} : InLane(k)' = InLane(k)
  <2>1. \A k \in Lanes \ {cur} : InLane(k)' = InLane(k)
    BY <1>1, <1>5, InLaneStays
  <2>2. InLane(cur)' = InLane(cur) \cup {sent'}
    <3>1. InLane(cur)' = Range(queue[cur]) \cup Range(job[cur]) \cup Range(late[cur])
                           \cup Range(waiting'[cur]) \cup HeldIn(held[cur])
      BY <1>1 DEF InLane, HeldIn
    <3> QED BY <1>5, <3>1, InLaneIs
  <2> QED BY <2>1, <2>2
<1>11. MessagesOK'
  <2>1. \A l \in Lanes : InLane(l)' \subseteq accepted'
    BY <1>0, <1>1, <1>10 DEF MessagesOK
  <2> QED BY <1>0, <1>1, <2>1 DEF MessagesOK
<1>12. ASSUME ~Beside PROVE SoloOK'
  <2>0. SoloOK /\ UpOK
    BY <1>0, <1>1, <1>12 DEF SoloOK
  <2>1. \A l \in Lanes : (Idle(l)' <=> Idle(l)) /\ (Resetting(l)' <=> Resetting(l))
    BY <1>1 DEF Idle, Resetting
  <2>2. w[cur] \notin {"none", "gone"}
    BY <1>1, <1>2, <2>0 DEF UpOK
  <2>3. \A l \in Lanes : retired'[l] => InLane(l)' \subseteq cut'
    BY <1>1, <1>10, <2>0 DEF UpOK
  <2>4. ASSUME NEW m \in accepted'
        PROVE  \/ m \in cut' \/ m \in Range(read')
               \/ \E l \in Lanes : w'[l] \notin {"none", "gone"} /\ m \in InLane(l)'
    <3>1. CASE m = sent'
      BY <1>1, <1>2, <1>10, <2>2, <3>1
    <3>2. CASE m \in accepted
      <4>1. \A l \in Lanes : InLane(l) \subseteq InLane(l)'
        BY <1>1, <1>10
      <4> QED BY <1>1, <2>0, <3>2, <4>1 DEF UpOK
    <3> QED BY <1>1, <2>4, <3>1, <3>2
  <2>5. UpOK'
    BY <1>1, <2>0, <2>1, <2>3, <2>4 DEF UpOK
  <2> QED BY <2>0, <2>1, <2>5 DEF SoloOK
<1> QED BY <1>6, <1>7, <1>8, <1>9, <1>11, <1>12 DEF IInv

\* The offered message is counted before it is sent.
LEMMA OfferCountsStep == ASSUME IInv, OfferCounts PROVE IInv'
<1>0. TypeOK /\ CallsOK /\ LanesOK /\ CountsOK /\ MessagesOK /\ (~Beside => SoloOK)
  BY DEF IInv
<1>a. call["dispatcher"].pc = "count"
  BY DEF OfferCounts
<1>b. PICK o \in Lanes : o = call["dispatcher"].lane
  BY <1>0, <1>a DEF CallsOK, Callers
<1>1. /\ call["dispatcher"].pc = "count" /\ call["dispatcher"].lane = o
      /\ queued' = [queued EXCEPT ![o] = queued[o] + 1]
      /\ call' = [call EXCEPT !["dispatcher"].pc = "send"]
      /\ UNCHANGED <<cur, w, job, held, late, queue, busy, retired, stale, open, waiting, stopped,
                     sent, waker, woke, phase, accepted, read, cut, told>>
  BY <1>b DEF OfferCounts, task, steering, history
<1>2. /\ o \in Lanes /\ w[o] # "none" /\ sent # 0 /\ phase = "up"
  <2>1. o \in Lanes /\ w[o] # "none" /\ sent # 0
    BY <1>0, <1>1 DEF CallsOK, Callers
  <2>2. call["dispatcher"] # Ready
    BY <1>1 DEF Ready
  <2> QED BY <1>0, <2>1, <2>2 DEF CallsOK
<1>3. /\ call' \in [Callers -> [pc : CallPcs, lane : 0..MaxLanes]]
      /\ call'["dispatcher"] = [pc |-> "send", lane |-> o]
      /\ call'["dashboard"] = call["dashboard"]
  BY <1>0, <1>1 DEF TypeOK, Callers, CallPcs
<1>4. /\ queued' \in [Lanes -> Nat] /\ queued'[o] = queued[o] + 1 /\ queued[o] \in Nat
      /\ \A k \in Lanes \ {o} : queued'[k] = queued[k]
  BY <1>0, <1>1, <1>2, SMTT(30) DEF TypeOK
<1>5. /\ call["dispatcher"].pc = "count" /\ call'["dispatcher"].pc = "send"
      /\ call'["dispatcher"].lane = o /\ call["dispatcher"].lane = o
  BY <1>1, <1>3
<1>6. TypeOK'
  BY <1>0, <1>1, <1>3, <1>4 DEF TypeOK
<1>7. LanesOK'
  BY <1>0, <1>1, <1>2, <1>4 DEF LanesOK
<1>8. CallsOK'
  BY <1>0, <1>1, <1>2, <1>3, <1>5 DEF CallsOK, Callers
<1>9. CountsOK'
  <2>1. \A l \in Lanes : ~Offering(l) /\ (Offering(l)' <=> l = o)
    BY <1>1, <1>3, <1>5 DEF Offering
  <2>2. \A l \in Lanes : Waits(l)' = Waits(l) /\ Waits(l) \in Nat
    BY <1>0, <1>1, WaitsNat DEF Waits
  <2>3. Counted(o)' = Counted(o) + 1 /\ Counted(o) \in Nat
    BY <1>2, <2>1, <2>2 DEF Counted
  <2>4. \A k \in Lanes \ {o} : Counted(k)' = Counted(k)
    BY <2>1, <2>2 DEF Counted
  <2> QED BY <1>0, <1>1, <1>2, <1>4, <2>3, <2>4 DEF CountsOK
<1>10. \A l : InLane(l)' = InLane(l)
  BY <1>1 DEF InLane
<1>11. MessagesOK'
  BY <1>0, <1>1, <1>10 DEF MessagesOK
<1>12. ASSUME ~Beside PROVE SoloOK'
  <2>0. SoloOK /\ UpOK
    BY <1>0, <1>2, <1>12 DEF SoloOK
  <2>1. \A l \in Lanes : (Idle(l)' <=> Idle(l)) /\ (Resetting(l)' <=> Resetting(l))
    BY <1>1, <1>5 DEF Idle, Resetting
  <2>2. UpOK'
    BY <1>1, <1>5, <1>10, <2>0, <2>1 DEF UpOK
  <2> QED BY <2>0, <2>1, <2>2 DEF SoloOK
<1> QED BY <1>6, <1>7, <1>8, <1>9, <1>11, <1>12 DEF IInv

\* A message or a wake-up is put in the map's lane.
LEMMA SentStep ==
    ASSUME IInv, TypeOK', NEW c \in Lanes, NEW m \in Ms, w[c] \notin {"none", "gone"},
           ~Beside => ~Idle(c),
           ~Beside /\ phase \in {"up", "closing"} => cur = c,
           queue' = [queue EXCEPT ![c] = Append(queue[c], m)], accepted' = accepted \cup {m},
           UNCHANGED <<cur, w, job, held, late, busy, retired, open, waiting, phase, read, cut>>,
           CallsOK', Counted(c)' = Counted(c) + (queued'[c] - queued[c]),
           \A k \in Lanes \ {c} : queued'[k] = queued[k] /\ Counted(k)' = Counted(k),
           \A k \in Lanes : Resetting(k)' <=> Resetting(k),
           call'["dispatcher"].pc \in {"count", "send", "retire", "join"} => call' = call
    PROVE  IInv'
<1>0. TypeOK /\ CallsOK /\ LanesOK /\ CountsOK /\ MessagesOK /\ (~Beside => SoloOK)
  BY DEF IInv
<1>1. queue \in [Lanes -> Seq(Ms)] /\ queue[c] \in Seq(Ms)
  BY <1>0 DEF TypeOK, Ms
<1>2. /\ Append(queue[c], m) \in Seq(Ms) /\ Range(Append(queue[c], m)) = Range(queue[c]) \cup {m}
      /\ Append(queue[c], m) # <<>>
  BY <1>1, RangeAppended
<1>3. /\ queue'[c] = Append(queue[c], m) /\ \A k \in Lanes \ {c} : queue'[k] = queue[k]
  BY <1>1
<1>4. LanesOK'
  BY <1>0, <1>3 DEF LanesOK
<1>5. CountsOK'
  <2>1. queued[c] \in Nat /\ queued'[c] \in Nat /\ Counted(c) \in Int
    <3>1. queued[c] \in Nat /\ queued'[c] \in Nat
      BY <1>0 DEF TypeOK
    <3>2. Waits(c) \in Nat
      BY <1>0, WaitsNat
    <3> QED BY <3>1, <3>2 DEF Counted
  <2>2. /\ ~retired'[c] => queued'[c] = Counted(c)'
        /\ phase' \in {"up", "closing"} => queued'[c] >= Counted(c)'
    BY <1>0, <2>1 DEF CountsOK
  <2> QED BY <1>0, <2>2 DEF CountsOK
<1>6. /\ InLane(c)' = InLane(c) \cup {m}
      /\ \A k \in Lanes \ {c} : InLane(k)' = InLane(k)
  <2>1. \A k \in Lanes \ {c} : InLane(k)' = InLane(k)
    BY <1>3, InLaneStays
  <2>2. InLane(c)' = Range(queue'[c]) \cup Range(job[c]) \cup Range(late[c])
                       \cup Range(waiting[c]) \cup HeldIn(held[c])
    BY DEF InLane, HeldIn
  <2> QED BY <1>2, <1>3, <2>1, <2>2, InLaneIs
<1>7. MessagesOK'
  <2>1. \A l \in Lanes : InLane(l)' \subseteq accepted'
    BY <1>0, <1>6 DEF MessagesOK
  <2> QED BY <1>0, <2>1 DEF MessagesOK
<1>8. ASSUME ~Beside PROVE SoloOK'
  <2>0. SoloOK
    BY <1>0, <1>8
  <2>1. \A l \in Lanes : Idle(l)' <=> Idle(l)
    BY <1>2, <1>3, <1>8 DEF Idle
  <2>2. ASSUME phase' \in {"up", "closing"} PROVE UpOK'
    <3>0. UpOK /\ cur = c
      BY <1>8, <2>0, <2>2 DEF SoloOK
    <3>1. \A l \in Lanes : InLane(l) \subseteq InLane(l)'
      BY <1>6
    <3>2. ~retired[c] /\ cur # 0
      BY <3>0 DEF UpOK, Lanes
    <3>3. \A l \in Lanes : retired'[l] => InLane(l)' \subseteq cut'
      BY <1>6, <3>0, <3>2 DEF UpOK
    <3>4. \A n \in accepted' :
            \/ n \in cut' \/ n \in Range(read')
            \/ \E l \in Lanes : w'[l] \notin {"none", "gone"} /\ n \in InLane(l)'
      BY <1>6, <3>0, <3>1 DEF UpOK
    <3> QED BY <2>1, <3>0, <3>3, <3>4 DEF UpOK
  <2> QED BY <2>0, <2>1, <2>2 DEF SoloOK
<1> QED BY <1>4, <1>5, <1>7, <1>8 DEF IInv

\* The offered message is sent, or refused and uncounted.
LEMMA OfferSendsStep == ASSUME IInv, OfferSends PROVE IInv'
<1>0. TypeOK /\ CallsOK /\ LanesOK /\ CountsOK /\ MessagesOK /\ (~Beside => SoloOK)
  BY DEF IInv
<1>1. /\ call["dispatcher"].pc = "send" /\ call' = [call EXCEPT !["dispatcher"] = Ready]
      /\ UNCHANGED <<cur, w, job, held, late, busy, retired, stale, open, waiting, stopped,
                     sent, waker, woke, phase, read, cut, told>>
  BY DEF OfferSends, task, steering
<1>2. PICK c \in Lanes : c = call["dispatcher"].lane
  BY <1>0, <1>1 DEF CallsOK, Callers
<1>3. /\ w[c] # "none" /\ sent # 0 /\ phase = "up" /\ sent \in Msgs
  <2>1. w[c] # "none" /\ sent # 0
    BY <1>0, <1>1, <1>2 DEF CallsOK, Callers
  <2>2. call["dispatcher"] # Ready
    BY <1>1 DEF Ready
  <2>3. sent \in Msgs
    BY <1>0, <2>1 DEF TypeOK, Msgs
  <2> QED BY <1>0, <2>1, <2>2, <2>3 DEF CallsOK
<1>4. /\ call' \in [Callers -> [pc : CallPcs, lane : 0..MaxLanes]] /\ call'["dispatcher"] = Ready
      /\ call'["dashboard"] = call["dashboard"] /\ Ready.pc = "ready"
  BY <1>0, <1>1 DEF TypeOK, Ready, Callers, CallPcs
<1>5. CallsOK'
  BY <1>0, <1>1, <1>4 DEF CallsOK, Callers
<1>6. \A l \in Lanes : (Offering(l) <=> l = c) /\ ~Offering(l)'
  <2>1. call["dispatcher"] = [pc |-> "send", lane |-> c]
    BY <1>0, <1>1, <1>2 DEF TypeOK, Callers
  <2> QED BY <1>4, <2>1 DEF Offering, Ready
<1>7. \A l \in Lanes : ~Resetting(l) /\ ~Resetting(l)'
  BY <1>1, <1>4 DEF Resetting
<1>8. \A l \in Lanes : Waits(l) \in Nat /\ queued[l] \in Nat
  BY <1>0, WaitsNat
<1>9. Counted(c) = Waits(c) + 1 /\ queued[c] >= Waits(c) + 1
  BY <1>0, <1>3, <1>6 DEF Counted, CountsOK
<1>10. CASE /\ HasRoom(c) /\ queue' = [queue EXCEPT ![c] = Append(queue[c], sent)]
            /\ accepted' = accepted \cup {sent} /\ queued' = queued
  <2>1. w[c] \notin {"none", "gone"} /\ sent \in Ms /\ queue[c] \in Seq(Ms) /\ queue \in [Lanes -> Seq(Ms)]
    BY <1>0, <1>3, <1>10 DEF HasRoom, TypeOK, Ms
  <2>2. Append(queue[c], sent) \in Seq(Ms) /\ Len(Append(queue[c], sent)) = Len(queue[c]) + 1
    BY <2>1, RangeAppended
  <2>3. /\ queue' \in [Lanes -> Seq(Ms)] /\ queue'[c] = Append(queue[c], sent)
        /\ \A k \in Lanes \ {c} : queue'[k] = queue[k]
    BY <1>10, <2>1, <2>2
  <2>4. TypeOK'
    BY <1>0, <1>1, <1>3, <1>4, <1>10, <2>3 DEF TypeOK, Ms
  <2>5. \A k \in Lanes \ {c} : Counted(k)' = Counted(k) /\ queued'[k] = queued[k]
    BY <1>1, <1>6, <1>10, <2>3 DEF Counted, Waits
  <2>6. Counted(c)' = Counted(c)
    <3>1. PICK a \in Nat : a = Len(queue[c])
      BY <2>1
    <3>2. PICK b \in Nat : b = Len(held[c])
      BY <1>0 DEF TypeOK
    <3>3. a + 1 = Len(queue'[c]) /\ b = Len(held'[c]) /\ a + 1 \in Nat
      BY <1>1, <2>2, <2>3, <3>1, <3>2
    <3>4. Waits(c) = IF w[c] \in Taken THEN a + b + 1 ELSE a + b
      BY <3>1, <3>2, WaitsOf
    <3>5. Waits(c)' = IF w'[c] \in Taken THEN (a + 1) + b + 1 ELSE (a + 1) + b
      BY <3>3, WaitsThen
    <3>6. Waits(c)' = Waits(c) + 1
      BY <1>1, <3>4, <3>5
    <3>7. Counted(c)' = Waits(c)'
      BY <1>6, <1>8, <3>6 DEF Counted
    <3> QED BY <1>9, <3>6, <3>7
  <2>7. ASSUME ~Beside PROVE cur = c /\ ~Idle(c)
    <3>1. cur = c
      BY <1>0, <1>1, <1>2, <1>3, <2>7 DEF SoloOK, UpOK
    <3> QED BY <2>1, <3>1 DEF Idle
  <2>8. Counted(c)' = Counted(c) + (queued'[c] - queued[c])
    BY <1>8, <1>9, <1>10, <2>6
  <2>9. call'["dispatcher"].pc \notin {"count", "send", "retire", "join"}
    BY <1>4
  <2> QED BY <1>1, <1>5, <1>7, <1>10, <2>1, <2>4, <2>5, <2>7, <2>8, <2>9, SentStep
<1>11. CASE queued' = [queued EXCEPT ![c] = queued[c] - 1] /\ queue' = queue /\ accepted' = accepted
  <2>1. /\ queued' \in [Lanes -> Nat] /\ queued'[c] = queued[c] - 1
        /\ \A k \in Lanes \ {c} : queued'[k] = queued[k]
    <3>1. queued[c] - 1 \in Nat
      BY <1>8, <1>9
    <3> QED BY <1>0, <1>11, <3>1 DEF TypeOK
  <2>2. TypeOK'
    BY <1>0, <1>1, <1>4, <1>11, <2>1 DEF TypeOK
  <2>3. LanesOK'
    BY <1>0, <1>1, <1>3, <1>11, <2>1 DEF LanesOK
  <2>4. CountsOK'
    <3>1. \A l \in Lanes : Waits(l)' = Waits(l)
      BY <1>1, <1>11 DEF Waits
    <3>2. Counted(c)' = Counted(c) - 1 /\ \A k \in Lanes \ {c} : Counted(k)' = Counted(k)
      BY <1>6, <1>8, <1>9, <3>1 DEF Counted
    <3> QED BY <1>0, <1>1, <1>8, <1>9, <2>1, <3>2 DEF CountsOK
  <2>5. \A l : InLane(l)' = InLane(l)
    BY <1>1, <1>11 DEF InLane
  <2>6. MessagesOK'
    BY <1>0, <1>1, <1>11, <2>5 DEF MessagesOK
  <2>7. ASSUME ~Beside PROVE SoloOK'
    <3>0. SoloOK /\ UpOK
      BY <1>0, <1>3, <2>7 DEF SoloOK
    <3>1. \A l \in Lanes : Idle(l)' <=> Idle(l)
      BY <1>1, <1>11 DEF Idle
    <3>2. UpOK'
      BY <1>1, <1>4, <1>7, <1>11, <2>5, <3>0, <3>1 DEF UpOK
    <3> QED BY <3>0, <3>1, <3>2 DEF SoloOK
  <2> QED BY <1>5, <2>2, <2>3, <2>4, <2>6, <2>7 DEF IInv
<1> QED BY <1>2, <1>10, <1>11 DEF OfferSends

\* A wake-up is counted and sent, or refused.
LEMMA WakesStep == ASSUME IInv, Wakes PROVE IInv'
<1>0. TypeOK /\ CallsOK /\ LanesOK /\ CountsOK /\ MessagesOK /\ (~Beside => SoloOK)
  BY DEF IInv
<1>1. /\ waker = "checked" /\ waker' = "idle" /\ woke' = woke + 1
      /\ UNCHANGED <<cur, w, job, held, late, busy, retired, stale, open, waiting, stopped, call,
                     sent, phase, read, cut, told>>
  BY DEF Wakes, task, steering
<1>2. /\ woke < MaxNews /\ woke' \in 0..MaxNews /\ MaxMsgs + woke' \in News
  BY <1>0, <1>1 DEF CallsOK, TypeOK, News
<1>3. CallsOK'
  BY <1>0, <1>1 DEF CallsOK
<1>4. CASE ~HasRoom(cur) /\ queue' = queue /\ queued' = queued /\ accepted' = accepted
  <2>1. TypeOK'
    BY <1>0, <1>1, <1>2, <1>4 DEF TypeOK
  <2> QED BY <1>1, <1>4, <2>1, SameStep DEF LanesSame
<1>5. CASE /\ HasRoom(cur) /\ queue' = [queue EXCEPT ![cur] = Append(queue[cur], MaxMsgs + woke')]
           /\ queued' = [queued EXCEPT ![cur] = queued[cur] + 1]
           /\ accepted' = accepted \cup {MaxMsgs + woke'}
  <2>1. PICK c \in Lanes : c = cur
    BY <1>0, <1>5, CurIsLane DEF HasRoom
  <2>2. PICK m \in Ms : m = MaxMsgs + woke'
    BY <1>2 DEF Ms
  <2>3. w[c] \notin {"none", "gone"} /\ queue[c] \in Seq(Ms) /\ queue \in [Lanes -> Seq(Ms)]
    BY <1>0, <1>5, <2>1 DEF HasRoom, TypeOK, Ms, CallsOK
  <2>4. Append(queue[c], m) \in Seq(Ms) /\ Len(Append(queue[c], m)) = Len(queue[c]) + 1
    BY <2>2, <2>3, RangeAppended
  <2>5. /\ queue' \in [Lanes -> Seq(Ms)] /\ queue'[c] = Append(queue[c], m)
        /\ queue' = [queue EXCEPT ![c] = Append(queue[c], m)] /\ accepted' = accepted \cup {m}
        /\ queued' \in [Lanes -> Nat] /\ queued'[c] = queued[c] + 1 /\ queued[c] \in Nat
        /\ \A k \in Lanes \ {c} : queue'[k] = queue[k] /\ queued'[k] = queued[k]
    BY <1>0, <1>5, <2>1, <2>2, <2>3, <2>4, SMTT(30) DEF TypeOK
  <2>6. TypeOK'
    BY <1>0, <1>1, <1>2, <2>2, <2>5 DEF TypeOK, Ms
  <2>7. \A k \in Lanes : (Offering(k)' <=> Offering(k)) /\ (Resetting(k)' <=> Resetting(k))
    BY <1>1 DEF Offering, Resetting
  <2>8. \A k \in Lanes \ {c} : queued'[k] = queued[k] /\ Counted(k)' = Counted(k)
    BY <1>1, <2>5, <2>7 DEF Counted, Waits
  <2>9. Counted(c)' = Counted(c) + 1
    <3>1. PICK a \in Nat : a = Len(queue[c])
      BY <2>3
    <3>2. PICK b \in Nat : b = Len(held[c])
      BY <1>0 DEF TypeOK
    <3>3. a + 1 = Len(queue'[c]) /\ b = Len(held'[c]) /\ a + 1 \in Nat
      BY <1>1, <2>4, <2>5, <3>1, <3>2
    <3>4. Waits(c) = IF w[c] \in Taken THEN a + b + 1 ELSE a + b
      BY <3>1, <3>2, WaitsOf
    <3>5. Waits(c)' = IF w'[c] \in Taken THEN (a + 1) + b + 1 ELSE (a + 1) + b
      BY <3>3, WaitsThen
    <3>6. Waits(c)' = Waits(c) + 1 /\ Waits(c) \in Nat
      BY <1>1, <3>4, <3>5
    <3> QED BY <2>7, <3>6 DEF Counted
  <2>10. Counted(c)' = Counted(c) + (queued'[c] - queued[c])
    <3>1. queued'[c] - queued[c] = 1
      BY <2>5
    <3> QED BY <2>9, <3>1
  <2>11. ~Idle(c)
    BY <2>1, <2>3 DEF Idle
  <2> QED BY <1>1, <1>3, <2>1, <2>3, <2>5, <2>6, <2>7, <2>8, <2>10, <2>11, SentStep
<1> QED BY <1>1, <1>4, <1>5 DEF Wakes

\* A lane that counts nothing has nothing that waits.
LEMMA CountedNone ==
    ASSUME IInv, NEW l \in Lanes, Counted(l) = 0
    PROVE  w[l] \notin Taken /\ queue[l] = <<>> /\ held[l] = <<>>
<1>1. queue[l] \in Seq(Ms) /\ held[l] \in Lists
  BY OneLane
<1>2. PICK a \in Nat : a = Len(queue[l])
  BY <1>1
<1>3. PICK b \in Nat : b = Len(held[l])
  BY <1>1 DEF Lists
<1>4. Waits(l) = IF w[l] \in Taken THEN a + b + 1 ELSE a + b
  BY <1>2, <1>3, WaitsOf
<1>5. Waits(l) = 0
  BY <1>4 DEF Counted
<1>6. a = 0 /\ b = 0 /\ w[l] \notin Taken
  BY <1>4, <1>5
<1>7. Len(queue[l]) = 0 /\ Len(held[l]) = 0
  BY <1>2, <1>3, <1>6
<1>8. queue[l] \in Seq(Ms) /\ held[l] \in Seq(Seq(Ms))
  BY <1>1 DEF Lists
<1> QED BY <1>6, <1>7, <1>8, EmptySeq

\* If it runs no turn either, it has taken nothing.
LEMMA NothingCounted ==
    ASSUME IInv, NEW l \in Lanes, ~retired[l], ~busy[l], queued[l] = 0
    PROVE  w[l] \in {"none", "recv", "gone"} /\ queue[l] = <<>> /\ held[l] = <<>>
<1>1. w[l] \in Pcs /\ w[l] \notin Turn
  BY OneLane
<1>2. Counted(l) = 0
  BY DEF IInv, CountsOK
<1> QED BY <1>1, <1>2, CountedNone DEF Pcs, Turn, Taken

\* The lane is looked up; a lane that is idle, stale or has ended is replaced.
LEMMA OfferFindsStep == ASSUME IInv, OfferFinds PROVE IInv'
<1>0. TypeOK /\ CallsOK /\ LanesOK /\ CountsOK /\ MessagesOK /\ (~Beside => SoloOK)
  BY DEF IInv
<1>1. /\ phase = "up" /\ call["dispatcher"].pc = "ready" /\ sent < MaxMsgs /\ sent' = sent + 1
      /\ call' = [call EXCEPT !["dispatcher"] = [pc |-> "count", lane |-> cur']]
      /\ UNCHANGED <<job, held, late, queue, queued, busy, retired, stale, open, waiting, stopped,
                     waker, woke, phase, accepted, read, cut, told>>
  BY DEF OfferFinds, state, steering, history
<1>2. PICK c \in Lanes :
        /\ cur' = c /\ w'[c] # "none" /\ w' \in [Lanes -> Pcs]
        /\ \/ w' = w /\ cur = c
           \/ /\ ~Usable(cur) /\ w[c] = "none" /\ w'[c] = "recv"
              /\ \A k \in Lanes \ {c} : w'[k] = w[k]
  <2>1. CASE Usable(cur) /\ cur' = cur /\ w' = w
    <3>1. cur \in Lanes /\ w[cur] # "none"
      BY <1>0, <2>1, CurIsLane DEF Usable, CallsOK
    <3> QED BY <1>0, <2>1, <3>1 DEF TypeOK
  <2>2. CASE ~Usable(cur) /\ \E l \in Lanes : SpawnLane(l)
    <3>1. PICK l \in Lanes : SpawnLane(l)
      BY <2>2
    <3>2. w[l] = "none" /\ cur' = l /\ w' = [w EXCEPT ![l] = "recv"] /\ w \in [Lanes -> Pcs]
      BY <1>0, <3>1 DEF SpawnLane, TypeOK
    <3> QED BY <2>2, <3>2 DEF Pcs
  <2> QED BY <2>1, <2>2 DEF OfferFinds
<1>3. sent' \in 0..MaxMsgs /\ sent' # 0 /\ cur' \in 0..MaxLanes
  BY <1>0, <1>1, <1>2 DEF TypeOK, Lanes
<1>4. /\ call' \in [Callers -> [pc : CallPcs, lane : 0..MaxLanes]]
      /\ call'["dispatcher"] = [pc |-> "count", lane |-> c]
      /\ call'["dashboard"] = call["dashboard"]
  BY <1>0, <1>1, <1>2, <1>3 DEF TypeOK, Callers, CallPcs
<1>5. call'["dispatcher"].pc = "count" /\ call'["dispatcher"].lane = c
  BY <1>4
<1>6. TypeOK'
  BY <1>0, <1>1, <1>2, <1>3, <1>4 DEF TypeOK
<1>7. /\ \A k \in Lanes \ {c} : w'[k] = w[k]
      /\ w'[c] = w[c] \/ (w[c] = "none" /\ w'[c] = "recv")
  BY <1>2
<1>8. CallsOK'
  <2>1. \A k \in Lanes : w[k] # "none" => w'[k] # "none"
    BY <1>7
  <2>2. c # 0
    BY DEF Lanes
  <2> QED BY <1>0, <1>1, <1>2, <1>3, <1>4, <1>5, <2>1, <2>2 DEF CallsOK, Callers
<1>9. LanesOK'
  BY <1>0, <1>1, <1>7 DEF LanesOK, Turn
<1>10. CountsOK'
  <2>1. \A l \in Lanes : ~Offering(l) /\ ~Offering(l)'
    BY <1>1, <1>5 DEF Offering
  <2>2. \A l \in Lanes : Waits(l)' = Waits(l)
    BY <1>1, <1>7 DEF Waits, Taken
  <2>3. \A l \in Lanes : Counted(l)' = Counted(l)
    BY <2>1, <2>2 DEF Counted
  <2> QED BY <1>0, <1>1, <2>3 DEF CountsOK
<1>11. \A l : InLane(l)' = InLane(l)
  BY <1>1 DEF InLane
<1>12. MessagesOK'
  BY <1>0, <1>1, <1>7, <1>11 DEF MessagesOK, Turn
<1>13. ASSUME ~Beside PROVE SoloOK'
  <2>0. SoloOK /\ UpOK
    BY <1>0, <1>1, <1>13 DEF SoloOK
  <2>1. \A k \in Lanes : k # cur => Idle(k)
    BY <1>1, <2>0 DEF UpOK, Resetting
  <2>2. ASSUME cur # 0, cur # c
        PROVE  w[cur] \in {"none", "recv", "gone"} /\ queue[cur] = <<>> /\ held[cur] = <<>>
    <3>1. cur \in Lanes /\ ~Usable(cur)
      BY <1>0, <1>2, <2>2, CurIsLane
    <3>2. ~retired[cur] /\ w[cur] # "gone"
      BY <2>0, <2>2 DEF UpOK
    <3>3. ~busy[cur] /\ queued[cur] = 0
      BY <2>2, <3>1, <3>2 DEF Usable
    <3> QED BY <3>1, <3>2, <3>3, NothingCounted
  <2>3. \A k \in Lanes \ {c} : Idle(k)'
    <3> SUFFICES ASSUME NEW k \in Lanes \ {c} PROVE Idle(k)'
      OBVIOUS
    <3>0. w'[k] = w[k] /\ cur' # k /\ queue'[k] = queue[k] /\ held'[k] = held[k]
      BY <1>1, <1>2, <1>7
    <3>1. CASE k = cur
      <4>1. cur # 0 /\ cur # c
        BY <3>1 DEF Lanes
      <4>2. w[k] \in {"none", "recv", "gone"} /\ queue[k] = <<>> /\ held[k] = <<>>
        BY <2>2, <3>1, <4>1
      <4> QED BY <3>0, <4>2 DEF Idle
    <3>2. CASE k # cur
      BY <2>1, <3>0, <3>2 DEF Idle
    <3> QED BY <3>1, <3>2
  <2>4. ~retired[c] /\ w'[c] # "gone"
    <3>1. CASE w' = w /\ cur = c
      BY <2>0, <3>1 DEF UpOK, Lanes
    <3>2. CASE w[c] = "none" /\ w'[c] = "recv"
      BY <1>0, <3>2 DEF LanesOK
    <3> QED BY <1>2, <3>1, <3>2
  <2>5. \A k \in Lanes : w[k] \notin {"none", "gone"} => w'[k] \notin {"none", "gone"}
    BY <1>7
  <2>6. UpOK'
    BY <1>1, <1>2, <1>5, <1>11, <2>0, <2>3, <2>4, <2>5 DEF UpOK
  <2> QED BY <2>3, <2>6 DEF SoloOK
<1> QED BY <1>6, <1>8, <1>9, <1>10, <1>12, <1>13 DEF IInv

\* A lane with work left is marked stale, an idle one dropped.
LEMMA RetiresStep == ASSUME IInv, NEW x \in Callers, Retires(x) PROVE IInv'
<1>0. TypeOK /\ CallsOK /\ LanesOK /\ CountsOK /\ MessagesOK /\ (~Beside => SoloOK)
  BY DEF IInv
<1>1. /\ phase = "up" /\ call[x].pc = "ready" /\ cur # 0
      /\ x = "dashboard" => Beside
      /\ UNCHANGED <<w, job, held, late, queue, queued, busy, retired, open, waiting, stopped,
                     call, sent, waker, woke, phase, accepted, read, cut, told>>
  BY DEF Retires, MayAct, task, steering, callers, history
<1>2. CASE cur' = cur /\ stale' = [stale EXCEPT ![cur] = TRUE]
  <2>1. stale' \in [Lanes -> BOOLEAN]
    BY <1>0, <1>2 DEF TypeOK
  <2>2. TypeOK'
    BY <1>0, <1>1, <1>2, <2>1 DEF TypeOK
  <2>3. waker' = "checked" => woke' < MaxNews
    BY <1>0, <1>1 DEF CallsOK
  <2> QED BY <1>1, <1>2, <2>2, <2>3, SameStep DEF LanesSame
<1>3. CASE ~busy[cur] /\ ~(queued[cur] > 0) /\ cur' = 0 /\ stale' = stale
  <2>1. TypeOK'
    <3>1. cur' \in 0..MaxLanes
      BY <1>3
    <3> QED BY <1>0, <1>1, <1>3, <3>1 DEF TypeOK
  <2>2. LanesOK' /\ \A l : Waits(l)' = Waits(l) /\ InLane(l)' = InLane(l)
    BY <1>0, <1>1, SameLanes DEF LanesSame
  <2>3. CallsOK'
    BY <1>0, <1>1, <1>3 DEF CallsOK
  <2>4. CountsOK'
    <3>1. \A l \in Lanes : Counted(l)' = Counted(l)
      BY <1>1, <2>2 DEF Counted, Offering
    <3> QED BY <1>0, <1>1, <3>1 DEF CountsOK
  <2>5. MessagesOK'
    BY <1>0, <1>1, <2>2 DEF MessagesOK
  <2>6. ASSUME ~Beside PROVE SoloOK'
    <3>0. SoloOK /\ UpOK /\ call["dispatcher"].pc = "ready"
      BY <1>0, <1>1, <2>6 DEF SoloOK, Callers
    <3>1. \A k \in Lanes : k # cur => Idle(k)
      BY <1>1, <3>0 DEF UpOK, Resetting
    <3>2. cur \in Lanes /\ ~retired[cur] /\ queued[cur] = 0
      <4>1. cur \in Lanes /\ ~retired[cur]
        BY <1>0, <1>1, <3>0, CurIsLane DEF UpOK
      <4>2. queued[cur] \in Nat
        BY <1>0, <4>1 DEF TypeOK
      <4> QED BY <1>3, <4>1, <4>2
    <3>3. w[cur] \in {"none", "recv", "gone"} /\ queue[cur] = <<>> /\ held[cur] = <<>>
      BY <1>3, <3>2, NothingCounted
    <3>4. \A k \in Lanes : Idle(k)'
      <4>1. \A k \in Lanes : k # 0
        BY DEF Lanes
      <4> QED BY <1>1, <1>3, <3>1, <3>3, <4>1 DEF Idle
    <3>5. UpOK'
      BY <1>1, <1>3, <2>2, <3>0, <3>4 DEF UpOK
    <3> QED BY <3>4, <3>5 DEF SoloOK
  <2> QED BY <2>1, <2>2, <2>3, <2>4, <2>5, <2>6 DEF IInv
<1> QED BY <1>2, <1>3 DEF Retires

\* /new takes the lane out of the map.
LEMMA ResetTakesStep == ASSUME IInv, NEW x \in Callers, ResetTakes(x) PROVE IInv'
<1>0. TypeOK /\ CallsOK /\ LanesOK /\ CountsOK /\ MessagesOK /\ (~Beside => SoloOK)
  BY DEF IInv
<1>1. /\ phase = "up" /\ call[x].pc = "ready" /\ cur # 0
      /\ x = "dashboard" => Beside
      /\ call' = [call EXCEPT ![x] = [pc |-> "retire", lane |-> cur]] /\ cur' = 0
      /\ UNCHANGED <<w, job, held, late, queue, queued, busy, retired, stale, open, waiting, stopped,
                     sent, waker, woke, phase, accepted, read, cut, told>>
  BY DEF ResetTakes, MayAct, task, state, steering, history
<1>2. PICK c \in Lanes : c = cur
  BY <1>0, <1>1, CurIsLane
<1>3. /\ call' \in [Callers -> [pc : CallPcs, lane : 0..MaxLanes]]
      /\ call'[x] = [pc |-> "retire", lane |-> c]
      /\ \A y \in Callers \ {x} : call'[y] = call[y]
  BY <1>0, <1>1, <1>2 DEF TypeOK, CallPcs
<1>4. call'[x].pc = "retire" /\ call'[x].lane = c /\ w[c] # "none"
  BY <1>0, <1>1, <1>2, <1>3 DEF CallsOK
<1>5. TypeOK'
  <2>1. cur' \in 0..MaxLanes
    BY <1>1
  <2> QED BY <1>0, <1>1, <1>3, <2>1 DEF TypeOK
<1>6. LanesOK' /\ \A l : Waits(l)' = Waits(l) /\ InLane(l)' = InLane(l)
  BY <1>0, <1>1, SameLanes DEF LanesSame
<1>7. CallsOK'
  BY <1>0, <1>1, <1>3, <1>4 DEF CallsOK, Callers
<1>8. CountsOK'
  <2>1. \A l \in Lanes : Offering(l)' <=> Offering(l)
    <3>1. CASE x = "dispatcher"
      BY <1>1, <1>4, <3>1 DEF Offering
    <3>2. CASE x # "dispatcher"
      BY <1>3, <3>2 DEF Offering, Callers
    <3> QED BY <3>1, <3>2
  <2>2. \A l \in Lanes : Counted(l)' = Counted(l)
    BY <1>6, <2>1 DEF Counted
  <2> QED BY <1>0, <1>1, <2>2 DEF CountsOK
<1>9. MessagesOK'
  BY <1>0, <1>1, <1>6 DEF MessagesOK
<1>10. ASSUME ~Beside PROVE SoloOK'
  <2>0. SoloOK /\ UpOK /\ x = "dispatcher"
    BY <1>0, <1>1, <1>10 DEF SoloOK, Callers
  <2>1. \A k \in Lanes : k # cur => Idle(k)
    BY <1>1, <2>0 DEF UpOK, Resetting
  <2>2. \A k \in Lanes : Idle(k) => Idle(k)'
    <3>1. \A k \in Lanes : k # 0
      BY DEF Lanes
    <3> QED BY <1>1, <3>1 DEF Idle
  <2>3. \A k \in Lanes : Idle(k)' \/ Resetting(k)'
    BY <1>2, <1>4, <2>0, <2>1, <2>2 DEF Resetting
  <2>4. UpOK'
    BY <1>1, <1>4, <1>6, <2>0, <2>3 DEF UpOK
  <2> QED BY <2>0, <2>2, <2>4 DEF SoloOK
<1> QED BY <1>5, <1>6, <1>7, <1>8, <1>9, <1>10 DEF IInv

\* ... retires it and drops what waits ...
LEMMA ResetRetiresStep == ASSUME IInv, NEW x \in Callers, ResetRetires(x) PROVE IInv'
<1>0. TypeOK /\ CallsOK /\ LanesOK /\ CountsOK /\ MessagesOK /\ (~Beside => SoloOK)
  BY DEF IInv
<1>1. call[x].pc = "retire"
  BY DEF ResetRetires
<1>2. PICK c \in Lanes : c = call[x].lane
  BY <1>0, <1>1 DEF CallsOK
<1>3. /\ retired' = [retired EXCEPT ![c] = TRUE] /\ open' = [open EXCEPT ![c] = FALSE]
      /\ waiting' = [waiting EXCEPT ![c] = <<>>]
      /\ stopped' = [stopped EXCEPT ![c] = stopped[c] \/ busy[c]]
      /\ cut' = accepted /\ call' = [call EXCEPT ![x].pc = "join"]
      /\ UNCHANGED <<cur, w, job, held, late, queue, queued, busy, stale, sent, waker, woke, phase,
                     accepted, read, told>>
  BY <1>2 DEF ResetRetires, task
<1>4. /\ retired' \in [Lanes -> BOOLEAN] /\ retired'[c] /\ open' \in [Lanes -> BOOLEAN] /\ ~open'[c]
      /\ waiting' \in [Lanes -> Seq(Msgs)] /\ waiting'[c] = <<>>
      /\ \A k \in Lanes \ {c} : /\ retired'[k] = retired[k] /\ open'[k] = open[k]
                                /\ waiting'[k] = waiting[k]
  BY <1>0, <1>3, SMTT(30) DEF TypeOK
<1>5. stopped' \in [Lanes -> BOOLEAN]
  BY <1>0, <1>3 DEF TypeOK
<1>6. /\ call' \in [Callers -> [pc : CallPcs, lane : 0..MaxLanes]]
      /\ call'[x].pc = "join" /\ call'[x].lane = c
      /\ \A y \in Callers \ {x} : call'[y] = call[y]
  BY <1>0, <1>2, <1>3 DEF TypeOK, CallPcs
<1>7. w[c] # "none" /\ call[x] # Ready
  BY <1>0, <1>1, <1>2 DEF CallsOK, Ready
<1>8. TypeOK'
  BY <1>0, <1>3, <1>4, <1>5, <1>6 DEF TypeOK
<1>9. LanesOK'
  BY <1>0, <1>3, <1>4, <1>7 DEF LanesOK
<1>10. \A k \in Lanes : retired[k] => retired'[k]
  BY <1>4
<1>11. CallsOK'
  <2>1. \A y \in Callers :
          /\ call'[y].pc = "ready" => call'[y] = Ready
          /\ call'[y].pc # "ready" => call'[y].lane \in Lanes /\ w'[call'[y].lane] # "none"
          /\ call'[y].pc = "join" => retired'[call'[y].lane]
    <3>1. ASSUME NEW y \in Callers \ {x}
          PROVE  /\ call'[y].pc = "ready" => call'[y] = Ready
                 /\ call'[y].pc # "ready" => call'[y].lane \in Lanes /\ w'[call'[y].lane] # "none"
                 /\ call'[y].pc = "join" => retired'[call'[y].lane]
      BY <1>0, <1>3, <1>6, <1>10 DEF CallsOK
    <3> QED BY <1>3, <1>4, <1>6, <1>7, <3>1
  <2>2. /\ call'["dispatcher"].pc \in {"count", "send"} => sent' # 0
        /\ call'["dashboard"].pc \notin {"count", "send"}
    BY <1>0, <1>3, <1>6 DEF CallsOK, Callers
  <2>3. x = "dispatcher" => phase = "up"
    BY <1>0, <1>7 DEF CallsOK
  <2>4. x = "dashboard" => Beside
    BY <1>0, <1>7 DEF CallsOK
  <2>5. /\ ~Beside => call'["dashboard"] = Ready
        /\ phase' # "up" => call'["dispatcher"] = Ready
    BY <1>0, <1>3, <1>6, <2>3, <2>4 DEF CallsOK, Callers
  <2> QED BY <1>0, <1>3, <2>1, <2>2, <2>5 DEF CallsOK
<1>12. CountsOK'
  <2>1. \A l \in Lanes : Offering(l)' <=> Offering(l)
    <3>1. CASE x = "dispatcher"
      BY <1>1, <1>6, <3>1 DEF Offering
    <3>2. CASE x # "dispatcher"
      BY <1>6, <3>2 DEF Offering, Callers
    <3> QED BY <3>1, <3>2
  <2>2. \A l \in Lanes : Counted(l)' = Counted(l)
    BY <1>3, <2>1 DEF Counted, Waits
  <2> QED BY <1>0, <1>3, <1>4, <2>2 DEF CountsOK
<1>13. \A l \in Lanes : InLane(l)' \subseteq InLane(l)
  <2>1. \A k \in Lanes \ {c} : InLane(k)' = InLane(k)
    BY <1>3, <1>4, InLaneStays
  <2>2. InLane(c)' = Range(queue[c]) \cup Range(job[c]) \cup Range(late[c]) \cup HeldIn(held[c])
    BY <1>3, <1>4, RangeEmpty DEF InLane, HeldIn
  <2>3. InLane(c)' \subseteq InLane(c)
    BY <2>2, InLaneIs
  <2> QED BY <2>1, <2>3
<1>14. MessagesOK'
  <2>1. \A l \in Lanes : InLane(l)' \subseteq accepted'
    BY <1>0, <1>3, <1>13 DEF MessagesOK
  <2> QED BY <1>0, <1>3, <2>1 DEF MessagesOK
<1>15. ASSUME ~Beside PROVE SoloOK'
  <2>0. SoloOK /\ UpOK /\ x = "dispatcher" /\ phase = "up"
    <3>1. x = "dispatcher"
      BY <1>0, <1>7, <1>15 DEF CallsOK, Callers
    <3>2. phase = "up"
      BY <1>0, <1>7, <3>1 DEF CallsOK
    <3> QED BY <1>0, <1>15, <3>1, <3>2 DEF SoloOK
  <2>1. \A l \in Lanes : Idle(l)' <=> Idle(l)
    BY <1>3 DEF Idle
  <2>2. \A l \in Lanes : Resetting(l) => Resetting(l)'
    BY <1>2, <1>6, <2>0 DEF Resetting
  <2>3. cur' = 0
    BY <1>1, <1>3, <2>0 DEF UpOK
  <2>4. \A l \in Lanes : InLane(l)' \subseteq cut'
    BY <1>3, <1>14 DEF MessagesOK
  <2>5. UpOK'
    BY <1>3, <1>6, <2>0, <2>1, <2>2, <2>3, <2>4 DEF UpOK
  <2> QED BY <2>0, <2>1, <2>5 DEF SoloOK
<1> QED BY <1>8, <1>9, <1>11, <1>12, <1>14, <1>15 DEF IInv

\* ... and ends it.
LEMMA ResetEndsStep == ASSUME IInv, NEW x \in Callers, ResetEnds(x) PROVE IInv'
<1>0. TypeOK /\ CallsOK /\ LanesOK /\ CountsOK /\ MessagesOK /\ (~Beside => SoloOK)
  BY DEF IInv
<1>1. call[x].pc = "join"
  BY DEF ResetEnds
<1>2. PICK c \in Lanes : c = call[x].lane
  BY <1>0, <1>1 DEF CallsOK
<1>3. /\ w' = [w EXCEPT ![c] = "gone"] /\ call' = [call EXCEPT ![x] = Ready]
      /\ UNCHANGED <<cur, job, held, late, queue, queued, busy, retired, stale, open, waiting,
                     stopped, sent, waker, woke, phase, accepted, read, cut, told>>
  BY <1>2 DEF ResetEnds, Goto, state, steering, history
<1>4. /\ w' \in [Lanes -> Pcs] /\ w'[c] = "gone" /\ \A k \in Lanes \ {c} : w'[k] = w[k]
      /\ retired[c] /\ call[x] # Ready
  BY <1>0, <1>1, <1>2, <1>3, SMTT(30) DEF TypeOK, Pcs, CallsOK, Ready
<1>5. /\ call' \in [Callers -> [pc : CallPcs, lane : 0..MaxLanes]] /\ call'[x] = Ready
      /\ Ready.pc = "ready" /\ \A y \in Callers \ {x} : call'[y] = call[y]
  BY <1>0, <1>3 DEF TypeOK, CallPcs, Ready
<1>6. TypeOK'
  BY <1>0, <1>3, <1>4, <1>5 DEF TypeOK
<1>7. LanesOK'
  BY <1>0, <1>3, <1>4 DEF LanesOK, Turn
<1>8. CallsOK'
  <2>1. \A k \in Lanes : w[k] # "none" => w'[k] # "none"
    BY <1>4
  <2>2. cur # 0 => cur \in Lanes
    BY <1>0, CurIsLane
  <2> QED BY <1>0, <1>3, <1>5, <2>1, <2>2 DEF CallsOK, Callers
<1>9. CountsOK'
  <2>1. \A l \in Lanes : Offering(l)' <=> Offering(l)
    <3>1. CASE x = "dispatcher"
      BY <1>1, <1>5, <3>1 DEF Offering
    <3>2. CASE x # "dispatcher"
      BY <1>5, <3>2 DEF Offering, Callers
    <3> QED BY <3>1, <3>2
  <2>2. \A k \in Lanes \ {c} : Counted(k)' = Counted(k)
    BY <1>3, <1>4, <2>1 DEF Counted, Waits
  <2>3. Counted(c)' <= Counted(c)
    <3>1. queue[c] \in Seq(Ms) /\ held[c] \in Lists
      BY OneLane
    <3>2. PICK a \in Nat : a = Len(queue[c])
      BY <3>1
    <3>3. PICK b \in Nat : b = Len(held[c])
      BY <3>1 DEF Lists
    <3>4. Waits(c) = IF w[c] \in Taken THEN a + b + 1 ELSE a + b
      BY <3>2, <3>3, WaitsOf
    <3>5. a = Len(queue'[c]) /\ b = Len(held'[c]) /\ w'[c] \notin Taken
      BY <1>3, <1>4, <3>2, <3>3 DEF Taken
    <3>6. Waits(c)' = a + b
      BY <3>5, WaitsThen
    <3> QED BY <2>1, <3>4, <3>6 DEF Counted
  <2>4. Counted(c) \in Int /\ Counted(c)' \in Int /\ queued[c] \in Nat
    <3>1. Waits(c) \in Nat /\ queued[c] \in Nat
      BY <1>0, WaitsNat
    <3>2. queue'[c] \in Seq(Msgs \cup News) /\ held'[c] \in Seq(Seq(Msgs \cup News))
      BY <1>6 DEF TypeOK
    <3>3. Waits(c)' \in Nat
      BY <3>2, WaitsIs DEF Waits
    <3> QED BY <3>1, <3>3 DEF Counted
  <2> QED BY <1>0, <1>3, <1>4, <2>2, <2>3, <2>4 DEF CountsOK
<1>10. \A l : InLane(l)' = InLane(l)
  BY <1>3 DEF InLane
<1>11. MessagesOK'
  BY <1>0, <1>3, <1>4, <1>10 DEF MessagesOK, Turn
<1>12. ASSUME ~Beside PROVE SoloOK'
  <2>0. SoloOK /\ UpOK /\ x = "dispatcher" /\ phase = "up"
    <3>1. x = "dispatcher"
      BY <1>0, <1>4, <1>12 DEF CallsOK, Callers
    <3>2. phase = "up"
      BY <1>0, <1>4, <3>1 DEF CallsOK
    <3> QED BY <1>0, <1>12, <3>1, <3>2 DEF SoloOK
  <2>1. cur = 0
    BY <1>1, <2>0 DEF UpOK
  <2>2. \A k \in Lanes : Idle(k)'
    <3>1. Idle(c)'
      BY <1>4 DEF Idle
    <3>2. \A k \in Lanes \ {c} : Idle(k)
      <4>1. \A k \in Lanes : k # 0
        BY DEF Lanes
      <4> QED BY <1>2, <2>0, <2>1, <4>1 DEF UpOK, Resetting
    <3>3. \A k \in Lanes \ {c} : Idle(k)'
      BY <1>3, <1>4, <3>2 DEF Idle
    <3> QED BY <3>1, <3>3
  <2>3. ASSUME NEW m \in accepted'
        PROVE  \/ m \in cut' \/ m \in Range(read')
               \/ \E k \in Lanes : w'[k] \notin {"none", "gone"} /\ m \in InLane(k)'
    <3>1. \/ m \in cut \/ m \in Range(read)
          \/ \E k \in Lanes : w[k] \notin {"none", "gone"} /\ m \in InLane(k)
      BY <1>3, <2>0, <2>3 DEF UpOK
    <3>2. InLane(c) \subseteq cut
      BY <1>4, <2>0 DEF UpOK
    <3> QED BY <1>3, <1>4, <1>10, <3>1, <3>2
  <2>4. UpOK'
    BY <1>3, <1>5, <1>10, <2>0, <2>1, <2>2, <2>3 DEF UpOK
  <2> QED BY <2>2, <2>4 DEF SoloOK
<1> QED BY <1>6, <1>7, <1>8, <1>9, <1>11, <1>12 DEF IInv

\* The bot's stop drops what waits.
LEMMA CloseDropsStep == ASSUME IInv, CloseDrops PROVE IInv'
<1>0. TypeOK /\ CallsOK /\ LanesOK /\ CountsOK /\ MessagesOK /\ (~Beside => SoloOK)
  BY DEF IInv
<1>1. /\ phase = "closing" /\ phase' = "draining"
      /\ UNCHANGED <<cur, w, job, held, late, queue, stopped, call, sent, waker, woke, accepted,
                     read, cut>>
  BY DEF CloseDrops, task, callers
<1>2. CASE cur = 0 /\ UNCHANGED <<queued, busy, retired, stale, open, waiting, told>>
  <2>1. TypeOK'
    BY <1>0, <1>1, <1>2 DEF TypeOK
  <2>2. waker' = "checked" => woke' < MaxNews
    BY <1>0, <1>1 DEF CallsOK
  <2> QED BY <1>1, <1>2, <2>1, <2>2, SameStep DEF LanesSame
<1>3. CASE cur # 0
  <2>1. PICK c \in Lanes : c = cur
    BY <1>0, <1>3, CurIsLane
  <2>2. /\ retired' = [retired EXCEPT ![c] = TRUE] /\ open' = [open EXCEPT ![c] = FALSE]
        /\ waiting' = [waiting EXCEPT ![c] = <<>>]
        /\ queued' = [queued EXCEPT ![c] = 0] \/ queued' = queued
        /\ told' \in BOOLEAN /\ busy' = busy /\ stale' = stale
    BY <1>3, <2>1 DEF CloseDrops
  <2>3. /\ retired' \in [Lanes -> BOOLEAN] /\ retired'[c] /\ open' \in [Lanes -> BOOLEAN] /\ ~open'[c]
        /\ waiting' \in [Lanes -> Seq(Msgs)] /\ waiting'[c] = <<>> /\ queued' \in [Lanes -> Nat]
        /\ \A k \in Lanes \ {c} : /\ retired'[k] = retired[k] /\ open'[k] = open[k]
                                  /\ waiting'[k] = waiting[k] /\ queued'[k] = queued[k]
    <3>1. queued' \in [Lanes -> Nat] /\ \A k \in Lanes \ {c} : queued'[k] = queued[k]
      <4>1. queued \in [Lanes -> Nat]
        BY <1>0 DEF TypeOK
      <4> QED BY <2>2, <4>1
    <3>2. /\ retired \in [Lanes -> BOOLEAN] /\ open \in [Lanes -> BOOLEAN]
          /\ waiting \in [Lanes -> Seq(Msgs)] /\ <<>> \in Seq(Msgs)
      BY <1>0 DEF TypeOK
    <3>3. retired' \in [Lanes -> BOOLEAN] /\ retired'[c] /\ \A k \in Lanes \ {c} : retired'[k] = retired[k]
      BY <2>2, <3>2
    <3>4. open' \in [Lanes -> BOOLEAN] /\ ~open'[c] /\ \A k \in Lanes \ {c} : open'[k] = open[k]
      BY <2>2, <3>2
    <3>5. /\ waiting' \in [Lanes -> Seq(Msgs)] /\ waiting'[c] = <<>>
          /\ \A k \in Lanes \ {c} : waiting'[k] = waiting[k]
      BY <2>2, <3>2
    <3> QED BY <3>1, <3>3, <3>4, <3>5
  <2>4. TypeOK'
    BY <1>0, <1>1, <2>2, <2>3 DEF TypeOK
  <2>5. w[c] # "none"
    BY <1>0, <1>3, <2>1 DEF CallsOK
  <2>6. LanesOK'
    BY <1>0, <1>1, <2>2, <2>3, <2>5 DEF LanesOK
  <2>7. CallsOK'
    <3>1. \A k \in Lanes : retired[k] => retired'[k]
      BY <2>3
    <3> QED BY <1>0, <1>1, <3>1 DEF CallsOK
  <2>8. CountsOK'
    <3>1. \A l \in Lanes : Counted(l)' = Counted(l)
      BY <1>1 DEF Counted, Offering, Waits
    <3> QED BY <1>0, <1>1, <2>3, <3>1 DEF CountsOK
  <2>9. \A l \in Lanes : InLane(l)' \subseteq InLane(l)
    <3>1. \A k \in Lanes \ {c} : InLane(k)' = InLane(k)
      BY <1>1, <2>3, InLaneStays
    <3>2. InLane(c)' = Range(queue[c]) \cup Range(job[c]) \cup Range(late[c]) \cup HeldIn(held[c])
      BY <1>1, <2>3, RangeEmpty DEF InLane, HeldIn
    <3>3. InLane(c)' \subseteq InLane(c)
      BY <3>2, InLaneIs
    <3> QED BY <3>1, <3>3
  <2>10. MessagesOK'
    <3>1. \A l \in Lanes : InLane(l)' \subseteq accepted'
      BY <1>0, <1>1, <2>9 DEF MessagesOK
    <3> QED BY <1>0, <1>1, <3>1 DEF MessagesOK
  <2>11. ASSUME ~Beside PROVE SoloOK'
    <3>1. \A l \in Lanes : Idle(l)' <=> Idle(l)
      BY <1>1 DEF Idle
    <3> QED BY <1>0, <1>1, <2>11, <3>1 DEF SoloOK
  <2> QED BY <2>4, <2>6, <2>7, <2>8, <2>10, <2>11 DEF IInv
<1> QED BY <1>2, <1>3 DEF CloseDrops, state, steering

-----------------------------------------------------------------------------
(* The theorems *)

\* Every step keeps the invariant.
LEMMA NextIInv == IInv /\ [Next]_vars => IInv'
<1> SUFFICES ASSUME IInv, [Next]_vars PROVE IInv'
  OBVIOUS
<1>1. CASE Dispatcher
  BY <1>1, SteersStep, OfferFindsStep, OfferRefusedStep, OfferCountsStep, OfferSendsStep DEF Dispatcher
<1>2. CASE WakeChecks \/ Wakes
  BY <1>2, WakeChecksStep, WakesStep
<1>3. CASE \E l \in Lanes : Lane(l)
  BY <1>3, ReceivesStep, ChecksRetiredStep, MergesNextStep, StartsStep, ArmsStep, OpensStep,
     TurnReadsStep, TurnEndsStep, FinishesStep DEF Lane
<1>4. CASE Stops
  BY <1>4, StopsStep
<1>5. CASE \E x \in Callers : Retires(x) \/ ResetTakes(x) \/ ResetRetires(x) \/ ResetEnds(x)
  BY <1>5, RetiresStep, ResetTakesStep, ResetRetiresStep, ResetEndsStep
<1>6. CASE Drain
  BY <1>6, ClosesStep, CloseDropsStep, StopsStep DEF Drain
<1>7. CASE UNCHANGED vars
  <2>1. /\ UNCHANGED <<cur, w, job, held, late, queue, queued, busy, retired, stale, open, waiting,
                       stopped, call, sent, waker, woke, phase, accepted, read, cut, told>>
    BY <1>7 DEF vars, task, state, steering, callers, history
  <2>2. TypeOK'
    BY <2>1 DEF IInv, TypeOK
  <2>3. waker' = "checked" => woke' < MaxNews
    BY <2>1 DEF IInv, CallsOK
  <2> QED BY <2>1, <2>2, <2>3, SameStep DEF LanesSame
<1> QED BY <1>1, <1>2, <1>3, <1>4, <1>5, <1>6, <1>7 DEF Next

\* The invariant holds throughout.
LEMMA Inductive == Spec => []IInv
  BY InitIInv, NextIInv, PTL DEF Spec

\* Every variable of the chat's lanes keeps its type.
THEOREM TypeCorrect == Spec => []TypeOK
<1>1. IInv => TypeOK
  BY DEF IInv
<1> QED BY <1>1, Inductive, PTL

\* LaneState.queued, by which steer, retire and lane_for decide, is what waits in the lane.
THEOREM CountIsExact == Spec => []QueueCounted
<1>1. IInv => QueueCounted
  BY DEF IInv, CountsOK, Counted, Waits, Offering, Taken, QueueCounted
<1> QED BY <1>1, Inductive, PTL

\* At most one lane of the chat has taken a message or runs a turn, whatever /new, model
\* changes and stops come between, as long as the dispatcher itself replaces the lanes.
THEOREM OneAgentWorks == Spec => []OneAgent
<1>1. IInv => OneAgent
  <2>1. \A l \in Lanes : Working(l) => ~Idle(l)
    BY DEF Working, Idle
  <2> QED BY <2>1 DEF IInv, SoloOK, OneAgent
<1> QED BY <1>1, Inductive, PTL

\* While the bot is up no message that a lane accepted is lost.
THEOREM NoneLost == Spec => []NothingLost
<1>1. IInv => NothingLost
  BY DEF IInv, SoloOK, UpOK, NothingLost
<1> QED BY <1>1, Inductive, PTL

\* What waits in a lane that is idle or retired when the stop comes was thrown away before.
LEMMA OthersCut ==
    ASSUME IInv, ~Beside, phase = "closing", NEW l \in Lanes, l # cur,
           w[l] \notin {"none", "gone"}, NEW m \in InLane(l)
    PROVE  m \in cut
<1>1. UpOK /\ CallsOK
  BY DEF IInv, SoloOK
<1>2. ~Resetting(l)
  BY <1>1 DEF CallsOK, Resetting, Ready
<1>3. Idle(l) \/ retired[l]
  BY <1>1, <1>2 DEF UpOK
<1>4. ~Idle(l)
  <2>1. ASSUME Idle(l) PROVE FALSE
    <3>1. w[l] = "recv" /\ queue[l] = <<>> /\ held[l] = <<>>
      BY <2>1 DEF Idle
    <3>2. job[l] = <<>> /\ late[l] = <<>> /\ waiting[l] = <<>>
      BY <3>1, OneLane
    <3>3. InLane(l) = {}
      BY <3>1, <3>2, RangeEmpty, InLaneIs
    <3> QED BY <3>3
  <2> QED BY <2>1
<1> QED BY <1>1, <1>3, <1>4 DEF UpOK

\* The stop tells the chat, or all that was accepted is read, thrown away before or late.
LEMMA DropsToldStep ==
    ASSUME IInv, ~Beside, CloseDrops, ~told', NEW m \in accepted
    PROVE  m \in cut \cup Range(read) \cup UNION {Range(late[l]) : l \in Lanes}
<1>1. phase = "closing" /\ TypeOK
  BY DEF CloseDrops, IInv
<1>2. UpOK
  BY <1>1 DEF IInv, SoloOK
<1>3. \/ m \in cut \/ m \in Range(read)
      \/ \E l \in Lanes : w[l] \notin {"none", "gone"} /\ m \in InLane(l)
  BY <1>2 DEF UpOK
<1>4. ASSUME NEW l \in Lanes, w[l] \notin {"none", "gone"}, m \in InLane(l), l # cur
      PROVE  m \in cut
  BY <1>1, <1>4, OthersCut
<1>5. ASSUME NEW l \in Lanes, w[l] \notin {"none", "gone"}, m \in InLane(l), l = cur
      PROVE  m \in Range(read) \cup Range(late[l])
  <2>1. cur # 0 /\ queued[l] \in Nat
    BY <1>1, <1>5 DEF Lanes, TypeOK
  <2>2. queued[l] = 0 /\ waiting[l] = <<>> /\ ~retired[l]
    <3>1. ~(queued[l] > 0 \/ waiting[l] # <<>>)
      BY <1>5, <2>1 DEF CloseDrops
    <3> QED BY <1>2, <1>5, <2>1, <3>1 DEF UpOK
  <2>3. CASE ~busy[l]
    <3>1. w[l] = "recv" /\ queue[l] = <<>> /\ held[l] = <<>>
      BY <1>5, <2>2, <2>3, NothingCounted
    <3>2. job[l] = <<>>
      BY <3>1, OneLane
    <3> QED BY <1>5, <2>2, <3>1, <3>2, RangeEmpty, InLaneIs
  <2>4. CASE busy[l]
    <3>1. w[l] \in Turn /\ Range(job[l]) \subseteq Range(read)
      BY <1>5, <2>4, OneLane
    <3>2. queue[l] = <<>> /\ held[l] = <<>>
      <4>1. Counted(l) = 0
        BY <2>2 DEF IInv, CountsOK
      <4> QED BY <4>1, CountedNone
    <3> QED BY <1>5, <2>2, <3>1, <3>2, RangeEmpty, InLaneIs
  <2> QED BY <2>3, <2>4
<1> QED BY <1>3, <1>4, <1>5

\* What the bot's stop leaves unread, its chat is told of, except what steered a turn too late.
THEOREM DropsTold == ASSUME ~Beside PROVE Spec => DroppedAreTold
<1>1. ASSUME IInv, Next, phase = "closing", phase' = "draining" PROVE CloseDrops
  <2>1. CASE Dispatcher
    BY <1>1, <2>1 DEF Dispatcher, Steers, OfferFinds, OfferRefused, OfferCounts, OfferSends
  <2>2. CASE WakeChecks \/ Wakes \/ Stops
    BY <1>1, <2>2 DEF WakeChecks, Wakes, Stops
  <2>3. CASE \E l \in Lanes : Lane(l)
    BY <1>1, <2>3 DEF Lane, Receives, ChecksRetired, MergesNext, Starts, Arms, Opens, TurnReads,
       TurnEnds, Finishes
  <2>4. CASE \E x \in Callers : Retires(x) \/ ResetTakes(x) \/ ResetRetires(x) \/ ResetEnds(x)
    BY <1>1, <2>4 DEF Retires, ResetTakes, ResetRetires, ResetEnds
  <2>5. CASE Drain
    BY <1>1, <2>5 DEF Drain, Closes, DrainStops, Drained
  <2> QED BY <1>1, <2>1, <2>2, <2>3, <2>4, <2>5 DEF Next
<1> DEFINE Told == phase = "closing" /\ phase' = "draining" =>
             told' \/ accepted \cap Msgs \subseteq
                        cut \cup Range(read) \cup UNION {Range(late[l]) : l \in Lanes}
<1>2. IInv /\ [Next]_vars => [Told]_vars
  BY <1>1, DropsToldStep
<1>3. DroppedAreTold <=> [][Told]_vars
  BY DEF DroppedAreTold
<1> QED BY <1>2, <1>3, Inductive, PTL DEF Spec
=============================================================================
