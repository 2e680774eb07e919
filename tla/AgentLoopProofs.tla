--------------------------- MODULE AgentLoopProofs ---------------------------
(***************************************************************************)
(* Whatever ends a run, its announced calls are finished, it ends as       *)
(* finished only with its changes checked, every call it asked for has its *)
(* result right after it, no request breaks a pair, and the transcript     *)
(* replays to the history: for any calls a model may ask for, any limits,  *)
(* and any halts, stops, hooks, folds and crashes.                         *)
(***************************************************************************)
EXTENDS AgentLoop, FiniteSetTheorems, WellFoundedInduction, SequenceTheorems, TLAPS

Calls == [id : Nat, kind : STRING]
Outside == {"idle", "top", "compact", "folded", "call", "check", "stop", "told"}

\* The calls of an answer are told apart by their ids.
CallsOK ==
    /\ ids \in Nat /\ calls \in Seq(Calls)
    /\ \A i, j \in 1..Len(calls) : calls[i].id = calls[j].id => i = j

\* Where a change since the last check is known, and who may end as finished.
ChecksOK ==
    /\ pc \in Pcs /\ needsCheck \in BOOLEAN /\ dirty \in BOOLEAN
    /\ pc # "idle" => outcome = "none"
    /\ pc # "idle" => (dirty => needsCheck)
    /\ pc = "stop" => ~dirty

\* The segment is within the answer; its verdicts and its runs are counted.
SegmentOK ==
    /\ at \in Nat /\ gated \in Seq({"passed", "settled"})
    /\ ran \in Seq({"waiting", "turn", "going", "ok", "error", "settled"})
    /\ pc \in {"gate", "asked", "run"} => at \in 1..Len(calls)
    /\ pc \in {"gate", "asked"} => Len(gated) < SegLen
    /\ pc = "run" => Len(ran) = SegLen
    /\ pc = "post" => at >= 1 /\ Len(ran) >= 1 /\ at + Len(ran) - 1 <= Len(calls)

\* Which calls are announced and not finished, by where the loop is.
AnnouncedOK ==
    /\ pc \in Outside => announced = {}
    /\ pc = "gate" => announced = SegIds(1, Len(gated))
    /\ pc = "asked" => announced = SegIds(1, Len(gated) + 1)
    /\ pc = "run" => announced = SegIds(1, SegLen)
    /\ pc = "post" => announced = {calls[i].id : i \in at..(at + Len(ran) - 1)}

IInv == CallsOK /\ ChecksOK /\ SegmentOK /\ AnnouncedOK /\ FinishedIsChecked

USE LoopAssumption

-----------------------------------------------------------------------------
(* The segment *)

\* A finite set of numbers has its largest.
LEMMA MaxOf ==
    ASSUME NEW n \in Nat, NEW S, S \subseteq 0..n, S # {}
    PROVE  Max(S) \in S /\ \A y \in S : Max(S) >= y
<1> DEFINE T == {n - x : x \in S}
<1>1. T \subseteq Nat /\ T # {}
  <2>1. \A x \in S : n - x \in Nat
    OBVIOUS
  <2>2. T \subseteq Nat
    BY <2>1
  <2>3. PICK x : x \in S
    OBVIOUS
  <2>4. n - x \in T
    BY <2>3
  <2> QED BY <2>2, <2>4
<1>2. PICK z \in T : \A y \in T : ~(<<y, z>> \in OpToRel(<, Nat))
  BY <1>1, NatLessThanWellFounded, WFMin
<1>3. PICK x \in S : z = n - x
  OBVIOUS
<1>4. \A y \in S : x >= y
  <2> SUFFICES ASSUME NEW y \in S, x < y PROVE FALSE
    OBVIOUS
  <2>1. n - y \in T /\ n - y < z /\ n - y \in Nat /\ z \in Nat
    BY <1>1, <1>3
  <2> QED BY <1>2, <2>1 DEF OpToRel
<1> QED BY <1>4 DEF Max

\* segment_end: the segment has a call, and ends within the answer.
LEMMA SegmentWithin ==
    ASSUME CallsOK, at \in 1..Len(calls)
    PROVE  /\ SegmentEnd \in at..Len(calls) /\ SegLen \in Nat /\ SegLen >= 1
           /\ at + SegLen - 1 = SegmentEnd
<1>1. PICK n \in Nat : n = Len(calls)
  BY DEF CallsOK
<1>2. SegmentEnd \in at..n
  <2>1. CASE Parallel <= 1 \/ calls[at].kind \notin ReadOnly
    <3>1. SegmentEnd = at
      BY <2>1 DEF SegmentEnd
    <3> QED BY <1>1, <3>1
  <2>2. CASE ~(Parallel <= 1 \/ calls[at].kind \notin ReadOnly)
    <3> DEFINE S == {e \in at..Len(calls) : \A i \in at..e : calls[i].kind \in ReadOnly}
    <3>1. SegmentEnd = Max(S)
      BY <2>2 DEF SegmentEnd
    <3>2. at \in S
      <4>1. at \in at..Len(calls) /\ \A i \in at..at : i = at
        BY <1>1
      <4> QED BY <2>2, <4>1
    <3>3. S \subseteq 0..n /\ S \subseteq at..n
      BY <1>1
    <3> HIDE DEF S
    <3>4. Max(S) \in S
      BY <3>2, <3>3, MaxOf
    <3> QED BY <3>1, <3>3, <3>4
  <2> QED BY <2>1, <2>2
<1>3. PICK e \in at..n : e = SegmentEnd
  BY <1>2
<1>4. SegLen = e - at + 1
  BY <1>3 DEF SegLen
<1> QED BY <1>1, <1>3, <1>4

\* The segment is where the answer's calls and its start say.
LEMMA SegSame ==
    ASSUME UNCHANGED <<calls, at>>
    PROVE  SegmentEnd' = SegmentEnd /\ SegLen' = SegLen /\ \A a, b : SegIds(a, b)' = SegIds(a, b)
<1>1. calls' = calls /\ at' = at
  OBVIOUS
<1>2. SegmentEnd' = SegmentEnd
  BY <1>1 DEF SegmentEnd
<1>3. SegLen' = SegLen
  BY <1>1, <1>2 DEF SegLen
<1>4. \A a, b : SegIds(a, b)' = SegIds(a, b)
  BY <1>1 DEF SegIds, Seg
<1> QED BY <1>2, <1>3, <1>4

\* A segment has a call, as a formula of its own.
LEMMA SegmentHasCall == CallsOK /\ at \in 1..Len(calls) => SegLen \in Nat /\ SegLen >= 1
BY SegmentWithin

-----------------------------------------------------------------------------
(* Steps that leave the calls alone *)

\* The run is over, with nothing announced.
LEMMA OverIInv ==
    ASSUME IInv, NEW o, Over(o), announced' = {}, ids' = ids, dirty' \in BOOLEAN,
           o = "finished" => ~dirty'
    PROVE  IInv'
<1>1. /\ pc' = "idle" /\ outcome' = o /\ calls' = <<>> /\ at' = 0 /\ gated' = <<>> /\ ran' = <<>>
      /\ needsCheck' = FALSE
  BY DEF Over
<1>2. CallsOK'
  <2>1. calls' \in Seq(Calls) /\ Len(calls') = 0 /\ ids' \in Nat
    BY <1>1 DEF IInv, CallsOK
  <2> QED BY <2>1 DEF CallsOK
<1>3. ChecksOK'
  BY <1>1 DEF ChecksOK, Pcs
<1>4. SegmentOK'
  BY <1>1 DEF SegmentOK
<1>5. AnnouncedOK'
  BY <1>1 DEF AnnouncedOK
<1>6. FinishedIsChecked'
  BY <1>1 DEF FinishedIsChecked
<1> QED BY <1>2, <1>3, <1>4, <1>5, <1>6 DEF IInv

\* The loop moves on, between an answer's calls and the next answer.
LEMMA AwayIInv ==
    ASSUME IInv, pc \in Outside, pc' \in Outside,
           UNCHANGED <<announced, ids>>, ChecksOK', FinishedIsChecked',
           UNCHANGED <<calls, at, gated, ran>> \/ NoSegment
    PROVE  IInv'
<1>1. CallsOK' /\ at' \in Nat /\ gated' \in Seq({"passed", "settled"})
      /\ ran' \in Seq({"waiting", "turn", "going", "ok", "error", "settled"})
  <2>1. CASE UNCHANGED <<calls, at, gated, ran>>
    BY <2>1 DEF IInv, CallsOK, SegmentOK
  <2>2. CASE NoSegment
    <3>1. calls' \in Seq(Calls) /\ Len(calls') = 0 /\ ids' \in Nat
      BY <2>2 DEF IInv, CallsOK, NoSegment
    <3> QED BY <2>2, <3>1 DEF CallsOK, NoSegment
  <2> QED BY <2>1, <2>2
<1>2. SegmentOK'
  BY <1>1 DEF SegmentOK, Outside
<1>3. AnnouncedOK'
  BY DEF IInv, AnnouncedOK, Outside
<1> QED BY <1>1, <1>2, <1>3 DEF IInv

\* A step that changes neither what was announced nor what is to be checked.
LEMMA OnIInv ==
    ASSUME IInv, pc \in Outside \ {"idle"}, pc' \in Outside \ {"idle", "stop"},
           UNCHANGED <<announced, ids, outcome, dirty, needsCheck>>,
           UNCHANGED <<calls, at, gated, ran>> \/ NoSegment
    PROVE  IInv'
<1>1. ChecksOK' /\ FinishedIsChecked'
  BY DEF IInv, ChecksOK, FinishedIsChecked, Outside, Pcs
<1> QED BY <1>1, AwayIInv

\* A run begins with nothing changed.
LEMMA BeginsIInv ==
    ASSUME IInv, Begins
    PROVE  IInv'
<1>1. /\ pc = "idle" /\ pc' = "top" /\ outcome' = "none" /\ dirty' = FALSE
      /\ UNCHANGED <<needsCheck, announced, ids, calls, at, gated, ran>>
  BY DEF Begins, counters, segment
<1>2. ChecksOK' /\ FinishedIsChecked'
  BY <1>1 DEF IInv, ChecksOK, FinishedIsChecked, Pcs
<1> QED BY <1>1, <1>2, AwayIInv DEF Outside

\* A request that a hook blocks, and a turn of a switch.
LEMMA StaysIInv ==
    ASSUME IInv, Blocked \/ Flips \/ UNCHANGED vars
    PROVE  IInv'
<1>1. /\ UNCHANGED <<pc, needsCheck, dirty, announced, ids, calls, at, gated, ran>>
      /\ outcome' = outcome \/ (pc = "idle" /\ outcome' = "incomplete")
  BY DEF Blocked, Flips, vars, store, counters, segment, ghosts
<1>2. ChecksOK' /\ FinishedIsChecked'
  BY <1>1 DEF IInv, ChecksOK, FinishedIsChecked
<1>3. CallsOK'
  BY <1>1 DEF IInv, CallsOK
<1>4. SegLen' = SegLen /\ \A a, b : SegIds(a, b)' = SegIds(a, b)
  BY <1>1, SegSame
<1>5. SegmentOK'
  BY <1>1, <1>4 DEF IInv, SegmentOK
<1>6. AnnouncedOK'
  BY <1>1, <1>4 DEF IInv, AnnouncedOK
<1> QED BY <1>2, <1>3, <1>5, <1>6 DEF IInv

\* The ends outside a segment: what was announced is finished already.
LEMMA EndsIInv ==
    ASSUME IInv, \/ \E where \in {"top", "compact", "folded", "call", "check", "stop", "told"} :
                        HaltsAt(where)
                 \/ Stopped \/ Fails \/ AnswersStatus \/ Finishes \/ Dies
    PROVE  IInv'
<1>1. CASE \E where \in {"top", "compact", "folded", "call", "check", "stop", "told"} : HaltsAt(where)
  <2>1. pc \in Outside /\ Over("incomplete") /\ UNCHANGED <<announced, ids, dirty>>
    BY <1>1 DEF HaltsAt, Halt, Outside
  <2>2. announced' = {} /\ dirty' \in BOOLEAN
    BY <2>1 DEF IInv, AnnouncedOK, ChecksOK
  <2> QED BY <2>1, <2>2, OverIInv
<1>2. CASE Stopped
  <2>1. pc \in Outside /\ Over("aborted") /\ UNCHANGED <<announced, ids, dirty>>
    BY <1>2 DEF Stopped, Outside, ghosts
  <2>2. announced' = {} /\ dirty' \in BOOLEAN
    BY <2>1 DEF IInv, AnnouncedOK, ChecksOK
  <2> QED BY <2>1, <2>2, OverIInv
<1>3. CASE Fails
  <2>1. pc \in Outside /\ Over("failed") /\ UNCHANGED <<announced, ids, dirty>>
    BY <1>3 DEF Fails, Outside, ghosts
  <2>2. announced' = {} /\ dirty' \in BOOLEAN
    BY <2>1 DEF IInv, AnnouncedOK, ChecksOK
  <2> QED BY <2>1, <2>2, OverIInv
<1>4. CASE AnswersStatus
  <2>1. pc \in Outside /\ Over("incomplete") /\ UNCHANGED <<announced, ids, dirty>>
    BY <1>4 DEF AnswersStatus, Outside, ghosts
  <2>2. announced' = {} /\ dirty' \in BOOLEAN
    BY <2>1 DEF IInv, AnnouncedOK, ChecksOK
  <2> QED BY <2>1, <2>2, OverIInv
<1>5. CASE Finishes
  <2>1. /\ pc = "stop" /\ (Over("finished") \/ Over("incomplete"))
        /\ UNCHANGED <<announced, ids, dirty>>
    BY <1>5 DEF Finishes, ghosts
  <2>2. announced' = {} /\ dirty' \in BOOLEAN /\ ~dirty'
    BY <2>1 DEF IInv, AnnouncedOK, ChecksOK, Outside
  <2> QED BY <2>1, <2>2, OverIInv
<1>6. CASE Dies
  <2>1. Over("none") /\ announced' = {} /\ UNCHANGED <<ids, dirty>>
    BY <1>6 DEF Dies
  <2>2. dirty' \in BOOLEAN
    BY <2>1 DEF IInv, ChecksOK
  <2> QED BY <2>1, <2>2, OverIInv
<1> QED BY <1>1, <1>2, <1>3, <1>4, <1>5, <1>6

\* The loop's steps that neither end the run nor touch its calls.
LEMMA TurnsIInv ==
    ASSUME IInv, \/ UsedUp \/ GoesOn \/ Sends \/ TooLong \/ FoldLogged \/ AnswersGarbled
                 \/ ChecksFail \/ StopHookBlocks \/ TurnEnds \/ Stuck
    PROVE  IInv'
<1>1. CASE UsedUp
  <2>1. /\ pc = "top" /\ pc' = "compact"
        /\ UNCHANGED <<announced, ids, outcome, dirty, needsCheck, calls, at, gated, ran>>
    BY <1>1 DEF UsedUp, WrapsUp, segment, ghosts
  <2> QED BY <2>1, OnIInv DEF Outside
<1>2. CASE GoesOn
  <2>1. /\ pc = "top" /\ pc' = "compact"
        /\ UNCHANGED <<announced, ids, outcome, dirty, needsCheck, calls, at, gated, ran>>
    BY <1>2 DEF GoesOn, segment, ghosts
  <2> QED BY <2>1, OnIInv DEF Outside
<1>3. CASE Sends
  <2>1. /\ pc = "compact" /\ pc' \in {"folded", "call"}
        /\ UNCHANGED <<announced, ids, outcome, dirty, needsCheck, calls, at, gated, ran>>
    BY <1>3 DEF Sends, Folded, counters, segment
  <2> QED BY <2>1, OnIInv DEF Outside
<1>4. CASE TooLong
  <2>1. /\ pc = "call" /\ pc' = "folded"
        /\ UNCHANGED <<announced, ids, outcome, dirty, needsCheck, calls, at, gated, ran>>
    BY <1>4 DEF TooLong, Folded, segment
  <2> QED BY <2>1, OnIInv DEF Outside
<1>5. CASE FoldLogged
  <2>1. /\ pc = "folded" /\ pc' = "call"
        /\ UNCHANGED <<announced, ids, outcome, dirty, needsCheck, calls, at, gated, ran>>
    BY <1>5 DEF FoldLogged, counters, segment
  <2> QED BY <2>1, OnIInv DEF Outside
<1>6. CASE AnswersGarbled
  <2>1. /\ pc = "call" /\ pc' = "top"
        /\ UNCHANGED <<announced, ids, outcome, dirty, needsCheck, calls, at, gated, ran>>
    BY <1>6 DEF AnswersGarbled, segment, ghosts
  <2> QED BY <2>1, OnIInv DEF Outside
<1>7. CASE ChecksFail
  <2>1. /\ pc = "check" /\ pc' \in {"top", "compact"}
        /\ UNCHANGED <<announced, ids, outcome, dirty, needsCheck, calls, at, gated, ran>>
    BY <1>7 DEF ChecksFail, SentBack, segment, ghosts
  <2> QED BY <2>1, OnIInv DEF Outside
<1>8. CASE StopHookBlocks
  <2>1. /\ pc = "stop" /\ pc' \in {"top", "compact"}
        /\ UNCHANGED <<announced, ids, outcome, dirty, needsCheck, calls, at, gated, ran>>
    BY <1>8 DEF StopHookBlocks, SentBack, segment, ghosts
  <2> QED BY <2>1, OnIInv DEF Outside
<1>9. CASE TurnEnds
  <2>1. /\ pc = "told" /\ pc' = "top" /\ NoSegment
        /\ UNCHANGED <<announced, ids, outcome, dirty, needsCheck>>
    BY <1>9 DEF TurnEnds, ghosts
  <2> QED BY <2>1, OnIInv DEF Outside
<1>10. CASE Stuck
  <2>1. /\ pc = "told" /\ pc' \in {"top", "compact"} /\ NoSegment
        /\ UNCHANGED <<announced, ids, outcome, dirty, needsCheck>>
    BY <1>10 DEF Stuck, WrapsUp, ghosts
  <2> QED BY <2>1, OnIInv DEF Outside
<1> QED BY <1>1, <1>2, <1>3, <1>4, <1>5, <1>6, <1>7, <1>8, <1>9, <1>10

\* The model is done, or the checks passed: the finish is near only with nothing unchecked.
LEMMA FinishIInv ==
    ASSUME IInv, AnswersText \/ ChecksPass
    PROVE  IInv'
<1>1. CASE AnswersText
  <2>1. /\ pc = "call" /\ pc' = IF needsCheck THEN "check" ELSE "stop"
        /\ UNCHANGED <<announced, ids, outcome, dirty, needsCheck, calls, at, gated, ran>>
    BY <1>1 DEF AnswersText, counters, segment, ghosts
  <2>2. ChecksOK' /\ FinishedIsChecked'
    BY <2>1 DEF IInv, ChecksOK, FinishedIsChecked, Pcs
  <2> QED BY <2>1, <2>2, AwayIInv DEF Outside
<1>2. CASE ChecksPass
  <2>1. /\ pc = "check" /\ pc' = "stop" /\ needsCheck' = FALSE /\ dirty' = FALSE
        /\ UNCHANGED <<announced, ids, outcome, calls, at, gated, ran>>
    BY <1>2 DEF ChecksPass, segment
  <2>2. ChecksOK' /\ FinishedIsChecked'
    BY <2>1 DEF IInv, ChecksOK, FinishedIsChecked, Pcs
  <2> QED BY <2>1, <2>2, AwayIInv DEF Outside
<1> QED BY <1>1, <1>2

-----------------------------------------------------------------------------
(* Steps of a segment *)

\* The model asks for calls: new ids, and none of them announced yet.
LEMMA AnswersCallsIInv ==
    ASSUME IInv, NEW shape \in Shapes, AnswersCalls(shape)
    PROVE  IInv'
<1>1. /\ pc = "call" /\ pc' = "gate" /\ at' = 1 /\ gated' = <<>> /\ ran' = <<>>
      /\ calls' = [i \in DOMAIN shape |-> [id |-> ids + i, kind |-> shape[i]]]
      /\ ids' = ids + Len(shape)
      /\ UNCHANGED <<needsCheck, outcome, announced, dirty>>
  BY DEF AnswersCalls
<1>2. shape \in Seq(STRING) /\ shape # <<>> /\ ids \in Nat
  BY DEF IInv, CallsOK
<1>3. PICK n \in Nat : n = Len(shape) /\ DOMAIN shape = 1..n /\ n >= 1
  BY <1>2
<1>4. /\ calls' = [i \in 1..n |-> [id |-> ids + i, kind |-> shape[i]]]
      /\ \A i \in 1..n : shape[i] \in STRING /\ ids + i \in Nat
  BY <1>1, <1>2, <1>3
<1>5. /\ calls' \in [1..n -> Calls] /\ \A i \in 1..n : calls'[i].id = ids + i
  BY <1>4 DEF Calls
<1>6. calls' \in Seq(Calls) /\ Len(calls') = n
  BY <1>5
<1>7. CallsOK'
  <2>1. ids' \in Nat
    BY <1>1, <1>2, <1>3
  <2>2. \A i, j \in 1..n : calls'[i].id = calls'[j].id => i = j
    BY <1>2, <1>5
  <2> QED BY <1>6, <2>1, <2>2 DEF CallsOK
<1>8. ChecksOK' /\ FinishedIsChecked'
  BY <1>1 DEF IInv, ChecksOK, FinishedIsChecked, Pcs
<1>9. at' \in 1..Len(calls') /\ Len(gated') = 0
  BY <1>1, <1>3, <1>6
<1>10. SegLen' \in Nat /\ SegLen' >= 1
  <2>1. (CallsOK /\ at \in 1..Len(calls))'
    BY <1>7, <1>9
  <2>2. (SegLen \in Nat /\ SegLen >= 1)'
    BY <2>1, SegmentHasCall, PTL
  <2> QED BY <2>2
<1>11. SegmentOK'
  BY <1>1, <1>9, <1>10 DEF SegmentOK
<1>12. AnnouncedOK'
  <2>1. announced' = {}
    BY <1>1 DEF IInv, AnnouncedOK, Outside
  <2>2. SegIds(1, Len(gated))' = {}
    BY <1>9 DEF SegIds
  <2> QED BY <1>1, <2>1, <2>2 DEF AnnouncedOK, Outside
<1> QED BY <1>7, <1>8, <1>11, <1>12 DEF IInv

\* What the run leaves behind at its end in a segment was announced, all of it.
LEMMA AbandonIInv ==
    ASSUME IInv, NEW results, NEW from, NEW finished, announced \subseteq finished,
           AbandonHalted(results, from, finished) \/ AbandonStopped(results, from, finished),
           ids' = ids, dirty' \in BOOLEAN
    PROVE  IInv'
<1>1. announced' = {} /\ (Over("incomplete") \/ Over("aborted"))
  BY DEF AbandonHalted, AbandonStopped, Halt
<1> QED BY <1>1, OverIInv

\* The ends in a segment finish what was announced.
LEMMA CutIInv ==
    ASSUME IInv, GateStops \/ GateHalts \/ RunCut \/ PostHalts
    PROVE  IInv'
<1>1. CASE GateStops
  <2>1. /\ pc = "gate" /\ AbandonStopped(<<>>, at, SegIds(1, Len(gated)))
        /\ UNCHANGED <<ids, dirty>>
    BY <1>1 DEF GateStops
  <2>2. announced \subseteq SegIds(1, Len(gated)) /\ dirty' \in BOOLEAN
    BY <2>1 DEF IInv, AnnouncedOK, ChecksOK
  <2> QED BY <2>1, <2>2, AbandonIInv
<1>2. CASE GateHalts
  <2>1. /\ pc = "asked" /\ AbandonHalted(<<>>, at, SegIds(1, Len(gated) + 1))
        /\ UNCHANGED <<ids, dirty>>
    BY <1>2 DEF GateHalts
  <2>2. announced \subseteq SegIds(1, Len(gated) + 1) /\ dirty' \in BOOLEAN
    BY <2>1 DEF IInv, AnnouncedOK, ChecksOK
  <2> QED BY <2>1, <2>2, AbandonIInv
<1>3. CASE RunCut
  <2> DEFINE results == [i \in 1..SegLen |-> Result(Seg(i).id)]
  <2>1. /\ pc = "run" /\ UNCHANGED <<ids, dirty>>
        /\ \/ AbandonHalted(results, SegmentEnd + 1, SegIds(1, SegLen))
           \/ AbandonStopped(results, SegmentEnd + 1, SegIds(1, SegLen))
    BY <1>3 DEF RunCut
  <2>2. announced \subseteq SegIds(1, SegLen) /\ dirty' \in BOOLEAN
    BY <2>1 DEF IInv, AnnouncedOK, ChecksOK
  <2> HIDE DEF results
  <2> QED BY <2>1, <2>2, AbandonIInv
<1>4. CASE PostHalts
  <2> DEFINE rest == {calls[i].id : i \in at..(at + Len(ran) - 1)}
  <2>1. /\ pc = "post" /\ AbandonHalted(<<Result(Answered.id)>>, at + 1, rest)
        /\ ids' = ids /\ dirty' = (dirty \/ Changed)
    BY <1>4 DEF PostHalts
  <2>2. announced \subseteq rest
    BY <2>1 DEF IInv, AnnouncedOK
  <2>3. dirty' \in BOOLEAN
    BY <2>1
  <2> HIDE DEF rest
  <2> QED BY <2>1, <2>2, <2>3, AbandonIInv
<1> QED BY <1>1, <1>2, <1>3, <1>4

\* One more call is announced.
LEMMA AnnouncesIInv ==
    ASSUME IInv, Announces
    PROVE  IInv'
<1>1. /\ pc = "gate" /\ pc' = "asked" /\ announced' = announced \cup {Seg(Len(gated) + 1).id}
      /\ UNCHANGED <<calls, at, gated, ran, needsCheck, outcome, dirty, ids>>
  BY DEF Announces, counters, segment
<1>2. ChecksOK' /\ FinishedIsChecked'
  BY <1>1 DEF IInv, ChecksOK, FinishedIsChecked, Pcs
<1>3. CallsOK'
  BY <1>1 DEF IInv, CallsOK
<1>4. SegLen' = SegLen /\ \A a, b : SegIds(a, b)' = SegIds(a, b)
  BY <1>1, SegSame
<1>5. SegmentOK'
  BY <1>1, <1>4 DEF IInv, SegmentOK
<1>6. PICK g \in Nat : g = Len(gated)
  BY DEF IInv, SegmentOK
<1>7. SegIds(1, g + 1) = SegIds(1, g) \cup {Seg(g + 1).id}
  <2>1. 1..(g + 1) = (1..g) \cup {g + 1}
    OBVIOUS
  <2> QED BY <2>1 DEF SegIds
<1>8. announced' = SegIds(1, g + 1)
  BY <1>1, <1>6, <1>7 DEF IInv, AnnouncedOK
<1>9. SegIds(1, Len(gated) + 1)' = SegIds(1, g + 1)
  <2>1. (Len(gated) + 1)' = g + 1
    BY <1>1, <1>6
  <2>2. SegIds(1, Len(gated) + 1)' = SegIds(1, g + 1)'
    BY <2>1 DEF SegIds
  <2> QED BY <1>4, <2>2
<1>10. AnnouncedOK'
  BY <1>1, <1>8, <1>9 DEF AnnouncedOK, Outside
<1> QED BY <1>2, <1>3, <1>5, <1>10 DEF IInv

\* One more verdict; with the last, the segment runs.
LEMMA GatesIInv ==
    ASSUME IInv, Gates
    PROVE  IInv'
<1>1. /\ pc = "asked"
      /\ UNCHANGED <<calls, at, needsCheck, outcome, dirty, ids, announced>>
  BY DEF Gates, counters, ghosts
<1>2. PICK v \in {"passed", "settled"} : gated' = Append(gated, v)
  BY DEF Gates
<1>3. /\ CallsOK /\ at \in 1..Len(calls) /\ gated \in Seq({"passed", "settled"})
      /\ ran \in Seq({"waiting", "turn", "going", "ok", "error", "settled"})
      /\ Len(gated) < SegLen /\ announced = SegIds(1, Len(gated) + 1)
  BY <1>1 DEF IInv, SegmentOK, AnnouncedOK
<1>4. PICK g \in Nat, n \in Nat : g = Len(gated) /\ n = SegLen /\ n >= 1 /\ g < n
  BY <1>3, SegmentWithin, SMTT(30)
<1>5. gated' \in Seq({"passed", "settled"}) /\ Len(gated') = g + 1
  BY <1>2, <1>3, <1>4
<1>6. SegLen' = n /\ \A a, b : SegIds(a, b)' = SegIds(a, b)
  BY <1>1, <1>4, SegSame
<1>7. CallsOK' /\ at' \in 1..Len(calls') /\ at' \in Nat
  BY <1>1, <1>3 DEF CallsOK
<1>8. CASE g + 1 < n
  <2>1. pc' = "gate" /\ ran' = ran
    BY <1>4, <1>5, <1>8 DEF Gates
  <2>2. ChecksOK' /\ FinishedIsChecked'
    BY <1>1, <2>1 DEF IInv, ChecksOK, FinishedIsChecked, Pcs
  <2>3. SegmentOK'
    BY <1>3, <1>5, <1>6, <1>7, <1>8, <2>1 DEF SegmentOK
  <2>4. SegIds(1, Len(gated))' = SegIds(1, g + 1)
    <3>1. SegIds(1, Len(gated))' = SegIds(1, g + 1)'
      BY <1>5 DEF SegIds
    <3> QED BY <1>6, <3>1
  <2>5. AnnouncedOK'
    BY <1>1, <1>3, <1>4, <2>1, <2>4 DEF AnnouncedOK, Outside
  <2> QED BY <1>7, <2>2, <2>3, <2>5 DEF IInv
<1>9. CASE ~(g + 1 < n)
  <2>1. /\ pc' = "run"
        /\ ran' = [i \in 1..n |-> IF gated'[i] = "settled" THEN "settled" ELSE "waiting"]
    BY <1>4, <1>5, <1>9 DEF Gates
  <2>2. ran' \in Seq({"waiting", "turn", "going", "ok", "error", "settled"}) /\ Len(ran') = n
    <3>1. ran' \in [1..n -> {"waiting", "turn", "going", "ok", "error", "settled"}]
      BY <2>1
    <3> QED BY <3>1
  <2>3. ChecksOK' /\ FinishedIsChecked'
    BY <1>1, <2>1 DEF IInv, ChecksOK, FinishedIsChecked, Pcs
  <2>4. SegmentOK'
    BY <1>5, <1>6, <1>7, <2>1, <2>2 DEF SegmentOK
  <2>5. SegIds(1, SegLen)' = SegIds(1, n)
    <3>1. SegIds(1, SegLen)' = SegIds(1, n)'
      BY <1>6 DEF SegIds
    <3> QED BY <1>6, <3>1
  <2>6. g + 1 = n
    BY <1>4, <1>9
  <2>7. AnnouncedOK'
    BY <1>1, <1>3, <1>4, <2>1, <2>5, <2>6 DEF AnnouncedOK, Outside
  <2> QED BY <1>7, <2>3, <2>4, <2>7 DEF IInv
<1> QED BY <1>8, <1>9

\* A call of the segment gets its turn, its slot, or its end.
LEMMA RunsIInv ==
    ASSUME IInv, NEW i \in DOMAIN ran, TakesTurn(i) \/ TakesSlot(i) \/ CallEnds(i)
    PROVE  IInv'
<1>1. /\ pc = "run" /\ UNCHANGED <<pc, calls, at, gated, needsCheck, outcome, dirty, ids, announced>>
      /\ \E r \in {"turn", "going", "ok", "error"} : ran' = [ran EXCEPT ![i] = r]
  BY DEF TakesTurn, TakesSlot, CallEnds, counters, ghosts
<1>2. ChecksOK' /\ FinishedIsChecked'
  BY <1>1 DEF IInv, ChecksOK, FinishedIsChecked
<1>3. CallsOK'
  BY <1>1 DEF IInv, CallsOK
<1>4. SegLen' = SegLen /\ \A a, b : SegIds(a, b)' = SegIds(a, b)
  BY <1>1, SegSame
<1>5. /\ ran' \in Seq({"waiting", "turn", "going", "ok", "error", "settled"}) /\ Len(ran') = Len(ran)
  BY <1>1, SMTT(30) DEF IInv, SegmentOK
<1>6. SegmentOK'
  BY <1>1, <1>4, <1>5 DEF IInv, SegmentOK
<1>7. SegIds(1, SegLen)' = SegIds(1, SegLen)
  <2>1. SegIds(1, SegLen)' = {Seg(j).id : j \in 1..SegLen}
    BY <1>1, <1>4 DEF SegIds, Seg
  <2> QED BY <2>1 DEF SegIds
<1>8. AnnouncedOK'
  BY <1>1, <1>7 DEF IInv, AnnouncedOK, Outside
<1> QED BY <1>2, <1>3, <1>6, <1>8 DEF IInv

\* The segment ran: its results are to be taken.
LEMMA RunEndedIInv ==
    ASSUME IInv, RunEnded
    PROVE  IInv'
<1>1. /\ pc = "run" /\ pc' = "post"
      /\ UNCHANGED <<calls, at, gated, ran, needsCheck, outcome, dirty, ids, announced>>
  BY DEF RunEnded, counters, segment, ghosts
<1>2. ChecksOK' /\ FinishedIsChecked'
  BY <1>1 DEF IInv, ChecksOK, FinishedIsChecked, Pcs
<1>3. CallsOK'
  BY <1>1 DEF IInv, CallsOK
<1>4. CallsOK /\ at \in 1..Len(calls) /\ Len(ran) = SegLen /\ announced = SegIds(1, SegLen)
  BY <1>1 DEF IInv, SegmentOK, AnnouncedOK
<1>5. PICK n \in Nat, e \in Nat, l \in Nat :
        /\ n = SegLen /\ n >= 1 /\ e = SegmentEnd /\ l = Len(calls) /\ at + n - 1 = e
        /\ e <= l /\ at \in 1..l
  BY <1>4, SegmentWithin DEF CallsOK
<1>6. SegmentOK'
  BY <1>1, <1>4, <1>5 DEF IInv, SegmentOK
<1>7. SegIds(1, n) = {calls[i].id : i \in at..(at + n - 1)}
  <2>1. \A j \in 1..n : at + j - 1 \in at..(at + n - 1)
    BY <1>5
  <2>2. \A i \in at..(at + n - 1) : i - at + 1 \in 1..n /\ at + (i - at + 1) - 1 = i
    BY <1>5
  <2> QED BY <2>1, <2>2 DEF SegIds, Seg
<1>8. AnnouncedOK'
  BY <1>1, <1>4, <1>5, <1>7 DEF AnnouncedOK, Outside
<1> QED BY <1>2, <1>3, <1>6, <1>8 DEF IInv

\* A result is taken: its call is finished, and no other.
LEMMA TakesIInv ==
    ASSUME IInv, Takes
    PROVE  IInv'
<1>1. /\ pc = "post" /\ announced' = announced \ {calls[at].id}
      /\ needsCheck' = (needsCheck \/ Changed) /\ dirty' = (dirty \/ Changed)
      /\ at' = at + 1 /\ ran' = Tail(ran)
      /\ UNCHANGED <<calls, outcome, ids>>
  BY DEF Takes, Answered
<1>2. /\ CallsOK /\ at \in Nat /\ at >= 1 /\ Len(ran) >= 1 /\ at + Len(ran) - 1 <= Len(calls)
      /\ ran \in Seq({"waiting", "turn", "going", "ok", "error", "settled"})
      /\ gated \in Seq({"passed", "settled"})
      /\ announced = {calls[i].id : i \in at..(at + Len(ran) - 1)}
  BY <1>1 DEF IInv, SegmentOK, AnnouncedOK
<1>3. PICK n \in Nat, l \in Nat : n = Len(ran) /\ l = Len(calls) /\ n >= 1 /\ at + n - 1 <= l
  BY <1>2 DEF CallsOK
<1>4. /\ ran' \in Seq({"waiting", "turn", "going", "ok", "error", "settled"})
      /\ Len(ran') = n - 1 /\ (ran' = <<>> <=> n = 1)
  <2>1. ran # <<>>
    BY <1>2
  <2>2. /\ ran' \in Seq({"waiting", "turn", "going", "ok", "error", "settled"})
        /\ Len(ran') = n - 1
    BY <1>1, <1>2, <1>3, <2>1
  <2>3. ran' = <<>> <=> Len(ran') = 0
    BY <2>2, EmptySeq
  <2> QED BY <1>3, <2>2, <2>3
<1>5. CallsOK'
  BY <1>1, <1>2 DEF CallsOK
<1>6. announced' = {calls[i].id : i \in (at + 1)..(at + n - 1)}
  <2>1. \A i \in at..(at + n - 1) : i \in 1..l /\ (i = at \/ i \in (at + 1)..(at + n - 1))
    BY <1>2, <1>3, SMTT(30)
  <2>2. \A i \in (at + 1)..(at + n - 1) : i \in at..(at + n - 1) /\ i # at
    BY <1>2, <1>3
  <2>3. at \in at..(at + n - 1)
    BY <1>2, <1>3
  <2>4. \A i \in at..(at + n - 1) : calls[i].id = calls[at].id => i = at
    BY <1>2, <1>3, <2>1, <2>3 DEF CallsOK
  <2>5. announced = {calls[i].id : i \in at..(at + n - 1)}
    BY <1>2, <1>3
  <2> QED BY <1>1, <2>1, <2>2, <2>3, <2>4, <2>5
<1>7. pc' \in Pcs \ {"idle", "stop"}
  BY DEF Takes, Pcs
<1>8. ChecksOK' /\ FinishedIsChecked'
  <2>1. /\ needsCheck \in BOOLEAN /\ dirty \in BOOLEAN /\ outcome = "none" /\ (dirty => needsCheck)
    BY <1>1 DEF IInv, ChecksOK
  <2>2. needsCheck' \in BOOLEAN /\ dirty' \in BOOLEAN /\ (dirty' => needsCheck')
    BY <1>1, <2>1
  <2> QED BY <1>1, <1>7, <2>1, <2>2 DEF ChecksOK, FinishedIsChecked
<1>9. CASE n > 1
  <2>1. pc' = "post" /\ gated' = gated
    BY <1>3, <1>4, <1>9 DEF Takes
  <2>2. SegmentOK'
    BY <1>1, <1>2, <1>3, <1>4, <1>9, <2>1, SMTT(30) DEF SegmentOK
  <2>3. at' + Len(ran') - 1 = at + n - 1
    BY <1>1, <1>2, <1>3, <1>4
  <2>4. announced' = {calls'[i].id : i \in at'..(at' + Len(ran') - 1)}
    BY <1>1, <1>6, <2>3
  <2>5. AnnouncedOK'
    BY <2>1, <2>4 DEF AnnouncedOK, Outside
  <2> QED BY <1>5, <1>8, <2>2, <2>5 DEF IInv
<1>10. CASE n = 1
  <2>1. /\ gated' = <<>> /\ pc' = IF at + 1 <= Len(calls) THEN "gate" ELSE "told"
    BY <1>1, <1>3, <1>4, <1>10 DEF Takes
  <2>2. announced' = {}
    BY <1>2, <1>3, <1>6, <1>10
  <2>3. gated' \in Seq({"passed", "settled"}) /\ Len(gated') = 0
    BY <2>1
  <2>4. pc' = "gate" => at' \in 1..Len(calls') /\ SegLen' \in Nat /\ SegLen' >= 1
    <3> SUFFICES ASSUME pc' = "gate"
                 PROVE  at' \in 1..Len(calls') /\ SegLen' \in Nat /\ SegLen' >= 1
      OBVIOUS
    <3>1. at' \in 1..Len(calls')
      BY <1>1, <1>2, <1>3, <2>1, SMTT(30)
    <3>2. (CallsOK /\ at \in 1..Len(calls))'
      BY <1>5, <3>1
    <3>3. (SegLen \in Nat /\ SegLen >= 1)'
      BY <3>2, SegmentHasCall, PTL
    <3> QED BY <3>1, <3>3
  <2>5. SegmentOK'
    BY <1>1, <1>2, <1>4, <2>1, <2>3, <2>4, SMTT(30) DEF SegmentOK
  <2>6. SegIds(1, Len(gated))' = {}
    BY <2>3 DEF SegIds
  <2>7. AnnouncedOK'
    BY <2>1, <2>2, <2>6 DEF AnnouncedOK, Outside
  <2> QED BY <1>5, <1>8, <2>5, <2>7 DEF IInv
<1> QED BY <1>3, <1>9, <1>10

-----------------------------------------------------------------------------
(* The theorems *)

\* The agent starts idle, with nothing called and nothing changed.
LEMMA InitIInv == Init => IInv
<1> SUFFICES ASSUME Init PROVE IInv
  OBVIOUS
<1>1. /\ pc = "idle" /\ outcome = "none" /\ calls = <<>> /\ at = 0 /\ gated = <<>> /\ ran = <<>>
      /\ needsCheck = FALSE /\ dirty = FALSE /\ announced = {} /\ ids = 0
  BY DEF Init
<1>2. CallsOK
  BY <1>1 DEF CallsOK
<1>3. ChecksOK /\ FinishedIsChecked
  BY <1>1 DEF ChecksOK, FinishedIsChecked, Pcs
<1>4. SegmentOK
  BY <1>1 DEF SegmentOK
<1>5. AnnouncedOK
  BY <1>1 DEF AnnouncedOK
<1> QED BY <1>2, <1>3, <1>4, <1>5 DEF IInv

\* Every step keeps the invariant.
LEMMA NextIInv == IInv /\ [Next]_vars => IInv'
<1> SUFFICES ASSUME IInv, [Next]_vars PROVE IInv'
  OBVIOUS
<1>1. CASE Asking
  BY <1>1, TurnsIInv, EndsIInv, FinishIInv, AnswersCallsIInv DEF Asking
<1>2. CASE Finishing
  BY <1>2, TurnsIInv, EndsIInv, FinishIInv DEF Finishing
<1>3. CASE Calling
  BY <1>3, CutIInv, AnnouncesIInv, GatesIInv, RunsIInv, RunEndedIInv, TakesIInv, TurnsIInv
     DEF Calling
<1>4. CASE Halting
  BY <1>4, EndsIInv DEF Halting
<1>5. CASE Loop
  BY <1>1, <1>2, <1>3, <1>4, <1>5, EndsIInv, TurnsIInv DEF Loop
<1> QED BY <1>5, BeginsIInv, StaysIInv, EndsIInv DEF Next

\* The invariant holds in every reachable state.
LEMMA Inductive == Spec => []IInv
BY InitIInv, NextIInv, PTL DEF Spec

\* run_calls and abandon_rest: whatever ended the run, a halt, the stop flag, an error or
\* its finish, every call whose start was announced has had its end announced.
THEOREM AnnouncedAreFinished == Spec => []AnnouncedFinished
<1>1. IInv => AnnouncedFinished
  BY DEF IInv, AnnouncedOK, AnnouncedFinished, Outside
<1> QED BY <1>1, Inductive, PTL

\* run_inner: a run ends as finished only when the checks passed after its last change,
\* however often the finish was sent back and by whom.
THEOREM FinishedAreChecked == Spec => []FinishedIsChecked
<1>1. IInv => FinishedIsChecked
  BY DEF IInv
<1> QED BY <1>1, Inductive, PTL

HIDE LoopAssumption

-----------------------------------------------------------------------------
(* Induction, and the transcript *)

\* Induction over the numbers of a set.
LEMMA AllNumbers ==
    ASSUME NEW S, 0 \in S, \A n \in Nat : n \in S => n + 1 \in S
    PROVE  \A n \in Nat : n \in S
<1> SUFFICES ASSUME NEW m \in Nat, m \notin S PROVE FALSE
  OBVIOUS
<1> DEFINE T == {n \in Nat : n \notin S}
<1>1. T \subseteq Nat /\ T # {}
  OBVIOUS
<1>2. PICK z \in T : \A y \in T : ~(<<y, z>> \in OpToRel(<, Nat))
  BY <1>1, NatLessThanWellFounded, WFMin
<1>3. z \in Nat /\ z # 0 /\ z - 1 \in Nat /\ z - 1 + 1 = z
  OBVIOUS
<1>4. z - 1 \in T
  BY <1>3
<1>5. <<z - 1, z>> \in OpToRel(<, Nat)
  BY <1>3 DEF OpToRel
<1> QED BY <1>2, <1>4, <1>5

Entries == [fold : BOOLEAN, msg : Messages, kept : Nat]

\* What the first k lines read to, line by line.
IsReading(g, lines, k) ==
    g = [n \in 0..k |-> IF n = 0 THEN <<>> ELSE Reads(g[n - 1], lines[n])]

Reading(lines) == CHOOSE g : IsReading(g, lines, Len(lines))

\* The definition by recursion defines something.
LEMMA ReadingExists ==
    ASSUME NEW lines
    PROVE  \A k \in Nat : \E g : IsReading(g, lines, k)
<1> DEFINE S == {k \in Nat : \E g : IsReading(g, lines, k)}
<1>1. 0 \in S
  <2> DEFINE g == [n \in 0..0 |-> <<>>]
  <2>1. g = [n \in 0..0 |-> IF n = 0 THEN <<>> ELSE Reads(g[n - 1], lines[n])]
    OBVIOUS
  <2> QED BY <2>1 DEF IsReading
<1>2. ASSUME NEW k \in Nat, k \in S PROVE k + 1 \in S
  <2>1. PICK g : g = [n \in 0..k |-> IF n = 0 THEN <<>> ELSE Reads(g[n - 1], lines[n])]
    BY <1>2 DEF IsReading
  <2> DEFINE h == [n \in 0..(k + 1) |-> IF n = k + 1 THEN Reads(g[k], lines[k + 1]) ELSE g[n]]
  <2>2. ASSUME NEW n \in 0..(k + 1)
        PROVE  h[n] = IF n = 0 THEN <<>> ELSE Reads(h[n - 1], lines[n])
    <3>1. CASE n = k + 1
      BY <3>1
    <3>2. CASE n = 0
      BY <2>1, <3>2
    <3>3. CASE n \in 1..k
      <4>1. h[n] = g[n] /\ h[n - 1] = g[n - 1] /\ n \in 0..k /\ n # 0
        BY <3>3
      <4>2. g[n] = Reads(g[n - 1], lines[n])
        BY <2>1, <4>1
      <4> QED BY <4>1, <4>2
    <3> QED BY <3>1, <3>2, <3>3
  <2>3. h = [n \in 0..(k + 1) |-> h[n]]
    OBVIOUS
  <2> HIDE DEF h
  <2>4. h = [n \in 0..(k + 1) |-> IF n = 0 THEN <<>> ELSE Reads(h[n - 1], lines[n])]
    BY <2>2, <2>3
  <2>5. IsReading(h, lines, k + 1)
    BY <2>4 DEF IsReading
  <2> QED BY <2>5
<1> HIDE DEF S
<1>3. \A k \in Nat : k \in S
  BY <1>1, <1>2, AllNumbers
<1> QED BY <1>3 DEF S

\* What Reading is.
LEMMA ReadingIs ==
    ASSUME NEW lines, Len(lines) \in Nat
    PROVE  /\ Reading(lines)[0] = <<>>
           /\ \A n \in 1..Len(lines) : Reading(lines)[n] = Reads(Reading(lines)[n - 1], lines[n])
           /\ Replayed(lines) = Reading(lines)[Len(lines)]
<1>1. IsReading(Reading(lines), lines, Len(lines))
  BY ReadingExists DEF Reading
<1>2. Replayed(lines) = Reading(lines)[Len(lines)]
  BY DEF Replayed, Reading, IsReading
<1> HIDE DEF Reading
<1> QED BY <1>1, <1>2 DEF IsReading

\* What the first lines read to does not depend on what follows.
LEMMA ReadingPrefix ==
    ASSUME NEW S, NEW a \in Seq(S), NEW b \in Seq(S)
    PROVE  \A n \in 0..Len(a) : Reading(a \o b)[n] = Reading(a)[n]
<1> DEFINE T == {n \in Nat : n <= Len(a) => Reading(a \o b)[n] = Reading(a)[n]}
<1>1. /\ Len(a) \in Nat /\ Len(a \o b) \in Nat /\ Len(a \o b) >= Len(a)
      /\ \A i \in 1..Len(a) : (a \o b)[i] = a[i]
  OBVIOUS
<1>2. 0 \in T
  BY <1>1, ReadingIs
<1>3. ASSUME NEW n \in Nat, n \in T PROVE n + 1 \in T
  <2> SUFFICES ASSUME n + 1 <= Len(a) PROVE Reading(a \o b)[n + 1] = Reading(a)[n + 1]
    OBVIOUS
  <2>1. n + 1 \in 1..Len(a) /\ n + 1 \in 1..Len(a \o b) /\ (n + 1) - 1 = n
    BY <1>1
  <2>2. Reading(a \o b)[n] = Reading(a)[n]
    BY <1>1, <1>3
  <2>3. Reading(a)[n + 1] = Reads(Reading(a)[n], a[n + 1])
    BY <1>1, <2>1, ReadingIs
  <2>4. Reading(a \o b)[n + 1] = Reads(Reading(a \o b)[n], (a \o b)[n + 1])
    BY <1>1, <2>1, ReadingIs
  <2> QED BY <1>1, <2>1, <2>2, <2>3, <2>4
<1> HIDE DEF T
<1>4. \A n \in Nat : n \in T
  BY <1>2, <1>3, AllNumbers
<1> QED BY <1>1, <1>4 DEF T

\* A line more is read on.
LEMMA ReplayedAppend ==
    ASSUME NEW S, NEW a \in Seq(S), NEW l \in S
    PROVE  Replayed(a \o <<l>>) = Reads(Replayed(a), l)
<1>1. PICK k \in Nat : k = Len(a)
  OBVIOUS
<1>2. PICK b : b = <<l>>
  OBVIOUS
<1>3. PICK c : c = a \o b
  OBVIOUS
<1>4. b \in Seq(S) /\ c \in Seq(S) /\ Len(c) = k + 1 /\ c[k + 1] = l
  <2>1. b \in Seq(S) /\ Len(b) = 1 /\ b[1] = l
    BY <1>2
  <2>2. /\ c \in Seq(S) /\ Len(c) = Len(a) + Len(b)
        /\ \A i \in 1..(Len(a) + Len(b)) : c[i] = IF i <= Len(a) THEN a[i] ELSE b[i - Len(a)]
    BY <1>3, <2>1, ConcatProperties
  <2>3. k + 1 \in 1..(Len(a) + Len(b)) /\ ~(k + 1 <= Len(a)) /\ k + 1 - Len(a) = 1
    BY <1>1, <2>1
  <2> QED BY <1>1, <2>1, <2>2, <2>3
<1>5. Reading(c)[k] = Reading(a)[k]
  <2>1. \A n \in 0..Len(a) : Reading(a \o b)[n] = Reading(a)[n]
    BY <1>4, ReadingPrefix
  <2> QED BY <1>1, <1>3, <2>1
<1>6. Replayed(a) = Reading(a)[k]
  BY <1>1, ReadingIs
<1>7. Replayed(c) = Reading(c)[k + 1] /\ Reading(c)[k + 1] = Reads(Reading(c)[(k + 1) - 1], c[k + 1])
  <2>1. /\ Replayed(c) = Reading(c)[Len(c)]
        /\ \A n \in 1..Len(c) : Reading(c)[n] = Reads(Reading(c)[n - 1], c[n])
    <3>1. Len(c) \in Nat
      BY <1>4
    <3> QED BY <3>1, ReadingIs
  <2>2. k + 1 \in 1..Len(c)
    BY <1>4
  <2> QED BY <1>4, <2>1, <2>2
<1>8. (k + 1) - 1 = k
  OBVIOUS
<1>9. Replayed(c) = Reads(Replayed(a), l)
  BY <1>4, <1>5, <1>6, <1>7, <1>8
<1> QED BY <1>2, <1>3, <1>9

\* An element more at the end of two lists.
LEMMA AppendToConcat ==
    ASSUME NEW s \in Seq(Messages), NEW t \in Seq(Messages), NEW x \in Messages
    PROVE  Append(s \o t, x) = s \o Append(t, x)
<1>1. PICK a \in Nat, b \in Nat : a = Len(s) /\ b = Len(t)
  OBVIOUS
<1>2. PICK u : u = Append(t, x)
  OBVIOUS
<1>3. u \in Seq(Messages) /\ Len(u) = b + 1 /\ u[b + 1] = x /\ \A i \in 1..b : u[i] = t[i]
  BY <1>1, <1>2
<1>4. PICK p : p = s \o t
  OBVIOUS
<1>5. /\ p \in Seq(Messages) /\ Len(p) = a + b
      /\ \A i \in 1..(a + b) : p[i] = IF i <= a THEN s[i] ELSE t[i - a]
  BY <1>1, <1>4, ConcatProperties
<1>6. PICK q : q = s \o u
  OBVIOUS
<1>7. /\ q \in Seq(Messages) /\ Len(q) = a + (b + 1)
      /\ \A i \in 1..(a + (b + 1)) : q[i] = IF i <= a THEN s[i] ELSE u[i - a]
  <2>1. /\ q \in Seq(Messages) /\ Len(q) = Len(s) + Len(u)
        /\ \A i \in 1..(Len(s) + Len(u)) : q[i] = IF i <= Len(s) THEN s[i] ELSE u[i - Len(s)]
    <3>1. u \in Seq(Messages)
      BY <1>3
    <3> QED BY <1>6, <3>1, ConcatProperties
  <2> QED BY <1>1, <1>3, <2>1
<1>8. PICK v : v = Append(p, x)
  OBVIOUS
<1>9. /\ v \in Seq(Messages) /\ Len(v) = a + b + 1 /\ v[a + b + 1] = x
      /\ \A i \in 1..(a + b) : v[i] = p[i]
  BY <1>5, <1>8, AppendProperties
<1>10. ASSUME NEW i \in 1..(a + b + 1) PROVE v[i] = q[i]
  <2>1. CASE i = a + b + 1
    BY <1>3, <1>7, <1>9, <2>1
  <2>2. CASE i \in 1..a
    <3>1. i <= a /\ i \in 1..(a + b) /\ i \in 1..(a + (b + 1))
      BY <2>2
    <3>2. v[i] = s[i]
      BY <1>5, <1>9, <3>1
    <3>3. q[i] = s[i]
      BY <1>7, <3>1
    <3> QED BY <3>2, <3>3
  <2>3. CASE i \in (a + 1)..(a + b)
    <3>1. i - a \in 1..b /\ ~(i <= a)
      BY <2>3
    <3>2. i \in 1..(a + b) /\ i \in 1..(a + (b + 1))
      BY <2>3
    <3>3. v[i] = t[i - a]
      BY <1>5, <1>9, <3>1, <3>2
    <3>4. q[i] = u[i - a]
      BY <1>7, <3>1, <3>2
    <3> QED BY <1>3, <3>1, <3>3, <3>4
  <2> QED BY <2>1, <2>2, <2>3
<1>11. v = q
  <2>1. Len(v) = Len(q) /\ \A i \in 1..Len(v) : v[i] = q[i]
    BY <1>7, <1>9, <1>10
  <2> QED BY <1>7, <1>9, <2>1, SeqEqual
<1> QED BY <1>2, <1>4, <1>6, <1>8, <1>11

\* Messages that follow are taken as they are.
LEMMA ReplayedMessages ==
    ASSUME NEW a \in Seq(Entries), NEW ms \in Seq(Messages), Replayed(a) \in Seq(Messages)
    PROVE  Replayed(a \o [i \in DOMAIN ms |-> Line(ms[i])]) = Replayed(a) \o ms
<1>1. PICK k \in Nat : k = Len(a)
  OBVIOUS
<1>2. PICK m \in Nat : m = Len(ms) /\ DOMAIN ms = 1..m
  OBVIOUS
<1>3. PICK b : b = [i \in DOMAIN ms |-> Line(ms[i])]
  OBVIOUS
<1>4. b \in Seq(Entries) /\ Len(b) = m /\ \A i \in 1..m : b[i] = Line(ms[i])
  <2>1. \A i \in 1..m : Line(ms[i]) \in Entries
    BY <1>2 DEF Line, Entries
  <2>2. b \in [1..m -> Entries]
    BY <1>2, <1>3, <2>1
  <2> QED BY <1>2, <1>3, <2>2
<1>5. PICK c : c = a \o b
  OBVIOUS
<1>6. c \in Seq(Entries) /\ Len(c) = k + m
  BY <1>1, <1>4, <1>5, ConcatProperties
<1>7. ASSUME NEW i \in 1..m PROVE c[k + i] = Line(ms[i])
  <2>1. k + i \in 1..(Len(a) + Len(b)) /\ ~(k + i <= Len(a)) /\ k + i - Len(a) = i
    BY <1>1, <1>4
  <2>2. (a \o b)[k + i] = b[k + i - Len(a)]
    BY <1>4, <2>1, ConcatProperties
  <2> QED BY <1>4, <1>5, <2>1, <2>2
<1>8. /\ Replayed(c) = Reading(c)[k + m]
      /\ \A n \in 1..(k + m) : Reading(c)[n] = Reads(Reading(c)[n - 1], c[n])
  <2>1. Len(c) \in Nat
    BY <1>6
  <2>2. /\ Replayed(c) = Reading(c)[Len(c)]
        /\ \A n \in 1..Len(c) : Reading(c)[n] = Reads(Reading(c)[n - 1], c[n])
    BY <2>1, ReadingIs
  <2> QED BY <1>6, <2>2
<1>9. PICK r \in Seq(Messages) : r = Replayed(a)
  OBVIOUS
<1> DEFINE Reaches(n) == n <= m => Reading(c)[k + n] = r \o SubSeq(ms, 1, n)
           T == {n \in Nat : Reaches(n)}
<1>10. 0 \in T
  <2>1. \A n \in 0..Len(a) : Reading(a \o b)[n] = Reading(a)[n]
    BY <1>4, ReadingPrefix
  <2>2. Reading(c)[k] = Reading(a)[k]
    BY <1>1, <1>5, <2>1
  <2>3. r = Reading(a)[k]
    BY <1>1, <1>9, ReadingIs
  <2>4. SubSeq(ms, 1, 0) = <<>> /\ r \o <<>> = r
    OBVIOUS
  <2>5. k + 0 = k
    OBVIOUS
  <2> QED BY <2>2, <2>3, <2>4, <2>5
<1>11. ASSUME NEW n \in Nat, n \in T PROVE n + 1 \in T
  <2> SUFFICES ASSUME n + 1 <= m
               PROVE  Reading(c)[k + (n + 1)] = r \o SubSeq(ms, 1, n + 1)
    <3>1. (n + 1 <= m => Reading(c)[k + (n + 1)] = r \o SubSeq(ms, 1, n + 1)) => Reaches(n + 1)
      OBVIOUS
    <3>2. n + 1 \in Nat
      OBVIOUS
    <3> HIDE DEF Reaches
    <3> QED BY <3>1, <3>2
  <2>1. /\ k + (n + 1) \in 1..(k + m) /\ (k + (n + 1)) - 1 = k + n /\ n + 1 \in 1..m /\ n <= m
    BY <1>1, <1>2
  <2>2. Reading(c)[k + n] = r \o SubSeq(ms, 1, n)
    BY <1>11, <2>1
  <2>3. Reading(c)[k + (n + 1)] = Reads(Reading(c)[k + n], c[k + (n + 1)])
    BY <1>8, <2>1
  <2>4. c[k + (n + 1)] = Line(ms[n + 1])
    BY <1>7, <2>1
  <2>5. PICK t : t = SubSeq(ms, 1, n)
    OBVIOUS
  <2>type. t \in Seq(Messages)
    <3>1. \A i \in 1..n : ms[i] \in Messages
      BY <1>2, <2>1
    <3> QED BY <2>5, <3>1, SubSeqProperties
  <2>6. PICK x \in Messages : x = ms[n + 1]
    BY <1>2, <2>1
  <2>7. Reads(r \o t, Line(x)) = Append(r \o t, x)
    BY <2>type DEF Reads, Line
  <2>8. SubSeq(ms, 1, n + 1) = Append(t, x)
    <3>1. SubSeq(ms, 1, n + 1) = SubSeq(ms, 1, n) \o <<ms[n + 1]>>
      <4>1. 1 \in 1..Len(ms) /\ n + 1 \in 1..Len(ms) /\ (n + 1) - 1 = n
        BY <1>2, <2>1
      <4> QED BY <4>1, SubSeqRecursiveSecond
    <3>2. Append(t, x) = t \o <<x>>
      BY <2>type, AppendIsConcat
    <3> QED BY <2>5, <2>6, <3>1, <3>2
  <2>9. Append(r \o t, x) = r \o Append(t, x)
    <3>1. r \in Seq(Messages)
      OBVIOUS
    <3> HIDE DEF T, Reaches
    <3> QED BY <2>type, <3>1, AppendToConcat
  <2> QED BY <2>2, <2>3, <2>4, <2>5, <2>6, <2>7, <2>8, <2>9
<1> HIDE DEF T
<1>12. \A n \in Nat : n \in T
  BY <1>10, <1>11, AllNumbers
<1>13. Reading(c)[k + m] = r \o SubSeq(ms, 1, m)
  <2>1. m \in T /\ m <= m
    BY <1>12
  <2> QED BY <2>1 DEF T
<1>14. SubSeq(ms, 1, m) = ms
  BY <1>2, SubSeqFull
<1> QED BY <1>3, <1>5, <1>8, <1>9, <1>13, <1>14

\* What a line reads to is messages.
LEMMA ReadsMessages ==
    ASSUME NEW out \in Seq(Messages), NEW l \in Entries
    PROVE  Reads(out, l) \in Seq(Messages)
<1>1. l.msg \in Messages /\ l.kept \in Nat /\ <<l.msg>> \in Seq(Messages) /\ Len(out) \in Nat
  BY DEF Entries
<1>2. CASE ~l.fold
  BY <1>1, <1>2 DEF Reads
<1>3. CASE l.fold /\ l.kept >= Len(out)
  BY <1>1, <1>3 DEF Reads
<1>4. CASE l.fold /\ ~(l.kept >= Len(out))
  <2>1. \A i \in (Len(out) - l.kept + 1)..Len(out) : out[i] \in Messages
    BY <1>1, <1>4
  <2>2. SubSeq(out, Len(out) - l.kept + 1, Len(out)) \in Seq(Messages)
    BY <1>1, <2>1, SubSeqProperties
  <2> QED BY <1>1, <1>4, <2>2 DEF Reads
<1> QED BY <1>2, <1>3, <1>4

\* What a transcript replays to is messages.
LEMMA ReplayedType ==
    ASSUME NEW lines \in Seq(Entries)
    PROVE  Replayed(lines) \in Seq(Messages)
<1> DEFINE T == {n \in Nat : n <= Len(lines) => Reading(lines)[n] \in Seq(Messages)}
<1>1. Len(lines) \in Nat
  OBVIOUS
<1>2. 0 \in T
  <2>1. Reading(lines)[0] = <<>>
    BY <1>1, ReadingIs
  <2>2. <<>> \in Seq(Messages)
    OBVIOUS
  <2> QED BY <2>1, <2>2
<1>3. ASSUME NEW n \in Nat, n \in T PROVE n + 1 \in T
  <2> SUFFICES ASSUME n + 1 <= Len(lines) PROVE Reading(lines)[n + 1] \in Seq(Messages)
    OBVIOUS
  <2>1. n + 1 \in 1..Len(lines) /\ (n + 1) - 1 = n /\ lines[n + 1] \in Entries
    BY <1>1
  <2>2. Reading(lines)[n] \in Seq(Messages)
    BY <1>1, <1>3
  <2>3. Reading(lines)[n + 1] = Reads(Reading(lines)[n], lines[n + 1])
    BY <1>1, <2>1, ReadingIs
  <2> QED BY <2>1, <2>2, <2>3, ReadsMessages
<1> HIDE DEF T
<1>4. \A n \in Nat : n \in T
  BY <1>2, <1>3, AllNumbers
<1>5. Reading(lines)[Len(lines)] \in Seq(Messages)
  BY <1>1, <1>4 DEF T
<1> QED BY <1>1, <1>5, ReadingIs

-----------------------------------------------------------------------------
(* Calls and their results *)

\* The calls of the i-th message are answered right after it, in the order asked, and
\* no other result follows.
AnsweredAt(h, i) ==
    /\ i + Len(h[i].calls) <= Len(h)
    /\ \A j \in 1..Len(h[i].calls) : IsResult(h[i + j]) /\ h[i + j].id = h[i].calls[j]
    /\ i + Len(h[i].calls) < Len(h) => ~IsResult(h[i + Len(h[i].calls) + 1])

Whole(h) == \A i \in 1..Len(h) : ~IsResult(h[i]) => AnsweredAt(h, i)

\* The calls cs were asked for last, and the first n of them are answered.
Open(h, cs, n) ==
    /\ n \in Nat /\ n < Len(h) /\ n <= Len(cs)
    /\ ~IsResult(h[Len(h) - n]) /\ h[Len(h) - n].calls = cs
    /\ \A j \in 1..n : IsResult(h[Len(h) - n + j]) /\ h[Len(h) - n + j].id = cs[j]
    /\ \A i \in 1..(Len(h) - n - 1) : ~IsResult(h[i]) => AnsweredAt(h, i)

\* What lists of messages are made of.
LEMMA MessagesAre ==
    ASSUME NEW h \in Seq(Messages)
    PROVE  /\ Len(h) \in Nat
           /\ \A i \in 1..Len(h) : h[i] \in Messages /\ Len(h[i].calls) \in Nat
<1>1. Len(h) \in Nat /\ \A i \in 1..Len(h) : h[i] \in Messages
  OBVIOUS
<1>2. \A m \in Messages : Len(m.calls) \in Nat
  <2> SUFFICES ASSUME NEW m \in Messages PROVE Len(m.calls) \in Nat
    OBVIOUS
  <2>1. m.calls \in Seq(Nat)
    BY DEF Messages
  <2> QED BY <2>1
<1> QED BY <1>1, <1>2

\* What is answered stays so, once the message after the results is there.
LEMMA AnsweredStays ==
    ASSUME NEW h \in Seq(Messages), NEW g \in Seq(Messages), Len(g) >= Len(h),
           \A i \in 1..Len(h) : g[i] = h[i],
           NEW p \in 1..Len(h), ~IsResult(h[p]),
           NEW i \in 1..(p - 1), AnsweredAt(h, i)
    PROVE  AnsweredAt(g, i)
<1>1. PICK l \in Nat, m \in Nat : l = Len(h) /\ m = Len(g) /\ l <= m /\ p \in 1..l
  BY MessagesAre
<1>2. i \in 1..l
  BY <1>1
<1>3. PICK k \in Nat : k = Len(h[i].calls)
  BY <1>1, <1>2, MessagesAre
<1>4. /\ i + k <= l /\ \A j \in 1..k : IsResult(h[i + j]) /\ h[i + j].id = h[i].calls[j]
      /\ i + k < l => ~IsResult(h[i + k + 1])
  BY <1>1, <1>3 DEF AnsweredAt
<1>5. i + k < p
  <2> SUFFICES ASSUME ~(i + k < p) PROVE FALSE
    OBVIOUS
  <2>1. p - i \in 1..k /\ i + (p - i) = p
    BY <1>1, <1>2
  <2> QED BY <1>4, <2>1
<1>6. i + k + 1 \in 1..l /\ \A j \in 1..k : i + j \in 1..l
  BY <1>1, <1>2, <1>5
<1>7. g[i] = h[i] /\ g[i + k + 1] = h[i + k + 1] /\ \A j \in 1..k : g[i + j] = h[i + j]
  BY <1>1, <1>2, <1>6
<1>8. i + k < l /\ i + k <= m
  BY <1>1, <1>5
<1>9. \A j \in 1..k : IsResult(g[i + j]) /\ g[i + j].id = g[i].calls[j]
  BY <1>4, <1>7
<1>10. ~IsResult(g[i + k + 1])
  BY <1>4, <1>7, <1>8
<1> QED BY <1>1, <1>3, <1>7, <1>8, <1>9, <1>10 DEF AnsweredAt

\* The next message, when all calls are answered.
LEMMA OpenBegins ==
    ASSUME NEW h \in Seq(Messages), Whole(h), NEW m \in Messages, ~IsResult(m)
    PROVE  Open(Append(h, m), m.calls, 0)
<1>1. PICK l \in Nat : l = Len(h)
  BY MessagesAre
<1>2. PICK g : g = Append(h, m)
  OBVIOUS
<1>3. /\ g \in Seq(Messages) /\ Len(g) = l + 1 /\ g[l + 1] = m /\ \A i \in 1..l : g[i] = h[i]
  BY <1>1, <1>2
<1>4. ASSUME NEW i \in 1..l, ~IsResult(g[i]) PROVE AnsweredAt(g, i)
  <2>1. PICK k \in Nat : k = Len(h[i].calls)
    BY <1>1, MessagesAre
  <2>2. g[i] = h[i] /\ AnsweredAt(h, i)
    BY <1>1, <1>3, <1>4 DEF Whole
  <2>3. /\ i + k <= l /\ \A j \in 1..k : IsResult(h[i + j]) /\ h[i + j].id = h[i].calls[j]
        /\ i + k < l => ~IsResult(h[i + k + 1])
    BY <1>1, <2>1, <2>2 DEF AnsweredAt
  <2>4. \A j \in 1..k : i + j \in 1..l
    BY <2>3
  <2>5. \A j \in 1..k : IsResult(g[i + j]) /\ g[i + j].id = g[i].calls[j]
    BY <1>3, <2>2, <2>3, <2>4
  <2>6. ~IsResult(g[i + k + 1])
    <3>1. CASE i + k < l
      <4>1. i + k + 1 \in 1..l
        BY <3>1
      <4> QED BY <1>3, <2>3, <3>1, <4>1
    <3>2. CASE i + k = l
      BY <1>3, <3>2
    <3>3. i + k < l \/ i + k = l
      <4>1. i + k <= l
        BY <2>3
      <4> QED BY <4>1
    <3> QED BY <3>1, <3>2, <3>3
  <2> QED BY <1>3, <2>1, <2>2, <2>3, <2>5, <2>6 DEF AnsweredAt
<1>5. m.calls \in Seq(Nat)
  BY DEF Messages
<1>6. /\ 0 < l + 1 /\ 0 <= Len(m.calls) /\ l + 1 - 0 = l + 1 /\ l + 1 - 0 - 1 = l
  BY <1>5
<1>7. Open(g, m.calls, 0)
  BY <1>3, <1>4, <1>6 DEF Open
<1> QED BY <1>2, <1>7

\* The next results.
LEMMA OpenGrows ==
    ASSUME NEW h \in Seq(Messages), NEW cs \in Seq(Nat), NEW n, Open(h, cs, n),
           NEW rs \in Seq(Messages), n + Len(rs) <= Len(cs),
           \A j \in 1..Len(rs) : IsResult(rs[j]) /\ rs[j].id = cs[n + j]
    PROVE  Open(h \o rs, cs, n + Len(rs))
<1>1. PICK l \in Nat, r \in Nat, c \in Nat : l = Len(h) /\ r = Len(rs) /\ c = Len(cs)
  BY MessagesAre
<1>2. PICK g : g = h \o rs
  OBVIOUS
<1>3. /\ g \in Seq(Messages) /\ Len(g) = l + r
      /\ \A i \in 1..(l + r) : g[i] = IF i <= l THEN h[i] ELSE rs[i - l]
  <2>1. /\ g \in Seq(Messages) /\ Len(g) = Len(h) + Len(rs)
        /\ \A i \in 1..(Len(h) + Len(rs)) : g[i] = IF i <= Len(h) THEN h[i] ELSE rs[i - Len(h)]
    BY <1>2, ConcatProperties
  <2> QED BY <1>1, <2>1
<1>4. /\ n \in Nat /\ n < l /\ n <= c /\ ~IsResult(h[l - n]) /\ h[l - n].calls = cs
      /\ \A j \in 1..n : IsResult(h[l - n + j]) /\ h[l - n + j].id = cs[j]
      /\ \A i \in 1..(l - n - 1) : ~IsResult(h[i]) => AnsweredAt(h, i)
  BY <1>1 DEF Open
<1>5. PICK p \in 1..l : p = l - n
  BY <1>4
<1>6. ASSUME NEW i \in 1..l PROVE g[i] = h[i]
  <2>1. i \in 1..(l + r) /\ i <= l
    OBVIOUS
  <2> QED BY <1>3, <2>1
<1>7. ASSUME NEW i \in 1..(p - 1), ~IsResult(g[i]) PROVE AnsweredAt(g, i)
  <2>1. g[i] = h[i] /\ i \in 1..(l - n - 1)
    BY <1>4, <1>5, <1>6
  <2>2. AnsweredAt(h, i) /\ ~IsResult(h[p])
    BY <1>4, <1>5, <1>7, <2>1
  <2>3. Len(g) >= Len(h) /\ p \in 1..Len(h) /\ \A x \in 1..Len(h) : g[x] = h[x]
    BY <1>1, <1>3, <1>6
  <2> QED BY <1>3, <2>2, <2>3, AnsweredStays
<1>8. ASSUME NEW j \in 1..(n + r) PROVE IsResult(g[p + j]) /\ g[p + j].id = cs[j]
  <2>1. CASE j \in 1..n
    <3>1. p + j \in 1..l /\ p + j = l - n + j
      <4>1. n \in Nat /\ n < l
        BY <1>4
      <4> QED BY <1>5, <2>1, <4>1
    <3>2. g[p + j] = h[p + j]
      BY <1>6, <3>1
    <3> QED BY <1>4, <2>1, <3>1, <3>2
  <2>2. CASE j \in (n + 1)..(n + r)
    <3>1. /\ p + j \in 1..(l + r) /\ ~(p + j <= l) /\ (p + j) - l = j - n
          /\ j - n \in 1..r /\ n + (j - n) = j
      BY <1>4, <1>5, <2>2
    <3>2. g[p + j] = rs[j - n]
      BY <1>3, <3>1
    <3>3. IsResult(rs[j - n]) /\ rs[j - n].id = cs[n + (j - n)]
      BY <1>1, <3>1
    <3> QED BY <3>1, <3>2, <3>3
  <2> QED BY <1>4, <2>1, <2>2
<1>gap. n \in Nat /\ n < l /\ p = l - n
  BY <1>4, <1>5
<1>9. /\ n + r \in Nat /\ n + r < l + r /\ (l + r) - (n + r) = p /\ (l + r) - (n + r) - 1 = p - 1
  BY <1>gap
<1>10. n + r <= c
  BY <1>1
<1>11. g[p] = h[p] /\ h[p] = h[l - n]
  BY <1>5, <1>6
<1>12. ~IsResult(g[p]) /\ g[p].calls = cs
  BY <1>4, <1>11
<1>13. Open(g, cs, n + r)
  <2>1. /\ n + r \in Nat /\ n + r < Len(g) /\ n + r <= Len(cs)
        /\ Len(g) - (n + r) = p /\ Len(g) - (n + r) - 1 = p - 1
    BY <1>1, <1>3, <1>9, <1>10
  <2>2. \A j \in 1..(n + r) : IsResult(g[p + j]) /\ g[p + j].id = cs[j]
    BY <1>8
  <2>3. \A i \in 1..(p - 1) : ~IsResult(g[i]) => AnsweredAt(g, i)
    BY <1>7
  <2> HIDE DEF IsResult
  <2> QED BY <1>12, <2>1, <2>2, <2>3 DEF Open
<1> QED BY <1>1, <1>2, <1>13

\* All results are in.
LEMMA OpenCloses ==
    ASSUME NEW h \in Seq(Messages), NEW cs \in Seq(Nat), Open(h, cs, Len(cs))
    PROVE  Whole(h)
<1>1. PICK l \in Nat, n \in Nat : l = Len(h) /\ n = Len(cs)
  BY MessagesAre
<1>2. /\ n < l /\ ~IsResult(h[l - n]) /\ h[l - n].calls = cs
      /\ \A j \in 1..n : IsResult(h[l - n + j]) /\ h[l - n + j].id = cs[j]
      /\ \A i \in 1..(l - n - 1) : ~IsResult(h[i]) => AnsweredAt(h, i)
  BY <1>1 DEF Open
<1>3. AnsweredAt(h, l - n)
  <2>1. (l - n) + n = l
    OBVIOUS
  <2> QED BY <1>1, <1>2, <2>1 DEF AnsweredAt
<1>4. ASSUME NEW i \in 1..l, ~IsResult(h[i]) PROVE AnsweredAt(h, i)
  <2>1. CASE i \in 1..(l - n - 1)
    BY <1>2, <1>4, <2>1
  <2>2. CASE i = l - n
    BY <1>3, <2>2
  <2>3. CASE i \in (l - n + 1)..l
    <3>1. i - (l - n) \in 1..n /\ l - n + (i - (l - n)) = i
      BY <1>2, <2>3
    <3> QED BY <1>2, <1>4, <3>1
  <2>4. i \in 1..(l - n - 1) \/ i = l - n \/ i \in (l - n + 1)..l
    BY <1>2
  <2> QED BY <2>1, <2>2, <2>3, <2>4
<1> QED BY <1>1, <1>4 DEF Whole

\* A message without calls leaves all calls answered.
LEMMA WholeGrows ==
    ASSUME NEW h \in Seq(Messages), Whole(h), NEW m \in Messages, ~IsResult(m), m.calls = <<>>
    PROVE  Whole(Append(h, m))
<1>1. Append(h, m) \in Seq(Messages) /\ <<>> \in Seq(Nat) /\ Len(<<>>) = 0
  OBVIOUS
<1>2. Open(Append(h, m), <<>>, Len(<<>>))
  BY <1>1, OpenBegins
<1> QED BY <1>1, <1>2, OpenCloses

\* A summary and the messages from one on that is no result.
LEMMA WholeFolded ==
    ASSUME NEW h \in Seq(Messages), Whole(h), NEW f \in Nat, f \in 1..Len(h), ~IsResult(h[f]),
           NEW m \in Messages, ~IsResult(m), m.calls = <<>>
    PROVE  /\ <<m>> \o SubSeq(h, f, Len(h)) \in Seq(Messages)
           /\ Whole(<<m>> \o SubSeq(h, f, Len(h)))
<1>1. PICK l \in Nat : l = Len(h) /\ f \in 1..l /\ f \in Nat
  BY MessagesAre
<1>pos. l - f + 2 \in Nat /\ l - f + 2 >= 2
  BY <1>1
<1>len. PICK n \in Nat : n = l - f + 2 /\ n >= 2
  BY <1>pos
<1>2. PICK t : t = SubSeq(h, f, Len(h))
  OBVIOUS
<1>3. t \in Seq(Messages) /\ Len(t) = n - 1 /\ \A i \in 1..(n - 1) : t[i] = h[f + i - 1]
  <2>1. \A i \in f..l : h[i] \in Messages
    BY <1>1
  <2>2. /\ t \in Seq(Messages) /\ Len(t) = l - f + 1
        /\ \A i \in 1..(l - f + 1) : t[i] = h[f + i - 1]
    <3>1. f \in Int /\ l \in Int /\ f <= l /\ t = SubSeq(h, f, l)
      BY <1>1, <1>2
    <3> QED BY <2>1, <3>1, SubSeqProperties
  <2>3. n - 1 = l - f + 1
    BY <1>1, <1>len
  <2> QED BY <2>2, <2>3
<1>4. PICK g : g = <<m>> \o t
  OBVIOUS
<1>5. g \in Seq(Messages) /\ Len(g) = n /\ g[1] = m
  <2>1. PICK s : s = <<m>>
    OBVIOUS
  <2>2. s \in Seq(Messages) /\ Len(s) = 1 /\ s[1] = m
    BY <2>1
  <2>3. /\ g \in Seq(Messages) /\ Len(g) = Len(s) + Len(t)
        /\ \A i \in 1..(Len(s) + Len(t)) : g[i] = IF i <= Len(s) THEN s[i] ELSE t[i - Len(s)]
    <3>1. t \in Seq(Messages)
      BY <1>3
    <3>2. g = s \o t
      BY <1>4, <2>1
    <3> QED BY <2>2, <3>1, <3>2, ConcatProperties
  <2>4. Len(g) = n /\ 1 \in 1..(Len(s) + Len(t)) /\ 1 <= Len(s)
    BY <1>3, <1>len, <2>2, <2>3
  <2> QED BY <2>2, <2>3, <2>4
<1>kept. ASSUME NEW i \in 2..n PROVE g[i] = h[f + i - 2] /\ f + i - 2 \in f..l
  <2>1. PICK s : s = <<m>>
    OBVIOUS
  <2>2. s \in Seq(Messages) /\ Len(s) = 1 /\ s[1] = m
    BY <2>1
  <2>3. /\ g \in Seq(Messages) /\ Len(g) = Len(s) + Len(t)
        /\ \A x \in 1..(Len(s) + Len(t)) : g[x] = IF x <= Len(s) THEN s[x] ELSE t[x - Len(s)]
    <3>1. t \in Seq(Messages)
      BY <1>3
    <3>2. g = s \o t
      BY <1>4, <2>1
    <3> QED BY <2>2, <3>1, <3>2, ConcatProperties
  <2>4. i \in 1..(Len(s) + Len(t)) /\ ~(i <= Len(s)) /\ i - Len(s) = i - 1
    BY <1>3, <1>len, <2>2
  <2>5. g[i] = t[i - 1]
    BY <2>3, <2>4
  <2>6. i - 1 \in 1..(n - 1) /\ f + (i - 1) - 1 = f + i - 2
    BY <1>1
  <2>7. t[i - 1] = h[f + i - 2]
    BY <1>3, <2>6
  <2>8. f + i - 2 \in f..l
    BY <1>1, <1>len, SMTT(30)
  <2> QED BY <2>5, <2>7, <2>8
<1>6. AnsweredAt(g, 1)
  <2>1. Len(g[1].calls) = 0 /\ 1 + 0 <= Len(g) /\ 1 + 0 + 1 = 2
    BY <1>5, <1>len
  <2>2. ~IsResult(g[2])
    <3>1. 2 \in 2..n /\ f + 2 - 2 = f
      BY <1>1, <1>len
    <3> QED BY <1>kept, <3>1
  <2> QED BY <2>1, <2>2 DEF AnsweredAt
<1>7. ASSUME NEW i \in 2..n, ~IsResult(g[i]) PROVE AnsweredAt(g, i)
  <2>1. PICK x \in 1..l : x = f + i - 2
    BY <1>1, <1>kept
  <2>2. g[i] = h[x]
    BY <1>kept, <2>1
  <2>3. PICK k \in Nat : k = Len(h[x].calls)
    BY <1>1, <2>1, MessagesAre
  <2>4. AnsweredAt(h, x)
    BY <1>1, <1>7, <2>1, <2>2 DEF Whole
  <2>5. /\ x + k <= l /\ \A j \in 1..k : IsResult(h[x + j]) /\ h[x + j].id = h[x].calls[j]
        /\ x + k < l => ~IsResult(h[x + k + 1])
    BY <1>1, <2>3, <2>4 DEF AnsweredAt
  <2>6. ASSUME NEW j \in 1..(k + 1), i + j <= n PROVE g[i + j] = h[x + j]
    <3>1. i + j \in 2..n /\ f + (i + j) - 2 = x + j
      BY <1>1, <2>1, <2>6
    <3> QED BY <1>kept, <3>1
  <2>7. i + k <= n /\ (i + k < n => x + k < l)
    <3>1. x + k <= l
      BY <2>5
    <3> QED BY <1>1, <1>len, <2>1, <3>1, SMTT(30)
  <2>8. ASSUME NEW j \in 1..k PROVE IsResult(g[i + j]) /\ g[i + j].id = g[i].calls[j]
    <3>1. g[i + j] = h[x + j]
      <4>1. j \in 1..(k + 1) /\ i + k <= n
        BY <2>7
      <4>2. i + j <= n
        BY <4>1, SMTT(30)
      <4> QED BY <2>6, <4>1, <4>2
    <3> QED BY <2>2, <2>5, <3>1
  <2>9. i + k < n => ~IsResult(g[i + k + 1])
    <3> SUFFICES ASSUME i + k < n PROVE ~IsResult(g[i + k + 1])
      OBVIOUS
    <3>1. g[i + (k + 1)] = h[x + (k + 1)]
      <4>1. i + k + 1 <= n
        OBVIOUS
      <4>2. k + 1 \in 1..(k + 1) /\ i + (k + 1) <= n
        BY <4>1, SMTT(30)
      <4> QED BY <2>6, <4>2
    <3>2. ~IsResult(h[x + k + 1]) /\ x + k + 1 = x + (k + 1) /\ i + k + 1 = i + (k + 1)
      BY <2>5, <2>7
    <3> QED BY <3>1, <3>2
  <2> QED BY <1>5, <2>2, <2>3, <2>7, <2>8, <2>9 DEF AnsweredAt
<1>8. Whole(g)
  <2>1. \A i \in 1..Len(g) : i = 1 \/ i \in 2..n
    BY <1>5
  <2> QED BY <1>6, <1>7, <2>1 DEF Whole
<1> QED BY <1>2, <1>4, <1>5, <1>8

-----------------------------------------------------------------------------
(* The history and what the transcript replays to *)

\* b ends as a does after its first message.
EndsAs(a, b) ==
    /\ Len(a) >= 1 /\ Len(b) >= Len(a) - 1
    /\ \A i \in 2..Len(a) : a[i] = b[Len(b) - Len(a) + i]

\* More messages at the end of both.
LEMMA EndsGrow ==
    ASSUME NEW a \in Seq(Messages), NEW b \in Seq(Messages), NEW ms \in Seq(Messages), EndsAs(a, b)
    PROVE  EndsAs(a \o ms, b \o ms)
<1>1. PICK x \in Nat, y \in Nat, k \in Nat : x = Len(a) /\ y = Len(b) /\ k = Len(ms)
  BY MessagesAre
<1>2. PICK c : c = a \o ms
  OBVIOUS
<1>3. PICK d : d = b \o ms
  OBVIOUS
<1>4. Len(c) = x + k /\ \A i \in 1..(x + k) : c[i] = IF i <= x THEN a[i] ELSE ms[i - x]
  <2>1. /\ Len(c) = Len(a) + Len(ms)
        /\ \A i \in 1..(Len(a) + Len(ms)) : c[i] = IF i <= Len(a) THEN a[i] ELSE ms[i - Len(a)]
    BY <1>2, ConcatProperties
  <2> QED BY <1>1, <2>1
<1>5. Len(d) = y + k /\ \A i \in 1..(y + k) : d[i] = IF i <= y THEN b[i] ELSE ms[i - y]
  <2>1. /\ Len(d) = Len(b) + Len(ms)
        /\ \A i \in 1..(Len(b) + Len(ms)) : d[i] = IF i <= Len(b) THEN b[i] ELSE ms[i - Len(b)]
    BY <1>3, ConcatProperties
  <2> QED BY <1>1, <2>1
<1>6. x >= 1 /\ y >= x - 1 /\ \A i \in 2..x : a[i] = b[y - x + i]
  BY <1>1 DEF EndsAs
<1>7. ASSUME NEW i \in 2..(x + k) PROVE c[i] = d[(y + k) - (x + k) + i]
  <2>1. PICK j \in Int : j = y - x + i
    OBVIOUS
  <2>2. (y + k) - (x + k) + i = j /\ j \in 1..(y + k) /\ i \in 1..(x + k)
    BY <1>6, <2>1
  <2>3. CASE i <= x
    <3>1. i \in 2..x /\ j <= y
      BY <2>1, <2>3
    <3>2. c[i] = a[i] /\ d[j] = b[j] /\ a[i] = b[j]
      BY <1>4, <1>5, <1>6, <2>1, <2>2, <2>3, <3>1
    <3> QED BY <2>2, <3>2
  <2>4. CASE ~(i <= x)
    <3>1. ~(j <= y) /\ j - y = i - x
      BY <2>1, <2>4
    <3>2. c[i] = ms[i - x] /\ d[j] = ms[j - y]
      BY <1>4, <1>5, <2>2, <2>4, <3>1
    <3> QED BY <2>2, <3>1, <3>2
  <2> QED BY <2>3, <2>4
<1>8. x + k >= 1 /\ y + k >= (x + k) - 1
  BY <1>6
<1> QED BY <1>2, <1>3, <1>4, <1>5, <1>7, <1>8 DEF EndsAs

\* A list but for its first messages, after one that is new.
LEMMA Headed ==
    ASSUME NEW h \in Seq(Messages), NEW f \in Nat, f >= 1, f <= Len(h) + 1, NEW m \in Messages
    PROVE  LET g == <<m>> \o SubSeq(h, f, Len(h)) IN
           /\ g \in Seq(Messages) /\ Len(g) = Len(h) - f + 2 /\ g[1] = m
           /\ \A i \in 2..Len(g) : g[i] = h[f + i - 2]
<1>1. PICK l \in Nat : l = Len(h)
  BY MessagesAre
<1>2. PICK t : t = SubSeq(h, f, Len(h))
  OBVIOUS
<1>3. t \in Seq(Messages) /\ Len(t) = l - f + 1 /\ \A i \in 1..(l - f + 1) : t[i] = h[f + i - 1]
  <2>1. \A i \in f..l : h[i] \in Messages
    BY <1>1
  <2>2. f \in Int /\ l \in Int /\ t = SubSeq(h, f, l)
    BY <1>1, <1>2
  <2>3. /\ t \in Seq(Messages) /\ Len(t) = IF f <= l THEN l - f + 1 ELSE 0
        /\ \A i \in 1..(l - f + 1) : t[i] = h[f + i - 1]
    BY <2>1, <2>2, SubSeqProperties
  <2> QED BY <1>1, <2>3
<1>4. PICK s : s = <<m>>
  OBVIOUS
<1>5. s \in Seq(Messages) /\ Len(s) = 1 /\ s[1] = m
  BY <1>4
<1>6. PICK g : g = s \o t
  OBVIOUS
<1>7. /\ g \in Seq(Messages) /\ Len(g) = Len(s) + Len(t)
      /\ \A i \in 1..(Len(s) + Len(t)) : g[i] = IF i <= Len(s) THEN s[i] ELSE t[i - Len(s)]
  BY <1>3, <1>5, <1>6, ConcatProperties
<1>8. Len(g) = l - f + 2 /\ Len(s) + Len(t) = l - f + 2 /\ l - f + 2 >= 1
  BY <1>1, <1>3, <1>5, <1>7
<1>9. g[1] = m
  BY <1>5, <1>7, <1>8
<1>10. ASSUME NEW i \in 2..(l - f + 2) PROVE g[i] = h[f + i - 2]
  <2>1. /\ i \in 1..(l - f + 2) /\ ~(i <= 1) /\ i - 1 \in 1..(l - f + 1)
        /\ f + (i - 1) - 1 = f + i - 2
    OBVIOUS
  <2>2. g[i] = t[i - 1]
    BY <1>5, <1>7, <1>8, <2>1
  <2> QED BY <1>3, <2>1, <2>2
<1> QED BY <1>1, <1>2, <1>4, <1>6, <1>7, <1>8, <1>9, <1>10

\* A fold of a keeps the end of b.
LEMMA EndsFolded ==
    ASSUME NEW a \in Seq(Messages), NEW b \in Seq(Messages), a = b \/ EndsAs(a, b),
           NEW f \in Nat, f >= 2, f <= Len(a), NEW m \in Messages
    PROVE  EndsAs(<<m>> \o SubSeq(a, f, Len(a)), b)
<1>1. PICK x \in Nat, y \in Nat : x = Len(a) /\ y = Len(b)
  BY MessagesAre
<1>2. PICK g : g = <<m>> \o SubSeq(a, f, Len(a))
  OBVIOUS
<1>3. Len(g) = x - f + 2 /\ \A i \in 2..(x - f + 2) : g[i] = a[f + i - 2]
  <2>1. f >= 1 /\ f <= Len(a) + 1
    BY <1>1
  <2>2. Len(g) = Len(a) - f + 2 /\ \A i \in 2..Len(g) : g[i] = a[f + i - 2]
    BY <1>2, <2>1, Headed
  <2> QED BY <1>1, <2>2
<1>4. y >= x - 1 /\ \A i \in 2..x : a[i] = b[y - x + i]
  <2>1. CASE a = b
    BY <1>1, <2>1
  <2>2. CASE EndsAs(a, b)
    BY <1>1, <2>2 DEF EndsAs
  <2> QED BY <2>1, <2>2
<1>5. ASSUME NEW i \in 2..(x - f + 2) PROVE g[i] = b[y - (x - f + 2) + i]
  <2>1. PICK j \in 2..x : j = f + i - 2
    BY <1>1
  <2>2. y - x + j = y - (x - f + 2) + i
    BY <2>1
  <2> QED BY <1>3, <1>4, <2>1, <2>2
<1>6. x - f + 2 >= 1 /\ y >= (x - f + 2) - 1
  BY <1>1, <1>4
<1> QED BY <1>1, <1>2, <1>3, <1>5, <1>6 DEF EndsAs

\* With the fold in the transcript, it replays to the history.
LEMMA FoldRead ==
    ASSUME NEW a \in Seq(Messages), NEW b \in Seq(Messages), EndsAs(a, b)
    PROVE  Reads(b, [fold |-> TRUE, msg |-> Head(a), kept |-> Len(a) - 1]) = a
<1>1. PICK x \in Nat, y \in Nat : x = Len(a) /\ y = Len(b)
  BY MessagesAre
<1>2. x >= 1 /\ y >= x - 1 /\ \A i \in 2..x : a[i] = b[y - x + i]
  BY <1>1 DEF EndsAs
<1>3. PICK f \in Nat : f = y - (x - 1) + 1 /\ f >= 1 /\ f <= y + 1
  <2>1. y - (x - 1) + 1 \in Nat
    BY <1>2
  <2> QED BY <1>2, <2>1
<1>4. PICK m \in Messages : m = a[1] /\ m = Head(a)
  <2>1. a # <<>> /\ 1 \in 1..Len(a)
    BY <1>1, <1>2
  <2> QED BY <2>1
<1>5. PICK r : r = Reads(b, [fold |-> TRUE, msg |-> Head(a), kept |-> Len(a) - 1])
  OBVIOUS
<1>6. r = <<m>> \o SubSeq(b, f, y)
  <2>1. r = <<m>> \o (IF x - 1 >= y THEN b ELSE SubSeq(b, f, y))
    BY <1>1, <1>3, <1>4, <1>5 DEF Reads
  <2>2. CASE x - 1 >= y
    <3>1. f = 1
      BY <1>2, <1>3, <2>2
    <3>2. SubSeq(b, 1, y) = b
      BY <1>1, SubSeqFull
    <3> QED BY <2>1, <2>2, <3>1, <3>2
  <2>3. CASE ~(x - 1 >= y)
    BY <2>1, <2>3
  <2> QED BY <2>2, <2>3
<1>7. /\ r \in Seq(Messages) /\ Len(r) = y - f + 2 /\ r[1] = m
      /\ \A i \in 2..(y - f + 2) : r[i] = b[f + i - 2]
  <2>1. f >= 1 /\ f <= Len(b) + 1 /\ r = <<m>> \o SubSeq(b, f, Len(b))
    BY <1>1, <1>3, <1>6
  <2>2. LET g == <<m>> \o SubSeq(b, f, Len(b)) IN
        /\ g \in Seq(Messages) /\ Len(g) = Len(b) - f + 2 /\ g[1] = m
        /\ \A i \in 2..Len(g) : g[i] = b[f + i - 2]
    <3>1. b \in Seq(Messages) /\ f \in Nat /\ m \in Messages /\ f >= 1 /\ f <= Len(b) + 1
      BY <1>3, <1>4, <2>1
    <3> QED BY <3>1, Headed, ZenonT(30)
  <2>3. /\ r \in Seq(Messages) /\ Len(r) = Len(b) - f + 2 /\ r[1] = m
        /\ \A i \in 2..Len(r) : r[i] = b[f + i - 2]
    BY <2>1, <2>2
  <2> QED BY <1>1, <2>3
<1>8. y - f + 2 = x
  BY <1>3
<1>9. ASSUME NEW i \in 1..x PROVE r[i] = a[i]
  <2>1. CASE i = 1
    BY <1>4, <1>7, <2>1
  <2>2. CASE i \in 2..x
    <3>1. f + i - 2 = y - x + i
      BY <1>3
    <3> QED BY <1>2, <1>7, <1>8, <2>2, <3>1
  <2> QED BY <2>1, <2>2
<1>10. r = a
  BY <1>1, <1>7, <1>8, <1>9, SeqEqual
<1> QED BY <1>5, <1>10

\* A non-empty set of numbers has its least.
LEMMA MinOf ==
    ASSUME NEW S, S \subseteq Nat, S # {}
    PROVE  Min(S) \in S /\ \A y \in S : Min(S) <= y
<1>1. PICK x \in S : \A y \in S : ~(<<y, x>> \in OpToRel(<, Nat))
  BY NatLessThanWellFounded, WFMin
<1>2. \A y \in S : x <= y
  <2> SUFFICES ASSUME NEW y \in S, ~(x <= y) PROVE FALSE
    OBVIOUS
  <2>1. y < x /\ y \in Nat /\ x \in Nat
    OBVIOUS
  <2> QED BY <1>1, <2>1 DEF OpToRel
<1> QED BY <1>2 DEF Min

\* fold_point: the tail starts after the first message, and at no result.
LEMMA FoldPointIs ==
    ASSUME NEW h \in Seq(Messages), FoldPoint(h) # 0
    PROVE  /\ FoldPoint(h) \in Nat /\ FoldPoint(h) >= 2 /\ FoldPoint(h) <= Len(h)
           /\ ~IsResult(h[FoldPoint(h)])
<1>1. PICK l \in Nat : l = Len(h)
  BY MessagesAre
<1>2. KeepLast \in Nat /\ KeepLast >= 1
  BY LoopAssumption
<1>3. l > KeepLast
  BY <1>1, <1>2 DEF FoldPoint
<1>4. PICK want \in Nat : want = l - KeepLast + 1 /\ want >= 2 /\ want <= l
  <2>1. l - KeepLast + 1 \in Nat
    BY <1>2, <1>3
  <2> QED BY <1>2, <1>3, <2>1
<1> DEFINE B == {1} \cup {i \in 2..want : ~IsResult(h[i])}
           F == {l + 1} \cup {i \in want..l : ~IsResult(h[i])}
<1>5. FoldPoint(h) = IF Max(B) > 1 THEN Max(B) ELSE IF Min(F) <= l THEN Min(F) ELSE 0
  BY <1>1, <1>2, <1>3, <1>4 DEF FoldPoint
<1>6. Max(B) \in B
  <2>1. B \subseteq 0..l /\ B # {}
    BY <1>4
  <2> HIDE DEF B
  <2> QED BY <2>1, MaxOf
<1>7. Min(F) \in F
  <2>1. F \subseteq Nat /\ F # {}
    BY <1>4
  <2> HIDE DEF F
  <2> QED BY <2>1, MinOf
<1>8. CASE Max(B) > 1
  <2>1. FoldPoint(h) = Max(B)
    BY <1>5, <1>8
  <2>2. Max(B) \in 2..want /\ ~IsResult(h[Max(B)])
    BY <1>6, <1>8
  <2> HIDE DEF B
  <2> QED BY <1>1, <1>4, <2>1, <2>2
<1>9. CASE ~(Max(B) > 1)
  <2>1. FoldPoint(h) = Min(F) /\ Min(F) <= l
    BY <1>5, <1>9
  <2>2. Min(F) \in want..l /\ ~IsResult(h[Min(F)])
    BY <1>7, <2>1
  <2> HIDE DEF F
  <2> QED BY <1>1, <1>4, <2>1, <2>2
<1> QED BY <1>8, <1>9

-----------------------------------------------------------------------------
(* The history, the transcript and the calls asked for *)

Within == {"gate", "asked", "run", "post"}

Ids == [i \in 1..Len(calls) |-> calls[i].id]

\* In a segment the calls asked for last are answered up to one, elsewhere all are.
ShapeOf(h, p, cs, n) == IF p \in Within THEN Open(h, cs, n) ELSE Whole(h)

\* As long as nothing was lost, the history and what the transcript replays to have the
\* same shape, and they differ in the last fold at most.
StoreOK ==
    /\ history \in Seq(Messages) /\ disk \in Seq(Entries)
    /\ torn => lost
    /\ pc = "folded" => unlogged /\ history # <<>>
    /\ ~lost => /\ ShapeOf(history, pc, Ids, at - 1)
                /\ ShapeOf(Replayed(disk), pc, Ids, at - 1)
                /\ IF unlogged THEN EndsAs(history, Replayed(disk)) ELSE Replayed(disk) = history

\* The messages the loop writes.
LEMMA TextsAre ==
    \A role \in {"user", "assistant"} :
        Text(role) \in Messages /\ ~IsResult(Text(role)) /\ Text(role).calls = <<>>
BY DEF Text, Messages, IsResult

\* A result is of the call it answers.
LEMMA ResultsAre ==
    \A id \in Nat : Result(id) \in Messages /\ IsResult(Result(id)) /\ Result(id).id = id
BY DEF Result, Messages, IsResult

\* Messages are pushed to the history and logged.
LEMMA PushOK ==
    ASSUME StoreOK, NEW ms \in Seq(Messages), Push(ms), lost' = lost, unlogged' = unlogged,
           pc' # "folded",
           \A h \in Seq(Messages) :
                ShapeOf(h, pc, Ids, at - 1) => ShapeOf(h \o ms, pc', Ids', at' - 1)
    PROVE  StoreOK'
<1> DEFINE lines == [i \in DOMAIN ms |-> Line(ms[i])]
<1>1. history \in Seq(Messages) /\ disk \in Seq(Entries) /\ (torn => lost)
  BY DEF StoreOK
<1>2. /\ history' = history \o ms /\ torn' = (torn /\ lines = <<>>)
      /\ disk' = disk \o (IF torn /\ lines # <<>> THEN Tail(lines) ELSE lines)
  BY DEF Push, Logged
<1>3. lines \in Seq(Entries)
  <2>1. PICK m \in Nat : m = Len(ms) /\ DOMAIN ms = 1..m
    OBVIOUS
  <2>2. \A i \in 1..m : Line(ms[i]) \in Entries
    BY <2>1 DEF Line, Entries
  <2>3. lines \in [1..m -> Entries]
    BY <2>1, <2>2
  <2> QED BY <2>1, <2>3
<1>4. history' \in Seq(Messages) /\ (torn' => lost')
  <2>1. history' \in Seq(Messages)
    <3>1. history \o ms \in Seq(Messages)
      BY <1>1
    <3> QED BY <1>2, <3>1
  <2>2. torn' => lost'
    BY <1>1, <1>2, Zenon
  <2> QED BY <2>1, <2>2
<1>5. disk' \in Seq(Entries)
  <2> HIDE DEF lines
  <2>1. lines # <<>> => Tail(lines) \in Seq(Entries)
    BY <1>3
  <2>2. PICK ls \in Seq(Entries) : disk' = disk \o ls
    BY <1>2, <1>3, <2>1
  <2> QED BY <1>1, <2>2
<1>6. ASSUME ~lost
      PROVE  /\ ShapeOf(history', pc', Ids', at' - 1)
             /\ ShapeOf(Replayed(disk'), pc', Ids', at' - 1)
             /\ IF unlogged' THEN EndsAs(history', Replayed(disk')) ELSE Replayed(disk') = history'
  <2>1. /\ ShapeOf(history, pc, Ids, at - 1)
        /\ ShapeOf(Replayed(disk), pc, Ids, at - 1)
        /\ IF unlogged THEN EndsAs(history, Replayed(disk)) ELSE Replayed(disk) = history
    BY <1>6 DEF StoreOK
  <2>2. PICK b \in Seq(Messages) : b = Replayed(disk)
    BY <1>1, ReplayedType
  <2>3. disk' = disk \o lines
    BY <1>1, <1>2, <1>6
  <2>4. Replayed(disk') = b \o ms
    BY <1>1, <2>2, <2>3, ReplayedMessages
  <2>5. ShapeOf(history \o ms, pc', Ids', at' - 1) /\ ShapeOf(b \o ms, pc', Ids', at' - 1)
    BY <1>1, <2>1, <2>2
  <2>6. CASE unlogged
    BY <1>1, <1>2, <2>1, <2>2, <2>4, <2>5, <2>6, EndsGrow
  <2>7. CASE ~unlogged
    BY <1>2, <2>1, <2>2, <2>4, <2>5, <2>7
  <2> QED BY <2>6, <2>7
<1> HIDE DEF lines
<1> QED BY <1>4, <1>5, <1>6 DEF StoreOK

\* The history is left alone.
LEMMA StayOK ==
    ASSUME StoreOK, UNCHANGED <<history, disk, torn, lost, unlogged>>, pc' # "folded" \/ pc' = pc,
           \A h : ShapeOf(h, pc, Ids, at - 1) => ShapeOf(h, pc', Ids', at' - 1)
    PROVE  StoreOK'
<1>1. /\ history' \in Seq(Messages) /\ disk' \in Seq(Entries) /\ (torn' => lost')
      /\ pc' = "folded" => unlogged' /\ history' # <<>>
  BY DEF StoreOK
<1>2. ASSUME ~lost
      PROVE  /\ ShapeOf(history', pc', Ids', at' - 1)
             /\ ShapeOf(Replayed(disk'), pc', Ids', at' - 1)
             /\ IF unlogged' THEN EndsAs(history', Replayed(disk')) ELSE Replayed(disk') = history'
  BY <1>2 DEF StoreOK
<1> QED BY <1>1, <1>2 DEF StoreOK

\* Outside a segment, both stay whole.
LEMMA StaysOutOK ==
    ASSUME StoreOK, history' = history, disk' = disk, torn' = torn, lost' = lost,
           unlogged' = unlogged, pc \notin Within, pc' \notin Within, pc' # "folded" \/ pc' = pc
    PROVE  StoreOK'
<1>1. \A h : ShapeOf(h, pc, Ids, at - 1) => ShapeOf(h, pc', Ids', at' - 1)
  BY DEF ShapeOf
<1> QED BY <1>1, StayOK

\* In one, the calls and their answers are the same.
LEMMA StaysInOK ==
    ASSUME StoreOK, history' = history, disk' = disk, torn' = torn, lost' = lost,
           unlogged' = unlogged, calls' = calls, at' = at, pc \in Within, pc' \in Within
    PROVE  StoreOK'
<1>1. Ids' = Ids
  BY DEF Ids
<1>2. \A h : ShapeOf(h, pc, Ids, at - 1) => ShapeOf(h, pc', Ids', at' - 1)
  BY <1>1 DEF ShapeOf
<1>3. pc' # "folded"
  BY DEF Within
<1> QED BY <1>2, <1>3, StayOK

Plain(m) == m \in Messages /\ ~IsResult(m) /\ m.calls = <<>>

\* No more than two messages without calls are pushed outside a segment.
LEMMA TextsOK ==
    ASSUME StoreOK, NEW ms, Push(ms), lost' = lost, unlogged' = unlogged,
           pc' # "folded", pc \notin Within, pc' \notin Within,
           \/ ms = <<>>
           \/ \E m \in Messages : Plain(m) /\ ms = <<m>>
           \/ \E m, n \in Messages : Plain(m) /\ Plain(n) /\ ms = <<m, n>>
    PROVE  StoreOK'
<1>1. ms \in Seq(Messages)
  <2>1. \A m, n \in Messages : <<m>> \in Seq(Messages) /\ <<m, n>> \in Seq(Messages)
    OBVIOUS
  <2>2. <<>> \in Seq(Messages)
    OBVIOUS
  <2> QED BY <2>1, <2>2, Zenon
<1>2. ASSUME NEW h \in Seq(Messages), Whole(h) PROVE Whole(h \o ms)
  <2>1. CASE ms = <<>>
    <3>1. h \o ms = h
      BY <2>1
    <3> QED BY <1>2, <3>1
  <2>2. CASE \E m \in Messages : Plain(m) /\ ms = <<m>>
    <3>1. PICK m \in Messages : Plain(m) /\ ms = <<m>>
      BY <2>2
    <3>2. h \o <<m>> = Append(h, m)
      OBVIOUS
    <3> QED BY <1>2, <3>1, <3>2, WholeGrows DEF Plain
  <2>3. CASE \E m, n \in Messages : Plain(m) /\ Plain(n) /\ ms = <<m, n>>
    <3>1. PICK m \in Messages, n \in Messages : Plain(m) /\ Plain(n) /\ ms = <<m, n>>
      BY <2>3
    <3>2. PICK g : g = Append(h, m)
      OBVIOUS
    <3>3. g \in Seq(Messages) /\ Whole(g)
      BY <1>2, <3>1, <3>2, WholeGrows DEF Plain
    <3>4. Whole(Append(g, n))
      BY <3>1, <3>3, WholeGrows DEF Plain
    <3>5. h \o <<m, n>> = Append(g, n)
      <4>1. h \o Append(<<m>>, n) = Append(h \o <<m>>, n)
        BY AppendToConcat
      <4>2. Append(<<m>>, n) = <<m, n>>
        <5>1. PICK s, u, v : s = <<m>> /\ u = <<m, n>> /\ v = Append(s, n)
          OBVIOUS
        <5>2. s \in Seq(Messages) /\ Len(s) = 1 /\ s[1] = m
          BY <5>1
        <5>3. u \in Seq(Messages) /\ Len(u) = 2 /\ u[1] = m /\ u[2] = n
          BY <5>1
        <5>4. v \in Seq(Messages) /\ Len(v) = 2 /\ v[1] = m /\ v[2] = n
          BY <5>1, <5>2
        <5>5. \A i \in 1..2 : i = 1 \/ i = 2
          OBVIOUS
        <5>6. \A i \in 1..Len(u) : u[i] = v[i]
          BY <5>3, <5>4, <5>5
        <5>7. u = v
          BY <5>3, <5>4, <5>6, SeqEqual
        <5> QED BY <5>1, <5>7
      <4>3. h \o <<m>> = Append(h, m)
        OBVIOUS
      <4> QED BY <3>2, <4>1, <4>2, <4>3
    <3> QED BY <3>1, <3>4, <3>5
  <2> QED BY <2>1, <2>2, <2>3
<1>3. \A h \in Seq(Messages) : ShapeOf(h, pc, Ids, at - 1) => ShapeOf(h \o ms, pc', Ids', at' - 1)
  BY <1>2 DEF ShapeOf
<1> QED BY <1>1, <1>3, PushOK

\* The calls' ids.
LEMMA IdsAre ==
    ASSUME CallsOK
    PROVE  Ids \in Seq(Nat) /\ Len(Ids) = Len(calls) /\ \A i \in 1..Len(calls) : Ids[i] = calls[i].id
<1>1. PICK n \in Nat : n = Len(calls)
  BY DEF CallsOK
<1>2. \A i \in 1..n : calls[i].id \in Nat
  <2>1. \A i \in 1..n : calls[i] \in Calls
    BY <1>1 DEF CallsOK
  <2> QED BY <2>1 DEF Calls
<1>3. Ids \in [1..n -> Nat]
  BY <1>1, <1>2 DEF Ids
<1>4. Ids \in Seq(Nat) /\ Len(Ids) = n
  BY <1>3
<1> QED BY <1>1, <1>4 DEF Ids

\* The "not run" results are those of the calls from one on.
LEMMA NotRunAre ==
    ASSUME CallsOK, NEW f \in Nat, f >= 1, f <= Len(calls) + 1
    PROVE  /\ NotRun(f) \in Seq(Messages) /\ Len(NotRun(f)) = Len(calls) - f + 1
           /\ \A j \in 1..(Len(calls) - f + 1) : NotRun(f)[j] = Result(calls[f + j - 1].id)
<1>1. PICK n \in Nat : n = Len(calls)
  BY DEF CallsOK
<1>2. PICK k \in Nat : k = n - f + 1
  <2>1. n - f + 1 \in Nat
    BY <1>1
  <2> QED BY <2>1
<1>3. ASSUME NEW j \in 1..k PROVE Result(calls[f + j - 1].id) \in Messages
  <2>1. f + j - 1 \in 1..n
    BY <1>2
  <2>2. calls[f + j - 1] \in Calls
    BY <1>1, <2>1 DEF CallsOK
  <2>3. calls[f + j - 1].id \in Nat
    BY <2>2 DEF Calls
  <2> QED BY <2>3, ResultsAre
<1>4. NotRun(f) = [j \in 1..k |-> Result(calls[f + j - 1].id)]
  BY <1>1, <1>2 DEF NotRun
<1>5. NotRun(f) \in [1..k -> Messages]
  BY <1>3, <1>4
<1>6. NotRun(f) \in Seq(Messages) /\ Len(NotRun(f)) = k
  BY <1>5
<1> QED BY <1>1, <1>2, <1>4, <1>6

-----------------------------------------------------------------------------
(* The steps on the history *)

\* The rest of the calls gets these results, and with them all are answered.
LEMMA RestCloses ==
    ASSUME CallsOK, at \in Nat, at >= 1, at <= Len(calls) + 1,
           NEW h \in Seq(Messages), Open(h, Ids, at - 1)
    PROVE  Whole(h \o NotRun(at))
<1>1. PICK n \in Nat : n = Len(calls)
  BY DEF CallsOK
<1>2. PICK rs : rs = NotRun(at)
  OBVIOUS
<1>3. /\ rs \in Seq(Messages) /\ Len(rs) = n - at + 1
      /\ \A j \in 1..(n - at + 1) : rs[j] = Result(calls[at + j - 1].id)
  BY <1>1, <1>2, NotRunAre
<1>4. Ids \in Seq(Nat) /\ Len(Ids) = n /\ \A i \in 1..n : Ids[i] = calls[i].id
  BY <1>1, IdsAre
<1>5. ASSUME NEW j \in 1..Len(rs) PROVE IsResult(rs[j]) /\ rs[j].id = Ids[(at - 1) + j]
  <2>1. j \in 1..(n - at + 1)
    BY <1>3
  <2>2. PICK x \in 1..n : x = at + j - 1 /\ (at - 1) + j = x
    <3>1. PICK a \in Nat : a = at /\ a >= 1
      OBVIOUS
    <3>2. j \in 1..(n - a + 1)
      BY <2>1, <3>1
    <3>3. a + j - 1 \in 1..n /\ (a - 1) + j = a + j - 1
      BY <3>1, <3>2
    <3> QED BY <3>1, <3>3
  <2>3. Ids[x] = calls[x].id /\ Ids[x] \in Nat
    BY <1>4
  <2>4. rs[j] = Result(calls[x].id)
    BY <1>3, <2>1, <2>2
  <2> HIDE DEF Ids
  <2> QED BY <2>2, <2>3, <2>4, ResultsAre
<1>6. (at - 1) + Len(rs) = Len(Ids)
  BY <1>1, <1>3, <1>4
<1>7. Open(h \o rs, Ids, (at - 1) + Len(rs))
  <2>1. (at - 1) + Len(rs) <= Len(Ids)
    BY <1>4, <1>6
  <2> HIDE DEF Ids, Open, IsResult
  <2> QED BY <1>3, <1>4, <1>5, <2>1, OpenGrows
<1>8. h \o rs \in Seq(Messages)
  BY <1>3
<1>9. Whole(h \o rs)
  <2> HIDE DEF Ids, Open
  <2> QED BY <1>4, <1>6, <1>7, <1>8, OpenCloses
<1> QED BY <1>2, <1>9

\* abandon_rest: the results that are in and those that are "not run" answer what is left.
LEMMA AbandonOK ==
    ASSUME StoreOK, CallsOK, pc \in Within, at \in Nat, at >= 1, at <= Len(calls) + 1,
           NEW results, NEW from, NEW finished, results \o NotRun(from) = NotRun(at),
           AbandonHalted(results, from, finished) \/ AbandonStopped(results, from, finished),
           UNCHANGED <<lost, unlogged>>
    PROVE  StoreOK'
<1>1. pc' = "idle"
  BY DEF AbandonHalted, AbandonStopped, Halt, Over
<1>2. NotRun(at) \in Seq(Messages)
  BY NotRunAre
<1>3. CASE AbandonStopped(results, from, finished)
  <2>1. Push(NotRun(at))
    BY <1>3 DEF AbandonStopped
  <2>2. \A h \in Seq(Messages) :
            ShapeOf(h, pc, Ids, at - 1) => ShapeOf(h \o NotRun(at), pc', Ids', at' - 1)
    <3> SUFFICES ASSUME NEW h \in Seq(Messages), Open(h, Ids, at - 1) PROVE Whole(h \o NotRun(at))
      BY <1>1 DEF ShapeOf, Within
    <3> QED BY RestCloses
  <2> QED BY <1>1, <1>2, <2>1, <2>2, PushOK
<1>4. CASE AbandonHalted(results, from, finished)
  <2>1. PICK m \in Messages : m = Text("assistant") /\ ~IsResult(m) /\ m.calls = <<>>
    BY TextsAre
  <2>2. PICK ms : ms = NotRun(at) \o <<m>>
    OBVIOUS
  <2>3. Push(ms)
    BY <1>4, <2>1, <2>2 DEF AbandonHalted, Halt
  <2>4. ms \in Seq(Messages) /\ ms = Append(NotRun(at), m)
    BY <1>2, <2>2
  <2>5. \A h \in Seq(Messages) :
            ShapeOf(h, pc, Ids, at - 1) => ShapeOf(h \o ms, pc', Ids', at' - 1)
    <3> SUFFICES ASSUME NEW h \in Seq(Messages), Open(h, Ids, at - 1) PROVE Whole(h \o ms)
      BY <1>1 DEF ShapeOf, Within
    <3>1. Whole(h \o NotRun(at)) /\ h \o NotRun(at) \in Seq(Messages)
      BY <1>2, RestCloses
    <3>2. h \o ms = Append(h \o NotRun(at), m)
      BY <1>2, <2>4, AppendToConcat
    <3> QED BY <2>1, <3>1, <3>2, WholeGrows
  <2> QED BY <1>1, <2>3, <2>4, <2>5, PushOK
<1> QED BY <1>3, <1>4

\* Results of the next calls, and the rest: the results of all that are left.
LEMMA NotRunSplits ==
    ASSUME CallsOK, at \in Nat, at >= 1, NEW k \in Nat, at + k <= Len(calls) + 1,
           NEW rs \in Seq(Messages), Len(rs) = k,
           \A j \in 1..k : rs[j] = Result(calls[at + j - 1].id)
    PROVE  rs \o NotRun(at + k) = NotRun(at)
<1>1. PICK n \in Nat : n = Len(calls)
  BY DEF CallsOK
<1>2. PICK a \in Nat : a = at /\ a >= 1 /\ a + k <= n + 1
  BY <1>1
<1>3. PICK s, t : s = NotRun(a + k) /\ t = NotRun(a)
  OBVIOUS
<1>4. /\ s \in Seq(Messages) /\ Len(s) = n - (a + k) + 1
      /\ \A j \in 1..(n - (a + k) + 1) : s[j] = Result(calls[(a + k) + j - 1].id)
  <2>1. a + k \in Nat /\ a + k >= 1 /\ a + k <= Len(calls) + 1
    BY <1>1, <1>2
  <2>2. /\ NotRun(a + k) \in Seq(Messages) /\ Len(NotRun(a + k)) = Len(calls) - (a + k) + 1
        /\ \A j \in 1..(Len(calls) - (a + k) + 1) :
                NotRun(a + k)[j] = Result(calls[(a + k) + j - 1].id)
    BY <2>1, NotRunAre
  <2> QED BY <1>1, <1>3, <2>2
<1>5. /\ t \in Seq(Messages) /\ Len(t) = n - a + 1
      /\ \A j \in 1..(n - a + 1) : t[j] = Result(calls[a + j - 1].id)
  <2>1. a <= Len(calls) + 1
    BY <1>1, <1>2
  <2>2. /\ NotRun(a) \in Seq(Messages) /\ Len(NotRun(a)) = Len(calls) - a + 1
        /\ \A j \in 1..(Len(calls) - a + 1) : NotRun(a)[j] = Result(calls[a + j - 1].id)
    BY <1>2, <2>1, NotRunAre
  <2> QED BY <1>1, <1>3, <2>2
<1>6. PICK c : c = rs \o s
  OBVIOUS
<1>7. /\ c \in Seq(Messages) /\ Len(c) = k + (n - (a + k) + 1)
      /\ \A i \in 1..(k + (n - (a + k) + 1)) : c[i] = IF i <= k THEN rs[i] ELSE s[i - k]
  <2>1. /\ c \in Seq(Messages) /\ Len(c) = Len(rs) + Len(s)
        /\ \A i \in 1..(Len(rs) + Len(s)) : c[i] = IF i <= Len(rs) THEN rs[i] ELSE s[i - Len(rs)]
    BY <1>4, <1>6, ConcatProperties
  <2> QED BY <1>4, <2>1
<1>8. k + (n - (a + k) + 1) = n - a + 1
  BY <1>2
<1>9. ASSUME NEW i \in 1..(n - a + 1) PROVE c[i] = t[i]
  <2>1. CASE i <= k
    BY <1>2, <1>5, <1>7, <1>8, <2>1
  <2>2. CASE ~(i <= k)
    <3>1. i - k \in 1..(n - (a + k) + 1) /\ (a + k) + (i - k) - 1 = a + i - 1
      BY <1>2, <2>2, SMTT(30)
    <3> QED BY <1>4, <1>5, <1>7, <1>8, <2>2, <3>1
  <2> QED BY <2>1, <2>2
<1>10. c = t
  <2>1. Len(c) = Len(t) /\ \A i \in 1..Len(c) : c[i] = t[i]
    BY <1>5, <1>7, <1>8, <1>9
  <2> QED BY <1>5, <1>7, <2>1, SeqEqual
<1> QED BY <1>2, <1>3, <1>6, <1>10

\* The ends in a segment.
LEMMA CutOK ==
    ASSUME IInv, StoreOK, GateStops \/ GateHalts \/ RunCut \/ PostHalts
    PROVE  StoreOK'
<1>1. CallsOK /\ at \in Nat
  BY DEF IInv, SegmentOK
<1>2. PICK l \in Nat : l = Len(calls)
  BY <1>1 DEF CallsOK
<1>3. CASE GateStops \/ GateHalts
  <2>1. /\ pc \in {"gate", "asked"} /\ UNCHANGED <<lost, unlogged>>
        /\ \/ AbandonStopped(<<>>, at, SegIds(1, Len(gated)))
           \/ AbandonHalted(<<>>, at, SegIds(1, Len(gated) + 1))
    BY <1>3 DEF GateStops, GateHalts
  <2>2. at >= 1 /\ at <= Len(calls) + 1
    BY <1>1, <1>2, <2>1 DEF IInv, SegmentOK
  <2>3. <<>> \o NotRun(at) = NotRun(at)
    <3>1. NotRun(at) \in Seq(Messages)
      BY <1>1, <2>2, NotRunAre
    <3> QED BY <3>1
  <2> QED BY <1>1, <2>1, <2>2, <2>3, AbandonOK DEF Within
<1>4. CASE RunCut
  <2> DEFINE results == [i \in 1..SegLen |-> Result(Seg(i).id)]
  <2>1. /\ pc = "run" /\ UNCHANGED <<lost, unlogged>>
        /\ \/ AbandonHalted(results, SegmentEnd + 1, SegIds(1, SegLen))
           \/ AbandonStopped(results, SegmentEnd + 1, SegIds(1, SegLen))
    BY <1>4 DEF RunCut
  <2>2. at \in 1..Len(calls)
    BY <2>1 DEF IInv, SegmentOK
  <2>3. PICK k \in Nat : k = SegLen /\ k >= 1 /\ at + k - 1 = SegmentEnd /\ SegmentEnd \in at..l
    BY <1>1, <1>2, <2>2, SegmentWithin
  <2>4. ASSUME NEW i \in 1..k PROVE Result(Seg(i).id) \in Messages /\ Seg(i) = calls[at + i - 1]
    <3>1. at + i - 1 \in 1..l
      BY <1>1, <2>2, <2>3
    <3>2. calls[at + i - 1] \in Calls
      BY <1>1, <1>2, <3>1 DEF CallsOK
    <3> QED BY <3>2, ResultsAre DEF Seg, Calls
  <2>5. results \in [1..k -> Messages]
    BY <2>3, <2>4
  <2>6. /\ results \in Seq(Messages) /\ Len(results) = k
        /\ \A j \in 1..k : results[j] = Result(calls[at + j - 1].id)
    <3>1. \A j \in 1..k : results[j] = Result(calls[at + j - 1].id)
      BY <2>3, <2>4
    <3> HIDE DEF results
    <3>2. results \in Seq(Messages) /\ Len(results) = k
      BY <2>5
    <3> QED BY <3>1, <3>2
  <2>7. at + k <= Len(calls) + 1 /\ SegmentEnd + 1 = at + k /\ at >= 1 /\ at <= Len(calls) + 1
    BY <1>1, <1>2, <2>2, <2>3
  <2> HIDE DEF results
  <2>8. results \o NotRun(SegmentEnd + 1) = NotRun(at)
    BY <1>1, <2>3, <2>6, <2>7, NotRunSplits
  <2> QED BY <1>1, <2>1, <2>7, <2>8, AbandonOK DEF Within
<1>5. CASE PostHalts
  <2> DEFINE rest == {calls[i].id : i \in at..(at + Len(ran) - 1)}
  <2>1. /\ pc = "post" /\ AbandonHalted(<<Result(calls[at].id)>>, at + 1, rest)
        /\ UNCHANGED <<lost, unlogged>>
    BY <1>5 DEF PostHalts, Answered
  <2>2. at >= 1 /\ at <= l
    <3>1. at >= 1 /\ Len(ran) >= 1 /\ at + Len(ran) - 1 <= Len(calls) /\ Len(ran) \in Nat
      BY <2>1 DEF IInv, SegmentOK
    <3> QED BY <1>1, <1>2, <3>1
  <2>3. calls[at] \in Calls
    BY <1>1, <1>2, <2>2 DEF CallsOK
  <2>4. PICK m \in Messages : m = Result(calls[at].id)
    BY <2>3, ResultsAre DEF Calls
  <2>5. PICK rs : rs = <<m>>
    OBVIOUS
  <2>6. rs \in Seq(Messages) /\ Len(rs) = 1 /\ rs[1] = m
    BY <2>5
  <2>7. at + 1 <= Len(calls) + 1 /\ at <= Len(calls) + 1 /\ at >= 1 /\ at + 1 - 1 = at
    BY <1>1, <1>2, <2>2
  <2>8. \A j \in 1..1 : rs[j] = Result(calls[at + j - 1].id)
    BY <2>4, <2>6, <2>7
  <2>9. rs \o NotRun(at + 1) = NotRun(at)
    BY <1>1, <2>6, <2>7, <2>8, NotRunSplits
  <2>10. AbandonHalted(rs, at + 1, rest)
    BY <2>1, <2>4, <2>5
  <2> HIDE DEF rest
  <2> QED BY <1>1, <2>1, <2>7, <2>9, <2>10, AbandonOK DEF Within
<1> QED BY <1>3, <1>4, <1>5

\* A result is taken: the next call's.
LEMMA TakesOK ==
    ASSUME IInv, StoreOK, Takes
    PROVE  StoreOK'
<1>1. /\ pc = "post" /\ Push(<<Result(calls[at].id)>>) /\ at' = at + 1
      /\ UNCHANGED <<calls, lost, unlogged>>
      /\ pc' \in {"post", "gate", "told"} /\ (pc' = "told" => ~(at' <= Len(calls)))
  BY DEF Takes, Answered
<1>2. CallsOK /\ at \in Nat
  BY DEF IInv, SegmentOK
<1>3. PICK l \in Nat : l = Len(calls)
  BY <1>2 DEF CallsOK
<1>4. at >= 1 /\ at <= l
  <2>1. at >= 1 /\ Len(ran) >= 1 /\ at + Len(ran) - 1 <= Len(calls) /\ Len(ran) \in Nat
    BY <1>1 DEF IInv, SegmentOK
  <2> QED BY <1>2, <1>3, <2>1
<1>5. PICK id \in Nat : id = calls[at].id
  <2>1. calls[at] \in Calls
    BY <1>2, <1>3, <1>4 DEF CallsOK
  <2> QED BY <2>1 DEF Calls
<1>6. PICK rs : rs = <<Result(id)>>
  OBVIOUS
<1>7. rs \in Seq(Messages) /\ Len(rs) = 1 /\ rs[1] = Result(id)
  <2>1. Result(id) \in Messages
    BY ResultsAre
  <2> QED BY <1>6, <2>1
<1>8. Ids \in Seq(Nat) /\ Len(Ids) = l /\ Ids[at] = id
  BY <1>2, <1>3, <1>4, <1>5, IdsAre
<1>9. Ids' = Ids
  BY <1>1 DEF Ids
<1>10. ASSUME NEW h \in Seq(Messages), ShapeOf(h, pc, Ids, at - 1)
       PROVE  ShapeOf(h \o rs, pc', Ids', at' - 1)
  <2>1. Open(h, Ids, at - 1)
    BY <1>1, <1>10 DEF ShapeOf, Within
  <2>2. /\ (at - 1) + Len(rs) = at /\ at <= Len(Ids)
        /\ \A j \in 1..Len(rs) : IsResult(rs[j]) /\ rs[j].id = Ids[(at - 1) + j]
    <3>1. \A j \in 1..1 : j = 1 /\ (at - 1) + 1 = at
      BY <1>2
    <3> QED BY <1>2, <1>4, <1>7, <1>8, <3>1, ResultsAre
  <2>3. Open(h \o rs, Ids, at)
    <3> HIDE DEF Ids
    <3> QED BY <1>7, <1>8, <2>1, <2>2, OpenGrows
  <2>4. CASE pc' = "told"
    <3>1. at = Len(Ids)
      BY <1>1, <1>2, <1>3, <1>4, <1>8, <2>4
    <3>2. h \o rs \in Seq(Messages)
      BY <1>7
    <3>3. Whole(h \o rs)
      <4> HIDE DEF Ids
      <4> QED BY <1>8, <2>3, <3>1, <3>2, OpenCloses
    <3> QED BY <2>4, <3>3 DEF ShapeOf, Within
  <2>5. CASE pc' # "told"
    <3>1. at' - 1 = at
      BY <1>1, <1>2
    <3> QED BY <1>1, <1>9, <2>3, <2>5, <3>1 DEF ShapeOf, Within
  <2> QED BY <2>4, <2>5
<1>11. Push(rs) /\ pc' # "folded"
  BY <1>1, <1>5, <1>6
<1> QED BY <1>1, <1>7, <1>10, <1>11, PushOK

\* The model's calls are asked for, and none of them is answered yet.
LEMMA AnswersCallsOK ==
    ASSUME IInv, StoreOK, NEW shape \in Shapes, AnswersCalls(shape)
    PROVE  StoreOK'
<1> DEFINE cs == [i \in DOMAIN shape |-> ids + i]
<1>1. /\ pc = "call" /\ pc' = "gate" /\ at' = 1 /\ Push(<<Asks(cs)>>)
      /\ calls' = [i \in DOMAIN shape |-> [id |-> ids + i, kind |-> shape[i]]]
      /\ UNCHANGED <<lost, unlogged>>
  BY DEF AnswersCalls
<1>2. shape \in Seq(STRING) /\ ids \in Nat
  BY LoopAssumption DEF IInv, CallsOK
<1>3. PICK n \in Nat : n = Len(shape) /\ DOMAIN shape = 1..n
  BY <1>2
<1>4. cs \in [1..n -> Nat]
  BY <1>2, <1>3
<1>5. cs \in Seq(Nat)
  <2> HIDE DEF cs
  <2> QED BY <1>4
<1>6. Ids' = cs
  <2>1. calls' = [i \in 1..n |-> [id |-> ids + i, kind |-> shape[i]]]
    BY <1>1, <1>3
  <2>2. Len(calls') = n /\ \A i \in 1..n : calls'[i].id = ids + i
    BY <2>1
  <2>3. Ids' = [i \in 1..n |-> ids + i]
    BY <2>2 DEF Ids
  <2> QED BY <1>3, <2>3
<1> HIDE DEF cs
<1>7. PICK m \in Messages : m = Asks(cs) /\ ~IsResult(m) /\ m.calls = cs
  <2>1. Asks(cs) \in Messages
    BY <1>5 DEF Asks, Messages
  <2>2. ~IsResult(Asks(cs)) /\ Asks(cs).calls = cs
    BY DEF Asks, IsResult
  <2> QED BY <2>1, <2>2
<1>8. ASSUME NEW h \in Seq(Messages), ShapeOf(h, pc, Ids, at - 1)
      PROVE  ShapeOf(h \o <<m>>, pc', Ids', at' - 1)
  <2>1. Whole(h)
    BY <1>1, <1>8 DEF ShapeOf, Within
  <2>2. Open(Append(h, m), cs, 0)
    BY <1>7, <2>1, OpenBegins
  <2>3. h \o <<m>> = Append(h, m)
    OBVIOUS
  <2>4. Open(h \o <<m>>, cs, 0)
    BY <2>2, <2>3
  <2> QED BY <1>1, <1>6, <2>4 DEF ShapeOf, Within
<1>9. Push(<<m>>) /\ <<m>> \in Seq(Messages) /\ pc' # "folded"
  BY <1>1, <1>7
<1> QED BY <1>1, <1>8, <1>9, PushOK

\* A fold: the history keeps its shape, and the end of what the transcript replays to.
LEMMA FoldedOK ==
    ASSUME StoreOK, pc \notin Within, Folded, lost' = lost
    PROVE  StoreOK'
<1>1. /\ history \in Seq(Messages) /\ disk \in Seq(Entries) /\ (torn => lost)
      /\ pc' = "folded" /\ unlogged' = TRUE /\ UNCHANGED <<disk, torn>>
  BY DEF StoreOK, Folded
<1>2. PICK f \in Nat : f = FoldPoint(history) /\ f >= 2 /\ f <= Len(history) /\ ~IsResult(history[f])
  BY <1>1, FoldPointIs DEF Folded
<1>3. PICK m \in Messages : m = Text("user") /\ ~IsResult(m) /\ m.calls = <<>>
  BY TextsAre
<1>4. PICK g : g = <<m>> \o SubSeq(history, f, Len(history))
  OBVIOUS
<1>5. history' = g
  BY <1>2, <1>3, <1>4 DEF Folded
<1>6. g \in Seq(Messages) /\ g # <<>>
  <2>1. PICK l \in Nat : l = Len(history)
    BY <1>1
  <2>2. f >= 1 /\ f <= Len(history) + 1
    BY <1>2, <2>1
  <2>3. LET t == <<m>> \o SubSeq(history, f, Len(history)) IN
        /\ t \in Seq(Messages) /\ Len(t) = Len(history) - f + 2 /\ t[1] = m
        /\ \A i \in 2..Len(t) : t[i] = history[f + i - 2]
    BY <1>1, <2>2, Headed, ZenonT(30)
  <2>4. g \in Seq(Messages) /\ Len(g) = l - f + 2
    BY <1>4, <2>1, <2>3
  <2>5. Len(g) >= 1
    BY <1>2, <2>1, <2>4
  <2> QED BY <2>4, <2>5
<1>7. ASSUME ~lost
      PROVE  /\ ShapeOf(history', pc', Ids', at' - 1)
             /\ ShapeOf(Replayed(disk'), pc', Ids', at' - 1)
             /\ EndsAs(history', Replayed(disk'))
  <2>1. PICK b \in Seq(Messages) : b = Replayed(disk) /\ b = Replayed(disk')
    BY <1>1, ReplayedType
  <2>2. Whole(history) /\ Whole(b) /\ (history = b \/ EndsAs(history, b))
    BY <1>7, <2>1 DEF StoreOK, ShapeOf
  <2>3. Whole(g)
    <3>1. f \in 1..Len(history)
      BY <1>1, <1>2
    <3> QED BY <1>1, <1>2, <1>3, <1>4, <2>2, <3>1, WholeFolded
  <2>4. EndsAs(g, b)
    BY <1>1, <1>2, <1>4, <2>2, EndsFolded
  <2> QED BY <1>1, <1>5, <2>1, <2>2, <2>3, <2>4 DEF ShapeOf, Within
<1> QED BY <1>1, <1>5, <1>6, <1>7 DEF StoreOK

\* The fold is in the transcript: it replays to the history again.
LEMMA FoldLoggedOK ==
    ASSUME StoreOK, FoldLogged
    PROVE  StoreOK'
<1>1. /\ pc = "folded" /\ pc' = "call" /\ unlogged' = FALSE /\ lost' = lost /\ history' = history
      /\ Logged(<<[fold |-> TRUE, msg |-> Head(history), kept |-> Len(history) - 1]>>)
  BY DEF FoldLogged
<1>2. history \in Seq(Messages) /\ history # <<>> /\ disk \in Seq(Entries) /\ (torn => lost)
  BY <1>1 DEF StoreOK
<1>3. PICK l \in Entries : l = [fold |-> TRUE, msg |-> Head(history), kept |-> Len(history) - 1]
  <2>1. PICK n \in Nat : n = Len(history) /\ n >= 1
    BY <1>2
  <2>2. Head(history) \in Messages /\ n - 1 \in Nat
    BY <1>2, <2>1
  <2> QED BY <2>1, <2>2 DEF Entries
<1>4. PICK ls : ls = <<l>>
  OBVIOUS
<1>5. ls \in Seq(Entries) /\ ls # <<>> /\ Tail(ls) \in Seq(Entries)
  <2>1. ls \in Seq(Entries) /\ ls # <<>>
    BY <1>4
  <2> QED BY <2>1
<1>6. /\ disk' = disk \o (IF torn /\ ls # <<>> THEN Tail(ls) ELSE ls)
      /\ torn' = (torn /\ ls = <<>>)
  BY <1>1, <1>3, <1>4 DEF Logged
<1>7. disk' \in Seq(Entries)
  <2>1. PICK t \in Seq(Entries) : disk' = disk \o t
    BY <1>5, <1>6
  <2> QED BY <1>2, <2>1
<1>8. ~torn'
  BY <1>5, <1>6
<1>9. ASSUME ~lost
      PROVE  /\ ShapeOf(history', pc', Ids', at' - 1)
             /\ ShapeOf(Replayed(disk'), pc', Ids', at' - 1)
             /\ Replayed(disk') = history'
  <2>1. PICK b \in Seq(Messages) : b = Replayed(disk)
    BY <1>2, ReplayedType
  <2>2. Whole(history) /\ EndsAs(history, b)
    BY <1>1, <1>9, <2>1 DEF StoreOK, ShapeOf, Within
  <2>3. disk' = disk \o <<l>>
    BY <1>2, <1>4, <1>5, <1>6, <1>9
  <2>4. Replayed(disk') = Reads(b, l)
    BY <1>2, <2>1, <2>3, ReplayedAppend
  <2>5. Reads(b, l) = history
    BY <1>2, <1>3, <2>2, FoldRead
  <2> QED BY <1>1, <2>2, <2>4, <2>5 DEF ShapeOf, Within
<1> QED BY <1>1, <1>2, <1>7, <1>8, <1>9 DEF StoreOK

\* The next process replays the transcript.
LEMMA DiesOK ==
    ASSUME StoreOK, pc \in Pcs, Dies
    PROVE  StoreOK'
<1>1. /\ torn' \in IF pc = "idle" THEN {torn} ELSE {torn, TRUE}
      /\ history' = Replayed(disk) /\ disk' = disk /\ unlogged' = FALSE /\ pc' = "idle"
      /\ lost' = (lost \/ pc # "idle")
  BY DEF Dies, Over
<1>2. disk \in Seq(Entries) /\ (torn => lost) /\ history' \in Seq(Messages)
  <2>1. disk \in Seq(Entries) /\ (torn => lost)
    BY DEF StoreOK
  <2> QED BY <1>1, <2>1, ReplayedType
<1>3. torn' => lost'
  <2>1. CASE pc = "idle"
    <3>1. torn' = torn
      BY <1>1, <2>1
    <3> QED BY <1>1, <1>2, <3>1, Zenon
  <2>2. CASE pc # "idle"
    BY <1>1, <2>2
  <2> QED BY <2>1, <2>2
<1>4. ASSUME ~lost'
      PROVE  /\ ShapeOf(history', pc', Ids', at' - 1)
             /\ ShapeOf(Replayed(disk'), pc', Ids', at' - 1)
             /\ Replayed(disk') = history'
  <2>1. ~lost /\ pc = "idle"
    BY <1>1, <1>4, Zenon
  <2>2. Whole(Replayed(disk))
    BY <2>1 DEF StoreOK, ShapeOf, Within
  <2> QED BY <1>1, <2>2 DEF ShapeOf, Within
<1> QED BY <1>1, <1>2, <1>3, <1>4 DEF StoreOK

\* The steps that push texts outside a segment.
LEMMA TextStepsOK ==
    ASSUME StoreOK,
           \/ Begins \/ UsedUp \/ GoesOn \/ AnswersStatus \/ AnswersGarbled \/ AnswersText
           \/ ChecksFail \/ StopHookBlocks \/ Stuck
           \/ \E where \in {"top", "compact", "folded", "call", "check", "stop", "told"} :
                    HaltsAt(where)
    PROVE  StoreOK'
<1>1. \A role \in {"user", "assistant"} : Text(role) \in Messages /\ Plain(Text(role))
  BY TextsAre DEF Plain
<1> DEFINE Few(ms) == \/ ms = <<>>
                      \/ \E m \in Messages : Plain(m) /\ ms = <<m>>
                      \/ \E m, n \in Messages : Plain(m) /\ Plain(n) /\ ms = <<m, n>>
<1>2. Few(<<>>) /\ Few(<<Text("user")>>) /\ Few(<<Text("assistant")>>)
      /\ Few(<<Text("assistant"), Text("user")>>)
  BY <1>1
<1> HIDE DEF Few
<1>3. ASSUME NEW ms, Few(ms), Push(ms), lost' = lost, unlogged' = unlogged,
             pc' # "folded", pc \notin Within, pc' \notin Within
      PROVE  StoreOK'
  BY <1>3, TextsOK DEF Few
<1>4. CASE Begins
  BY <1>2, <1>3, <1>4 DEF Begins, Within
<1>5. CASE UsedUp
  BY <1>2, <1>3, <1>5 DEF UsedUp, WrapsUp, Within, ghosts
<1>6. CASE GoesOn
  BY <1>2, <1>3, <1>6 DEF GoesOn, Within, ghosts
<1>7. CASE AnswersStatus
  BY <1>2, <1>3, <1>7 DEF AnswersStatus, Over, Within, ghosts
<1>8. CASE AnswersGarbled
  BY <1>2, <1>3, <1>8 DEF AnswersGarbled, Within, ghosts
<1>9. CASE AnswersText
  BY <1>2, <1>3, <1>9 DEF AnswersText, Within, ghosts
<1>10. CASE ChecksFail
  BY <1>2, <1>3, <1>10 DEF ChecksFail, SentBack, Within, ghosts
<1>11. CASE StopHookBlocks
  BY <1>2, <1>3, <1>11 DEF StopHookBlocks, SentBack, Within, ghosts
<1>12. CASE Stuck
  <2>1. CASE Push(<<Text("user")>>)
    BY <1>2, <1>3, <1>12, <2>1 DEF Stuck, WrapsUp, Within, ghosts
  <2> QED BY <1>12, <2>1 DEF Stuck, WrapsUp
<1>13. CASE \E where \in {"top", "compact", "folded", "call", "check", "stop", "told"} :
                HaltsAt(where)
  <2>1. /\ pc \notin Within /\ pc' = "idle" /\ UNCHANGED <<lost, unlogged>>
        /\ Push(<<>> \o <<Text("assistant")>>)
    BY <1>13 DEF HaltsAt, Halt, Over, Within
  <2>2. <<>> \o <<Text("assistant")>> = <<Text("assistant")>>
    <3>1. <<Text("assistant")>> \in Seq(Messages)
      BY <1>1
    <3> QED BY <3>1
  <2> QED BY <1>2, <1>3, <2>1, <2>2 DEF Within
<1> QED BY <1>4, <1>5, <1>6, <1>7, <1>8, <1>9, <1>10, <1>11, <1>12, <1>13

\* The steps that leave the history alone.
LEMMA OtherStepsOK ==
    ASSUME StoreOK,
           \/ Blocked \/ Stopped \/ Fails \/ ChecksPass \/ Finishes \/ Announces \/ Gates
           \/ RunEnded \/ TurnEnds \/ Flips \/ UNCHANGED vars
           \/ \E i \in DOMAIN ran : TakesTurn(i) \/ TakesSlot(i) \/ CallEnds(i)
    PROVE  StoreOK'
<1>1. CASE Blocked \/ Flips \/ UNCHANGED vars
  <2>1. /\ history' = history /\ disk' = disk /\ torn' = torn /\ lost' = lost
        /\ unlogged' = unlogged /\ pc' = pc /\ calls' = calls /\ at' = at
    BY <1>1 DEF Blocked, Flips, vars, store, segment, ghosts
  <2>2. CASE pc \in Within
    BY <2>1, <2>2, StaysInOK
  <2>3. CASE pc \notin Within
    BY <2>1, <2>3, StaysOutOK
  <2> QED BY <2>2, <2>3
<1>2. CASE Announces \/ Gates \/ RunEnded
           \/ \E i \in DOMAIN ran : TakesTurn(i) \/ TakesSlot(i) \/ CallEnds(i)
  <2>1. /\ history' = history /\ disk' = disk /\ torn' = torn /\ lost' = lost
        /\ unlogged' = unlogged /\ calls' = calls /\ at' = at
        /\ pc \in Within /\ pc' \in Within
    BY <1>2 DEF Announces, Gates, RunEnded, TakesTurn, TakesSlot, CallEnds, store, segment, ghosts,
                Within
  <2> QED BY <2>1, StaysInOK
<1>3. CASE Stopped \/ Fails \/ Finishes \/ ChecksPass \/ TurnEnds
  <2>1. /\ history' = history /\ disk' = disk /\ torn' = torn /\ lost' = lost
        /\ unlogged' = unlogged
        /\ pc \in {"top", "call", "check", "stop", "told"} /\ pc' \in {"idle", "stop", "top"}
    BY <1>3 DEF Stopped, Fails, Finishes, ChecksPass, TurnEnds, Over, store, ghosts
  <2>2. pc \notin Within /\ pc' \notin Within /\ pc' # "folded"
    BY <2>1 DEF Within
  <2> QED BY <2>1, <2>2, StaysOutOK
<1> QED BY <1>1, <1>2, <1>3

\* A run starts with nothing said and nothing logged.
LEMMA InitStoreOK == Init => StoreOK
<1> SUFFICES ASSUME Init PROVE StoreOK
  OBVIOUS
<1>1. history = <<>> /\ disk = <<>> /\ torn = FALSE /\ pc = "idle" /\ unlogged = FALSE
  BY DEF Init
<1>2. Replayed(<<>>) = <<>>
  <2>1. Len(<<>>) = 0
    OBVIOUS
  <2> QED BY <2>1, ReadingIs
<1>3. Whole(<<>>)
  BY DEF Whole
<1> QED BY <1>1, <1>2, <1>3 DEF StoreOK, ShapeOf, Within

\* Every step keeps the shape of the history and of what the transcript replays to.
LEMMA NextStoreOK == IInv /\ StoreOK /\ [Next]_vars => StoreOK'
<1> SUFFICES ASSUME IInv, StoreOK, [Next]_vars PROVE StoreOK'
  OBVIOUS
<1>1. CASE Sends \/ TooLong
  <2>1. CASE Folded
    <3>1. pc \notin Within /\ lost' = lost
      BY <1>1 DEF Sends, TooLong, Within
    <3> QED BY <2>1, <3>1, FoldedOK
  <2>2. CASE ~Folded
    <3>1. /\ pc = "compact" /\ pc' = "call" /\ history' = history /\ disk' = disk
          /\ torn' = torn /\ lost' = lost /\ unlogged' = unlogged
      BY <1>1, <2>2 DEF Sends, TooLong, store
    <3>2. pc \notin Within /\ pc' \notin Within /\ pc' # "folded"
      BY <3>1 DEF Within
    <3> QED BY <3>1, <3>2, StaysOutOK
  <2> QED BY <2>1, <2>2
<1>2. CASE Asking
  BY <1>1, <1>2, FoldLoggedOK, TextStepsOK, OtherStepsOK, AnswersCallsOK DEF Asking
<1>3. CASE Finishing
  BY <1>3, TextStepsOK, OtherStepsOK DEF Finishing
<1>4. CASE Calling
  BY <1>4, CutOK, TakesOK, TextStepsOK, OtherStepsOK DEF Calling
<1>5. CASE Halting
  BY <1>5, TextStepsOK DEF Halting
<1>6. CASE Loop
  BY <1>2, <1>3, <1>4, <1>5, <1>6, TextStepsOK, OtherStepsOK DEF Loop
<1>7. CASE Dies
  <2>1. pc \in Pcs
    BY DEF IInv, ChecksOK
  <2> QED BY <1>7, <2>1, DiesOK
<1> QED BY <1>6, <1>7, TextStepsOK, OtherStepsOK DEF Next

\* The shape holds in every reachable state.
LEMMA StoreInductive == Spec => []StoreOK
BY InitStoreOK, NextStoreOK, Inductive, PTL DEF Spec

\* read_messages: the transcript replays to the history in memory, whatever was folded, as
\* long as no line was lost and the last fold is in it.
THEOREM ReplayedIsHistory == Spec => []ReplaysToHistory
<1>1. StoreOK => ReplaysToHistory
  BY DEF StoreOK, ReplaysToHistory
<1> QED BY <1>1, StoreInductive, PTL

-----------------------------------------------------------------------------
(* The request *)

\* k results follow the i-th message, and no more.
RunOf(h, i, k) ==
    /\ i + k <= Len(h) /\ \A j \in (i + 1)..(i + k) : IsResult(h[j])
    /\ i + k < Len(h) => ~IsResult(h[i + k + 1])

\* As many results as the i-th message has calls follow it, and of the same calls.
PairedAt(h, i) ==
    /\ RunOf(h, i, Len(h[i].calls))
    /\ {h[j].id : j \in (i + 1)..(i + Len(h[i].calls))} = Range(h[i].calls)

AllPaired(h) == \A i \in 1..Len(h) : ~IsResult(h[i]) => PairedAt(h, i)

\* What `paired` has so far: all is paired, but for the last message's open calls.
Pending(out, open) ==
    \/ out = <<>> /\ open = <<>>
    \/ \E p \in 1..Len(out) :
            /\ ~IsResult(out[p]) /\ \A j \in (p + 1)..Len(out) : IsResult(out[j])
            /\ (Len(out) - p) + Len(open) = Len(out[p].calls)
            /\ {out[j].id : j \in (p + 1)..Len(out)} \cup Range(open) = Range(out[p].calls)
            /\ \A i \in 1..(p - 1) : ~IsResult(out[i]) => PairedAt(out, i)

\* What is paired stays so, with more after the message that follows.
LEMMA PairedStays ==
    ASSUME NEW h \in Seq(Messages), NEW g \in Seq(Messages), Len(g) >= Len(h),
           \A i \in 1..Len(h) : g[i] = h[i],
           NEW i \in 1..Len(h), PairedAt(h, i),
           i + Len(h[i].calls) < Len(h) \/ ~IsResult(g[Len(h) + 1])
    PROVE  PairedAt(g, i)
<1>1. PICK l \in Nat, m \in Nat : l = Len(h) /\ m = Len(g) /\ l <= m /\ i \in 1..l
  BY MessagesAre
<1>2. PICK k \in Nat : k = Len(h[i].calls)
  BY <1>1, MessagesAre
<1>3. /\ i + k <= l /\ \A j \in (i + 1)..(i + k) : IsResult(h[j])
      /\ i + k < l => ~IsResult(h[i + k + 1])
      /\ {h[j].id : j \in (i + 1)..(i + k)} = Range(h[i].calls)
  BY <1>1, <1>2 DEF PairedAt, RunOf
<1>4. g[i] = h[i] /\ \A j \in (i + 1)..(i + k) : g[j] = h[j]
  BY <1>1, <1>3
<1>5. i + k < m => ~IsResult(g[i + k + 1])
  <2>1. CASE i + k < l
    <3>1. i + k + 1 \in 1..l
      BY <2>1
    <3> QED BY <1>1, <1>3, <2>1, <3>1
  <2>2. CASE i + k = l
    <3>1. ~(i + Len(h[i].calls) < Len(h))
      BY <1>1, <1>2, <2>2
    <3>2. ~IsResult(g[l + 1])
      BY <1>1, <3>1, Zenon
    <3> QED BY <2>2, <3>2
  <2>3. i + k < l \/ i + k = l
    <3>1. i + k <= l
      BY <1>3, Zenon
    <3> QED BY <3>1
  <2> QED BY <2>1, <2>2, <2>3
<1>6. {g[j].id : j \in (i + 1)..(i + k)} = Range(g[i].calls)
  BY <1>3, <1>4
<1>7. i + k <= m /\ \A j \in (i + 1)..(i + k) : IsResult(g[j])
  BY <1>1, <1>3, <1>4
<1> QED BY <1>1, <1>2, <1>4, <1>5, <1>6, <1>7 DEF PairedAt, RunOf

\* The next message, when all is paired.
LEMMA PendingBegins ==
    ASSUME NEW h \in Seq(Messages), AllPaired(h), NEW m \in Messages, ~IsResult(m)
    PROVE  Pending(Append(h, m), m.calls)
<1>1. PICK l \in Nat : l = Len(h)
  BY MessagesAre
<1>2. PICK g : g = Append(h, m)
  OBVIOUS
<1>3. /\ g \in Seq(Messages) /\ Len(g) = l + 1 /\ g[l + 1] = m /\ \A i \in 1..l : g[i] = h[i]
  BY <1>1, <1>2
<1>4. ASSUME NEW i \in 1..l, ~IsResult(g[i]) PROVE PairedAt(g, i)
  <2>1. PairedAt(h, i) /\ i \in 1..Len(h)
    BY <1>1, <1>3, <1>4 DEF AllPaired
  <2>2. Len(g) >= Len(h) /\ ~IsResult(g[Len(h) + 1])
    BY <1>1, <1>3
  <2> QED BY <1>1, <1>3, <2>1, <2>2, PairedStays
<1>5. PICK c \in Seq(Nat) : c = m.calls
  BY DEF Messages
<1>6. PICK p \in 1..Len(g) : p = l + 1
  BY <1>3
<1>7. (p + 1)..Len(g) = {} /\ p - 1 = l /\ (Len(g) - p) + Len(c) = Len(c)
  BY <1>3, <1>5, <1>6
<1>8. ~IsResult(g[p]) /\ g[p].calls = c
  BY <1>3, <1>5, <1>6
<1>9. Pending(g, c)
  <2>1. \A j \in (p + 1)..Len(g) : IsResult(g[j])
    BY <1>7
  <2>2. {g[j].id : j \in (p + 1)..Len(g)} = {}
    BY <1>7
  <2>3. {g[j].id : j \in (p + 1)..Len(g)} \cup Range(c) = Range(g[p].calls)
    BY <1>8, <2>2
  <2>4. \A i \in 1..(p - 1) : ~IsResult(g[i]) => PairedAt(g, i)
    BY <1>4, <1>7
  <2> HIDE DEF IsResult, PairedAt
  <2> QED BY <1>7, <1>8, <2>1, <2>3, <2>4 DEF Pending
<1> QED BY <1>2, <1>5, <1>9

\* The results answer all of the open calls but those that are left.
Answering(rs, open, left) ==
    /\ \A j \in 1..Len(rs) : IsResult(rs[j])
    /\ Len(rs) + Len(left) = Len(open)
    /\ {rs[j].id : j \in 1..Len(rs)} \cup Range(left) = Range(open)

\* More results, of calls that were open.
LEMMA PendingGrows ==
    ASSUME NEW out \in Seq(Messages), NEW open \in Seq(Nat), Pending(out, open),
           NEW rs \in Seq(Messages), NEW left \in Seq(Nat), Answering(rs, open, left)
    PROVE  Pending(out \o rs, left)
<1>1. PICK l \in Nat, r \in Nat, a \in Nat, b \in Nat :
        l = Len(out) /\ r = Len(rs) /\ a = Len(open) /\ b = Len(left)
  OBVIOUS
<1>run. /\ \A j \in 1..r : IsResult(rs[j])
      /\ r + b = a /\ {rs[j].id : j \in 1..r} \cup Range(left) = Range(open)
  BY <1>1 DEF Answering
<1>2. PICK g : g = out \o rs
  OBVIOUS
<1>3. /\ g \in Seq(Messages) /\ Len(g) = l + r
      /\ \A i \in 1..(l + r) : g[i] = IF i <= l THEN out[i] ELSE rs[i - l]
  <2>1. /\ g \in Seq(Messages) /\ Len(g) = Len(out) + Len(rs)
        /\ \A i \in 1..(Len(out) + Len(rs)) : g[i] = IF i <= Len(out) THEN out[i] ELSE rs[i - Len(out)]
    BY <1>2, ConcatProperties
  <2> QED BY <1>1, <2>1
<1>4. CASE out = <<>> /\ open = <<>>
  <2>1. r = 0 /\ b = 0
    BY <1>1, <1>4, <1>run
  <2>2. rs = <<>> /\ left = <<>>
    BY <1>1, <2>1, EmptySeq
  <2>3. g = <<>>
    BY <1>2, <1>4, <2>2
  <2> QED BY <1>2, <2>2, <2>3 DEF Pending
<1>5. CASE \E p \in 1..Len(out) :
            /\ ~IsResult(out[p]) /\ \A j \in (p + 1)..Len(out) : IsResult(out[j])
            /\ (Len(out) - p) + Len(open) = Len(out[p].calls)
            /\ {out[j].id : j \in (p + 1)..Len(out)} \cup Range(open) = Range(out[p].calls)
            /\ \A i \in 1..(p - 1) : ~IsResult(out[i]) => PairedAt(out, i)
  <2>1. PICK p \in 1..l :
            /\ ~IsResult(out[p]) /\ \A j \in (p + 1)..l : IsResult(out[j])
            /\ (l - p) + a = Len(out[p].calls)
            /\ {out[j].id : j \in (p + 1)..l} \cup Range(open) = Range(out[p].calls)
            /\ \A i \in 1..(p - 1) : ~IsResult(out[i]) => PairedAt(out, i)
    BY <1>1, <1>5
  <2>2. ASSUME NEW i \in 1..l PROVE g[i] = out[i]
    <3>1. i \in 1..(l + r) /\ i <= l
      BY <1>1
    <3> QED BY <1>3, <3>1
  <2>3. ASSUME NEW j \in (l + 1)..(l + r) PROVE g[j] = rs[j - l] /\ j - l \in 1..r
    <3>1. j \in 1..(l + r) /\ ~(j <= l) /\ j - l \in 1..r
      BY <1>1
    <3> QED BY <1>3, <3>1
  <2>4. ASSUME NEW i \in 1..(p - 1), ~IsResult(g[i]) PROVE PairedAt(g, i)
    <3>1. g[i] = out[i] /\ i \in 1..Len(out)
      <4>1. i \in 1..l
        OBVIOUS
      <4> QED BY <1>1, <2>2, <4>1
    <3>2. PairedAt(out, i)
      BY <2>1, <2>4, <3>1
    <3>3. i + Len(out[i].calls) < Len(out)
      <4>1. PICK k \in Nat : k = Len(out[i].calls)
        BY <1>1, <3>1, MessagesAre
      <4>2. i + k <= l /\ \A j \in (i + 1)..(i + k) : IsResult(out[j])
        BY <1>1, <3>2, <4>1 DEF PairedAt, RunOf
      <4>3. ~(p \in (i + 1)..(i + k))
        BY <2>1, <4>2
      <4> QED BY <1>1, <4>1, <4>2, <4>3
    <3>4. Len(g) >= Len(out) /\ \A x \in 1..Len(out) : g[x] = out[x]
      BY <1>1, <1>3, <2>2
    <3>5. i \in 1..Len(out) /\ g \in Seq(Messages) /\ \A x \in 1..Len(out) : g[x] = out[x]
      <4>1. i \in 1..Len(out) /\ g \in Seq(Messages)
        BY <1>3, <3>1
      <4> QED BY <3>4, <4>1
    <3>6. Len(g) >= Len(out)
      BY <3>4
    <3> QED BY <3>2, <3>3, <3>5, <3>6, PairedStays, Zenon
  <2>5. p \in 1..(l + r) /\ (p + 1)..(l + r) = ((p + 1)..l) \cup ((l + 1)..(l + r))
    BY <1>1
  <2>6. \A j \in (p + 1)..(l + r) : IsResult(g[j])
    <3>1. \A j \in (p + 1)..l : j \in 1..l
      OBVIOUS
    <3> HIDE DEF IsResult
    <3> QED BY <1>run, <2>1, <2>2, <2>3, <2>5, <3>1
  <2>7. {g[j].id : j \in (p + 1)..(l + r)} = {out[j].id : j \in (p + 1)..l} \cup {rs[j].id : j \in 1..r}
    <3>1. \A j \in (p + 1)..l : g[j] = out[j]
      <4>1. \A j \in (p + 1)..l : j \in 1..l
        OBVIOUS
      <4> QED BY <2>2, <4>1
    <3>2. \A j \in 1..r : j + l \in (l + 1)..(l + r) /\ (j + l) - l = j
      BY <1>1
    <3>3. \A j \in 1..r : g[j + l] = rs[j]
      BY <2>3, <3>2
    <3>4. \A j \in (l + 1)..(l + r) : g[j] = rs[j - l] /\ j - l \in 1..r
      BY <2>3
    <3>5. {g[j].id : j \in (p + 1)..l} = {out[j].id : j \in (p + 1)..l}
      BY <3>1
    <3>6. {g[j].id : j \in (l + 1)..(l + r)} = {rs[j].id : j \in 1..r}
      <4>1. \A j \in (l + 1)..(l + r) : g[j].id \in {rs[x].id : x \in 1..r}
        BY <3>4
      <4>2. \A j \in 1..r : rs[j].id \in {g[x].id : x \in (l + 1)..(l + r)}
        <5> SUFFICES ASSUME NEW j \in 1..r
                     PROVE  rs[j].id \in {g[x].id : x \in (l + 1)..(l + r)}
          OBVIOUS
        <5>1. j + l \in (l + 1)..(l + r) /\ g[j + l].id = rs[j].id
          BY <3>2, <3>3
        <5> QED BY <5>1
      <4> QED BY <4>1, <4>2
    <3> QED BY <2>5, <3>5, <3>6
  <2>8. {g[j].id : j \in (p + 1)..(l + r)} \cup Range(left) = Range(g[p].calls)
    <3>1. g[p] = out[p]
      BY <2>2
    <3> QED BY <1>run, <2>1, <2>7, <3>1
  <2>9. ((l + r) - p) + b = Len(g[p].calls)
    <3>1. g[p] = out[p] /\ r + b = a
      BY <1>run, <2>2
    <3>2. (l - p) + a = Len(g[p].calls)
      BY <2>1, <3>1
    <3>3. ((l + r) - p) + b = (l - p) + a
      BY <3>1
    <3> QED BY <3>2, <3>3
  <2>10. ~IsResult(g[p])
    BY <2>1, <2>2
  <2>11. Pending(g, left)
    <3> HIDE DEF IsResult, PairedAt
    <3> QED BY <1>1, <1>3, <2>4, <2>5, <2>6, <2>8, <2>9, <2>10 DEF Pending
  <2> QED BY <1>2, <2>11
<1> QED BY <1>4, <1>5 DEF Pending

\* No call is open.
LEMMA PendingCloses ==
    ASSUME NEW out \in Seq(Messages), Pending(out, <<>>)
    PROVE  AllPaired(out)
<1>1. PICK l \in Nat : l = Len(out)
  BY MessagesAre
<1>2. CASE out = <<>>
  BY <1>2 DEF AllPaired
<1>3. CASE out # <<>>
  <2>1. PICK p \in 1..l :
            /\ ~IsResult(out[p]) /\ \A j \in (p + 1)..l : IsResult(out[j])
            /\ (l - p) + Len(<<>>) = Len(out[p].calls)
            /\ {out[j].id : j \in (p + 1)..l} \cup Range(<<>>) = Range(out[p].calls)
            /\ \A i \in 1..(p - 1) : ~IsResult(out[i]) => PairedAt(out, i)
    BY <1>1, <1>3 DEF Pending
  <2>2. Len(<<>>) = 0 /\ Range(<<>>) = {}
    BY DEF Range
  <2>3. Len(out[p].calls) = l - p /\ p + (l - p) = l
    BY <1>1, <2>1, <2>2
  <2>4. PairedAt(out, p)
    BY <1>1, <2>1, <2>2, <2>3 DEF PairedAt, RunOf
  <2>5. \A i \in 1..l : i \in 1..(p - 1) \/ i = p \/ i \in (p + 1)..l
    BY <1>1
  <2> HIDE DEF PairedAt
  <2> QED BY <1>1, <2>1, <2>4, <2>5 DEF AllPaired
<1> QED BY <1>2, <1>3

\* answer_rest: a placeholder for every open call.
LEMMA RestPaired ==
    ASSUME NEW acc, acc.out \in Seq(Messages), acc.open \in Seq(Nat), Pending(acc.out, acc.open)
    PROVE  AnswerRest(acc) \in Seq(Messages) /\ AllPaired(AnswerRest(acc))
<1>1. PICK out \in Seq(Messages), open \in Seq(Nat) : out = acc.out /\ open = acc.open
  OBVIOUS
<1>2. PICK n \in Nat : n = Len(open) /\ DOMAIN open = 1..n
  OBVIOUS
<1>3. PICK rs : rs = [i \in DOMAIN open |-> Placeholder(open[i])]
  OBVIOUS
<1>4. rs = [i \in 1..n |-> Result(open[i])] /\ \A i \in 1..n : open[i] \in Nat
  BY <1>2, <1>3 DEF Placeholder
<1>5. rs \in [1..n -> Messages] /\ \A i \in 1..n : IsResult(rs[i]) /\ rs[i].id = open[i]
  BY <1>4, ResultsAre
<1>6. rs \in Seq(Messages) /\ Len(rs) = n
  BY <1>5
<1>7. {rs[j].id : j \in 1..n} = Range(open)
  BY <1>2, <1>5 DEF Range
<1>8. /\ Len(<<>>) = 0 /\ Range(<<>>) = {} /\ <<>> \in Seq(Nat)
  BY DEF Range
<1>9. Pending(out \o rs, <<>>)
  <2>1. \A j \in 1..Len(rs) : IsResult(rs[j])
    BY <1>5, <1>6
  <2>2. Len(rs) + Len(<<>>) = Len(open)
    BY <1>2, <1>6, <1>8
  <2>3. {rs[j].id : j \in 1..Len(rs)} \cup Range(<<>>) = Range(open)
    BY <1>6, <1>7, <1>8
  <2>4. Pending(out, open)
    BY <1>1
  <2>5. Answering(rs, open, <<>>)
    BY <2>1, <2>2, <2>3 DEF Answering
  <2> QED BY <1>6, <1>8, <2>4, <2>5, PendingGrows
<1>10. AnswerRest(acc) = out \o rs
  BY <1>1, <1>3 DEF AnswerRest
<1>11. out \o rs \in Seq(Messages)
  BY <1>6
<1> QED BY <1>9, <1>10, <1>11, PendingCloses

\* A call that is answered is open no more.
LEMMA WithoutIs ==
    ASSUME NEW open \in Seq(Nat), NEW id \in Range(open)
    PROVE  /\ Without(open, id) \in Seq(Nat) /\ Len(Without(open, id)) = Len(open) - 1
           /\ Range(Without(open, id)) \cup {id} = Range(open)
<1>1. PICK n \in Nat : n = Len(open) /\ DOMAIN open = 1..n
  OBVIOUS
<1> DEFINE S == {i \in DOMAIN open : open[i] = id}
<1>2. S \subseteq Nat /\ S # {}
  BY <1>1 DEF Range
<1>3. PICK k \in 1..n : k = Min(S) /\ open[k] = id
  <2>1. Min(S) \in S
    <3> HIDE DEF S
    <3> QED BY <1>2, MinOf
  <2> QED BY <1>1, <2>1
<1>4. PICK a, b, w : a = SubSeq(open, 1, k - 1) /\ b = SubSeq(open, k + 1, n) /\ w = a \o b
  OBVIOUS
<1>5. w = Without(open, id)
  BY <1>1, <1>3, <1>4 DEF Without, RemoveAt
<1>6. a \in Seq(Nat) /\ Len(a) = k - 1 /\ \A i \in 1..(k - 1) : a[i] = open[i]
  <2>1. \A i \in 1..(k - 1) : open[i] \in Nat
    BY <1>1
  <2>2. 1 \in Int /\ k - 1 \in Int
    OBVIOUS
  <2>3. /\ SubSeq(open, 1, k - 1) \in Seq(Nat)
        /\ Len(SubSeq(open, 1, k - 1)) = IF 1 <= k - 1 THEN (k - 1) - 1 + 1 ELSE 0
        /\ \A i \in 1..((k - 1) - 1 + 1) : SubSeq(open, 1, k - 1)[i] = open[1 + i - 1]
    BY <2>1, <2>2, SubSeqProperties
  <2>4. (k - 1) - 1 + 1 = k - 1 /\ \A i \in 1..(k - 1) : 1 + i - 1 = i
    OBVIOUS
  <2>5. Len(a) = k - 1
    BY <1>4, <2>3
  <2>6. \A i \in 1..(k - 1) : a[i] = open[i]
    BY <1>4, <2>3, <2>4
  <2> QED BY <1>4, <2>3, <2>5, <2>6
<1>7. b \in Seq(Nat) /\ Len(b) = n - k /\ \A i \in 1..(n - k) : b[i] = open[k + i]
  <2>1. \A i \in (k + 1)..n : open[i] \in Nat
    BY <1>1
  <2>2. k + 1 \in Int /\ n \in Int
    BY <1>1
  <2>3. /\ SubSeq(open, k + 1, n) \in Seq(Nat)
        /\ Len(SubSeq(open, k + 1, n)) = IF k + 1 <= n THEN n - (k + 1) + 1 ELSE 0
        /\ \A i \in 1..(n - (k + 1) + 1) : SubSeq(open, k + 1, n)[i] = open[(k + 1) + i - 1]
    BY <2>1, <2>2, SubSeqProperties
  <2>4. n - (k + 1) + 1 = n - k /\ \A i \in 1..(n - k) : (k + 1) + i - 1 = k + i
    BY <1>1
  <2> QED BY <1>1, <1>4, <2>3, <2>4
<1>8. /\ w \in Seq(Nat) /\ Len(w) = n - 1
      /\ \A i \in 1..(n - 1) : w[i] = IF i <= k - 1 THEN a[i] ELSE b[i - (k - 1)]
  <2>1. /\ w \in Seq(Nat) /\ Len(w) = Len(a) + Len(b)
        /\ \A i \in 1..(Len(a) + Len(b)) : w[i] = IF i <= Len(a) THEN a[i] ELSE b[i - Len(a)]
    <3>1. a \in Seq(Nat) /\ b \in Seq(Nat) /\ w = a \o b
      BY <1>4, <1>6, <1>7
    <3> QED BY <3>1, ConcatProperties
  <2>2. (k - 1) + (n - k) = n - 1
    BY <1>1
  <2> QED BY <1>6, <1>7, <2>1, <2>2
<1>9. ASSUME NEW i \in 1..(n - 1)
      PROVE  \/ i \in 1..(k - 1) /\ w[i] = open[i]
             \/ i + 1 \in (k + 1)..n /\ w[i] = open[i + 1]
  <2>1. CASE i <= k - 1
    <3>1. i \in 1..(k - 1)
      BY <2>1
    <3> QED BY <1>6, <1>8, <2>1, <3>1
  <2>2. CASE ~(i <= k - 1)
    <3>1. i - (k - 1) \in 1..(n - k) /\ k + (i - (k - 1)) = i + 1 /\ i + 1 \in (k + 1)..n
      BY <1>1, <2>2
    <3> QED BY <1>7, <1>8, <2>2, <3>1
  <2> QED BY <2>1, <2>2
<1>10. Range(w) \cup {id} = Range(open)
  <2>1. Range(w) = {w[i] : i \in 1..(n - 1)} /\ Range(open) = {open[i] : i \in 1..n}
    <3>1. DOMAIN w = 1..(n - 1) /\ DOMAIN open = 1..n
      BY <1>1, <1>8
    <3> QED BY <3>1 DEF Range
  <2>2. ASSUME NEW i \in 1..(n - 1) PROVE w[i] \in Range(open)
    <3>1. \A j \in 1..n : open[j] \in Range(open)
      BY <2>1
    <3>2. CASE i \in 1..(k - 1) /\ w[i] = open[i]
      <4>1. i \in 1..n
        BY <1>1
      <4> QED BY <3>1, <3>2, <4>1
    <3>3. CASE i + 1 \in (k + 1)..n /\ w[i] = open[i + 1]
      <4>1. i + 1 \in 1..n
        BY <3>3
      <4> QED BY <3>1, <3>3, <4>1
    <3> QED BY <1>9, <3>2, <3>3
  <2>3. ASSUME NEW i \in 1..n, i # k PROVE open[i] \in Range(w)
    <3>1. CASE i < k
      <4>1. i \in 1..(n - 1) /\ i <= k - 1 /\ i \in 1..(k - 1)
        BY <1>1, <3>1
      <4>2. w[i] = open[i]
        BY <1>6, <1>8, <4>1
      <4> QED BY <2>1, <4>1, <4>2
    <3>2. CASE i > k
      <4>1. i - 1 \in 1..(n - 1) /\ ~(i - 1 <= k - 1) /\ (i - 1) - (k - 1) = i - k
            /\ i - k \in 1..(n - k) /\ k + (i - k) = i
        BY <1>1, <3>2
      <4>2. w[i - 1] = open[i]
        BY <1>7, <1>8, <4>1
      <4> QED BY <2>1, <4>1, <4>2
    <3> QED BY <2>3, <3>1, <3>2
  <2>4. id \in Range(open)
    OBVIOUS
  <2> QED BY <1>3, <2>1, <2>2, <2>3, <2>4
<1> QED BY <1>1, <1>5, <1>8, <1>10

\* What `paired` has after the first k messages, one by one.
IsPairing(g, ms, k) ==
    g = [n \in 0..k |-> IF n = 0 THEN Nothing ELSE Pairs(g[n - 1], ms[n])]

Pairing(ms) == CHOOSE g : IsPairing(g, ms, Len(ms))

\* The definition by recursion defines something.
LEMMA PairingExists ==
    ASSUME NEW ms
    PROVE  \A k \in Nat : \E g : IsPairing(g, ms, k)
<1> DEFINE S == {k \in Nat : \E g : IsPairing(g, ms, k)}
<1>1. 0 \in S
  <2> DEFINE g == [n \in 0..0 |-> Nothing]
  <2>1. g = [n \in 0..0 |-> IF n = 0 THEN Nothing ELSE Pairs(g[n - 1], ms[n])]
    OBVIOUS
  <2> QED BY <2>1 DEF IsPairing
<1>2. ASSUME NEW k \in Nat, k \in S PROVE k + 1 \in S
  <2>1. PICK g : g = [n \in 0..k |-> IF n = 0 THEN Nothing ELSE Pairs(g[n - 1], ms[n])]
    BY <1>2 DEF IsPairing
  <2> DEFINE h == [n \in 0..(k + 1) |-> IF n = k + 1 THEN Pairs(g[k], ms[k + 1]) ELSE g[n]]
  <2>2. ASSUME NEW n \in 0..(k + 1)
        PROVE  h[n] = IF n = 0 THEN Nothing ELSE Pairs(h[n - 1], ms[n])
    <3>1. CASE n = k + 1
      BY <3>1
    <3>2. CASE n = 0
      BY <2>1, <3>2
    <3>3. CASE n \in 1..k
      <4>1. h[n] = g[n] /\ h[n - 1] = g[n - 1] /\ n \in 0..k /\ n # 0
        BY <3>3
      <4>2. g[n] = Pairs(g[n - 1], ms[n])
        BY <2>1, <4>1
      <4> QED BY <4>1, <4>2
    <3> QED BY <3>1, <3>2, <3>3
  <2>3. h = [n \in 0..(k + 1) |-> h[n]]
    OBVIOUS
  <2> HIDE DEF h
  <2>4. h = [n \in 0..(k + 1) |-> IF n = 0 THEN Nothing ELSE Pairs(h[n - 1], ms[n])]
    BY <2>2, <2>3
  <2>5. IsPairing(h, ms, k + 1)
    BY <2>4 DEF IsPairing
  <2> QED BY <2>5
<1> HIDE DEF S
<1>3. \A k \in Nat : k \in S
  BY <1>1, <1>2, AllNumbers
<1> QED BY <1>3 DEF S

\* What Pairing is.
LEMMA PairingIs ==
    ASSUME NEW ms, Len(ms) \in Nat
    PROVE  /\ Pairing(ms)[0] = Nothing
           /\ \A n \in 1..Len(ms) : Pairing(ms)[n] = Pairs(Pairing(ms)[n - 1], ms[n])
           /\ Paired(ms) = AnswerRest(Pairing(ms)[Len(ms)])
<1>1. IsPairing(Pairing(ms), ms, Len(ms))
  BY PairingExists DEF Pairing
<1>2. Paired(ms) = AnswerRest(Pairing(ms)[Len(ms)])
  BY DEF Paired, Pairing, IsPairing
<1> HIDE DEF Pairing
<1> QED BY <1>1, <1>2 DEF IsPairing

PendingOK(acc) ==
    acc.out \in Seq(Messages) /\ acc.open \in Seq(Nat) /\ Pending(acc.out, acc.open)

\* A message on, all is paired but for the last message's open calls.
LEMMA PairsOK ==
    ASSUME NEW acc, PendingOK(acc), NEW m \in Messages
    PROVE  PendingOK(Pairs(acc, m))
<1>1. acc.out \in Seq(Messages) /\ acc.open \in Seq(Nat) /\ Pending(acc.out, acc.open)
  BY DEF PendingOK
<1>2. m.calls \in Seq(Nat)
  BY DEF Messages
<1>3. CASE ~IsResult(m)
  <2>1. PICK h : h = AnswerRest(acc)
    OBVIOUS
  <2>2. h \in Seq(Messages) /\ AllPaired(h)
    BY <1>1, <2>1, RestPaired
  <2>3. Pairs(acc, m) = [out |-> Append(h, m), open |-> m.calls]
    BY <1>3, <2>1 DEF Pairs
  <2>4. Append(h, m) \in Seq(Messages) /\ Pending(Append(h, m), m.calls)
    BY <1>3, <2>2, PendingBegins
  <2> QED BY <1>2, <2>3, <2>4 DEF PendingOK
<1>4. CASE IsResult(m) /\ m.id \in Range(acc.open)
  <2>1. PICK w : w = Without(acc.open, m.id)
    OBVIOUS
  <2>2. w \in Seq(Nat) /\ Len(w) = Len(acc.open) - 1 /\ Range(w) \cup {m.id} = Range(acc.open)
    BY <1>1, <1>4, <2>1, WithoutIs
  <2>3. Pairs(acc, m) = [out |-> Append(acc.out, m), open |-> w]
    BY <1>4, <2>1 DEF Pairs
  <2>4. PICK rs : rs = <<m>>
    OBVIOUS
  <2>5. rs \in Seq(Messages) /\ Len(rs) = 1 /\ rs[1] = m
    BY <2>4
  <2>6. {rs[j].id : j \in 1..1} = {m.id}
    <3>1. 1..1 = {1}
      OBVIOUS
    <3> QED BY <2>5, <3>1
  <2>7. Answering(rs, acc.open, w)
    <3>1. \A j \in 1..Len(rs) : IsResult(rs[j])
      BY <1>4, <2>5
    <3>2. Len(rs) + Len(w) = Len(acc.open)
      BY <1>1, <2>2, <2>5
    <3>3. {rs[j].id : j \in 1..Len(rs)} \cup Range(w) = Range(acc.open)
      BY <2>2, <2>5, <2>6
    <3> QED BY <3>1, <3>2, <3>3 DEF Answering
  <2>8. Pending(acc.out \o rs, w)
    BY <1>1, <2>2, <2>5, <2>7, PendingGrows
  <2>9. acc.out \o rs = Append(acc.out, m) /\ acc.out \o rs \in Seq(Messages)
    <3>1. acc.out \o <<m>> = Append(acc.out, m)
      BY <1>1
    <3> QED BY <1>1, <2>4, <2>5, <3>1
  <2> QED BY <2>2, <2>3, <2>8, <2>9 DEF PendingOK
<1>5. CASE IsResult(m) /\ m.id \notin Range(acc.open)
  <2>1. Pairs(acc, m) = acc
    BY <1>5 DEF Pairs
  <2> QED BY <2>1
<1> QED BY <1>3, <1>4, <1>5

\* paired: whatever the messages, every call is answered and no result is another's.
LEMMA PairedIsPaired ==
    ASSUME NEW ms \in Seq(Messages)
    PROVE  Paired(ms) \in Seq(Messages) /\ AllPaired(Paired(ms))
<1> DEFINE T == {n \in Nat : n <= Len(ms) => PendingOK(Pairing(ms)[n])}
<1>1. Len(ms) \in Nat
  OBVIOUS
<1>2. 0 \in T
  <2>1. Pairing(ms)[0] = Nothing
    BY <1>1, PairingIs
  <2>2. <<>> \in Seq(Messages) /\ <<>> \in Seq(Nat)
    OBVIOUS
  <2>3. PendingOK(Nothing)
    BY <2>2 DEF PendingOK, Pending, Nothing
  <2> QED BY <2>1, <2>3
<1>3. ASSUME NEW n \in Nat, n \in T PROVE n + 1 \in T
  <2> SUFFICES ASSUME n + 1 <= Len(ms) PROVE PendingOK(Pairing(ms)[n + 1])
    OBVIOUS
  <2>1. n + 1 \in 1..Len(ms) /\ (n + 1) - 1 = n /\ ms[n + 1] \in Messages
    BY <1>1
  <2>2. PendingOK(Pairing(ms)[n])
    BY <1>1, <1>3
  <2>3. Pairing(ms)[n + 1] = Pairs(Pairing(ms)[n], ms[n + 1])
    BY <1>1, <2>1, PairingIs
  <2> QED BY <2>1, <2>2, <2>3, PairsOK
<1> HIDE DEF T
<1>4. \A n \in Nat : n \in T
  BY <1>2, <1>3, AllNumbers
<1>5. PendingOK(Pairing(ms)[Len(ms)])
  BY <1>1, <1>4 DEF T
<1>6. Paired(ms) = AnswerRest(Pairing(ms)[Len(ms)])
  BY <1>1, PairingIs
<1> QED BY <1>5, <1>6, RestPaired DEF PendingOK

\* The results right after a message are those of its run.
LEMMA ResultsAfterIs ==
    ASSUME NEW h \in Seq(Messages), NEW i \in 1..Len(h), NEW k \in Nat, RunOf(h, i, k)
    PROVE  ResultsAfter(h, i) = [j \in 1..k |-> h[i + j].id]
<1>1. PICK l \in Nat : l = Len(h) /\ i \in 1..l
  BY MessagesAre
<1>2. /\ i + k <= l /\ \A j \in (i + 1)..(i + k) : IsResult(h[j])
      /\ i + k < l => ~IsResult(h[i + k + 1])
  BY <1>1 DEF RunOf
<1> DEFINE S == {l + 1} \cup {j \in (i + 1)..l : ~IsResult(h[j])}
<1>3. S \subseteq Nat /\ S # {}
  BY <1>1
<1>4. PICK n : n = Min(S)
  OBVIOUS
<1>5. n \in S /\ \A y \in S : n <= y
  <2> HIDE DEF S
  <2> QED BY <1>3, <1>4, MinOf
<1>6. n = i + k + 1
  <2>1. i + k + 1 \in S
    <3>1. CASE i + k < l
      <4>1. i + k + 1 \in (i + 1)..l
        BY <1>1, <3>1
      <4> QED BY <1>2, <3>1, <4>1
    <3>2. CASE i + k = l
      BY <3>2
    <3> QED BY <1>1, <1>2, <3>1, <3>2
  <2>2. n <= i + k + 1 /\ n \in Nat
    BY <1>3, <1>5, <2>1
  <2>3. ~(n <= i + k)
    <3> SUFFICES ASSUME n <= i + k PROVE FALSE
      OBVIOUS
    <3>1. n \in (i + 1)..l /\ ~IsResult(h[n])
      BY <1>1, <1>2, <1>5
    <3> QED BY <1>2, <3>1
  <2> HIDE DEF S
  <2> QED BY <1>1, <2>2, <2>3
<1>7. ResultsAfter(h, i) = [j \in 1..(n - i - 1) |-> h[i + j].id]
  BY <1>1, <1>4 DEF ResultsAfter
<1>8. n - i - 1 = k
  BY <1>1, <1>6
<1> QED BY <1>7, <1>8

\* run_calls, abandon_rest, compact: wherever a run is interrupted and whatever was folded,
\* the history has every call answered right after it, once, in the order asked.
THEOREM EveryCallAnswered == Spec => []AnsweredInOrder
<1>1. StoreOK => AnsweredInOrder
  <2> SUFFICES ASSUME StoreOK, ~lost,
                      pc \in {"idle", "top", "compact", "folded", "call", "check", "stop"},
                      NEW i \in DOMAIN history, ~IsResult(history[i])
               PROVE  ResultsAfter(history, i) = history[i].calls
    BY Zenon DEF AnsweredInOrder
  <2>1. history \in Seq(Messages) /\ Whole(history)
    BY DEF StoreOK, ShapeOf, Within
  <2>2. i \in 1..Len(history)
    BY <2>1
  <2>3. PICK c \in Seq(Nat) : c = history[i].calls
    <3>1. history[i] \in Messages
      BY <2>1
    <3> QED BY <3>1 DEF Messages
  <2>4. PICK k \in Nat : k = Len(c)
    OBVIOUS
  <2>5. /\ i + k <= Len(history)
        /\ \A j \in 1..k : IsResult(history[i + j]) /\ history[i + j].id = c[j]
        /\ i + k < Len(history) => ~IsResult(history[i + k + 1])
    <3>1. AnsweredAt(history, i)
      BY <2>1, <2>2 DEF Whole
    <3> QED BY <2>3, <2>4, <3>1 DEF AnsweredAt
  <2>6. RunOf(history, i, k)
    <3>1. ASSUME NEW j \in (i + 1)..(i + k) PROVE IsResult(history[j])
      <4>1. j - i \in 1..k /\ i + (j - i) = j
        BY <2>2
      <4> QED BY <2>5, <4>1
    <3> QED BY <2>5, <3>1 DEF RunOf
  <2>7. ResultsAfter(history, i) = [j \in 1..k |-> history[i + j].id]
    BY <2>1, <2>2, <2>6, ResultsAfterIs
  <2>8. ResultsAfter(history, i) = [j \in 1..k |-> c[j]]
    BY <2>5, <2>7
  <2>9. c = [j \in 1..k |-> c[j]]
    BY <2>4
  <2> QED BY <2>3, <2>8, <2>9
<1> QED BY <1>1, StoreInductive, PTL

\* paired: "providers refuse either orphan"; even after crashes, torn lines and folds of what
\* was left, a request has every call answered once right after it, and no other result.
THEOREM RequestsArePaired == Spec => []RequestPaired
<1>1. StoreOK => RequestPaired
  <2>1. ASSUME StoreOK, NEW i \in DOMAIN Paired(history), ~IsResult(Paired(history)[i])
        PROVE  /\ Range(ResultsAfter(Paired(history), i)) = Range(Paired(history)[i].calls)
               /\ Len(ResultsAfter(Paired(history), i)) = Len(Paired(history)[i].calls)
    <3>1. PICK r \in Seq(Messages) : r = Paired(history) /\ AllPaired(r)
      <4>1. history \in Seq(Messages)
        BY <2>1 DEF StoreOK
      <4> QED BY <4>1, PairedIsPaired
    <3>2. i \in 1..Len(r) /\ ~IsResult(r[i])
      BY <2>1, <3>1
    <3>3. PICK k \in Nat : k = Len(r[i].calls)
      BY <3>2, MessagesAre
    <3>4. RunOf(r, i, k) /\ {r[j].id : j \in (i + 1)..(i + k)} = Range(r[i].calls)
      BY <3>1, <3>2, <3>3 DEF AllPaired, PairedAt
    <3>5. ResultsAfter(r, i) = [j \in 1..k |-> r[i + j].id]
      BY <3>2, <3>4, ResultsAfterIs
    <3>6. Len(ResultsAfter(r, i)) = k
      BY <3>5
    <3>7. Range(ResultsAfter(r, i)) = {r[j].id : j \in (i + 1)..(i + k)}
      <4>1. Range(ResultsAfter(r, i)) = {r[i + j].id : j \in 1..k}
        BY <3>5 DEF Range
      <4>2. \A j \in 1..k : i + j \in (i + 1)..(i + k)
        BY <3>2
      <4>3. \A j \in (i + 1)..(i + k) : j - i \in 1..k /\ i + (j - i) = j
        BY <3>2
      <4>4. \A x \in {r[i + j].id : j \in 1..k} : x \in {r[j].id : j \in (i + 1)..(i + k)}
        BY <4>2
      <4>5. \A x \in {r[j].id : j \in (i + 1)..(i + k)} : x \in {r[i + j].id : j \in 1..k}
        BY <4>3
      <4> QED BY <4>1, <4>4, <4>5
    <3> QED BY <3>1, <3>3, <3>4, <3>6, <3>7
  <2> QED BY <2>1 DEF RequestPaired
<1> QED BY <1>1, StoreInductive, PTL

USE LoopAssumption

-----------------------------------------------------------------------------
(* Types *)

Outcomes == {"none", "finished", "incomplete", "aborted", "failed"}

FlagsOK ==
    /\ final \in BOOLEAN /\ nudged \in BOOLEAN /\ retried \in BOOLEAN /\ outcome \in Outcomes
    /\ halted \in BOOLEAN /\ stopped \in BOOLEAN
    /\ torn \in BOOLEAN /\ lost \in BOOLEAN /\ unlogged \in BOOLEAN

BoundsOK ==
    /\ spent \in Nat /\ runs \in 0..MaxRuns /\ troubles \in 0..MaxTroubles /\ folds \in 0..MaxFolds

\* The status answer is asked for once too much was sent back, or the steps are used up.
CountsOK ==
    /\ iter \in 0..MaxIterations /\ salvaged \in 0..MaxSalvages
    /\ failedChecks \in 0..(MaxVerifyRounds + 1) /\ stopBlocks \in 0..(MaxStopBlocks + 1)
    /\ final => pc \in {"compact", "folded", "call"}
    /\ ~final => failedChecks <= MaxVerifyRounds /\ stopBlocks <= MaxStopBlocks
    /\ pc \notin {"idle", "top"} => final \/ iter < MaxIterations

\* The ids of the calls are those made.
NumbersOK ==
    /\ at <= Len(calls) + 1 /\ announced \subseteq 1..ids
    /\ \A i \in 1..Len(calls) : calls[i].id \in 1..ids

TypesOK == FlagsOK /\ BoundsOK /\ CountsOK /\ NumbersOK

\* The limits are numbers.
LEMMA Limits ==
    /\ MaxIterations \in Nat /\ MaxVerifyRounds \in Nat /\ MaxStopBlocks \in Nat
    /\ MaxSalvages \in Nat /\ MaxRuns \in Nat /\ MaxTroubles \in Nat /\ MaxFolds \in Nat
OBVIOUS

\* A run's end resets its counters.
LEMMA OverCounts ==
    ASSUME NEW o \in Outcomes, Over(o)
    PROVE  /\ CountsOK' /\ outcome' \in Outcomes /\ final' \in BOOLEAN /\ nudged' \in BOOLEAN
           /\ retried' \in BOOLEAN /\ pc' = "idle"
           /\ at' = 0 /\ calls' = <<>>
<1>1. /\ pc' = "idle" /\ outcome' = o /\ at' = 0 /\ calls' = <<>> /\ iter' = 0 /\ final' = FALSE
      /\ failedChecks' = 0 /\ stopBlocks' = 0 /\ salvaged' = 0 /\ nudged' = FALSE /\ retried' = FALSE
  BY DEF Over
<1>2. CountsOK'
  BY <1>1, Limits DEF CountsOK
<1> QED BY <1>1, <1>2

\* A write to the transcript succeeds or tears it.
LEMMA LoggedTorn == \A ls : Logged(ls) => torn' \in BOOLEAN
BY Zenon DEF Logged

\* So does a push.
LEMMA PushTorn == \A ms : Push(ms) => torn' \in BOOLEAN
BY LoggedTorn, Zenon DEF Push

\* The run budget, the bounds and the owner's switches.
LEMMA NextBounds ==
    ASSUME BoundsOK, [Next]_vars
    PROVE  BoundsOK'
<1>1. CASE Asking
  <2>1. CASE Folded
    BY <1>1, <2>1, Limits DEF Folded, Charge, BoundsOK
  <2>2. CASE ~Folded
    <3>1. bounds' = bounds /\ (spent' = spent \/ spent' = spent + 1)
      BY <1>1, <2>2 DEF Asking, Sends, FoldLogged, TooLong, Fails, AnswersStatus, AnswersGarbled,
         AnswersText, AnswersCalls, Charge
    <3> QED BY <3>1 DEF bounds, BoundsOK
  <2> QED BY <2>1, <2>2
<1>2. CASE Finishing
  BY <1>2 DEF Finishing, ChecksPass, ChecksFail, StopHookBlocks, Finishes, bounds, BoundsOK
<1>3. CASE Calling
  BY <1>3 DEF Calling, GateStops, Announces, GateHalts, Gates, RunCut, RunEnded, TakesTurn, TakesSlot,
     CallEnds, Takes, PostHalts, TurnEnds, Stuck, bounds, BoundsOK
<1>4. CASE Halting
  BY <1>4 DEF Halting, HaltsAt, bounds, BoundsOK
<1>5. CASE Stopped \/ UsedUp \/ GoesOn
  BY <1>5, SMTT(30) DEF Stopped, UsedUp, GoesOn, Trouble, bounds, BoundsOK
<1>6. CASE Begins \/ Blocked \/ Flips \/ Dies
  <2>1. /\ spent' = spent /\ folds' = folds
        /\ \/ runs < MaxRuns /\ runs' = runs + 1 /\ troubles' = troubles
           \/ troubles < MaxTroubles /\ troubles' = troubles + 1 /\ runs' = runs
    BY <1>6 DEF Begins, Blocked, Flips, Dies, Trouble
  <2> QED BY <2>1, Limits DEF BoundsOK
<1>7. CASE UNCHANGED vars
  BY <1>7 DEF vars, bounds, BoundsOK
<1> QED BY <1>1, <1>2, <1>3, <1>4, <1>5, <1>6, <1>7 DEF Next, Loop

\* A finish is sent back to the top of the loop, or to the status answer.
LEMMA SentBackIs ==
    ASSUME NEW x \in BOOLEAN, SentBack(x)
    PROVE  /\ final' \in BOOLEAN
           /\ x => final' = TRUE /\ iter' = iter /\ pc' = "compact"
           /\ ~x => final' = FALSE /\ iter' = iter + 1 /\ pc' = "top"
BY DEF SentBack

\* Whether the finish was sent back too often.
LEMMA TooOften ==
    ASSUME CountsOK
    PROVE  /\ ChecksFail =>
                \E x \in BOOLEAN : SentBack(x) /\ (x <=> failedChecks + 1 > MaxVerifyRounds)
           /\ StopHookBlocks =>
                \E x \in BOOLEAN : SentBack(x) /\ (x <=> stopBlocks + 1 > MaxStopBlocks)
<1>1. (failedChecks + 1 > MaxVerifyRounds) \in BOOLEAN /\ (stopBlocks + 1 > MaxStopBlocks) \in BOOLEAN
  BY Limits DEF CountsOK
<1>2. ChecksFail => SentBack(failedChecks + 1 > MaxVerifyRounds)
  <2> SUFFICES ASSUME ChecksFail PROVE SentBack(failedChecks + 1 > MaxVerifyRounds)
    OBVIOUS
  <2>1. failedChecks' = failedChecks + 1 /\ SentBack(failedChecks' > MaxVerifyRounds)
    BY Zenon DEF ChecksFail
  <2> QED BY <2>1, Zenon
<1>3. StopHookBlocks => SentBack(stopBlocks + 1 > MaxStopBlocks)
  <2> SUFFICES ASSUME StopHookBlocks PROVE SentBack(stopBlocks + 1 > MaxStopBlocks)
    OBVIOUS
  <2>1. stopBlocks' = stopBlocks + 1 /\ SentBack(stopBlocks' > MaxStopBlocks)
    BY Zenon DEF StopHookBlocks
  <2> QED BY <2>1, Zenon
<1> QED BY <1>1, <1>2, <1>3, Zenon

\* The flags, and how a run ended.
LEMMA NextFlags ==
    ASSUME FlagsOK, CountsOK, [Next]_vars
    PROVE  FlagsOK'
<1> DEFINE Signals == halted' \in BOOLEAN /\ stopped' \in BOOLEAN /\ lost' \in BOOLEAN
           Ends == /\ final' \in BOOLEAN /\ nudged' \in BOOLEAN /\ retried' \in BOOLEAN
                   /\ outcome' \in Outcomes
           Stored == torn' \in BOOLEAN /\ unlogged' \in BOOLEAN
<1>1. CASE Asking
  <2>1. Signals
    BY <1>1 DEF Asking, Sends, FoldLogged, TooLong, Fails, AnswersStatus, AnswersGarbled,
       AnswersText, AnswersCalls, signals, ghosts, FlagsOK
  <2>2. Stored
    BY <1>1, PushTorn, LoggedTorn DEF Asking, Sends, FoldLogged, TooLong, Fails, AnswersStatus,
       AnswersGarbled, AnswersText, AnswersCalls, Folded, store, ghosts, FlagsOK
  <2>3. Ends
    <3>1. CASE Fails \/ AnswersStatus
      BY <3>1, OverCounts DEF Fails, AnswersStatus, Outcomes
    <3>2. CASE ~(Fails \/ AnswersStatus)
      BY <1>1, <3>2 DEF Asking, Sends, FoldLogged, TooLong, AnswersGarbled,
         AnswersText, AnswersCalls, counters, FlagsOK
    <3> QED BY <3>1, <3>2
  <2> QED BY <2>1, <2>2, <2>3 DEF FlagsOK
<1>2. CASE Finishing
  <2>1. Signals /\ Stored
    BY <1>2, PushTorn DEF Finishing, ChecksPass, ChecksFail, StopHookBlocks, Finishes, SentBack,
       signals, store, ghosts, FlagsOK
  <2>2. Ends
    <3>1. CASE Finishes
      BY <3>1, OverCounts DEF Finishes, Outcomes
    <3>2. CASE ChecksPass
      BY <3>2 DEF ChecksPass, FlagsOK
    <3>3. CASE ChecksFail \/ StopHookBlocks
      <4>1. final' \in BOOLEAN
        BY <3>3, TooOften, SentBackIs
      <4> QED BY <3>3, <4>1 DEF ChecksFail, StopHookBlocks, FlagsOK
    <3> QED BY <1>2, <3>1, <3>2, <3>3 DEF Finishing
  <2> QED BY <2>1, <2>2 DEF FlagsOK
<1>3. CASE Calling
  <2>1. Signals /\ Stored
    BY <1>3, PushTorn DEF Calling, GateStops, Announces, GateHalts, Gates, RunCut, RunEnded, TakesTurn,
       TakesSlot, CallEnds, Takes, PostHalts, TurnEnds, Stuck, AbandonHalted, AbandonStopped, Halt,
       WrapsUp, signals, store, ghosts, FlagsOK
  <2>2. Ends
    <3>1. CASE GateStops \/ GateHalts \/ RunCut \/ PostHalts
      <4>1. Over("incomplete") \/ Over("aborted")
        BY <3>1 DEF GateStops, GateHalts, RunCut, PostHalts, AbandonHalted, AbandonStopped, Halt
      <4> QED BY <4>1, OverCounts DEF Outcomes
    <3>2. CASE ~(GateStops \/ GateHalts \/ RunCut \/ PostHalts)
      BY <1>3, <3>2 DEF Calling, Announces, Gates, RunEnded, TakesTurn, TakesSlot, CallEnds, Takes,
         TurnEnds, Stuck, WrapsUp, counters, FlagsOK
    <3> QED BY <3>1, <3>2
  <2> QED BY <2>1, <2>2 DEF FlagsOK
<1>4. CASE Halting
  <2>1. Signals /\ Stored
    BY <1>4, PushTorn DEF Halting, HaltsAt, Halt, signals, FlagsOK
  <2>2. Ends
    BY <1>4, OverCounts DEF Halting, HaltsAt, Halt, Outcomes
  <2> QED BY <2>1, <2>2 DEF FlagsOK
<1>5. CASE Stopped
  <2>1. Signals /\ Stored
    BY <1>5 DEF Stopped, signals, store, ghosts, FlagsOK
  <2>2. Ends
    BY <1>5, OverCounts DEF Stopped, Outcomes
  <2> QED BY <2>1, <2>2 DEF FlagsOK
<1>6. CASE UsedUp \/ GoesOn \/ Begins
  <2>1. Signals /\ Stored
    BY <1>6, PushTorn DEF UsedUp, GoesOn, Begins, WrapsUp, signals, ghosts, FlagsOK
  <2>2. Ends
    BY <1>6 DEF UsedUp, GoesOn, Begins, WrapsUp, counters, FlagsOK, Outcomes
  <2> QED BY <2>1, <2>2 DEF FlagsOK
<1>7. CASE Blocked \/ Flips \/ UNCHANGED vars
  <2>1. Signals
    BY <1>7 DEF Blocked, Flips, vars, signals, ghosts, FlagsOK
  <2>2. Stored /\ Ends
    BY <1>7 DEF Blocked, Flips, vars, store, counters, ghosts, FlagsOK, Outcomes
  <2> QED BY <2>1, <2>2 DEF FlagsOK
<1>8. CASE Dies
  <2>1. Signals /\ Stored
    BY <1>8 DEF Dies, signals, FlagsOK
  <2>2. Ends
    BY <1>8, OverCounts DEF Dies, Outcomes
  <2> QED BY <2>1, <2>2 DEF FlagsOK
<1> QED BY <1>1, <1>2, <1>3, <1>4, <1>5, <1>6, <1>7, <1>8 DEF Next, Loop

\* The counters.
LEMMA NextCounts ==
    ASSUME CountsOK, pc \in Pcs, final \in BOOLEAN, [Next]_vars
    PROVE  CountsOK'
<1>1. CASE \E o \in Outcomes : Over(o)
  BY <1>1, OverCounts
<1>2. CASE Asking
  <2>1. CASE Fails \/ AnswersStatus
    BY <1>1, <2>1 DEF Fails, AnswersStatus, Outcomes
  <2>2. CASE Sends \/ FoldLogged \/ TooLong
    BY <2>2 DEF Sends, FoldLogged, TooLong, Folded, counters, CountsOK
  <2>3. CASE AnswersGarbled
    BY <2>3, Limits DEF AnswersGarbled, CountsOK
  <2>4. CASE AnswersText
    BY <2>4 DEF AnswersText, counters, CountsOK
  <2>5. CASE \E s \in Shapes : AnswersCalls(s)
    <3>1. /\ pc = "call" /\ ~final /\ pc' = "gate"
          /\ UNCHANGED <<iter, final, failedChecks, stopBlocks>>
          /\ salvaged' = salvaged \/ (salvaged' = salvaged + 1 /\ salvaged' <= MaxSalvages)
      BY <2>5 DEF AnswersCalls
    <3> QED BY <3>1, Limits DEF CountsOK
  <2> QED BY <1>2, <2>1, <2>2, <2>3, <2>4, <2>5 DEF Asking
<1>3. CASE Finishing
  <2>1. CASE Finishes
    BY <1>1, <2>1 DEF Finishes, Outcomes
  <2>2. CASE ChecksPass
    BY <2>2 DEF ChecksPass, CountsOK
  <2>3. CASE ChecksFail
    <3>1. /\ pc = "check" /\ failedChecks' = failedChecks + 1
          /\ UNCHANGED <<stopBlocks, salvaged>>
      BY <2>3 DEF ChecksFail
    <3>2. PICK x \in BOOLEAN : SentBack(x) /\ (x <=> failedChecks + 1 > MaxVerifyRounds)
      BY <2>3, TooOften
    <3>3. /\ x => final' = TRUE /\ iter' = iter /\ pc' = "compact"
          /\ ~x => final' = FALSE /\ iter' = iter + 1 /\ pc' = "top"
      BY <3>2, SentBackIs
    <3> QED BY <3>1, <3>2, <3>3, Limits DEF CountsOK
  <2>4. CASE StopHookBlocks
    <3>1. /\ pc = "stop" /\ stopBlocks' = stopBlocks + 1
          /\ UNCHANGED <<failedChecks, salvaged>>
      BY <2>4 DEF StopHookBlocks
    <3>2. PICK x \in BOOLEAN : SentBack(x) /\ (x <=> stopBlocks + 1 > MaxStopBlocks)
      BY <2>4, TooOften
    <3>3. /\ x => final' = TRUE /\ iter' = iter /\ pc' = "compact"
          /\ ~x => final' = FALSE /\ iter' = iter + 1 /\ pc' = "top"
      BY <3>2, SentBackIs
    <3> QED BY <3>1, <3>2, <3>3, Limits DEF CountsOK
  <2> QED BY <1>3, <2>1, <2>2, <2>3, <2>4 DEF Finishing
<1>4. CASE Calling
  <2>1. CASE GateStops \/ GateHalts \/ RunCut \/ PostHalts
    <3>1. Over("incomplete") \/ Over("aborted")
      BY <2>1 DEF GateStops, GateHalts, RunCut, PostHalts, AbandonHalted, AbandonStopped, Halt
    <3> QED BY <1>1, <3>1 DEF Outcomes
  <2>2. CASE \/ Announces \/ Gates \/ RunEnded \/ Takes
             \/ \E i \in DOMAIN ran : TakesTurn(i) \/ TakesSlot(i) \/ CallEnds(i)
    <3>1. /\ pc \in {"gate", "asked", "run", "post"} /\ pc' \in {"gate", "asked", "run", "post", "told"}
          /\ UNCHANGED <<iter, final, failedChecks, stopBlocks, salvaged>>
      BY <2>2 DEF Announces, Gates, RunEnded, Takes, TakesTurn, TakesSlot, CallEnds, counters
    <3> QED BY <3>1 DEF CountsOK
  <2>3. CASE TurnEnds \/ Stuck
    <3>1. /\ pc = "told" /\ UNCHANGED <<failedChecks, stopBlocks, salvaged>>
          /\ \/ iter' = iter + 1 /\ pc' = "top" /\ final' = final
             \/ iter' = iter /\ pc' = "compact" /\ final' = TRUE
      BY <2>3 DEF TurnEnds, Stuck, WrapsUp
    <3> QED BY <3>1, Limits DEF CountsOK
  <2> QED BY <1>4, <2>1, <2>2, <2>3 DEF Calling
<1>5. CASE Halting
  BY <1>1, <1>5 DEF Halting, HaltsAt, Halt, Outcomes
<1>6. CASE Stopped \/ Dies
  BY <1>1, <1>6 DEF Stopped, Dies, Outcomes
<1>7. CASE UsedUp \/ GoesOn \/ Begins
  BY <1>7, SMTT(30) DEF UsedUp, GoesOn, Begins, WrapsUp, counters, CountsOK
<1>8. CASE Blocked \/ Flips \/ UNCHANGED vars
  BY <1>8, SMTT(30) DEF Blocked, Flips, vars, counters, CountsOK
<1> QED BY <1>2, <1>3, <1>4, <1>5, <1>6, <1>7, <1>8 DEF Next, Loop

\* A step that leaves the calls alone, or forgets them.
LEMMA SameNumbers ==
    ASSUME NumbersOK, ids' = ids, announced' \subseteq announced,
           \/ calls' = calls /\ at' = at
           \/ calls' = <<>> /\ at' = 0
    PROVE  NumbersOK'
<1>1. announced' \subseteq 1..ids'
  BY DEF NumbersOK
<1>2. CASE calls' = calls /\ at' = at
  BY <1>1, <1>2 DEF NumbersOK
<1>3. CASE calls' = <<>> /\ at' = 0
  <2>1. Len(calls') = 0
    BY <1>3
  <2> QED BY <1>1, <1>3, <2>1 DEF NumbersOK
<1> QED BY <1>2, <1>3

\* The ids.
LEMMA NextNumbers ==
    ASSUME NumbersOK, IInv, [Next]_vars
    PROVE  NumbersOK'
<1>1. CallsOK /\ at \in Nat /\ ids \in Nat
  BY DEF IInv, CallsOK, SegmentOK
<1>2. PICK l \in Nat : l = Len(calls)
  BY <1>1 DEF CallsOK
<1>3. CASE Asking
  <2>1. CASE \E s \in Shapes : AnswersCalls(s)
    <3>1. PICK shape \in Shapes : AnswersCalls(shape)
      BY <2>1
    <3>2. /\ at' = 1 /\ ids' = ids + Len(shape) /\ announced' = announced
          /\ calls' = [i \in DOMAIN shape |-> [id |-> ids + i, kind |-> shape[i]]]
      BY <3>1 DEF AnswersCalls
    <3>3. PICK n \in Nat : n = Len(shape) /\ DOMAIN shape = 1..n
      OBVIOUS
    <3>4. Len(calls') = n /\ \A i \in 1..n : calls'[i].id = ids + i
      <4>1. calls' = [i \in 1..n |-> [id |-> ids + i, kind |-> shape[i]]]
        BY <3>2, <3>3
      <4> QED BY <4>1
    <3>5. \A i \in 1..n : ids + i \in 1..(ids + n)
      BY <1>1
    <3>6. announced' \subseteq 1..ids'
      <4>1. announced \subseteq 1..ids /\ \A x \in 1..ids : x \in 1..(ids + n)
        BY <1>1 DEF NumbersOK
      <4> QED BY <3>2, <3>3, <4>1
    <3>7. at' <= Len(calls') + 1
      BY <3>2, <3>4
    <3> QED BY <3>2, <3>3, <3>4, <3>5, <3>6, <3>7 DEF NumbersOK
  <2>2. CASE ~\E s \in Shapes : AnswersCalls(s)
    <3>1. CASE Fails \/ AnswersStatus
      <4>1. ids' = ids /\ announced' = announced /\ calls' = <<>> /\ at' = 0
        BY <3>1 DEF Fails, AnswersStatus, Over, ghosts
      <4> QED BY <4>1, SameNumbers
    <3>2. CASE ~(Fails \/ AnswersStatus)
      <4>1. ids' = ids /\ announced' = announced /\ calls' = calls /\ at' = at
        BY <1>3, <2>2, <3>2 DEF Asking, Sends, FoldLogged, TooLong, AnswersGarbled, AnswersText,
           segment, ghosts
      <4> QED BY <4>1, SameNumbers
    <3> QED BY <3>1, <3>2
  <2> QED BY <2>1, <2>2
<1>4. CASE \/ ChecksPass \/ ChecksFail \/ StopHookBlocks \/ UsedUp \/ GoesOn \/ Begins \/ Blocked
           \/ Flips \/ UNCHANGED vars
  <2>1. ids' = ids /\ announced' = announced /\ calls' = calls /\ at' = at
    BY <1>4 DEF ChecksPass, ChecksFail, StopHookBlocks, UsedUp, GoesOn, Begins, Blocked, Flips, vars,
       segment, ghosts
  <2> QED BY <2>1, SameNumbers
<1>5. CASE Halting \/ Dies \/ Finishes \/ Stopped
  <2>1. /\ ids' = ids /\ announced' \subseteq announced /\ calls' = <<>> /\ at' = 0
    BY <1>5 DEF Halting, HaltsAt, Halt, Dies, Finishes, Stopped, Over, ghosts
  <2> QED BY <2>1, SameNumbers
<1>6. CASE Calling
  <2>1. CASE GateStops \/ GateHalts \/ RunCut \/ PostHalts
    <3>1. /\ ids' = ids /\ announced' \subseteq announced /\ calls' = <<>> /\ at' = 0
      BY <2>1 DEF GateStops, GateHalts, RunCut, PostHalts, AbandonHalted, AbandonStopped, Halt, Over
    <3> QED BY <3>1, SameNumbers
  <2>2. CASE \/ Gates \/ RunEnded
             \/ \E i \in DOMAIN ran : TakesTurn(i) \/ TakesSlot(i) \/ CallEnds(i)
    <3>1. ids' = ids /\ announced' = announced /\ calls' = calls /\ at' = at
      BY <2>2 DEF Gates, RunEnded, TakesTurn, TakesSlot, CallEnds, segment, ghosts
    <3> QED BY <3>1, SameNumbers
  <2>3. CASE TurnEnds \/ Stuck
    <3>1. ids' = ids /\ announced' = announced /\ calls' = <<>> /\ at' = 0
      BY <2>3 DEF TurnEnds, Stuck, NoSegment, ghosts
    <3> QED BY <3>1, SameNumbers
  <2>4. CASE Announces
    <3>1. /\ pc = "gate" /\ announced' = announced \cup {Seg(Len(gated) + 1).id}
          /\ calls' = calls /\ at' = at /\ ids' = ids
      BY <2>4 DEF Announces, segment
    <3>2. at \in 1..Len(calls) /\ Len(gated) < SegLen /\ gated \in Seq({"passed", "settled"})
      BY <3>1 DEF IInv, SegmentOK
    <3>3. PICK g \in Nat, n \in Nat, e \in Nat :
            g = Len(gated) /\ n = SegLen /\ g < n /\ at + n - 1 = e /\ e <= l
      BY <1>1, <1>2, <3>2, SegmentWithin, SMTT(30)
    <3>4. at + (g + 1) - 1 \in 1..l
      BY <1>1, <1>2, <3>2, <3>3
    <3>5. Seg(g + 1).id \in 1..ids
      BY <1>2, <3>4 DEF NumbersOK, Seg
    <3> QED BY <3>1, <3>3, <3>5 DEF NumbersOK
  <2>5. CASE Takes
    <3>1. /\ pc = "post" /\ announced' \subseteq announced
          /\ calls' = calls /\ at' = at + 1 /\ ids' = ids
      BY <2>5 DEF Takes
    <3>2. at <= l
      <4>1. Len(ran) >= 1 /\ at + Len(ran) - 1 <= Len(calls) /\ Len(ran) \in Nat
        BY <3>1 DEF IInv, SegmentOK
      <4> QED BY <1>1, <1>2, <4>1
    <3>3. at' <= Len(calls') + 1
      BY <1>1, <1>2, <3>1, <3>2
    <3> QED BY <3>1, <3>3 DEF NumbersOK
  <2> QED BY <1>6, <2>1, <2>2, <2>3, <2>4, <2>5 DEF Calling
<1> QED BY <1>3, <1>4, <1>5, <1>6 DEF Next, Loop, Finishing

\* The agent starts within its types and limits.
LEMMA InitTypes == Init => TypesOK
<1> SUFFICES ASSUME Init PROVE TypesOK
  OBVIOUS
<1>1. FlagsOK
  BY DEF Init, FlagsOK, Outcomes
<1>2. BoundsOK /\ CountsOK
  BY Limits DEF Init, BoundsOK, CountsOK
<1>3. NumbersOK
  <2>1. calls = <<>> /\ at = 0 /\ announced = {} /\ Len(<<>>) = 0
    BY DEF Init
  <2> QED BY <2>1 DEF NumbersOK
<1> QED BY <1>1, <1>2, <1>3 DEF TypesOK

\* Types and limits hold in every reachable state.
LEMMA TypesInductive == Spec => []TypesOK
<1>1. IInv /\ TypesOK /\ [Next]_vars => TypesOK'
  <2> SUFFICES ASSUME IInv, TypesOK, [Next]_vars PROVE TypesOK'
    OBVIOUS
  <2>1. FlagsOK /\ BoundsOK /\ CountsOK /\ NumbersOK /\ pc \in Pcs /\ final \in BOOLEAN
    BY DEF TypesOK, IInv, ChecksOK, FlagsOK
  <2> QED BY <2>1, NextFlags, NextBounds, NextCounts, NextNumbers DEF TypesOK
<1> QED BY <1>1, InitTypes, Inductive, PTL DEF Spec

\* Agent, run_inner, run_calls: one type per variable, and the loop within its limits: the
\* steps, the rounds of checks and of Stop hooks, and the calls salvaged from text.
THEOREM TypeCorrect == Spec => []TypeOK
<1>1. IInv /\ StoreOK /\ TypesOK => TypeOK
  <2> SUFFICES ASSUME IInv, StoreOK, TypesOK PROVE TypeOK
    OBVIOUS
  <2>1. history \in Seq(Messages) /\ disk \in Seq([fold : BOOLEAN, msg : Messages, kept : Nat])
    BY DEF StoreOK, Entries
  <2>2. /\ calls \in Seq([id : Nat, kind : STRING]) /\ ids \in Nat /\ pc \in Pcs
        /\ gated \in Seq({"passed", "settled"})
        /\ ran \in Seq({"waiting", "turn", "going", "ok", "error", "settled"})
        /\ needsCheck \in BOOLEAN /\ dirty \in BOOLEAN
    BY DEF IInv, CallsOK, Calls, ChecksOK, SegmentOK
  <2>3. at \in 0..(Len(calls) + 1)
    <3>1. at \in Nat /\ at <= Len(calls) + 1 /\ Len(calls) \in Nat
      BY <2>2 DEF IInv, SegmentOK, TypesOK, NumbersOK
    <3> QED BY <3>1
  <2> QED BY <2>1, <2>2, <2>3
      DEF TypeOK, TypesOK, FlagsOK, BoundsOK, CountsOK, NumbersOK, Outcomes
<1> QED BY <1>1, Inductive, StoreInductive, TypesInductive, PTL
=============================================================================
