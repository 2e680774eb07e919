----------------------------- MODULE AgentLoop -----------------------------
(***************************************************************************)
(* One agent's loop: ask the model, run the tools it calls, repeat.        *)
(*                                                                         *)
(* Around the loop: the owner's guard halts a run at any await, the stop   *)
(* flag of a sub-agent ends it between calls, read-only calls run side by  *)
(* side, the checks and the Stop hooks send a finish back, compaction      *)
(* folds the history, and the transcript on disk, which a crash may tear,  *)
(* is what the next process starts from.                                   *)
(*                                                                         *)
(* A message is its role and the calls it makes or answers.  The system    *)
(* prompt, which is never folded and not in the transcript, is left out.   *)
(***************************************************************************)
EXTENDS Integers, Sequences, FiniteSets, FiniteSetsExt, SequencesExt

CONSTANTS
    Shapes,          \* the tool calls a model may ask for at once: sequences of kinds
    ReadOnly,        \* the kinds that only read
    Serial,          \* the kinds of one serial group: one at a time
    Parallel,        \* parallel_tools
    MaxIterations, MaxVerifyRounds, MaxStopBlocks, MaxSalvages,
    Budget,          \* the token budget, one token a model call
    KeepLast,        \* compaction_keep_last
    MaxRuns,         \* bound: the runs of the agent
    MaxTroubles,     \* bound: how often the kill switch is turned, a stop asked, a
                     \* message left in the inbox, the process killed
    MaxFolds         \* bound: how often the history is folded

ASSUME LoopAssumption ==
    /\ Shapes \subseteq Seq(STRING) /\ <<>> \notin Shapes
    /\ Parallel \in Nat
    /\ {MaxIterations, MaxVerifyRounds, MaxStopBlocks, MaxSalvages, Budget} \subseteq Nat
    /\ KeepLast \in Nat \ {0}
    /\ {MaxRuns, MaxTroubles, MaxFolds} \subseteq Nat

VARIABLES
    history,     \* Agent::messages
    disk,        \* the transcript's lines: messages and folds
    torn,        \* its last line is torn: the next is lost with it
    pc, iter, final,       \* where the loop is; the call is the status answer's
    calls, at,             \* the answer's calls; where the segment starts
    gated,                 \* the segment's verdicts so far: passed or settled
    ran,                   \* the segment's calls: waiting, turn, going, ok, error, settled
    needsCheck, failedChecks, stopBlocks, salvaged, nudged, retried,
    outcome,               \* how the last run ended
    halted, stopped,       \* the owner's guard; the stop flag
    spent,                 \* of the token budget
    runs, troubles, folds,
    \* history
    announced,   \* calls started and not finished, as the events say
    dirty,       \* a file changed since the checks last passed
    lost,        \* messages were lost: a process died in a run, or a line was torn
    unlogged,    \* the last fold is not in the transcript
    ids          \* the calls ever made

counters == <<iter, final, needsCheck, failedChecks, stopBlocks, salvaged, nudged, retried>>
segment == <<calls, at, gated, ran>>
store == <<history, disk, torn>>
signals == <<halted, stopped>>
bounds == <<runs, troubles, folds>>
ghosts == <<announced, dirty, lost,
                   unlogged, ids>>
vars == <<store, pc, counters, segment, outcome, signals, spent, bounds, ghosts>>

Text(role) == [role |-> role, calls |-> <<>>, id |-> 0]
Result(id) == [role |-> "tool", calls |-> <<>>, id |-> id]
Asks(cs) == [role |-> "assistant", calls |-> cs, id |-> 0]
Placeholder(id) == Result(id)

Charge == spent' = spent + 1
Trouble == troubles < MaxTroubles /\ troubles' = troubles + 1

IsResult(m) == m.role = "tool"

Init ==
    /\ history = <<>> /\ disk = <<>> /\ torn = FALSE
    /\ pc = "idle" /\ iter = 0 /\ final = FALSE
    /\ calls = <<>> /\ at = 0 /\ gated = <<>> /\ ran = <<>>
    /\ needsCheck = FALSE /\ failedChecks = 0 /\ stopBlocks = 0 /\ salvaged = 0
    /\ nudged = FALSE /\ retried = FALSE
    /\ outcome = "none"
    /\ halted = FALSE /\ stopped = FALSE
    /\ spent = 0 /\ runs = 0 /\ troubles = 0 /\ folds = 0
    /\ announced = {} /\ dirty = FALSE /\ lost = FALSE /\ unlogged = FALSE /\ ids = 0

-----------------------------------------------------------------------------
(* The history, the transcript and the request *)

\* What the transcript's lines are after these messages: one line each, the first of
\* them lost with a torn one.
Logged(lines) ==
    /\ disk' = disk \o (IF torn /\ lines # <<>> THEN Tail(lines) ELSE lines)
    /\ torn' = (torn /\ lines = <<>>)

Line(m) == [fold |-> FALSE, msg |-> m, kept |-> 0]

\* push, for each message in turn.
Push(ms) ==
    /\ history' = history \o ms
    /\ Logged([i \in DOMAIN ms |-> Line(ms[i])])

\* read_messages, a line on: a fold replaces all but the last `kept` messages.
Reads(out, l) ==
    IF ~l.fold THEN Append(out, l.msg)
    ELSE <<l.msg>> \o (IF l.kept >= Len(out) THEN out
                       ELSE SubSeq(out, Len(out) - l.kept + 1, Len(out)))

Replayed(lines) ==
    LET out[n \in 0..Len(lines)] == IF n = 0 THEN <<>> ELSE Reads(out[n - 1], lines[n])
    IN  out[Len(lines)]

\* answer_rest: a placeholder for every call that has no result.
AnswerRest(acc) == acc.out \o [i \in DOMAIN acc.open |-> Placeholder(acc.open[i])]

Without(open, id) == RemoveAt(open, Min({i \in DOMAIN open : open[i] = id}))

\* paired, a message on: a result without its call is left out.
Pairs(acc, m) ==
    IF ~IsResult(m) THEN [out |-> Append(AnswerRest(acc), m), open |-> m.calls]
    ELSE IF m.id \in Range(acc.open)
         THEN [out |-> Append(acc.out, m), open |-> Without(acc.open, m.id)]
         ELSE acc

Nothing == [out |-> <<>>, open |-> <<>>]

\* A plausible bug, no part of the specification: only results without a call go.
PairedOneWay(ms) ==
    LET step(acc, m) ==
            IF IsResult(m) THEN Pairs(acc, m)
            ELSE [out |-> Append(acc.out, m), open |-> m.calls]
        acc[n \in 0..Len(ms)] == IF n = 0 THEN Nothing ELSE step(acc[n - 1], ms[n])
    IN  acc[Len(ms)].out

\* paired: every call answered right after it, no result without its call.
Paired(ms) ==
    LET acc[n \in 0..Len(ms)] == IF n = 0 THEN Nothing ELSE Pairs(acc[n - 1], ms[n])
    IN  AnswerRest(acc[Len(ms)])

\* fold_point: where the tail of about KeepLast messages starts, never at a result:
\* back to the call, or forward past the results; 0: nothing to fold.
FoldPoint(h) ==
    LET want == Len(h) - KeepLast + 1
        back == Max({1} \cup {i \in 2..want : ~IsResult(h[i])})
        forward == Min({Len(h) + 1} \cup {i \in want..Len(h) : ~IsResult(h[i])})
    IN  IF Len(h) <= KeepLast THEN 0
        ELSE IF back > 1 THEN back
        ELSE IF forward <= Len(h) THEN forward ELSE 0

\* compact: a summary takes the head's place in memory ...
Folded ==
    /\ FoldPoint(history) # 0 /\ Charge
    /\ folds < MaxFolds /\ folds' = folds + 1 /\ UNCHANGED <<runs, troubles>>
    /\ history' = <<Text("user")>> \o SubSeq(history, FoldPoint(history), Len(history))
    /\ unlogged' = TRUE
    /\ pc' = "folded"
    /\ UNCHANGED <<disk, torn>>

\* A plausible bug, no part of the specification: the line says the tail that was asked for.
FoldLoggedAsAsked ==
    /\ pc = "folded" /\ ~halted
    /\ Logged(<<[fold |-> TRUE, msg |-> Head(history), kept |-> KeepLast]>>)
    /\ unlogged' = FALSE
    /\ pc' = "call"
    /\ UNCHANGED <<history, spent, counters, segment, outcome, signals, bounds, announced, dirty,
                   lost, ids>>

\* ... and, once its event was taken, in the transcript.
FoldLogged ==
    /\ pc = "folded" /\ ~halted
    /\ Logged(<<[fold |-> TRUE, msg |-> Head(history), kept |-> Len(history) - 1]>>)
    /\ unlogged' = FALSE
    /\ pc' = "call"
    /\ UNCHANGED <<history, spent, counters, segment, outcome, signals, bounds, announced, dirty,
                   lost, ids>>

-----------------------------------------------------------------------------
(* How a run begins and ends *)

\* The run is over, and its locals are gone.
Over(o) ==
    /\ pc' = "idle" /\ outcome' = o
    /\ calls' = <<>> /\ at' = 0 /\ gated' = <<>> /\ ran' = <<>>
    /\ iter' = 0 /\ final' = FALSE /\ needsCheck' = FALSE /\ failedChecks' = 0
    /\ stopBlocks' = 0 /\ salvaged' = 0 /\ nudged' = FALSE /\ retried' = FALSE

NoSegment == calls' = <<>> /\ at' = 0 /\ gated' = <<>> /\ ran' = <<>>

\* run_inner, up to the loop: the request enters the history.
Begins ==
    /\ pc = "idle" /\ runs < MaxRuns
    /\ runs' = runs + 1
    /\ Push(<<Text("user")>>)
    /\ pc' = "top" /\ outcome' = "none"
    /\ stopped' = FALSE /\ dirty' = FALSE
    /\ UNCHANGED <<spent, counters, segment, halted, troubles, folds, announced, lost, unlogged, ids>>

\* A UserPromptSubmit hook blocks it: it never enters the history.
Blocked ==
    /\ pc = "idle" /\ runs < MaxRuns
    /\ runs' = runs + 1
    /\ outcome' = "incomplete"
    /\ UNCHANGED <<spent, store, pc, counters, segment, signals, troubles, folds, ghosts>>

\* halt: the guard's own words are the answer; no model is asked.
Halt(before) ==
    /\ Push(before \o <<Text("assistant")>>)
    /\ Over("incomplete")

\* What the loop's awaits race against.
HaltsAt(where) ==
    /\ pc = where /\ halted /\ (where = "told" => nudged)
    /\ Halt(<<>>)
    /\ UNCHANGED <<spent, signals, bounds, announced, dirty, lost,
                   unlogged, ids>>

-----------------------------------------------------------------------------
(* The top of the loop, and the model's call *)

Stopped ==
    /\ pc = "top" /\ stopped /\ iter < MaxIterations
    /\ Over("aborted")
    /\ UNCHANGED <<spent, store, signals, bounds, ghosts>>

\* wrap_up: the run can't finish, and asks the model for a status.
WrapsUp ==
    /\ Push(<<Text("user")>>)
    /\ final' = TRUE
    /\ pc' = "compact"

\* The steps, or the token budget, are used up.
UsedUp ==
    /\ pc = "top" /\ ~halted
    /\ iter = MaxIterations \/ (~stopped /\ spent >= Budget)
    /\ WrapsUp
    /\ UNCHANGED <<spent, iter, needsCheck, failedChecks, stopBlocks, salvaged, nudged, retried,
                   segment, outcome, signals, bounds, ghosts>>

\* before_model_call lets it; what the inbox holds goes in first.
GoesOn ==
    /\ pc = "top" /\ ~stopped /\ ~halted /\ iter < MaxIterations /\ spent < Budget
    /\ \/ Push(<<>>) /\ UNCHANGED troubles
       \/ Push(<<Text("user")>>) /\ Trouble
    /\ pc' = "compact" /\ retried' = FALSE
    /\ UNCHANGED <<spent, iter, final, needsCheck, failedChecks, stopBlocks, salvaged, nudged,
                   segment, outcome, signals, runs, folds, ghosts>>

\* maybe_compact, and the request is sent.
Sends ==
    /\ pc = "compact" /\ ~halted
    /\ Folded \/ (pc' = "call" /\ UNCHANGED <<store, spent, bounds, unlogged>>)
    /\ UNCHANGED <<counters, segment, outcome, signals, announced, dirty, lost, ids>>

\* The context is too long: one compaction, and the call once more.
TooLong ==
    /\ pc = "call" /\ ~halted /\ ~retried
    /\ Folded
    /\ retried' = TRUE
    /\ UNCHANGED <<iter, final, needsCheck, failedChecks, stopBlocks, salvaged, nudged,
                   segment, outcome, signals, announced, dirty, lost, ids>>

\* The call fails for good.
Fails ==
    /\ pc = "call" /\ ~halted
    /\ Over("failed")
    /\ UNCHANGED <<spent, store, signals, bounds, ghosts>>

\* The status answer: its calls are dropped.
AnswersStatus ==
    /\ pc = "call" /\ ~halted /\ Charge /\ final
    /\ Push(<<Text("assistant")>>)
    /\ Over("incomplete")
    /\ UNCHANGED <<signals, bounds, ghosts>>

\* The model calls tools, or writes them as text, which is salvaged a few times.
AnswersCalls(shape) ==
    /\ pc = "call" /\ ~halted /\ Charge /\ ~final
    /\ calls' = [i \in DOMAIN shape |-> [id |-> ids + i, kind |-> shape[i]]]
    /\ ids' = ids + Len(shape)
    /\ Push(<<Asks([i \in DOMAIN shape |-> ids + i])>>)
    /\ at' = 1 /\ gated' = <<>> /\ ran' = <<>>
    /\ pc' = "gate"
    /\ salvaged' \in {salvaged} \cup {n \in {salvaged + 1} : n <= MaxSalvages}
    /\ UNCHANGED <<iter, final, needsCheck, failedChecks, stopBlocks, nudged, retried,
                   outcome, signals, bounds, announced, dirty, lost, unlogged>>

\* A call written as text that will not parse: the model is told, a few times.
AnswersGarbled ==
    /\ pc = "call" /\ ~halted /\ Charge /\ ~final /\ salvaged < MaxSalvages
    /\ salvaged' = salvaged + 1
    /\ Push(<<Text("assistant"), Text("user")>>)
    /\ iter' = iter + 1 /\ pc' = "top"
    /\ UNCHANGED <<final, needsCheck, failedChecks, stopBlocks, nudged, retried, segment,
                   outcome, signals, bounds, ghosts>>

AnswersText ==
    /\ pc = "call" /\ ~halted /\ Charge /\ ~final
    /\ Push(<<Text("assistant")>>)
    /\ pc' = IF needsCheck THEN "check" ELSE "stop"
    /\ UNCHANGED <<counters, segment, outcome, signals, bounds, ghosts>>

-----------------------------------------------------------------------------
(* The finish *)

ChecksPass ==
    /\ pc = "check" /\ ~halted
    /\ needsCheck' = FALSE /\ dirty' = FALSE
    /\ pc' = "stop"
    /\ UNCHANGED <<spent, store, iter, final, failedChecks, stopBlocks, salvaged, nudged, retried,
                   segment, outcome, signals, bounds, announced, lost, unlogged, ids>>

\* The finish is sent back, or, too often, the run wraps up.
SentBack(tooOften) ==
    /\ Push(<<Text("user")>>)
    /\ final' = tooOften
    /\ iter' = IF tooOften THEN iter ELSE iter + 1
    /\ pc' = IF tooOften THEN "compact" ELSE "top"

ChecksFail ==
    /\ pc = "check" /\ ~halted
    /\ failedChecks' = failedChecks + 1
    /\ SentBack(failedChecks' > MaxVerifyRounds)
    /\ UNCHANGED <<spent, needsCheck, stopBlocks, salvaged, nudged, retried, segment, outcome,
                   signals, bounds, ghosts>>

StopHookBlocks ==
    /\ pc = "stop" /\ ~halted
    /\ stopBlocks' = stopBlocks + 1
    /\ SentBack(stopBlocks' > MaxStopBlocks)
    /\ UNCHANGED <<spent, needsCheck, failedChecks, salvaged, nudged, retried, segment, outcome,
                   signals, bounds, ghosts>>

\* The run is over; an answer cut off or empty is incomplete.
Finishes ==
    /\ pc = "stop" /\ ~halted
    /\ Over("finished") \/ Over("incomplete")
    /\ UNCHANGED <<spent, store, signals, bounds, ghosts>>

-----------------------------------------------------------------------------
(* The calls, a segment at a time *)

\* segment_end: past every read-only call that follows, one call otherwise.
SegmentEnd ==
    IF Parallel <= 1 \/ calls[at].kind \notin ReadOnly THEN at
    ELSE Max({e \in at..Len(calls) : \A i \in at..e : calls[i].kind \in ReadOnly})

SegLen == SegmentEnd - at + 1
Seg(i) == calls[at + i - 1]
SegIds(a, b) == {Seg(i).id : i \in a..b}

\* The "not run" results of the calls from the i-th on.
NotRun(i) == [j \in 1..(Len(calls) - i + 1) |-> Result(calls[i + j - 1].id)]

\* abandon_rest: these results, then the rest's, and the run is over: halted ...
AbandonHalted(results, from, finished) ==
    /\ announced' = announced \ finished
    /\ Halt(results \o NotRun(from))

\* ... or stopped.
AbandonStopped(results, from, finished) ==
    /\ announced' = announced \ finished
    /\ Push(results \o NotRun(from))
    /\ Over("aborted")

\* The stop flag, looked at before each call is gated.
GateStops ==
    /\ pc = "gate" /\ stopped
    /\ AbandonStopped(<<>>, at, SegIds(1, Len(gated)))
    /\ UNCHANGED <<spent, signals, bounds, dirty, lost,
                   unlogged, ids>>

\* gate: the call is announced ...
Announces ==
    /\ pc = "gate" /\ ~stopped
    /\ announced' = announced \cup {Seg(Len(gated) + 1).id}
    /\ pc' = "asked"
    /\ UNCHANGED <<spent, store, counters, segment, outcome, signals, bounds, dirty, lost,
                   unlogged, ids>>

\* A plausible bug, no part of the specification: the call being asked about is left out.
GateHaltsShort ==
    /\ pc = "asked" /\ halted
    /\ AbandonHalted(<<>>, at, SegIds(1, Len(gated)))
    /\ UNCHANGED <<spent, signals, bounds, dirty, lost,
                   unlogged, ids>>

\* ... a halt ends the wait for the guard or a hook ...
GateHalts ==
    /\ pc = "asked" /\ halted
    /\ AbandonHalted(<<>>, at, SegIds(1, Len(gated) + 1))
    /\ UNCHANGED <<spent, signals, bounds, dirty, lost,
                   unlogged, ids>>

\* ... and the guard and the PreToolUse hooks pass it, or settle it.
Gates ==
    /\ pc = "asked" /\ ~halted
    /\ \E v \in {"passed", "settled"} : gated' = Append(gated, v)
    /\ IF Len(gated') < SegLen THEN pc' = "gate" /\ UNCHANGED ran
       ELSE /\ pc' = "run"
            /\ ran' = [i \in 1..SegLen |-> IF gated'[i] = "settled" THEN "settled" ELSE "waiting"]
    /\ UNCHANGED <<spent, store, counters, calls, at, outcome, signals, bounds, ghosts>>

InGroup(i) == Seg(i).kind \in Serial

\* A plausible bug, no part of the specification: the turn is never handed on.
TakesTurnForGood(i) ==
    /\ pc = "run" /\ i \in DOMAIN ran /\ ran[i] = "waiting"
    /\ InGroup(i) => \A j \in DOMAIN ran : InGroup(j) => ran[j] \in {"waiting", "settled"}
    /\ ran' = [ran EXCEPT ![i] = "turn"]
    /\ UNCHANGED <<spent, store, pc, counters, calls, at, gated, outcome, signals, bounds,
                   ghosts>>

\* A call takes its serial group's turn, then a slot (run_one: both free) ...
TakesTurn(i) ==
    /\ pc = "run" /\ i \in DOMAIN ran /\ ran[i] = "waiting"
    /\ InGroup(i) => \A j \in DOMAIN ran : InGroup(j) => ran[j] \notin {"turn", "going"}
    /\ ran' = [ran EXCEPT ![i] = "turn"]
    /\ UNCHANGED <<spent, store, pc, counters, calls, at, gated, outcome, signals, bounds,
                   ghosts>>

TakesSlot(i) ==
    /\ pc = "run" /\ i \in DOMAIN ran /\ ran[i] = "turn"
    /\ Cardinality({j \in DOMAIN ran : ran[j] = "going"}) < Max({Parallel, 1})
    /\ ran' = [ran EXCEPT ![i] = "going"]
    /\ UNCHANGED <<spent, store, pc, counters, calls, at, gated, outcome, signals, bounds,
                   ghosts>>

\* ... and ends, well or not.
CallEnds(i) ==
    /\ pc = "run" /\ i \in DOMAIN ran /\ ran[i] = "going"
    /\ \E r \in {"ok", "error"} : ran' = [ran EXCEPT ![i] = r]
    /\ UNCHANGED <<spent, store, pc, counters, calls, at, gated, outcome, signals, bounds,
                   ghosts>>

Done(i) == ran[i] \in {"ok", "error", "settled"}

\* A plausible bug, no part of the specification: what did not finish gets no result.
RunCutDropping ==
    /\ pc = "run" /\ \E i \in DOMAIN ran : ~Done(i)
    /\ LET some == SelectSeq([i \in 1..SegLen |-> i], Done)
           results == [i \in DOMAIN some |-> Result(Seg(some[i]).id)] IN
        \/ halted /\ AbandonHalted(results, SegmentEnd + 1, SegIds(1, SegLen))
        \/ stopped /\ SegLen > 1 /\ AbandonStopped(results, SegmentEnd + 1, SegIds(1, SegLen))
    /\ UNCHANGED <<spent, signals, bounds, dirty, lost,
                   unlogged, ids>>

\* A halt, or (side by side) the stop flag, cuts the segment short: what finished keeps
\* its result, the rest is "not run".
RunCut ==
    /\ pc = "run" /\ \E i \in DOMAIN ran : ~Done(i)
    /\ LET results == [i \in 1..SegLen |-> Result(Seg(i).id)] IN
        \/ halted /\ AbandonHalted(results, SegmentEnd + 1, SegIds(1, SegLen))
        \/ stopped /\ SegLen > 1 /\ AbandonStopped(results, SegmentEnd + 1, SegIds(1, SegLen))
    /\ UNCHANGED <<spent, signals, bounds, dirty, lost,
                   unlogged, ids>>

\* The segment ran: its results are taken in the order asked.
RunEnded ==
    /\ pc = "run" /\ \A i \in DOMAIN ran : Done(i)
    /\ pc' = "post"
    /\ UNCHANGED <<spent, store, counters, segment, outcome, signals, bounds, ghosts>>

\* The call whose result is next, `ran` shrinking from the front.
Answered == calls[at]

Changed == Head(ran) = "ok" /\ Answered.kind \notin ReadOnly

\* A plausible bug, no part of the specification: a change asks for no new check.
TakesUnchecked ==
    /\ pc = "post" /\ (halted => Head(ran) = "settled")
    /\ Push(<<Result(Answered.id)>>)
    /\ announced' = announced \ {Answered.id}
    /\ dirty' = (dirty \/ Changed)
    /\ at' = at + 1 /\ ran' = Tail(ran)
    /\ IF ran' # <<>> THEN pc' = "post" /\ UNCHANGED gated
       ELSE gated' = <<>> /\ pc' = IF at' <= Len(calls) THEN "gate" ELSE "told"
    /\ UNCHANGED <<spent, counters, calls, outcome, signals, bounds, lost, unlogged, ids>>

\* A result, with its PostToolUse hooks, which follow only a call that was reached.
Takes ==
    /\ pc = "post" /\ (halted => Head(ran) = "settled")
    /\ Push(<<Result(Answered.id)>>)
    /\ announced' = announced \ {Answered.id}
    /\ needsCheck' = (needsCheck \/ Changed)
    /\ dirty' = (dirty \/ Changed)
    /\ at' = at + 1 /\ ran' = Tail(ran)
    /\ IF ran' # <<>> THEN pc' = "post" /\ UNCHANGED gated
       ELSE gated' = <<>> /\ pc' = IF at' <= Len(calls) THEN "gate" ELSE "told"
    /\ UNCHANGED <<spent, iter, final, failedChecks, stopBlocks, salvaged, nudged, retried, calls,
                   outcome, signals, bounds, lost, unlogged, ids>>

\* A halt in those hooks: the rest of the segment, though it ran, counts as not run.
PostHalts ==
    /\ pc = "post" /\ halted /\ Head(ran) # "settled"
    /\ dirty' = (dirty \/ Changed)
    /\ AbandonHalted(<<Result(Answered.id)>>, at + 1, {calls[i].id : i \in at..(at + Len(ran) - 1)})
    /\ UNCHANGED <<spent, signals, bounds, lost, unlogged, ids>>

\* Every result is in: the loop goes round ...
TurnEnds ==
    /\ pc = "told"
    /\ iter' = iter + 1 /\ pc' = "top"
    /\ NoSegment
    /\ UNCHANGED <<spent, store, final, needsCheck, failedChecks, stopBlocks, salvaged, nudged,
                   retried, outcome, signals, bounds, ghosts>>

\* ... after a word to a model that goes in circles; the second time that ends the run.
Stuck ==
    /\ pc = "told"
    /\ \/ ~nudged /\ Push(<<Text("user")>>)
          /\ nudged' = TRUE /\ iter' = iter + 1 /\ pc' = "top" /\ UNCHANGED final
       \/ nudged /\ ~halted /\ WrapsUp /\ UNCHANGED <<nudged, iter>>
    /\ NoSegment
    /\ UNCHANGED <<spent, needsCheck, failedChecks, stopBlocks, salvaged, retried, outcome, signals,
                   bounds, ghosts>>

-----------------------------------------------------------------------------
(* The world *)

Flips ==
    /\ Trouble
    /\ \/ halted' = ~halted /\ UNCHANGED stopped
       \/ ~stopped /\ pc # "idle" /\ stopped' = TRUE /\ UNCHANGED halted
    /\ UNCHANGED <<spent, store, pc, counters, segment, outcome, runs, folds, ghosts>>

\* The process dies (or the lane's task is aborted), in the middle of a line or not;
\* the next one replays the transcript.
Dies ==
    /\ Trouble
    /\ torn' \in IF pc = "idle" THEN {torn} ELSE {torn, TRUE}
    /\ history' = Replayed(disk)
    /\ lost' = (lost \/ pc # "idle")
    /\ Over("none")
    /\ announced' = {} /\ unlogged' = FALSE
    /\ UNCHANGED <<spent, disk, signals, runs, folds, dirty, ids>>

-----------------------------------------------------------------------------

Asking == Sends \/ FoldLogged \/ TooLong \/ Fails \/ AnswersStatus \/ AnswersGarbled \/ AnswersText
             \/ \E s \in Shapes : AnswersCalls(s)
Finishing == ChecksPass \/ ChecksFail \/ StopHookBlocks \/ Finishes
Calling ==
    \/ GateStops \/ Announces \/ GateHalts \/ Gates \/ RunCut \/ RunEnded
    \/ \E i \in DOMAIN ran : TakesTurn(i) \/ TakesSlot(i) \/ CallEnds(i)
    \/ Takes \/ PostHalts \/ TurnEnds \/ Stuck
Halting == \E where \in {"top", "compact", "folded", "call", "check", "stop", "told"} :
                HaltsAt(where)

Loop == Stopped \/ UsedUp \/ GoesOn \/ Asking \/ Finishing \/ Calling \/ Halting

Next == Begins \/ Blocked \/ Loop \/ Flips \/ Dies

Spec == Init /\ [][Next]_vars

\* A model call returns or fails, a tool or a hook ends or is cut.
FairSpec == Spec /\ WF_vars(Loop)

-----------------------------------------------------------------------------
(* Properties *)

Pcs == {"idle", "top", "compact", "folded", "call", "check", "stop", "gate", "asked", "run", "post",
        "told"}
Messages == [role : {"user", "assistant", "tool"}, calls : Seq(Nat), id : Nat]

\* One type per variable.
TypeOK ==
    /\ history \in Seq(Messages)
    /\ disk \in Seq([fold : BOOLEAN, msg : Messages, kept : Nat]) /\ torn \in BOOLEAN
    /\ pc \in Pcs /\ iter \in 0..MaxIterations /\ final \in BOOLEAN
    /\ calls \in Seq([id : Nat, kind : STRING]) /\ at \in 0..(Len(calls) + 1)
    /\ gated \in Seq({"passed", "settled"})
    /\ ran \in Seq({"waiting", "turn", "going", "ok", "error", "settled"})
    /\ needsCheck \in BOOLEAN /\ nudged \in BOOLEAN /\ retried \in BOOLEAN
    /\ failedChecks \in 0..(MaxVerifyRounds + 1) /\ stopBlocks \in 0..(MaxStopBlocks + 1)
    /\ salvaged \in 0..MaxSalvages
    /\ outcome \in {"none", "finished", "incomplete", "aborted", "failed"}
    /\ halted \in BOOLEAN /\ stopped \in BOOLEAN
    /\ spent \in Nat /\ runs \in 0..MaxRuns /\ troubles \in 0..MaxTroubles /\ folds \in 0..MaxFolds
    /\ announced \subseteq 1..ids /\ ids \in Nat /\ dirty \in BOOLEAN
    /\ lost \in BOOLEAN /\ unlogged \in BOOLEAN

\* The results right after the i-th message.
ResultsAfter(ms, i) ==
    LET next == Min({Len(ms) + 1} \cup {j \in (i + 1)..Len(ms) : ~IsResult(ms[j])})
    IN  [k \in 1..(next - i - 1) |-> ms[i + k].id]

\* Wherever a run is interrupted, and whatever was folded, the history of a process
\* has every call answered right after it, once, in the order asked: the request is
\* the history itself, and `paired` has nothing to repair.
AnsweredInOrder ==
    ~lost /\ pc \in {"idle", "top", "compact", "folded", "call", "check", "stop"} =>
        \A i \in DOMAIN history :
            ~IsResult(history[i]) => ResultsAfter(history, i) = history[i].calls

\* "Providers refuse either orphan": even after a crash in a run, a torn line and folds
\* of what was left, a request has every call answered once right after it, and no
\* other result.
RequestPaired ==
    pc = "call" =>
        LET request == Paired(history) IN
        \A i \in DOMAIN request :
            ~IsResult(request[i]) =>
                LET results == ResultsAfter(request, i) IN
                /\ Range(results) = Range(request[i].calls)
                /\ Len(results) = Len(request[i].calls)

\* What the transcript replays is the history in memory, as long as no line was lost: a
\* fold that is not in the transcript makes the two differ only until the next one.
ReplaysToHistory == ~lost /\ ~unlogged => Replayed(disk) = history

\* Whatever ended the run, every call that was announced was also finished.
AnnouncedFinished == pc = "idle" => announced = {}

\* A run ends as finished only when the checks passed after its last change.
FinishedIsChecked == outcome = "finished" => ~dirty

\* A run ends: its steps are bounded, and so are the finishes sent back.
RunEnds == pc # "idle" ~> pc = "idle"
=============================================================================
