----------------------------- MODULE Approvals -----------------------------
(***************************************************************************)
(* The approval gates of ferrule-trust: one run tree (a root agent and its *)
(* sub-agents), the questions its guard asks the owner, and the owner.     *)
(*                                                                         *)
(* A gated call goes ahead on a grant of its run, on a standing grant, or  *)
(* on a yes to the question it opens.  A question has a short code; the    *)
(* owner answers by the buttons of the message that carries it, by a bare  *)
(* word, on the dashboard, or not at all, while messages fail to be sent,  *)
(* waits time out, runs begin and are halted, and the bot restarts.        *)
(*                                                                         *)
(* Steps are the critical sections of `Approvals` and of the hub's runs;   *)
(* a guard's bookkeeping after an answer (let_through, denied) belongs to  *)
(* the step that takes the answer.  What makes a call gated is data here:  *)
(* the agents make gated calls only.                                       *)
(***************************************************************************)
EXTENDS Integers, Sequences, FiniteSets, SequencesExt

CONSTANTS
    Root, Children,  \* the agents of the tree
    Subjects,        \* what a gated call is about: its command and kind
    ForRun,          \* the subjects `always` is offered for (shell commands)
    Keep,            \* the subjects `remember` is offered for
    NChats,          \* the chats a question is tried in, in this order
    Codes,
    InARow, InARun,  \* DENIALS_IN_A_ROW, DENIALS_IN_A_RUN
    Routes,          \* the routes the tree may have been given
    Words,           \* the words the owner uses
    Stops,           \* the processes that may turn the switch on
    MaxQuestions, MaxRuns, MaxRestarts   \* bounds

Agents == {Root} \cup Children
Chats == 1..NChats
Questions == 1..MaxQuestions
Yes == {"yes", "always", "remember"}

ASSUME ApprovalsAssumption ==
    /\ Root \notin Children
    /\ ForRun \subseteq Subjects /\ Keep \subseteq Subjects
    /\ {NChats, InARow, InARun} \subseteq Nat \ {0}
    /\ {MaxQuestions, MaxRuns, MaxRestarts} \subseteq Nat
    /\ Routes \subseteq {"owner", "terminal", "unattended"}
    /\ Words \subseteq Yes \cup {"no"}
    /\ Stops \subseteq {"here", "elsewhere"}

VARIABLES
    route,       \* TrustGuard.route
    pc, call,    \* per agent: where its loop is, and the call it makes
    on,          \* per agent: the question it waits for
    \* RunState of the tree
    run, granted, streak, total, escalated,
    standing,    \* Grants: the subjects allowed from now on (a file)
    stop,        \* the kill switch (a file), and which process turned it on
    \* Approvals.inner
    q,           \* every question opened: [agent, subject, chat, code, run]
    pending, expired, used,
    answer,      \* per question: what its oneshot channel holds
    shown,       \* the questions whose message is in the owner's chat
    restarts,
    \* history
    word,        \* per question: the word the owner meant for it
    basis        \* per agent: on what the call it runs went ahead

runState == <<run, granted, streak, total, escalated>>
approvals == <<q, pending, expired, used, answer>>
history == <<word, basis>>
vars == <<route, pc, call, on, runState, standing, stop, approvals, shown, restarts,
          history>>

NoCall == "none"
Nothing == [on |-> "nothing", id |-> 0, run |-> 0]

\* One type per variable.
TypeOK ==
    /\ route \in Routes
    /\ pc \in [Agents -> {"out", "ready", "called", "asking", "prompt", "sending",
                          "waiting", "late", "running"}]
    /\ call \in [Agents -> Subjects \cup {NoCall}]
    /\ on \in [Agents -> 0..MaxQuestions]
    /\ run \in 0..MaxRuns /\ granted \subseteq ForRun
    /\ streak \in 0..total /\ total \in Nat /\ escalated \in BOOLEAN
    /\ standing \subseteq Keep
    /\ stop \in {"off", "here", "elsewhere"}
    /\ q \in Seq([agent : Agents, subject : Subjects, chat : Chats, code : Codes,
                  run : 0..MaxRuns])
    /\ Len(q) <= MaxQuestions
    /\ pending \subseteq DOMAIN q
    /\ expired \in Seq(DOMAIN q) /\ used \in Seq(DOMAIN q)
    /\ answer \in [Questions -> {"none", "no"} \cup Yes]
    /\ shown \subseteq DOMAIN q
    /\ restarts \in 0..MaxRestarts
    /\ word \in [Questions -> {"none", "no"} \cup Yes]

Init ==
    /\ route \in Routes
    /\ pc = [a \in Agents |-> "out"] /\ on = [a \in Agents |-> 0]
    /\ call = [a \in Agents |-> NoCall]
    /\ run = 0 /\ granted = {} /\ streak = 0 /\ total = 0 /\ escalated = FALSE
    /\ standing = {} /\ stop = "off"
    /\ q = <<>> /\ pending = {} /\ expired = <<>> /\ used = <<>>
    /\ answer = [i \in Questions |-> "none"]
    /\ shown = {} /\ restarts = 0
    /\ word = [i \in Questions |-> "none"] /\ basis = [a \in Agents |-> Nothing]

Goto(a, p) == pc' = [pc EXCEPT ![a] = p]

\* The call is over: on to the next model call, or out of the run.
Leaves(a, p) ==
    /\ Goto(a, p)
    /\ call' = [call EXCEPT ![a] = NoCall]
    /\ on' = [on EXCEPT ![a] = 0]

\* What is left of a list whose front entries are too old to be kept.
Aged(list) == {SubSeq(list, k, Len(list)) : k \in 1..(Len(list) + 1)}

Code(i) == q[i].code
Remembered == pending \cup ToSet(expired) \cup ToSet(used)

-----------------------------------------------------------------------------
(* Approvals *)

\* open_for: the question's code is no other's that is pending, expired or used;
\* answered codes are kept for an hour.
OpensQuestion(a, chat) ==
    /\ Len(q) < MaxQuestions
    /\ used' \in Aged(used)
    /\ \E c \in Codes :
        /\ c \notin {Code(i) : i \in pending \cup ToSet(expired) \cup ToSet(used')}
        /\ q' = Append(q, [agent |-> a, subject |-> call[a], chat |-> chat, code |-> c,
                           run |-> IF on[a] = 0 THEN run ELSE q[on[a]].run])
    /\ on' = [on EXCEPT ![a] = Len(q')]
    /\ Goto(a, "sending")

\* withdraw: a question still pending becomes an expired one; expired codes are
\* kept for a day.
\* (The receiver goes with it, and what it held.)
Withdraws(i) ==
    /\ expired' \in Aged(IF i \in pending THEN Append(expired, i) ELSE expired)
    /\ answer' = [answer EXCEPT ![i] = "none"]

Here(chat) == {i \in pending : q[i].chat = chat}
Named(chat, c) == {i \in Here(chat) : Code(i) = c}
AnsweredBefore(chat, c) == \E i \in ToSet(used) : Code(i) = c /\ q[i].chat = chat

\* answer_from: the questions a word settles.  c: the code it came with, or none.
Settles(chat, w, c, byOwner) ==
    IF ~byOwner \/ (c # {} /\ \E k \in c : AnsweredBefore(chat, k)) THEN {}
    ELSE IF c # {} THEN UNION {Named(chat, k) : k \in c}
    ELSE IF w \notin Yes THEN Here(chat)
    ELSE {i \in Here(chat) : Here(chat) = {i}}

\* approve: a yes reaches as far as the word and the question's offer go.
Reach(i, w) ==
    CASE w = "remember" /\ q[i].subject \in Keep -> "remember"
      [] w \in {"always", "remember"} /\ q[i].subject \in ForRun
            /\ ~(w = "remember" /\ q[i].subject \in Keep) -> "always"
      [] w = "no" -> "no"
      [] OTHER -> "yes"

\* take and send: the questions are answered, the last first, and their codes used.
Answers(I, w) ==
    /\ pending' = pending \ I
    /\ \E s \in SetToSeqs(I) :
        /\ \A m, n \in DOMAIN s : m < n => s[m] > s[n]
        /\ used' = used \o s
    /\ answer' = [i \in Questions |-> IF i \in I THEN Reach(i, w) ELSE answer[i]]
    /\ UNCHANGED <<q, expired>>

-----------------------------------------------------------------------------
(* The run state of the tree *)

Denies ==
    /\ streak' = streak + 1 /\ total' = total + 1
    /\ escalated' = (escalated \/ streak' >= InARow \/ total' >= InARun)
    /\ UNCHANGED <<run, granted>>

\* let_through, and what the call went ahead on.
LetsThrough(a, what) ==
    /\ streak' = 0
    /\ basis' = [basis EXCEPT ![a] = what]
    /\ on' = [on EXCEPT ![a] = 0]
    /\ Goto(a, "running")
    /\ UNCHANGED <<call, run, total, escalated, word>>

\* A run of the root starts from nothing; a sub-agent joins the tree's run.
Begins(a) ==
    /\ pc[a] = "out"
    /\ \/ /\ a = Root /\ run < MaxRuns
          /\ run' = run + 1 /\ granted' = {}
          /\ streak' = 0 /\ total' = 0 /\ escalated' = FALSE
       \/ /\ a \in Children /\ run > 0
          /\ UNCHANGED runState
    /\ Goto(a, "ready")
    /\ UNCHANGED <<route, call, on, standing, stop, approvals, shown, restarts, history>>

\* A plausible bug, no part of the specification: a run that
\* was stopped goes on.
CallsEscalated(a) ==
    /\ pc[a] = "ready"
    /\ \/ stop = "off" /\ Goto(a, "called")
             /\ \E s \in Subjects : call' = [call EXCEPT ![a] = s]
       \/ Goto(a, "out") /\ UNCHANGED call
    /\ UNCHANGED <<route, on, runState, standing, stop, approvals, shown, restarts, history>>

\* A plausible bug, no part of the specification: the kill
\* switch is not asked about.
CallsStopped(a) ==
    /\ pc[a] = "ready"
    /\ \/ ~escalated /\ Goto(a, "called")
             /\ \E s \in Subjects : call' = [call EXCEPT ![a] = s]
       \/ Goto(a, "out") /\ UNCHANGED call
    /\ UNCHANGED <<route, on, runState, standing, stop, approvals, shown, restarts, history>>

\* before_model_call: too many refusals or the kill switch end the run; else the
\* model asks for a gated call, or is done.
CallsModel(a) ==
    /\ pc[a] = "ready"
    /\ \/ ~escalated /\ stop = "off" /\ Goto(a, "called")
             /\ \E s \in Subjects : call' = [call EXCEPT ![a] = s]
       \/ Goto(a, "out") /\ UNCHANGED call
    /\ UNCHANGED <<route, on, runState, standing, stop, approvals, shown, restarts, history>>

-----------------------------------------------------------------------------
(* TrustGuard::ask *)

\* A grant of the run, then a standing one.
OnGrant(a) ==
    /\ pc[a] = "called" /\ stop = "off" /\ call[a] \in granted
    /\ LetsThrough(a, [on |-> "grant", id |-> call[a], run |-> run])
    /\ UNCHANGED <<route, granted, standing, stop, approvals, shown, restarts>>

OnStanding(a) ==
    /\ pc[a] = "called" /\ stop = "off" /\ call[a] \in standing \ granted
    /\ LetsThrough(a, [on |-> "standing", id |-> call[a], run |-> run])
    /\ UNCHANGED <<route, granted, standing, stop, approvals, shown, restarts>>

\* Without one: refused in a run that was stopped, or when nobody can be asked;
\* asked about at the terminal or in the owner's chat otherwise.
Asks(a) ==
    /\ pc[a] = "called" /\ stop = "off" /\ call[a] \notin granted \cup standing
    /\ \/ escalated /\ Leaves(a, "ready") /\ UNCHANGED runState
       \/ ~escalated /\ route = "unattended" /\ Leaves(a, "ready") /\ Denies
       \/ ~escalated /\ route = "terminal" /\ Goto(a, "prompt") /\ UNCHANGED <<call, on, runState>>
       \/ ~escalated /\ route = "owner" /\ Goto(a, "asking") /\ UNCHANGED <<call, on, runState>>
             /\ Len(q) + Cardinality({b \in Agents : pc[b] = "asking"}) < MaxQuestions
    /\ UNCHANGED <<route, standing, stop, approvals, shown, restarts, history>>

\* ask_terminal: one line is read.
TerminalAnswers(a) ==
    /\ pc[a] = "prompt"
    /\ \/ LetsThrough(a, [on |-> "terminal", id |-> call[a], run |-> run])
             /\ UNCHANGED granted
       \/ Denies /\ Leaves(a, "ready") /\ UNCHANGED history
    /\ UNCHANGED <<route, standing, stop, approvals, shown, restarts>>

\* Hub::ask reads the run's id and opens its question for the first chat.
AsksOwner(a) ==
    /\ pc[a] = "asking"
    /\ OpensQuestion(a, 1)
    /\ pending' = pending \cup {Len(q')}
    /\ UNCHANGED <<route, call, runState, standing, stop, expired, answer, shown, restarts,
                   history>>

\* The message reaches the chat while send_choices is awaited, ...
Delivered(a) ==
    /\ pc[a] = "sending" /\ on[a] \notin shown
    /\ shown' = shown \cup {on[a]}
    /\ UNCHANGED <<route, pc, call, on, runState, standing, stop, approvals, restarts,
                   history>>

\* ... which then returns, ...
Sent(a) ==
    /\ pc[a] = "sending" /\ on[a] \in shown
    /\ Goto(a, "waiting")
    /\ UNCHANGED <<route, call, on, runState, standing, stop, approvals, shown, restarts,
                   history>>

\* A plausible bug, no part of the specification: the
\* question nobody was sent stays open.
SendFailsForgets(a) ==
    /\ pc[a] = "sending"
    /\ LET i == on[a] IN
        \/ /\ q[i].chat < NChats
           /\ Withdraws(i)
           /\ OpensQuestion(a, q[i].chat + 1)
           /\ pending' = (pending \ {i}) \cup {Len(q')}
           /\ UNCHANGED <<call, runState>>
        \/ /\ q[i].chat = NChats
           /\ Withdraws(i) /\ Denies
           /\ UNCHANGED pending
           /\ Leaves(a, "ready")
           /\ UNCHANGED <<q, used>>
    /\ UNCHANGED <<route, standing, stop, shown, restarts, history>>

\* ... or fails, delivered or not: the question is withdrawn, and another opened
\* for the next chat, if there is one.
SendFails(a) ==
    /\ pc[a] = "sending"
    /\ LET i == on[a] IN
        \/ /\ q[i].chat < NChats
           /\ Withdraws(i)
           /\ OpensQuestion(a, q[i].chat + 1)
           /\ pending' = (pending \ {i}) \cup {Len(q')}
           /\ UNCHANGED <<call, runState>>
        \/ /\ q[i].chat = NChats
           /\ Withdraws(i) /\ Denies
           /\ pending' = pending \ {i}
           /\ Leaves(a, "ready")
           /\ UNCHANGED <<q, used>>
    /\ UNCHANGED <<route, standing, stop, shown, restarts, history>>

\* A plausible bug, no part of the specification: the grant
\* goes to whichever run there is.
GrantsAnyRun(a) ==
    /\ pc[a] = "waiting" /\ stop # "here" /\ answer[on[a]] # "none"
    /\ LET i == on[a] w == answer[i] IN
        /\ Withdraws(i)
        /\ pending' = pending \ {i}
        /\ \/ /\ w \in Yes
              /\ LetsThrough(a, [on |-> "question", id |-> i, run |-> run])
              /\ granted' = IF w = "always" THEN granted \cup {q[i].subject}
                            ELSE granted
              /\ standing' = IF w = "remember" THEN standing \cup {q[i].subject} ELSE standing
           \/ /\ w = "no"
              /\ Denies /\ Leaves(a, "ready")
              /\ UNCHANGED <<standing, history>>
    /\ UNCHANGED <<route, stop, q, used, shown, restarts>>

\* The wait ends with the answer: an `always` grants only in the run that asked, a
\* `remember` is kept.  A switch turned on in this process wins over the answer.
TakesAnswer(a) ==
    /\ pc[a] = "waiting" /\ stop # "here" /\ answer[on[a]] # "none"
    /\ LET i == on[a] w == answer[i] IN
        /\ Withdraws(i)
        /\ pending' = pending \ {i}
        /\ \/ /\ w \in Yes
              /\ LetsThrough(a, [on |-> "question", id |-> i, run |-> run])
              /\ granted' = IF w = "always" /\ q[i].run = run THEN granted \cup {q[i].subject}
                            ELSE granted
              /\ standing' = IF w = "remember" THEN standing \cup {q[i].subject} ELSE standing
           \/ /\ w = "no"
              /\ Denies /\ Leaves(a, "ready")
              /\ UNCHANGED <<standing, history>>
    /\ UNCHANGED <<route, stop, q, used, shown, restarts>>

\* The timer fires with nothing in the channel; an answer may still come before
\* the question is withdrawn, and is not read.
TimesOut(a) ==
    /\ pc[a] = "waiting" /\ answer[on[a]] = "none"
    /\ Goto(a, "late")
    /\ UNCHANGED <<route, call, on, runState, standing, stop, approvals, shown, restarts,
                   history>>

TimedOut(a) ==
    /\ pc[a] = "late"
    /\ Withdraws(on[a]) /\ Denies
    /\ pending' = pending \ {on[a]}
    /\ Leaves(a, "ready")
    /\ UNCHANGED <<route, standing, stop, q, used, shown, restarts, history>>

ToolEnds(a) ==
    /\ pc[a] = "running"
    /\ Leaves(a, "ready")
    /\ basis' = [basis EXCEPT ![a] = Nothing]
    /\ UNCHANGED <<route, runState, standing, stop, approvals, shown, restarts, word>>

\* A plausible bug, no part of the specification: a dropped
\* wait does not withdraw its question.
HaltsSilently(a) ==
    /\ pc[a] \in {"called", "prompt", "sending", "waiting", "running"}
    /\ IF on[a] = 0 THEN UNCHANGED <<expired, answer>> ELSE Withdraws(on[a])
    /\ UNCHANGED pending
    /\ Leaves(a, "out")
    /\ basis' = [basis EXCEPT ![a] = Nothing]
    /\ UNCHANGED <<route, runState, standing, stop, q, used, shown, restarts, word>>

\* unless_halted drops what the agent waits for (the switch, a cap, a stopped
\* turn); an open question is withdrawn by Waiting's drop.
Halts(a) ==
    /\ pc[a] \in {"called", "prompt", "sending", "waiting", "running"}
    /\ IF on[a] = 0 THEN UNCHANGED <<expired, answer>> ELSE Withdraws(on[a])
    /\ pending' = pending \ {on[a]}
    /\ Leaves(a, "out")
    /\ basis' = [basis EXCEPT ![a] = Nothing]
    /\ UNCHANGED <<route, runState, standing, stop, q, used, shown, restarts, word>>

-----------------------------------------------------------------------------
(* The owner, and the process *)

\* Whom a word on question i's message is meant for: that question, as long as its
\* code is remembered; a code that was forgotten may have been drawn again.
Meant(i) ==
    IF i \in Remembered THEN {i}
    ELSE {j \in DOMAIN q : Code(j) = Code(i) /\ q[j].chat = q[i].chat}

\* Noted while the question waits: a word that comes later changes nothing.
MeansFor(I, w) == word' = [i \in Questions |-> IF i \in I \cap pending THEN w ELSE word[i]]

\* A button of a message, now or much later, or its code typed.
Taps(i, w) ==
    /\ i \in shown
    /\ Answers(Settles(q[i].chat, w, {Code(i)}, TRUE), w)
    /\ MeansFor(Meant(i), w)
    /\ UNCHANGED <<route, pc, call, on, runState, standing, stop, shown, restarts, basis>>

\* A word without a code; any other text is a "no".
Says(chat, w) ==
    /\ Here(chat) # {}
    /\ Answers(Settles(chat, w, {}, TRUE), w)
    /\ MeansFor(IF w \in Yes THEN {i \in Here(chat) : Here(chat) = {i}} ELSE Here(chat), w)
    /\ UNCHANGED <<route, pc, call, on, runState, standing, stop, shown, restarts, basis>>

\* Somebody else in the chat says or taps it.
GuestTaps(i, w) ==
    /\ i \in shown
    /\ Answers(Settles(q[i].chat, w, {Code(i)}, FALSE), w)
    /\ UNCHANGED <<route, pc, call, on, runState, standing, stop, shown, restarts, history>>

\* decide_in: the dashboard answers what it listed, whichever chat it was asked
\* in, and no further than offered.
Offered(i, w) ==
    (w = "always" => q[i].subject \in ForRun) /\ (w = "remember" => q[i].subject \in Keep)

Decides(i, w) ==
    /\ i \in DOMAIN q
    /\ \E j \in pending : Code(j) = Code(i) /\ Offered(j, w) /\ Answers({j}, w)
    /\ MeansFor(IF i \in Remembered THEN {i} ELSE {j \in DOMAIN q : Code(j) = Code(i)}, w)
    /\ UNCHANGED <<route, pc, call, on, runState, standing, stop, shown, restarts, basis>>

Revokes(s) ==
    /\ s \in standing
    /\ standing' = standing \ {s}
    /\ UNCHANGED <<route, pc, call, on, runState, stop, approvals, shown, restarts, history>>

\* The stop file: /stop in a chat, `ferrule stop` in another process, /resume.
Engages(where) ==
    /\ stop' = where
    /\ UNCHANGED <<route, pc, call, on, runState, standing, approvals, shown, restarts,
                   history>>

Clears ==
    /\ stop # "off"
    /\ stop' = "off"
    /\ UNCHANGED <<route, pc, call, on, runState, standing, approvals, shown, restarts,
                   history>>

\* The process starts again: questions, codes and runs are gone, the messages stay
\* in the chat, grants and the stop file on disk.
Restarts ==
    /\ restarts < MaxRestarts
    /\ restarts' = restarts + 1
    /\ pc' = [a \in Agents |-> "out"] /\ on' = [a \in Agents |-> 0]
    /\ call' = [a \in Agents |-> NoCall] /\ basis' = [a \in Agents |-> Nothing]
    /\ pending' = {} /\ expired' = <<>> /\ used' = <<>>
    /\ answer' = [i \in Questions |-> "none"]
    /\ granted' = {} /\ streak' = 0 /\ total' = 0 /\ escalated' = FALSE
    /\ UNCHANGED <<route, run, standing, stop, q, shown, word>>

-----------------------------------------------------------------------------

Agent(a) ==
    \/ Begins(a) \/ CallsModel(a) \/ OnGrant(a) \/ OnStanding(a) \/ Asks(a)
    \/ TerminalAnswers(a) \/ AsksOwner(a) \/ Delivered(a) \/ Sent(a) \/ SendFails(a)
    \/ TakesAnswer(a) \/ TimesOut(a) \/ TimedOut(a) \/ ToolEnds(a) \/ Halts(a)

Owner ==
    \/ \E i \in DOMAIN q, w \in Words :
        Taps(i, w) \/ GuestTaps(i, w) \/ Decides(i, w)
    \/ \E chat \in Chats, w \in Words : Says(chat, w)
    \/ \E s \in standing : Revokes(s)
    \/ \E where \in Stops : Engages(where)
    \/ Clears

Next == (\E a \in Agents : Agent(a)) \/ Owner \/ Restarts

Spec == Init /\ [][Next]_vars

\* What an agent does without the owner: model calls and tools end (retries are
\* bounded, a tool has a timeout), a message is sent or not, the timer fires, and
\* the switch is polled for.  Nobody at a terminal has to answer.
GoesOn(a) ==
    \/ CallsModel(a) \/ OnGrant(a) \/ OnStanding(a) \/ Asks(a) \/ AsksOwner(a) \/ Sent(a)
    \/ SendFails(a) \/ TakesAnswer(a) \/ TimesOut(a) \/ TimedOut(a) \/ ToolEnds(a)
    \/ stop # "off" /\ Halts(a)

Fairness == \A a \in Agents : WF_vars(GoesOn(a))

FairSpec == Spec /\ Fairness

-----------------------------------------------------------------------------
(* Properties *)

\* Every gated call that went ahead did so on the owner's word: a yes to the very
\* question it asked; or an `always` to a question about the same command asked in
\* the same run; or a `remember` for it.  A tap on an old message whose code was drawn
\* again for another question of its chat, after a restart or when it had aged out, is
\* taken as the owner's word for that one (Meant): the code cannot tell the two apart.
OnTheOwnersWord ==
    \A a \in Agents :
        /\ basis[a].on = "question" => word[basis[a].id] \in Yes
        /\ basis[a].on = "grant" =>
            \E i \in DOMAIN q :
                /\ q[i].subject = basis[a].id /\ q[i].run = basis[a].run
                /\ word[i] \in {"always", "remember"}
        /\ basis[a].on = "standing" =>
            \E i \in DOMAIN q : q[i].subject = basis[a].id /\ word[i] = "remember"

\* A question is pending exactly while somebody waits for it: one left behind would
\* turn the owner's next ordinary message into a refusal.
PendingIsAwaited ==
    \A i \in pending :
        pc[q[i].agent] \in {"sending", "waiting", "late"} /\ on[q[i].agent] = i

\* Every question ends, whatever the owner does.
QuestionEnds == \A i \in Questions : (i \in pending) ~> (i \notin pending)

\* Too many refusals stop every agent of the run that does not sit at a prompt.
RefusalsStopTheRun ==
    \A a \in Agents, r \in 1..MaxRuns :
        (escalated /\ run = r) ~> (pc[a] \in {"out", "prompt"} \/ run # r)

\* While the kill switch stays on, in the end no agent calls the model, asks, waits
\* or runs a tool.
StopStops ==
    <>[](stop # "off") =>
        <>[](\A a \in Agents : pc[a] \in {"out", "ready"})
=============================================================================
