------------------------------ MODULE Router ------------------------------
(***************************************************************************)
(* The lanes of one chat in the router of ferrule-gateway.                 *)
(*                                                                         *)
(* A lane is a task with a queue: it takes a message (and those a person   *)
(* sent behind it), runs one turn of the chat's agent, and replies.  The   *)
(* gateway's dispatcher looks the lane up under the router's lock and uses *)
(* it after; a message may steer the running turn instead; sub-agents'     *)
(* news wake the lane; /stop ends a turn, /new puts the lane aside, a      *)
(* model change retires it, and the bot's stop drains it.                  *)
(*                                                                         *)
(* Steps are the critical sections of the code (the router's lock, a       *)
(* lane's state lock, its steering's lock, one channel operation).         *)
(***************************************************************************)
EXTENDS Integers, Sequences, SequencesExt

CONSTANTS
    MaxMsgs,     \* bound: the messages a person sends, 1 .. MaxMsgs in order
    MaxNews,     \* bound: the wake-ups the supervisor asks for
    MaxLanes,    \* bound: the lanes spawned, one after the other
    Capacity,    \* lane_queue_capacity
    Merges,      \* the channel has busy notices: messages merge and steer
    Beside       \* the dashboard's resets and retires run beside the dispatcher

Msgs == 1..MaxMsgs
News == (MaxMsgs + 1)..(MaxMsgs + MaxNews)
Lanes == 1..MaxLanes
Callers == {"dispatcher", "dashboard"}

ASSUME RouterAssumption ==
    /\ MaxMsgs \in Nat /\ MaxNews \in Nat /\ MaxLanes \in Nat
    /\ Capacity \in Nat \ {0}
    /\ Merges \in BOOLEAN /\ Beside \in BOOLEAN

VARIABLES
    cur,         \* the lane in the router's map; 0: none
    \* per lane: its task and the task's locals
    w, job, held, late,
    queue,       \* its mpsc channel
    \* LaneState
    queued, busy, retired, stale,
    \* Steering
    open, waiting,
    stopped,     \* TurnGuard: the turn was asked to stop
    \* the callers
    call,        \* per caller: its call in progress and the lane it holds
    sent,        \* how many of the person's messages were handled
    waker,       \* the supervisor's wake-up: idle, or past the closing check
    woke,        \* how many wake-ups were asked for
    phase,       \* the bot: up, or how far its stop is
    \* history
    accepted,    \* the messages taken by offer, steer or wake
    read,        \* what the turns read, in this order
    cut,         \* what was accepted before a /new or model change threw it away
    told         \* the chat was told that the stop dropped its messages

task == <<w, job, held, late>>
state == <<queued, busy, retired, stale>>
steering == <<open, waiting>>
callers == <<call, sent, waker, woke>>
history == <<accepted, read, cut, told>>
vars == <<cur, task, queue, state, steering, stopped, callers, phase, history>>

Person(m) == m \in Msgs

Pcs == {"none", "recv", "taken", "merge", "begin", "start", "armed", "run",
        "reply", "gone"}
CallPcs == {"ready", "count", "send", "retire", "join"}
Ready == [pc |-> "ready", lane |-> 0]

\* One type per variable.
TypeOK ==
    /\ cur \in 0..MaxLanes
    /\ w \in [Lanes -> Pcs]
    /\ job \in [Lanes -> Seq(Msgs \cup News)]
    /\ held \in [Lanes -> Seq(Seq(Msgs \cup News))]
    /\ late \in [Lanes -> Seq(Msgs)]
    /\ queue \in [Lanes -> Seq(Msgs \cup News)]
    /\ queued \in [Lanes -> Nat]
    /\ busy \in [Lanes -> BOOLEAN] /\ retired \in [Lanes -> BOOLEAN]
    /\ stale \in [Lanes -> BOOLEAN]
    /\ open \in [Lanes -> BOOLEAN] /\ waiting \in [Lanes -> Seq(Msgs)]
    /\ stopped \in [Lanes -> BOOLEAN]
    /\ call \in [Callers -> [pc : CallPcs, lane : 0..MaxLanes]]
    /\ sent \in 0..MaxMsgs /\ woke \in 0..MaxNews
    /\ waker \in {"idle", "checked"}
    /\ phase \in {"up", "closing", "draining", "stopping", "down"}
    /\ accepted \subseteq Msgs \cup News
    /\ read \in Seq(Msgs \cup News)
    /\ cut \subseteq accepted
    /\ told \in BOOLEAN

Init ==
    /\ cur = 0
    /\ w = [l \in Lanes |-> "none"]
    /\ job = [l \in Lanes |-> <<>>] /\ held = [l \in Lanes |-> <<>>]
    /\ late = [l \in Lanes |-> <<>>] /\ queue = [l \in Lanes |-> <<>>]
    /\ queued = [l \in Lanes |-> 0] /\ busy = [l \in Lanes |-> FALSE]
    /\ retired = [l \in Lanes |-> FALSE] /\ stale = [l \in Lanes |-> FALSE]
    /\ open = [l \in Lanes |-> FALSE] /\ waiting = [l \in Lanes |-> <<>>]
    /\ stopped = [l \in Lanes |-> FALSE]
    /\ call = [x \in Callers |-> Ready]
    /\ sent = 0 /\ waker = "idle" /\ woke = 0 /\ phase = "up"
    /\ accepted = {} /\ read = <<>> /\ cut = {} /\ told = FALSE

-----------------------------------------------------------------------------
(* Plausible bugs, each an action below with one thing wrong; no part of the *)
(* specification.  Each breaks the property it is paired with.               *)

\* steer does not look at what waits in front.
SteersPast ==
    /\ phase = "up" /\ Merges /\ call["dispatcher"].pc = "ready" /\ sent < MaxMsgs
    /\ cur # 0 /\ ~retired[cur] /\ ~stale[cur] /\ open[cur]
    /\ sent' = sent + 1
    /\ waiting' = [waiting EXCEPT ![cur] = Append(@, sent')]
    /\ accepted' = accepted \cup {sent'}
    /\ UNCHANGED <<cur, task, queue, state, open, stopped, call, waker, woke, phase,
                   read, cut, told>>

\* A merged message stays counted as waiting.
MergesUncounted(l) ==
    /\ w[l] = "merge" /\ queue[l] # <<>> /\ Person(Head(queue[l]))
    /\ job' = [job EXCEPT ![l] = Append(@, Head(queue[l]))]
    /\ queue' = [queue EXCEPT ![l] = Tail(@)]
    /\ UNCHANGED <<cur, w, held, late, state, steering, stopped, callers, phase, history>>

\* What came too late for the turn is dropped with it.
EndsForgetting(l) ==
    /\ w[l] = "run"
    /\ open' = [open EXCEPT ![l] = FALSE]
    /\ waiting' = [waiting EXCEPT ![l] = <<>>]
    /\ w' = [w EXCEPT ![l] = "reply"]
    /\ UNCHANGED <<cur, job, held, late, queue, state, stopped, callers, phase, history>>

\* close looks at the queue only, not at what waits for the running turn.
DropsUntold ==
    /\ phase = "closing"
    /\ phase' = "draining"
    /\ IF cur = 0 THEN UNCHANGED <<state, steering, told>>
       ELSE /\ retired' = [retired EXCEPT ![cur] = TRUE]
            /\ open' = [open EXCEPT ![cur] = FALSE]
            /\ waiting' = [waiting EXCEPT ![cur] = <<>>]
            /\ queued' = [queued EXCEPT ![cur] = 0]
            /\ told' = (queued[cur] > 0)
            /\ UNCHANGED <<busy, stale>>
    /\ UNCHANGED <<cur, task, queue, stopped, callers, accepted, read, cut>>

\* retire looks at the running turn only, not at what waits.
RetiresWaiting(x) ==
    /\ phase = "up" /\ call[x].pc = "ready" /\ (x = "dashboard" => Beside) /\ cur # 0
    /\ IF busy[cur] THEN stale' = [stale EXCEPT ![cur] = TRUE] /\ UNCHANGED cur
       ELSE cur' = 0 /\ UNCHANGED stale
    /\ UNCHANGED <<task, queue, queued, busy, retired, steering, stopped, callers, phase,
                   history>>

-----------------------------------------------------------------------------
(* The dispatcher: steer, then offer *)

\* steer: into the running turn of a person, if nothing waits in front.
Steers ==
    /\ phase = "up" /\ Merges /\ call["dispatcher"].pc = "ready" /\ sent < MaxMsgs
    /\ cur # 0 /\ queued[cur] = 0 /\ ~retired[cur] /\ ~stale[cur] /\ open[cur]
    /\ sent' = sent + 1
    /\ waiting' = [waiting EXCEPT ![cur] = Append(@, sent')]
    /\ accepted' = accepted \cup {sent'}
    /\ UNCHANGED <<cur, task, queue, state, open, stopped, call, waker, woke, phase,
                   read, cut, told>>

\* lane_for finds the map's lane usable: its task lives, and it is not a stale
\* one that is idle.
Usable(l) ==
    /\ l # 0 /\ w[l] # "gone"
    /\ ~(stale[l] /\ ~busy[l] /\ queued[l] = 0)

\* spawn_lane: the next lane, with its agent and a task at recv.
SpawnLane(l) ==
    /\ w[l] = "none" /\ \A k \in Lanes : k < l => w[k] # "none"
    /\ cur' = l
    /\ w' = [w EXCEPT ![l] = "recv"]

\* offer: the lane is looked up; its sender is held after the lock is released.
\* (Open to every message: a voice note never steers.)
OfferFinds ==
    /\ phase = "up" /\ call["dispatcher"].pc = "ready" /\ sent < MaxMsgs
    /\ sent' = sent + 1
    /\ \/ Usable(cur) /\ UNCHANGED <<cur, w>>
       \/ ~Usable(cur) /\ \E l \in Lanes : SpawnLane(l)
    /\ call' = [call EXCEPT !["dispatcher"] = [pc |-> "count", lane |-> cur']]
    /\ UNCHANGED <<job, held, late, queue, state, steering, stopped, waker, woke,
                   phase, history>>

\* No agent could be built for a new lane: the chat is told.
OfferRefused ==
    /\ phase = "up" /\ call["dispatcher"].pc = "ready" /\ sent < MaxMsgs
    /\ ~Usable(cur)
    /\ sent' = sent + 1
    /\ UNCHANGED <<cur, task, queue, state, steering, stopped, call, waker, woke, phase,
                   history>>

\* try_send would succeed: there is a lane, it lives, its queue has room.
HasRoom(l) == l # 0 /\ w[l] # "gone" /\ Len(queue[l]) < Capacity

OfferCounts ==
    /\ call["dispatcher"].pc = "count"
    /\ queued' = [queued EXCEPT ![call["dispatcher"].lane] = @ + 1]
    /\ call' = [call EXCEPT !["dispatcher"].pc = "send"]
    /\ UNCHANGED <<cur, task, queue, busy, retired, stale, steering, stopped, sent,
                   waker, woke, phase, history>>

\* try_send; a refusal (the queue is full, the lane has ended) is uncounted, and
\* the chat is told.
OfferSends ==
    /\ call["dispatcher"].pc = "send"
    /\ LET l == call["dispatcher"].lane IN
        \/ /\ HasRoom(l)
           /\ queue' = [queue EXCEPT ![l] = Append(@, sent)]
           /\ accepted' = accepted \cup {sent}
           /\ UNCHANGED queued
        \/ /\ ~HasRoom(l)
           /\ queued' = [queued EXCEPT ![l] = @ - 1]
           /\ UNCHANGED <<queue, accepted>>
    /\ call' = [call EXCEPT !["dispatcher"] = Ready]
    /\ UNCHANGED <<cur, task, busy, retired, stale, steering, stopped, sent, waker, woke,
                   phase, read, cut, told>>

-----------------------------------------------------------------------------
(* The supervisor's wake-ups *)

WakeChecks ==
    /\ phase = "up" /\ waker = "idle" /\ woke < MaxNews
    /\ waker' = "checked"
    /\ UNCHANGED <<cur, task, queue, state, steering, stopped, call, sent, woke, phase,
                   history>>

\* wake, under the router's lock: counted and sent, or refused.
Wakes ==
    /\ waker = "checked" /\ phase # "down"
    /\ waker' = "idle" /\ woke' = woke + 1
    /\ \/ /\ HasRoom(cur)
          /\ queue' = [queue EXCEPT ![cur] = Append(@, MaxMsgs + woke')]
          /\ queued' = [queued EXCEPT ![cur] = @ + 1]
          /\ accepted' = accepted \cup {MaxMsgs + woke'}
       \/ /\ ~HasRoom(cur)
          /\ UNCHANGED <<queue, queued, accepted>>
    /\ UNCHANGED <<cur, task, busy, retired, stale, steering, stopped, call, sent, phase,
                   read, cut, told>>

-----------------------------------------------------------------------------
(* run_lane *)

Goto(l, pc) == w' = [w EXCEPT ![l] = pc]

\* Somebody holds a sender of the lane: the map, or an offer in progress.
HasSender(l) ==
    cur = l \/ \E x \in Callers : call[x].lane = l /\ call[x].pc \in {"count", "send"}

\* The next job: a held one, else the queue's; without senders the lane ends.
Receives(l) ==
    /\ w[l] = "recv"
    /\ \/ /\ held[l] # <<>>
          /\ job' = [job EXCEPT ![l] = Head(held[l])]
          /\ held' = [held EXCEPT ![l] = Tail(@)]
          /\ Goto(l, "taken")
          /\ UNCHANGED queue
       \/ /\ held[l] = <<>> /\ queue[l] # <<>>
          /\ job' = [job EXCEPT ![l] = <<Head(queue[l])>>]
          /\ queue' = [queue EXCEPT ![l] = Tail(@)]
          /\ Goto(l, "taken")
          /\ UNCHANGED held
       \/ /\ held[l] = <<>> /\ queue[l] = <<>> /\ ~HasSender(l)
          /\ Goto(l, "gone")
          /\ UNCHANGED <<job, held, queue>>
    /\ UNCHANGED <<cur, late, state, steering, stopped, callers, phase, history>>

\* A retired lane takes no further message, even one already queued.
ChecksRetired(l) ==
    /\ w[l] = "taken"
    /\ Goto(l, IF retired[l] THEN "gone"
               ELSE IF Person(job[l][1]) /\ Merges /\ held[l] = <<>> THEN "merge"
               ELSE "begin")
    /\ UNCHANGED <<cur, job, held, late, queue, state, steering, stopped, callers, phase,
                   history>>

\* What the person sent behind it joins the turn; anything else is held.
MergesNext(l) ==
    /\ w[l] = "merge"
    /\ \/ /\ queue[l] # <<>> /\ Person(Head(queue[l]))
          /\ job' = [job EXCEPT ![l] = Append(@, Head(queue[l]))]
          /\ queued' = [queued EXCEPT ![l] = IF @ = 0 THEN 0 ELSE @ - 1]
          /\ queue' = [queue EXCEPT ![l] = Tail(@)]
          /\ UNCHANGED <<w, held>>
       \/ /\ queue[l] # <<>> /\ ~Person(Head(queue[l]))
          /\ held' = [held EXCEPT ![l] = Append(@, <<Head(queue[l])>>)]
          /\ queue' = [queue EXCEPT ![l] = Tail(@)]
          /\ Goto(l, "begin")
          /\ UNCHANGED <<job, queued>>
       \/ /\ queue[l] = <<>>
          /\ Goto(l, "begin")
          /\ UNCHANGED <<job, held, queue, queued>>
    /\ UNCHANGED <<cur, late, busy, retired, stale, steering, stopped, callers, phase,
                   history>>

\* LaneWatch::start: no longer waiting, busy; the turn answers these messages.
Starts(l) ==
    /\ w[l] = "begin"
    /\ queued' = [queued EXCEPT ![l] = IF @ = 0 THEN 0 ELSE @ - 1]
    /\ busy' = [busy EXCEPT ![l] = TRUE]
    /\ read' = read \o job[l]
    /\ Goto(l, "start")
    /\ UNCHANGED <<cur, job, held, late, queue, retired, stale, steering, stopped, callers,
                   phase, accepted, cut, told>>

\* TurnGuard::arm forgets an earlier stop.
Arms(l) ==
    /\ w[l] = "start"
    /\ stopped' = [stopped EXCEPT ![l] = FALSE]
    /\ Goto(l, "armed")
    /\ UNCHANGED <<cur, job, held, late, queue, state, steering, callers, phase, history>>

\* After the voice notes are heard, a person's turn can be steered.
Opens(l) ==
    /\ w[l] = "armed"
    /\ open' = [open EXCEPT ![l] = @ \/ Person(job[l][1])]
    /\ Goto(l, "run")
    /\ UNCHANGED <<cur, job, held, late, queue, state, waiting, stopped, callers, phase,
                   history>>

\* deliver_inbox before a model call, which a stopped turn no longer makes.
TurnReads(l) ==
    /\ w[l] = "run" /\ ~stopped[l] /\ waiting[l] # <<>>
    /\ read' = read \o waiting[l]
    /\ waiting' = [waiting EXCEPT ![l] = <<>>]
    /\ UNCHANGED <<cur, task, queue, state, open, stopped, callers, phase, accepted, cut,
                   told>>

\* The agent's run returns (done, failed or stopped), and Steering::close: what
\* it did not read is late.
TurnEnds(l) ==
    /\ w[l] = "run"
    /\ open' = [open EXCEPT ![l] = FALSE]
    /\ late' = [late EXCEPT ![l] = waiting[l]]
    /\ waiting' = [waiting EXCEPT ![l] = <<>>]
    /\ Goto(l, "reply")
    /\ UNCHANGED <<cur, job, held, queue, state, stopped, callers, phase, history>>

\* The reply is sent; then the late messages are the next turn's, before anything
\* else that waits, and LaneWatch::finish: no longer busy.
Finishes(l) ==
    /\ w[l] = "reply"
    /\ IF late[l] = <<>> THEN UNCHANGED <<held, queued>>
       ELSE /\ held' = [held EXCEPT ![l] = <<late[l]>> \o @]
            /\ queued' = [queued EXCEPT ![l] = @ + 1]
    /\ late' = [late EXCEPT ![l] = <<>>]
    /\ job' = [job EXCEPT ![l] = <<>>]
    /\ busy' = [busy EXCEPT ![l] = FALSE]
    /\ Goto(l, "recv")
    /\ UNCHANGED <<cur, queue, retired, stale, steering, stopped, callers, phase, history>>

Lane(l) ==
    /\ phase # "down"
    /\ \/ Receives(l) \/ ChecksRetired(l) \/ MergesNext(l) \/ Starts(l) \/ Arms(l)
       \/ Opens(l) \/ TurnReads(l) \/ TurnEnds(l) \/ Finishes(l)

-----------------------------------------------------------------------------
(* stop, retire, reset *)

\* stop: the running turn of the chat is asked to end; the caller is told so.
Stops ==
    /\ phase = "up" /\ cur # 0 /\ busy[cur]
    /\ stopped' = [stopped EXCEPT ![cur] = TRUE]
    /\ UNCHANGED <<cur, task, queue, state, steering, callers, phase, accepted, read, cut,
                   told>>

\* Who may reset or retire now.
MayAct(x) ==
    /\ phase = "up" /\ call[x].pc = "ready"
    /\ x = "dashboard" => Beside

\* retire: a lane with work left is marked stale, an idle one dropped.
Retires(x) ==
    /\ MayAct(x) /\ cur # 0
    /\ IF busy[cur] \/ queued[cur] > 0
       THEN stale' = [stale EXCEPT ![cur] = TRUE] /\ UNCHANGED cur
       ELSE cur' = 0 /\ UNCHANGED stale
    /\ UNCHANGED <<task, queue, queued, busy, retired, steering, stopped, callers, phase,
                   history>>

\* reset (/new): the lane is taken out of the map ...
ResetTakes(x) ==
    /\ MayAct(x) /\ cur # 0
    /\ call' = [call EXCEPT ![x] = [pc |-> "retire", lane |-> cur]]
    /\ cur' = 0
    /\ UNCHANGED <<task, queue, state, steering, stopped, sent, waker, woke, phase, history>>

\* ... retired, what waits is dropped, its turn stopped ...
ResetRetires(x) ==
    /\ phase # "down" /\ call[x].pc = "retire"
    /\ LET l == call[x].lane IN
        /\ retired' = [retired EXCEPT ![l] = TRUE]
        /\ open' = [open EXCEPT ![l] = FALSE]
        /\ waiting' = [waiting EXCEPT ![l] = <<>>]
        /\ stopped' = [stopped EXCEPT ![l] = @ \/ busy[l]]
    /\ cut' = accepted
    /\ call' = [call EXCEPT ![x].pc = "join"]
    /\ UNCHANGED <<cur, task, queue, queued, busy, stale, sent, waker, woke, phase,
                   accepted, read, told>>

\* ... and its task waited for, or aborted after RESET_WAIT.
ResetEnds(x) ==
    /\ phase # "down" /\ call[x].pc = "join"
    /\ Goto(call[x].lane, "gone")
    /\ call' = [call EXCEPT ![x] = Ready]
    /\ UNCHANGED <<cur, job, held, late, queue, state, steering, stopped, sent, waker, woke,
                   phase, history>>

-----------------------------------------------------------------------------
(* drain: the bot's stop.  It ends the dispatcher at one of its awaits. *)

\* close: nothing new from now on ...
Closes ==
    /\ phase = "up" /\ call["dispatcher"].pc \in {"ready", "join"}
    /\ phase' = "closing"
    /\ call' = [call EXCEPT !["dispatcher"] = Ready]
    /\ UNCHANGED <<cur, task, queue, state, steering, stopped, sent, waker, woke, history>>

\* ... what waits is dropped, and its chat told.
CloseDrops ==
    /\ phase = "closing"
    /\ phase' = "draining"
    /\ IF cur = 0 THEN UNCHANGED <<state, steering, told>>
       ELSE LET waits == queued[cur] > 0 \/ waiting[cur] # <<>> IN
            /\ retired' = [retired EXCEPT ![cur] = TRUE]
            /\ open' = [open EXCEPT ![cur] = FALSE]
            /\ waiting' = [waiting EXCEPT ![cur] = <<>>]
            /\ queued' = IF waits THEN [queued EXCEPT ![cur] = 0] ELSE queued
            /\ told' = waits
            /\ UNCHANGED <<busy, stale>>
    /\ UNCHANGED <<cur, task, queue, stopped, callers, accepted, read, cut>>

Running == cur # 0 /\ busy[cur]

\* The grace is over: the turn still running is ended for the restart.
DrainStops ==
    /\ phase = "draining" /\ Running
    /\ stopped' = [stopped EXCEPT ![cur] = TRUE]
    /\ phase' = "stopping"
    /\ UNCHANGED <<cur, task, queue, state, steering, callers, history>>

\* No turn runs, or the stopped one had its few seconds: the process ends.
Drained ==
    /\ (phase = "draining" /\ ~Running) \/ phase = "stopping"
    /\ phase' = "down"
    /\ UNCHANGED <<cur, task, queue, state, steering, stopped, callers, history>>

-----------------------------------------------------------------------------

Dispatcher == Steers \/ OfferFinds \/ OfferRefused \/ OfferCounts \/ OfferSends
Drain == Closes \/ CloseDrops \/ DrainStops \/ Drained

Next ==
    \/ Dispatcher \/ WakeChecks \/ Wakes
    \/ \E l \in Lanes : Lane(l)
    \/ Stops
    \/ \E x \in Callers : Retires(x) \/ ResetTakes(x) \/ ResetRetires(x) \/ ResetEnds(x)
    \/ Drain

Spec == Init /\ [][Next]_vars
-----------------------------------------------------------------------------
(* Properties *)

Working(l) == w[l] \in Pcs \ {"none", "recv", "gone"}

\* "two agents never share a transcript": at most one lane of the chat has taken
\* a message or runs a turn, as long as its lanes are replaced by the dispatcher
\* itself (a command of the chat).
OneAgent == ~Beside => \A k, l \in Lanes : Working(k) /\ Working(l) => k = l

InLane(l) ==
    Range(queue[l]) \cup Range(job[l]) \cup Range(late[l]) \cup Range(waiting[l])
        \cup UNION {Range(h) : h \in Range(held[l])}

\* While the bot is up, what a lane accepted was read by a turn, is still in a
\* lane that lives, or was thrown away by a /new after it.
NothingLost ==
    phase = "up" /\ ~Beside =>
        \A m \in accepted :
            \/ m \in cut \/ m \in Range(read)
            \/ \E l \in Lanes : w[l] \notin {"none", "gone"} /\ m \in InLane(l)

\* LaneState.queued, which steer, retire and lane_for go by, counts what waits:
\* in the queue, held, taken and not started, and being sent.
QueueCounted ==
    \A l \in Lanes : ~retired[l] =>
        queued[l] = Len(queue[l]) + Len(held[l])
                    + (IF w[l] \in {"taken", "merge", "begin"} THEN 1 ELSE 0)
                    + (IF call["dispatcher"] = [pc |-> "send", lane |-> l] THEN 1 ELSE 0)

\* What the bot's stop leaves unread, its chat is told of ("The messages waiting
\* behind running turns are dropped, and their chats told"), except a message
\* that steered a turn too late and was in no count while the reply was sent.
DroppedAreTold ==
    [][phase = "closing" /\ phase' = "draining" =>
         told' \/ accepted \cap Msgs \subseteq
                   cut \cup Range(read) \cup UNION {Range(late[l]) : l \in Lanes}]_vars

\* The dispatcher and the lanes' tasks go on; a turn ends (its iterations are
\* bounded, and max_turn_minutes ends it otherwise).
Fairness ==
    /\ WF_vars(OfferCounts) /\ WF_vars(OfferSends)
    /\ \A l \in Lanes : WF_vars(Lane(l)) /\ WF_vars(TurnEnds(l))
    /\ \A x \in Callers : WF_vars(ResetRetires(x)) /\ WF_vars(ResetEnds(x))

FairSpec == Spec /\ Fairness

\* What a lane holds of the person's messages, the next to be read first.
MailOf(l) ==
    SelectSeq((IF w[l] \in {"taken", "merge", "begin"} THEN job[l] ELSE <<>>)
                \o late[l] \o waiting[l] \o FlattenSeq(held[l]) \o queue[l], Person)

Mail == FlattenSeq([l \in Lanes |-> IF w[l] = "gone" THEN <<>> ELSE MailOf(l)])

Mailbox == INSTANCE ChatMailbox WITH
    mail <- Mail,
    seen <- SelectSeq(read, Person),
    clearing <- phase # "up" \/ call["dispatcher"].pc \in {"retire", "join"}

\* Queue, merge, held jobs, steering and late messages, over the lanes that replace each
\* other, are to the person one mailbox read in order: none is lost, read twice or
\* overtaken, unless a /new or the bot's stop throws it away, and all are read in the end.
IsAMailbox == Mailbox!Spec
=============================================================================
