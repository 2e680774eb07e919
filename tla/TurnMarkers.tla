---------------------------- MODULE TurnMarkers ----------------------------
(***************************************************************************)
(* The turns a restart cuts short, for one chat of the gateway.            *)
(*                                                                         *)
(* While a person's turn runs, its lane keeps a file: the request, whether *)
(* the turn called a tool that may change something, and whether it is a   *)
(* second try.  The turn's end removes the file; a crash does not, and     *)
(* neither does a stop for a restart.  The next start makes the file an    *)
(* offer: a turn that had only read is run again, any other waits for the  *)
(* chat's /continue.  /new puts the lane aside and removes both files.     *)
(*                                                                         *)
(* The agent's events reach the file through a channel that a task of its  *)
(* own drains; `resume` is called by the task that takes up turns and by   *)
(* the chat's /continue, with no lock between them; while /new waits for   *)
(* the lane it put aside, the first of them may build a new one, whose     *)
(* marker is the same file.  A step is one file operation, one channel     *)
(* operation or one critical section.                                      *)
(*                                                                         *)
(* The jobs that wait behind a person's message are joined with it; how    *)
(* many is left open, for a job that is no person's ends the joining.      *)
(***************************************************************************)
EXTENDS Integers, Sequences, Functions

CONSTANTS
    MaxMsgs,     \* bound: the messages a person sends
    Capacity,    \* lane_queue_capacity
    MaxTroubles  \* bound: the ends of the process, refused writes and /new's, in all

Msgs == 1..MaxMsgs
Requests == (SUBSET Msgs) \ {{}}
Lanes == {"current", "aside"}
Callers == {"resumer", "chat"}
None == [msgs |-> {}, acted |-> FALSE, resumed |-> FALSE]
InFlight == [msgs : Requests, acted : BOOLEAN, resumed : BOOLEAN]

ASSUME MarkersAssumption ==
    /\ {MaxMsgs, MaxTroubles} \subseteq Nat
    /\ Capacity \in Nat \ {0}

VARIABLES
    \* the disk
    turnFile, offerFile,
    \* the process
    phase,       \* up, draining, down
    queue,       \* the current lane's jobs: [msgs, resumed]
    lane,        \* per lane: its turn, with the marker in memory (see Turns)
    reset,       \* /new: none, wait (for the lane put aside), offer (yet to remove)
    taking,      \* the interrupted turn take_up has yet to tell and resume
    resuming,    \* per caller of resume: where it is, with what it read
    sent, troubles,
    \* history
    begun,       \* the messages a turn began on
    changed,     \* ... a turn of which has changed something
    again,       \* how often a message's turn was run again unasked
    joined,      \* how often its second try was joined to another message, its mark lost
    unnoted,     \* the process ended, or a write failed, between a call and its note
    settled      \* the messages answered, or given up: see NothingForgotten

disk == <<turnFile, offerFile>>
history == <<begun, changed, again, joined, unnoted, settled>>
vars == <<disk, phase, queue, lane, reset, taking, resuming, sent, troubles, history>>

Jobs == [msgs : Requests, resumed : BOOLEAN]
Turns == [pc : {"idle", "took", "run", "over", "drained", "reply", "cut"},
          mark : InFlight \cup {None},    \* None: no turn
          call : {"none", "started", "done"}, \* the turn's changing tool call
          events : BOOLEAN,               \* a call started is in the events' channel, unread
          stop : BOOLEAN,                 \* stop_for_restart was called in this turn
          incomplete : BOOLEAN]           \* the turn ended before its answer
Idle == [pc |-> "ready", turn |-> None]
NoTurn == [pc |-> "idle", mark |-> None, call |-> "none", events |-> FALSE,
           stop |-> FALSE, incomplete |-> FALSE]

\* One type per variable.
TypeOK ==
    /\ turnFile \in InFlight \cup {None} /\ offerFile \in InFlight \cup {None}
    /\ phase \in {"up", "draining", "down"}
    /\ queue \in Seq(Jobs) /\ Len(queue) <= Capacity
    /\ lane \in [Lanes -> Turns]
    /\ reset \in {"none", "wait", "offer"}
    /\ taking \in InFlight \cup {None}
    /\ resuming \in [Callers -> [pc : {"ready", "read", "find", "queue", "stray", "remove"},
                                 turn : InFlight \cup {None}]]
    /\ sent \in 0..MaxMsgs /\ troubles \in 0..MaxTroubles
    /\ begun \subseteq Msgs /\ changed \subseteq begun /\ unnoted \subseteq begun
    /\ again \in [Msgs -> Nat] /\ joined \in [Msgs -> Nat] /\ settled \subseteq Msgs

Init ==
    /\ turnFile = None /\ offerFile = None
    /\ phase = "up" /\ queue = <<>> /\ lane = [l \in Lanes |-> NoTurn] /\ reset = "none"
    /\ taking = None /\ resuming = [x \in Callers |-> Idle]
    /\ sent = 0 /\ troubles = 0
    /\ begun = {} /\ changed = {} /\ unnoted = {} /\ settled = {}
    /\ again = [m \in Msgs |-> 0] /\ joined = [m \in Msgs |-> 0]

Requested(js) == UNION {js[i].msgs : i \in DOMAIN js}
Queued == Requested(queue)
InHand ==
    Queued \cup turnFile.msgs \cup offerFile.msgs \cup taking.msgs
           \cup (UNION {lane[l].mark.msgs : l \in Lanes})
           \cup (UNION {resuming[x].turn.msgs : x \in Callers})

-----------------------------------------------------------------------------
(* The lane and its marker *)

\* The dispatcher handles one message of the chat after the other.
ChatIsFree == phase = "up" /\ resuming["chat"].pc = "ready"

\* A person's message is queued, or the chat is told that the queue is full.
Sends ==
    /\ ChatIsFree /\ sent < MaxMsgs
    /\ sent' = sent + 1
    /\ queue' = IF Len(queue) < Capacity
                THEN Append(queue, [msgs |-> {sent'}, resumed |-> FALSE]) ELSE queue
    /\ UNCHANGED <<disk, phase, lane, reset, taking, resuming, troubles, history>>

\* A plausible bug, no part of the specification: a second try is not marked as one.
MarkedAfresh(js) == [msgs |-> Requested(js), acted |-> FALSE, resumed |-> FALSE]

\* The marker of a turn on the jobs js: the flag is the first one's.
Marked(js) == [msgs |-> Requested(js), acted |-> FALSE, resumed |-> Head(js).resumed]

\* How many jobs at the queue's head can be one turn: a second try is joined by none,
\* but may itself join a person's message before it.
Joinable == {n \in 1..Len(queue) : n > 1 => ~Head(queue).resumed}

\* run_lane takes its next turn's jobs.
Takes ==
    /\ phase # "down" /\ lane["current"].pc = "idle"
    /\ \E n \in Joinable :
        LET js == SubSeq(queue, 1, n) IN
        /\ lane' = [lane EXCEPT !["current"].pc = "took", !["current"].mark = Marked(js)]
        /\ queue' = SubSeq(queue, n + 1, Len(queue))
        /\ joined' = [m \in Msgs |->
                        IF \E i \in 2..n : queue[i].resumed /\ m \in queue[i].msgs
                        THEN joined[m] + 1 ELSE joined[m]]
    /\ UNCHANGED <<disk, phase, reset, taking, resuming, sent, troubles, begun, changed,
                   again, unnoted, settled>>

\* Marker::write, which may be refused: the turn goes on with the file as it was.
Writes(t) ==
    \/ turnFile' = t /\ UNCHANGED troubles
    \/ troubles < MaxTroubles /\ troubles' = troubles + 1 /\ UNCHANGED turnFile

\* What an operation on the file by a lane that was put aside takes from another turn.
Trampled(l) == IF l = "aside" THEN turnFile.msgs ELSE {}

\* begin: the request as it arrived; the turn starts.
Begins(l) ==
    /\ phase # "down" /\ lane[l].pc = "took"
    /\ Writes(lane[l].mark)
    /\ lane' = [lane EXCEPT ![l].pc = "run"]
    /\ begun' = begun \cup lane[l].mark.msgs
    /\ settled' = settled \cup Trampled(l)
                    \cup (IF turnFile' = lane[l].mark THEN {} ELSE lane[l].mark.msgs)
    /\ UNCHANGED <<offerFile, phase, queue, reset, taking, resuming, sent, changed, again,
                   joined, unnoted>>

\* A plausible bug, no part of the specification: the event is sent when the tool is done.
CallsQuietly(l) ==
    /\ phase # "down" /\ lane[l].pc = "run" /\ lane[l].call = "none"
    /\ lane' = [lane EXCEPT ![l].call = "started"]
    /\ UNCHANGED <<disk, phase, queue, reset, taking, resuming, sent, troubles, history>>

\* The agent says that it calls a tool that may change something ...
Calls(l) ==
    /\ phase # "down" /\ lane[l].pc = "run" /\ lane[l].call = "none"
    /\ lane' = [lane EXCEPT ![l].call = "started", ![l].events = TRUE]
    /\ UNCHANGED <<disk, phase, queue, reset, taking, resuming, sent, troubles, history>>

\* ... and the tool does it.
Changes(l) ==
    /\ phase # "down" /\ lane[l].pc = "run" /\ lane[l].call = "started"
    /\ lane' = [lane EXCEPT ![l].call = "done"]
    /\ changed' = changed \cup lane[l].mark.msgs
    /\ UNCHANGED <<disk, phase, queue, reset, taking, resuming, sent, troubles, begun, again,
                   joined, unnoted, settled>>

\* drain_events reads it: Marker::called notes the call.  The drain outlives a turn that
\* /new has aborted.
Notes(l) ==
    /\ phase # "down" /\ lane[l].events
    /\ LET t == [lane[l].mark EXCEPT !.acted = TRUE] IN
        /\ Writes(t)
        /\ lane' = [lane EXCEPT ![l] = IF lane[l].pc = "cut" THEN NoTurn
                                       ELSE [lane[l] EXCEPT !.events = FALSE, !.mark = t]]
        /\ unnoted' = IF turnFile' = t THEN unnoted ELSE unnoted \cup t.msgs
    /\ settled' = settled \cup Trampled(l)
    /\ UNCHANGED <<offerFile, phase, queue, reset, taking, resuming, sent, begun, changed,
                   again, joined>>

\* The agent's run returns: with its answer, or incomplete (a stop, a limit).
Returns(l) ==
    /\ phase # "down" /\ lane[l].pc = "run" /\ lane[l].call # "started"
    /\ \E i \in BOOLEAN :
        lane' = [lane EXCEPT ![l].pc = "over", ![l].incomplete = (i \/ lane[l].stop)]
    /\ UNCHANGED <<disk, phase, queue, reset, taking, resuming, sent, troubles, history>>

\* The drain has read what was sent, or is aborted after a second.
DrainEnds(l) ==
    /\ phase # "down" /\ lane[l].pc = "over"
    /\ lane' = [lane EXCEPT ![l].pc = "drained", ![l].events = FALSE]
    /\ unnoted' = IF lane[l].events THEN unnoted \cup lane[l].mark.msgs ELSE unnoted
    /\ UNCHANGED <<disk, phase, queue, reset, taking, resuming, sent, troubles, begun,
                   changed, again, joined, settled>>

\* A plausible bug, no part of the specification: the end of a turn removes its marker,
\* a restart's stop or not.
KeepsNone(t) == FALSE

\* A turn a restart ended keeps its marker.
Keeps(t) == t.stop /\ t.incomplete

\* Marker::end.
MarkerEnds(l) ==
    /\ phase # "down" /\ lane[l].pc = "drained"
    /\ turnFile' = IF Keeps(lane[l]) THEN turnFile ELSE None
    /\ lane' = [lane EXCEPT ![l].pc = "reply"]
    /\ settled' = settled \cup Trampled(l)
    /\ UNCHANGED <<offerFile, phase, queue, reset, taking, resuming, sent, troubles, begun,
                   changed, again, joined, unnoted>>

\* The reply is sent (a kept turn's says that it will be taken up), and the lane is
\* ready for its next job.
Replies(l) ==
    /\ phase # "down" /\ lane[l].pc = "reply"
    /\ settled' = IF lane[l].stop /\ lane[l].incomplete THEN settled
                  ELSE settled \cup lane[l].mark.msgs
    /\ lane' = [lane EXCEPT ![l] = NoTurn]
    /\ UNCHANGED <<disk, phase, queue, reset, taking, resuming, sent, troubles, begun,
                   changed, again, joined, unnoted>>

Lane(l) ==
    \/ Begins(l) \/ Calls(l) \/ Changes(l) \/ Notes(l)
    \/ Returns(l) \/ DrainEnds(l) \/ MarkerEnds(l) \/ Replies(l)

-----------------------------------------------------------------------------
(* take_up, and the chat's /continue *)

\* runs_again: it only read, and it is no second try.
RunsAgain(t) == ~t.acted /\ ~t.resumed

\* take_up tells the chat, and goes on to resume what runs again; or the turn's
\* channel is off, and it waits for /continue.
Tells ==
    /\ phase # "down" /\ taking # None /\ resuming["resumer"].pc = "ready"
    /\ taking' = None
    /\ \/ RunsAgain(taking) /\ resuming' = [resuming EXCEPT !["resumer"].pc = "read"]
       \/ UNCHANGED resuming
    /\ UNCHANGED <<disk, phase, queue, lane, reset, sent, troubles, history>>

Continues ==
    /\ ChatIsFree /\ offerFile # None
    /\ resuming' = [resuming EXCEPT !["chat"].pc = "read"]
    /\ UNCHANGED <<disk, phase, queue, lane, reset, taking, sent, troubles, history>>

\* /continue drop.
LetsGo ==
    /\ ChatIsFree /\ offerFile # None
    /\ offerFile' = None
    /\ settled' = settled \cup offerFile.msgs
    /\ UNCHANGED <<turnFile, phase, queue, lane, reset, taking, resuming, sent, troubles,
                   begun, changed, again, joined, unnoted>>

\* A plausible bug, no part of the specification: an offer is the resumer's own to take.
ReadsItsOwn(x) ==
    /\ phase # "down" /\ resuming[x].pc = "read"
    /\ resuming' = [resuming EXCEPT ![x] =
                      IF offerFile = None THEN Idle ELSE [pc |-> "remove", turn |-> offerFile]]
    /\ UNCHANGED <<disk, phase, queue, lane, reset, taking, sent, troubles, history>>

\* resume: the offer is read (there may be none by now) ...
ReadsOffer(x) ==
    /\ phase # "down" /\ resuming[x].pc = "read"
    /\ resuming' = [resuming EXCEPT ![x] =
                      IF offerFile = None THEN Idle ELSE [pc |-> "find", turn |-> offerFile]]
    /\ UNCHANGED <<disk, phase, queue, lane, reset, taking, sent, troubles, history>>

\* ... its lane found or built, which a closing router, or an agent that can't be
\* built, refuses ...
FindsLane(x) ==
    /\ phase # "down" /\ resuming[x].pc = "find"
    /\ \/ phase = "up" /\ resuming' = [resuming EXCEPT ![x].pc = "queue"]
       \/ resuming' = [resuming EXCEPT ![x] = Idle]
    /\ UNCHANGED <<disk, phase, queue, lane, reset, taking, sent, troubles, history>>

\* ... the turn queued there as a second try, unless the queue is full (or, of a lane
\* that /new has put aside meanwhile, closed); a lane that a stop or /new has retired
\* takes it, and drops it ...
QueuesTurn(x) ==
    /\ phase # "down" /\ resuming[x].pc \in {"queue", "stray"}
    /\ LET ms == resuming[x].turn.msgs IN
        \/ /\ phase = "up" /\ resuming[x].pc = "queue" /\ Len(queue) < Capacity
           /\ queue' = Append(queue, [msgs |-> ms, resumed |-> TRUE])
           /\ again' = IF x = "resumer"
                       THEN [m \in Msgs |-> IF m \in ms THEN again[m] + 1 ELSE again[m]]
                       ELSE again
           /\ resuming' = [resuming EXCEPT ![x].pc = "remove"]
           /\ UNCHANGED settled
        \/ /\ \/ phase = "up" /\ Len(queue) = Capacity
              \/ resuming[x].pc = "stray"
           /\ resuming' = [resuming EXCEPT ![x] = Idle]
           /\ UNCHANGED <<queue, again, settled>>
        \/ /\ phase = "draining" \/ resuming[x].pc = "stray"
           /\ settled' = settled \cup ms
           /\ resuming' = [resuming EXCEPT ![x].pc = "remove"]
           /\ UNCHANGED <<queue, again>>
    /\ UNCHANGED <<disk, phase, lane, reset, taking, sent, troubles, begun, changed, joined,
                   unnoted>>

\* ... and then the offer is removed.
RemovesOffer(x) ==
    /\ phase # "down" /\ resuming[x].pc = "remove"
    /\ offerFile' = None
    /\ resuming' = [resuming EXCEPT ![x] = Idle]
    /\ UNCHANGED <<turnFile, phase, queue, lane, reset, taking, sent, troubles, history>>

Resume(x) == ReadsOffer(x) \/ FindsLane(x) \/ QueuesTurn(x) \/ RemovesOffer(x)

-----------------------------------------------------------------------------
(* reset: /new *)

\* The lane is out of the map and retired, what waits dropped, its turn stopped.  A
\* resume that had found the lane still has its sender.  (Not beside what an earlier
\* /new has left: its lane, or the drain of that lane's aborted turn.)
ResetRetires ==
    /\ phase # "down" /\ reset = "none" /\ lane["aside"] = NoTurn /\ troubles < MaxTroubles
    /\ troubles' = troubles + 1
    /\ reset' = "wait"
    /\ lane' = [lane EXCEPT !["aside"] = lane["current"], !["current"] = NoTurn]
    /\ queue' = <<>>
    /\ resuming' = [x \in Callers |-> IF resuming[x].pc = "queue"
                                       THEN [resuming[x] EXCEPT !.pc = "stray"] ELSE resuming[x]]
    /\ settled' = settled \cup InHand
    /\ UNCHANGED <<disk, phase, taking, sent, begun, changed, again, joined, unnoted>>

\* The lane's task has ended, or is aborted after RESET_WAIT; the chat's marker is
\* removed ...
ResetEnds ==
    /\ phase # "down" /\ reset = "wait" /\ lane["aside"].pc # "took"
    /\ reset' = "offer"
    /\ lane' = [lane EXCEPT !["aside"] = IF lane["aside"].events
                                         THEN [lane["aside"] EXCEPT !.pc = "cut"] ELSE NoTurn]
    /\ turnFile' = None
    /\ settled' = settled \cup turnFile.msgs
    /\ UNCHANGED <<offerFile, phase, queue, taking, resuming, sent, troubles, begun, changed,
                   again, joined, unnoted>>

\* ... and its offer.
ResetLetsGo ==
    /\ phase # "down" /\ reset = "offer"
    /\ reset' = "none"
    /\ offerFile' = None
    /\ settled' = settled \cup offerFile.msgs
    /\ UNCHANGED <<turnFile, phase, queue, lane, taking, resuming, sent, troubles, begun,
                   changed, again, joined, unnoted>>

Reset == ResetRetires \/ ResetEnds \/ ResetLetsGo

-----------------------------------------------------------------------------
(* The process ends, and starts again *)

\* drain, close: nothing new, and what waits is dropped (its chat is told).  The
\* dispatcher goes, at an await: a /new that waits is cut short there, its files left.
Closes ==
    /\ phase = "up" /\ resuming["chat"].pc = "ready" /\ troubles < MaxTroubles
    /\ phase' = "draining"
    /\ UNCHANGED reset \/ (reset = "wait" /\ reset' = "none")
    /\ queue' = <<>>
    /\ settled' = settled \cup Queued
    /\ UNCHANGED <<disk, lane, taking, resuming, sent, troubles, begun, changed, again,
                   joined, unnoted>>

\* The grace is over: the running turn is stopped for the restart.
StopsForRestart ==
    /\ phase = "draining" /\ lane["current"].pc \in {"run", "over", "drained"}
    /\ ~lane["current"].stop
    /\ lane' = [lane EXCEPT !["current"].stop = TRUE]
    /\ UNCHANGED <<disk, phase, queue, reset, taking, resuming, sent, troubles, history>>

\* What the end of the process takes from a lane: the request of a turn it had taken
\* but not marked, the answer of one whose marker was gone.
Lost(t) == IF t.pc = "took" \/ (t.pc = "reply" /\ ~(t.stop /\ t.incomplete))
           THEN t.mark.msgs ELSE {}

\* The process ends at any point: a crash, or the end of a stop.  What only it knew
\* is gone.
Ends ==
    /\ phase # "down" /\ troubles < MaxTroubles
    /\ phase' = "down" /\ troubles' = troubles + 1
    /\ queue' = <<>> /\ reset' = "none"
    /\ lane' = [l \in Lanes |-> NoTurn]
    /\ taking' = None /\ resuming' = [x \in Callers |-> Idle]
    /\ unnoted' = unnoted \cup UNION {lane[l].mark.msgs : l \in {k \in Lanes : lane[k].events}}
    /\ settled' = settled \cup Queued \cup UNION {Lost(lane[l]) : l \in Lanes}
    /\ UNCHANGED <<disk, sent, begun, changed, again, joined>>

\* interrupted: the marker left is renamed, over an offer nobody answered.
Starts ==
    /\ phase = "down"
    /\ phase' = "up"
    /\ IF turnFile = None THEN UNCHANGED <<disk, taking, settled>>
       ELSE /\ offerFile' = turnFile /\ turnFile' = None
            /\ taking' = turnFile
            /\ settled' = settled \cup (offerFile.msgs \ turnFile.msgs)
    /\ UNCHANGED <<queue, lane, reset, resuming, sent, troubles, begun, changed, again,
                   joined, unnoted>>

-----------------------------------------------------------------------------

Next ==
    \/ Sends \/ Takes \/ \E l \in Lanes : Lane(l)
    \/ Tells \/ Continues \/ LetsGo \/ \E x \in Callers : Resume(x)
    \/ Reset \/ Closes \/ StopsForRestart \/ Ends \/ Starts

Spec == Init /\ [][Next]_vars

\* The tasks of the process go on; a turn ends; the service starts the bot again.
Fairness ==
    /\ WF_vars(Takes \/ Lane("current")) /\ WF_vars(Returns("current"))
    /\ WF_vars(Tells) /\ WF_vars(Starts)
    /\ \A x \in Callers : WF_vars(Resume(x))

FairSpec == Spec /\ Fairness

-----------------------------------------------------------------------------
(* Properties *)

\* "a turn that crashes the process can't loop": however often the process ends, a
\* message's turn is run again without the chat's word at most once, and once more for
\* every time its second try, queued behind a person's message, was joined to it.  The
\* joined turn does not say that it is a second try, so a crash runs it again: the code
\* does not keep resume.rs:7-9 (nor router.rs:1323) there.
AgainOnce == \A m \in Msgs : again[m] <= 1 + joined[m]

\* "any other is offered": a start takes up a turn that changed something, to run it again
\* unasked, only when the process ended, or could not write, between the call and its
\* note; or when its second try was joined to a person's message, which lost the note
\* with the mark.
AskedAfterAChange ==
    [][\A m \in taking'.msgs \cap changed :
          taking = None /\ RunsAgain(taking') => m \in unnoted \/ joined[m] > 0]_vars

\* A request a turn began on is answered, or can still be taken up, across every stop and
\* crash; unless the chat let it go, or put it aside with /new; it waited in the queue
\* of a process that ended, or had just left it; its answer was cut off after the marker
\* was gone; its marker could not be written, or was removed or overwritten by the end of
\* a /new or by the lane that /new had put aside; a later interrupted turn took the place
\* of its offer; or a stop or a /new retired the lane it was being queued for.
NothingForgotten == begun \subseteq settled \cup InHand

\* "I'm picking it up again": a turn that is to run again runs, in a turn of its own or
\* joined to a person's message, unless the process ends first, the chat lets it go or
\* says /new, or its channel is off or its queue full, when the offer stays.
PickedUp ==
    \A m \in Msgs :
        m \in taking.msgs /\ RunsAgain(taking) ~>
            \/ m \in lane["current"].mark.msgs
            \/ phase # "up" \/ m \in settled
            \/ m \in offerFile.msgs /\ taking = None /\ resuming["resumer"] = Idle
=============================================================================
