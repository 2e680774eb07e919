-------------------------- MODULE TurnMarkersProofs --------------------------
(***************************************************************************)
(* A turn is run again unasked at most once, and once more for every time  *)
(* its second try lost its mark in a join; never silently after a noted    *)
(* change; and no request is forgotten but in the ways the code's excuses  *)
(* name: for every number of messages, every capacity of the lane's queue  *)
(* and every number of stops, crashes, refused writes and /new's.          *)
(***************************************************************************)
EXTENDS TurnMarkers, SequenceTheorems, TLAPS

\* What a lane's turn can be at each step of it.
LaneOK ==
    \A l \in Lanes :
        /\ (lane[l].pc = "idle") = (lane[l].mark = None)
        /\ lane[l].call # "none" => lane[l].pc \notin {"idle", "took"}
        /\ lane[l].events => lane[l].pc \in {"run", "over", "cut"}
        /\ lane[l].call = "started" => lane[l].pc \in {"run", "cut"}
        /\ lane[l].pc = "cut" => l = "aside"
        /\ lane[l].stop => phase = "draining"

\* What a process that is down, or stops, no longer holds.
PhaseOK ==
    /\ phase = "down" =>
         /\ lane = [l \in Lanes |-> NoTurn] /\ taking = None
         /\ resuming = [x \in Callers |-> Idle] /\ reset = "none"
    /\ phase # "up" => queue = <<>>

\* An offer only goes away while the process is up: what take_up and a resume hold of
\* it is the offer on the disk, or the offer is gone.
OfferOK ==
    /\ taking # None => resuming["resumer"].pc = "ready" /\ offerFile \in {None, taking}
    /\ \A x \in Callers :
         /\ (resuming[x].turn = None) = (resuming[x].pc \in {"ready", "read"})
         /\ resuming[x].turn # None => offerFile \in {None, resuming[x].turn}

\* Whose the file is: the current lane's running turn's, or one that is settled already,
\* as everything is that /new put aside.  A turn that was stopped for a restart may have
\* left its file when the router no longer takes a turn.
FileOK ==
    /\ lane["current"].pc \in {"run", "over", "drained"} =>
         turnFile.msgs \subseteq settled \cup lane["current"].mark.msgs
    /\ lane["current"].pc = "took" => turnFile.msgs \subseteq settled
    /\ phase = "up" /\ lane["current"].pc \in {"idle", "reply"} =>
         turnFile.msgs \subseteq settled
    /\ lane["aside"].mark.msgs \subseteq settled

\* What stands for a turn stands for one that began.
BegunOK ==
    /\ begun \subseteq 1..sent
    /\ turnFile.msgs \cup offerFile.msgs \cup taking.msgs \subseteq begun
    /\ \A x \in Callers : resuming[x].turn.msgs \subseteq begun
    /\ \A l \in Lanes : lane[l].pc # "took" => lane[l].mark.msgs \subseteq begun

\* A job that is no second try is of a message that no turn began on, and nothing else
\* stands for it.
JobsOK ==
    \A i \in DOMAIN queue :
        /\ queue[i].msgs \subseteq 1..sent
        /\ queue[i].resumed => queue[i].msgs \subseteq begun
        /\ ~queue[i].resumed =>
             /\ queue[i].msgs \cap begun = {}
             /\ \A l \in Lanes : queue[i].msgs \cap lane[l].mark.msgs = {}
             /\ \A j \in DOMAIN queue :
                  j # i /\ ~queue[j].resumed => queue[i].msgs \cap queue[j].msgs = {}

\* A turn that was taken on a message that had begun is marked as a second try, or has
\* lost the mark in a join.
TookOK ==
    /\ \A l \in Lanes :
         /\ lane[l].mark.msgs \subseteq 1..sent
         /\ lane[l].pc = "took" =>
              \A m \in lane[l].mark.msgs : m \in begun => lane[l].mark.resumed \/ joined[m] > 0
         /\ lane[l].mark.resumed => lane[l].mark.msgs \subseteq begun
    /\ lane["current"].mark.msgs \cap lane["aside"].mark.msgs \subseteq begun

\* The resumer goes to run m's turn again.
Pending(m) ==
    \/ ~taking.resumed /\ m \in taking.msgs
    \/ resuming["resumer"].pc = "read" /\ m \in offerFile.msgs
    \/ resuming["resumer"].pc \in {"find", "queue"} /\ m \in resuming["resumer"].turn.msgs

\* A restart would find a turn of m that is not marked as a second try.
Unmarked(m) ==
    \/ ~turnFile.resumed /\ m \in turnFile.msgs
    \/ \E l \in Lanes : ~lane[l].mark.resumed /\ m \in lane[l].mark.msgs

\* A message was run again unasked no more often than its mark was lost, while one of
\* its turns may yet be; and less often, while one is about to be and another may be.
OnceOK ==
    \A m \in Msgs :
        /\ again[m] <= 1 + joined[m]
        /\ again[m] > 0 => m \in begun
        /\ Pending(m) \/ Unmarked(m) => again[m] <= joined[m]
        /\ Pending(m) /\ Unmarked(m) => again[m] < joined[m]

\* A changing call of a turn that the file would have run again is in the events' channel,
\* or its note was lost.
NotedOK ==
    \A m \in turnFile.msgs :
        RunsAgain(turnFile) /\ joined[m] = 0 =>
            /\ \A l \in Lanes : m \in lane[l].mark.msgs /\ lane[l].call # "none" =>
                 lane[l].events \/ m \in unnoted
            /\ m \in changed =>
                 m \in unnoted \/ \E l \in Lanes : lane[l].events /\ m \in lane[l].mark.msgs

\* What is left of a request when its process ends is a file.
Marks == lane["current"].mark.msgs \cup lane["aside"].mark.msgs
Safe == settled \cup turnFile.msgs \cup Marks \cup Queued
Filed(t) == t.pc \in {"run", "over", "drained"} \/ (t.pc = "reply" /\ Keeps(t))
KeptOK ==
    /\ begun \subseteq Safe \cup offerFile.msgs
    /\ Filed(lane["current"]) => lane["current"].mark.msgs \subseteq settled \cup turnFile.msgs
    /\ \A x \in Callers : resuming[x].pc = "remove" => resuming[x].turn.msgs \subseteq Safe

IInv ==
    TypeOK /\ LaneOK /\ PhaseOK /\ OfferOK /\ FileOK /\ BegunOK /\ JobsOK /\ TookOK
    /\ OnceOK /\ NotedOK /\ KeptOK
Resuming == [pc : {"ready", "read", "find", "queue", "stray", "remove"},
             turn : InFlight \cup {None}]

USE MarkersAssumption DEF Callers, Lanes, vars, disk, history

-----------------------------------------------------------------------------
(* The inductive invariant *)

\* A record's fields; that of no turn has no message, any other has one.
LEMMA Records ==
    ASSUME NEW t \in InFlight \cup {None}
    PROVE  /\ t.acted \in BOOLEAN /\ t.resumed \in BOOLEAN
           /\ t.msgs \subseteq Msgs
           /\ (t = None) = (t.msgs = {})
<1>1. CASE t \in InFlight
  <2>1. t.msgs \in Requests /\ t.acted \in BOOLEAN /\ t.resumed \in BOOLEAN
    BY <1>1 DEF InFlight
  <2> QED BY <2>1 DEF Requests, None
<1>2. CASE t = None
  BY <1>2 DEF None
<1> QED BY <1>1, <1>2

\* A turn's fields.
LEMMA TurnFields ==
    ASSUME NEW t \in Turns
    PROVE  /\ t.pc \in {"idle", "took", "run", "over", "drained", "reply", "cut"}
           /\ t.mark \in InFlight \cup {None} /\ t.mark.msgs \subseteq Msgs
           /\ t.mark.resumed \in BOOLEAN
           /\ t.call \in {"none", "started", "done"}
           /\ t.events \in BOOLEAN /\ t.stop \in BOOLEAN /\ t.incomplete \in BOOLEAN
<1>1. t.mark \in InFlight \cup {None}
  BY DEF Turns
<1>2. t.mark.msgs \subseteq Msgs /\ t.mark.resumed \in BOOLEAN
  BY <1>1, Records
<1> QED BY <1>1, <1>2 DEF Turns

\* No turn is a turn, of no message.
LEMMA NoTurns ==
    /\ NoTurn \in Turns /\ NoTurn.pc = "idle" /\ NoTurn.mark = None /\ NoTurn.mark.msgs = {}
    /\ NoTurn.call = "none" /\ ~NoTurn.events /\ ~NoTurn.stop /\ ~NoTurn.incomplete
    /\ ~NoTurn.mark.resumed
  BY DEF NoTurn, None, Turns

\* A lane goes on; the other one stays as it is.
LEMMA LaneMoves ==
    ASSUME TypeOK, NEW l \in Lanes, NEW r \in Turns, lane' = [lane EXCEPT ![l] = r]
    PROVE  /\ lane' \in [Lanes -> Turns]
           /\ lane'[l] = r
           /\ \A k \in Lanes : k # l => lane'[k] = lane[k]
  BY DEF TypeOK

\* A caller of resume goes on; the other one stays where it is.
LEMMA CallerMoves ==
    ASSUME TypeOK, NEW x \in Callers, NEW r \in Resuming,
           resuming' = [resuming EXCEPT ![x] = r]
    PROVE  /\ resuming' \in [Callers -> Resuming]
           /\ resuming'[x] = r
           /\ \A y \in Callers : y # x => resuming'[y] = resuming[y]
  BY DEF TypeOK, Resuming

\* The agent's event is sent before the tool does anything.
LEMMA StepCalls ==
    ASSUME IInv, NEW l \in Lanes, Calls(l)
    PROVE  IInv'
<1> USE DEF IInv
<1> DEFINE r == [lane[l] EXCEPT !.call = "started", !.events = TRUE]
<1>l. lane[l] \in Turns
  BY DEF TypeOK
<1>0. /\ r \in Turns /\ lane' = [lane EXCEPT ![l] = r]
      /\ r.mark = lane[l].mark /\ r.pc = lane[l].pc /\ r.call = "started"
      /\ r.events /\ r.stop = lane[l].stop /\ r.incomplete = lane[l].incomplete
  BY <1>l DEF Calls, TypeOK, Turns, NoTurn, None
<1>u. /\ UNCHANGED <<disk, phase, queue, reset, taking, resuming, sent, troubles, begun,
                     changed, again, joined, unnoted, settled>>
      /\ Queued' = Queued /\ phase # "down"
      /\ lane[l].pc = "run"
  BY DEF Calls, Queued, Requested
<1>a. /\ lane' \in [Lanes -> Turns] /\ lane'[l] = r
      /\ \A k \in Lanes : k # l => lane'[k] = lane[k]
  BY <1>0, LaneMoves
<1> HIDE DEF r
<1>1. TypeOK'
  BY <1>0, <1>u, <1>a DEF TypeOK
<1>2. LaneOK'
  BY <1>0, <1>u, <1>a DEF LaneOK
<1>3. PhaseOK'
  BY <1>0, <1>u, <1>a DEF PhaseOK
<1>4. OfferOK'
  BY <1>0, <1>u, <1>a DEF OfferOK
<1>5. FileOK'
  BY <1>0, <1>u, <1>a DEF FileOK
<1>6. BegunOK'
  BY <1>0, <1>u, <1>a DEF BegunOK
<1>7. JobsOK'
  BY <1>0, <1>u, <1>a DEF JobsOK
<1>8. TookOK'
  BY <1>0, <1>u, <1>a DEF TookOK
<1>9. OnceOK'
  BY <1>0, <1>u, <1>a DEF OnceOK, Pending, Unmarked
<1>10. NotedOK'
  BY <1>0, <1>u, <1>a DEF NotedOK
<1>11. KeptOK'
  BY <1>0, <1>u, <1>a DEF KeptOK, Safe, Marks, Filed, Keeps
<1> QED BY <1>1, <1>2, <1>3, <1>4, <1>5, <1>6, <1>7, <1>8, <1>9, <1>10, <1>11 DEF IInv

\* The tool changes something: its event was sent, so the note is on its way or was lost.
LEMMA StepChanges ==
    ASSUME IInv, NEW l \in Lanes, Changes(l)
    PROVE  IInv'
<1> USE DEF IInv
<1> DEFINE r == [lane[l] EXCEPT !.call = "done"]
<1>l. lane[l] \in Turns
  BY DEF TypeOK
<1>0. /\ r \in Turns /\ lane' = [lane EXCEPT ![l] = r]
      /\ r.mark = lane[l].mark /\ r.pc = lane[l].pc /\ r.call = "done"
      /\ r.events = lane[l].events /\ r.stop = lane[l].stop /\ r.incomplete = lane[l].incomplete
  BY <1>l DEF Changes, TypeOK, Turns, NoTurn, None
<1>u. /\ UNCHANGED <<disk, phase, queue, reset, taking, resuming, sent, troubles, begun,
                     again, joined, unnoted, settled>>
      /\ Queued' = Queued /\ phase # "down"
      /\ lane[l].pc = "run" /\ lane[l].call = "started"
      /\ changed' = changed \cup lane[l].mark.msgs
  BY DEF Changes, Queued, Requested
<1>a. /\ lane' \in [Lanes -> Turns] /\ lane'[l] = r
      /\ \A k \in Lanes : k # l => lane'[k] = lane[k]
  BY <1>0, LaneMoves
<1> HIDE DEF r
<1>1. TypeOK'
  BY <1>0, <1>u, <1>a DEF TypeOK, BegunOK
<1>2. LaneOK'
  BY <1>0, <1>u, <1>a DEF LaneOK
<1>3. PhaseOK'
  BY <1>0, <1>u, <1>a DEF PhaseOK
<1>4. OfferOK'
  BY <1>0, <1>u, <1>a DEF OfferOK
<1>5. FileOK'
  BY <1>0, <1>u, <1>a DEF FileOK
<1>6. BegunOK'
  BY <1>0, <1>u, <1>a DEF BegunOK
<1>7. JobsOK'
  BY <1>0, <1>u, <1>a DEF JobsOK
<1>8. TookOK'
  BY <1>0, <1>u, <1>a DEF TookOK
<1>9. OnceOK'
  BY <1>0, <1>u, <1>a DEF OnceOK, Pending, Unmarked
<1>10. NotedOK'
  BY <1>0, <1>u, <1>a DEF NotedOK
<1>11. KeptOK'
  BY <1>0, <1>u, <1>a DEF KeptOK, Safe, Marks, Filed, Keeps
<1> QED BY <1>1, <1>2, <1>3, <1>4, <1>5, <1>6, <1>7, <1>8, <1>9, <1>10, <1>11 DEF IInv

\* The drain of the events ends; what it had not read is a note lost.
LEMMA StepDrainEnds ==
    ASSUME IInv, NEW l \in Lanes, DrainEnds(l)
    PROVE  IInv'
<1> USE DEF IInv
<1> DEFINE r == [lane[l] EXCEPT !.pc = "drained", !.events = FALSE]
<1>l. lane[l] \in Turns
  BY DEF TypeOK
<1>0. /\ r \in Turns /\ lane' = [lane EXCEPT ![l] = r]
      /\ r.mark = lane[l].mark /\ r.pc = "drained" /\ r.call = lane[l].call
      /\ ~r.events /\ r.stop = lane[l].stop /\ r.incomplete = lane[l].incomplete
  BY <1>l DEF DrainEnds, TypeOK, Turns, NoTurn, None
<1>u. /\ UNCHANGED <<disk, phase, queue, reset, taking, resuming, sent, troubles, begun,
                     changed, again, joined, settled>>
      /\ Queued' = Queued /\ phase # "down"
      /\ lane[l].pc = "over"
      /\ unnoted' = IF lane[l].events THEN unnoted \cup lane[l].mark.msgs ELSE unnoted
  BY DEF DrainEnds, Queued, Requested
<1>a. /\ lane' \in [Lanes -> Turns] /\ lane'[l] = r
      /\ \A k \in Lanes : k # l => lane'[k] = lane[k]
  BY <1>0, LaneMoves
<1> HIDE DEF r
<1>1. TypeOK'
  BY <1>0, <1>u, <1>a DEF TypeOK, BegunOK
<1>2. LaneOK'
  BY <1>0, <1>u, <1>a DEF LaneOK
<1>3. PhaseOK'
  BY <1>0, <1>u, <1>a DEF PhaseOK
<1>4. OfferOK'
  BY <1>0, <1>u, <1>a DEF OfferOK
<1>5. FileOK'
  BY <1>0, <1>u, <1>a DEF FileOK
<1>6. BegunOK'
  BY <1>0, <1>u, <1>a DEF BegunOK
<1>7. JobsOK'
  BY <1>0, <1>u, <1>a DEF JobsOK
<1>8. TookOK'
  BY <1>0, <1>u, <1>a DEF TookOK
<1>9. OnceOK'
  BY <1>0, <1>u, <1>a DEF OnceOK, Pending, Unmarked
<1>10. NotedOK'
  BY <1>0, <1>u, <1>a DEF NotedOK
<1>11. KeptOK'
  BY <1>0, <1>u, <1>a DEF KeptOK, Safe, Marks, Filed, Keeps
<1> QED BY <1>1, <1>2, <1>3, <1>4, <1>5, <1>6, <1>7, <1>8, <1>9, <1>10, <1>11 DEF IInv

\* Marker::end removes the file of a turn that is over, unless a restart stopped it.
LEMMA StepMarkerEnds ==
    ASSUME IInv, NEW l \in Lanes, MarkerEnds(l)
    PROVE  IInv'
<1> USE DEF IInv
<1> DEFINE r == [lane[l] EXCEPT !.pc = "reply"]
<1>l. lane[l] \in Turns
  BY DEF TypeOK
<1>0. /\ r \in Turns /\ lane' = [lane EXCEPT ![l] = r]
      /\ r.mark = lane[l].mark /\ r.pc = "reply" /\ r.call = lane[l].call
      /\ r.events = lane[l].events /\ r.stop = lane[l].stop /\ r.incomplete = lane[l].incomplete
  BY <1>l DEF MarkerEnds, TypeOK, Turns, NoTurn, None
<1>u. /\ UNCHANGED <<phase, queue, reset, taking, resuming, sent, troubles, begun, changed,
                     again, joined, unnoted>>
      /\ Queued' = Queued /\ phase # "down"
      /\ lane[l].pc = "drained" /\ offerFile' = offerFile
      /\ turnFile' = IF Keeps(lane[l]) THEN turnFile ELSE None
      /\ settled' = settled \cup Trampled(l) /\ None.msgs = {} /\ ~None.resumed
  BY DEF MarkerEnds, Queued, Requested, None
<1>a. /\ lane' \in [Lanes -> Turns] /\ lane'[l] = r
      /\ \A k \in Lanes : k # l => lane'[k] = lane[k]
  BY <1>0, LaneMoves
<1> HIDE DEF r
<1>1. TypeOK'
  BY <1>0, <1>u, <1>a, Records DEF TypeOK, Trampled
<1>2. LaneOK'
  BY <1>0, <1>u, <1>a DEF LaneOK
<1>3. PhaseOK'
  BY <1>0, <1>u, <1>a DEF PhaseOK
<1>4. OfferOK'
  BY <1>u DEF OfferOK
<1>5. FileOK'
  BY <1>0, <1>u, <1>a DEF FileOK, LaneOK, Keeps, Trampled
<1>6. BegunOK'
  BY <1>0, <1>u, <1>a DEF BegunOK
<1>7. JobsOK'
  BY <1>0, <1>u, <1>a DEF JobsOK
<1>8. TookOK'
  BY <1>0, <1>u, <1>a DEF TookOK
<1>9. OnceOK'
  BY <1>0, <1>u, <1>a DEF OnceOK, Pending, Unmarked
<1>10. NotedOK'
  BY <1>0, <1>u, <1>a DEF NotedOK
<1>11. KeptOK'
  BY <1>0, <1>u, <1>a DEF KeptOK, Safe, Marks, Filed, Keeps, FileOK, Trampled
<1> QED BY <1>1, <1>2, <1>3, <1>4, <1>5, <1>6, <1>7, <1>8, <1>9, <1>10, <1>11 DEF IInv

\* The reply is sent and the lane is ready again; a kept turn is left to its file.
LEMMA StepReplies ==
    ASSUME IInv, NEW l \in Lanes, Replies(l)
    PROVE  IInv'
<1> USE DEF IInv
<1> DEFINE r == NoTurn
<1>l. lane[l] \in Turns
  BY DEF TypeOK
<1>0. /\ r \in Turns /\ lane' = [lane EXCEPT ![l] = r]
      /\ r = NoTurn
  BY <1>l DEF Replies, TypeOK, Turns, NoTurn, None
<1>u. /\ UNCHANGED <<disk, phase, queue, reset, taking, resuming, sent, troubles, begun,
        changed, again, joined, unnoted>>
      /\ Queued' = Queued /\ phase # "down"
      /\ lane[l].pc = "reply"
      /\ settled' = IF Keeps(lane[l]) THEN settled ELSE settled \cup lane[l].mark.msgs
  BY DEF Replies, Queued, Requested, Keeps
<1>a. /\ lane' \in [Lanes -> Turns] /\ lane'[l] = r
      /\ \A k \in Lanes : k # l => lane'[k] = lane[k]
  BY <1>0, LaneMoves
<1> HIDE DEF r
<1>s. settled \subseteq settled' /\ settled' \subseteq settled \cup lane[l].mark.msgs
  BY <1>u
<1>1. TypeOK'
  <2>1. settled' \subseteq Msgs
    BY <1>l, <1>s, TurnFields DEF TypeOK
  <2> QED BY <1>0, <1>u, <1>a, <2>1, NoTurns DEF TypeOK
<1>2. LaneOK'
  BY <1>0, <1>u, <1>a, NoTurns DEF LaneOK
<1>3. PhaseOK'
  BY <1>0, <1>u, <1>a DEF PhaseOK
<1>4. OfferOK'
  BY <1>0, <1>u, <1>a DEF OfferOK
<1>5. FileOK'
  BY <1>0, <1>s, <1>u, <1>a, NoTurns DEF FileOK, Keeps, LaneOK
<1>6. BegunOK'
  BY <1>0, <1>u, <1>a, NoTurns DEF BegunOK
<1>7. JobsOK'
  BY <1>0, <1>u, <1>a, NoTurns DEF JobsOK
<1>8. TookOK'
  BY <1>0, <1>u, <1>a, NoTurns DEF TookOK
<1>9. OnceOK'
  BY <1>0, <1>u, <1>a, NoTurns DEF OnceOK, Pending, Unmarked
<1>10. NotedOK'
  BY <1>0, <1>u, <1>a, NoTurns DEF NotedOK, LaneOK
<1>11. KeptOK'
  BY <1>0, <1>u, <1>a, NoTurns DEF KeptOK, Safe, Marks, Filed, Keeps, FileOK, LaneOK
<1> QED BY <1>1, <1>2, <1>3, <1>4, <1>5, <1>6, <1>7, <1>8, <1>9, <1>10, <1>11 DEF IInv

\* The running turn is stopped for the restart.
LEMMA StepStopsForRestart ==
    ASSUME IInv, StopsForRestart
    PROVE  IInv'
<1> USE DEF IInv
<1> DEFINE r == [lane["current"] EXCEPT !.stop = TRUE]
<1>l. lane["current"] \in Turns
  BY DEF TypeOK
<1>0. /\ r \in Turns /\ lane' = [lane EXCEPT !["current"] = r]
      /\ r.mark = lane["current"].mark /\ r.pc = lane["current"].pc
      /\ r.call = lane["current"].call /\ r.events = lane["current"].events
      /\ r.stop /\ r.incomplete = lane["current"].incomplete
  BY <1>l DEF StopsForRestart, TypeOK, Turns, NoTurn, None
<1>u. /\ UNCHANGED <<disk, phase, queue, reset, taking, resuming, sent, troubles, begun,
                     changed, again, joined, unnoted, settled>>
      /\ Queued' = Queued /\ phase # "down"
      /\ lane["current"].pc \in {"run", "over", "drained"} /\ phase = "draining"
  BY DEF StopsForRestart, Queued, Requested
<1>a. /\ lane' \in [Lanes -> Turns] /\ lane'["current"] = r
      /\ \A k \in Lanes : k # "current" => lane'[k] = lane[k]
  BY <1>0, LaneMoves
<1> HIDE DEF r
<1>1. TypeOK'
  BY <1>0, <1>u, <1>a DEF TypeOK
<1>2. LaneOK'
  BY <1>0, <1>u, <1>a DEF LaneOK
<1>3. PhaseOK'
  BY <1>0, <1>u, <1>a DEF PhaseOK
<1>4. OfferOK'
  BY <1>0, <1>u, <1>a DEF OfferOK
<1>5. FileOK'
  BY <1>0, <1>u, <1>a DEF FileOK
<1>6. BegunOK'
  BY <1>0, <1>u, <1>a DEF BegunOK
<1>7. JobsOK'
  BY <1>0, <1>u, <1>a DEF JobsOK
<1>8. TookOK'
  BY <1>0, <1>u, <1>a DEF TookOK
<1>9. OnceOK'
  BY <1>0, <1>u, <1>a DEF OnceOK, Pending, Unmarked
<1>10. NotedOK'
  BY <1>0, <1>u, <1>a DEF NotedOK
<1>11. KeptOK'
  BY <1>0, <1>u, <1>a DEF KeptOK, Safe, Marks, Filed, Keeps
<1> QED BY <1>1, <1>2, <1>3, <1>4, <1>5, <1>6, <1>7, <1>8, <1>9, <1>10, <1>11 DEF IInv

\* The agent's run returns.
LEMMA StepReturns ==
    ASSUME IInv, NEW l \in Lanes, Returns(l)
    PROVE  IInv'
<1> USE DEF IInv
<1>i. PICK i \in BOOLEAN :
        lane' = [lane EXCEPT ![l].pc = "over", ![l].incomplete = (i \/ lane[l].stop)]
  BY DEF Returns
<1> DEFINE r == [lane[l] EXCEPT !.pc = "over", !.incomplete = (i \/ lane[l].stop)]
<1>l. lane[l] \in Turns
  BY DEF TypeOK
<1>0. /\ r \in Turns /\ lane' = [lane EXCEPT ![l] = r]
      /\ r.mark = lane[l].mark /\ r.pc = "over" /\ r.call = lane[l].call
      /\ r.events = lane[l].events /\ r.stop = lane[l].stop
  BY <1>l, <1>i DEF TypeOK, Turns, NoTurn, None
<1>u. /\ UNCHANGED <<disk, phase, queue, reset, taking, resuming, sent, troubles, begun,
                     changed, again, joined, unnoted, settled>>
      /\ Queued' = Queued /\ phase # "down"
      /\ lane[l].pc = "run" /\ lane[l].call # "started"
  BY DEF Returns, Queued, Requested
<1>a. /\ lane' \in [Lanes -> Turns] /\ lane'[l] = r
      /\ \A k \in Lanes : k # l => lane'[k] = lane[k]
  BY <1>0, LaneMoves
<1> HIDE DEF r
<1>1. TypeOK'
  BY <1>0, <1>u, <1>a DEF TypeOK
<1>2. LaneOK'
  BY <1>0, <1>u, <1>a DEF LaneOK
<1>3. PhaseOK'
  BY <1>0, <1>u, <1>a DEF PhaseOK
<1>4. OfferOK'
  BY <1>0, <1>u, <1>a DEF OfferOK
<1>5. FileOK'
  BY <1>0, <1>u, <1>a DEF FileOK
<1>6. BegunOK'
  BY <1>0, <1>u, <1>a DEF BegunOK
<1>7. JobsOK'
  BY <1>0, <1>u, <1>a DEF JobsOK
<1>8. TookOK'
  BY <1>0, <1>u, <1>a DEF TookOK
<1>9. OnceOK'
  BY <1>0, <1>u, <1>a DEF OnceOK, Pending, Unmarked
<1>10. NotedOK'
  BY <1>0, <1>u, <1>a DEF NotedOK
<1>11. KeptOK'
  BY <1>0, <1>u, <1>a DEF KeptOK, Safe, Marks, Filed, Keeps
<1> QED BY <1>1, <1>2, <1>3, <1>4, <1>5, <1>6, <1>7, <1>8, <1>9, <1>10, <1>11 DEF IInv

\* take_up tells the chat of the turn, and resumes it or leaves the offer.
LEMMA StepTells ==
    ASSUME IInv, Tells
    PROVE  IInv'
<1> USE DEF IInv
<1> DEFINE r == IF resuming' = resuming THEN resuming["resumer"]
                ELSE [resuming["resumer"] EXCEPT !.pc = "read"]
<1>0. /\ r \in Resuming /\ resuming' = [resuming EXCEPT !["resumer"] = r]
      /\ r.turn = None /\ resuming["resumer"].turn = None /\ r.pc \in {"ready", "read"}
      /\ r.pc = "read" => RunsAgain(taking)
      /\ resuming["resumer"].pc = "ready"
  BY DEF Tells, TypeOK, Resuming, OfferOK, Idle
<1>a. /\ resuming' \in [Callers -> Resuming] /\ resuming'["resumer"] = r
      /\ \A y \in Callers : y # "resumer" => resuming'[y] = resuming[y]
  BY <1>0, CallerMoves
<1> HIDE DEF r
<1>u. /\ UNCHANGED <<disk, phase, queue, lane, reset, sent, troubles, begun,
        changed, again, joined, unnoted, settled>>
      /\ Queued' = Queued /\ phase # "down" /\ taking # None /\ taking' = None
  BY DEF Tells, Queued, Requested
<1>1. TypeOK'
  BY <1>0, <1>u, <1>a, Records DEF TypeOK, Resuming
<1>2. LaneOK'
  BY <1>u DEF LaneOK
<1>3. PhaseOK'
  BY <1>u DEF PhaseOK
<1>4. OfferOK'
  BY <1>0, <1>u, <1>a, Records DEF OfferOK
<1>5. FileOK'
  BY <1>u DEF FileOK
<1>6. BegunOK'
  BY <1>0, <1>u, <1>a, Records DEF BegunOK
<1>7. JobsOK'
  BY <1>u DEF JobsOK
<1>8. TookOK'
  BY <1>u DEF TookOK
<1>9. OnceOK'
  <2>1. \A m \in Msgs : Pending(m)' => Pending(m)
    BY <1>0, <1>u, <1>a DEF Pending, OfferOK, RunsAgain, None
  <2>2. \A m \in Msgs : Unmarked(m)' = Unmarked(m)
    BY <1>u DEF Unmarked
  <2> QED BY <1>u, <2>1, <2>2 DEF OnceOK
<1>10. NotedOK'
  BY <1>u DEF NotedOK
<1>11. KeptOK'
  BY <1>0, <1>u, <1>a, Records DEF KeptOK, Safe, Marks, Filed, Keeps, OfferOK
<1> QED BY <1>1, <1>2, <1>3, <1>4, <1>5, <1>6, <1>7, <1>8, <1>9, <1>10, <1>11 DEF IInv

\* The chat's /continue.
LEMMA StepContinues ==
    ASSUME IInv, Continues
    PROVE  IInv'
<1> USE DEF IInv
<1> DEFINE r == [resuming["chat"] EXCEPT !.pc = "read"]
<1>0. /\ r \in Resuming /\ resuming' = [resuming EXCEPT !["chat"] = r]
      /\ r.turn = None /\ resuming["chat"].turn = None /\ r.pc = "read"
  BY DEF Continues, TypeOK, Resuming, OfferOK, Idle, ChatIsFree
<1>a. /\ resuming' \in [Callers -> Resuming] /\ resuming'["chat"] = r
      /\ \A y \in Callers : y # "chat" => resuming'[y] = resuming[y]
  BY <1>0, CallerMoves
<1> HIDE DEF r
<1>u. /\ UNCHANGED <<disk, phase, queue, lane, reset, taking, sent, troubles, begun, changed,
                     again, joined, unnoted, settled>>
      /\ Queued' = Queued /\ phase = "up"
  BY DEF Continues, Queued, Requested, ChatIsFree
<1>1. TypeOK'
  BY <1>0, <1>u, <1>a, Records DEF TypeOK, Resuming
<1>2. LaneOK'
  BY <1>u DEF LaneOK
<1>3. PhaseOK'
  BY <1>u DEF PhaseOK
<1>4. OfferOK'
  BY <1>0, <1>u, <1>a, Records DEF OfferOK
<1>5. FileOK'
  BY <1>u DEF FileOK
<1>6. BegunOK'
  BY <1>0, <1>u, <1>a, Records DEF BegunOK
<1>7. JobsOK'
  BY <1>u DEF JobsOK
<1>8. TookOK'
  BY <1>u DEF TookOK
<1>9. OnceOK'
  BY <1>0, <1>u, <1>a, Records DEF OnceOK, Pending, Unmarked, OfferOK
<1>10. NotedOK'
  BY <1>u DEF NotedOK
<1>11. KeptOK'
  BY <1>0, <1>u, <1>a, Records DEF KeptOK, Safe, Marks, Filed, Keeps, OfferOK
<1> QED BY <1>1, <1>2, <1>3, <1>4, <1>5, <1>6, <1>7, <1>8, <1>9, <1>10, <1>11 DEF IInv

\* resume reads the offer, or finds that there is none.
LEMMA StepReadsOffer ==
    ASSUME IInv, NEW x \in Callers, ReadsOffer(x)
    PROVE  IInv'
<1> USE DEF IInv
<1> DEFINE r == IF offerFile = None THEN Idle ELSE [pc |-> "find", turn |-> offerFile]
<1>0. /\ r \in Resuming /\ resuming' = [resuming EXCEPT ![x] = r]
      /\ resuming[x].turn = None /\ resuming[x].pc = "read"
      /\ r.turn = offerFile /\ r.pc = (IF offerFile = None THEN "ready" ELSE "find")
  BY DEF ReadsOffer, TypeOK, Resuming, OfferOK, Idle
<1>a. /\ resuming' \in [Callers -> Resuming] /\ resuming'[x] = r
      /\ \A y \in Callers : y # x => resuming'[y] = resuming[y]
  BY <1>0, CallerMoves
<1> HIDE DEF r
<1>u. /\ UNCHANGED <<disk, phase, queue, lane, reset, taking, sent, troubles, begun, changed,
                     again, joined, unnoted, settled>>
      /\ Queued' = Queued /\ phase # "down"
  BY DEF ReadsOffer, Queued, Requested
<1>1. TypeOK'
  BY <1>0, <1>u, <1>a, Records DEF TypeOK, Resuming
<1>2. LaneOK'
  BY <1>u DEF LaneOK
<1>3. PhaseOK'
  BY <1>u DEF PhaseOK
<1>4. OfferOK'
  BY <1>0, <1>u, <1>a, Records DEF OfferOK
<1>5. FileOK'
  BY <1>u DEF FileOK
<1>6. BegunOK'
  BY <1>0, <1>u, <1>a, Records DEF BegunOK
<1>7. JobsOK'
  BY <1>u DEF JobsOK
<1>8. TookOK'
  BY <1>u DEF TookOK
<1>9. OnceOK'
  BY <1>0, <1>u, <1>a, Records DEF OnceOK, Pending, Unmarked, OfferOK
<1>10. NotedOK'
  BY <1>u DEF NotedOK
<1>11. KeptOK'
  BY <1>0, <1>u, <1>a, Records DEF KeptOK, Safe, Marks, Filed, Keeps, OfferOK
<1> QED BY <1>1, <1>2, <1>3, <1>4, <1>5, <1>6, <1>7, <1>8, <1>9, <1>10, <1>11 DEF IInv

\* resume finds the lane, or gives up and leaves the offer.
LEMMA StepFindsLane ==
    ASSUME IInv, NEW x \in Callers, FindsLane(x)
    PROVE  IInv'
<1> USE DEF IInv
<1> DEFINE r == IF resuming' = [resuming EXCEPT ![x] = Idle] THEN Idle
                ELSE [resuming[x] EXCEPT !.pc = "queue"]
<1>0. /\ r \in Resuming /\ resuming' = [resuming EXCEPT ![x] = r]
      /\ \/ r.pc = "ready" /\ r.turn = None
         \/ r.pc = "queue" /\ r.turn = resuming[x].turn
      /\ resuming[x].pc = "find"
  BY DEF FindsLane, TypeOK, Resuming, OfferOK, Idle
<1>a. /\ resuming' \in [Callers -> Resuming] /\ resuming'[x] = r
      /\ \A y \in Callers : y # x => resuming'[y] = resuming[y]
  BY <1>0, CallerMoves
<1> HIDE DEF r
<1>u. /\ UNCHANGED <<disk, phase, queue, lane, reset, taking, sent, troubles, begun, changed,
                     again, joined, unnoted, settled>>
      /\ Queued' = Queued /\ phase # "down"
  BY DEF FindsLane, Queued, Requested
<1>1. TypeOK'
  BY <1>0, <1>u, <1>a, Records DEF TypeOK, Resuming
<1>2. LaneOK'
  BY <1>u DEF LaneOK
<1>3. PhaseOK'
  BY <1>u DEF PhaseOK
<1>4. OfferOK'
  BY <1>0, <1>u, <1>a, Records DEF OfferOK
<1>5. FileOK'
  BY <1>u DEF FileOK
<1>6. BegunOK'
  BY <1>0, <1>u, <1>a, Records DEF BegunOK
<1>7. JobsOK'
  BY <1>u DEF JobsOK
<1>8. TookOK'
  BY <1>u DEF TookOK
<1>9. OnceOK'
  BY <1>0, <1>u, <1>a, Records DEF OnceOK, Pending, Unmarked, OfferOK
<1>10. NotedOK'
  BY <1>u DEF NotedOK
<1>11. KeptOK'
  BY <1>0, <1>u, <1>a, Records DEF KeptOK, Safe, Marks, Filed, Keeps, OfferOK
<1> QED BY <1>1, <1>2, <1>3, <1>4, <1>5, <1>6, <1>7, <1>8, <1>9, <1>10, <1>11 DEF IInv

\* resume removes the offer of the turn it has queued.
LEMMA StepRemovesOffer ==
    ASSUME IInv, NEW x \in Callers, RemovesOffer(x)
    PROVE  IInv'
<1> USE DEF IInv
<1> DEFINE r == Idle
<1>0. /\ r \in Resuming /\ resuming' = [resuming EXCEPT ![x] = r]
      /\ r.pc = "ready" /\ r.turn = None /\ resuming[x].turn # None /\ resuming[x].pc = "remove"
  BY DEF RemovesOffer, TypeOK, Resuming, OfferOK, Idle
<1>a. /\ resuming' \in [Callers -> Resuming] /\ resuming'[x] = r
      /\ \A y \in Callers : y # x => resuming'[y] = resuming[y]
  BY <1>0, CallerMoves
<1> HIDE DEF r
<1>u. /\ UNCHANGED <<phase, queue, lane, reset, taking, sent, troubles, begun,
        changed, again, joined, unnoted, settled>>
      /\ Queued' = Queued /\ phase # "down" /\ turnFile' = turnFile /\ offerFile' = None
  BY DEF RemovesOffer, Queued, Requested
<1>1. TypeOK'
  BY <1>0, <1>u, <1>a, Records DEF TypeOK, Resuming
<1>2. LaneOK'
  BY <1>u DEF LaneOK
<1>3. PhaseOK'
  BY <1>u DEF PhaseOK
<1>4. OfferOK'
  BY <1>0, <1>u, <1>a, Records DEF OfferOK
<1>5. FileOK'
  BY <1>u DEF FileOK
<1>6. BegunOK'
  BY <1>0, <1>u, <1>a, Records DEF BegunOK
<1>7. JobsOK'
  BY <1>u DEF JobsOK
<1>8. TookOK'
  BY <1>u DEF TookOK
<1>9. OnceOK'
  BY <1>0, <1>u, <1>a, Records DEF OnceOK, Pending, Unmarked, OfferOK
<1>10. NotedOK'
  BY <1>u DEF NotedOK
<1>11. KeptOK'
  BY <1>0, <1>u, <1>a, Records DEF KeptOK, Safe, Marks, Filed, Keeps, OfferOK
<1> QED BY <1>1, <1>2, <1>3, <1>4, <1>5, <1>6, <1>7, <1>8, <1>9, <1>10, <1>11 DEF IInv

\* /continue drop: the offer goes, and its messages are let go.
LEMMA StepLetsGo ==
    ASSUME IInv, LetsGo
    PROVE  IInv'
<1> USE DEF IInv
<1>u. /\ UNCHANGED <<phase, queue, lane, reset, taking, resuming, sent, troubles, begun,
                     changed, again, joined, unnoted>>
      /\ Queued' = Queued /\ phase = "up" /\ turnFile' = turnFile /\ offerFile' = None
      /\ settled' = settled \cup offerFile.msgs
      /\ None.msgs = {}
  BY DEF LetsGo, Queued, Requested, None, ChatIsFree
<1>1. TypeOK'
  BY <1>u, Records DEF TypeOK
<1>2. LaneOK'
  BY <1>u DEF LaneOK
<1>3. PhaseOK'
  BY <1>u DEF PhaseOK
<1>4. OfferOK'
  BY <1>u DEF OfferOK
<1>5. FileOK'
  BY <1>u DEF FileOK
<1>6. BegunOK'
  BY <1>u DEF BegunOK
<1>7. JobsOK'
  BY <1>u DEF JobsOK
<1>8. TookOK'
  BY <1>u DEF TookOK
<1>9. OnceOK'
  BY <1>u, Records DEF OnceOK, Pending, Unmarked
<1>10. NotedOK'
  BY <1>u DEF NotedOK
<1>11. KeptOK'
  BY <1>u DEF KeptOK, Safe, Marks, Filed, Keeps
<1> QED BY <1>1, <1>2, <1>3, <1>4, <1>5, <1>6, <1>7, <1>8, <1>9, <1>10, <1>11 DEF IInv

\* /new removes the chat's offer, and its messages are let go.
LEMMA StepResetLetsGo ==
    ASSUME IInv, ResetLetsGo
    PROVE  IInv'
<1> USE DEF IInv
<1>u. /\ UNCHANGED <<phase, queue, lane, taking, resuming, sent, troubles, begun, changed,
                     again, joined, unnoted>>
      /\ Queued' = Queued /\ phase # "down" /\ turnFile' = turnFile /\ offerFile' = None
      /\ reset' = "none" /\ settled' = settled \cup offerFile.msgs
      /\ None.msgs = {}
  BY DEF ResetLetsGo, Queued, Requested, None
<1>1. TypeOK'
  BY <1>u, Records DEF TypeOK
<1>2. LaneOK'
  BY <1>u DEF LaneOK
<1>3. PhaseOK'
  BY <1>u DEF PhaseOK
<1>4. OfferOK'
  BY <1>u DEF OfferOK
<1>5. FileOK'
  BY <1>u DEF FileOK
<1>6. BegunOK'
  BY <1>u DEF BegunOK
<1>7. JobsOK'
  BY <1>u DEF JobsOK
<1>8. TookOK'
  BY <1>u DEF TookOK
<1>9. OnceOK'
  BY <1>u, Records DEF OnceOK, Pending, Unmarked
<1>10. NotedOK'
  BY <1>u DEF NotedOK
<1>11. KeptOK'
  BY <1>u DEF KeptOK, Safe, Marks, Filed, Keeps
<1> QED BY <1>1, <1>2, <1>3, <1>4, <1>5, <1>6, <1>7, <1>8, <1>9, <1>10, <1>11 DEF IInv

\* Every job is of messages.
LEMMA QueueTyped ==
    ASSUME queue \in Seq(Jobs)
    PROVE  /\ \A i \in DOMAIN queue :
                queue[i].msgs \subseteq Msgs /\ queue[i].resumed \in BOOLEAN
           /\ Queued \subseteq Msgs
<1>1. \A i \in DOMAIN queue : queue[i] \in Jobs
  OBVIOUS
<1>2. \A i \in DOMAIN queue : queue[i].msgs \subseteq Msgs /\ queue[i].resumed \in BOOLEAN
  BY <1>1 DEF Jobs, Requests
<1> QED BY <1>2 DEF Queued, Requested

\* A job is queued behind the others.
LEMMA QueueAppend ==
    ASSUME queue \in Seq(Jobs), NEW j \in Jobs, queue' = Append(queue, j)
    PROVE  /\ queue' \in Seq(Jobs) /\ Len(queue') = Len(queue) + 1
           /\ \A i \in DOMAIN queue' :
                \/ i \in DOMAIN queue /\ queue'[i] = queue[i]
                \/ i = Len(queue) + 1 /\ queue'[i] = j
           /\ Len(queue) \in Nat /\ Len(queue) + 1 \notin DOMAIN queue
           /\ Queued' = Queued \cup j.msgs
<1>1. /\ queue' \in Seq(Jobs) /\ Len(queue') = Len(queue) + 1
      /\ DOMAIN queue = 1..Len(queue) /\ DOMAIN queue' = 1..(Len(queue) + 1)
      /\ Len(queue) \in Nat
  OBVIOUS
<1>2. /\ \A i \in DOMAIN queue : queue'[i] = queue[i]
      /\ queue'[Len(queue) + 1] = j
  BY <1>1
<1>3. Len(queue) + 1 \in DOMAIN queue' /\ Len(queue) + 1 \notin DOMAIN queue
  BY <1>1
<1>4. \A i \in DOMAIN queue' : i \in DOMAIN queue \/ i = Len(queue) + 1
  BY <1>1
<1>5. DOMAIN queue \subseteq DOMAIN queue'
  BY <1>1
<1>6. Queued' = Queued \cup j.msgs
  <2>1. Queued' \subseteq Queued \cup j.msgs
    BY <1>2, <1>4 DEF Queued, Requested
  <2>2. Queued \subseteq Queued'
    BY <1>2, <1>5 DEF Queued, Requested
  <2>3. j.msgs \subseteq Queued'
    BY <1>2, <1>3 DEF Queued, Requested
  <2> QED BY <2>1, <2>2, <2>3
<1> QED BY <1>1, <1>2, <1>3, <1>4, <1>6

\* What waits is dropped.
LEMMA QueueDropped ==
    ASSUME queue \in Seq(Jobs), queue' = <<>>
    PROVE  /\ queue' \in Seq(Jobs) /\ Len(queue') = 0 /\ DOMAIN queue' = {}
           /\ Queued' = {} /\ Queued \subseteq Msgs
<1>1. queue' \in Seq(Jobs) /\ Len(queue') = 0 /\ DOMAIN queue' = {}
  OBVIOUS
<1> QED BY <1>1, QueueTyped DEF Queued, Requested

\* The first n jobs leave the queue, for one turn.
LEMMA QueueTakes ==
    ASSUME queue \in Seq(Jobs), NEW n \in 1..Len(queue),
           queue' = SubSeq(queue, n + 1, Len(queue)),
           NEW t, t = Marked(SubSeq(queue, 1, n))
    PROVE  /\ queue' \in Seq(Jobs) /\ Len(queue') <= Len(queue)
           /\ \A i \in DOMAIN queue' : n + i \in DOMAIN queue /\ queue'[i] = queue[n + i]
           /\ \A i \in DOMAIN queue' : i \in Int
           /\ 1..n \subseteq DOMAIN queue
           /\ t \in InFlight /\ ~t.acted /\ t.resumed = queue[1].resumed
           /\ t.msgs = UNION {queue[i].msgs : i \in 1..n}
           /\ Queued = Queued' \cup t.msgs
<1> DEFINE js == SubSeq(queue, 1, n)
<1>1. /\ Len(queue) \in Nat /\ DOMAIN queue = 1..Len(queue)
      /\ n \in Nat \ {0} /\ n <= Len(queue)
      /\ \A i \in 1..Len(queue) : queue[i] \in Jobs
  OBVIOUS
<1>2. /\ js \in Seq(Jobs) /\ Len(js) = n /\ \A i \in 1..n : js[i] = queue[i]
  <2>1. \A i \in 1..n : queue[i] \in Jobs
    BY <1>1
  <2>2. /\ js \in Seq(Jobs) /\ Len(js) = IF 1 <= n THEN n - 1 + 1 ELSE 0
        /\ \A i \in 1..(n - 1 + 1) : js[i] = queue[1 + i - 1]
    BY <1>1, <2>1, SubSeqProperties
  <2> QED BY <1>1, <2>2
<1>3. /\ queue' \in Seq(Jobs) /\ Len(queue') = Len(queue) - n
      /\ \A i \in 1..(Len(queue) - n) : queue'[i] = queue[n + i]
  <2>1. \A i \in (n + 1)..Len(queue) : queue[i] \in Jobs
    BY <1>1
  <2>2. n + 1 \in Int /\ Len(queue) \in Int
    BY <1>1
  <2>3. /\ queue' \in Seq(Jobs)
        /\ Len(queue') = IF n + 1 <= Len(queue) THEN Len(queue) - (n + 1) + 1 ELSE 0
        /\ \A i \in 1..(Len(queue) - (n + 1) + 1) : queue'[i] = queue[(n + 1) + i - 1]
    BY <2>1, <2>2, SubSeqProperties
  <2>4. ASSUME NEW k \in Nat, n <= k
        PROVE  /\ k - (n + 1) + 1 = k - n
               /\ n + 1 <= k \/ k - n = 0
               /\ \A i \in 1..(k - n) : (n + 1) + i - 1 = n + i
    <3>1. n \in Int /\ k \in Int
      BY <1>1
    <3>2. \A i \in Int : (n + 1) + i - 1 = n + i
      BY <3>1
    <3> QED BY <2>4, <3>1, <3>2
  <2>5. Len(queue') = Len(queue) - n
    BY <1>1, <2>3, <2>4
  <2>6. \A i \in 1..(Len(queue) - n) : queue'[i] = queue[n + i]
    BY <1>1, <2>3, <2>4
  <2> QED BY <2>3, <2>5, <2>6
<1>4. DOMAIN js = 1..n /\ DOMAIN queue' = 1..(Len(queue) - n) /\ 1 \in 1..n
  <2>1. DOMAIN js = 1..Len(js) /\ DOMAIN queue' = 1..Len(queue')
    BY <1>2, <1>3, LenProperties
  <2>2. 1 \in 1..n
    BY <1>1
  <2> QED BY <1>2, <1>3, <2>1, <2>2
<1>5. /\ \A i \in DOMAIN queue' :
           n + i \in DOMAIN queue /\ queue'[i] = queue[n + i] /\ i \in Int
      /\ 1..n \subseteq DOMAIN queue
  <2>1. \A i \in 1..(Len(queue) - n) : n + i \in 1..Len(queue) /\ i \in Int
    BY <1>1
  <2>2. 1..n \subseteq 1..Len(queue)
    BY <1>1
  <2> QED BY <1>1, <1>3, <1>4, <2>1, <2>2
<1>6. Head(js) = queue[1] /\ queue[1].resumed \in BOOLEAN
  <2>1. Head(js) = js[1]
    OBVIOUS
  <2>2. queue[1] \in Jobs
    BY <1>1
  <2> QED BY <1>2, <1>4, <2>1, <2>2 DEF Jobs
<1> HIDE DEF js
<1>7. Requested(js) = UNION {queue[i].msgs : i \in 1..n}
  BY <1>2, <1>4 DEF Requested
<1>8. Requested(js) \in Requests
  <2>1. \A i \in 1..n : queue[i].msgs \in Requests
    BY <1>1 DEF Jobs
  <2> QED BY <1>4, <1>7, <2>1 DEF Requests
<1>9. t \in InFlight /\ ~t.acted /\ t.resumed = queue[1].resumed /\ t.msgs = Requested(js)
  BY <1>6, <1>8 DEF Marked, InFlight, js
<1>10. Queued = Queued' \cup t.msgs
  <2>1. Queued' \subseteq Queued
    BY <1>5 DEF Queued, Requested
  <2>2. t.msgs \subseteq Queued
    BY <1>5, <1>7, <1>9 DEF Queued, Requested
  <2>3. ASSUME NEW i \in DOMAIN queue PROVE queue[i].msgs \subseteq Queued' \cup t.msgs
    <3>1. CASE i \in 1..n
      BY <1>7, <1>9, <3>1
    <3>2. CASE i \notin 1..n
      <4>0. i - n \in 1..(Len(queue) - n) /\ n + (i - n) = i
        BY <1>1, <3>2
      <4>1. i - n \in DOMAIN queue' /\ queue'[i - n] = queue[i]
        BY <1>3, <1>4, <4>0
      <4> QED BY <4>1 DEF Queued, Requested
    <3> QED BY <3>1, <3>2
  <2> QED BY <2>1, <2>2, <2>3 DEF Queued, Requested
<1>11. Len(queue') <= Len(queue)
  <2>1. \A a, b \in Nat : a - b <= a
    OBVIOUS
  <2> QED BY <1>1, <1>3, <2>1
<1> QED BY <1>3, <1>5, <1>7, <1>9, <1>10, <1>11

\* The router closes: what waits is dropped, and its chats told.
LEMMA StepCloses ==
    ASSUME IInv, Closes
    PROVE  IInv'
<1> USE DEF IInv
<1>u. /\ UNCHANGED <<disk, lane, taking, resuming, sent, troubles, begun, changed,
                     again, joined, unnoted>>
      /\ phase = "up" /\ phase' = "draining" /\ reset' \in {reset, "none"} /\ queue' = <<>>
      /\ settled' = settled \cup Queued
  BY DEF Closes
<1>q. /\ queue' \in Seq(Jobs) /\ Len(queue') = 0 /\ DOMAIN queue' = {}
      /\ Queued' = {} /\ Queued \subseteq Msgs
  BY <1>u, QueueDropped DEF TypeOK
<1>1. TypeOK'
  BY <1>u, <1>q DEF TypeOK
<1>2. LaneOK'
  BY <1>u DEF LaneOK
<1>3. PhaseOK'
  BY <1>u DEF PhaseOK
<1>4. OfferOK'
  BY <1>u DEF OfferOK
<1>5. FileOK'
  BY <1>u DEF FileOK
<1>6. BegunOK'
  BY <1>u DEF BegunOK
<1>7. JobsOK'
  BY <1>u, <1>q DEF JobsOK
<1>8. TookOK'
  BY <1>u DEF TookOK
<1>9. OnceOK'
  BY <1>u DEF OnceOK, Pending, Unmarked
<1>10. NotedOK'
  BY <1>u DEF NotedOK
<1>11. KeptOK'
  BY <1>u, <1>q DEF KeptOK, Safe, Marks, Filed, Keeps
<1> QED BY <1>1, <1>2, <1>3, <1>4, <1>5, <1>6, <1>7, <1>8, <1>9, <1>10, <1>11 DEF IInv

\* The process ends: the files are what is left.
LEMMA StepEnds ==
    ASSUME IInv, Ends
    PROVE  IInv'
<1> USE DEF IInv
<1>u. /\ UNCHANGED <<disk, sent, begun, changed, again, joined>>
      /\ phase' = "down" /\ troubles < MaxTroubles /\ troubles' = troubles + 1 /\ queue' = <<>>
      /\ reset' = "none" /\ lane' = [l \in Lanes |-> NoTurn]
      /\ taking' = None /\ resuming' = [x \in Callers |-> Idle]
  BY DEF Ends
<1>h. /\ unnoted' =
           unnoted \cup UNION {lane[l].mark.msgs : l \in {k \in Lanes : lane[k].events}}
      /\ settled' = settled \cup Queued \cup UNION {Lost(lane[l]) : l \in Lanes}
  BY DEF Ends
<1>q. /\ queue' \in Seq(Jobs) /\ Len(queue') = 0 /\ DOMAIN queue' = {}
      /\ Queued' = {} /\ Queued \subseteq Msgs
  BY <1>u, QueueDropped DEF TypeOK
<1>r. /\ resuming' \in [Callers -> Resuming]
      /\ \A x \in Callers : resuming'[x].pc = "ready" /\ resuming'[x].turn = None
      /\ None.msgs = {} /\ ~None.resumed
  BY <1>u DEF Idle, Resuming, None
<1>l. /\ lane' \in [Lanes -> Turns] /\ \A l \in Lanes : lane'[l] = NoTurn
  BY <1>u, NoTurns
<1>f. \A l \in Lanes : lane[l].mark.msgs \subseteq Msgs
  BY TurnFields DEF TypeOK
<1>1. TypeOK'
  <2>1. troubles' \in 0..MaxTroubles
    BY <1>u DEF TypeOK
  <2>2. unnoted' \subseteq begun
    BY <1>h DEF TypeOK, LaneOK, BegunOK
  <2>3. settled' \subseteq Msgs
    BY <1>h, <1>q, <1>f DEF TypeOK, Lost
  <2>4. queue' \in Seq(Jobs) /\ Len(queue') <= Capacity
    BY <1>q
  <2> QED BY <1>u, <1>r, <1>l, <2>1, <2>2, <2>3, <2>4 DEF TypeOK, Resuming
<1>2. LaneOK'
  BY <1>u, <1>h, <1>q, <1>r, <1>l, NoTurns DEF LaneOK
<1>3. PhaseOK'
  BY <1>u DEF PhaseOK
<1>4. OfferOK'
  BY <1>u, <1>h, <1>q, <1>r, <1>l, NoTurns DEF OfferOK
<1>5. FileOK'
  BY <1>u, <1>h, <1>q, <1>r, <1>l, NoTurns DEF FileOK
<1>6. BegunOK'
  BY <1>u, <1>h, <1>q, <1>r, <1>l, NoTurns DEF BegunOK
<1>7. JobsOK'
  BY <1>u, <1>h, <1>q, <1>r, <1>l, NoTurns DEF JobsOK
<1>8. TookOK'
  BY <1>u, <1>h, <1>q, <1>r, <1>l, NoTurns DEF TookOK
<1>9. OnceOK'
  BY <1>u, <1>h, <1>q, <1>r, <1>l, NoTurns DEF OnceOK, Pending, Unmarked
<1>10. NotedOK'
  BY <1>u, <1>h, <1>q, <1>r, <1>l, NoTurns DEF NotedOK
<1>11. KeptOK'
  <2>1. Lost(lane["current"]) \cup Lost(lane["aside"]) \cup Queued \cup settled
          \subseteq settled'
    BY <1>h
  <2>2. lane["current"].mark.msgs \subseteq settled' \cup turnFile.msgs
    <3>1. lane["current"] \in Turns
      BY DEF TypeOK
    <3> QED BY <2>1, <3>1, <1>r, TurnFields DEF KeptOK, Filed, Lost, Keeps, LaneOK
  <2>3. lane["aside"].mark.msgs \subseteq settled'
    BY <2>1 DEF FileOK
  <2> QED BY <1>u, <1>r, <1>l, <2>1, <2>2, <2>3, NoTurns DEF KeptOK, Safe, Marks, Filed
<1> QED BY <1>1, <1>2, <1>3, <1>4, <1>5, <1>6, <1>7, <1>8, <1>9, <1>10, <1>11 DEF IInv

\* The next start makes the file left an offer, over an older one.
LEMMA StepStarts ==
    ASSUME IInv, Starts
    PROVE  IInv'
<1> USE DEF IInv
<1>u. /\ UNCHANGED <<queue, lane, reset, resuming, sent, troubles, begun, changed,
                     again, joined, unnoted>>
      /\ Queued' = Queued /\ phase = "down" /\ phase' = "up"
  BY DEF Starts, Queued, Requested
<1>r. /\ \A x \in Callers : resuming[x].pc = "ready" /\ resuming[x].turn = None
      /\ taking = None
  BY <1>u DEF PhaseOK, Idle
<1>l. \A l \in Lanes : lane[l] = NoTurn
  BY <1>u DEF PhaseOK
<1>n. None.msgs = {} /\ ~None.resumed
  BY DEF None
<1>s. CASE turnFile = None
  <2>u. UNCHANGED <<disk, taking, settled>>
    BY <1>s DEF Starts
  <2>1. TypeOK'
    BY <1>u, <1>r, <1>l, <1>n, <2>u DEF TypeOK
  <2>2. LaneOK'
    BY <1>u, <1>r, <1>l, <1>n, <2>u DEF LaneOK
  <2>3. PhaseOK'
    BY <1>u, <1>r, <1>l, <1>n, <2>u DEF PhaseOK
  <2>4. OfferOK'
    BY <1>u, <1>r, <1>l, <1>n, <2>u DEF OfferOK
  <2>5. FileOK'
    BY <1>s, <1>u, <1>r, <1>l, <1>n, <2>u, NoTurns DEF FileOK
  <2>6. BegunOK'
    BY <1>u, <1>r, <1>l, <1>n, <2>u DEF BegunOK
  <2>7. JobsOK'
    BY <1>u, <1>r, <1>l, <1>n, <2>u DEF JobsOK
  <2>8. TookOK'
    BY <1>u, <1>r, <1>l, <1>n, <2>u DEF TookOK
  <2>9. OnceOK'
    BY <1>u, <1>r, <1>l, <1>n, <2>u DEF OnceOK, Pending, Unmarked
  <2>10. NotedOK'
    BY <1>u, <1>r, <1>l, <1>n, <2>u DEF NotedOK
  <2>11. KeptOK'
    BY <1>u, <1>r, <1>l, <1>n, <2>u DEF KeptOK, Safe, Marks, Filed, Keeps
  <2> QED BY <2>1, <2>2, <2>3, <2>4, <2>5, <2>6, <2>7, <2>8, <2>9, <2>10, <2>11 DEF IInv
<1>t. CASE turnFile # None
  <2>u. /\ offerFile' = turnFile /\ turnFile' = None /\ taking' = turnFile
        /\ settled' = settled \cup (offerFile.msgs \ turnFile.msgs)
    BY <1>t DEF Starts
  <2>1. TypeOK'
    BY <1>u, <1>t, <2>u, Records DEF TypeOK, BegunOK
  <2>2. LaneOK'
    BY <1>u, <1>r, <1>l, <1>n, <1>t, <2>u, NoTurns DEF LaneOK
  <2>3. PhaseOK'
    BY <1>u, <1>r, <1>l, <1>n, <1>t, <2>u, NoTurns DEF PhaseOK
  <2>4. OfferOK'
    BY <1>u, <1>r, <1>l, <1>n, <1>t, <2>u, NoTurns DEF OfferOK
  <2>5. FileOK'
    BY <1>u, <1>r, <1>l, <1>n, <1>t, <2>u, NoTurns DEF FileOK
  <2>6. BegunOK'
    BY <1>u, <1>r, <1>l, <1>n, <1>t, <2>u, NoTurns DEF BegunOK
  <2>7. JobsOK'
    BY <1>u, <1>r, <1>l, <1>n, <1>t, <2>u, NoTurns DEF JobsOK
  <2>8. TookOK'
    BY <1>u, <1>r, <1>l, <1>n, <1>t, <2>u, NoTurns DEF TookOK
  <2>9. OnceOK'
    BY <1>u, <1>r, <1>l, <1>n, <1>t, <2>u, NoTurns DEF OnceOK, Pending, Unmarked
  <2>10. NotedOK'
    BY <1>u, <1>r, <1>l, <1>n, <1>t, <2>u, NoTurns DEF NotedOK
  <2>11. KeptOK'
    BY <1>u, <1>r, <1>l, <1>n, <1>t, <2>u, NoTurns DEF KeptOK, Safe, Marks, Filed, Keeps
  <2> QED BY <2>1, <2>2, <2>3, <2>4, <2>5, <2>6, <2>7, <2>8, <2>9, <2>10, <2>11 DEF IInv
<1> QED BY <1>s, <1>t

\* A message is queued for the first time: no turn began on it, and nothing stands for it.
LEMMA StepSends ==
    ASSUME IInv, Sends
    PROVE  IInv'
<1> USE DEF IInv
<1> DEFINE j == [msgs |-> {sent + 1}, resumed |-> FALSE]
<1>u. /\ UNCHANGED <<disk, phase, lane, reset, taking, resuming, troubles, history>>
      /\ phase = "up" /\ sent < MaxMsgs /\ sent' = sent + 1
      /\ queue' = IF Len(queue) < Capacity THEN Append(queue, j) ELSE queue
  BY DEF Sends, ChatIsFree
<1>j. j \in Jobs /\ j.msgs = {sent + 1} /\ ~j.resumed /\ sent \in Nat /\ sent + 1 \in Msgs
  <2>1. sent + 1 \in Msgs /\ sent \in Nat
    BY <1>u DEF TypeOK, Msgs
  <2> QED BY <2>1 DEF Jobs, Requests
<1> HIDE DEF j
<1>s. sent + 1 \notin 1..sent /\ 1..sent \subseteq 1..(sent + 1)
  BY <1>j
<1>q. /\ queue' \in Seq(Jobs) /\ Len(queue') <= Capacity /\ Queued \subseteq Queued'
      /\ \A i \in DOMAIN queue' :
           \/ i \in DOMAIN queue /\ queue'[i] = queue[i]
           \/ i = Len(queue) + 1 /\ queue'[i] = j
  <2>1. CASE queue' = Append(queue, j) /\ Len(queue) < Capacity
    <3>1. /\ queue' \in Seq(Jobs) /\ Len(queue') = Len(queue) + 1 /\ Len(queue) \in Nat
          /\ Queued' = Queued \cup j.msgs
          /\ \A i \in DOMAIN queue' :
               \/ i \in DOMAIN queue /\ queue'[i] = queue[i]
               \/ i = Len(queue) + 1 /\ queue'[i] = j
      BY <1>j, <2>1, QueueAppend DEF TypeOK
    <3>2. Len(queue') <= Capacity
      BY <2>1, <3>1
    <3> QED BY <3>1, <3>2
  <2>2. CASE queue' = queue
    BY <2>2 DEF TypeOK, Queued, Requested
  <2> QED BY <1>u, <2>1, <2>2
<1>1. TypeOK'
  <2>1. sent' \in 0..MaxMsgs
    BY <1>u, <1>j DEF TypeOK
  <2> QED BY <1>u, <1>q, <2>1 DEF TypeOK
<1>2. LaneOK'
  BY <1>u DEF LaneOK
<1>3. PhaseOK'
  BY <1>u DEF PhaseOK
<1>4. OfferOK'
  BY <1>u DEF OfferOK
<1>5. FileOK'
  BY <1>u DEF FileOK
<1>6. BegunOK'
  BY <1>u, <1>s DEF BegunOK
<1>7. JobsOK'
  <2>1. /\ j.msgs \subseteq 1..sent' /\ j.msgs \cap begun' = {}
        /\ \A l \in Lanes : j.msgs \cap lane'[l].mark.msgs = {}
    BY <1>u, <1>j, <1>s DEF BegunOK, TookOK
  <2>2. \A i \in DOMAIN queue :
          queue[i].msgs \subseteq 1..sent' /\ queue[i].msgs \cap j.msgs = {}
    BY <1>u, <1>j, <1>s DEF JobsOK
  <2> SUFFICES ASSUME NEW i \in DOMAIN queue'
               PROVE  /\ queue'[i].msgs \subseteq 1..sent'
                      /\ queue'[i].resumed => queue'[i].msgs \subseteq begun'
                      /\ ~queue'[i].resumed =>
                           /\ queue'[i].msgs \cap begun' = {}
                           /\ \A l \in Lanes : queue'[i].msgs \cap lane'[l].mark.msgs = {}
                           /\ \A k \in DOMAIN queue' :
                                k # i /\ ~queue'[k].resumed =>
                                  queue'[i].msgs \cap queue'[k].msgs = {}
    BY DEF JobsOK
  <2>3. CASE i \in DOMAIN queue /\ queue'[i] = queue[i]
    <3>1. \A k \in DOMAIN queue' : k # i /\ ~queue'[i].resumed /\ ~queue'[k].resumed =>
            queue'[i].msgs \cap queue'[k].msgs = {}
      BY <1>q, <2>2, <2>3 DEF JobsOK
    <3> QED BY <1>u, <2>2, <2>3, <3>1 DEF JobsOK
  <2>4. CASE i = Len(queue) + 1 /\ queue'[i] = j
    <3>1. \A k \in DOMAIN queue' : k # i => queue'[i].msgs \cap queue'[k].msgs = {}
      BY <1>q, <2>2, <2>4
    <3> QED BY <1>j, <2>1, <2>4, <3>1
  <2> QED BY <1>q, <2>3, <2>4
<1>8. TookOK'
  BY <1>u, <1>s DEF TookOK
<1>9. OnceOK'
  BY <1>u DEF OnceOK, Pending, Unmarked
<1>10. NotedOK'
  BY <1>u DEF NotedOK
<1>11. KeptOK'
  BY <1>u, <1>q DEF KeptOK, Safe, Marks, Filed, Keeps
<1> QED BY <1>1, <1>2, <1>3, <1>4, <1>5, <1>6, <1>7, <1>8, <1>9, <1>10, <1>11 DEF IInv

\* The lane that /new put aside has ended, or is aborted, and the file is removed.
LEMMA StepResetEnds ==
    ASSUME IInv, ResetEnds
    PROVE  IInv'
<1> USE DEF IInv
<1>u. /\ UNCHANGED <<offerFile, phase, queue, taking, resuming, sent, troubles, begun,
                     changed, again, joined, unnoted>>
      /\ Queued' = Queued /\ phase # "down" /\ lane["aside"].pc # "took"
      /\ reset' = "offer" /\ turnFile' = None /\ settled' = settled \cup turnFile.msgs
  BY DEF ResetEnds, Queued, Requested
<1>n. None.msgs = {} /\ ~None.resumed
  BY DEF None
<1> DEFINE r == IF lane["aside"].events THEN [lane["aside"] EXCEPT !.pc = "cut"] ELSE NoTurn
<1>l. lane["aside"] \in Turns
  BY DEF TypeOK
<1>0. /\ r \in Turns /\ lane' = [lane EXCEPT !["aside"] = r]
      /\ \/ /\ r.pc = "cut" /\ r.mark = lane["aside"].mark /\ r.call = lane["aside"].call
            /\ r.events /\ lane["aside"].events /\ r.stop = lane["aside"].stop
         \/ r = NoTurn /\ ~lane["aside"].events
  BY <1>l, NoTurns DEF ResetEnds, TypeOK, Turns
<1>a. /\ lane' \in [Lanes -> Turns] /\ lane'["aside"] = r
      /\ \A k \in Lanes : k # "aside" => lane'[k] = lane[k]
  BY <1>0, LaneMoves
<1> HIDE DEF r
<1>1. TypeOK'
  BY <1>u, <1>a, Records DEF TypeOK
<1>2. LaneOK'
  BY <1>0, <1>u, <1>n, <1>a, <1>l, NoTurns, TurnFields DEF LaneOK
<1>3. PhaseOK'
  BY <1>0, <1>u, <1>n, <1>a, NoTurns DEF PhaseOK
<1>4. OfferOK'
  BY <1>0, <1>u, <1>n, <1>a, NoTurns DEF OfferOK
<1>5. FileOK'
  BY <1>0, <1>u, <1>n, <1>a, NoTurns DEF FileOK
<1>6. BegunOK'
  BY <1>0, <1>u, <1>n, <1>a, NoTurns DEF BegunOK
<1>7. JobsOK'
  BY <1>0, <1>u, <1>n, <1>a, NoTurns DEF JobsOK
<1>8. TookOK'
  BY <1>0, <1>u, <1>n, <1>a, NoTurns DEF TookOK
<1>9. OnceOK'
  BY <1>0, <1>u, <1>n, <1>a, NoTurns DEF OnceOK, Pending, Unmarked
<1>10. NotedOK'
  BY <1>0, <1>u, <1>n, <1>a, NoTurns DEF NotedOK
<1>11. KeptOK'
  <2>1. lane["aside"].mark.msgs \cup turnFile.msgs \cup settled \subseteq settled'
    BY <1>u DEF FileOK
  <2>2. lane'["current"] = lane["current"]
    BY <1>a
  <2>3. Safe \subseteq Safe'
    BY <1>u, <2>1, <2>2 DEF Safe, Marks
  <2>4. begun' \subseteq Safe' \cup offerFile'.msgs
    BY <1>u, <2>3 DEF KeptOK
  <2>5. Filed(lane'["current"]) =>
          lane'["current"].mark.msgs \subseteq settled' \cup turnFile'.msgs
    BY <2>1, <2>2 DEF KeptOK
  <2>6. \A x \in Callers : resuming'[x].pc = "remove" => resuming'[x].turn.msgs \subseteq Safe'
    BY <1>u, <2>3 DEF KeptOK
  <2> QED BY <2>4, <2>5, <2>6 DEF KeptOK, Filed, Keeps
<1> QED BY <1>1, <1>2, <1>3, <1>4, <1>5, <1>6, <1>7, <1>8, <1>9, <1>10, <1>11 DEF IInv

\* /new puts the lane aside: all that stood for the chat's requests is settled.
LEMMA StepResetRetires ==
    ASSUME IInv, ResetRetires
    PROVE  IInv'
<1> USE DEF IInv
<1>u. /\ UNCHANGED <<disk, phase, taking, sent, begun, changed, again, joined, unnoted>>
      /\ phase # "down" /\ troubles < MaxTroubles /\ troubles' = troubles + 1
      /\ reset' = "wait" /\ queue' = <<>> /\ settled' = settled \cup InHand
      /\ lane["aside"] = NoTurn
  BY DEF ResetRetires
<1>q. /\ queue' \in Seq(Jobs) /\ Len(queue') = 0 /\ DOMAIN queue' = {}
      /\ Queued' = {} /\ Queued \subseteq Msgs
  BY <1>u, QueueDropped DEF TypeOK
<1>l. /\ lane' \in [Lanes -> Turns]
      /\ lane'["aside"] = lane["current"] /\ lane'["current"] = NoTurn
  BY NoTurns DEF ResetRetires, TypeOK
<1>f. \A l \in Lanes : lane[l] \in Turns /\ lane[l].mark.msgs \subseteq Msgs
  BY TurnFields DEF TypeOK
<1>i. /\ Queued \cup turnFile.msgs \cup offerFile.msgs \cup taking.msgs \cup Marks
           \subseteq settled'
      /\ InHand \subseteq Msgs
  <2>1. Marks = UNION {lane[l].mark.msgs : l \in Lanes}
    BY DEF Marks
  <2>2. Queued \cup turnFile.msgs \cup offerFile.msgs \cup taking.msgs \cup Marks
          \subseteq InHand
    BY <2>1 DEF InHand
  <2>3. \A x \in Callers : resuming[x].turn.msgs \subseteq Msgs
    BY Records DEF TypeOK
  <2>4. turnFile.msgs \cup offerFile.msgs \cup taking.msgs \subseteq Msgs
    BY Records DEF TypeOK
  <2> DEFINE rs == UNION {resuming[x].turn.msgs : x \in Callers}
             ls == UNION {lane[l].mark.msgs : l \in Lanes}
  <2>5. InHand = Queued \cup turnFile.msgs \cup offerFile.msgs \cup taking.msgs \cup ls \cup rs
    BY DEF InHand
  <2>6. rs \subseteq Msgs /\ ls \subseteq Msgs
    BY <1>f, <2>3
  <2> HIDE DEF rs, ls
  <2>7. InHand \subseteq Msgs
    BY <1>q, <2>4, <2>5, <2>6
  <2> QED BY <1>u, <2>2, <2>7
<1>a. /\ resuming' \in [Callers -> Resuming]
      /\ \A x \in Callers :
           /\ resuming'[x].turn = resuming[x].turn
           /\ \/ resuming'[x].pc = "stray" /\ resuming[x].pc = "queue"
              \/ resuming'[x].pc = resuming[x].pc /\ resuming[x].pc # "queue"
  <2>1. \A x \in Callers : resuming[x] \in Resuming
    BY DEF TypeOK, Resuming
  <2>2. ASSUME NEW x \in Callers
        PROVE  /\ resuming'[x] \in Resuming /\ resuming'[x].turn = resuming[x].turn
               /\ \/ resuming'[x].pc = "stray" /\ resuming[x].pc = "queue"
                  \/ resuming'[x].pc = resuming[x].pc /\ resuming[x].pc # "queue"
    <3>1. resuming'[x] = IF resuming[x].pc = "queue" THEN [resuming[x] EXCEPT !.pc = "stray"]
                         ELSE resuming[x]
      BY DEF ResetRetires
    <3> QED BY <2>1, <3>1 DEF Resuming
  <2>3. resuming' = [x \in Callers |-> resuming'[x]]
    BY DEF ResetRetires
  <2> QED BY <2>2, <2>3
<1>1. TypeOK'
  <2>1. troubles' \in 0..MaxTroubles /\ Len(queue') <= Capacity
    BY <1>u, <1>q DEF TypeOK
  <2> QED BY <1>u, <1>q, <1>l, <1>i, <1>a, <2>1 DEF TypeOK, Resuming
<1>2. LaneOK'
  BY <1>u, <1>l, <1>f, NoTurns, TurnFields DEF LaneOK
<1>3. PhaseOK'
  BY <1>u DEF PhaseOK
<1>4. OfferOK'
  BY <1>u, <1>a DEF OfferOK
<1>5. FileOK'
  BY <1>u, <1>l, <1>i, NoTurns DEF FileOK, Marks
<1>6. BegunOK'
  BY <1>u, <1>l, <1>a, NoTurns DEF BegunOK
<1>7. JobsOK'
  BY <1>u, <1>l, <1>q, NoTurns DEF JobsOK
<1>8. TookOK'
  BY <1>u, <1>l, <1>q, NoTurns DEF TookOK
<1>9. OnceOK'
  <2>1. \A m \in Msgs : Pending(m)' => Pending(m)
    BY <1>u, <1>a DEF Pending
  <2>2. \A m \in Msgs : Unmarked(m)' => Unmarked(m)
    BY <1>u, <1>l, NoTurns DEF Unmarked
  <2> QED BY <1>u, <2>1, <2>2 DEF OnceOK, TypeOK
<1>10. NotedOK'
  BY <1>u, <1>l, <1>q, NoTurns DEF NotedOK
<1>11. KeptOK'
  <2>1. Safe \subseteq settled'
    BY <1>u, <1>i DEF Safe
  <2>2. begun' \subseteq (Safe \cup offerFile.msgs)'
    BY <1>u, <1>i, <2>1 DEF KeptOK, Safe
  <2>3. \A x \in Callers : resuming'[x].pc = "remove" =>
          resuming[x].pc = "remove" /\ resuming'[x].turn = resuming[x].turn
    BY <1>a
  <2>4. settled' \subseteq Safe'
    BY DEF Safe
  <2> QED BY <1>l, <2>1, <2>2, <2>3, <2>4, NoTurns DEF KeptOK, Filed
<1> QED BY <1>1, <1>2, <1>3, <1>4, <1>5, <1>6, <1>7, <1>8, <1>9, <1>10, <1>11 DEF IInv

\* A turn begins: its record is written, over whatever the file held, or is refused.
LEMMA StepBegins ==
    ASSUME IInv, NEW l \in Lanes, Begins(l)
    PROVE  IInv'
<1> USE DEF IInv
<1> DEFINE t == lane[l].mark
           r == [lane[l] EXCEPT !.pc = "run"]
<1>l. lane[l] \in Turns
  BY DEF TypeOK
<1>0. /\ r \in Turns /\ lane' = [lane EXCEPT ![l] = r] /\ r.pc = "run" /\ r.mark = t
      /\ r.call = lane[l].call /\ r.events = lane[l].events /\ r.stop = lane[l].stop
  BY <1>l DEF Begins, TypeOK, Turns
<1>a. /\ lane' \in [Lanes -> Turns] /\ lane'[l] = r
      /\ \A k \in Lanes : k # l => lane'[k] = lane[k]
  BY <1>0, LaneMoves
<1>u. /\ UNCHANGED <<offerFile, phase, queue, reset, taking, resuming, sent, changed,
                     again, joined, unnoted>>
      /\ Queued' = Queued /\ phase # "down" /\ lane[l].pc = "took"
      /\ begun' = begun \cup t.msgs
      /\ settled' = settled \cup Trampled(l) \cup (IF turnFile' = t THEN {} ELSE t.msgs)
  BY DEF Begins, Queued, Requested
<1>w. turnFile' \in {turnFile, t} /\ troubles' \in 0..MaxTroubles
  BY DEF Begins, Writes, TypeOK
<1>t. /\ t \in InFlight \cup {None} /\ t.msgs \subseteq Msgs /\ t.resumed \in BOOLEAN
      /\ lane[l].call = "none" /\ ~lane[l].events
  BY <1>u, <1>l, TurnFields DEF LaneOK
<1> HIDE DEF r, t
<1>k. \A k \in Lanes : lane'[k].mark = lane[k].mark /\ lane'[k].events = lane[k].events
  BY <1>0, <1>a DEF t
<1>m. lane[l].mark = t
  BY DEF t
<1>1. TypeOK'
  <2>1. Trampled(l) \subseteq Msgs /\ settled' \subseteq Msgs
    BY <1>u, <1>t, Records DEF TypeOK, Trampled
  <2> QED BY <1>a, <1>u, <1>w, <1>t, <2>1 DEF TypeOK
<1>2. LaneOK'
  BY <1>0, <1>a, <1>u, <1>w, <1>t, <1>k, <1>m DEF LaneOK
<1>3. PhaseOK'
  BY <1>0, <1>a, <1>u, <1>w, <1>t, <1>k, <1>m DEF PhaseOK
<1>4. OfferOK'
  BY <1>0, <1>a, <1>u, <1>w, <1>t, <1>k, <1>m DEF OfferOK
<1>5. FileOK'
  BY <1>0, <1>a, <1>u, <1>w, <1>t, <1>k, <1>m DEF FileOK, Trampled
<1>6. BegunOK'
  BY <1>0, <1>a, <1>u, <1>w, <1>t, <1>k, <1>m DEF BegunOK, TookOK
<1>7. JobsOK'
  <2>1. \A i \in DOMAIN queue : ~queue[i].resumed => queue[i].msgs \cap begun' = {}
    BY <1>u, <1>m DEF JobsOK
  <2> QED BY <1>u, <1>k, <2>1 DEF JobsOK
<1>8. TookOK'
  <2>1. \A k \in Lanes : lane'[k].pc = "took" => k # l /\ lane[k].pc = "took"
    BY <1>0, <1>a
  <2>2. lane["current"].mark.msgs \cap lane["aside"].mark.msgs \subseteq begun
    BY DEF TookOK
  <2>3. \A k \in Lanes : lane'[k].pc = "took" =>
          \A m \in lane[k].mark.msgs : m \in begun' => lane[k].mark.resumed \/ joined[m] > 0
    BY <1>u, <1>m, <2>1, <2>2 DEF TookOK
  <2> QED BY <1>u, <1>k, <2>3 DEF TookOK
<1>9. OnceOK'
  <2>1. \A m \in Msgs : Pending(m)' = Pending(m)
    BY <1>u DEF Pending
  <2>2. \A m \in Msgs : Unmarked(m)' => Unmarked(m)
    BY <1>w, <1>k, <1>m DEF Unmarked
  <2> QED BY <1>u, <2>1, <2>2 DEF OnceOK, TypeOK
<1>10. NotedOK'
  <2>1. CASE turnFile' = turnFile
    BY <1>0, <1>a, <1>u, <1>t, <1>k, <1>m, <2>1 DEF NotedOK
  <2>2. CASE turnFile' = t
    <3>1. \A m \in t.msgs : m \in begun /\ ~t.resumed => joined[m] > 0
      BY <1>u, <1>m DEF TookOK
    <3>2. changed \subseteq begun
      BY DEF TypeOK
    <3>3. \A k \in Lanes : lane'[k].call # "none" => lane[k].mark.msgs \subseteq begun
      BY <1>0, <1>a, <1>t DEF LaneOK, BegunOK
    <3> QED BY <1>u, <1>k, <2>2, <3>1, <3>2, <3>3, <1>t DEF NotedOK, RunsAgain, TypeOK
  <2> QED BY <1>w, <2>1, <2>2
<1>11. KeptOK'
  <2>1. settled \subseteq settled' /\ t.msgs \subseteq settled' \cup turnFile'.msgs
    BY <1>u
  <2>2. lane["current"].pc = "took" => turnFile.msgs \subseteq settled
    BY DEF FileOK
  <2>3. turnFile.msgs \subseteq settled' \cup turnFile'.msgs
    BY <1>u, <1>w, <2>1, <2>2 DEF Trampled
  <2>4. Marks' = Marks /\ t.msgs \subseteq Marks
    BY <1>k, <1>m DEF Marks
  <2>5. Safe \subseteq Safe' /\ t.msgs \subseteq Safe'
    BY <1>u, <2>1, <2>3, <2>4 DEF Safe
  <2>6. Filed(lane'["current"]) =>
          lane'["current"].mark.msgs \subseteq settled' \cup turnFile'.msgs
    BY <1>0, <1>a, <1>k, <1>m, <2>1, <2>3 DEF KeptOK, Filed, Keeps
  <2>7. begun' \subseteq Safe' \cup offerFile'.msgs
    BY <1>u, <2>5 DEF KeptOK
  <2>8. \A x \in Callers : resuming'[x].pc = "remove" => resuming'[x].turn.msgs \subseteq Safe'
    BY <1>u, <2>5 DEF KeptOK
  <2> QED BY <2>6, <2>7, <2>8 DEF KeptOK, Filed, Keeps
<1> QED BY <1>1, <1>2, <1>3, <1>4, <1>5, <1>6, <1>7, <1>8, <1>9, <1>10, <1>11 DEF IInv

\* The call is noted: the file says that the turn acted, or its note is lost.
LEMMA StepNotes ==
    ASSUME IInv, NEW l \in Lanes, Notes(l)
    PROVE  IInv'
<1> USE DEF IInv
<1> DEFINE t == [lane[l].mark EXCEPT !.acted = TRUE]
           r == IF lane[l].pc = "cut" THEN NoTurn
                ELSE [lane[l] EXCEPT !.events = FALSE, !.mark = t]
<1>e. /\ lane[l].events /\ lane[l].pc \in {"run", "over", "cut"} /\ lane[l].mark # None
      /\ lane[l] \in Turns /\ lane[l].mark \in InFlight /\ lane[l].mark.msgs \subseteq Msgs
  <2>1. lane[l].events /\ lane[l].pc \in {"run", "over", "cut"} /\ lane[l] \in Turns
    BY DEF Notes, LaneOK, TypeOK
  <2>2. lane[l].mark # None
    BY <2>1 DEF LaneOK
  <2> QED BY <2>1, <2>2, TurnFields
<1>t. /\ t \in InFlight /\ t # None /\ t.msgs = lane[l].mark.msgs /\ t.acted
      /\ t.resumed = lane[l].mark.resumed /\ None.msgs = {} /\ ~None.resumed
  BY <1>e DEF InFlight, None
<1>0. /\ r \in Turns /\ lane' = [lane EXCEPT ![l] = r]
      /\ \/ r = NoTurn /\ lane[l].pc = "cut"
         \/ /\ r.pc = lane[l].pc /\ r.pc # "cut" /\ r.mark = t /\ ~r.events
            /\ r.call = lane[l].call /\ r.stop = lane[l].stop
  BY <1>e, <1>t, NoTurns DEF Notes, TypeOK, Turns
<1>a. /\ lane' \in [Lanes -> Turns] /\ lane'[l] = r
      /\ \A k \in Lanes : k # l => lane'[k] = lane[k]
  BY <1>0, LaneMoves
<1>u. /\ UNCHANGED <<offerFile, phase, queue, reset, taking, resuming, sent, begun,
                     changed, again, joined>>
      /\ Queued' = Queued /\ phase # "down"
      /\ unnoted' = IF turnFile' = t THEN unnoted ELSE unnoted \cup t.msgs
      /\ settled' = settled \cup Trampled(l)
  BY DEF Notes, Queued, Requested
<1>w. turnFile' \in {turnFile, t} /\ troubles' \in 0..MaxTroubles
  BY DEF Notes, Writes, TypeOK
<1> HIDE DEF r, t
<1>k. /\ \A k \in Lanes : lane'[k].mark.msgs \subseteq lane[k].mark.msgs
      /\ \A k \in Lanes : \/ lane'[k].mark.resumed = lane[k].mark.resumed
                          \/ lane'[k].mark.msgs = {} /\ ~lane'[k].mark.resumed
  BY <1>0, <1>a, <1>t, NoTurns
<1>1. TypeOK'
  <2>1. t.msgs \subseteq begun
    BY <1>e, <1>t DEF BegunOK
  <2>2. Trampled(l) \subseteq Msgs
    BY Records DEF TypeOK, Trampled
  <2> QED BY <1>a, <1>u, <1>w, <1>t, <2>1, <2>2 DEF TypeOK
<1>2. LaneOK'
  BY <1>0, <1>a, <1>e, <1>u, <1>t, NoTurns DEF LaneOK
<1>3. PhaseOK'
  BY <1>u DEF PhaseOK
<1>4. OfferOK'
  BY <1>u DEF OfferOK
<1>5. FileOK'
  BY <1>0, <1>a, <1>e, <1>u, <1>w, <1>t, <1>k, NoTurns DEF FileOK, LaneOK, Trampled
<1>6. BegunOK'
  BY <1>0, <1>a, <1>e, <1>u, <1>w, <1>t, <1>k, NoTurns DEF BegunOK
<1>7. JobsOK'
  BY <1>u, <1>k DEF JobsOK
<1>8. TookOK'
  <2>1. \A k \in Lanes : lane'[k].pc = "took" => lane'[k] = lane[k]
    BY <1>0, <1>a, <1>e, NoTurns
  <2>2. \A k \in Lanes : lane'[k].mark.resumed =>
          lane[k].mark.resumed /\ lane'[k].mark.msgs \subseteq lane[k].mark.msgs
    BY <1>k
  <2> QED BY <1>u, <1>k, <2>1, <2>2 DEF TookOK
<1>9. OnceOK'
  <2>1. \A m \in Msgs : Pending(m)' = Pending(m)
    BY <1>u DEF Pending
  <2>2. \A m \in Msgs : Unmarked(m)' => Unmarked(m)
    BY <1>w, <1>k, <1>t DEF Unmarked
  <2> QED BY <1>u, <2>1, <2>2 DEF OnceOK
<1>10. NotedOK'
  <2>1. CASE turnFile' = t
    BY <1>t, <2>1 DEF NotedOK, RunsAgain
  <2>2. CASE turnFile' = turnFile /\ turnFile' # t
    <3>1. unnoted \subseteq unnoted' /\ lane[l].mark.msgs \subseteq unnoted'
      BY <1>u, <1>t, <2>2
    <3> QED BY <1>a, <1>u, <1>k, <2>2, <3>1 DEF NotedOK
  <2> QED BY <1>w, <2>1, <2>2
<1>11. KeptOK'
  <2>1. /\ settled \subseteq settled' /\ lane["aside"].mark.msgs \subseteq settled
        /\ lane["current"].pc \in {"run", "over", "drained"} =>
             turnFile.msgs \subseteq settled \cup lane["current"].mark.msgs
    BY <1>u DEF FileOK
  <2>2. l = "current" => lane[l].pc \in {"run", "over"}
    BY <1>e DEF LaneOK
  <2>3. l = "current" => /\ lane'["current"].mark.msgs = lane["current"].mark.msgs
                         /\ lane'["current"].pc = lane["current"].pc
    BY <1>0, <1>a, <1>t, <2>2
  <2>4. l = "aside" => turnFile.msgs \subseteq settled'
    BY <1>u DEF Trampled
  <2>5. Marks \subseteq Marks' \cup settled'
    BY <1>a, <2>1, <2>3 DEF Marks
  <2>6. turnFile.msgs \subseteq turnFile'.msgs \cup settled' \cup Marks'
    BY <1>u, <1>w, <1>t, <2>1, <2>2, <2>3, <2>4 DEF Marks
  <2>7. Safe \subseteq Safe'
    BY <1>u, <2>1, <2>5, <2>6 DEF Safe
  <2>8. CASE l = "current"
    <3>1. lane[l].mark.msgs \subseteq settled' \cup turnFile'.msgs
      BY <1>w, <1>t, <2>1, <2>2, <2>8 DEF KeptOK, Filed
    <3> QED BY <1>u, <2>3, <2>7, <2>8, <3>1 DEF KeptOK
  <2>9. CASE l = "aside"
    <3>1. lane'["current"] = lane["current"]
      BY <1>a, <2>9
    <3>2. Filed(lane["current"]) => lane["current"].mark.msgs \subseteq settled'
      BY <2>1, <2>4, <2>9 DEF KeptOK
    <3> QED BY <1>u, <2>7, <3>1, <3>2 DEF KeptOK, Filed, Keeps
  <2> QED BY <2>8, <2>9
<1> QED BY <1>1, <1>2, <1>3, <1>4, <1>5, <1>6, <1>7, <1>8, <1>9, <1>10, <1>11 DEF IInv

\* resume queues the turn as a second try, finds the queue full, or a retired lane.
LEMMA StepQueuesTurn ==
    ASSUME IInv, NEW x \in Callers, QueuesTurn(x)
    PROVE  IInv'
<1> USE DEF IInv
<1> DEFINE ms == resuming[x].turn.msgs
           j == [msgs |-> ms, resumed |-> TRUE]
<1>u. /\ UNCHANGED <<disk, phase, lane, reset, taking, sent, troubles, begun, changed,
                     joined, unnoted>>
      /\ phase # "down" /\ resuming[x].pc \in {"queue", "stray"}
  BY DEF QueuesTurn
<1>t. resuming[x].turn # None /\ ms \in Requests /\ ms \subseteq Msgs /\ ms \subseteq begun
  <2>1. resuming[x].turn # None /\ resuming[x].turn \in InFlight
    BY <1>u DEF TypeOK, OfferOK
  <2>2. ms \in Requests
    BY <2>1 DEF InFlight
  <2> QED BY <2>1, <2>2 DEF BegunOK, Requests
<1>r. PICK r \in Resuming :
        /\ resuming' = [resuming EXCEPT ![x] = r]
        /\ \/ r.pc = "ready" /\ r.turn = None
           \/ r.pc = "remove" /\ r.turn = resuming[x].turn
        /\ \/ /\ queue' = Append(queue, j) /\ Len(queue) < Capacity /\ phase = "up"
              /\ resuming[x].pc = "queue" /\ UNCHANGED settled
              /\ again' = IF x = "resumer"
                          THEN [m \in Msgs |-> IF m \in ms THEN again[m] + 1 ELSE again[m]]
                          ELSE again
           \/ UNCHANGED <<queue, again, settled>> /\ r.pc = "ready"
           \/ UNCHANGED <<queue, again>> /\ settled' = settled \cup ms
  <2>1. CASE resuming' = [resuming EXCEPT ![x] = Idle]
    <3>1. Idle \in Resuming /\ Idle.pc = "ready" /\ Idle.turn = None
      BY DEF Idle, Resuming
    <3>2. /\ [resuming EXCEPT ![x] = Idle][x] = Idle
          /\ [resuming EXCEPT ![x].pc = "remove"][x].pc = "remove"
      BY DEF TypeOK
    <3> QED BY <2>1, <3>1, <3>2 DEF QueuesTurn
  <2>2. CASE resuming' = [resuming EXCEPT ![x].pc = "remove"]
    <3> DEFINE r == [resuming[x] EXCEPT !.pc = "remove"]
    <3>1. r \in Resuming /\ r.pc = "remove" /\ r.turn = resuming[x].turn
      BY DEF TypeOK, Resuming
    <3>2. resuming' = [resuming EXCEPT ![x] = r]
      BY <2>2 DEF TypeOK
    <3>3. /\ [resuming EXCEPT ![x] = Idle][x] = Idle
          /\ [resuming EXCEPT ![x].pc = "remove"][x].pc = "remove"
          /\ Idle.pc = "ready"
      BY DEF TypeOK, Idle
    <3> HIDE DEF r
    <3> QED BY <2>2, <3>1, <3>2, <3>3 DEF QueuesTurn
  <2> QED BY <2>1, <2>2 DEF QueuesTurn
<1>a. /\ resuming' \in [Callers -> Resuming] /\ resuming'[x] = r
      /\ \A y \in Callers : y # x => resuming'[y] = resuming[y]
  BY <1>r, CallerMoves
<1>q. /\ queue' \in Seq(Jobs) /\ Len(queue') <= Capacity /\ Queued \subseteq Queued'
      /\ phase # "up" => queue' = queue
      /\ \A i \in DOMAIN queue' :
           \/ i \in DOMAIN queue /\ queue'[i] = queue[i]
           \/ queue'[i] = j
      /\ r.pc = "remove" => ms \subseteq Queued' \cup settled'
      /\ settled \subseteq settled' /\ settled' \subseteq settled \cup ms
  <2>j. j \in Jobs /\ j.msgs = ms
    BY <1>t DEF Jobs
  <2> HIDE DEF j
  <2>1. CASE /\ queue' = Append(queue, j) /\ Len(queue) < Capacity
             /\ phase = "up" /\ UNCHANGED settled
    <3>1. /\ queue' \in Seq(Jobs) /\ Len(queue') = Len(queue) + 1 /\ Len(queue) \in Nat
          /\ Queued' = Queued \cup j.msgs
          /\ \A i \in DOMAIN queue' :
               \/ i \in DOMAIN queue /\ queue'[i] = queue[i]
               \/ i = Len(queue) + 1 /\ queue'[i] = j
      BY <2>1, <2>j, QueueAppend DEF TypeOK
    <3>2. Len(queue') <= Capacity
      BY <2>1, <3>1
    <3> QED BY <2>1, <2>j, <3>1, <3>2
  <2>2. CASE queue' = queue /\ settled' \in {settled, settled \cup ms}
             /\ (r.pc = "remove" => settled' = settled \cup ms)
    BY <2>2 DEF TypeOK, Queued, Requested
  <2> QED BY <1>r, <2>1, <2>2
<1>j. j.msgs = ms /\ j.resumed
  OBVIOUS
<1>g. \/ UNCHANGED again
      \/ /\ x = "resumer" /\ resuming[x].pc = "queue" /\ phase = "up"
         /\ again' = [m \in Msgs |-> IF m \in ms THEN again[m] + 1 ELSE again[m]]
  BY <1>r
<1> HIDE DEF ms, j
<1>1. TypeOK'
  <2>1. \A m \in Msgs : again[m] \in Nat /\ again[m] + 1 \in Nat
    BY DEF TypeOK
  <2>2. again' \in [Msgs -> Nat]
    <3>1. CASE UNCHANGED again
      BY <3>1 DEF TypeOK
    <3>2. CASE again' = [m \in Msgs |-> IF m \in ms THEN again[m] + 1 ELSE again[m]]
      BY <2>1, <3>2
    <3> QED BY <1>g, <3>1, <3>2
  <2> QED BY <1>u, <1>t, <1>a, <1>q, <2>2 DEF TypeOK, Resuming
<1>2. LaneOK'
  BY <1>u DEF LaneOK
<1>3. PhaseOK'
  BY <1>u, <1>q DEF PhaseOK
<1>4. OfferOK'
  BY <1>u, <1>r, <1>a, <1>t DEF OfferOK
<1>5. FileOK'
  BY <1>u, <1>q DEF FileOK
<1>6. BegunOK'
  <2>1. \A y \in Callers : resuming'[y].turn \in {None, resuming[y].turn} /\ None.msgs = {}
    BY <1>r, <1>a DEF None
  <2> QED BY <1>u, <2>1 DEF BegunOK
<1>7. JobsOK'
  <2>1. ms \subseteq 1..sent
    BY <1>t DEF BegunOK
  <2> QED BY <1>u, <1>t, <1>q, <1>j, <2>1 DEF JobsOK
<1>8. TookOK'
  BY <1>u DEF TookOK
<1>9. OnceOK'
  <2>1. \A m \in Msgs : Pending(m)' => Pending(m) /\ (x = "resumer" => m \in taking.msgs)
    BY <1>u, <1>r, <1>a DEF Pending
  <2>2. \A m \in Msgs : Unmarked(m)' = Unmarked(m)
    BY <1>u DEF Unmarked
  <2>3. CASE UNCHANGED again
    BY <1>u, <2>1, <2>2, <2>3 DEF OnceOK
  <2>4. CASE /\ x = "resumer" /\ resuming[x].pc = "queue"
             /\ again' = [m \in Msgs |-> IF m \in ms THEN again[m] + 1 ELSE again[m]]
    <3>1. taking = None /\ None.msgs = {}
      BY <2>4 DEF OfferOK, None
    <3>2. \A m \in Msgs : ~Pending(m)'
      BY <2>1, <2>4, <3>1
    <3>3. \A m \in ms : Pending(m)
      BY <2>4 DEF Pending, ms
    <3>4. \A m \in Msgs : again[m] \in Nat /\ joined[m] \in Nat
      BY DEF TypeOK
    <3>5. \A m \in Msgs : again'[m] = IF m \in ms THEN again[m] + 1 ELSE again[m]
      BY <2>4
    <3>6. ASSUME NEW m \in Msgs
          PROVE  /\ again'[m] <= 1 + joined[m]
                 /\ again'[m] > 0 => m \in begun
                 /\ Unmarked(m) => again'[m] <= joined[m]
      <4>1. CASE m \in ms
        BY <1>t, <3>3, <3>4, <3>5, <4>1 DEF OnceOK
      <4>2. CASE m \notin ms
        BY <3>4, <3>5, <4>2 DEF OnceOK
      <4> QED BY <4>1, <4>2
    <3> QED BY <1>u, <2>2, <3>2, <3>6 DEF OnceOK
  <2> QED BY <1>g, <2>3, <2>4
<1>10. NotedOK'
  BY <1>u DEF NotedOK
<1>11. KeptOK'
  <2>1. Safe \subseteq Safe'
    BY <1>u, <1>q DEF Safe, Marks
  <2>2. r.pc = "remove" => ms \subseteq Safe'
    BY <1>q DEF Safe
  <2>3. \A y \in Callers : resuming'[y].pc = "remove" => resuming'[y].turn.msgs \subseteq Safe'
    BY <1>r, <1>a, <2>1, <2>2 DEF KeptOK, ms
  <2>4. Filed(lane'["current"]) =>
          lane'["current"].mark.msgs \subseteq settled' \cup turnFile'.msgs
    BY <1>u, <1>q DEF KeptOK
  <2>5. begun' \subseteq Safe' \cup offerFile'.msgs
    BY <1>u, <2>1 DEF KeptOK
  <2> QED BY <2>3, <2>4, <2>5 DEF KeptOK, Filed, Keeps
<1> QED BY <1>1, <1>2, <1>3, <1>4, <1>5, <1>6, <1>7, <1>8, <1>9, <1>10, <1>11 DEF IInv

\* run_lane takes its next turn's jobs: a person's message, with the second tries that it
\* is joined by, or one second try.
LEMMA StepTakes ==
    ASSUME IInv, Takes
    PROVE  IInv'
<1> USE DEF IInv
<1>n. PICK n \in Joinable :
        /\ lane' = [lane EXCEPT !["current"].pc = "took",
                                !["current"].mark = Marked(SubSeq(queue, 1, n))]
        /\ queue' = SubSeq(queue, n + 1, Len(queue))
        /\ joined' = [m \in Msgs |->
                        IF \E i \in 2..n : queue[i].resumed /\ m \in queue[i].msgs
                        THEN joined[m] + 1 ELSE joined[m]]
  BY DEF Takes
<1> DEFINE t == Marked(SubSeq(queue, 1, n))
           r == [lane["current"] EXCEPT !.pc = "took", !.mark = t]
<1>u. /\ UNCHANGED <<disk, phase, reset, taking, resuming, sent, troubles, begun,
                     changed, again, unnoted, settled>>
      /\ phase # "down" /\ lane["current"].pc = "idle"
  BY DEF Takes
<1>p. phase = "up" /\ lane["current"].mark = None
  <2>1. 1..Len(queue) # {}
    BY DEF Joinable
  <2>2. queue # <<>>
    BY <2>1
  <2> QED BY <1>u, <2>2 DEF PhaseOK, LaneOK
<1>m. n \in 1..Len(queue) /\ (n > 1 => ~queue[1].resumed)
  BY DEF Joinable, TypeOK
<1>q. /\ queue' \in Seq(Jobs) /\ Len(queue') <= Len(queue)
      /\ \A i \in DOMAIN queue' : n + i \in DOMAIN queue /\ queue'[i] = queue[n + i]
      /\ \A i \in DOMAIN queue' : i \in Int
      /\ 1..n \subseteq DOMAIN queue
      /\ t \in InFlight /\ ~t.acted /\ t.resumed = queue[1].resumed
      /\ t.msgs = UNION {queue[i].msgs : i \in 1..n}
      /\ Queued = Queued' \cup t.msgs
  BY <1>n, <1>m, QueueTakes DEF TypeOK
<1>t. t # None /\ t.msgs \subseteq Msgs
  BY <1>q, Records, {} \notin Requests DEF Requests, InFlight, None
<1>0. /\ r \in Turns /\ lane' = [lane EXCEPT !["current"] = r]
      /\ r.pc = "took" /\ r.mark = t
      /\ r.call = lane["current"].call /\ r.events = lane["current"].events
      /\ r.stop = lane["current"].stop
  <2> HIDE DEF t
  <2>1. lane["current"] \in Turns
    BY DEF TypeOK
  <2>2. lane' = [lane EXCEPT !["current"].pc = "took", !["current"].mark = t]
    BY <1>n DEF t
  <2> QED BY <2>1, <2>2, <1>q DEF Turns, TypeOK
<1>a. /\ lane' \in [Lanes -> Turns] /\ lane'["current"] = r
      /\ \A k \in Lanes : k # "current" => lane'[k] = lane[k]
  BY <1>0, LaneMoves
<1>h. lane["current"].call = "none" /\ ~lane["current"].events /\ ~lane["current"].stop
  BY <1>u, <1>p, TurnFields DEF LaneOK, TypeOK
<1> HIDE DEF r, t
<1>j. /\ joined' \in [Msgs -> Nat]
      /\ \A m \in Msgs : joined'[m] >= joined[m] /\ joined[m] \in Nat /\ joined'[m] \in Nat
      /\ \A m \in Msgs : (\E i \in 2..n : queue[i].resumed /\ m \in queue[i].msgs) =>
           joined'[m] = joined[m] + 1
  <2> DEFINE G(m) == \E i \in 2..n : queue[i].resumed /\ m \in queue[i].msgs
  <2>1. joined' = [m \in Msgs |-> IF G(m) THEN joined[m] + 1 ELSE joined[m]]
    BY <1>n
  <2>2. \A m \in Msgs : joined[m] \in Nat
    BY DEF TypeOK
  <2> HIDE DEF G
  <2>3. /\ joined' \in [Msgs -> Nat]
        /\ \A m \in Msgs : joined'[m] >= joined[m] /\ joined[m] \in Nat /\ joined'[m] \in Nat
        /\ \A m \in Msgs : G(m) => joined'[m] = joined[m] + 1
    BY <2>1, <2>2
  <2> QED BY <2>3 DEF G
\* A message of the turn is one of the turn's first job, or of a job joined to it.
<1>f. ASSUME NEW m \in t.msgs, ~t.resumed, m \in begun PROVE joined'[m] = joined[m] + 1
  <2>1. PICK i \in 1..n : m \in queue[i].msgs
    BY <1>q, <1>f
  <2>2. queue[i].resumed
    BY <1>q, <1>f, <2>1 DEF JobsOK
  <2>3. i \in 2..n
    BY <1>m, <1>q, <1>f, <2>1, <2>2
  <2> QED BY <1>j, <1>t, <1>f, <2>1, <2>2, <2>3
<1>1. TypeOK'
  <2>1. Len(queue') <= Capacity
    BY <1>q DEF TypeOK
  <2> QED BY <1>u, <1>a, <1>q, <1>j, <2>1 DEF TypeOK
<1>2. LaneOK'
  BY <1>0, <1>a, <1>u, <1>p, <1>t, <1>h DEF LaneOK
<1>3. PhaseOK'
  BY <1>u, <1>p DEF PhaseOK
<1>4. OfferOK'
  BY <1>u DEF OfferOK
<1>5. FileOK'
  BY <1>0, <1>a, <1>u, <1>p, <1>h DEF FileOK
<1>6. BegunOK'
  BY <1>0, <1>a, <1>u, <1>p, <1>h DEF BegunOK
<1>7. JobsOK'
  <2> SUFFICES ASSUME NEW i \in DOMAIN queue'
               PROVE  /\ queue'[i].msgs \subseteq 1..sent
                      /\ queue'[i].resumed => queue'[i].msgs \subseteq begun
                      /\ ~queue'[i].resumed =>
                           /\ queue'[i].msgs \cap begun = {}
                           /\ \A l \in Lanes : queue'[i].msgs \cap lane'[l].mark.msgs = {}
                           /\ \A k \in DOMAIN queue' :
                                k # i /\ ~queue'[k].resumed =>
                                  queue'[i].msgs \cap queue'[k].msgs = {}
    BY <1>u DEF JobsOK
  <2>1. n + i \in DOMAIN queue /\ queue'[i] = queue[n + i] /\ n + i \notin 1..n
    <3>1. n \in Int /\ i \in Int /\ n + i \in DOMAIN queue /\ queue'[i] = queue[n + i]
      BY <1>m, <1>q
    <3>2. i >= 1
      BY <1>q
    <3> QED BY <3>1, <3>2
  <2>2. ASSUME ~queue'[i].resumed PROVE queue'[i].msgs \cap t.msgs = {}
    <3>1. ASSUME NEW k \in 1..n PROVE queue[n + i].msgs \cap queue[k].msgs = {}
      BY <1>q, <2>1, <2>2 DEF JobsOK
    <3> QED BY <1>q, <2>1, <3>1
  <2>3. ASSUME NEW k \in DOMAIN queue', k # i
        PROVE  n + k \in DOMAIN queue /\ queue'[k] = queue[n + k] /\ n + k # n + i
    BY <1>m, <1>q, <2>3
  <2> QED BY <1>0, <1>a, <2>1, <2>2, <2>3 DEF JobsOK
<1>8. TookOK'
  <2>1. t.msgs \subseteq 1..sent
    BY <1>q DEF JobsOK
  <2>2. \A m \in t.msgs : m \in begun => t.resumed \/ joined'[m] > 0
    BY <1>f, <1>j, <1>t
  <2>3. t.resumed => t.msgs \subseteq begun
    <3>1. ASSUME t.resumed PROVE t.msgs \subseteq begun
      <4>1. n = 1
        BY <1>m, <1>q, <3>1
      <4>2. t.msgs = queue[1].msgs /\ 1 \in DOMAIN queue
        BY <1>q, <4>1
      <4> QED BY <1>q, <3>1, <4>2 DEF JobsOK
    <3> QED BY <3>1
  <2>4. t.msgs \cap lane["aside"].mark.msgs \subseteq begun
    <3>1. ASSUME NEW i \in 1..n PROVE queue[i].msgs \cap lane["aside"].mark.msgs \subseteq begun
      BY <1>q DEF JobsOK
    <3> QED BY <1>q, <3>1
  <2>5. /\ lane["aside"].mark.msgs \subseteq 1..sent
        /\ lane["aside"].mark.resumed => lane["aside"].mark.msgs \subseteq begun
        /\ lane["aside"].pc = "took" => \A m \in lane["aside"].mark.msgs : m \in begun =>
             lane["aside"].mark.resumed \/ joined'[m] > 0
    <3>1. lane["aside"].mark.msgs \subseteq Msgs
      BY TurnFields DEF TypeOK
    <3> QED BY <1>j, <3>1 DEF TookOK
  <2> QED BY <1>0, <1>a, <1>u, <2>1, <2>2, <2>3, <2>4, <2>5 DEF TookOK
<1>9. OnceOK'
  <2>1. \A m \in Msgs : Pending(m)' = Pending(m)
    BY <1>u DEF Pending
  <2>2. \A m \in Msgs : Unmarked(m)' => Unmarked(m) \/ (~t.resumed /\ m \in t.msgs)
    BY <1>0, <1>a, <1>u DEF Unmarked
  <2>3. \A m \in Msgs : Pending(m) => m \in begun
    BY DEF Pending, BegunOK
  <2>4. \A m \in Msgs : again[m] \in Nat
    BY DEF TypeOK
  <2>5. ASSUME NEW m \in Msgs
        PROVE  /\ again[m] <= 1 + joined'[m]
               /\ again[m] > 0 => m \in begun
               /\ Pending(m) \/ Unmarked(m)' => again[m] <= joined'[m]
               /\ Pending(m) /\ Unmarked(m)' => again[m] < joined'[m]
    <3>1. CASE ~t.resumed /\ m \in t.msgs /\ m \in begun
      <4>1. joined'[m] = joined[m] + 1
        BY <1>f, <3>1
      <4> QED BY <1>j, <2>4, <3>1, <4>1 DEF OnceOK
    <3>2. CASE m \notin begun
      BY <1>j, <2>3, <2>4, <3>2 DEF OnceOK
    <3>3. CASE ~(~t.resumed /\ m \in t.msgs)
      BY <1>j, <2>2, <2>4, <3>3 DEF OnceOK
    <3> QED BY <3>1, <3>2, <3>3
  <2> QED BY <1>u, <2>1, <2>5 DEF OnceOK
<1>10. NotedOK'
  <2>1. \A m \in turnFile.msgs : joined'[m] = 0 => joined[m] = 0
    BY <1>j, Records DEF TypeOK
  <2>2. None.msgs = {}
    BY DEF None
  <2> QED BY <1>0, <1>a, <1>u, <1>p, <1>h, <2>1, <2>2 DEF NotedOK
<1>11. KeptOK'
  <2>1. Marks' = t.msgs \cup lane["aside"].mark.msgs /\ Marks = lane["aside"].mark.msgs
    BY <1>0, <1>a, <1>p DEF Marks, None
  <2>2. Safe' = Safe
    BY <1>u, <1>q, <2>1 DEF Safe
  <2>3. ~Filed(lane'["current"])
    BY <1>0, <1>a DEF Filed
  <2> QED BY <1>u, <2>2, <2>3 DEF KeptOK, Filed, Keeps
<1> QED BY <1>1, <1>2, <1>3, <1>4, <1>5, <1>6, <1>7, <1>8, <1>9, <1>10, <1>11 DEF IInv

\* Every step keeps the inductive invariant.
LEMMA NextIInv == IInv /\ [Next]_vars => IInv'
<1> SUFFICES ASSUME IInv, [Next]_vars PROVE IInv'
  OBVIOUS
<1>1. CASE \E l \in Lanes : Lane(l)
  BY <1>1, StepBegins, StepCalls, StepChanges, StepNotes, StepReturns, StepDrainEnds,
     StepMarkerEnds, StepReplies DEF Lane
<1>2. CASE \E x \in Callers : Resume(x)
  BY <1>2, StepReadsOffer, StepFindsLane, StepQueuesTurn, StepRemovesOffer DEF Resume
<1>3. CASE Reset
  BY <1>3, StepResetRetires, StepResetEnds, StepResetLetsGo DEF Reset
<1>4. CASE UNCHANGED vars
  <2>1. UNCHANGED vars /\ Queued' = Queued
    BY <1>4 DEF Queued, Requested
  <2>2. TypeOK'
    BY <2>1 DEF IInv, TypeOK
  <2>3. LaneOK'
    BY <2>1 DEF IInv, LaneOK
  <2>4. PhaseOK'
    BY <2>1 DEF IInv, PhaseOK
  <2>5. OfferOK'
    BY <2>1 DEF IInv, OfferOK
  <2>6. FileOK'
    BY <2>1 DEF IInv, FileOK
  <2>7. BegunOK'
    BY <2>1 DEF IInv, BegunOK
  <2>8. JobsOK'
    BY <2>1 DEF IInv, JobsOK
  <2>9. TookOK'
    BY <2>1 DEF IInv, TookOK
  <2>10. OnceOK'
    BY <2>1 DEF IInv, OnceOK, Pending, Unmarked
  <2>11. NotedOK'
    BY <2>1 DEF IInv, NotedOK
  <2>12. KeptOK'
    BY <2>1 DEF IInv, KeptOK, Safe, Marks, Filed, Keeps
  <2> QED BY <2>2, <2>3, <2>4, <2>5, <2>6, <2>7, <2>8, <2>9, <2>10, <2>11, <2>12 DEF IInv
<1> QED BY <1>1, <1>2, <1>3, <1>4, StepSends, StepTakes, StepTells, StepContinues, StepLetsGo,
           StepCloses, StepStopsForRestart, StepEnds, StepStarts DEF Next

\* Initially nothing is marked, offered or queued.
LEMMA InitIInv == Init => IInv
<1> SUFFICES ASSUME Init PROVE IInv
  OBVIOUS
<1>n. None.msgs = {} /\ ~None.resumed
  BY DEF None
<1>u. /\ turnFile = None /\ offerFile = None /\ phase = "up" /\ queue = <<>> /\ reset = "none"
      /\ taking = None /\ sent = 0 /\ troubles = 0 /\ begun = {} /\ changed = {}
      /\ unnoted = {} /\ settled = {}
      /\ again = [m \in Msgs |-> 0] /\ joined = [m \in Msgs |-> 0]
  BY DEF Init
<1>l. lane \in [Lanes -> Turns] /\ \A l \in Lanes : lane[l] = NoTurn
  BY NoTurns DEF Init
<1>x. /\ resuming \in [Callers -> Resuming]
      /\ \A x \in Callers : resuming[x].pc = "ready" /\ resuming[x].turn = None
  BY DEF Init, Idle, Resuming
<1>1. TypeOK
  <2>1. MaxMsgs \in Nat /\ MaxTroubles \in Nat /\ Capacity \in Nat
    OBVIOUS
  <2>2. queue \in Seq(Jobs) /\ Len(queue) <= Capacity
    BY <1>u, <2>1
  <2>3. sent \in 0..MaxMsgs /\ troubles \in 0..MaxTroubles
    BY <1>u, <2>1
  <2> QED BY <1>u, <1>l, <1>x, <2>2, <2>3 DEF TypeOK, Resuming
<1>2. DOMAIN queue = {}
  BY <1>u
<1>3. LaneOK
  BY <1>n, <1>u, <1>l, <1>x, <1>2, NoTurns DEF LaneOK
<1>4. PhaseOK
  BY <1>n, <1>u, <1>l, <1>x, <1>2, NoTurns DEF PhaseOK
<1>5. OfferOK
  BY <1>n, <1>u, <1>l, <1>x, <1>2, NoTurns DEF OfferOK
<1>6. FileOK
  BY <1>n, <1>u, <1>l, <1>x, <1>2, NoTurns DEF FileOK
<1>7. BegunOK
  BY <1>n, <1>u, <1>l, <1>x, <1>2, NoTurns DEF BegunOK
<1>8. JobsOK
  BY <1>n, <1>u, <1>l, <1>x, <1>2, NoTurns DEF JobsOK
<1>9. TookOK
  BY <1>n, <1>u, <1>l, <1>x, <1>2, NoTurns DEF TookOK
<1>10. OnceOK
  BY <1>n, <1>u, <1>l, <1>x, <1>2, NoTurns DEF OnceOK, Pending, Unmarked
<1>11. NotedOK
  BY <1>n, <1>u, <1>l, <1>x, <1>2, NoTurns DEF NotedOK
<1>12. KeptOK
  BY <1>n, <1>u, <1>l, <1>x, <1>2, NoTurns DEF KeptOK, Safe, Marks, Filed, Keeps
<1> QED BY <1>1, <1>3, <1>4, <1>5, <1>6, <1>7, <1>8, <1>9, <1>10, <1>11, <1>12 DEF IInv

\* The inductive invariant holds in every reachable state.
LEMMA Inductive == Spec => []IInv
  BY InitIInv, NextIInv, PTL DEF Spec

-----------------------------------------------------------------------------
(* Theorems *)

\* Every variable keeps its type; in particular the lane's queue its capacity.
THEOREM TypeCorrect == Spec => []TypeOK
<1>1. IInv => TypeOK
  BY DEF IInv
<1> QED BY <1>1, Inductive, PTL

\* However often the process ends, a message's turn is run again without the chat's
\* word at most once, and once more for every time its second try was joined to a
\* person's message: wherever else the next start could find it, it is marked as a
\* second try (runs_again, resume and the marker of a begun turn).
THEOREM RunAgainOnce == Spec => []AgainOnce
<1>1. IInv => AgainOnce
  BY DEF IInv, OnceOK, AgainOnce
<1> QED BY <1>1, Inductive, PTL

\* A turn that changed something is run again unasked only when its note was lost: the
\* event of the call is sent before the tool runs, so what the file misses was in the
\* channel when the process ended, could not be written, or went with the mark of a
\* second try that was joined to a person's message.
THEOREM AskedFirst == Spec => AskedAfterAChange
<1> DEFINE A == \A m \in taking'.msgs \cap changed :
                   taking = None /\ RunsAgain(taking') => m \in unnoted \/ joined[m] > 0
<1>1. IInv /\ [Next]_vars => [A]_vars
  <2> SUFFICES ASSUME IInv, Next, NEW m \in taking'.msgs \cap changed, taking = None,
                      RunsAgain(taking')
               PROVE  m \in unnoted \/ joined[m] > 0
    OBVIOUS
  <2>1. taking' # taking
    BY DEF None
  <2>2. Starts
    BY <2>1 DEF Next, Lane, Resume, Reset, Sends, Takes, Begins, Calls, Changes, Notes, Returns,
                DrainEnds, MarkerEnds, Replies, Tells, Continues, LetsGo, ReadsOffer, FindsLane,
                QueuesTurn, RemovesOffer, ResetRetires, ResetEnds, ResetLetsGo, Closes,
                StopsForRestart, Ends
  <2>3. phase = "down" /\ taking' = turnFile /\ m \in turnFile.msgs /\ RunsAgain(turnFile)
    BY <2>1, <2>2 DEF Starts, RunsAgain
  <2>4. \A l \in Lanes : ~lane[l].events
    BY <2>3, NoTurns DEF IInv, PhaseOK
  <2>5. m \in Msgs /\ joined[m] \in Nat
    BY <2>3, Records DEF IInv, TypeOK
  <2> QED BY <2>3, <2>4, <2>5 DEF IInv, NotedOK
<1> QED BY <1>1, Inductive, PTL DEF Spec, AskedAfterAChange

\* A request a turn began on is answered, still in somebody's hands, or given up (the
\* excuses are listed at NothingForgotten, /new's among them): the file of a turn
\* outlives the process, and an offer is removed only after its turn was queued.
THEOREM NoneForgotten == Spec => []NothingForgotten
<1>1. IInv => NothingForgotten
  <2> SUFFICES ASSUME IInv PROVE NothingForgotten
    OBVIOUS
  <2>1. Marks \subseteq UNION {lane[l].mark.msgs : l \in Lanes}
    BY DEF Marks
  <2>2. turnFile.msgs \cup offerFile.msgs \cup Marks \cup Queued \subseteq InHand
    BY <2>1 DEF InHand
  <2> QED BY <2>2 DEF IInv, KeptOK, Safe, NothingForgotten
<1> QED BY <1>1, Inductive, PTL
=============================================================================
