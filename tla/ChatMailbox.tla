---------------------------- MODULE ChatMailbox ----------------------------
(***************************************************************************)
(* What a chat promises the person who writes in it: one mailbox, first    *)
(* come, first read, by one agent.                                         *)
(*                                                                         *)
(* A message is taken into the mailbox at its end, and an agent's turn     *)
(* takes some of the front.  Only while the chat is being cleared, by a    *)
(* /new or by the bot's stop, may messages be dropped, and then none is    *)
(* taken in.  Nothing here tells a queue from a merge or a steer.          *)
(***************************************************************************)
EXTENDS Integers, Sequences

CONSTANT Msgs        \* the person's messages, natural numbers in the order they were sent

VARIABLES
    mail,        \* taken in and not read, the oldest first
    seen,        \* what the agent has read
    clearing     \* a /new is under way, or the bot's stop

vars == <<mail, seen, clearing>>

Init == mail = <<>> /\ seen = <<>> /\ clearing = FALSE

\* A message later than every other one comes in.
Accept ==
    /\ ~clearing /\ UNCHANGED clearing
    /\ \E m \in Msgs :
        /\ \A i \in DOMAIN mail : mail[i] < m
        /\ \A i \in DOMAIN seen : seen[i] < m
        /\ mail' = Append(mail, m)
    /\ UNCHANGED seen

\* A turn reads some of the oldest.
Take ==
    /\ \E n \in 1..Len(mail) :
        /\ seen' = seen \o SubSeq(mail, 1, n)
        /\ mail' = SubSeq(mail, n + 1, Len(mail))
    /\ UNCHANGED clearing

ClearBegins ==
    /\ ~clearing /\ clearing' = TRUE
    /\ UNCHANGED <<mail, seen>>

\* Some of what waits is thrown away; what is kept keeps its order.
Drop ==
    /\ clearing /\ UNCHANGED <<seen, clearing>>
    /\ \E kept \in SUBSET DOMAIN mail :
        mail' = SelectSeq(mail, LAMBDA m : \E i \in kept : mail[i] = m)

\* The mailbox the next message finds is empty.
ClearEnds ==
    /\ clearing /\ clearing' = FALSE
    /\ mail' = <<>>
    /\ UNCHANGED seen

Next == Accept \/ Take \/ ClearBegins \/ Drop \/ ClearEnds

\* What waits is read, unless it is thrown away.
Spec == Init /\ [][Next]_vars /\ WF_vars(~clearing /\ Take)
=============================================================================
