------------------------------ MODULE Station ------------------------------
(***************************************************************************)
(* What a session promises its listeners: tracks are played from the front *)
(* of a bounded queue, one at a time; the track on air is the head of the  *)
(* queue and leaves it only when it is over; tracks behind it may be       *)
(* removed.  While the station is on air every queued track gets its turn. *)
(***************************************************************************)
EXTENDS Integers, Sequences

CONSTANTS
    Tracks,         \* the entries that may be queued
    MaxQueueSize,   \* capacity of the queue
    None            \* nothing is playing

VARIABLES
    queue,          \* tracks to play, the one on air first
    now,            \* the track on air
    onAir           \* the stream has not ended

vars == <<queue, now, onAir>>

Init == queue = <<>> /\ now = None /\ onAir = TRUE

Add(a) ==
    /\ Len(queue) < MaxQueueSize
    /\ queue' = Append(queue, a)
    /\ UNCHANGED <<now, onAir>>

\* The head is out of reach.
Drop(i) ==
    /\ i \in 2..Len(queue)
    /\ queue' = SubSeq(queue, 1, i - 1) \o SubSeq(queue, i + 1, Len(queue))
    /\ UNCHANGED <<now, onAir>>

Begin ==
    /\ onAir /\ now = None
    /\ queue # <<>>
    /\ now' = Head(queue)
    /\ UNCHANGED <<queue, onAir>>

Finish ==
    /\ onAir /\ now # None
    /\ now = Head(queue)
    /\ queue' = Tail(queue)
    /\ now' = None
    /\ UNCHANGED onAir

\* The stream stops: what is on air is cut off and stays in the queue.
CutOff ==
    /\ onAir /\ now # None
    /\ now' = None
    /\ onAir' \in BOOLEAN
    /\ UNCHANGED queue

SignOff ==
    /\ onAir /\ now = None
    /\ onAir' = FALSE
    /\ UNCHANGED <<queue, now>>

Next ==
    \/ \E a \in Tracks : Add(a)
    \/ \E i \in 2..MaxQueueSize : Drop(i)
    \/ Begin \/ Finish \/ CutOff \/ SignOff

\* A station with something to play begins it or signs off, and what is on air
\* comes to an end.
Fairness ==
    /\ WF_vars(Begin \/ (queue # <<>> /\ SignOff))
    /\ WF_vars(Finish \/ CutOff)

Safety == Init /\ [][Next]_vars

Spec == Safety /\ Fairness
=============================================================================
