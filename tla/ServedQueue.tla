---------------------------- MODULE ServedQueue ----------------------------
(***************************************************************************)
(* A session's queue (Playback) as its handlers reach it, through the      *)
(* manager's map: StationQueue, over which the web page and the bot are    *)
(* modelled, is what the queue, its loop and its handlers do for as long   *)
(* as the session is registered.                                           *)
(*                                                                         *)
(* StationQueue looks a session up and acts on its queue in one step.  In  *)
(* the code the session may be unregistered in between: the handler then   *)
(* acts on a queue that no client can reach any more.                      *)
(***************************************************************************)
EXTENDS Playback, FiniteSets

ASSUME ServedAssumption == IsFiniteSet(Adds) /\ Adds # {}

VARIABLES
    registered,     \* SessionManager.sessions has the queue
    enqueued        \* history: the entries enqueued while it had, in order

servedVars == <<vars, registered, enqueued>>

ServedInit ==
    /\ Init
    /\ registered = TRUE
    /\ enqueued = <<>>

\* DeleteSession, by a client or by endSession when the stream is over.
DeleteSession ==
    /\ registered
    /\ registered' = FALSE
    /\ UNCHANGED <<vars, enqueued>>

\* The entry of a joins the queue in this step.
Joins(a) == add[a] = "idle" /\ add'[a] = "notifying"

ServedNext ==
    \/ /\ Next
       /\ enqueued' = IF registered /\ \E a \in Adds : Joins(a)
                      THEN Append(enqueued, CHOOSE a \in Adds : Joins(a))
                      ELSE enqueued
       /\ UNCHANGED registered
    \/ DeleteSession

ServedSpec == ServedInit /\ [][ServedNext]_servedVars

-----------------------------------------------------------------------------

\* Clients know an entry by its number in the order of the enqueues.
Number(order, a) == CHOOSE n \in 1..Len(order) : order[n] = a

Numbers(order, list) == [i \in 1..Len(list) |-> Number(order, list[i])]

\* The queue that a client finds under the session's id, by numbers.
FoundQueue == IF registered THEN Numbers(enqueued, tracks) ELSE <<>>

Served == INSTANCE StationQueue WITH
    MaxTracks <- Cardinality(Adds),
    live <- registered,
    queue <- FoundQueue,
    added <- Len(enqueued)

\* What a handler answers, or the stream or the manager does, in StationQueue.
ServedStep ==
    \/ Served!AddTrack("ok")
    \/ \E index \in 1..MaxQueueSize : Served!RemoveTrack(index, "ok")
    \/ Served!TrackEnds
    \/ Served!SessionEnds

(* What the clients are modelled over is what the server does: whatever the
   loop, the watcher and the handlers do to a registered queue is a step of
   StationQueue or changes nothing that a client can ask for, and a track is
   accepted or refused as StationQueue has it (Enqueue behind GetQueue). *)
ServesItsQueue ==
    /\ Served!QueueInit
    /\ [][ServedStep \/ UNCHANGED <<registered, FoundQueue, enqueued>>]_servedVars
    /\ [][\A a \in Adds : registered /\ add[a] = "idle" =>
            /\ add'[a] = "notifying" => Served!AddTrack("ok")
            /\ add'[a] = "full" => Served!AddTrack("queue full")]_servedVars
=============================================================================
