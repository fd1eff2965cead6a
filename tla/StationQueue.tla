---------------------------- MODULE StationQueue ----------------------------
(***************************************************************************)
(* One station as the clients of the server meet it: the calls of the RPC  *)
(* service that read or change its queue, each with the reply it gives,    *)
(* and what happens to the station meanwhile: tracks end, the session ends *)
(* and another one is created under its id.                                *)
(*                                                                         *)
(* Entries are numbered as they are queued.  A reply is the code of the    *)
(* error, or "ok"; the two errors that share CodeResourceExhausted are     *)
(* told apart by their message, as "queue full" and "rate limited".        *)
(***************************************************************************)
EXTENDS Naturals, Sequences, SequencesExt

CONSTANTS
    MaxQueueSize,   \* capacity of the queue
    MaxTracks       \* bound on the entries ever queued

ASSUME QueueAssumption == MaxQueueSize \in Nat \ {0} /\ MaxTracks \in Nat \ {0}

VARIABLES
    live,           \* the manager has a session of this id
    queue,          \* its queue, the track on air first
    added           \* entries queued so far

queueVars == <<live, queue, added>>

Entries == 1..MaxTracks

Errors == {"invalid_argument", "not_found", "failed_precondition", "internal",
           "queue full", "rate limited"}
Replies == {"ok"} \cup Errors

QueueTypeOK ==
    /\ live \in BOOLEAN
    /\ queue \in Seq(Entries)
    /\ Len(queue) <= MaxQueueSize
    /\ added \in 0..MaxTracks

QueueInit == live \in BOOLEAN /\ queue = <<>> /\ added = 0

Queued(n) == \E i \in 1..Len(queue) : queue[i] = n

-----------------------------------------------------------------------------
(* The handlers, each with the reply it gives.                             *)

Refuse(error, reply) == reply = error /\ UNCHANGED queueVars

\* GetQueue finds no session.
NoSession(reply) == ~live /\ Refuse("not_found", reply)

GetSession(reply) ==
    \/ NoSession(reply)
    \/ live /\ reply = "ok" /\ UNCHANGED queueVars

\* The tracks that an "ok" comes with are those of queue.
ListQueue(reply) ==
    \/ NoSession(reply)
    \/ live /\ reply = "ok" /\ UNCHANGED queueVars

\* The session is looked up after a download, which fails when the URL is none
\* of YouTube's, when the video is not available, and when yt-dlp, the reading of
\* the tags or the database fails.
DownloadFails(reply) ==
    \E error \in {"invalid_argument", "not_found", "internal"} : Refuse(error, reply)

AddTrack(reply) ==
    \/ DownloadFails(reply)
    \/ NoSession(reply)
    \/ live /\ Len(queue) >= MaxQueueSize /\ Refuse("queue full", reply)
    \/ /\ live /\ Len(queue) < MaxQueueSize
       /\ added < MaxTracks
       /\ reply = "ok"
       /\ queue' = Append(queue, added + 1)
       /\ added' = added + 1
       /\ UNCHANGED live

\* Mutant: the index is taken for a position that counts from one.
RemoveTrackAtPosition(index, reply) ==
    \/ NoSession(reply)
    \/ live /\ index = 0 /\ Refuse("invalid_argument", reply)
    \/ live /\ index >= Len(queue) /\ Refuse("invalid_argument", reply)
    \/ /\ live /\ index \in 1..(Len(queue) - 1)
       /\ reply = "ok"
       /\ queue' = RemoveAt(queue, index)
       /\ UNCHANGED <<live, added>>

\* index counts from zero, and zero is the track on air.
RemoveTrack(index, reply) ==
    \/ NoSession(reply)
    \/ live /\ index = 0 /\ Refuse("invalid_argument", reply)
    \/ live /\ index >= Len(queue) /\ Refuse("invalid_argument", reply)
    \/ /\ live /\ index \in 1..(Len(queue) - 1)
       /\ reply = "ok"
       /\ queue' = RemoveAt(queue, index + 1)
       /\ UNCHANGED <<live, added>>

\* The skip is an event to the stream: the track leaves the queue later.
SkipTrack(reply) ==
    \/ NoSession(reply)
    \/ live /\ queue = <<>> /\ Refuse("failed_precondition", reply)
    \/ live /\ queue # <<>> /\ reply = "ok" /\ UNCHANGED queueVars

\* The interceptor refuses a call of one of the limited procedures.
RateLimited(reply) == Refuse("rate limited", reply)

-----------------------------------------------------------------------------
(* The station.                                                            *)

\* The stream dequeues a track that is over or skipped.
TrackEnds ==
    /\ live /\ queue # <<>>
    /\ queue' = Tail(queue)
    /\ UNCHANGED <<live, added>>

SessionEnds ==
    /\ live
    /\ live' = FALSE
    /\ queue' = <<>>
    /\ UNCHANGED added

SessionStarts ==
    /\ ~live
    /\ live' = TRUE
    /\ UNCHANGED <<queue, added>>

StationNext == TrackEnds \/ SessionEnds \/ SessionStarts
=============================================================================
