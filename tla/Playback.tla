------------------------------ MODULE Playback ------------------------------
(***************************************************************************)
(* One session's queue (SessionQueue) and the goroutines around it: the    *)
(* stream loop (streamSession after it is connected, playCurrentTrack,     *)
(* streamSilencePCM), the skip watcher that each track gets (watchForSkip) *)
(* and the AddTrack, RemoveTrack and SkipTrack handlers, which hold the    *)
(* queue and may act on it after the stream has ended.                     *)
(*                                                                         *)
(* An AddTrack call is a one-shot process and stands for the entry it puts *)
(* in the queue.  A skip event carries no data in the code; here it        *)
(* remembers whether the track it was requested over has been dequeued.    *)
(***************************************************************************)
EXTENDS Integers, Sequences

CONSTANTS
    Adds,           \* calls of the AddTrack RPC, from the enqueue on
    MaxQueueSize,   \* capacity of the queue
    None            \* no entry

ASSUME PlaybackAssumption == None \notin Adds /\ MaxQueueSize \in Nat \ {0}

VARIABLES
    tracks,         \* SessionQueue.tracks
    notify,         \* a token is in the notify channel
    skipEvent,      \* content of the Events channel; history: which track it will cut
                    \* off, the head when Skip was called ("current"), the one after
                    \* it ("next") or one that comes later still ("late")
    add,            \* where each AddTrack call is
    pc,             \* where the stream loop is
    playing,        \* the track playCurrentTrack has peeked
    result,         \* what streamTrackPCM returned
    watcher,        \* the skip watcher of the current track
    ctxDone,        \* the stream's context is done
    archived        \* entries recorded in the session archive, in order

queueVars == <<tracks, notify, skipEvent>>
trackVars == <<playing, result, watcher>>
vars == <<queueVars, add, pc, trackVars, ctxDone, archived>>

TypeOK ==
    /\ tracks \in Seq(Adds)
    /\ Len(tracks) <= MaxQueueSize
    /\ notify \in BOOLEAN
    /\ skipEvent \in {"none", "current", "next", "late"}
    /\ add \in [Adds -> {"idle", "notifying", "ok", "full"}]
    /\ pc \in {"peek", "record", "play", "stopping", "dequeue", "silence", "ended"}
    /\ playing \in Adds \cup {None}
    /\ result \in {"none", "ok", "error", "cancelled"}
    /\ watcher \in {"off", "select", "skipped", "quit"}
    /\ ctxDone \in BOOLEAN
    /\ archived \in Seq(Adds)

Init ==
    /\ tracks = <<>>
    /\ notify = FALSE
    /\ skipEvent = "none"
    /\ add = [a \in Adds |-> "idle"]
    /\ pc = "peek"
    /\ playing = None
    /\ result = "none"
    /\ watcher = "off"
    /\ ctxDone = FALSE
    /\ archived = <<>>

-----------------------------------------------------------------------------
(* The handlers.                                                           *)

EnqueueFull(a) ==
    /\ add[a] = "idle"
    /\ Len(tracks) >= MaxQueueSize
    /\ add' = [add EXCEPT ![a] = "full"]
    /\ UNCHANGED <<queueVars, pc, trackVars, ctxDone, archived>>

\* Mutant: the capacity is checked one entry too late.
EnqueueBeyond(a) ==
    /\ add[a] = "idle"
    /\ Len(tracks) <= MaxQueueSize
    /\ tracks' = Append(tracks, a)
    /\ add' = [add EXCEPT ![a] = "notifying"]
    /\ UNCHANGED <<notify, skipEvent, pc, trackVars, ctxDone, archived>>

\* Mutant: the stream is not told of the new track.
EnqueueInSilence(a) ==
    /\ add[a] = "idle"
    /\ Len(tracks) < MaxQueueSize
    /\ tracks' = Append(tracks, a)
    /\ add' = [add EXCEPT ![a] = "ok"]
    /\ UNCHANGED <<notify, skipEvent, pc, trackVars, ctxDone, archived>>

Enqueue(a) ==
    /\ add[a] = "idle"
    /\ Len(tracks) < MaxQueueSize
    /\ tracks' = Append(tracks, a)
    /\ add' = [add EXCEPT ![a] = "notifying"]
    /\ UNCHANGED <<notify, skipEvent, pc, trackVars, ctxDone, archived>>

\* After the unlock, a send that does nothing when the token is already there.
SignalNotify(a) ==
    /\ add[a] = "notifying"
    /\ notify' = TRUE
    /\ add' = [add EXCEPT ![a] = "ok"]
    /\ UNCHANGED <<tracks, skipEvent, pc, trackVars, ctxDone, archived>>

\* Mutant: RemoveTrack lets the currently playing track be removed.
RemovableOrHead == 1..Len(tracks)

\* RemoveTrack refuses index 0 of the code, Remove the ones past the end.
Removable == 2..Len(tracks)

Remove(i) ==
    /\ i \in Removable
    /\ tracks' = SubSeq(tracks, 1, i - 1) \o SubSeq(tracks, i + 1, Len(tracks))
    /\ UNCHANGED <<notify, skipEvent, add, pc, trackVars, ctxDone, archived>>

\* A send that does nothing when an event is already there.
Skip ==
    /\ tracks # <<>>
    /\ skipEvent = "none"
    /\ skipEvent' = "current"
    /\ UNCHANGED <<tracks, notify, add, pc, trackVars, ctxDone, archived>>

\* The session is deleted or the server shuts down.
Cancel ==
    /\ ~ctxDone
    /\ ctxDone' = TRUE
    /\ UNCHANGED <<queueVars, add, pc, trackVars, archived>>

-----------------------------------------------------------------------------
(* The stream loop.                                                        *)

PeekTrack ==
    /\ pc = "peek"
    /\ IF tracks = <<>>
       THEN /\ pc' = "silence"
            /\ UNCHANGED playing
       ELSE /\ pc' = "record"
            /\ playing' = Head(tracks)
    /\ UNCHANGED <<queueVars, add, result, watcher, ctxDone, archived>>

\* Mutant: the archive row is written with a context that is never cancelled.
CanRecordAlways == TRUE

\* The insert runs with the stream's context.
CanRecord == ~ctxDone

\* A session without an archive, and a failed insert, record nothing.  Then
\* the track starts, with a skip watcher of its own.
RecordPlay ==
    /\ pc = "record"
    /\ \/ CanRecord /\ archived' = Append(archived, playing)
       \/ UNCHANGED archived
    /\ pc' = "play"
    /\ watcher' = "select"
    /\ result' = "none"
    /\ UNCHANGED <<queueVars, add, playing, ctxDone>>

\* Mutant: the watcher notes the skip and leaves the track running.
StreamContextDone == ctxDone

\* The context of the track: cancelled by its watcher or with the stream's.
TrackContextDone == ctxDone \/ watcher = "skipped"

TrackReturns(r) ==
    /\ pc = "play"
    /\ result' = r
    /\ pc' = "stopping"
    /\ UNCHANGED <<queueVars, add, playing, watcher, ctxDone, archived>>

TrackFinishes == ~TrackContextDone /\ TrackReturns("ok")
TrackFails == ~TrackContextDone /\ TrackReturns("error")
TrackCancelled == TrackContextDone /\ TrackReturns("cancelled")

\* Mutant: a cancelled track is played again.
AfterCancelReplay == "peek"

\* playCurrentTrack returns (false, nil): the queue is taken for empty.
AfterCancel == "silence"

\* Mutant: an event that comes too late for the watcher is left in the channel.
StopWatchOnly ==
    /\ pc = "stopping"
    /\ watcher \in {"skipped", "quit"}
    /\ pc' = IF watcher = "skipped" \/ result = "ok" THEN "dequeue"
             ELSE IF result = "cancelled" THEN AfterCancel ELSE "ended"
    /\ watcher' = "off"
    /\ UNCHANGED <<tracks, notify, skipEvent, add, playing, result, ctxDone, archived>>

\* stop(): it waits for the watcher and takes back an event that came too late
\* for it.  A skip counts as the end of the track, whatever the decoder said.
StopWatch ==
    /\ pc = "stopping"
    /\ watcher \in {"skipped", "quit"}
    /\ skipEvent' = IF watcher = "skipped" THEN skipEvent ELSE "none"
    /\ pc' = IF watcher = "skipped" \/ result = "ok" THEN "dequeue"
             ELSE IF result = "cancelled" THEN AfterCancel ELSE "ended"
    /\ watcher' = "off"
    /\ UNCHANGED <<tracks, notify, add, playing, result, ctxDone, archived>>

\* History: a skip that was not taken is one for the next track.
Leftover(event) ==
    CASE event = "none" -> "none"
      [] event = "current" -> "next"
      [] OTHER -> "late"

DequeueTrack ==
    /\ pc = "dequeue"
    /\ IF tracks = <<>>
       THEN /\ pc' = "ended"
            /\ UNCHANGED <<tracks, skipEvent>>
       ELSE /\ pc' = "peek"
            /\ tracks' = Tail(tracks)
            /\ skipEvent' = Leftover(skipEvent)
    /\ UNCHANGED <<notify, add, trackVars, ctxDone, archived>>

SilenceNotified ==
    /\ pc = "silence"
    /\ notify
    /\ notify' = FALSE
    /\ pc' = "peek"
    /\ UNCHANGED <<tracks, skipEvent, add, trackVars, ctxDone, archived>>

SilenceCancelled ==
    /\ pc = "silence"
    /\ ctxDone
    /\ pc' = "ended"
    /\ UNCHANGED <<queueVars, add, trackVars, ctxDone, archived>>

\* SessionTimeoutMinutes pass; the select may also take this arm when a token
\* has just come.
SilenceTimesOut ==
    /\ pc = "silence"
    /\ pc' = "ended"
    /\ UNCHANGED <<queueVars, add, trackVars, ctxDone, archived>>

-----------------------------------------------------------------------------
(* The skip watcher.  Its select may take either arm when both are ready.  *)

WatchSkip ==
    /\ watcher = "select"
    /\ skipEvent # "none"
    /\ watcher' = "skipped"
    /\ skipEvent' = "none"
    /\ UNCHANGED <<tracks, notify, add, pc, playing, result, ctxDone, archived>>

WatchQuit ==
    /\ watcher = "select"
    /\ ctxDone \/ pc = "stopping"
    /\ watcher' = "quit"
    /\ UNCHANGED <<queueVars, add, pc, playing, result, ctxDone, archived>>

-----------------------------------------------------------------------------
Handlers ==
    \/ \E a \in Adds : EnqueueFull(a) \/ Enqueue(a) \/ SignalNotify(a)
    \/ \E i \in 1..MaxQueueSize : Remove(i)
    \/ Skip \/ Cancel

Play == TrackFinishes \/ TrackFails \/ TrackCancelled

StreamLoop ==
    \/ PeekTrack \/ RecordPlay \/ Play \/ StopWatch \/ DequeueTrack
    \/ SilenceNotified \/ SilenceCancelled \/ SilenceTimesOut

Watch == WatchSkip \/ WatchQuit

Next == Handlers \/ StreamLoop \/ Watch

Spec == Init /\ [][Next]_vars

(* Fairness: the goroutines run when they can, and a call that has enqueued *)
(* its track goes on to notify.  Nothing forces a client to call, the       *)
(* context to be cancelled, or an hour of silence to pass.  Tracks are      *)
(* finite files, so they end (TracksEnd).                                   *)
Untimed ==
    \/ PeekTrack \/ RecordPlay \/ TrackCancelled \/ StopWatch \/ DequeueTrack
    \/ SilenceNotified \/ SilenceCancelled

Fairness ==
    /\ WF_vars(Untimed)
    /\ WF_vars(Watch)
    /\ \A a \in Adds : WF_vars(SignalNotify(a))

\* Said apart: what skips and cancellations achieve, they achieve without it.
TracksEnd == WF_vars(Play)

-----------------------------------------------------------------------------
(* Properties.                                                             *)

Playing == {"record", "play", "stopping", "dequeue"}

(* The track the loop has peeked stays at the head of the queue until it   *)
(* is dequeued, whatever the handlers do in the minutes between Peek and   *)
(* Dequeue: the loop dequeues the track it played, and never an empty      *)
(* queue (which would end the session).                                    *)
PlayingIsHead ==
    pc \in Playing => tracks # <<>> /\ Head(tracks) = playing

(* The loop never waits in silence over a queue with tracks unless a token *)
(* is in the channel, a handler is about to put one there, or the stream   *)
(* is cancelled: no enqueue falls between Peek and the wait for notify.    *)
NoLostWakeup ==
    pc = "silence" /\ tracks # <<>> =>
        notify \/ ctxDone \/ \E a \in Adds : add[a] = "notifying"

(* A queue entry is recorded in the session archive at most once, even     *)
(* when its track is cut off and peeked again (AddSessionArchiveTrack).    *)
RecordedOnce ==
    \A m, n \in 1..Len(archived) : archived[m] = archived[n] => m = n

(* A skip cuts off the track that was at the head when it was requested, or,  *)
(* when it came too late for that one, the track after it, and never one that *)
(* comes later still: stop() takes back what its watcher has left, so that an *)
(* event does not outlive two tracks (Skip and watchForSkip).                 *)
SkipIsNotLate == skipEvent # "late"

(* While a track runs, a skip request ends it, however long the track is.  *)
SkipEndsTheTrack == (pc = "play" /\ skipEvent # "none") ~> pc # "play"

(* Once its context is done the loop ends, however long its tracks are and *)
(* whichever arm its selects take.                                         *)
CancelEndsTheStream == ctxDone ~> pc = "ended"

\* The session as its listeners see it.
OnAir == INSTANCE Station WITH
    Tracks <- Adds,
    queue <- tracks,
    now <- IF pc \in Playing THEN playing ELSE None,
    onAir <- pc # "ended"

(* The loop, the queue and the handlers implement a Station: FIFO order,   *)
(* the track on air at the head, every queued track played in its turn     *)
(* while the stream lasts, if tracks end.                                  *)
PlaysLikeAStation == OnAir!Safety /\ (TracksEnd => OnAir!Fairness)
=============================================================================
