--------------------------- MODULE PlaybackProofs ---------------------------
(***************************************************************************)
(* Proofs about Playback, for any set of AddTrack calls and any capacity   *)
(* of the queue.                                                           *)
(***************************************************************************)
EXTENDS ServedQueue, SequenceTheorems, FiniteSetTheorems, TLAPS

-----------------------------------------------------------------------------
(* What the operations on the queue do to its sequence of tracks.          *)

LEMMA EnqueueTracks ==
    ASSUME TypeOK, NEW a \in Adds, Enqueue(a)
    PROVE  /\ tracks' \in Seq(Adds) /\ Len(tracks') <= MaxQueueSize
           /\ Len(tracks') = Len(tracks) + 1
           /\ \A n \in 1..Len(tracks) : tracks'[n] = tracks[n]
           /\ tracks'[Len(tracks) + 1] = a
BY PlaybackAssumption DEF TypeOK, Enqueue

LEMMA RemoveTracks ==
    ASSUME TypeOK, NEW i \in 1..MaxQueueSize, Remove(i)
    PROVE  /\ tracks' \in Seq(Adds) /\ Len(tracks') <= MaxQueueSize
           /\ Len(tracks') = Len(tracks) - 1 /\ i \in 2..Len(tracks)
           /\ \A n \in 1..Len(tracks') :
                    tracks'[n] = IF n < i THEN tracks[n] ELSE tracks[n + 1]
<1> DEFINE front == SubSeq(tracks, 1, i - 1)
           back == SubSeq(tracks, i + 1, Len(tracks))
<1>1. /\ tracks \in Seq(Adds) /\ Len(tracks) \in Nat /\ Len(tracks) <= MaxQueueSize
      /\ i \in 2..Len(tracks) /\ tracks' = front \o back
  BY DEF TypeOK, Remove, Removable
<1>2. /\ front \in Seq(Adds) /\ Len(front) = i - 1
      /\ \A n \in 1..i - 1 : front[n] = tracks[n]
  BY <1>1
<1>3. /\ back \in Seq(Adds) /\ Len(back) = Len(tracks) - i
      /\ \A n \in 1..Len(tracks) - i : back[n] = tracks[i + n]
  BY <1>1
<1> HIDE DEF front, back
<1>4. /\ tracks' \in Seq(Adds) /\ Len(tracks') = Len(tracks) - 1
      /\ \A n \in 1..Len(tracks') :
              tracks'[n] = IF n <= i - 1 THEN front[n] ELSE back[n - (i - 1)]
  BY <1>1, <1>2, <1>3, ConcatProperties
<1>5. ASSUME NEW n \in 1..Len(tracks')
      PROVE  tracks'[n] = IF n < i THEN tracks[n] ELSE tracks[n + 1]
  <2>1. CASE n < i
    BY <1>1, <1>2, <1>4, <2>1
  <2>2. CASE n >= i
    <3>1. n - (i - 1) \in 1..Len(tracks) - i /\ i + (n - (i - 1)) = n + 1
      BY <1>1, <1>4, <2>2
    <3> QED BY <1>1, <1>3, <1>4, <2>2, <3>1
  <2> QED BY <1>1, <2>1, <2>2
<1> QED BY <1>1, <1>4, <1>5, PlaybackAssumption

LEMMA DequeueTracks ==
    ASSUME TypeOK, tracks # <<>>, tracks' = Tail(tracks)
    PROVE  /\ tracks' \in Seq(Adds) /\ Len(tracks') <= MaxQueueSize
           /\ Len(tracks) \in Nat \ {0} /\ Len(tracks') = Len(tracks) - 1
           /\ \A n \in 1..Len(tracks') : tracks'[n] = tracks[n + 1]
BY PlaybackAssumption DEF TypeOK

-----------------------------------------------------------------------------
(* Types.                                                                  *)

LEMMA InitTyped == Init => TypeOK
<1> SUFFICES ASSUME Init PROVE TypeOK
  OBVIOUS
<1>1. tracks \in Seq(Adds) /\ Len(tracks) <= MaxQueueSize /\ archived \in Seq(Adds)
  BY PlaybackAssumption DEF Init
<1> QED BY <1>1 DEF Init, TypeOK

LEMMA NextTyped ==
    ASSUME TypeOK, PlayingIsHead, [Next]_vars
    PROVE  TypeOK'
<1> USE DEF TypeOK, queueVars, trackVars
<1>1. ASSUME NEW a \in Adds, EnqueueFull(a) PROVE TypeOK'
  BY <1>1 DEF EnqueueFull
<1>2. ASSUME NEW a \in Adds, Enqueue(a) PROVE TypeOK'
  <2>1. tracks' \in Seq(Adds) /\ Len(tracks') <= MaxQueueSize
    BY <1>2, EnqueueTracks
  <2> QED BY <1>2, <2>1 DEF Enqueue
<1>3. ASSUME NEW a \in Adds, SignalNotify(a) PROVE TypeOK'
  BY <1>3 DEF SignalNotify
<1>4. ASSUME NEW i \in 1..MaxQueueSize, Remove(i) PROVE TypeOK'
  <2>1. tracks' \in Seq(Adds) /\ Len(tracks') <= MaxQueueSize
    BY <1>4, RemoveTracks
  <2> QED BY <1>4, <2>1 DEF Remove
<1>5. CASE Skip
  BY <1>5 DEF Skip
<1>6. CASE Cancel
  BY <1>6 DEF Cancel
<1>7. CASE PeekTrack
  BY <1>7 DEF PeekTrack
<1>8. CASE RecordPlay
  <2>1. playing \in Adds
    BY <1>8 DEF RecordPlay, PlayingIsHead, Playing
  <2>2. archived' \in Seq(Adds)
    BY <1>8, <2>1 DEF RecordPlay
  <2> QED BY <1>8, <2>2 DEF RecordPlay
<1>9. CASE Play
  BY <1>9 DEF Play, TrackFinishes, TrackFails, TrackCancelled, TrackReturns
<1>10. CASE StopWatch
  BY <1>10 DEF StopWatch, AfterCancel
<1>11. CASE DequeueTrack
  BY <1>11, DequeueTracks DEF DequeueTrack, Leftover
<1>12. CASE SilenceNotified \/ SilenceCancelled \/ SilenceTimesOut
  BY <1>12 DEF SilenceNotified, SilenceCancelled, SilenceTimesOut
<1>13. CASE Watch
  BY <1>13 DEF Watch, WatchSkip, WatchQuit
<1>14. CASE UNCHANGED vars
  BY <1>14 DEF vars
<1> QED
  BY <1>1, <1>2, <1>3, <1>4, <1>5, <1>6, <1>7, <1>8, <1>9, <1>10, <1>11, <1>12,
     <1>13, <1>14 DEF Next, Handlers, StreamLoop

-----------------------------------------------------------------------------
(* The track on air is the head of the queue.                              *)

LEMMA PlayingIsHeadStep ==
    ASSUME TypeOK, PlayingIsHead, [Next]_vars
    PROVE  PlayingIsHead'
<1> USE DEF PlayingIsHead, Playing, queueVars, trackVars
<1>1. tracks # <<>> => Len(tracks) \in Nat \ {0} /\ Head(tracks) = tracks[1]
  BY DEF TypeOK
<1>2. ASSUME tracks' \in Seq(Adds), Len(tracks') > 0, tracks # <<>>, tracks'[1] = tracks[1],
             UNCHANGED <<pc, playing>>
      PROVE  PlayingIsHead'
  BY <1>1, <1>2
<1>3. ASSUME NEW a \in Adds, Enqueue(a) PROVE PlayingIsHead'
  <2>1. CASE tracks = <<>>
    BY <1>3, <2>1 DEF Enqueue
  <2>2. CASE tracks # <<>>
    <3>1. /\ tracks' \in Seq(Adds) /\ Len(tracks') > 0 /\ tracks'[1] = tracks[1]
      BY <1>1, <1>3, <2>2, EnqueueTracks
    <3> QED BY <1>2, <1>3, <2>2, <3>1 DEF Enqueue
  <2> QED BY <2>1, <2>2
<1>4. ASSUME NEW i \in 1..MaxQueueSize, Remove(i) PROVE PlayingIsHead'
  <2>1. /\ tracks' \in Seq(Adds) /\ i \in 2..Len(tracks)
        /\ Len(tracks') = Len(tracks) - 1 /\ Len(tracks) \in Nat
        /\ 1 \in 1..Len(tracks') => tracks'[1] = tracks[1]
    BY <1>4, RemoveTracks DEF TypeOK
  <2>2. Len(tracks') > 0 /\ tracks # <<>> /\ tracks'[1] = tracks[1]
    BY <2>1
  <2>3. UNCHANGED <<pc, playing>>
    BY <1>4 DEF Remove
  <2> QED BY <1>2, <2>1, <2>2, <2>3
<1>5. ASSUME NEW a \in Adds, EnqueueFull(a) \/ SignalNotify(a) PROVE PlayingIsHead'
  BY <1>5 DEF EnqueueFull, SignalNotify
<1>6. CASE Skip \/ Cancel \/ Watch
  BY <1>6 DEF Skip, Cancel, Watch, WatchSkip, WatchQuit
<1>7. CASE PeekTrack \/ RecordPlay
  BY <1>7 DEF PeekTrack, RecordPlay
<1>8. CASE Play \/ StopWatch
  BY <1>8 DEF Play, TrackFinishes, TrackFails, TrackCancelled, TrackReturns,
              StopWatch, AfterCancel
<1>9. CASE DequeueTrack
  BY <1>9 DEF DequeueTrack
<1>10. CASE SilenceNotified \/ SilenceCancelled \/ SilenceTimesOut
  BY <1>10 DEF SilenceNotified, SilenceCancelled, SilenceTimesOut
<1>11. CASE UNCHANGED vars
  BY <1>11 DEF vars
<1> QED
  BY <1>3, <1>4, <1>5, <1>6, <1>7, <1>8, <1>9, <1>10, <1>11
     DEF Next, Handlers, StreamLoop

-----------------------------------------------------------------------------
(* No wake-up is lost, and no entry is recorded twice.                     *)

\* Every entry was put in the queue once, by its own call.
EntriesAreCalls ==
    /\ \A m, n \in 1..Len(tracks) : tracks[m] = tracks[n] => m = n
    /\ \A n \in 1..Len(tracks) : add[tracks[n]] # "idle"
    /\ \A n \in 1..Len(archived) : add[archived[n]] # "idle"

\* An entry recorded and still queued is on air, or will not be recorded again.
RecordedAreOver ==
    \A n \in 1..Len(archived), m \in 1..Len(tracks) :
        archived[n] = tracks[m] =>
            \/ ctxDone
            \/ pc = "ended"
            \/ pc \in {"play", "stopping", "dequeue"} /\ archived[n] = playing

\* A track is cancelled by its watcher or with the stream.
CancelledForAReason ==
    pc = "stopping" /\ result = "cancelled" => watcher = "skipped" \/ ctxDone

Parts ==
    /\ PlayingIsHead /\ NoLostWakeup /\ CancelledForAReason
    /\ EntriesAreCalls /\ RecordedAreOver /\ RecordedOnce

LEMMA LoopStep ==
    ASSUME TypeOK, NoLostWakeup, CancelledForAReason, [Next]_vars
    PROVE  NoLostWakeup' /\ CancelledForAReason'
<1> USE DEF NoLostWakeup, CancelledForAReason, queueVars, trackVars
<1>1. ASSUME NEW a \in Adds, Enqueue(a)
      PROVE  NoLostWakeup' /\ CancelledForAReason'
  <2>1. add'[a] = "notifying"
    BY <1>1 DEF Enqueue, TypeOK
  <2> QED BY <1>1, <2>1 DEF Enqueue
<1>2. ASSUME NEW a \in Adds, EnqueueFull(a)
      PROVE  NoLostWakeup' /\ CancelledForAReason'
  <2>1. \A b \in Adds : add[b] = "notifying" => add'[b] = "notifying"
    BY <1>2 DEF EnqueueFull, TypeOK
  <2> QED BY <1>2, <2>1 DEF EnqueueFull
<1>3. ASSUME NEW a \in Adds, SignalNotify(a)
      PROVE  NoLostWakeup' /\ CancelledForAReason'
  BY <1>3 DEF SignalNotify
<1>4. ASSUME NEW i \in 1..MaxQueueSize, Remove(i)
      PROVE  NoLostWakeup' /\ CancelledForAReason'
  <2>1. tracks # <<>>
    BY <1>4, RemoveTracks DEF TypeOK
  <2> QED BY <1>4, <2>1 DEF Remove
<1>5. CASE Skip \/ Cancel \/ Watch
  BY <1>5 DEF Skip, Cancel, Watch, WatchSkip, WatchQuit
<1>6. CASE PeekTrack \/ RecordPlay \/ DequeueTrack
  BY <1>6 DEF PeekTrack, RecordPlay, DequeueTrack
<1>7. CASE Play
  BY <1>7 DEF Play, TrackFinishes, TrackFails, TrackCancelled, TrackReturns,
              TrackContextDone
<1>8. CASE StopWatch
  BY <1>8 DEF StopWatch, AfterCancel
<1>9. CASE SilenceNotified \/ SilenceCancelled \/ SilenceTimesOut
  BY <1>9 DEF SilenceNotified, SilenceCancelled, SilenceTimesOut
<1>10. CASE UNCHANGED vars
  BY <1>10 DEF vars
<1> QED
  BY <1>1, <1>2, <1>3, <1>4, <1>5, <1>6, <1>7, <1>8, <1>9, <1>10
     DEF Next, Handlers, StreamLoop

LEMMA RecordStep ==
    ASSUME TypeOK, Parts, [Next]_vars
    PROVE  EntriesAreCalls' /\ RecordedAreOver' /\ RecordedOnce'
<1> DEFINE Goal == EntriesAreCalls /\ RecordedAreOver /\ RecordedOnce
<1> USE DEF Parts, EntriesAreCalls, RecordedAreOver, RecordedOnce, queueVars, trackVars
<1>1. ASSUME NEW a \in Adds, Enqueue(a) PROVE Goal'
  <2>1. /\ \A n \in 1..Len(tracks) : tracks[n] # a
        /\ \A n \in 1..Len(archived) : archived[n] # a
    BY <1>1 DEF Enqueue
  <2>2. \A b \in Adds : add[b] # "idle" => add'[b] # "idle"
    BY <1>1 DEF Enqueue, TypeOK
  <2>3. add'[a] # "idle"
    BY <1>1 DEF Enqueue, TypeOK
  <2>4. /\ \A n \in 1..Len(tracks) : tracks[n] \in Adds
        /\ \A n \in 1..Len(archived) : archived[n] \in Adds
        /\ Len(tracks) \in Nat
    BY DEF TypeOK
  <2>5. archived' = archived /\ pc' = pc /\ ctxDone' = ctxDone /\ playing' = playing
    BY <1>1 DEF Enqueue
  <2>6. /\ Len(tracks') = Len(tracks) + 1
        /\ \A n \in 1..Len(tracks) : tracks'[n] = tracks[n]
        /\ tracks'[Len(tracks) + 1] = a
    BY <1>1, EnqueueTracks
  <2>7. EntriesAreCalls'
    BY <2>1, <2>2, <2>3, <2>4, <2>5, <2>6
  <2>8. RecordedAreOver'
    BY <2>1, <2>4, <2>5, <2>6
  <2> QED BY <2>5, <2>7, <2>8
<1>2. ASSUME NEW a \in Adds, EnqueueFull(a) \/ SignalNotify(a) PROVE Goal'
  <2>1. \A b \in Adds : add[b] # "idle" => add'[b] # "idle"
    BY <1>2 DEF EnqueueFull, SignalNotify, TypeOK
  <2>2. /\ \A n \in 1..Len(tracks) : tracks[n] \in Adds
        /\ \A n \in 1..Len(archived) : archived[n] \in Adds
    BY DEF TypeOK
  <2> QED BY <1>2, <2>1, <2>2 DEF EnqueueFull, SignalNotify
<1>3. ASSUME NEW i \in 1..MaxQueueSize, Remove(i) PROVE Goal'
  <2>1. /\ Len(tracks') = Len(tracks) - 1 /\ i \in 2..Len(tracks)
        /\ \A n \in 1..Len(tracks') :
                tracks'[n] = IF n < i THEN tracks[n] ELSE tracks[n + 1]
    BY <1>3, RemoveTracks
  <2>2. \A n \in 1..Len(tracks') : n \in 1..Len(tracks) /\ n + 1 \in 1..Len(tracks)
    BY <2>1 DEF TypeOK
  <2>3. UNCHANGED <<add, pc, playing, ctxDone, archived>>
    BY <1>3 DEF Remove
  <2>4. \A n \in 1..Len(tracks') : \E k \in 1..Len(tracks) : tracks'[n] = tracks[k]
    BY <2>1, <2>2
  <2>5. \A m, n \in 1..Len(tracks') : tracks'[m] = tracks'[n] => m = n
    <3>1. SUFFICES ASSUME NEW m \in 1..Len(tracks'), NEW n \in 1..Len(tracks'),
                          tracks'[m] = tracks'[n]
                   PROVE  m = n
      OBVIOUS
    <3>2. PICK j \in 1..Len(tracks) : j = (IF m < i THEN m ELSE m + 1) /\ tracks'[m] = tracks[j]
      BY <2>1, <2>2
    <3>3. PICK k \in 1..Len(tracks) : k = (IF n < i THEN n ELSE n + 1) /\ tracks'[n] = tracks[k]
      BY <2>1, <2>2
    <3>4. j = k
      BY <3>1, <3>2, <3>3
    <3> QED BY <2>1, <3>2, <3>3, <3>4
  <2> QED BY <2>3, <2>4, <2>5
<1>4. CASE Skip \/ Cancel \/ Watch
  BY <1>4 DEF Skip, Cancel, Watch, WatchSkip, WatchQuit
<1>5. CASE PeekTrack
  BY <1>5 DEF PeekTrack
<1>6. CASE RecordPlay
  <2>1. /\ tracks # <<>> /\ Len(tracks) \in Nat \ {0} /\ playing = tracks[1]
        /\ playing \in Adds /\ 1 \in 1..Len(tracks)
    BY <1>6 DEF RecordPlay, PlayingIsHead, Playing, TypeOK
  <2>2. CASE archived' = archived
    BY <1>6, <2>2 DEF RecordPlay
  <2>3. CASE CanRecord /\ archived' = Append(archived, playing)
    <3>1. \A n \in 1..Len(archived) : archived[n] # playing
      BY <1>6, <2>1, <2>3 DEF RecordPlay, CanRecord
    <3>2. /\ Len(archived) \in Nat /\ Len(archived') = Len(archived) + 1
          /\ \A n \in 1..Len(archived) : archived'[n] = archived[n]
          /\ archived'[Len(archived) + 1] = playing
      BY <2>1, <2>3 DEF TypeOK
    <3>3. UNCHANGED <<tracks, add, playing, ctxDone>> /\ pc = "record" /\ pc' = "play"
      BY <1>6 DEF RecordPlay
    <3>4. RecordedOnce'
      BY <3>1, <3>2
    <3>5. EntriesAreCalls'
      BY <2>1, <3>2, <3>3
    <3>6. RecordedAreOver'
      BY <3>2, <3>3
    <3> QED BY <3>4, <3>5, <3>6
  <2> QED BY <1>6, <2>2, <2>3 DEF RecordPlay
<1>7. CASE Play
  BY <1>7 DEF Play, TrackFinishes, TrackFails, TrackCancelled, TrackReturns
<1>8. CASE StopWatch
  BY <1>8 DEF StopWatch, AfterCancel, CancelledForAReason, TypeOK
<1>9. CASE DequeueTrack
  <2>1. /\ tracks # <<>> /\ playing = tracks[1] /\ tracks' = Tail(tracks)
        /\ pc = "dequeue"
    BY <1>9 DEF DequeueTrack, PlayingIsHead, Playing, TypeOK
  <2>2. /\ Len(tracks) \in Nat \ {0} /\ Len(tracks') = Len(tracks) - 1
        /\ \A n \in 1..Len(tracks') : tracks'[n] = tracks[n + 1]
    BY <2>1, DequeueTracks
  <2>3. \A n \in 1..Len(tracks') : n + 1 \in 1..Len(tracks) /\ tracks'[n] # playing
    BY <2>1, <2>2
  <2>4. UNCHANGED <<add, playing, ctxDone, archived>>
    BY <1>9 DEF DequeueTrack
  <2> QED BY <2>1, <2>2, <2>3, <2>4
<1>10. CASE SilenceNotified \/ SilenceCancelled \/ SilenceTimesOut
  BY <1>10 DEF SilenceNotified, SilenceCancelled, SilenceTimesOut
<1>11. CASE UNCHANGED vars
  BY <1>11 DEF vars
<1> QED
  BY <1>1, <1>2, <1>3, <1>4, <1>5, <1>6, <1>7, <1>8, <1>9, <1>10, <1>11
     DEF Next, Handlers, StreamLoop

-----------------------------------------------------------------------------
(* No skip is late.                                                        *)

\* A watcher is there for a track under way, and when one has taken a skip or the
\* track is over, no skip waits that was requested over an earlier track.
SkipsAreTaken ==
    /\ watcher # "off" => pc \in {"play", "stopping"}
    /\ watcher = "skipped" \/ pc = "dequeue" => skipEvent \in {"none", "current"}

LEMMA SkipStep ==
    ASSUME TypeOK, SkipsAreTaken, SkipIsNotLate, [Next]_vars
    PROVE  SkipsAreTaken' /\ SkipIsNotLate'
<1> USE DEF TypeOK, SkipsAreTaken, SkipIsNotLate, queueVars, trackVars
<1>1. ASSUME NEW a \in Adds, EnqueueFull(a) \/ Enqueue(a) \/ SignalNotify(a)
      PROVE  SkipsAreTaken' /\ SkipIsNotLate'
  BY <1>1 DEF EnqueueFull, Enqueue, SignalNotify
<1>2. ASSUME NEW i \in 1..MaxQueueSize, Remove(i)
      PROVE  SkipsAreTaken' /\ SkipIsNotLate'
  BY <1>2 DEF Remove
<1>3. CASE Skip \/ Cancel \/ Watch
  BY <1>3 DEF Skip, Cancel, Watch, WatchSkip, WatchQuit
<1>4. CASE PeekTrack \/ RecordPlay
  BY <1>4 DEF PeekTrack, RecordPlay
<1>5. CASE Play
  BY <1>5 DEF Play, TrackFinishes, TrackFails, TrackCancelled, TrackReturns
<1>6. CASE StopWatch
  BY <1>6 DEF StopWatch, AfterCancel
<1>7. CASE DequeueTrack
  <2>1. Leftover(skipEvent) \in {"none", "next"} /\ watcher = "off"
    BY <1>7 DEF DequeueTrack, Leftover
  <2> QED BY <1>7, <2>1 DEF DequeueTrack
<1>8. CASE SilenceNotified \/ SilenceCancelled \/ SilenceTimesOut
  BY <1>8 DEF SilenceNotified, SilenceCancelled, SilenceTimesOut
<1>9. CASE UNCHANGED vars
  BY <1>9 DEF vars
<1> QED
  BY <1>1, <1>2, <1>3, <1>4, <1>5, <1>6, <1>7, <1>8, <1>9
     DEF Next, Handlers, StreamLoop

-----------------------------------------------------------------------------
(* The invariant holds in every state, and with it the properties.         *)

IInv == TypeOK /\ Parts /\ SkipsAreTaken /\ SkipIsNotLate

LEMMA InitIInv == Init => IInv
<1> SUFFICES ASSUME Init PROVE IInv
  OBVIOUS
<1>1. Len(tracks) = 0 /\ Len(archived) = 0
  BY DEF Init
<1> QED
  BY <1>1, InitTyped
     DEF Init, IInv, Parts, PlayingIsHead, Playing, NoLostWakeup, CancelledForAReason,
         EntriesAreCalls, RecordedAreOver, RecordedOnce, SkipsAreTaken, SkipIsNotLate

LEMMA NextIInv == IInv /\ [Next]_vars => IInv'
BY NextTyped, PlayingIsHeadStep, LoopStep, RecordStep, SkipStep DEF IInv, Parts

LEMMA Invariance == Spec => []IInv
<1> QED BY InitIInv, NextIInv, PTL DEF Spec

(* The state of the queue, its loop and its handlers is well typed and the *)
(* queue never longer than its capacity.                                   *)
THEOREM TypeCorrect == Spec => []TypeOK
<1>1. IInv => TypeOK
  BY DEF IInv
<1> QED BY <1>1, Invariance, PTL

(* For any number of concurrent handlers, the track that is dequeued is    *)
(* the one that was peeked and played.                                     *)
THEOREM HeadIsOnAir == Spec => []PlayingIsHead
<1>1. IInv => PlayingIsHead
  BY DEF IInv, Parts
<1> QED BY <1>1, Invariance, PTL

(* The loop does not sleep over a track: the two steps of Enqueue, append  *)
(* and notify, and the two of the loop, peek and wait, never miss one      *)
(* another.                                                                *)
THEOREM WakeupsArrive == Spec => []NoLostWakeup
<1>1. IInv => NoLostWakeup
  BY DEF IInv, Parts
<1> QED BY <1>1, Invariance, PTL

(* The archive records an entry at most once.                              *)
THEOREM ArchivedOnce == Spec => []RecordedOnce
<1>1. IInv => RecordedOnce
  BY DEF IInv, Parts
<1> QED BY <1>1, Invariance, PTL

(* However skips, watchers and ends of tracks interleave, a skip cuts off  *)
(* the track it was requested over or the next one, and none that comes    *)
(* later.                                                                  *)
THEOREM SkipsAreInTime == Spec => []SkipIsNotLate
<1>1. IInv => SkipIsNotLate
  BY DEF IInv
<1> QED BY <1>1, Invariance, PTL

-----------------------------------------------------------------------------
(* Playback implements Station, liveness aside.                            *)

LEMMA InitStation == Init => OnAir!Init
BY DEF Init, OnAir!Init, Playing

LEMMA NextStation ==
    ASSUME IInv, [Next]_vars
    PROVE  [OnAir!Next]_(OnAir!vars)
<1> USE DEF OnAir!vars, Playing, queueVars, trackVars
<1>1. ASSUME NEW a \in Adds, Enqueue(a) PROVE OnAir!Add(a)
  BY <1>1 DEF Enqueue, OnAir!Add
<1>2. ASSUME NEW i \in 1..MaxQueueSize, Remove(i)
      PROVE  i \in 2..MaxQueueSize /\ OnAir!Drop(i)
  BY <1>2, PlaybackAssumption DEF Remove, Removable, OnAir!Drop, IInv, TypeOK
<1>3. ASSUME NEW a \in Adds, EnqueueFull(a) \/ SignalNotify(a) PROVE UNCHANGED OnAir!vars
  BY <1>3 DEF EnqueueFull, SignalNotify
<1>4. CASE Skip \/ Cancel \/ Watch
  BY <1>4 DEF Skip, Cancel, Watch, WatchSkip, WatchQuit
<1>5. CASE PeekTrack
  <2>1. CASE tracks = <<>>
    BY <1>5, <2>1 DEF PeekTrack
  <2>2. CASE tracks # <<>>
    <3>1. OnAir!Begin
      BY <1>5, <2>2 DEF PeekTrack, OnAir!Begin
    <3> QED BY <3>1 DEF OnAir!Next
  <2> QED BY <2>1, <2>2
<1>6. CASE RecordPlay \/ Play
  BY <1>6 DEF RecordPlay, Play, TrackFinishes, TrackFails, TrackCancelled, TrackReturns
<1>7. CASE StopWatch
  <2>1. playing # None
    BY <1>7, PlaybackAssumption DEF StopWatch, IInv, Parts, PlayingIsHead, TypeOK
  <2>2. CASE pc' = "dequeue"
    BY <1>7, <2>2 DEF StopWatch
  <2>3. CASE pc' # "dequeue"
    <3>1. OnAir!CutOff
      BY <1>7, <2>1, <2>3 DEF StopWatch, AfterCancel, OnAir!CutOff
    <3> QED BY <3>1 DEF OnAir!Next
  <2> QED BY <2>2, <2>3
<1>8. CASE DequeueTrack
  <2>1. tracks # <<>> /\ playing = Head(tracks) /\ playing # None
    BY <1>8, PlaybackAssumption DEF DequeueTrack, IInv, Parts, PlayingIsHead, TypeOK
  <2>2. OnAir!Finish
    BY <1>8, <2>1 DEF DequeueTrack, OnAir!Finish
  <2> QED BY <2>2 DEF OnAir!Next
<1>9. CASE SilenceNotified
  BY <1>9 DEF SilenceNotified
<1>10. CASE SilenceCancelled \/ SilenceTimesOut
  <2>1. OnAir!SignOff
    BY <1>10 DEF SilenceCancelled, SilenceTimesOut, OnAir!SignOff
  <2> QED BY <2>1 DEF OnAir!Next
<1>11. CASE UNCHANGED vars
  BY <1>11 DEF vars
<1> QED
  BY <1>1, <1>2, <1>3, <1>4, <1>5, <1>6, <1>7, <1>8, <1>9, <1>10, <1>11
     DEF Next, Handlers, StreamLoop, OnAir!Next

(* The queue, the loop and the handlers implement the safety part of a     *)
(* Station: first in first out, the head on air, only tracks behind it     *)
(* removed.  The fairness of Station stays with the run of the model.      *)
THEOREM ImplementsStation == Spec => OnAir!Safety
<1> QED BY InitStation, NextStation, Invariance, PTL DEF Spec, OnAir!Safety

-----------------------------------------------------------------------------
(* Playback, behind the manager's map, implements StationQueue.            *)

(* The numbers of the entries: each has one, in the order of the enqueues. *)
NumbersAreGood ==
    /\ registered \in BOOLEAN
    /\ enqueued \in Seq(Adds)
    /\ \A m, n \in 1..Len(enqueued) : enqueued[m] = enqueued[n] => m = n
    /\ \A n \in 1..Len(enqueued) : add[enqueued[n]] # "idle"

(* What is queued while the session is registered has a number. *)
FoundAreNumbered ==
    registered => \A i \in 1..Len(tracks) : \E n \in 1..Len(enqueued) : enqueued[n] = tracks[i]

ServedInv == IInv /\ NumbersAreGood /\ FoundAreNumbered

LEMMA InitServed == ServedInit => ServedInv
<1> SUFFICES ASSUME ServedInit PROVE ServedInv
  OBVIOUS
<1>1. Len(tracks) = 0 /\ Len(enqueued) = 0 /\ enqueued \in Seq(Adds)
  BY DEF ServedInit, Init
<1> QED BY <1>1, InitIInv DEF ServedInit, ServedInv, NumbersAreGood, FoundAreNumbered

(* An entry has the number of its place. *)
LEMMA NumberIs ==
    ASSUME NumbersAreGood, NEW n \in 1..Len(enqueued)
    PROVE  Number(enqueued, enqueued[n]) = n
BY DEF Number, NumbersAreGood

(* A list of entries that have numbers, by their numbers. *)
LEMMA Numbered ==
    ASSUME NEW order, Len(order) \in Nat, NEW list, Len(list) \in Nat,
           \A i \in 1..Len(list) : \E n \in 1..Len(order) : order[n] = list[i]
    PROVE  /\ Numbers(order, list) \in Seq(Nat) /\ Len(Numbers(order, list)) = Len(list)
           /\ \A i \in 1..Len(list) : Numbers(order, list)[i] = Number(order, list[i])
<1>1. ASSUME NEW i \in 1..Len(list) PROVE Number(order, list[i]) \in Nat
  <2>1. \E n \in 1..Len(order) : order[n] = list[i]
    OBVIOUS
  <2>2. Number(order, list[i]) \in 1..Len(order)
    BY <2>1 DEF Number
  <2> QED BY <2>2
<1>2. Numbers(order, list) \in [1..Len(list) -> Nat]
  BY <1>1 DEF Numbers
<1> QED BY <1>2 DEF Numbers

(* The queue that a client finds has the length of the queue, and at each
   place the number of what is there; before a step and after it. *)
LEMMA FoundIs ==
    ASSUME ServedInv, registered
    PROVE  /\ FoundQueue \in Seq(Nat) /\ Len(FoundQueue) = Len(tracks)
           /\ \A i \in 1..Len(tracks) : FoundQueue[i] = Number(enqueued, tracks[i])
<1>1. /\ FoundQueue = Numbers(enqueued, tracks)
      /\ Len(tracks) \in Nat /\ Len(enqueued) \in Nat
  BY DEF FoundQueue, ServedInv, NumbersAreGood, IInv, TypeOK
<1>2. \A i \in 1..Len(tracks) : \E n \in 1..Len(enqueued) : enqueued[n] = tracks[i]
  BY DEF ServedInv, FoundAreNumbered
<1> QED BY <1>1, <1>2, Numbered

LEMMA FoundIsAfter ==
    ASSUME ServedInv', registered'
    PROVE  /\ FoundQueue' \in Seq(Nat) /\ Len(FoundQueue') = Len(tracks')
           /\ \A i \in 1..Len(tracks') : FoundQueue'[i] = Number(enqueued', tracks'[i])
<1>1. /\ FoundQueue' = Numbers(enqueued', tracks')
      /\ Len(tracks') \in Nat /\ Len(enqueued') \in Nat
  BY DEF FoundQueue, ServedInv, NumbersAreGood, IInv, TypeOK
<1>2. \A i \in 1..Len(tracks') : \E n \in 1..Len(enqueued') : enqueued'[n] = tracks'[i]
  BY DEF ServedInv, FoundAreNumbered
<1> QED BY <1>1, <1>2, Numbered

(* What a step of the session does to its queue, and which entries join. *)
LEMMA QueueStep ==
    ASSUME IInv, [Next]_vars
    PROVE  \/ \E a \in Adds : Enqueue(a)
           \/ /\ \/ \E i \in 1..MaxQueueSize : Remove(i)
                 \/ tracks # <<>> /\ tracks' = Tail(tracks)
                 \/ UNCHANGED tracks
              /\ \A a \in Adds : ~Joins(a) /\ (add[a] # "idle" => add'[a] # "idle")
              /\ \A a \in Adds : add[a] = "idle" /\ add'[a] = "full" =>
                    UNCHANGED tracks /\ Len(tracks) >= MaxQueueSize
<1> USE DEF Joins, queueVars, trackVars
<1>1. add \in [Adds -> {"idle", "notifying", "ok", "full"}]
  BY DEF IInv, TypeOK
<1>2. ASSUME NEW a \in Adds, EnqueueFull(a) \/ SignalNotify(a)
      PROVE  /\ UNCHANGED tracks
             /\ \A b \in Adds : ~Joins(b) /\ (add[b] # "idle" => add'[b] # "idle")
             /\ \A b \in Adds : add[b] = "idle" /\ add'[b] = "full" =>
                    Len(tracks) >= MaxQueueSize
  BY <1>1, <1>2 DEF EnqueueFull, SignalNotify
<1>3. ASSUME NEW i \in 1..MaxQueueSize, Remove(i) PROVE UNCHANGED add
  BY <1>3 DEF Remove
<1>4. CASE Skip \/ Cancel \/ Watch
  BY <1>4 DEF Skip, Cancel, Watch, WatchSkip, WatchQuit
<1>5. CASE PeekTrack \/ RecordPlay \/ Play \/ StopWatch
  BY <1>5 DEF PeekTrack, RecordPlay, Play, TrackFinishes, TrackFails, TrackCancelled,
              TrackReturns, StopWatch
<1>6. CASE DequeueTrack
  BY <1>6 DEF DequeueTrack
<1>7. CASE SilenceNotified \/ SilenceCancelled \/ SilenceTimesOut
  BY <1>7 DEF SilenceNotified, SilenceCancelled, SilenceTimesOut
<1>8. CASE UNCHANGED vars
  BY <1>8 DEF vars
<1> QED
  BY <1>2, <1>3, <1>4, <1>5, <1>6, <1>7, <1>8 DEF Next, Handlers, StreamLoop

\* Two lists are one if they have the same elements at the same places.
LEMMA SameList ==
    ASSUME NEW S, NEW s \in Seq(S), NEW t \in Seq(S), Len(s) = Len(t),
           \A k \in 1..Len(s) : s[k] = t[k]
    PROVE  s = t
OBVIOUS

(* What RemoveAt of StationQueue leaves. *)
LEMMA RemoveAtIs ==
    ASSUME NEW S, NEW s \in Seq(S), NEW i \in 1..Len(s)
    PROVE  /\ Served!RemoveAt(s, i) \in Seq(S) /\ Len(Served!RemoveAt(s, i)) = Len(s) - 1
           /\ \A k \in 1..Len(s) - 1 :
                Served!RemoveAt(s, i)[k] = IF k < i THEN s[k] ELSE s[k + 1]
<1> DEFINE front == SubSeq(s, 1, i - 1)
           back == SubSeq(s, i + 1, Len(s))
           r == front \o back
<1>1. Len(s) \in Nat /\ i \in 1..Len(s)
  OBVIOUS
<1>2. front \in Seq(S) /\ Len(front) = i - 1 /\ \A k \in 1..i - 1 : front[k] = s[k]
  BY <1>1
<1>3. /\ back \in Seq(S) /\ Len(back) = Len(s) - i
      /\ \A k \in 1..Len(s) - i : back[k] = s[i + k]
  BY <1>1
<1>4. Served!RemoveAt(s, i) = r
  BY DEF Served!RemoveAt
<1> HIDE DEF front, back
<1>5. /\ r \in Seq(S) /\ Len(r) = Len(s) - 1
      /\ \A k \in 1..Len(r) : r[k] = IF k <= i - 1 THEN front[k] ELSE back[k - (i - 1)]
  <2>1. /\ r \in Seq(S) /\ Len(r) = Len(front) + Len(back)
        /\ \A k \in 1..Len(front) + Len(back) :
                r[k] = IF k <= Len(front) THEN front[k] ELSE back[k - Len(front)]
    BY <1>2, <1>3, ConcatProperties
  <2>2. Len(front) + Len(back) = Len(s) - 1
    BY <1>1, <1>2, <1>3
  <2> HIDE DEF r
  <2> QED BY <2>1, <2>2, <1>2
<1> HIDE DEF r
<1>6. ASSUME NEW k \in 1..Len(s) - 1 PROVE r[k] = IF k < i THEN s[k] ELSE s[k + 1]
  <2>1. CASE k < i
    BY <1>1, <1>2, <1>5, <2>1
  <2>2. CASE k >= i
    <3>1. k - (i - 1) \in 1..Len(s) - i /\ i + (k - (i - 1)) = k + 1
      BY <1>1, <2>2
    <3> QED BY <1>1, <1>3, <1>5, <2>2, <3>1
  <2> QED BY <1>1, <2>1, <2>2
<1> QED BY <1>4, <1>5, <1>6

(* A call that enqueues is one more entry, and there is a number for it. *)
LEMMA NumbersSuffice ==
    ASSUME ServedInv, NEW a \in Adds, add[a] = "idle"
    PROVE  Len(enqueued) \in Nat /\ Len(enqueued) < Cardinality(Adds)
<1> DEFINE others == Adds \ {a}
<1>1. Len(enqueued) \in Nat /\ DOMAIN enqueued = 1..Len(enqueued)
  BY DEF ServedInv, NumbersAreGood
<1>2. \A n \in 1..Len(enqueued) : enqueued[n] \in others
  BY DEF ServedInv, NumbersAreGood
<1>3. enqueued \in [1..Len(enqueued) -> others]
  BY <1>1, <1>2 DEF ServedInv, NumbersAreGood
<1>4. enqueued \in Injection(1..Len(enqueued), others)
  BY <1>3, <1>1 DEF Injection, IsInjective, ServedInv, NumbersAreGood
<1>5. IsFiniteSet(others) /\ Cardinality(others) = Cardinality(Adds) - 1
  BY ServedAssumption, FS_RemoveElement
<1>6. Cardinality(1..Len(enqueued)) <= Cardinality(others)
  BY <1>4, <1>5, FS_Injection
<1>7. Cardinality(1..Len(enqueued)) = Len(enqueued)
  <2> DEFINE n == Len(enqueued)
  <2>1. n \in Nat
    BY <1>1
  <2> HIDE DEF n
  <2>2. Cardinality(1..n) = n
    BY <2>1, FS_Interval
  <2> QED BY <2>2 DEF n
<1>8. Cardinality(Adds) \in Nat
  BY ServedAssumption, FS_CardinalityType
<1> QED BY <1>1, <1>5, <1>6, <1>7, <1>8

(* The numbers after a step that appends one. *)
LEMMA NumbersGrow ==
    ASSUME ServedInv, NEW a \in Adds, Enqueue(a), enqueued' = Append(enqueued, a),
           registered' = registered
    PROVE  /\ NumbersAreGood' /\ FoundAreNumbered'
           /\ Len(enqueued') = Len(enqueued) + 1 /\ enqueued'[Len(enqueued) + 1] = a
           /\ \A n \in 1..Len(enqueued) : enqueued'[n] = enqueued[n]
<1>1. /\ Len(enqueued) \in Nat /\ enqueued' \in Seq(Adds)
      /\ Len(enqueued') = Len(enqueued) + 1 /\ enqueued'[Len(enqueued) + 1] = a
      /\ \A n \in 1..Len(enqueued) : enqueued'[n] = enqueued[n] /\ enqueued[n] \in Adds
  BY DEF ServedInv, NumbersAreGood
<1>2. /\ add[a] = "idle" /\ add' = [add EXCEPT ![a] = "notifying"]
      /\ add \in [Adds -> {"idle", "notifying", "ok", "full"}]
  BY DEF Enqueue, ServedInv, IInv, TypeOK
<1>3. \A n \in 1..Len(enqueued) : enqueued[n] # a
  BY <1>2 DEF ServedInv, NumbersAreGood
<1>4. NumbersAreGood'
  BY <1>1, <1>2, <1>3 DEF ServedInv, NumbersAreGood
<1>5. FoundAreNumbered'
  <2> SUFFICES ASSUME registered, NEW i \in 1..Len(tracks')
               PROVE  \E n \in 1..Len(enqueued') : enqueued'[n] = tracks'[i]
    BY DEF FoundAreNumbered
  <2>1. /\ Len(tracks') = Len(tracks) + 1 /\ Len(tracks) \in Nat
        /\ \A n \in 1..Len(tracks) : tracks'[n] = tracks[n]
        /\ tracks'[Len(tracks) + 1] = a
    BY EnqueueTracks DEF ServedInv, IInv, TypeOK
  <2>2. CASE i = Len(tracks) + 1
    BY <1>1, <2>1, <2>2
  <2>3. CASE i \in 1..Len(tracks)
    <3>1. PICK n \in 1..Len(enqueued) : enqueued[n] = tracks[i]
      BY <2>3 DEF ServedInv, FoundAreNumbered
    <3>2. n \in 1..Len(enqueued') /\ enqueued'[n] = tracks'[i]
      BY <1>1, <2>1, <2>3, <3>1
    <3> QED BY <3>2
  <2> QED BY <2>1, <2>2, <2>3
<1> QED BY <1>1, <1>4, <1>5

(* An entry that joins the queue of a registered session: AddTrack's "ok". *)
LEMMA EnqueueServed ==
    ASSUME ServedInv, NEW a \in Adds, Enqueue(a), registered,
           enqueued' = Append(enqueued, a), registered' = registered
    PROVE  Served!AddTrack("ok")
<1>1. /\ NumbersAreGood' /\ FoundAreNumbered'
      /\ Len(enqueued') = Len(enqueued) + 1 /\ enqueued'[Len(enqueued) + 1] = a
      /\ \A n \in 1..Len(enqueued) : enqueued'[n] = enqueued[n]
  BY NumbersGrow
<1>2. Len(enqueued) \in Nat /\ Len(enqueued) < Cardinality(Adds)
  BY NumbersSuffice DEF Enqueue
<1>3. IInv' /\ Len(tracks) < MaxQueueSize
  BY NextIInv DEF ServedInv, Enqueue, Next, Handlers
<1>4. ServedInv'
  BY <1>1, <1>3 DEF ServedInv
<1>5. /\ FoundQueue \in Seq(Nat) /\ Len(FoundQueue) = Len(tracks)
      /\ \A i \in 1..Len(tracks) : FoundQueue[i] = Number(enqueued, tracks[i])
  BY FoundIs
<1>6. /\ FoundQueue' \in Seq(Nat) /\ Len(FoundQueue') = Len(tracks')
      /\ \A i \in 1..Len(tracks') : FoundQueue'[i] = Number(enqueued', tracks'[i])
  BY <1>4, FoundIsAfter
<1>7. /\ Len(tracks') = Len(tracks) + 1 /\ Len(tracks) \in Nat
      /\ \A n \in 1..Len(tracks) : tracks'[n] = tracks[n]
      /\ tracks'[Len(tracks) + 1] = a
  BY EnqueueTracks DEF ServedInv, IInv, TypeOK
<1>8. \A n \in 1..Len(enqueued') : Number(enqueued', enqueued'[n]) = n
  BY <1>1 DEF Number, NumbersAreGood
<1>9. FoundQueue' = Append(FoundQueue, Len(enqueued) + 1)
  <2> DEFINE r == Append(FoundQueue, Len(enqueued) + 1)
  <2>1. /\ r \in Seq(Nat) /\ Len(r) = Len(tracks')
        /\ \A i \in 1..Len(tracks) : r[i] = FoundQueue[i]
        /\ r[Len(tracks) + 1] = Len(enqueued) + 1
    BY <1>2, <1>5, <1>7
  <2>2. ASSUME NEW i \in 1..Len(tracks') PROVE FoundQueue'[i] = r[i]
    <3>1. CASE i = Len(tracks) + 1
      <4>1. Len(enqueued) + 1 \in 1..Len(enqueued')
        BY <1>1, <1>2
      <4>2. Number(enqueued', enqueued'[Len(enqueued) + 1]) = Len(enqueued) + 1
        BY <1>8, <4>1
      <4>3. tracks'[i] = enqueued'[Len(enqueued) + 1]
        BY <1>1, <1>7, <3>1
      <4> QED BY <1>6, <2>1, <3>1, <4>2, <4>3
    <3>2. CASE i \in 1..Len(tracks)
      <4>1. PICK n \in 1..Len(enqueued) : enqueued[n] = tracks[i]
        BY <3>2 DEF ServedInv, FoundAreNumbered
      <4>2. Number(enqueued, tracks[i]) = n
        BY <4>1, NumberIs DEF ServedInv
      <4>3. n \in 1..Len(enqueued') /\ enqueued'[n] = tracks'[i]
        BY <1>1, <1>2, <1>7, <3>2, <4>1
      <4>4. Number(enqueued', tracks'[i]) = n
        BY <1>8, <4>3
      <4> QED BY <1>5, <1>6, <2>1, <3>2, <4>2, <4>4
    <3>3. i = Len(tracks) + 1 \/ i \in 1..Len(tracks)
      BY <1>7
    <3> QED BY <3>1, <3>2, <3>3
  <2> HIDE DEF r
  <2>3. FoundQueue' = r
    BY <1>6, <2>1, <2>2, SameList
  <2> QED BY <2>3 DEF r
<1> QED BY <1>1, <1>2, <1>3, <1>5, <1>9 DEF Served!AddTrack

(* The invariant after a step in which no entry joins. *)
LEMMA OthersKeepServed ==
    ASSUME ServedInv, [Next]_vars, enqueued' = enqueued, registered' = registered,
           \A a \in Adds : add[a] # "idle" => add'[a] # "idle",
           \A k \in 1..Len(tracks') : \E i \in 1..Len(tracks) : tracks'[k] = tracks[i]
    PROVE  ServedInv'
<1>1. IInv'
  BY NextIInv DEF ServedInv
<1>2. \A n \in 1..Len(enqueued) : enqueued[n] \in Adds
  BY DEF ServedInv, NumbersAreGood
<1>3. NumbersAreGood'
  BY <1>2 DEF ServedInv, NumbersAreGood
<1>4. FoundAreNumbered'
  BY DEF ServedInv, FoundAreNumbered
<1> QED BY <1>1, <1>3, <1>4 DEF ServedInv

(* A track behind the head is removed: RemoveTrack's "ok". *)
LEMMA RemoveServed ==
    ASSUME ServedInv, NEW i \in 1..MaxQueueSize, Remove(i),
           enqueued' = enqueued, registered' = registered
    PROVE  /\ ServedInv'
           /\ registered => i - 1 \in 1..MaxQueueSize /\ Served!RemoveTrack(i - 1, "ok")
<1>1. /\ Len(tracks) \in Nat /\ Len(tracks') = Len(tracks) - 1 /\ i \in 2..Len(tracks)
      /\ \A k \in 1..Len(tracks') : tracks'[k] = IF k < i THEN tracks[k] ELSE tracks[k + 1]
  BY RemoveTracks DEF ServedInv, IInv, TypeOK
<1>2. ServedInv'
  <2>1. UNCHANGED add /\ [Next]_vars
    BY DEF Remove, Next, Handlers
  <2>2. \A k \in 1..Len(tracks') : k \in 1..Len(tracks) /\ k + 1 \in 1..Len(tracks)
    BY <1>1
  <2>3. \A k \in 1..Len(tracks') : \E j \in 1..Len(tracks) : tracks'[k] = tracks[j]
    BY <1>1, <2>2
  <2> QED BY <2>1, <2>3, OthersKeepServed
<1>3. ASSUME registered PROVE i - 1 \in 1..MaxQueueSize /\ Served!RemoveTrack(i - 1, "ok")
  <2>1. /\ FoundQueue \in Seq(Nat) /\ Len(FoundQueue) = Len(tracks)
        /\ \A k \in 1..Len(tracks) : FoundQueue[k] = Number(enqueued, tracks[k])
    BY <1>3, FoundIs
  <2>2. /\ FoundQueue' \in Seq(Nat) /\ Len(FoundQueue') = Len(tracks')
        /\ \A k \in 1..Len(tracks') : FoundQueue'[k] = Number(enqueued, tracks'[k])
    BY <1>2, <1>3, FoundIsAfter
  <2> DEFINE r == Served!RemoveAt(FoundQueue, i)
  <2>3. i \in 1..Len(FoundQueue)
    BY <1>1, <2>1
  <2>4. /\ r \in Seq(Nat) /\ Len(r) = Len(FoundQueue) - 1
        /\ \A k \in 1..Len(FoundQueue) - 1 :
             r[k] = IF k < i THEN FoundQueue[k] ELSE FoundQueue[k + 1]
    BY <2>1, <2>3, RemoveAtIs
  <2> HIDE DEF r
  <2>5. ASSUME NEW k \in 1..Len(tracks') PROVE FoundQueue'[k] = r[k]
    <3>1. k \in 1..Len(tracks) /\ k + 1 \in 1..Len(tracks)
      BY <1>1
    <3> QED BY <1>1, <2>1, <2>2, <2>4, <3>1
  <2>6. FoundQueue' = r
    BY <1>1, <2>1, <2>2, <2>4, <2>5, SameList
  <2>7. i - 1 \in 1..(Len(FoundQueue) - 1) /\ (i - 1) + 1 = i
    BY <1>1, <2>1
  <2>8. Len(tracks) <= MaxQueueSize /\ MaxQueueSize \in Nat
    BY PlaybackAssumption DEF ServedInv, IInv, TypeOK
  <2>9. Served!RemoveTrack(i - 1, "ok")
    BY <1>3, <2>6, <2>7 DEF Served!RemoveTrack, r
  <2> QED BY <2>7, <2>8, <2>9, <2>1
<1> QED BY <1>2, <1>3

(* The loop dequeues the track that it played: TrackEnds. *)
LEMMA DequeueServed ==
    ASSUME ServedInv, [Next]_vars, tracks # <<>>, tracks' = Tail(tracks),
           enqueued' = enqueued, registered' = registered,
           \A a \in Adds : add[a] # "idle" => add'[a] # "idle"
    PROVE  ServedInv' /\ (registered => Served!TrackEnds)
<1>1. /\ Len(tracks) \in Nat \ {0} /\ Len(tracks') = Len(tracks) - 1
      /\ \A k \in 1..Len(tracks') : tracks'[k] = tracks[k + 1]
  BY DequeueTracks DEF ServedInv, IInv
<1>2. ServedInv'
  <2>1. \A k \in 1..Len(tracks') : k + 1 \in 1..Len(tracks)
    BY <1>1
  <2>2. \A k \in 1..Len(tracks') : \E j \in 1..Len(tracks) : tracks'[k] = tracks[j]
    BY <1>1, <2>1
  <2> QED BY <2>2, OthersKeepServed
<1>3. ASSUME registered PROVE Served!TrackEnds
  <2>1. /\ FoundQueue \in Seq(Nat) /\ Len(FoundQueue) = Len(tracks)
        /\ \A k \in 1..Len(tracks) : FoundQueue[k] = Number(enqueued, tracks[k])
    BY <1>3, FoundIs
  <2>2. /\ FoundQueue' \in Seq(Nat) /\ Len(FoundQueue') = Len(tracks')
        /\ \A k \in 1..Len(tracks') : FoundQueue'[k] = Number(enqueued, tracks'[k])
    BY <1>2, <1>3, FoundIsAfter
  <2>3. FoundQueue # <<>>
    BY <1>1, <2>1
  <2> DEFINE r == Tail(FoundQueue)
  <2>4. /\ r \in Seq(Nat) /\ Len(r) = Len(tracks')
        /\ \A k \in 1..Len(tracks') : r[k] = FoundQueue[k + 1]
    BY <1>1, <2>1, <2>3
  <2> HIDE DEF r
  <2>5. ASSUME NEW k \in 1..Len(tracks') PROVE FoundQueue'[k] = r[k]
    <3>1. k + 1 \in 1..Len(tracks)
      BY <1>1
    <3> QED BY <1>1, <2>1, <2>2, <2>4, <3>1
  <2>6. FoundQueue' = r
    BY <2>2, <2>4, <2>5, SameList
  <2> QED BY <1>3, <2>3, <2>6 DEF Served!TrackEnds, r
<1> QED BY <1>2, <1>3

\* A call may go on from where it is, and none but an enqueue brings an entry.
LEMMA EnqueueJoins ==
    ASSUME IInv, NEW a \in Adds, Enqueue(a)
    PROVE  /\ Joins(a) /\ (CHOOSE b \in Adds : Joins(b)) = a
           /\ \A b \in Adds : add'[b] = IF b = a THEN "notifying" ELSE add[b]
<1>1. /\ add[a] = "idle" /\ add' = [add EXCEPT ![a] = "notifying"]
      /\ add \in [Adds -> {"idle", "notifying", "ok", "full"}]
  BY DEF Enqueue, IInv, TypeOK
<1>2. \A b \in Adds : add'[b] = IF b = a THEN "notifying" ELSE add[b]
  BY <1>1
<1>3. \A b \in Adds : Joins(b) <=> b = a
  BY <1>1, <1>2 DEF Joins
<1> QED BY <1>2, <1>3

\* A step that leaves the queue alone leaves alone what a client finds.
LEMMA SameFound ==
    ASSUME UNCHANGED <<tracks, registered, enqueued>>
    PROVE  FoundQueue' = FoundQueue
BY DEF FoundQueue

\* What an AddTrack call is answered, in StationQueue's words.
Answered ==
    \A a \in Adds : registered /\ add[a] = "idle" =>
        /\ add'[a] = "notifying" => Served!AddTrack("ok")
        /\ add'[a] = "full" => Served!AddTrack("queue full")

\* Steps of the session: the invariant is kept, and StationQueue allows them.
LEMMA NextServed ==
    ASSUME ServedInv, [Next]_vars, registered' = registered,
           enqueued' = IF registered /\ \E a \in Adds : Joins(a)
                       THEN Append(enqueued, CHOOSE a \in Adds : Joins(a))
                       ELSE enqueued
    PROVE  /\ ServedInv' /\ Answered
           /\ ServedStep \/ UNCHANGED <<registered, FoundQueue, enqueued>>
<1>0. IInv
  BY DEF ServedInv
<1>1. ASSUME NEW a \in Adds, Enqueue(a)
      PROVE  /\ ServedInv' /\ Answered
             /\ ServedStep \/ UNCHANGED <<registered, FoundQueue, enqueued>>
  <2>1. /\ Joins(a) /\ (CHOOSE b \in Adds : Joins(b)) = a
        /\ \A b \in Adds : add'[b] = IF b = a THEN "notifying" ELSE add[b]
    BY <1>0, <1>1, EnqueueJoins
  <2>2. CASE registered
    <3>1. enqueued' = Append(enqueued, a)
      BY <2>1, <2>2
    <3>2. Served!AddTrack("ok")
      BY <1>1, <2>2, <3>1, EnqueueServed
    <3>3. NumbersAreGood' /\ FoundAreNumbered' /\ IInv'
      BY <1>0, <1>1, <3>1, NumbersGrow, NextIInv
    <3>4. Answered
      BY <2>1, <3>2 DEF Answered
    <3> QED BY <3>2, <3>3, <3>4 DEF ServedInv, ServedStep
  <2>3. CASE ~registered
    <3>1. enqueued' = enqueued
      BY <2>3
    <3>2. \A n \in 1..Len(enqueued) : enqueued[n] \in Adds /\ add'[enqueued[n]] # "idle"
      BY <2>1 DEF ServedInv, NumbersAreGood
    <3>3. NumbersAreGood'
      BY <3>1, <3>2 DEF ServedInv, NumbersAreGood
    <3>4. FoundAreNumbered' /\ FoundQueue' = FoundQueue
      BY <2>3 DEF FoundAreNumbered, FoundQueue
    <3> QED BY <1>0, <2>3, <3>1, <3>3, <3>4, NextIInv DEF ServedInv, Answered
  <2> QED BY <2>2, <2>3
<1>2. ASSUME \/ \E i \in 1..MaxQueueSize : Remove(i)
             \/ tracks # <<>> /\ tracks' = Tail(tracks)
             \/ UNCHANGED tracks,
             \A a \in Adds : ~Joins(a) /\ (add[a] # "idle" => add'[a] # "idle"),
             \A a \in Adds : add[a] = "idle" /\ add'[a] = "full" =>
                    UNCHANGED tracks /\ Len(tracks) >= MaxQueueSize
      PROVE  /\ ServedInv' /\ Answered
             /\ ServedStep \/ UNCHANGED <<registered, FoundQueue, enqueued>>
  <2>1. enqueued' = enqueued
    BY <1>2
  <2>2. Answered
    <3> SUFFICES ASSUME NEW a \in Adds, registered, add[a] = "idle", add'[a] = "full"
                 PROVE  Served!AddTrack("queue full")
      BY <1>2 DEF Answered, Joins
    <3>1. UNCHANGED tracks /\ Len(tracks) >= MaxQueueSize
      BY <1>2
    <3>2. FoundQueue' = FoundQueue
      BY <2>1, <3>1, SameFound
    <3>3. Len(FoundQueue) >= MaxQueueSize
      BY <3>1, FoundIs
    <3> QED BY <2>1, <3>2, <3>3
            DEF Served!AddTrack, Served!Refuse, Served!queueVars
  <2>3. ASSUME NEW i \in 1..MaxQueueSize, Remove(i)
        PROVE  ServedInv' /\ (ServedStep \/ UNCHANGED <<registered, FoundQueue, enqueued>>)
    <3>1. /\ ServedInv'
          /\ registered => i - 1 \in 1..MaxQueueSize /\ Served!RemoveTrack(i - 1, "ok")
      BY <2>1, <2>3, RemoveServed
    <3>2. ~registered => FoundQueue' = FoundQueue
      BY DEF FoundQueue
    <3> QED BY <2>1, <3>1, <3>2 DEF ServedStep
  <2>4. ASSUME tracks # <<>>, tracks' = Tail(tracks)
        PROVE  ServedInv' /\ (ServedStep \/ UNCHANGED <<registered, FoundQueue, enqueued>>)
    <3>1. ServedInv' /\ (registered => Served!TrackEnds)
      BY <1>2, <2>1, <2>4, DequeueServed
    <3>2. ~registered => FoundQueue' = FoundQueue
      BY DEF FoundQueue
    <3> QED BY <2>1, <3>1, <3>2 DEF ServedStep
  <2>5. ASSUME UNCHANGED tracks
        PROVE  ServedInv' /\ UNCHANGED <<registered, FoundQueue, enqueued>>
    <3>1. ServedInv'
      BY <1>2, <2>1, <2>5, OthersKeepServed
    <3> QED BY <2>1, <2>5, <3>1, SameFound
  <2> QED BY <1>2, <2>2, <2>3, <2>4, <2>5
<1> QED BY <1>0, <1>1, <1>2, QueueStep

\* The session is taken out of the map: its queue cannot be found any more.
LEMMA DeleteServed ==
    ASSUME ServedInv, DeleteSession
    PROVE  ServedInv' /\ Answered /\ ServedStep
<1>1. UNCHANGED vars /\ registered /\ registered' = FALSE /\ enqueued' = enqueued
  BY DEF DeleteSession
<1>2. IInv'
  BY <1>1, NextIInv DEF ServedInv
<1>3. add' = add /\ tracks' = tracks
  BY <1>1 DEF vars, queueVars
<1>4. NumbersAreGood' /\ FoundAreNumbered'
  BY <1>1, <1>3 DEF ServedInv, NumbersAreGood, FoundAreNumbered
<1>5. Answered
  BY <1>3 DEF Answered
<1>6. Served!SessionEnds
  BY <1>1 DEF FoundQueue, Served!SessionEnds
<1> QED BY <1>2, <1>4, <1>5, <1>6 DEF ServedInv, ServedStep

LEMMA StepServed ==
    ASSUME ServedInv, [ServedNext]_servedVars
    PROVE  /\ ServedInv'
           /\ [ServedStep \/ UNCHANGED <<registered, FoundQueue, enqueued>>]_servedVars
           /\ [Answered]_servedVars
<1>1. CASE Next /\ ServedNext /\ ~DeleteSession
  BY <1>1, NextServed DEF ServedNext
<1>2. CASE DeleteSession
  BY <1>2, DeleteServed
<1>3. CASE UNCHANGED servedVars
  <2>1. UNCHANGED vars /\ registered' = registered /\ enqueued' = enqueued
    BY <1>3 DEF servedVars
  <2>2. add' = add /\ tracks' = tracks
    BY <2>1 DEF vars, queueVars
  <2>3. IInv'
    BY <2>1, NextIInv DEF ServedInv
  <2>4. NumbersAreGood' /\ FoundAreNumbered'
    BY <2>1, <2>2 DEF ServedInv, NumbersAreGood, FoundAreNumbered
  <2> QED BY <1>3, <2>3, <2>4 DEF ServedInv
<1> QED BY <1>1, <1>2, <1>3 DEF ServedNext

(* What the clients are modelled over is what the server does: for any number
   of calls and any size of the queue, a registered session's queue, its loop
   and its handlers do what StationQueue says (SessionQueue behind
   SessionManager.GetQueue). *)
THEOREM ServesClients == ServedSpec => ServesItsQueue
<1>1. ServedInit => ServedInv
  BY InitServed
<1>2. ServedInit => Served!QueueInit
  <2> SUFFICES ASSUME ServedInit PROVE Served!QueueInit
    OBVIOUS
  <2>1. Len(tracks) = 0 /\ Len(enqueued) = 0 /\ registered = TRUE
    BY DEF ServedInit, Init
  <2>2. FoundQueue = <<>>
    BY <2>1 DEF FoundQueue, Numbers
  <2> QED BY <2>1, <2>2 DEF Served!QueueInit
<1>3. ServedInv /\ [ServedNext]_servedVars => ServedInv'
  BY StepServed
<1>4. ServedInv /\ [ServedNext]_servedVars =>
        [ServedStep \/ UNCHANGED <<registered, FoundQueue, enqueued>>]_servedVars
  BY StepServed
<1>5. ServedInv /\ [ServedNext]_servedVars =>
        [\A a \in Adds : registered /\ add[a] = "idle" =>
            /\ add'[a] = "notifying" => Served!AddTrack("ok")
            /\ add'[a] = "full" => Served!AddTrack("queue full")]_servedVars
  BY StepServed DEF Answered
<1> QED BY <1>1, <1>2, <1>3, <1>4, <1>5, PTL DEF ServedSpec, ServesItsQueue
=============================================================================
