----------------------------- MODULE TrackCache -----------------------------
(***************************************************************************)
(* The files of the music directory, the cache that evicts them (Cache)    *)
(* and the AddTrack handler that uses both: DownloadTrackFromURL, Enqueue, *)
(* the snapshot of the tracks in use and Touch.  Several AddTrack calls    *)
(* interleave; only the cache's own operations are under its mutex.        *)
(*                                                                         *)
(* An AddTrack call is a one-shot process and stands for the queue entry   *)
(* it makes.  The queues are one set of entries: a full queue or a session *)
(* that is gone is a failure, and an entry may leave at any time (played   *)
(* or removed).  A track stands for its row and its file too.  The initial *)
(* states are those of a server started on any database and directory, so  *)
(* they cover every restart.                                               *)
(***************************************************************************)
EXTENDS Integers, Sequences, FiniteSets, Subsequences

CONSTANTS
    Adds,           \* calls of the AddTrack RPC
    Tracks,         \* tracks they may ask for
    CacheWindow     \* number of tracks the cache keeps

ASSUME CacheAssumption ==
    CacheWindow \in Nat \ {0} /\ IsFiniteSet(Adds) /\ IsFiniteSet(Tracks)

VARIABLES
    track,          \* the track each call asks for
    files,          \* tracks whose file is in the music directory
    rows,           \* tracks with a row in the database
    window,         \* Cache.window, most recently used first
    queued,         \* entries in some session's queue
    pc,             \* where each call is
    inUse,          \* InUseTrackIDs as each call read them
    raced           \* history: calls whose track may be evicted behind them

vars == <<track, files, rows, window, queued, pc, inUse, raced>>

Elements(s) == {s[n] : n \in 1..Len(s)}
Without(s, t) == AtPlaces(s, {n \in 1..Len(s) : s[n] # t})

\* The calls that hold a track they have found or fetched and not yet queued.
Holding == {"row", "insert", "enqueue"}

\* The calls that will evict by a snapshot taken before.
Evicting == {"touchRow", "touch"}

\* The places of a call.
Places ==
    {"get", "stat", "download", "tags", "snapshot", "done", "failed", "panicked"}
        \cup Holding \cup Evicting

TypeOK ==
    /\ track \in [Adds -> Tracks]
    /\ files \subseteq Tracks
    /\ rows \subseteq Tracks
    /\ window \in Seq(rows)
    /\ \A m, n \in 1..Len(window) : window[m] = window[n] => m = n
    /\ queued \subseteq Adds
    /\ pc \in [Adds -> Places]
    /\ inUse \in [Adds -> SUBSET Tracks]
    /\ raced \subseteq Adds

\* NewCache: as many rows as the window takes, by a last_used_at of any order.
Hydrated(w) ==
    /\ Elements(w) \subseteq rows
    /\ Cardinality(Elements(w)) = Len(w)
    /\ Len(w) < CacheWindow => Elements(w) = rows

Init ==
    /\ track \in [Adds -> Tracks]
    /\ files \in SUBSET Tracks
    /\ rows \in SUBSET Tracks
    /\ window \in UNION {[1..n -> rows] : n \in 0..CacheWindow}
    /\ Hydrated(window)
    /\ queued = {}
    /\ pc = [a \in Adds |-> "get"]
    /\ inUse = [a \in Adds |-> {}]
    /\ raced = {}

-----------------------------------------------------------------------------
(* DownloadTrackFromURL.                                                   *)

Goto(a, l) == pc' = [pc EXCEPT ![a] = l]

\* Cache.Get: a hit moves to the front.
CacheHit(a) ==
    /\ pc[a] = "get"
    /\ track[a] \in Elements(window)
    /\ window' = <<track[a]>> \o Without(window, track[a])
    /\ Goto(a, "stat")
    /\ UNCHANGED <<track, files, rows, queued, inUse, raced>>

CacheMiss(a) ==
    /\ pc[a] = "get"
    /\ track[a] \notin Elements(window)
    /\ Goto(a, "download")
    /\ UNCHANGED <<track, files, rows, window, queued, inUse, raced>>

Stat(a) ==
    /\ pc[a] = "stat"
    /\ Goto(a, IF track[a] \in files THEN "enqueue" ELSE "download")
    /\ UNCHANGED <<track, files, rows, window, queued, inUse, raced>>

\* yt-dlp fetches the file, or finds it there and exits early.
Download(a) ==
    /\ pc[a] = "download"
    /\ files' = files \cup {track[a]}
    /\ Goto(a, "tags")
    /\ UNCHANGED <<track, rows, window, queued, inUse, raced>>

\* The tags are read from the file, which another call may have evicted.
ReadTags(a) ==
    /\ pc[a] = "tags"
    /\ Goto(a, IF track[a] \in files THEN "row" ELSE "failed")
    /\ UNCHANGED <<track, files, rows, window, queued, inUse, raced>>

\* GetTrack: any error, a cancelled request too, is taken for a missing row.
FindRow(a) ==
    /\ pc[a] = "row"
    /\ \/ track[a] \in rows /\ Goto(a, "enqueue")
       \/ Goto(a, "insert")
    /\ UNCHANGED <<track, files, rows, window, queued, inUse, raced>>

InsertRow(a) ==
    /\ pc[a] = "insert"
    /\ track[a] \notin rows
    /\ rows' = rows \cup {track[a]}
    /\ Goto(a, "enqueue")
    /\ UNCHANGED <<track, files, window, queued, inUse, raced>>

\* The insert fails (a row inserted meanwhile, a cancelled request), or the row is
\* inserted and cannot be read: that leaves a nil track, whose title is logged
\* before the error is looked at.
Panic(a) ==
    /\ pc[a] = "insert"
    /\ rows' \in {rows, rows \cup {track[a]}}
    /\ Goto(a, "panicked")
    /\ UNCHANGED <<track, files, window, queued, inUse, raced>>

\* yt-dlp, the tags, the update of the row, the lookup of the session or the
\* enqueue fails; the handler returns the error.
Fail(a) ==
    /\ pc[a] \in {"get", "download", "tags", "row", "enqueue"}
    /\ Goto(a, "failed")
    /\ UNCHANGED <<track, files, rows, window, queued, inUse, raced>>

-----------------------------------------------------------------------------
(* The rest of the handler, and Cache.Touch.                               *)

Enqueue(a) ==
    /\ pc[a] = "enqueue"
    /\ queued' = queued \cup {a}
    /\ Goto(a, "snapshot")
    /\ raced' = IF \E b \in Adds : pc[b] \in Evicting /\ track[a] \notin inUse[b]
                THEN raced \cup {a} ELSE raced
    /\ UNCHANGED <<track, files, rows, window, inUse>>

\* Mutant: the tracks in use are read before the track is queued.
InUseOfOthers(a) == {track[b] : b \in queued \ {a}}

InUseTrackIDs(a) == {track[b] : b \in queued}

Snapshot(a) ==
    /\ pc[a] = "snapshot"
    /\ inUse' = [inUse EXCEPT ![a] = InUseTrackIDs(a)]
    /\ Goto(a, "touchRow")
    /\ UNCHANGED <<track, files, rows, window, queued, raced>>

\* The update of last_used_at fails: Touch returns, its error is logged.
TouchRow(a) ==
    /\ pc[a] = "touchRow"
    /\ Goto(a, "touch") \/ Goto(a, "done")
    /\ UNCHANGED <<track, files, rows, window, queued, inUse, raced>>

\* Mutant: the list gets a second element for a track it has.
TouchedTwice(t) == <<t>> \o window

\* The window with t in front, before it is cut.
Touched(t) == <<t>> \o Without(window, t)

\* Mutant: the most recently used tracks go first.
VictimsFromTheFront(w, used) ==
    LET unused == {n \in 1..Len(w) : w[n] \notin used}
        newer(n) == Cardinality({m \in unused : m < n})
    IN  {w[n] : n \in {m \in unused : newer(m) < Len(w) - CacheWindow}}

\* The oldest tracks of w not in use, as many as exceed the window.
Victims(w, used) ==
    LET unused == {n \in 1..Len(w) : w[n] \notin used}
        older(n) == Cardinality({m \in unused : m > n})
    IN  {w[n] : n \in {m \in unused : older(m) < Len(w) - CacheWindow}}

\* Touch under the mutex.  A file that cannot be removed stays.
Touch(a) ==
    /\ pc[a] = "touch"
    /\ LET w == Touched(track[a])
           victims == Victims(w, inUse[a])
       IN  /\ window' = AtPlaces(w, {n \in 1..Len(w) : w[n] \notin victims})
           /\ \E stuck \in SUBSET victims : files' = files \ (victims \ stuck)
           /\ raced' = raced \cup {b \in Adds : pc[b] \in Holding /\ track[b] \in victims}
    /\ Goto(a, "done")
    /\ UNCHANGED <<track, rows, queued, inUse>>

\* An entry leaves its queue: it was played, removed, or its session ended.
Leave(a) ==
    /\ a \in queued
    /\ queued' = queued \ {a}
    /\ UNCHANGED <<track, files, rows, window, pc, inUse, raced>>

-----------------------------------------------------------------------------
AddTrack(a) ==
    \/ CacheHit(a) \/ CacheMiss(a) \/ Stat(a) \/ Download(a) \/ ReadTags(a)
    \/ FindRow(a) \/ InsertRow(a) \/ Panic(a) \/ Fail(a)
    \/ Enqueue(a) \/ Snapshot(a) \/ TouchRow(a) \/ Touch(a)

Next == \E a \in Adds : AddTrack(a) \/ Leave(a)

Spec == Init /\ [][Next]_vars

-----------------------------------------------------------------------------
(* Properties.                                                             *)

(* A queued track is without its file only if the call that queued it lost *)
(* one of two races: another call's Touch evicted the track between the    *)
(* moment its file was found or fetched and its Enqueue, or a call that    *)
(* had read the tracks in use before that Enqueue was yet to evict.        *)
FileLossNeedsARace ==
    \A a \in queued : track[a] \notin files => a \in raced

\* A window w of which Touch leaves w2, given the tracks in use.
JustEnough(w, w2, used) ==
    LET kept == Elements(w2)
        dropped == Elements(w) \ kept
    IN  /\ dropped \cap used = {}
        /\ dropped # {} => Len(w2) >= CacheWindow
        /\ Len(w2) > CacheWindow => kept \subseteq used
        /\ \A m, n \in 1..Len(w) : w[m] \in dropped /\ w[n] \in kept \ used => n < m

(* Touch evicts no track of its snapshot and no more than it must, the     *)
(* oldest first, and leaves the window too long only when the snapshot     *)
(* holds all of it: a cache full of queued tracks grows.                   *)
TouchEvictsJustEnough ==
    [][\A a \in Adds : pc[a] = "touch" /\ pc'[a] = "done" =>
        JustEnough(Touched(track[a]), window', inUse[a])]_vars

(* Touch is documented: "tracks currently in a session queue are never     *)
(* evicted".  The set it is given is a snapshot, so the code evicts a      *)
(* track that was queued after the snapshot was taken.                     *)
QueuedTracksAreNeverEvicted ==
    [][\A a \in queued : track[a] \in Elements(window) => track[a] \in Elements(window')]_vars
=============================================================================
