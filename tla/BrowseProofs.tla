---------------------------- MODULE BrowseProofs ----------------------------
(***************************************************************************)
(* An archive stays the archive of one call.  Archive ids are never used   *)
(* again, so that the call, its archive, the queue it registered, every    *)
(* stream that plays that queue and the rows they record agree on one id   *)
(* for ever, whatever the id of the session means by then; none of the     *)
(* statements of a deletion can change that either.  The page of an        *)
(* archive is reached from a list that named it, so that it was there, and *)
(* keeps its rows until its deletion begins.                               *)
(***************************************************************************)
EXTENDS Browse, TLAPS

Called(c) == create[c].at # "none"

Typed ==
    /\ inserted \in Nat
    /\ create \in [Calls -> {NotCalled} \cup
                            [at : Places, session : Ids, archive : 0..inserted]]
    /\ sessions \in [Ids -> Calls \cup {Off}]
    /\ events \subseteq Calls
    /\ streams \in [Calls -> Calls \cup {Off}]

(* No two calls inserted the same archive. *)
OneCallPerArchive ==
    \A c, d \in Calls :
        Called(c) /\ Called(d) /\ create[c].archive = create[d].archive /\ create[c].archive # 0 => c = d

(* An archive, a row, a queue and a stream go back to a call, and agree with it. *)
ArchivesHaveCalls ==
    \A archive \in archives :
        /\ archive.by \in Calls
        /\ Called(archive.by)
        /\ create[archive.by].archive = archive.id
RowsHaveCalls ==
    \A r \in rows :
        /\ r.by \in Calls
        /\ Called(r.by)
        /\ create[r.by].archive = r.archive
        /\ r.archive # 0
SessionsHaveCalls == \A i \in Ids : sessions[i] # Off => Called(sessions[i])
StreamsHaveCalls ==
    /\ \A c \in events : Called(c)
    /\ \A c \in Calls : streams[c] # Off => Called(c) /\ Called(streams[c])

(* The archive of a call is there unless its deletion has begun. *)
ArchivesAreKept ==
    /\ \A c \in Calls :
         Called(c) /\ create[c].archive \notin {0} \cup deleted =>
             [id |-> create[c].archive, by |-> c] \in archives
    /\ deletion # NoDeletion => deletion.id \in deleted

IInv ==
    /\ Typed
    /\ OneCallPerArchive
    /\ ArchivesHaveCalls
    /\ RowsHaveCalls
    /\ SessionsHaveCalls
    /\ StreamsHaveCalls
    /\ ArchivesAreKept

LEMMA InitInv == Init => IInv
BY DEF Init, ArchivesInit, IInv, Typed, OneCallPerArchive, ArchivesHaveCalls, RowsHaveCalls,
       SessionsHaveCalls, StreamsHaveCalls, ArchivesAreKept, Called, NotCalled

LEMMA InvSuffices == IInv => ArchiveIsOneStation
<1> SUFFICES ASSUME IInv PROVE ArchiveIsOneStation
  OBVIOUS
<1>1. ASSUME NEW archive \in archives, NEW r \in rows, r.archive = archive.id
      PROVE  r.by = archive.by
  BY <1>1 DEF IInv, ArchivesHaveCalls, RowsHaveCalls, OneCallPerArchive
<1>2. ASSUME NEW c \in Calls, streams[c] # Off, create[streams[c]].archive \notin {0} \cup deleted
      PROVE  [id |-> create[streams[c]].archive, by |-> streams[c]] \in archives
  BY <1>2 DEF IInv, Typed, StreamsHaveCalls, ArchivesAreKept
<1>3. ASSUME NEW r \in rows, r.archive \notin deleted
      PROVE  [id |-> r.archive, by |-> r.by] \in archives
  BY <1>3 DEF IInv, RowsHaveCalls, ArchivesAreKept
<1> QED BY <1>1, <1>2, <1>3 DEF ArchiveIsOneStation

LEMMA InsertKeepsInv ==
    ASSUME IInv, NEW c \in Calls, NEW i \in Ids, NEW archive \in BOOLEAN,
           InsertArchive(c, i, archive)
    PROVE  IInv'
<1> DEFINE a == IF archive THEN inserted + 1 ELSE 0
           new == Call("inserted", i, a)
<1>1. /\ create[c].at = "none"
      /\ create' = [create EXCEPT ![c] = new]
      /\ inserted' = IF archive THEN inserted + 1 ELSE inserted
      /\ archives' = IF archive THEN archives \cup {[id |-> a, by |-> c]} ELSE archives
      /\ UNCHANGED <<sessions, events, streams, rows, played, deletion, deleted>>
  BY DEF InsertArchive, LastArchive, NotCalled, IInv, Typed
<1>2. /\ inserted \in Nat /\ a \in 0..inserted' /\ (a # 0 => a = inserted + 1)
      /\ \A d \in Calls : Called(d) => create[d].archive \in 0..inserted
  BY <1>1 DEF IInv, Typed, Called, NotCalled
<1>3. /\ new \in [at : Places, session : Ids, archive : 0..inserted']
      /\ new.at # "none" /\ new.archive = a
  BY <1>2 DEF Call, Places
<1> HIDE DEF new
<1>4. /\ \A d \in Calls : d # c => create'[d] = create[d]
      /\ create'[c] = new
      /\ ~Called(c) /\ Called(c)'
  BY <1>1, <1>3 DEF Called, IInv, Typed
<1>5. Typed'
  <2>1. inserted' \in Nat /\ 0..inserted \subseteq 0..inserted'
    BY <1>1, <1>2
  <2> QED BY <1>1, <1>3, <2>1 DEF IInv, Typed
<1>6. OneCallPerArchive'
  <2> SUFFICES ASSUME NEW d \in Calls, NEW e \in Calls, Called(d)', Called(e)',
                      create'[d].archive = create'[e].archive, create'[d].archive # 0, d # e
               PROVE  FALSE
    BY DEF OneCallPerArchive
  <2>1. CASE d # c /\ e # c
    BY <2>1, <1>4 DEF Called, IInv, OneCallPerArchive
  <2>2. CASE d = c
    BY <2>2, <1>2, <1>3, <1>4 DEF Called
  <2>3. CASE e = c
    BY <2>3, <1>2, <1>3, <1>4 DEF Called
  <2> QED BY <2>1, <2>2, <2>3
<1>7. ArchivesHaveCalls'
  <2> SUFFICES ASSUME NEW x \in archives'
               PROVE  x.by \in Calls /\ Called(x.by)' /\ create'[x.by].archive = x.id
    BY DEF ArchivesHaveCalls
  <2>1. CASE x \in archives
    BY <2>1, <1>4 DEF Called, IInv, ArchivesHaveCalls
  <2>2. CASE x = [id |-> a, by |-> c]
    <3>1. x.by = c /\ x.id = a
      BY <2>2
    <3> QED BY <3>1, <1>3, <1>4
  <2> QED BY <2>1, <2>2, <1>1
<1>8. RowsHaveCalls'
  BY <1>1, <1>4 DEF Called, IInv, RowsHaveCalls
<1>9. SessionsHaveCalls'
  BY <1>1, <1>4 DEF Called, IInv, Typed, SessionsHaveCalls
<1>10. StreamsHaveCalls'
  BY <1>1, <1>4 DEF Called, IInv, Typed, StreamsHaveCalls
<1>11. ArchivesAreKept'
  <2> SUFFICES ASSUME NEW d \in Calls, Called(d)', create'[d].archive \notin {0} \cup deleted
               PROVE  [id |-> create'[d].archive, by |-> d] \in archives'
    BY <1>1 DEF IInv, ArchivesAreKept
  <2>1. CASE d = c
    BY <2>1, <1>1, <1>3, <1>4
  <2>2. CASE d # c
    BY <2>2, <1>1, <1>4 DEF Called, IInv, ArchivesAreKept
  <2> QED BY <2>1, <2>2
<1> QED BY <1>5, <1>6, <1>7, <1>8, <1>9, <1>10, <1>11 DEF IInv

(* A call moves on: no id of an archive changes hands by that. *)
LEMMA PlacesKeepInv ==
    ASSUME IInv, NEW c \in Calls, NEW place \in Places, create[c].at # "none",
           create' = [create EXCEPT ![c].at = place],
           sessions' \in [Ids -> Calls \cup {Off}],
           \A i \in Ids : sessions'[i] \in {Off, c, sessions[i]},
           events' \subseteq events \cup {c},
           UNCHANGED <<streams, archives, rows, inserted, played, deletion, deleted>>
    PROVE  IInv'
<1>2. /\ Called(c) /\ place # "none"
      /\ create[c] \in [at : Places, session : Ids, archive : 0..inserted]
  BY DEF IInv, Typed, Called, NotCalled, Places, Done
<1>3. /\ create'[c].at = place
      /\ create'[c] \in [at : Places, session : Ids, archive : 0..inserted]
      /\ \A d \in Calls : d # c => create'[d] = create[d]
      /\ create'[c].archive = create[c].archive
  BY <1>2 DEF IInv, Typed
<1>4. \A d \in Calls : /\ Called(d)' <=> Called(d)
                       /\ Called(d) => create'[d].archive = create[d].archive
  BY <1>2, <1>3 DEF Called
<1>5. Typed'
  <2>1. events' \subseteq Calls
    BY DEF IInv, Typed
  <2>2. \A d \in Calls : create'[d] \in {NotCalled} \cup
                         [at : Places, session : Ids, archive : 0..inserted]
    BY <1>3 DEF IInv, Typed
  <2>3. create' \in [Calls -> {NotCalled} \cup
                     [at : Places, session : Ids, archive : 0..inserted]]
    BY <2>2 DEF IInv, Typed
  <2> QED BY <2>1, <2>3 DEF IInv, Typed
<1>6. OneCallPerArchive'
  BY <1>4 DEF IInv, OneCallPerArchive
<1>7. ArchivesHaveCalls'
  BY <1>4 DEF IInv, ArchivesHaveCalls
<1>8. RowsHaveCalls'
  BY <1>4 DEF IInv, RowsHaveCalls
<1>9. SessionsHaveCalls'
  <2> SUFFICES ASSUME NEW j \in Ids, (sessions[j] # Off)' PROVE Called(sessions[j])'
    BY DEF SessionsHaveCalls
  <2>1. sessions'[j] = c \/ sessions'[j] = sessions[j]
    OBVIOUS
  <2>2. sessions[j] \in Calls \cup {Off}
    BY DEF IInv, Typed
  <2>3. Called(sessions'[j])
    BY <2>1, <2>2, <1>2 DEF IInv, SessionsHaveCalls
  <2> QED BY <2>1, <2>2, <2>3, <1>4 DEF Called
<1>10. StreamsHaveCalls'
  BY <1>2, <1>4 DEF IInv, Typed, StreamsHaveCalls, Called
<1>11. ArchivesAreKept'
  BY <1>4 DEF IInv, ArchivesAreKept
<1> QED BY <1>5, <1>6, <1>7, <1>8, <1>9, <1>10, <1>11 DEF IInv

LEMMA CallsKeepInv ==
    ASSUME IInv, NEW c \in Calls,
           \/ AcceptSession(c)
           \/ \E code \in {"already_exists", "internal"} : RejectSession(c, code)
           \/ \E code \in {"ok", "internal"} : CreateReturns(c, code)
    PROVE  IInv'
<1>1. CASE AcceptSession(c)
  <2>1. /\ create[c].at # "none" /\ create' = [create EXCEPT ![c].at = "registered"]
        /\ sessions' = [sessions EXCEPT ![create[c].session] = c]
        /\ events' = events \cup {c}
        /\ UNCHANGED <<streams, archives, rows, inserted, played, deletion, deleted>>
    BY <1>1 DEF AcceptSession
  <2>2. /\ sessions' \in [Ids -> Calls \cup {Off}]
        /\ \A i \in Ids : sessions'[i] \in {Off, c, sessions[i]}
    BY <2>1 DEF IInv, Typed
  <2> QED BY <2>1, <2>2, PlacesKeepInv DEF Places
<1>2. ASSUME NEW code \in {"already_exists", "internal"}, RejectSession(c, code) PROVE IInv'
  <2>1. /\ create[c].at # "none" /\ create' = [create EXCEPT ![c].at = code]
        /\ UNCHANGED <<sessions, events, streams, archives, rows, inserted, played, deletion, deleted>>
    BY <1>2 DEF RejectSession
  <2>2. sessions' \in [Ids -> Calls \cup {Off}] /\ code \in Places
    BY <2>1 DEF IInv, Typed, Places, Done
  <2> QED BY <2>1, <2>2, PlacesKeepInv
<1>3. ASSUME NEW code \in {"ok", "internal"}, CreateReturns(c, code) PROVE IInv'
  <2>1. /\ create[c].at # "none" /\ create' = [create EXCEPT ![c].at = code]
        /\ UNCHANGED <<sessions, events, streams, archives, rows, inserted, played, deletion, deleted>>
    BY <1>3 DEF CreateReturns
  <2>2. sessions' \in [Ids -> Calls \cup {Off}] /\ code \in Places
    BY <2>1 DEF IInv, Typed, Places, Done
  <2> QED BY <2>1, <2>2, PlacesKeepInv
<1> QED BY <1>1, <1>2, <1>3

(* A stream starts over the queue of some call, and ends; a session is deleted. *)
LEMMA StreamsKeepInv ==
    ASSUME IInv,
           \/ \E c \in Calls : StartStream(c) \/ StreamEnds(c)
           \/ \E i \in Ids : DeleteSession(i)
    PROVE  IInv'
<1>1. UNCHANGED <<create, archives, rows, inserted, played, deletion, deleted>>
  BY DEF StartStream, StreamEnds, DeleteSession
<1>2. /\ OneCallPerArchive' /\ ArchivesHaveCalls' /\ RowsHaveCalls' /\ ArchivesAreKept'
      /\ \A c \in Calls : Called(c)' <=> Called(c)
  BY <1>1 DEF IInv, OneCallPerArchive, ArchivesHaveCalls, RowsHaveCalls, ArchivesAreKept, Called
<1>3. ASSUME NEW c \in Calls, StartStream(c) PROVE Typed' /\ SessionsHaveCalls' /\ StreamsHaveCalls'
  <2> DEFINE q == sessions[create[c].session]
  <2>1. /\ c \in events /\ q # Off /\ UNCHANGED sessions
        /\ events' = events \ {c} /\ streams' = [streams EXCEPT ![c] = q]
    BY <1>3 DEF StartStream
  <2>2. Called(c) /\ create[c].session \in Ids
    BY <2>1 DEF IInv, Typed, StreamsHaveCalls, Called, NotCalled
  <2>3. q \in Calls /\ Called(q)
    BY <2>1, <2>2 DEF IInv, Typed, SessionsHaveCalls
  <2> HIDE DEF q
  <2>4. Typed'
    BY <1>1, <2>1, <2>3 DEF IInv, Typed
  <2>5. SessionsHaveCalls'
    BY <1>1, <2>1 DEF IInv, SessionsHaveCalls, Called
  <2>6. StreamsHaveCalls'
    BY <1>1, <2>1, <2>2, <2>3 DEF IInv, Typed, StreamsHaveCalls, Called
  <2> QED BY <2>4, <2>5, <2>6
<1>4. ASSUME NEW c \in Calls, StreamEnds(c) PROVE Typed' /\ SessionsHaveCalls' /\ StreamsHaveCalls'
  BY <1>1, <1>4 DEF StreamEnds, IInv, Typed, SessionsHaveCalls, StreamsHaveCalls, Called
<1>5. ASSUME NEW i \in Ids, DeleteSession(i) PROVE Typed' /\ SessionsHaveCalls' /\ StreamsHaveCalls'
  BY <1>1, <1>5 DEF DeleteSession, IInv, Typed, SessionsHaveCalls, StreamsHaveCalls, Called
<1> QED BY <1>2, <1>3, <1>4, <1>5 DEF IInv

LEMMA ArchivesNextKeepsInv ==
    ASSUME IInv, ArchivesNext
    PROVE  IInv'
<1> USE DEF IInv
<1>1. ASSUME NEW c \in Calls,
             \/ AcceptSession(c)
             \/ \E code \in {"already_exists", "internal"} : RejectSession(c, code)
             \/ \E code \in {"ok", "internal"} : CreateReturns(c, code)
      PROVE  IInv'
  BY <1>1, CallsKeepInv
<1>2. ASSUME NEW c \in Calls, AddSessionArchiveTrack(c) PROVE IInv'
  <2> DEFINE q == streams[c]
             row == [id |-> played', archive |-> create[q].archive, by |-> q]
  <2>1. /\ q # Off /\ create[q].archive # 0
        /\ rows' = rows \cup {row}
        /\ UNCHANGED <<create, sessions, events, streams, archives, inserted, deletion, deleted>>
    BY <1>2 DEF AddSessionArchiveTrack, ArchiveID
  <2>2. q \in Calls /\ Called(q)
    BY <2>1 DEF Typed, StreamsHaveCalls
  <2>3. row.by = q /\ row.archive = create[q].archive
    OBVIOUS
  <2> HIDE DEF row
  <2>4. RowsHaveCalls'
    BY <2>1, <2>2, <2>3 DEF RowsHaveCalls, Called
  <2> QED BY <2>1, <2>4 DEF Typed, OneCallPerArchive, ArchivesHaveCalls, SessionsHaveCalls,
                            StreamsHaveCalls, ArchivesAreKept, Called
<1>3. ASSUME \/ \E c \in Calls : StartStream(c) \/ StreamEnds(c)
             \/ \E i \in Ids : DeleteSession(i)
      PROVE  IInv'
  BY <1>3, StreamsKeepInv
<1>4. ASSUME NEW a \in ArchiveIds, FindDeleted(a) PROVE IInv'
  BY <1>4 DEF FindDeleted, NoDeletion, Typed, OneCallPerArchive, ArchivesHaveCalls, RowsHaveCalls,
              SessionsHaveCalls, StreamsHaveCalls, ArchivesAreKept, Called
<1>5. CASE DeleteRows
  <2>1. /\ deletion # NoDeletion
        /\ rows' \subseteq rows
        /\ deletion' = [deletion EXCEPT !.at = "emptied"]
        /\ UNCHANGED <<create, sessions, events, streams, archives, inserted, played, deleted>>
    BY <1>5 DEF DeleteRows, NoDeletion
  <2>2. deletion'.id = deletion.id
    BY <2>1
  <2> QED BY <2>1, <2>2 DEF Typed, OneCallPerArchive, ArchivesHaveCalls, RowsHaveCalls,
                            SessionsHaveCalls, StreamsHaveCalls, ArchivesAreKept, Called
<1>6. CASE DeleteArchive
  <2>1. /\ deletion # NoDeletion
        /\ archives' = {archive \in archives : archive.id # deletion.id}
        /\ deletion' = NoDeletion
        /\ UNCHANGED <<create, sessions, events, streams, rows, inserted, played, deleted>>
    BY <1>6 DEF DeleteArchive, NoDeletion
  <2>2. deletion.id \in deleted
    BY <2>1 DEF ArchivesAreKept
  <2>3. ArchivesAreKept'
    BY <2>1, <2>2 DEF ArchivesAreKept, Called
  <2> QED BY <2>1, <2>3 DEF Typed, OneCallPerArchive, ArchivesHaveCalls, RowsHaveCalls,
                            SessionsHaveCalls, StreamsHaveCalls, Called
<1>7. CASE DeletionFails
  BY <1>7 DEF DeletionFails, Typed, OneCallPerArchive, ArchivesHaveCalls, RowsHaveCalls,
              SessionsHaveCalls, StreamsHaveCalls, ArchivesAreKept, Called
<1> QED BY <1>1, <1>2, <1>3, <1>4, <1>5, <1>6, <1>7 DEF ArchivesNext

(* The visitor changes the archives by the form of the create page only. *)
LEMMA NextInv == IInv /\ [Next]_vars => IInv'
<1> SUFFICES ASSUME IInv, [Next]_vars PROVE IInv'
  OBVIOUS
<1>1. CASE UNCHANGED archivesVars
  BY <1>1 DEF archivesVars, IInv, Typed, OneCallPerArchive, ArchivesHaveCalls, RowsHaveCalls,
              SessionsHaveCalls, StreamsHaveCalls, ArchivesAreKept, Called
<1>2. ASSUME NEW p \in Pages, Follow(p) PROVE UNCHANGED archivesVars
  BY <1>2 DEF Follow
<1>3. CASE Serve \/ ListSessionArchiveTracks
  BY <1>1, <1>3 DEF Serve, ListSessionArchiveTracks
<1>4. CASE LoadReturns \/ LoadLost
  <2>1. ASSUME NEW answer, Mounted(answer) PROVE UNCHANGED archivesVars
    BY <2>1 DEF Mounted
  <2> QED BY <1>1, <1>4, <2>1 DEF LoadReturns, LoadLost
<1>5. CASE SubmitNoName
  BY <1>1, <1>5 DEF SubmitNoName
<1>6. ASSUME NEW c \in Calls, NEW i \in Ids, NEW archive \in BOOLEAN, handleSubmit(c, i, archive)
      PROVE  IInv'
  BY <1>6, InsertKeepsInv DEF handleSubmit
<1>7. CASE Created
  BY <1>1, <1>7 DEF Created
<1>8. ASSUME NEW code, CreationFails(code) PROVE UNCHANGED archivesVars
  BY <1>8 DEF CreationFails
<1>9. CASE Player
  BY <1>1, <1>9 DEF Player
<1>10. CASE Others
  BY <1>10, ArchivesNextKeepsInv, InsertKeepsInv DEF Others
<1>11. CASE UNCHANGED vars
  BY <1>1, <1>11 DEF vars
<1> QED BY <1>1, <1>2, <1>3, <1>4, <1>5, <1>6, <1>7, <1>8, <1>9, <1>10, <1>11 DEF Next

(* For any ids, calls and number of rows, and whichever streams still run: an
   archive holds only what was played from the queue of its own session, and a
   stream that runs has the archive of its queue, and a row its archive, unless
   the deletion of that has begun. *)
THEOREM ArchivesStayApart == Spec => []ArchiveIsOneStation
<1> QED BY InvSuffices, InitInv, NextInv, PTL DEF Spec

-----------------------------------------------------------------------------
(* The player.                                                             *)

(* A player that plays has a gain node. *)
PlayerInv ==
    /\ gain \in Volumes \cup {NoGain}
    /\ volume \in Volumes
    /\ playing \in BOOLEAN /\ moved \in BOOLEAN
    /\ playing => gain # NoGain
    /\ gain = NoGain => ~moved
    /\ gain # NoGain => gain = volume \/ (~moved /\ gain = FullVolume)

LEMMA PlayerNextInv == PlayerInv /\ [Next]_vars => PlayerInv'
<1> SUFFICES ASSUME PlayerInv, [Next]_vars PROVE PlayerInv'
  OBVIOUS
<1> USE PlayerAssumption
<1>1. CASE UNCHANGED <<playing, volume, gain, moved>>
  BY <1>1 DEF PlayerInv
<1>2. CASE PlayerReset
  BY <1>2 DEF PlayerReset, PlayerInv
<1>3. CASE UNCHANGED playerVars
  BY <1>1, <1>3 DEF playerVars
<1>4. ASSUME NEW p \in Pages, Follow(p) PROVE PlayerReset
  BY <1>4 DEF Follow, Goes
<1>5. CASE Serve \/ ListSessionArchiveTracks \/ SubmitNoName
  BY <1>3, <1>5 DEF Serve, ListSessionArchiveTracks, SubmitNoName
<1>6. CASE LoadReturns \/ LoadLost
  <2>1. ASSUME NEW answer, Mounted(answer) PROVE UNCHANGED <<playing, volume, gain, moved>>
    BY <2>1 DEF Mounted
  <2> QED BY <1>1, <1>6, <2>1 DEF LoadReturns, LoadLost
<1>7. ASSUME NEW c \in Calls, NEW i \in Ids, NEW archive \in BOOLEAN, handleSubmit(c, i, archive)
      PROVE  UNCHANGED playerVars
  BY <1>7 DEF handleSubmit
<1>8. CASE Created
  BY <1>2, <1>8 DEF Created, Goes
<1>9. ASSUME NEW code, CreationFails(code) PROVE UNCHANGED playerVars
  BY <1>9 DEF CreationFails
<1>10. CASE Player
  <2>1. CASE play
    <3>1. gain' # NoGain /\ gain' \in Volumes
      BY <2>1 DEF play, ensureAudioGraph, PlayerInv
    <3>2. CASE gain = NoGain
      <4>1. moved = FALSE
        BY <3>2 DEF PlayerInv
      <4> QED BY <2>1, <3>1, <3>2, <4>1 DEF play, ensureAudioGraph, PlayerInv
    <3>3. CASE gain # NoGain
      BY <2>1, <3>1, <3>3 DEF play, ensureAudioGraph, PlayerInv
    <3> QED BY <3>2, <3>3
  <2>2. CASE stop
    BY <2>2 DEF stop, PlayerInv
  <2>3. ASSUME NEW v \in Volumes, MoveVolume(v) PROVE PlayerInv'
    BY <2>3 DEF MoveVolume, PlayerInv
  <2> QED BY <1>10, <2>1, <2>2, <2>3 DEF Player, PlayerControls, MediaKeys
<1>11. CASE Others
  BY <1>3, <1>11 DEF Others
<1>12. CASE UNCHANGED vars
  BY <1>3, <1>12 DEF vars
<1> QED BY <1>2, <1>3, <1>4, <1>5, <1>6, <1>7, <1>8, <1>9, <1>10, <1>11, <1>12 DEF Next

(* For any slider, and wherever the visitor goes in between: what plays is as
   loud as the slider shows, but for a volume chosen before the first play. *)
THEOREM VolumeStaysHeard == Spec => []VolumeIsHeard
<1>1. Init => PlayerInv
  BY PlayerAssumption DEF Init, PlayerInit, PlayerInv
<1>2. PlayerInv => VolumeIsHeard
  BY DEF PlayerInv, VolumeIsHeard
<1> QED BY <1>1, <1>2, PlayerNextInv, PTL DEF Spec

-----------------------------------------------------------------------------
(* The page of an archive.                                                 *)

(* An archive is there, or its deletion has begun: once so, for ever so. *)
WasThere(a) == a \in deleted \/ \E archive \in archives : archive.id = a

(* A call was made, and inserted this archive. *)
MadeFor(c, a) == Called(c) /\ create[c].archive = a

PageTyped ==
    page \in {Home, CreatePage, StationsPage, ArchivesPage} \/ page.at \in {"station", "archive"}

(* The list of archives names none that never was, nor does it on its way. *)
NamesArchives(answer) == answer.what = "items" => \A a \in answer.items : WasThere(a)

LinksLeadToArchives ==
    /\ page = ArchivesPage => NamesArchives(shown) /\ load # Found
    /\ page = ArchivesPage /\ load.at = "answered" => NamesArchives(load.answer)
    /\ page.at = "archive" => WasThere(page.id)

(* What the page of an archive may show, or be about to. *)
IsWhole(answer) ==
    /\ answer # NotFound
    /\ answer.what = "items" =>
         /\ known \subseteq answer.items
         /\ \A r \in answer.items : r.by \in Calls /\ MadeFor(r.by, page.id)

ArchiveIsWhole ==
    page.at = "archive" /\ page.id \notin deleted =>
        /\ known \subseteq RowsOf(page.id)
        /\ IsWhole(shown)
        /\ load.at = "answered" => IsWhole(load.answer)

PageInv == IInv /\ PageTyped /\ LinksLeadToArchives /\ ArchiveIsWhole

LEMMA PageFacts ==
    /\ Home.at = "home" /\ CreatePage.at = "create"
    /\ StationsPage.at = "stations" /\ ArchivesPage.at = "archives"
    /\ \A i : StationPage(i).at = "station"
    /\ \A a : ArchivePage(a).at = "archive" /\ ArchivePage(a).id = a
    /\ \A answer : Answered(answer).at = "answered" /\ Answered(answer).answer = answer
    /\ NoLoad.at = "none" /\ Sent.at = "sent" /\ Found.at = "found"
    /\ \A items : Shows(items).what = "items" /\ Shows(items).items = items
    /\ Loading.what = "loading" /\ NotFound.what = "not found" /\ FriendlyError.what = "error"
BY DEF Home, CreatePage, StationsPage, ArchivesPage, StationPage, ArchivePage, Answered, NoLoad,
       Sent, Found, Shows, Loading, NotFound, FriendlyError

LEMMA PageInitInv == Init => PageInv
<1> SUFFICES ASSUME Init PROVE PageInv
  OBVIOUS
<1>1. IInv /\ page = Home
  BY InitInv DEF Init
<1> QED BY <1>1, PageFacts DEF PageInv, PageTyped, LinksLeadToArchives, ArchiveIsWhole

(* A step of the archives takes no row from an archive that is kept, and the
   archive of a call stays the one it is. *)
LEMMA ArchivesGrow ==
    ASSUME IInv,
           \/ ArchivesNext
           \/ \E c \in Calls, i \in Ids, archive \in BOOLEAN : InsertArchive(c, i, archive)
           \/ UNCHANGED archivesVars
    PROVE  /\ deleted \subseteq deleted'
           /\ \A a : WasThere(a) => WasThere(a)'
           /\ \A a : a \notin deleted' => RowsOf(a) \subseteq RowsOf(a)'
           /\ \A c \in Calls : \A a : MadeFor(c, a) => MadeFor(c, a)'
<1> SUFFICES /\ deleted \subseteq deleted'
             /\ \A archive \in archives : archive \in archives' \/ archive.id \in deleted'
             /\ \A r \in rows : r \in rows' \/ r.archive \in deleted'
             /\ \A c \in Calls : Called(c) => /\ create'[c].at # "none"
                                             /\ create'[c].archive = create[c].archive
  BY DEF WasThere, RowsOf, MadeFor, Called
<1> DEFINE Kept == \A d \in Calls : Called(d) => /\ create'[d].at # "none"
                                               /\ create'[d].archive = create[d].archive
<1>1. ASSUME NEW c \in Calls, NEW i \in Ids, NEW archive \in BOOLEAN, InsertArchive(c, i, archive)
      PROVE  archives \subseteq archives' /\ UNCHANGED <<deleted, rows>> /\ Kept
  BY <1>1 DEF InsertArchive, IInv, Typed, Called, NotCalled
<1>2. ASSUME NEW c \in Calls, NEW place \in Places, create[c].at # "none",
             create' = [create EXCEPT ![c].at = place]
      PROVE  Kept
  <2>1. create[c] \in [at : Places, session : Ids, archive : 0..inserted] /\ place # "none"
    BY <1>2 DEF IInv, Typed, NotCalled, Places, Done
  <2>2. /\ create'[c].at = place /\ create'[c].archive = create[c].archive
        /\ \A d \in Calls : d # c => create'[d] = create[d]
    BY <1>2, <2>1 DEF IInv, Typed
  <2> QED BY <2>1, <2>2 DEF Called
<1>3. ASSUME NEW c \in Calls,
             \/ AcceptSession(c)
             \/ \E code \in {"already_exists", "internal"} : RejectSession(c, code)
             \/ \E code \in {"ok", "internal"} : CreateReturns(c, code)
      PROVE  UNCHANGED <<archives, deleted, rows>> /\ Kept
  <2>1. /\ UNCHANGED <<archives, deleted, rows>>
        /\ create[c].at # "none"
        /\ \E place \in Places : create' = [create EXCEPT ![c].at = place]
    BY <1>3 DEF AcceptSession, RejectSession, CreateReturns, Places, Done
  <2> QED BY <1>2, <2>1
<1>4. ASSUME NEW c \in Calls, AddSessionArchiveTrack(c)
      PROVE  rows \subseteq rows' /\ UNCHANGED <<archives, deleted, create>>
  BY <1>4 DEF AddSessionArchiveTrack
<1>5. ASSUME \/ \E c \in Calls : StartStream(c) \/ StreamEnds(c)
             \/ \E i \in Ids : DeleteSession(i)
      PROVE  UNCHANGED <<archives, deleted, rows, create>>
  BY <1>5 DEF StartStream, StreamEnds, DeleteSession
<1>6. ASSUME NEW a \in ArchiveIds, FindDeleted(a)
      PROVE  deleted \subseteq deleted' /\ UNCHANGED <<archives, rows, create>>
  BY <1>6 DEF FindDeleted
<1>7. ASSUME DeleteRows \/ DeleteArchive PROVE deletion.id \in deleted
  BY <1>7 DEF DeleteRows, DeleteArchive, NoDeletion, IInv, ArchivesAreKept
<1>8. CASE DeleteRows
  BY <1>7, <1>8 DEF DeleteRows, RowsToDelete, RowsOf, Called
<1>9. CASE DeleteArchive
  BY <1>7, <1>9 DEF DeleteArchive, Called
<1>10. CASE DeletionFails
  BY <1>10 DEF DeletionFails, Called
<1>11. CASE UNCHANGED archivesVars
  BY <1>11 DEF archivesVars, Called
<1>12. ASSUME UNCHANGED create PROVE Kept
  BY <1>12 DEF Called
<1> HIDE DEF Kept
<1>13. CASE ArchivesNext
  <2> USE DEF Kept
  <2> QED BY <1>3, <1>4, <1>5, <1>6, <1>8, <1>9, <1>10, <1>12, <1>13 DEF ArchivesNext
<1> QED BY <1>1, <1>11, <1>13 DEF Kept

(* What is known of a page outlives the changes of the archives. *)
LEMMA ElsewhereKeepsPage ==
    ASSUME PageInv, IInv', UNCHANGED <<page, load, shown, known>>,
           \/ ArchivesNext
           \/ \E c \in Calls, i \in Ids, archive \in BOOLEAN : InsertArchive(c, i, archive)
           \/ UNCHANGED archivesVars
    PROVE  PageInv'
<1>1. /\ deleted \subseteq deleted'
      /\ \A a : WasThere(a) => WasThere(a)'
      /\ \A a : a \notin deleted' => RowsOf(a) \subseteq RowsOf(a)'
      /\ \A c \in Calls : \A a : MadeFor(c, a) => MadeFor(c, a)'
  BY ArchivesGrow DEF PageInv
<1>2. PageTyped'
  BY DEF PageInv, PageTyped
<1>3. LinksLeadToArchives'
  BY <1>1 DEF PageInv, LinksLeadToArchives, NamesArchives
<1>4. ArchiveIsWhole'
  BY <1>1 DEF PageInv, ArchiveIsWhole, IsWhole
<1> QED BY <1>2, <1>3, <1>4 DEF PageInv

LEMMA GoesKeepsPage ==
    ASSUME PageInv, IInv', UNCHANGED archivesVars, NEW p, Goes(p),
           p \in {Home, CreatePage, StationsPage, ArchivesPage} \/ p.at \in {"station", "archive"},
           p.at = "archive" => WasThere(p.id)
    PROVE  PageInv'
<1>1. UNCHANGED <<deleted, archives, rows>>
  BY DEF archivesVars
<1>2. /\ page' = p
      /\ p \notin {Home, CreatePage} => load' = Sent /\ shown' = Loading
      /\ p.at = "archive" => known' = RowsOf(p.id)
  BY DEF Goes
<1>3. PageTyped'
  BY <1>2 DEF PageTyped
<1>4. LinksLeadToArchives'
  BY <1>1, <1>2, PageFacts DEF LinksLeadToArchives, NamesArchives, WasThere
<1>5. ArchiveIsWhole'
  BY <1>1, <1>2, PageFacts DEF ArchiveIsWhole, IsWhole, RowsOf
<1> QED BY <1>3, <1>4, <1>5 DEF PageInv

(* The links to an archive are those of the list of archives. *)
LEMMA FollowKeepsPage ==
    ASSUME PageInv, IInv', NEW p \in Pages, Follow(p)
    PROVE  PageInv'
<1>1. UNCHANGED archivesVars /\ Goes(p) /\ p \in Links
  BY DEF Follow
<1>2. p \in {Home, CreatePage, StationsPage, ArchivesPage} \/ p.at \in {"station", "archive"}
  <2>1. CASE \E i \in Ids : p = StationPage(i)
    BY <2>1 DEF StationPage
  <2>2. CASE \E a \in ArchiveIds : p = ArchivePage(a)
    BY <2>2 DEF ArchivePage
  <2> QED BY <2>1, <2>2 DEF Pages
<1>3. ASSUME p.at = "archive" PROVE WasThere(p.id)
  <2>1. PageTyped
    BY DEF PageInv
  <2>2. CASE page = ArchivesPage
    <3>1. page # Home /\ page # CreatePage /\ page # StationsPage
          /\ page.at # "station" /\ page.at # "archive"
      BY <2>2, PageFacts
    <3>2. shown.what = "items" /\ \E a \in shown.items : p = ArchivePage(a)
      BY <1>1, <1>3, <2>2, <3>1, PageFacts DEF Links
    <3>3. PICK a \in shown.items : p = ArchivePage(a)
      BY <3>2
    <3> QED BY <2>2, <3>2, <3>3, PageFacts DEF PageInv, LinksLeadToArchives, NamesArchives
  <2>3. CASE page = Home
    BY <1>1, <1>3, <2>3, PageFacts DEF Links
  <2>4. CASE page = CreatePage
    <3>1. page # Home
      BY <2>4, PageFacts
    <3> QED BY <1>1, <1>3, <2>4, <3>1, PageFacts DEF Links
  <2>5. CASE page = StationsPage
    <3>1. page # Home /\ page # CreatePage /\ page # ArchivesPage
          /\ page.at # "station" /\ page.at # "archive"
      BY <2>5, PageFacts
    <3> QED BY <1>1, <1>3, <2>5, <3>1, PageFacts DEF Links
  <2>6. CASE page.at \in {"station", "archive"}
    <3>1. page # Home /\ page # CreatePage /\ page # StationsPage /\ page # ArchivesPage
      BY <2>6, PageFacts
    <3> QED BY <1>1, <1>3, <2>6, <3>1, PageFacts DEF Links
  <2> QED BY <2>1, <2>2, <2>3, <2>4, <2>5, <2>6 DEF PageTyped
<1> QED BY <1>1, <1>2, <1>3, GoesKeepsPage

LEMMA ServeKeepsPage ==
    ASSUME PageInv, IInv', Serve \/ ListSessionArchiveTracks
    PROVE  PageInv'
<1>1. UNCHANGED <<create, deleted, archives, rows, page, shown, known>>
  BY DEF Serve, ListSessionArchiveTracks, archivesVars
<1>2. PageTyped' /\ (page.at = "archive" => WasThere(page.id))'
  BY <1>1 DEF PageInv, PageTyped, LinksLeadToArchives, WasThere
<1>3. ASSUME page = ArchivesPage
      PROVE  load' # Found /\ NamesArchives(load'.answer)
  <2>1. load # Found
    BY <1>3 DEF PageInv, LinksLeadToArchives
  <2>2. page # StationsPage /\ page.at # "station" /\ page.at # "archive"
    BY <1>3, PageFacts
  <2>3. load' = Answered(Shows({archive.id : archive \in archives}))
    BY <2>1, <2>2 DEF Serve, ListSessionArchiveTracks, Answers
  <2>4. load' # Found /\ load'.answer = Shows({archive.id : archive \in archives})
    BY <2>3, PageFacts
  <2>5. load'.answer.items = {archive.id : archive \in archives}
    BY <2>4, PageFacts
  <2>6. \A a \in load'.answer.items : WasThere(a)
    BY <2>5 DEF WasThere
  <2> QED BY <2>4, <2>6 DEF NamesArchives
<1>4. LinksLeadToArchives'
  BY <1>1, <1>2, <1>3 DEF PageInv, LinksLeadToArchives, NamesArchives, WasThere
<1>5. ASSUME page.at = "archive", page.id \notin deleted
      PROVE  load'.at = "answered" => IsWhole(load'.answer)
  <2>1. known \subseteq RowsOf(page.id) /\ WasThere(page.id)
    BY <1>5 DEF PageInv, ArchiveIsWhole, LinksLeadToArchives
  <2>2. CASE Serve
    <3>1. page # StationsPage /\ page # ArchivesPage /\ page.at # "station"
      BY <1>5, PageFacts
    <3>2. load' = Found
      BY <1>5, <2>1, <2>2, <3>1 DEF Serve, WasThere
    <3> QED BY <3>2, PageFacts
  <2>3. CASE ListSessionArchiveTracks
    <3>1. load' = Answered(Shows(RowsOf(page.id)))
      BY <2>3 DEF ListSessionArchiveTracks, Answers
    <3>2. ASSUME NEW r \in RowsOf(page.id) PROVE r.by \in Calls /\ MadeFor(r.by, page.id)
      BY <3>2 DEF PageInv, IInv, RowsOf, RowsHaveCalls, MadeFor
    <3>3. IsWhole(Shows(RowsOf(page.id)))
      <4>1. /\ Shows(RowsOf(page.id)) # NotFound
            /\ Shows(RowsOf(page.id)).items = RowsOf(page.id)
        BY DEF Shows, NotFound
      <4> QED BY <2>1, <3>2, <4>1 DEF IsWhole
    <3> QED BY <3>1, <3>3 DEF Answered
  <2> QED BY <2>2, <2>3
<1>6. ArchiveIsWhole'
  BY <1>1, <1>5 DEF PageInv, ArchiveIsWhole, IsWhole, RowsOf, MadeFor, Called
<1> QED BY <1>2, <1>4, <1>6 DEF PageInv

LEMMA MountedKeepsPage ==
    ASSUME PageInv, IInv', LoadReturns \/ LoadLost
    PROVE  PageInv'
<1>1. PICK answer :
        /\ Mounted(answer)
        /\ answer = EmptyList \/ (load.at = "answered" /\ answer = load.answer)
  BY DEF LoadReturns, LoadLost
<1>2. UNCHANGED <<create, deleted, archives, rows, page, known>> /\ shown' = answer /\ load' = NoLoad
  BY <1>1 DEF Mounted, archivesVars
<1>3. /\ page = ArchivesPage => NamesArchives(EmptyList)
      /\ page.at = "archive" => EmptyList = FriendlyError
  <2>1. NamesArchives(Shows({}))
    BY DEF NamesArchives, Shows
  <2> QED BY <2>1, PageFacts DEF EmptyList
<1>4. PageTyped'
  BY <1>2 DEF PageInv, PageTyped
<1>5. LinksLeadToArchives'
  BY <1>1, <1>2, <1>3, PageFacts DEF PageInv, LinksLeadToArchives, NamesArchives, WasThere
<1>6. page.at = "archive" => IsWhole(EmptyList)
  BY <1>3, PageFacts DEF IsWhole
<1>7. ArchiveIsWhole'
  <2> SUFFICES ASSUME page.at = "archive", page.id \notin deleted
               PROVE  known \subseteq RowsOf(page.id) /\ IsWhole(answer) /\ load'.at # "answered"
    BY <1>2 DEF ArchiveIsWhole, IsWhole, RowsOf, MadeFor, Called
  <2>1. known \subseteq RowsOf(page.id) /\ (load.at = "answered" => IsWhole(load.answer))
    BY DEF PageInv, ArchiveIsWhole
  <2> QED BY <1>1, <1>2, <1>6, <2>1, PageFacts
<1> QED BY <1>4, <1>5, <1>7 DEF PageInv

LEMMA PageNextInv == PageInv /\ [Next]_vars => PageInv'
<1> SUFFICES ASSUME PageInv, [Next]_vars PROVE PageInv'
  OBVIOUS
<1>i. IInv'
  BY NextInv DEF PageInv
<1>1. ASSUME NEW p \in Pages, Follow(p) PROVE PageInv'
  BY <1>1, <1>i, FollowKeepsPage
<1>2. CASE Serve \/ ListSessionArchiveTracks
  BY <1>2, <1>i, ServeKeepsPage
<1>3. CASE LoadReturns \/ LoadLost
  BY <1>3, <1>i, MountedKeepsPage
<1>4. CASE SubmitNoName
  BY <1>4, <1>i, ElsewhereKeepsPage DEF SubmitNoName
<1>5. ASSUME NEW c \in Calls, NEW i \in Ids, NEW archive \in BOOLEAN, handleSubmit(c, i, archive)
      PROVE  PageInv'
  BY <1>5, <1>i, ElsewhereKeepsPage DEF handleSubmit
<1>6. CASE Created
  <2>1. PICK i : Goes(StationPage(i)) /\ UNCHANGED archivesVars
    BY <1>6 DEF Created
  <2> QED BY <2>1, <1>i, PageFacts, GoesKeepsPage
<1>7. ASSUME NEW code, CreationFails(code) PROVE PageInv'
  BY <1>7, <1>i, ElsewhereKeepsPage DEF CreationFails
<1>8. CASE Player
  BY <1>8, <1>i, ElsewhereKeepsPage DEF Player, browseVars
<1>9. CASE Others
  BY <1>9, <1>i, ElsewhereKeepsPage DEF Others, browseVars
<1>10. CASE UNCHANGED vars
  BY <1>10, <1>i, ElsewhereKeepsPage DEF vars, browseVars
<1> QED BY <1>1, <1>2, <1>3, <1>4, <1>5, <1>6, <1>7, <1>8, <1>9, <1>10 DEF Next

(* For any ids, calls and number of rows: while no deletion of it has begun, the
   page of an archive shows all that had been recorded when it was opened, of one
   station, and does not say that there is no such archive. *)
THEOREM ArchivePagesAreTrue == Spec => []ArchiveShowsItsStation
<1>1. PageInv => ArchiveShowsItsStation
  BY DEF PageInv, ArchiveIsWhole, IsWhole, MadeFor, ArchiveShowsItsStation
<1> QED BY <1>1, PageInitInv, PageNextInv, PTL DEF Spec
=============================================================================
