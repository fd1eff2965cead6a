------------------------------ MODULE Archives ------------------------------
(***************************************************************************)
(* The archives of the server: the tables session_archives and             *)
(* session_archive_tracks, the CreateSession calls that insert an archive  *)
(* before their session is accepted, the streams that record what they     *)
(* play, and the deletion of an archive in three statements.  The database *)
(* runs one statement at a time and enforces no foreign key.               *)
(*                                                                         *)
(* A stream keeps the queue that was registered when its Created event was *)
(* handled, and records into the archive of that queue until it ends: also *)
(* when its session was deleted, and beside a new session of the same id.  *)
(* The order of the events, the dispatcher's end and the cancels are       *)
(* SessionLifecycle's; here an event is handled at any time or never, and  *)
(* a stream ends at any time.                                              *)
(***************************************************************************)
EXTENDS Naturals

CONSTANTS
    Ids,            \* session ids
    Calls,          \* CreateSession calls
    Off,            \* no session of the id is registered, or no stream runs
    MaxRows         \* bound on the rows of session_archive_tracks

ASSUME ArchivesAssumption == Off \notin Calls /\ MaxRows \in Nat

VARIABLES
    create,         \* where each CreateSession call is
    sessions,       \* the queue registered under an id: that of the call that made it
    events,         \* calls whose Created event is not handled
    streams,        \* the queue that the stream plays which a call's event started
    archives,       \* session_archives
    rows,           \* session_archive_tracks
    inserted,       \* how many archives there ever were: AUTOINCREMENT
    played,         \* how many rows there ever were: AUTOINCREMENT
    deletion,       \* the DeleteSessionArchive call under way
    deleted         \* history: archives whose deletion has begun

archivesVars == <<create, sessions, events, streams, archives, rows, inserted, played, deletion, deleted>>

ArchiveIds == 1..inserted
\* by: the call that an archive was made for, or from whose queue a row was played.
Archive == [id : ArchiveIds, by : Calls]
Row == [id : 1..played, archive : ArchiveIds, by : Calls]

\* archive: the id of the archive that the call inserted, or 0 without one.
NotCalled == [at |-> "none"]
Call(at, i, a) == [at |-> at, session |-> i, archive |-> a]
Done == {"ok", "already_exists", "internal"}
\* registered: waits on ready.
Places == {"inserted", "registered"} \cup Done

NoDeletion == [at |-> "none"]

ArchivesTypeOK ==
    /\ \A c \in Calls :
         \/ create[c] = NotCalled
         \/ /\ create[c].at \in Places
            /\ create[c].session \in Ids
            /\ create[c].archive \in {0} \cup ArchiveIds
    /\ sessions \in [Ids -> Calls \cup {Off}]
    /\ events \subseteq Calls
    /\ streams \in [Calls -> Calls \cup {Off}]
    /\ archives \subseteq Archive
    /\ rows \subseteq Row
    /\ deletion = NoDeletion \/ deletion.id \in ArchiveIds
    /\ deleted \subseteq ArchiveIds

ArchivesInit ==
    /\ create = [c \in Calls |-> NotCalled]
    /\ sessions = [i \in Ids |-> Off]
    /\ events = {}
    /\ streams = [c \in Calls |-> Off]
    /\ archives = {}
    /\ rows = {}
    /\ inserted = 0
    /\ played = 0
    /\ deletion = NoDeletion
    /\ deleted = {}

\* Mutant: ids are used again, as without AUTOINCREMENT.
LastOfTable ==
    CHOOSE n \in {0} \cup {a.id : a \in archives} : \A a \in archives : a.id <= n

LastArchive == inserted

\* CreateSessionArchive, for a call that asks for an archive.
InsertArchive(c, i, archive) ==
    LET id == LastArchive + 1
    IN  /\ create[c] = NotCalled
        /\ IF archive
           THEN /\ archives' = archives \cup {[id |-> id, by |-> c]}
                /\ inserted' = IF id > inserted THEN id ELSE inserted
                /\ create' = [create EXCEPT ![c] = Call("inserted", i, id)]
           ELSE /\ create' = [create EXCEPT ![c] = Call("inserted", i, 0)]
                /\ UNCHANGED <<archives, inserted>>
        /\ UNCHANGED <<sessions, events, streams, rows, played, deletion, deleted>>

\* The manager accepts the session.  Its event waits to be handled, whether or
\* not it is in the channel yet.
AcceptSession(c) ==
    LET i == create[c].session
    IN  /\ create[c].at = "inserted"
        /\ sessions[i] = Off
        /\ create' = [create EXCEPT ![c].at = "registered"]
        /\ sessions' = [sessions EXCEPT ![i] = c]
        /\ events' = events \cup {c}
        /\ UNCHANGED <<streams, archives, rows, inserted, played, deletion, deleted>>

\* There is a session of the id, or too many; or the archive cannot be read.
RejectSession(c, code) ==
    /\ create[c].at = "inserted"
    /\ code = "already_exists" => sessions[create[c].session] # Off
    /\ create' = [create EXCEPT ![c].at = code]
    /\ UNCHANGED <<sessions, events, streams, archives, rows, inserted, played, deletion, deleted>>

\* The dispatcher looks the id up, whichever session has it by now, and the stream
\* reports on ready.
StartStream(c) ==
    LET q == sessions[create[c].session]
    IN  /\ c \in events
        /\ q # Off
        /\ events' = events \ {c}
        /\ streams' = [streams EXCEPT ![c] = q]
        /\ UNCHANGED <<create, sessions, archives, rows, inserted, played, deletion, deleted>>

\* The creator is answered ready; or it gives up, or icecast has refused the stream.
CreateReturns(c, code) ==
    /\ create[c].at = "registered"
    /\ code = "ok" => c \notin events
    /\ create' = [create EXCEPT ![c].at = code]
    /\ UNCHANGED <<sessions, events, streams, archives, rows, inserted, played, deletion, deleted>>

\* Mutant: the archive of the session that has the id now.
ArchiveOfSession(c) ==
    LET q == sessions[create[c].session] IN IF q = Off THEN 0 ELSE create[q].archive

\* The archive of the queue that the stream plays.
ArchiveID(c) == create[streams[c]].archive

\* AddSessionArchiveTrack, by the stream that the event of a call has started.
AddSessionArchiveTrack(c) ==
    /\ streams[c] # Off
    /\ ArchiveID(c) # 0
    /\ played < MaxRows
    /\ played' = played + 1
    /\ rows' = rows \cup {[id |-> played', archive |-> ArchiveID(c), by |-> streams[c]]}
    /\ UNCHANGED <<create, sessions, events, streams, archives, inserted, deletion, deleted>>

\* The stream does not connect, is cancelled, fails or times out; its endSession
\* unregisters whatever session has the id by then.
StreamEnds(c) ==
    /\ streams[c] # Off
    /\ streams' = [streams EXCEPT ![c] = Off]
    /\ sessions' = [sessions EXCEPT ![create[c].session] = Off]
    /\ UNCHANGED <<create, events, archives, rows, inserted, played, deletion, deleted>>

\* DeleteSession by RPC: the stream goes on until it is cancelled.
DeleteSession(i) ==
    /\ sessions[i] # Off
    /\ sessions' = [sessions EXCEPT ![i] = Off]
    /\ UNCHANGED <<create, events, streams, archives, rows, inserted, played, deletion, deleted>>

\* DeleteSessionArchive, which goes on only if the archive is there.
FindDeleted(a) ==
    /\ deletion = NoDeletion
    /\ \E archive \in archives : archive.id = a
    /\ deletion' = [at |-> "found", id |-> a]
    /\ deleted' = deleted \cup {a}
    /\ UNCHANGED <<create, sessions, events, streams, archives, rows, inserted, played>>

RowsOf(a) == {r \in rows : r.archive = a}

\* Mutant: the rows to delete are looked up by their own id.
RowsById(a) == {r \in rows : r.id = a}

RowsToDelete(a) == RowsOf(a)

DeleteRows ==
    /\ deletion.at = "found"
    /\ rows' = rows \ RowsToDelete(deletion.id)
    /\ deletion' = [deletion EXCEPT !.at = "emptied"]
    /\ UNCHANGED <<create, sessions, events, streams, archives, inserted, played, deleted>>

DeleteArchive ==
    /\ deletion.at = "emptied"
    /\ archives' = {archive \in archives : archive.id # deletion.id}
    /\ deletion' = NoDeletion
    /\ UNCHANGED <<create, sessions, events, streams, rows, inserted, played, deleted>>

\* The request is cancelled, or the server stops, between two statements.
DeletionFails ==
    /\ deletion # NoDeletion
    /\ deletion' = NoDeletion
    /\ UNCHANGED <<create, sessions, events, streams, archives, rows, inserted, played, deleted>>

ArchivesNext ==
    \/ \E c \in Calls :
         \/ AcceptSession(c) \/ StartStream(c) \/ StreamEnds(c)
         \/ AddSessionArchiveTrack(c)
         \/ \E code \in {"already_exists", "internal"} : RejectSession(c, code)
         \/ \E code \in {"ok", "internal"} : CreateReturns(c, code)
    \/ \E i \in Ids : DeleteSession(i)
    \/ \E a \in ArchiveIds : FindDeleted(a)
    \/ DeleteRows \/ DeleteArchive \/ DeletionFails

-----------------------------------------------------------------------------
(* An archive holds what was played from the queue of the session it was made
   for, and nothing of another, although a stream goes on recording after its
   session was deleted, beside the stream of a new session of the same id, and
   after its archive was deleted: it never writes into an archive that was made
   later (AUTOINCREMENT, and the archive id in the queue that the stream keeps).
   A stream that runs has the archive of its queue, and every row is in some
   archive, unless the deletion of that has begun. *)
ArchiveIsOneStation ==
    /\ \A archive \in archives : \A r \in rows : r.archive = archive.id => r.by = archive.by
    /\ \A c \in Calls :
         LET q == streams[c] IN
         q # Off /\ create[q].archive \notin {0} \cup deleted =>
             [id |-> create[q].archive, by |-> q] \in archives
    /\ \A r \in rows : r.archive \notin deleted => [id |-> r.archive, by |-> r.by] \in archives
=============================================================================
