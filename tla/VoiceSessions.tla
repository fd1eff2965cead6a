--------------------------- MODULE VoiceSessions ---------------------------
(***************************************************************************)
(* The Discord bot in one guild: the /play and /stop commands, the map of  *)
(* voice sessions they share, the callbacks of the stream each playback    *)
(* reads, and what they see of the guild's session on the RPC server.      *)
(* Every step is what runs between two awaits; commands and callbacks      *)
(* interleave at the awaits.                                               *)
(*                                                                         *)
(* A command is a one-shot process.  A play stands for the playback it     *)
(* starts, for the session record it stores and for the voice connection   *)
(* it opens.                                                               *)
(***************************************************************************)
EXTENDS Integers, FiniteSets

CONSTANTS
    Plays,          \* /play commands in the guild
    Stops,          \* /stop commands in the guild
    None            \* no play

ASSUME VoiceAssumption == None \notin Plays

VARIABLES
    server,         \* the guild's session exists on the RPC server
    session,        \* sessions: the playback whose record the guild has
    status,         \* the voice connection that each play opened
    connection,     \* the voice connection each play uses, by its opener
    play,           \* where each /play command, then its playback, is
    request,        \* currentRequest: the playback's stream
    stop,           \* where each /stop command is
    overlapped      \* history: two commands were starting playback at once

voiceVars == <<session, status>>
vars == <<server, voiceVars, connection, play, request, stop, overlapped>>

Starting == {"creating", "checking", "adding", "connecting"}

TypeOK ==
    /\ server \in BOOLEAN
    /\ session \in Plays \cup {None}
    /\ status \in [Plays -> {"none", "connecting", "ready", "destroyed"}]
    /\ connection \in [Plays -> Plays \cup {None}]
    /\ \A p \in Plays : play[p] \in {"connecting", "playing"} => connection[p] # None
    /\ session # None => connection[session] # None
    /\ play \in [Plays -> Starting \cup {"idle", "done", "failed", "playing", "left"}]
    /\ request \in [Plays -> {"none", "open", "ended"}]
    /\ stop \in [Stops -> {"idle", "deleting", "deleted", "done", "failed"}]
    /\ overlapped \in BOOLEAN

Init ==
    /\ server \in BOOLEAN
    /\ session = None
    /\ status = [p \in Plays |-> "none"]
    /\ connection = [p \in Plays |-> None]
    /\ play = [p \in Plays |-> "idle"]
    /\ request = [p \in Plays |-> "none"]
    /\ stop = [d \in Stops |-> "idle"]
    /\ overlapped = FALSE

-----------------------------------------------------------------------------
(* The server and the voice library, as the bot uses them.                 *)

\* The library keeps one connection per guild until it is destroyed.
Open(c) == status[c] \in {"connecting", "ready"}

\* Mutant: the connection that is there is not handed to the caller.
JoinNothing(p) ==
    /\ UNCHANGED connection
    /\ status' = IF \E c \in Plays : Open(c) THEN status ELSE [status EXCEPT ![p] = "connecting"]

\* joinVoiceChannel returns that connection, or a new one.
Join(p) ==
    IF \E c \in Plays : Open(c)
    THEN /\ connection' = [connection EXCEPT ![p] = CHOOSE c \in Plays : Open(c)]
         /\ UNCHANGED status
    ELSE /\ connection' = [connection EXCEPT ![p] = p]
         /\ status' = [status EXCEPT ![p] = "connecting"]

VoiceReady(c) ==
    /\ status[c] = "connecting"
    /\ status' = [status EXCEPT ![c] = "ready"]
    /\ UNCHANGED <<server, session, connection, play, request, stop, overlapped>>

VoiceDrops(c) ==
    /\ status[c] = "ready"
    /\ status' = [status EXCEPT ![c] = "connecting"]
    /\ UNCHANGED <<server, session, connection, play, request, stop, overlapped>>

\* The session and its mount are gone: listeners get the end of the stream.
EndServer ==
    /\ server' = FALSE
    /\ request' = [p \in Plays |-> IF request[p] = "open" THEN "ended" ELSE request[p]]

\* An hour of silence, a stream that fails, a deletion by the admin.
ServerEnds ==
    /\ server
    /\ EndServer
    /\ UNCHANGED <<voiceVars, connection, play, stop, overlapped>>

-----------------------------------------------------------------------------
(* The map of sessions.                                                    *)

\* Mutant: the record is deleted, the connection stays.
ForgetSession(st) ==
    /\ session' = None
    /\ status' = st

\* Mutant: the connection is destroyed, the record stays.
KeepRecord(st) ==
    /\ UNCHANGED session
    /\ status' = IF session = None THEN st ELSE [st EXCEPT ![connection[session]] = "destroyed"]

\* destroySession, on connections in state st.  Destroying a connection twice
\* throws, which leaves the record in the map.
DestroySession(st) ==
    IF session # None /\ st[connection[session]] # "destroyed"
    THEN /\ session' = None
         /\ status' = [st EXCEPT ![connection[session]] = "destroyed"]
    ELSE /\ UNCHANGED session
         /\ status' = st

-----------------------------------------------------------------------------
(* handlePlayCommand.                                                      *)

Goto(p, l) == play' = [play EXCEPT ![p] = l]

\* Mutant: the guild's session is not looked for.
HasNoSession == FALSE

HasSession == session # None

\* With a session the command only adds a track.
BeginPlay(p) ==
    /\ play[p] = "idle"
    /\ IF HasSession
       THEN /\ Goto(p, "done")
            /\ UNCHANGED overlapped
       ELSE /\ Goto(p, "creating")
            /\ overlapped' = (overlapped \/ \E q \in Plays : play[q] \in Starting)
    /\ UNCHANGED <<server, voiceVars, connection, request, stop>>

CreateSession(p) ==
    /\ play[p] = "creating"
    /\ server' = TRUE
    /\ Goto(p, IF server THEN "checking" ELSE "adding")
    /\ UNCHANGED <<voiceVars, connection, request, stop, overlapped>>

\* A call that fails may have left a session on the server.
CreateSessionFails(p) ==
    /\ play[p] = "creating"
    /\ server' \in {server, TRUE}
    /\ Goto(p, "failed")
    /\ UNCHANGED <<voiceVars, connection, request, stop, overlapped>>

\* The session existed; getSession may find it gone, or fail.
GetSession(p) ==
    /\ play[p] = "checking"
    /\ \/ server /\ Goto(p, "adding")
       \/ Goto(p, "failed")
    /\ UNCHANGED <<server, voiceVars, connection, request, stop, overlapped>>

\* Whether the track was added or not, the bot joins the channel.
AddTrack(p) ==
    /\ play[p] = "adding"
    /\ Join(p)
    /\ Goto(p, "connecting")
    /\ UNCHANGED <<server, session, request, stop, overlapped>>

\* Unless the member has left the channel meanwhile: connectToChannel throws
\* before it joins, and the handler destroys the guild's session, whoever's it is.
MemberHasLeft(p) ==
    /\ play[p] = "adding"
    /\ DestroySession(status)
    /\ Goto(p, "failed")
    /\ UNCHANGED <<server, connection, request, stop, overlapped>>

\* A reply to the user fails: the command ends.
ReplyFails(p) ==
    /\ play[p] = "adding"
    /\ Goto(p, "failed")
    /\ UNCHANGED <<server, voiceVars, connection, request, stop, overlapped>>

\* Without a mount the answer ends at once.
NewRequest(p) == request' = [request EXCEPT ![p] = IF server THEN "open" ELSE "ended"]

\* The rest of startPlayback: the record is stored, the stream starts.
StartPlayback(p) ==
    /\ play[p] = "connecting"
    /\ status[connection[p]] = "ready"
    /\ session' = p
    /\ NewRequest(p)
    /\ Goto(p, "playing")
    /\ UNCHANGED <<server, status, connection, stop, overlapped>>

\* Mutant: the connection is left to itself.
Abandoned(p) == status

\* Not ready in 30 seconds: connectToChannel destroys its connection.
TimedOut(p) == [status EXCEPT ![connection[p]] = "destroyed"]

\* Then the handler destroys the guild's session, whoever's it is.
NotReady(p) ==
    /\ play[p] = "connecting"
    /\ status[connection[p]] # "ready"
    /\ DestroySession(TimedOut(p))
    /\ Goto(p, "failed")
    /\ UNCHANGED <<server, connection, request, stop, overlapped>>

-----------------------------------------------------------------------------
(* The callbacks of a playback.                                            *)

\* leave: the guild's session is destroyed, whoever's it is.
Leave(p) ==
    /\ DestroySession(status)
    /\ Goto(p, "left")
    /\ UNCHANGED <<server, connection, request, stop, overlapped>>

StreamEnds(p) ==
    /\ play[p] = "playing"
    /\ request[p] = "ended"
    /\ Leave(p)

StreamFails(p) ==
    /\ play[p] = "playing"
    /\ request[p] = "open"
    /\ Leave(p)

\* The player fails or idles: the stream is requested again.
Reconnect(p) ==
    /\ play[p] = "playing"
    /\ NewRequest(p)
    /\ UNCHANGED <<server, voiceVars, connection, play, stop, overlapped>>

-----------------------------------------------------------------------------
(* handleStopCommand.  It never ends the playback itself.                  *)

BeginStop(d) ==
    /\ stop[d] = "idle"
    /\ stop' = [stop EXCEPT ![d] = "deleting"]
    /\ UNCHANGED <<server, voiceVars, connection, play, request, overlapped>>

DeleteSession(d) ==
    /\ stop[d] = "deleting"
    /\ EndServer
    /\ stop' = [stop EXCEPT ![d] = "deleted"]
    /\ UNCHANGED <<voiceVars, connection, play, overlapped>>

\* The nonce, the token or the call fails, the session deleted or not.
DeleteSessionFails(d) ==
    /\ stop[d] = "deleting"
    /\ EndServer \/ UNCHANGED <<server, request>>
    /\ stop' = [stop EXCEPT ![d] = "failed"]
    /\ UNCHANGED <<voiceVars, connection, play, overlapped>>

LeaveChannel(d) ==
    /\ stop[d] = "deleted"
    /\ DestroySession(status)
    /\ stop' = [stop EXCEPT ![d] = "done"]
    /\ UNCHANGED <<server, connection, play, request, overlapped>>

-----------------------------------------------------------------------------
(* The bot's process ends, by itself or by an error that no handler        *)
(* catches, and is started again with an empty map.                        *)
Restart ==
    /\ session' = None
    /\ status' = [p \in Plays |-> IF Open(p) THEN "destroyed" ELSE status[p]]
    /\ play' = [p \in Plays |-> IF play[p] \in Starting \cup {"playing"} THEN "failed" ELSE play[p]]
    /\ request' = [p \in Plays |-> "none"]
    /\ stop' = [d \in Stops |-> IF stop[d] \in {"deleting", "deleted"} THEN "failed" ELSE stop[d]]
    /\ UNCHANGED <<server, connection, overlapped>>

-----------------------------------------------------------------------------
PlayCommand(p) ==
    \/ BeginPlay(p) \/ CreateSession(p) \/ CreateSessionFails(p) \/ GetSession(p)
    \/ AddTrack(p) \/ MemberHasLeft(p) \/ ReplyFails(p) \/ StartPlayback(p) \/ NotReady(p)

Playback(p) == StreamEnds(p) \/ StreamFails(p) \/ Reconnect(p)

StopCommand(d) ==
    \/ BeginStop(d) \/ DeleteSession(d) \/ DeleteSessionFails(d) \/ LeaveChannel(d)

Next ==
    \/ \E p \in Plays : PlayCommand(p) \/ Playback(p) \/ VoiceReady(p) \/ VoiceDrops(p)
    \/ \E d \in Stops : StopCommand(d)
    \/ ServerEnds \/ Restart

Spec == Init /\ [][Next]_vars

(* Fairness: the wait for the connection has a timeout, and the end of a   *)
(* stream is delivered.                                                    *)
FairSpec ==
    /\ Spec
    /\ \A p \in Plays : WF_vars(StartPlayback(p) \/ NotReady(p)) /\ WF_vars(StreamEnds(p))

-----------------------------------------------------------------------------
(* Properties.                                                             *)

(* The bot is in a voice channel only if the guild's session can take it   *)
(* out again, or a command is about to: whatever commands overlap and      *)
(* callbacks come late, destroySession and connectToChannel leave no       *)
(* connection that nothing refers to.                                      *)
NoLeakedVoice ==
    \A c \in Plays : Open(c) =>
        \/ session # None /\ connection[session] = c
        \/ \E p \in Plays : play[p] = "connecting" /\ connection[p] = c

(* A record whose connection is destroyed can never be removed, and blocks *)
(* /play in the guild; this takes another command that shared the          *)
(* connection and timed out on it.                                         *)
StuckNeedsASharedConnection ==
    session # None /\ status[connection[session]] = "destroyed" =>
        \E p \in Plays \ {session} :
            play[p] = "failed" /\ connection[p] = connection[session]

(* Unless /stop is used or two commands start playback at once, a playback *)
(* runs exactly while the guild's session is its own, so its leave() tears *)
(* down nothing but itself.                                                *)
PlaybackOwnsTheSession ==
    (\A d \in Stops : stop[d] = "idle") /\ ~overlapped =>
        \A p \in Plays : play[p] = "playing" <=> session = p

(* Once the server's session is gone, by /stop or by itself, the bot       *)
(* leaves the voice channel, also when it was still joining it: a stream   *)
(* that ends, or is not there, takes the bot out.                          *)
VoiceFollowsServer ==
    \A c \in Plays : (Open(c) /\ ~server) ~> (~Open(c) \/ server)
=============================================================================
