------------------------ MODULE VoiceSessionsProofs ------------------------
(***************************************************************************)
(* Proofs about VoiceSessions.                                             *)
(***************************************************************************)
EXTENDS VoiceSessions, TLAPS

(* What destroySession does to the record and to the connections.          *)
LEMMA DestroySessionCases ==
    ASSUME NEW st, DestroySession(st)
    PROVE  \/ /\ session # None /\ st[connection[session]] # "destroyed"
              /\ session' = None
              /\ status' = [st EXCEPT ![connection[session]] = "destroyed"]
           \/ /\ session = None \/ st[connection[session]] = "destroyed"
              /\ session' = session
              /\ status' = st
BY DEF DestroySession

(* joinVoiceChannel hands out the open connection, or opens one.           *)
LEMMA JoinCases ==
    ASSUME NEW p \in Plays, Join(p)
    PROVE  \/ \E c \in Plays :
                /\ Open(c)
                /\ connection' = [connection EXCEPT ![p] = c]
                /\ status' = status
           \/ /\ \A c \in Plays : ~Open(c)
              /\ connection' = [connection EXCEPT ![p] = p]
              /\ status' = [status EXCEPT ![p] = "connecting"]
<1>1. CASE \E c \in Plays : Open(c)
  <2> DEFINE c0 == CHOOSE c \in Plays : Open(c)
  <2>1. c0 \in Plays /\ Open(c0)
    BY <1>1
  <2> QED
    BY <1>1, <2>1 DEF Join
<1>2. CASE ~ \E c \in Plays : Open(c)
  BY <1>2 DEF Join
<1> QED
  BY <1>1, <1>2

-----------------------------------------------------------------------------
LEMMA InitTyped == Init => TypeOK
<1> SUFFICES ASSUME Init PROVE TypeOK
  OBVIOUS
<1>1. /\ server \in BOOLEAN /\ overlapped \in BOOLEAN
      /\ session = None
      /\ status \in [Plays -> {"none", "connecting", "ready", "destroyed"}]
      /\ connection \in [Plays -> Plays \cup {None}]
      /\ request \in [Plays -> {"none", "open", "ended"}]
      /\ stop \in [Stops -> {"idle", "deleting", "deleted", "done", "failed"}]
  BY DEF Init
<1>2. \A p \in Plays : play[p] = "idle"
  BY DEF Init
<1>3. play \in [Plays -> Starting \cup {"idle", "done", "failed", "playing", "left"}]
  BY DEF Init, Starting
<1> QED
  BY <1>1, <1>2, <1>3 DEF TypeOK

LEMMA NextTyped == TypeOK /\ [Next]_vars => TypeOK'
<1> SUFFICES ASSUME TypeOK, [Next]_vars PROVE TypeOK'
  OBVIOUS
<1> USE VoiceAssumption DEF TypeOK, Starting
<1>1. ASSUME NEW p \in Plays, PlayCommand(p) PROVE TypeOK'
  <2>1. CASE BeginPlay(p)
    BY <2>1 DEF BeginPlay, Goto, voiceVars
  <2>2. CASE CreateSession(p)
    BY <2>2 DEF CreateSession, Goto, voiceVars
  <2>3. CASE CreateSessionFails(p)
    BY <2>3 DEF CreateSessionFails, Goto, voiceVars
  <2>4. CASE GetSession(p)
    BY <2>4 DEF GetSession, Goto, voiceVars
  <2>5. CASE AddTrack(p)
    BY <2>5, JoinCases DEF AddTrack, Goto
  <2>6. CASE ReplyFails(p)
    BY <2>6 DEF ReplyFails, Goto, voiceVars
  <2>7. CASE StartPlayback(p)
    BY <2>7 DEF StartPlayback, NewRequest, Goto
  <2>8. CASE NotReady(p)
    <3>1. DestroySession([status EXCEPT ![connection[p]] = "destroyed"])
      BY <2>8 DEF NotReady, TimedOut
    <3>2. connection[p] \in Plays
      BY <2>8 DEF NotReady
    <3>3. session' \in {session, None}
      BY <3>1, DestroySessionCases
    <3>4. status' \in [Plays -> {"none", "connecting", "ready", "destroyed"}]
      BY <3>1, <3>2 DEF DestroySession
    <3> QED
      BY <2>8, <3>3, <3>4 DEF NotReady, Goto
  <2>9. CASE MemberHasLeft(p)
    BY <2>9, DestroySessionCases DEF MemberHasLeft, Goto
  <2> QED
    BY <1>1, <2>1, <2>2, <2>3, <2>4, <2>5, <2>6, <2>7, <2>8, <2>9 DEF PlayCommand
<1>2. ASSUME NEW p \in Plays, Playback(p) PROVE TypeOK'
  <2>1. CASE StreamEnds(p) \/ StreamFails(p)
    BY <2>1, DestroySessionCases DEF StreamEnds, StreamFails, Leave, Goto
  <2>2. CASE Reconnect(p)
    BY <2>2 DEF Reconnect, NewRequest, voiceVars
  <2> QED
    BY <1>2, <2>1, <2>2 DEF Playback
<1>3. ASSUME NEW c \in Plays, VoiceReady(c) \/ VoiceDrops(c) PROVE TypeOK'
  BY <1>3 DEF VoiceReady, VoiceDrops
<1>4. ASSUME NEW d \in Stops, StopCommand(d) PROVE TypeOK'
  <2>1. CASE BeginStop(d)
    BY <2>1 DEF BeginStop, voiceVars
  <2>2. CASE DeleteSession(d)
    BY <2>2 DEF DeleteSession, EndServer, voiceVars
  <2>3. CASE DeleteSessionFails(d)
    BY <2>3 DEF DeleteSessionFails, EndServer, voiceVars
  <2>4. CASE LeaveChannel(d)
    BY <2>4, DestroySessionCases DEF LeaveChannel
  <2> QED
    BY <1>4, <2>1, <2>2, <2>3, <2>4 DEF StopCommand
<1>5. CASE ServerEnds
  BY <1>5 DEF ServerEnds, EndServer, voiceVars
<1>6. CASE Restart
  BY <1>6 DEF Restart
<1>7. CASE UNCHANGED vars
  BY <1>7 DEF vars, voiceVars
<1> QED
  BY <1>1, <1>2, <1>3, <1>4, <1>5, <1>6, <1>7 DEF Next

(* The state of the bot is well typed; a command that uses a connection,   *)
(* and a record, have one.                                                 *)
THEOREM TypeCorrect == Spec => []TypeOK
<1>1. Init => TypeOK
  BY InitTyped
<1>2. TypeOK /\ [Next]_vars => TypeOK'
  BY NextTyped
<1> QED
  BY <1>1, <1>2, PTL DEF Spec

-----------------------------------------------------------------------------
(* The connections.  Three facts are inductive together: at most one is    *)
(* open, the record's playback has started, and none is leaked.            *)

OneConnection == \A c, d \in Plays : Open(c) /\ Open(d) => c = d

SessionHasStarted == session # None => play[session] \in {"playing", "left"}

Voice == OneConnection /\ SessionHasStarted /\ NoLeakedVoice /\ StuckNeedsASharedConnection

(* Taking the guild's session down keeps the facts: here st is the state   *)
(* of the connections before, p the command or playback that gives up.     *)
LEMMA DestroyKeepsVoice ==
    ASSUME TypeOK, Voice, DestroySession(status), UNCHANGED connection,
           \A q \in Plays :
                \/ play'[q] = play[q]
                \/ play[q] = "playing" /\ play'[q] = "left"
                \/ play[q] = "adding" /\ play'[q] = "failed"
    PROVE  Voice'
<1>1. \A c \in Plays : Open(c)' => Open(c)
  BY DestroySessionCases DEF TypeOK, Open
<1>2. OneConnection'
  BY <1>1 DEF Voice, OneConnection
<1>3. CASE /\ session # None /\ status[connection[session]] # "destroyed"
           /\ session' = None
           /\ status' = [status EXCEPT ![connection[session]] = "destroyed"]
  <2>1. \A c \in Plays : Open(c)' => c # connection[session]
    BY <1>3 DEF TypeOK, Open
  <2>2. NoLeakedVoice'
    BY <1>1, <2>1 DEF Voice, NoLeakedVoice
  <2> QED
    BY <1>2, <1>3, <2>2 DEF Voice, SessionHasStarted, StuckNeedsASharedConnection
<1>4. CASE session' = session /\ status' = status
  <2>1. NoLeakedVoice'
    BY <1>4 DEF Voice, NoLeakedVoice, Open
  <2>2. SessionHasStarted'
    BY <1>4 DEF Voice, SessionHasStarted, TypeOK
  <2>3. StuckNeedsASharedConnection'
    BY <1>4 DEF Voice, StuckNeedsASharedConnection
  <2> QED
    BY <1>2, <2>1, <2>2, <2>3 DEF Voice
<1> QED
  BY <1>3, <1>4, DestroySessionCases

(* So do the steps that leave record, connections and waiting commands.    *)
LEMMA QuietKeepsVoice ==
    ASSUME TypeOK, Voice, UNCHANGED <<session, status, connection>>,
           \A q \in Plays :
                \/ play'[q] = play[q]
                \/ play[q] \in {"idle", "creating", "checking", "adding"} /\ play'[q] # "connecting"
    PROVE  Voice'
<1>1. OneConnection'
  BY DEF Voice, OneConnection, Open
<1>2. SessionHasStarted'
  BY DEF Voice, SessionHasStarted, TypeOK
<1>3. NoLeakedVoice'
  BY DEF Voice, NoLeakedVoice, Open
<1>4. StuckNeedsASharedConnection'
  BY DEF Voice, StuckNeedsASharedConnection
<1> QED
  BY <1>1, <1>2, <1>3, <1>4 DEF Voice

LEMMA AddTrackKeepsVoice ==
    ASSUME TypeOK, Voice, NEW p \in Plays, AddTrack(p)
    PROVE  Voice'
<1> USE VoiceAssumption
<1>1. /\ play[p] = "adding" /\ Join(p) /\ session' = session
      /\ play' = [play EXCEPT ![p] = "connecting"]
  BY DEF AddTrack, Goto
<1>2. session # p
  BY <1>1 DEF Voice, SessionHasStarted
<1>3. SessionHasStarted'
  BY <1>1, <1>2 DEF Voice, SessionHasStarted, TypeOK
<1>4. CASE \E c \in Plays :
              Open(c) /\ connection' = [connection EXCEPT ![p] = c] /\ status' = status
  <2>1. PICK c0 \in Plays :
              Open(c0) /\ connection' = [connection EXCEPT ![p] = c0] /\ status' = status
    BY <1>4
  <2>2. OneConnection'
    BY <2>1 DEF Voice, OneConnection, Open
  <2>3. \A c \in Plays : Open(c)' => c = c0
    BY <2>1 DEF Voice, OneConnection, Open
  <2>4. play'[p] = "connecting" /\ connection'[p] = c0
    BY <1>1, <2>1 DEF TypeOK
  <2>5. NoLeakedVoice'
    BY <2>3, <2>4 DEF NoLeakedVoice
  <2>6. StuckNeedsASharedConnection'
    BY <1>1, <1>2, <2>1 DEF Voice, StuckNeedsASharedConnection, TypeOK
  <2> QED
    BY <1>3, <2>2, <2>5, <2>6 DEF Voice
<1>5. CASE /\ \A c \in Plays : ~Open(c)
           /\ connection' = [connection EXCEPT ![p] = p]
           /\ status' = [status EXCEPT ![p] = "connecting"]
  <2>1. \A c \in Plays : Open(c)' => c = p
    BY <1>5 DEF Open, TypeOK
  <2>2. play'[p] = "connecting" /\ connection'[p] = p
    BY <1>1, <1>5 DEF TypeOK
  <2>3. NoLeakedVoice' /\ OneConnection'
    BY <2>1, <2>2 DEF NoLeakedVoice, OneConnection
  <2>4. StuckNeedsASharedConnection'
    <3> SUFFICES ASSUME session # None, status'[connection'[session]] = "destroyed"
                 PROVE  \E q \in Plays \ {session} :
                            play'[q] = "failed" /\ connection'[q] = connection'[session]
      BY <1>1 DEF StuckNeedsASharedConnection
    <3>1. connection'[session] = connection[session] /\ connection[session] \in Plays
      BY <1>2, <1>5 DEF TypeOK
    <3>2. status[connection[session]] = "destroyed"
      BY <1>5, <3>1 DEF TypeOK
    <3>3. PICK q \in Plays \ {session} : play[q] = "failed" /\ connection[q] = connection[session]
      BY <3>2 DEF Voice, StuckNeedsASharedConnection
    <3> QED
      BY <1>1, <1>5, <3>1, <3>3 DEF TypeOK
  <2> QED
    BY <1>3, <2>3, <2>4 DEF Voice
<1> QED
  BY <1>1, <1>4, <1>5, JoinCases

LEMMA StartPlaybackKeepsVoice ==
    ASSUME TypeOK, Voice, NEW p \in Plays, StartPlayback(p)
    PROVE  Voice'
<1> USE VoiceAssumption
<1>1. /\ play[p] = "connecting" /\ status[connection[p]] = "ready"
      /\ session' = p /\ UNCHANGED <<status, connection>>
      /\ play' = [play EXCEPT ![p] = "playing"]
  BY DEF StartPlayback, Goto
<1>2. connection[p] \in Plays /\ Open(connection[p])
  BY <1>1 DEF TypeOK, Open
<1>3. OneConnection' /\ \A c \in Plays : Open(c)' => c = connection[p]
  BY <1>1, <1>2 DEF Voice, OneConnection, Open
<1>4. NoLeakedVoice'
  BY <1>1, <1>3 DEF NoLeakedVoice
<1>5. SessionHasStarted' /\ StuckNeedsASharedConnection'
  BY <1>1 DEF SessionHasStarted, StuckNeedsASharedConnection, TypeOK
<1> QED
  BY <1>3, <1>4, <1>5 DEF Voice

(* The timeout destroys its own connection first, which the record may     *)
(* share: then the record stays, and p is the command that shared it.      *)
LEMMA NotReadyKeepsVoice ==
    ASSUME TypeOK, Voice, NEW p \in Plays, NotReady(p)
    PROVE  Voice'
<1> USE VoiceAssumption
<1> DEFINE st == [status EXCEPT ![connection[p]] = "destroyed"]
<1>1. /\ play[p] = "connecting" /\ DestroySession(st) /\ connection' = connection
      /\ play' = [play EXCEPT ![p] = "failed"]
  BY DEF NotReady, TimedOut, Goto
<1>2. connection[p] \in Plays /\ session # p
  BY <1>1 DEF TypeOK, Voice, SessionHasStarted
<1>3. \A c \in Plays : Open(c)' => Open(c) /\ c # connection[p]
  BY <1>1, <1>2 DEF DestroySession, Open, TypeOK
<1>4. OneConnection'
  BY <1>3 DEF Voice, OneConnection
<1>5. CASE /\ session # None /\ st[connection[session]] # "destroyed"
           /\ session' = None
           /\ status' = [st EXCEPT ![connection[session]] = "destroyed"]
  <2>1. connection[session] \in Plays
    BY <1>5 DEF TypeOK
  <2>2. \A c \in Plays : Open(c)' => c # connection[session]
    BY <1>5, <2>1, <1>2 DEF TypeOK, Open
  <2>3. NoLeakedVoice'
    BY <1>1, <1>3, <2>2 DEF Voice, NoLeakedVoice, TypeOK
  <2> QED
    BY <1>4, <1>5, <2>3 DEF Voice, SessionHasStarted, StuckNeedsASharedConnection
<1>6. CASE /\ session = None \/ st[connection[session]] = "destroyed"
           /\ session' = session
           /\ status' = st
  <2>1. NoLeakedVoice'
    BY <1>1, <1>3, <1>6 DEF Voice, NoLeakedVoice, TypeOK
  <2>2. SessionHasStarted'
    BY <1>1, <1>2, <1>6 DEF Voice, SessionHasStarted, TypeOK
  <2>3. StuckNeedsASharedConnection'
    <3> SUFFICES ASSUME session # None, st[connection[session]] = "destroyed"
                 PROVE  \E q \in Plays \ {session} :
                            play'[q] = "failed" /\ connection[q] = connection[session]
      BY <1>1, <1>6 DEF StuckNeedsASharedConnection
    <3>1. CASE connection[session] = connection[p]
      BY <1>1, <1>2, <3>1 DEF TypeOK
    <3>2. CASE connection[session] # connection[p]
      <4>1. status[connection[session]] = "destroyed"
        BY <1>2, <3>2 DEF TypeOK
      <4> QED
        BY <1>1, <1>2, <4>1 DEF Voice, StuckNeedsASharedConnection, TypeOK
    <3> QED
      BY <3>1, <3>2
  <2> QED
    BY <1>4, <2>1, <2>2, <2>3 DEF Voice
<1>7. \/ /\ session # None /\ st[connection[session]] # "destroyed"
         /\ session' = None
         /\ status' = [st EXCEPT ![connection[session]] = "destroyed"]
      \/ /\ session = None \/ st[connection[session]] = "destroyed"
         /\ session' = session
         /\ status' = st
  BY <1>1 DEF DestroySession
<1> QED
  BY <1>5, <1>6, <1>7

LEMMA RestartKeepsVoice ==
    ASSUME TypeOK, Voice, Restart
    PROVE  Voice'
<1>1. \A c \in Plays : ~Open(c)'
  BY DEF Restart, Open, TypeOK
<1>2. session' = None
  BY DEF Restart
<1> QED
  BY <1>1, <1>2 DEF Voice, OneConnection, SessionHasStarted, NoLeakedVoice,
                    StuckNeedsASharedConnection

(* A connection that becomes ready, or drops, stays the one that is open.  *)
LEMMA VoiceChangesKeepVoice ==
    ASSUME TypeOK, Voice, NEW v \in Plays, VoiceReady(v) \/ VoiceDrops(v)
    PROVE  Voice'
<1>1. /\ UNCHANGED <<session, connection, play>>
      /\ \A c \in Plays : status'[c] = status[c] \/ (Open(c) /\ status'[c] \in {"connecting", "ready"})
  BY DEF VoiceReady, VoiceDrops, TypeOK, Open
<1>2. \A c \in Plays : Open(c)' => Open(c)
  BY <1>1 DEF Open
<1>3. OneConnection' /\ NoLeakedVoice' /\ SessionHasStarted'
  BY <1>1, <1>2 DEF Voice, OneConnection, NoLeakedVoice, SessionHasStarted
<1>4. StuckNeedsASharedConnection'
  <2> SUFFICES ASSUME session # None, status'[connection[session]] = "destroyed"
               PROVE  \E q \in Plays \ {session} :
                          play[q] = "failed" /\ connection[q] = connection[session]
    BY <1>1 DEF StuckNeedsASharedConnection
  <2>1. status[connection[session]] = "destroyed"
    BY <1>1 DEF TypeOK
  <2> QED
    BY <2>1 DEF Voice, StuckNeedsASharedConnection
<1> QED
  BY <1>3, <1>4 DEF Voice

LEMMA VoiceStep == TypeOK /\ Voice /\ [Next]_vars => Voice'
<1> SUFFICES ASSUME TypeOK, Voice, [Next]_vars PROVE Voice'
  OBVIOUS
<1>1. ASSUME NEW p \in Plays, PlayCommand(p) PROVE Voice'
  <2>1. CASE BeginPlay(p)
    BY <2>1, QuietKeepsVoice DEF BeginPlay, Goto, voiceVars, TypeOK
  <2>2. CASE CreateSession(p)
    BY <2>2, QuietKeepsVoice DEF CreateSession, Goto, voiceVars, TypeOK
  <2>3. CASE CreateSessionFails(p)
    BY <2>3, QuietKeepsVoice DEF CreateSessionFails, Goto, voiceVars, TypeOK
  <2>4. CASE GetSession(p)
    BY <2>4, QuietKeepsVoice DEF GetSession, Goto, voiceVars, TypeOK
  <2>5. CASE ReplyFails(p)
    BY <2>5, QuietKeepsVoice DEF ReplyFails, Goto, voiceVars, TypeOK
  <2>6. CASE MemberHasLeft(p)
    BY <2>6, DestroyKeepsVoice DEF MemberHasLeft, Goto, TypeOK
  <2> QED
    BY <1>1, <2>1, <2>2, <2>3, <2>4, <2>5, <2>6, AddTrackKeepsVoice, StartPlaybackKeepsVoice,
       NotReadyKeepsVoice DEF PlayCommand
<1>2. ASSUME NEW p \in Plays, Playback(p) PROVE Voice'
  <2>1. CASE StreamEnds(p) \/ StreamFails(p)
    <3>1. /\ play[p] = "playing" /\ DestroySession(status) /\ UNCHANGED connection
          /\ play' = [play EXCEPT ![p] = "left"]
      BY <2>1 DEF StreamEnds, StreamFails, Leave, Goto
    <3>2. \A q \in Plays : play'[q] = play[q] \/ (play[q] = "playing" /\ play'[q] = "left")
      BY <3>1 DEF TypeOK
    <3> QED
      BY <3>1, <3>2, DestroyKeepsVoice
  <2>2. CASE Reconnect(p)
    BY <2>2, QuietKeepsVoice DEF Reconnect, voiceVars
  <2> QED
    BY <1>2, <2>1, <2>2 DEF Playback
<1>3. ASSUME NEW d \in Stops, StopCommand(d) PROVE Voice'
  <2>1. CASE LeaveChannel(d)
    BY <2>1, DestroyKeepsVoice DEF LeaveChannel
  <2>2. CASE BeginStop(d) \/ DeleteSession(d) \/ DeleteSessionFails(d)
    BY <2>2, QuietKeepsVoice DEF BeginStop, DeleteSession, DeleteSessionFails, voiceVars
  <2> QED
    BY <1>3, <2>1, <2>2 DEF StopCommand
<1>4. CASE ServerEnds
  BY <1>4, QuietKeepsVoice DEF ServerEnds, voiceVars
<1>5. CASE UNCHANGED vars
  BY <1>5, QuietKeepsVoice DEF vars, voiceVars
<1> QED
  BY <1>1, <1>2, <1>3, <1>4, <1>5, VoiceChangesKeepVoice, RestartKeepsVoice DEF Next

LEMMA VoiceInvariant == Spec => [](TypeOK /\ Voice)
<1>1. Init => TypeOK /\ Voice
  BY InitTyped DEF Init, Voice, OneConnection, SessionHasStarted, NoLeakedVoice,
                   StuckNeedsASharedConnection, Open
<1>2. TypeOK /\ Voice /\ [Next]_vars => (TypeOK /\ Voice)'
  BY NextTyped, VoiceStep
<1> QED
  BY <1>1, <1>2, PTL DEF Spec

(* Whatever the number of commands and their interleaving, no voice        *)
(* connection stays open that no record and no command refers to.          *)
THEOREM NoVoiceLeaks == Spec => []NoLeakedVoice
<1>1. Voice => NoLeakedVoice
  BY DEF Voice
<1> QED
  BY <1>1, VoiceInvariant, PTL

(* A record is stuck in the map only when another command shared its       *)
(* connection and timed out on it.                                         *)
THEOREM StuckRecords == Spec => []StuckNeedsASharedConnection
<1>1. Voice => StuckNeedsASharedConnection
  BY DEF Voice
<1> QED
  BY <1>1, VoiceInvariant, PTL

-----------------------------------------------------------------------------
(* While no /stop is used and no two commands start playback at once, one  *)
(* command at a time starts playback, over an empty map, with a connection *)
(* of its own.                                                             *)

Quiet == (\A d \in Stops : stop[d] = "idle") /\ ~overlapped

OneStarts == \A p \in Plays : play[p] \in Starting =>
                session = None /\ \A q \in Plays : play[q] \in Starting => q = p

OwnConnection == \A p \in Plays : connection[p] \in {None, p}

Owns == \A p \in Plays : play[p] = "playing" <=> session = p

Ownership == Quiet => OneStarts /\ OwnConnection /\ Owns

(* Only /stop moves a stop command, and an overlap is remembered.          *)
LEMMA QuietBefore == TypeOK /\ [Next]_vars /\ Quiet' => Quiet
<1> SUFFICES ASSUME TypeOK, [Next]_vars, Quiet' PROVE Quiet
  OBVIOUS
<1>1. ASSUME NEW d \in Stops, StopCommand(d) PROVE Quiet
  <2>1. stop'[d] # "idle"
    BY <1>1 DEF StopCommand, BeginStop, DeleteSession, DeleteSessionFails, LeaveChannel, TypeOK
  <2> QED
    BY <2>1 DEF Quiet
<1>2. CASE Restart
  BY <1>2 DEF Restart, Quiet
<1>3. CASE UNCHANGED stop /\ (overlapped => overlapped')
  BY <1>3 DEF Quiet
<1>4. ASSUME NEW p \in Plays,
             PlayCommand(p) \/ Playback(p) \/ VoiceReady(p) \/ VoiceDrops(p)
      PROVE  UNCHANGED stop /\ (overlapped => overlapped')
  <2>1. CASE BeginPlay(p)
    <3>1. \/ UNCHANGED overlapped
          \/ overlapped' = (overlapped \/ \E q \in Plays : play[q] \in Starting)
      BY <2>1 DEF BeginPlay
    <3>2. overlapped => overlapped'
      BY <3>1, Zenon
    <3>3. UNCHANGED stop
      BY <2>1 DEF BeginPlay
    <3> QED
      BY <3>2, <3>3, Zenon
  <2>2. CASE ~BeginPlay(p)
    <3>1. UNCHANGED <<stop, overlapped>>
      BY <1>4, <2>2 DEF PlayCommand, CreateSession, CreateSessionFails, GetSession, AddTrack,
                        MemberHasLeft, ReplyFails, StartPlayback, NotReady, Playback, StreamEnds, StreamFails,
                        Leave, Reconnect, VoiceReady, VoiceDrops
    <3> QED
      BY <3>1, Zenon
  <2> QED
    BY <2>1, <2>2
<1>5. CASE ServerEnds
  BY <1>3, <1>5 DEF ServerEnds
<1>6. CASE UNCHANGED vars
  BY <1>3, <1>6 DEF vars
<1> QED
  BY <1>1, <1>2, <1>3, <1>4, <1>5, <1>6 DEF Next

(* Then the record of a playback can always be removed.                    *)
LEMMA OwnedRecordIsFree ==
    ASSUME TypeOK, Voice, OwnConnection, session # None
    PROVE  status[connection[session]] # "destroyed"
<1> SUFFICES ASSUME status[connection[session]] = "destroyed" PROVE FALSE
  OBVIOUS
<1>1. PICK q \in Plays \ {session} : connection[q] = connection[session]
  BY DEF Voice, StuckNeedsASharedConnection
<1>2. session \in Plays /\ connection[session] = session
  BY DEF TypeOK, OwnConnection
<1> QED
  BY <1>1, <1>2, VoiceAssumption DEF OwnConnection

(* A command that begins, goes on or gives up without a record.            *)
LEMMA MovesKeepOwnership ==
    ASSUME TypeOK, Quiet, Ownership, NEW p \in Plays, NEW l,
           UNCHANGED <<session, connection>>, play' = [play EXCEPT ![p] = l],
           l \in Starting \cup {"failed", "done"}, play[p] \in Starting \/ l = "done"
    PROVE  OneStarts' /\ OwnConnection' /\ (play[p] # "playing" => Owns')
<1>1. OneStarts /\ OwnConnection /\ Owns
  BY DEF Ownership
<1>2. \A q \in Plays : play'[q] = IF q = p THEN l ELSE play[q]
  BY DEF TypeOK
<1>3. \A q \in Plays : play'[q] \in Starting => play[q] \in Starting
  BY <1>2 DEF Starting
<1>4. OneStarts'
  BY <1>1, <1>3 DEF OneStarts
<1>5. OwnConnection'
  BY <1>1 DEF OwnConnection
<1>6. ASSUME play[p] # "playing" PROVE Owns'
  BY <1>1, <1>2, <1>6 DEF Owns, Starting
<1> QED
  BY <1>4, <1>5, <1>6

LEMMA OwnershipStep == TypeOK /\ Voice /\ Ownership /\ [Next]_vars => Ownership'
<1> SUFFICES ASSUME TypeOK, Voice, Ownership, [Next]_vars, Quiet'
             PROVE  (OneStarts /\ OwnConnection /\ Owns)'
  BY DEF Ownership
<1> USE VoiceAssumption
<1>1. Quiet
  BY QuietBefore
<1>2. OneStarts /\ OwnConnection /\ Owns
  BY <1>1 DEF Ownership
<1>3. CASE UNCHANGED <<session, connection, play>>
  BY <1>2, <1>3 DEF OneStarts, OwnConnection, Owns
<1>4. ASSUME NEW p \in Plays, PlayCommand(p) PROVE (OneStarts /\ OwnConnection /\ Owns)'
  <2>1. CASE BeginPlay(p) /\ session = None
    <3>1. /\ play[p] = "idle" /\ play' = [play EXCEPT ![p] = "creating"]
          /\ UNCHANGED <<session, connection>>
          /\ \A q \in Plays : play[q] \notin Starting
      BY <2>1 DEF BeginPlay, HasSession, Goto, voiceVars, Quiet
    <3>2. \A q \in Plays : play'[q] = IF q = p THEN "creating" ELSE play[q]
      BY <3>1 DEF TypeOK
    <3> QED
      BY <1>2, <2>1, <3>1, <3>2 DEF OneStarts, OwnConnection, Owns
  <2>2. CASE BeginPlay(p) /\ session # None
    <3>1. /\ play[p] = "idle" /\ play' = [play EXCEPT ![p] = "done"]
          /\ UNCHANGED <<session, connection>>
      BY <2>2 DEF BeginPlay, HasSession, Goto, voiceVars
    <3> QED
      BY <1>1, <3>1, MovesKeepOwnership
  <2>3. CASE CreateSession(p) \/ CreateSessionFails(p) \/ GetSession(p) \/ ReplyFails(p)
    <3>1. PICK l \in {"checking", "adding", "failed"} : play' = [play EXCEPT ![p] = l]
      BY <2>3 DEF CreateSession, CreateSessionFails, GetSession, ReplyFails, Goto
    <3>2. /\ play[p] \in Starting /\ play[p] # "playing" /\ l \in Starting \cup {"failed", "done"}
          /\ UNCHANGED <<session, connection>>
      BY <2>3 DEF CreateSession, CreateSessionFails, GetSession, ReplyFails, Starting, voiceVars
    <3> QED
      BY <1>1, <3>1, <3>2, MovesKeepOwnership
  <2>4. CASE AddTrack(p)
    <3>1. /\ play[p] = "adding" /\ play' = [play EXCEPT ![p] = "connecting"]
          /\ session' = session /\ Join(p)
      BY <2>4 DEF AddTrack, Goto
    <3>2. session = None /\ \A q \in Plays : play[q] # "connecting"
      BY <1>2, <3>1 DEF OneStarts, Starting
    <3>3. \A c \in Plays : ~Open(c)
      BY <3>2 DEF Voice, NoLeakedVoice
    <3>4. connection' = [connection EXCEPT ![p] = p]
      BY <3>1, <3>3 DEF Join
    <3>5. OwnConnection'
      BY <1>2, <3>4 DEF OwnConnection, TypeOK
    <3>6. \A q \in Plays : play'[q] = IF q = p THEN "connecting" ELSE play[q]
      BY <3>1 DEF TypeOK
    <3> QED
      BY <1>2, <3>1, <3>2, <3>5, <3>6 DEF OneStarts, Owns, Starting
  <2>5. CASE StartPlayback(p)
    <3>1. /\ play[p] = "connecting" /\ session' = p /\ UNCHANGED connection
          /\ \A q \in Plays : play'[q] = IF q = p THEN "playing" ELSE play[q]
      BY <2>5 DEF StartPlayback, Goto, TypeOK
    <3>2. session = None /\ \A q \in Plays : play[q] \in Starting => q = p
      BY <1>2, <3>1 DEF OneStarts, Starting
    <3> QED
      BY <1>2, <3>1, <3>2 DEF OneStarts, OwnConnection, Owns, Starting
  <2>6. CASE NotReady(p) \/ MemberHasLeft(p)
    <3>1. /\ play[p] \in {"adding", "connecting"} /\ UNCHANGED connection
          /\ DestroySession(TimedOut(p)) \/ DestroySession(status)
          /\ play' = [play EXCEPT ![p] = "failed"]
      BY <2>6 DEF NotReady, MemberHasLeft, Goto
    <3>2. session = None
      BY <1>2, <3>1 DEF OneStarts, Starting
    <3>3. UNCHANGED session
      BY <3>1, <3>2 DEF DestroySession
    <3> QED
      BY <1>1, <3>1, <3>3, MovesKeepOwnership DEF Starting
  <2> QED
    BY <1>4, <2>1, <2>2, <2>3, <2>4, <2>5, <2>6 DEF PlayCommand
<1>5. ASSUME NEW p \in Plays, StreamEnds(p) \/ StreamFails(p)
      PROVE  (OneStarts /\ OwnConnection /\ Owns)'
  <2>1. /\ play[p] = "playing" /\ DestroySession(status) /\ UNCHANGED connection
        /\ \A q \in Plays : play'[q] = IF q = p THEN "left" ELSE play[q]
    BY <1>5 DEF StreamEnds, StreamFails, Leave, Goto, TypeOK
  <2>2. session = p
    BY <1>2, <2>1 DEF Owns
  <2>3. session' = None
    BY <1>2, <2>1, <2>2, OwnedRecordIsFree DEF DestroySession
  <2>4. \A q \in Plays : play'[q] # "playing" /\ play'[q] \notin Starting
    BY <1>2, <2>1, <2>2 DEF Owns, OneStarts, Starting
  <2> QED
    BY <1>2, <2>1, <2>3, <2>4 DEF OneStarts, OwnConnection, Owns
<1>6. CASE Restart
  <2>1. session' = None /\ UNCHANGED connection
    BY <1>6 DEF Restart
  <2>2. \A q \in Plays : play'[q] # "playing" /\ play'[q] \notin Starting
    BY <1>6 DEF Restart, Starting, TypeOK
  <2> QED
    BY <1>2, <2>1, <2>2 DEF OneStarts, OwnConnection, Owns
<1>7. ASSUME NEW p \in Plays, Reconnect(p) \/ VoiceReady(p) \/ VoiceDrops(p)
      PROVE  UNCHANGED <<session, connection, play>>
  BY <1>7 DEF Reconnect, VoiceReady, VoiceDrops, voiceVars
<1>8. ASSUME NEW d \in Stops, StopCommand(d) PROVE FALSE
  <2>1. stop'[d] # "idle"
    BY <1>8 DEF StopCommand, BeginStop, DeleteSession, DeleteSessionFails, LeaveChannel, TypeOK
  <2> QED
    BY <2>1 DEF Quiet
<1>9. ServerEnds \/ UNCHANGED vars => UNCHANGED <<session, connection, play>>
  BY DEF ServerEnds, vars, voiceVars
<1> QED
  BY <1>3, <1>4, <1>5, <1>6, <1>7, <1>8, <1>9 DEF Next, Playback

(* Without /stop and without overlapping commands, a playback runs exactly *)
(* while the guild's record is its own: leave() destroys no other's.       *)
THEOREM PlaybackOwnership == Spec => []PlaybackOwnsTheSession
<1>1. Init => Ownership
  BY VoiceAssumption DEF Init, Ownership, OneStarts, OwnConnection, Owns, Starting
<1>2. TypeOK /\ Voice /\ Ownership /\ [Next]_vars => Ownership'
  BY OwnershipStep
<1>3. Ownership => PlaybackOwnsTheSession
  BY DEF Ownership, Quiet, Owns, PlaybackOwnsTheSession
<1> QED
  BY <1>1, <1>2, <1>3, VoiceInvariant, PTL DEF Spec
=============================================================================
