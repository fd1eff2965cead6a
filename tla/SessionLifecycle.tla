-------------------------- MODULE SessionLifecycle --------------------------
(***************************************************************************)
(* The life of the sessions of the server: the SessionManager, the         *)
(* dispatcher loop (IcecastClient.StreamSessions), one stream goroutine    *)
(* per Created event (streamSession) and the RPC handlers that create and  *)
(* delete sessions.  They share the manager's map, the buffered channel of *)
(* events and the dispatcher's map of cancel functions.                    *)
(*                                                                         *)
(* A call of the CreateSession or of the DeleteSession RPC is a one-shot   *)
(* process, named by a value of Creates or Deletes.  The queue a call      *)
(* allocates, its ready channel and the stream that its Created event      *)
(* starts are named by the call too, which is what tells apart two         *)
(* sessions that carry the same id one after the other.                    *)
(***************************************************************************)
EXTENDS Integers, Sequences, FiniteSets

CONSTANTS
    Ids,            \* session ids the clients use
    Creates,        \* calls of the CreateSession RPC
    Deletes,        \* calls of the DeleteSession RPC
    MaxSessions,    \* cap on concurrent sessions (maxSessions)
    EventBuffer,    \* capacity of the Events channel (eventChannelBuffer)
    None            \* no session, no call

ASSUME LifecycleAssumption ==
    /\ None \notin Creates
    /\ Creates \cap Deletes = {}
    /\ MaxSessions \in Nat
    /\ EventBuffer \in Nat \ {0}

VARIABLES
    target,         \* the session id each call names
    sessions,       \* SessionManager.sessions: the queue registered for each id
    events,         \* SessionManager.Events
    dispatching,    \* StreamSessions has not returned
    handling,       \* the event the dispatcher has received and not yet handled
    cancels,        \* IcecastClient.cancels: the stream to cancel for each id
    cancelled,      \* streams whose cancel function was called
    create,         \* where each CreateSession call is
    ready,          \* content of the ready channel of each CreateSession call
    stream,         \* where the stream started by each Created event is
    serves,         \* the queue each stream plays
    delete,         \* where each DeleteSession call is
    shutdown        \* the process context is done (SIGINT or SIGTERM)

managerVars == <<sessions, events>>
dispatcherVars == <<dispatching, handling, cancels, cancelled>>
callVars == <<create, delete>>
streamVars == <<stream, serves, ready>>
vars == <<target, managerVars, dispatcherVars, callVars, streamVars, shutdown>>

Calls == Creates \cup Deletes
Created(c) == [type |-> "created", id |-> target[c], call |-> c]
Deleted(i) == [type |-> "deleted", id |-> i, call |-> None]
Event == [type : {"created"}, id : Ids, call : Creates]
            \cup [type : {"deleted"}, id : Ids, call : {None}]

Active == {"connecting", "streaming", "ending"}

\* A stream's context is a child of the process context.
ContextDone(c) == shutdown \/ c \in cancelled

TypeOK ==
    /\ target \in [Calls -> Ids]
    /\ sessions \in [Ids -> Creates \cup {None}]
    /\ events \in Seq(Event)
    /\ Len(events) <= EventBuffer
    /\ dispatching \in BOOLEAN
    /\ handling \in Seq(Event)
    /\ Len(handling) <= 1
    /\ cancels \in [Ids -> Creates \cup {None}]
    /\ cancelled \subseteq Creates
    /\ create \in [Creates -> {"idle", "sending", "waiting", "ok", "exists",
                               "tooMany", "abandoned", "streamFailed", "deadline"}]
    /\ ready \in [Creates -> {"empty", "ok", "error"}]
    /\ stream \in [Creates -> Active \cup {"none", "notifying", "done"}]
    /\ serves \in [Creates -> Creates \cup {None}]
    /\ delete \in [Deletes -> {"idle", "sending", "done", "abandoned"}]
    /\ shutdown \in BOOLEAN

Init ==
    /\ target \in [Calls -> Ids]
    /\ sessions = [i \in Ids |-> None]
    /\ events = <<>>
    /\ dispatching = TRUE
    /\ handling = <<>>
    /\ cancels = [i \in Ids |-> None]
    /\ cancelled = {}
    /\ create = [c \in Creates |-> "idle"]
    /\ ready = [c \in Creates |-> "empty"]
    /\ stream = [c \in Creates |-> "none"]
    /\ serves = [c \in Creates |-> None]
    /\ delete = [d \in Deletes |-> "idle"]
    /\ shutdown = FALSE

-----------------------------------------------------------------------------
(* The manager: its map, under its mutex, and its channel of events.       *)

Live == {i \in Ids : sessions[i] # None}

\* Mutant: a non-blocking send, as the queue's notify channel has.
SendOrDrop(e) ==
    events' = IF Len(events) < EventBuffer THEN Append(events, e) ELSE events

\* A send on Events blocks while the buffer is full.
Send(e) ==
    /\ Len(events) < EventBuffer
    /\ events' = Append(events, e)

\* Mutant: the event is sent, the entry is forgotten.
KeepEntry(i) == UNCHANGED sessions

\* DeleteSession's critical section: the entry goes, whoever registered it.
Unregister(i) == sessions' = [sessions EXCEPT ![i] = None]

-----------------------------------------------------------------------------
(* A CreateSession call.                                                   *)

CreateRejected(c) ==
    /\ create[c] = "idle"
    /\ \/ /\ target[c] \in Live
          /\ create' = [create EXCEPT ![c] = "exists"]
       \/ /\ target[c] \notin Live
          /\ Cardinality(Live) >= MaxSessions
          /\ create' = [create EXCEPT ![c] = "tooMany"]
    /\ UNCHANGED <<target, managerVars, dispatcherVars, delete, streamVars, shutdown>>

CreateInserted(c) ==
    /\ create[c] = "idle"
    /\ target[c] \notin Live
    /\ Cardinality(Live) < MaxSessions
    /\ sessions' = [sessions EXCEPT ![target[c]] = c]
    /\ create' = [create EXCEPT ![c] = "sending"]
    /\ UNCHANGED <<target, events, dispatcherVars, delete, streamVars, shutdown>>

SendCreated(c) ==
    /\ create[c] = "sending"
    /\ Send(Created(c))
    /\ create' = [create EXCEPT ![c] = "waiting"]
    /\ UNCHANGED <<target, sessions, dispatcherVars, delete, streamVars, shutdown>>

\* The request's context is done before the event is sent: the entry stays.
AbandonSend(c) ==
    /\ create[c] = "sending"
    /\ create' = [create EXCEPT ![c] = "abandoned"]
    /\ UNCHANGED <<target, managerVars, dispatcherVars, delete, streamVars, shutdown>>

\* The handler blocks on ready until the stream is connected or has failed.
AwaitReady(c) ==
    /\ create[c] = "waiting"
    /\ ready[c] # "empty"
    /\ create' = [create EXCEPT ![c] = IF ready[c] = "ok" THEN "ok" ELSE "streamFailed"]
    /\ ready' = [ready EXCEPT ![c] = "empty"]
    /\ UNCHANGED <<target, managerVars, dispatcherVars, delete, stream, serves, shutdown>>

\* Mutant: a creator that gives up takes its session away with it.
AbandonWaitAndUnregister(c) ==
    /\ create[c] = "waiting"
    /\ create' = [create EXCEPT ![c] = "deadline"]
    /\ Unregister(target[c])
    /\ UNCHANGED <<target, events, dispatcherVars, delete, streamVars, shutdown>>

AbandonWait(c) ==
    /\ create[c] = "waiting"
    /\ create' = [create EXCEPT ![c] = "deadline"]
    /\ UNCHANGED <<target, managerVars, dispatcherVars, delete, streamVars, shutdown>>

-----------------------------------------------------------------------------
(* A DeleteSession call.  It never looks whether the session exists.       *)

BeginDelete(d) ==
    /\ delete[d] = "idle"
    /\ Unregister(target[d])
    /\ delete' = [delete EXCEPT ![d] = "sending"]
    /\ UNCHANGED <<target, events, dispatcherVars, create, streamVars, shutdown>>

SendDeleted(d) ==
    /\ delete[d] = "sending"
    /\ Send(Deleted(target[d]))
    /\ delete' = [delete EXCEPT ![d] = "done"]
    /\ UNCHANGED <<target, sessions, dispatcherVars, create, streamVars, shutdown>>

AbandonDelete(d) ==
    /\ delete[d] = "sending"
    /\ delete' = [delete EXCEPT ![d] = "abandoned"]
    /\ UNCHANGED <<target, managerVars, dispatcherVars, create, streamVars, shutdown>>

-----------------------------------------------------------------------------
(* The dispatcher.  Only it touches cancels.                               *)

Receive ==
    /\ dispatching /\ handling = <<>>
    /\ events # <<>>
    /\ handling' = <<Head(events)>>
    /\ events' = Tail(events)
    /\ UNCHANGED <<target, sessions, dispatching, cancels, cancelled, callVars,
                   streamVars, shutdown>>

\* Mutant: the cancel function of an earlier stream is not replaced.
StartStreamKeepingCancel(c) ==
    /\ handling = <<Created(c)>>
    /\ target[c] \in Live
    /\ handling' = <<>>
    /\ cancels' = [cancels EXCEPT ![target[c]] = IF @ = None THEN c ELSE @]
    /\ stream' = [stream EXCEPT ![c] = "connecting"]
    /\ serves' = [serves EXCEPT ![c] = sessions[target[c]]]
    /\ UNCHANGED <<target, managerVars, dispatching, cancelled, callVars, ready, shutdown>>

\* The Created event of call c: the stream plays whatever queue is registered
\* under the id now.
StartStream(c) ==
    /\ handling = <<Created(c)>>
    /\ target[c] \in Live
    /\ handling' = <<>>
    /\ cancels' = [cancels EXCEPT ![target[c]] = c]
    /\ stream' = [stream EXCEPT ![c] = "connecting"]
    /\ serves' = [serves EXCEPT ![c] = sessions[target[c]]]
    /\ UNCHANGED <<target, managerVars, dispatching, cancelled, callVars, ready, shutdown>>

\* GetQueue finds no session under the id: the loop returns.
LoseSession(c) ==
    /\ handling = <<Created(c)>>
    /\ target[c] \notin Live
    /\ handling' = <<>>
    /\ dispatching' = FALSE
    /\ UNCHANGED <<target, managerVars, cancels, cancelled, callVars, streamVars, shutdown>>

CancelStream(i) ==
    /\ handling = <<Deleted(i)>>
    /\ handling' = <<>>
    /\ cancelled' = cancelled \cup ({cancels[i]} \ {None})
    /\ cancels' = [cancels EXCEPT ![i] = None]
    /\ UNCHANGED <<target, managerVars, dispatching, callVars, streamVars, shutdown>>

DispatcherStops ==
    /\ dispatching /\ handling = <<>>
    /\ shutdown
    /\ dispatching' = FALSE
    /\ UNCHANGED <<target, managerVars, handling, cancels, cancelled, callVars,
                   streamVars, shutdown>>

-----------------------------------------------------------------------------
(* The stream started by the Created event of call c.  Its playback is     *)
(* modelled in Playback; here it streams until it ends.                    *)

Connected(c) ==
    /\ stream[c] = "connecting"
    /\ ready' = [ready EXCEPT ![c] = "ok"]
    /\ stream' = [stream EXCEPT ![c] = "streaming"]
    /\ UNCHANGED <<target, managerVars, dispatcherVars, callVars, serves, shutdown>>

\* Mutant: the stream gives up without a word on ready.
ConnectFailsSilently(c) ==
    /\ stream[c] = "connecting"
    /\ stream' = [stream EXCEPT ![c] = "ending"]
    /\ UNCHANGED <<target, managerVars, dispatcherVars, callVars, serves, ready, shutdown>>

\* Every attempt was refused, or the context was cancelled meanwhile.
ConnectFails(c) ==
    /\ stream[c] = "connecting"
    /\ ready' = [ready EXCEPT ![c] = "error"]
    /\ stream' = [stream EXCEPT ![c] = "ending"]
    /\ UNCHANGED <<target, managerVars, dispatcherVars, callVars, serves, shutdown>>

\* Nobody plays into the stream for an hour, or the encoder or a track fails.
StreamEnds(c) ==
    /\ stream[c] = "streaming"
    /\ stream' = [stream EXCEPT ![c] = "ending"]
    /\ UNCHANGED <<target, managerVars, dispatcherVars, callVars, serves, ready, shutdown>>

StreamCancelled(c) ==
    /\ stream[c] = "streaming"
    /\ ContextDone(c)
    /\ stream' = [stream EXCEPT ![c] = "ending"]
    /\ UNCHANGED <<target, managerVars, dispatcherVars, callVars, serves, ready, shutdown>>

\* The deferred endSession: DeleteSession with a context of its own.
EndSession(c) ==
    /\ stream[c] = "ending"
    /\ Unregister(target[c])
    /\ stream' = [stream EXCEPT ![c] = "notifying"]
    /\ UNCHANGED <<target, events, dispatcherVars, callVars, serves, ready, shutdown>>

NotifyDeleted(c) ==
    /\ stream[c] = "notifying"
    /\ Send(Deleted(target[c]))
    /\ stream' = [stream EXCEPT ![c] = "done"]
    /\ UNCHANGED <<target, sessions, dispatcherVars, callVars, serves, ready, shutdown>>

\* Mutant: endSession waits without a timeout.
NotifyNeverTimesOut(c) == FALSE

\* sessionDeleteTimeout elapses first: the event is never sent.
NotifyTimesOut(c) ==
    /\ stream[c] = "notifying"
    /\ stream' = [stream EXCEPT ![c] = "done"]
    /\ UNCHANGED <<target, managerVars, dispatcherVars, callVars, serves, ready, shutdown>>

-----------------------------------------------------------------------------
Shutdown ==
    /\ ~shutdown
    /\ shutdown' = TRUE
    /\ UNCHANGED <<target, managerVars, dispatcherVars, callVars, streamVars>>

CreateCall(c) ==
    \/ CreateRejected(c) \/ CreateInserted(c)
    \/ SendCreated(c) \/ AbandonSend(c)
    \/ AwaitReady(c) \/ AbandonWait(c)

DeleteCall(d) == BeginDelete(d) \/ SendDeleted(d) \/ AbandonDelete(d)

Dispatch ==
    \/ Receive \/ DispatcherStops
    \/ \E c \in Creates : StartStream(c) \/ LoseSession(c)
    \/ \E i \in Ids : CancelStream(i)

Stream(c) ==
    \/ Connected(c) \/ ConnectFails(c)
    \/ StreamEnds(c) \/ StreamCancelled(c)
    \/ EndSession(c) \/ NotifyDeleted(c) \/ NotifyTimesOut(c)

Next ==
    \/ \E c \in Creates : CreateCall(c) \/ Stream(c)
    \/ \E d \in Deletes : DeleteCall(d)
    \/ Dispatch
    \/ Shutdown

Spec == Init /\ [][Next]_vars

(* Fairness: the Go scheduler runs every goroutine that can move.  Retries  *)
(* of the connection are bounded, playback ends once its context is done,   *)
(* and endSession waits five seconds at most.  Nothing forces a client to   *)
(* call, to give up, or a stream to end on its own account.                 *)
StreamProgress(c) ==
    \/ Connected(c) \/ ConnectFails(c) \/ StreamCancelled(c)
    \/ EndSession(c) \/ NotifyDeleted(c) \/ NotifyTimesOut(c)

Fairness ==
    /\ WF_vars(Dispatch)
    /\ \A c \in Creates : WF_vars(StreamProgress(c)) /\ WF_vars(AwaitReady(c))

FairSpec == Spec /\ Fairness

-----------------------------------------------------------------------------
(* Properties.                                                             *)

Pending(e) == e \in {events[n] : n \in 1..Len(events)} \cup {handling[n] : n \in 1..Len(handling)}

(* A queue whose stream has ended is no longer registered: the id and the  *)
(* slot under the cap are free, whatever calls and other streams of the    *)
(* same id did meanwhile (the deferred endSession of streamSession).       *)
NoSessionOutlivesItsStream ==
    \A c \in Creates :
        stream[c] \in {"notifying", "done"} => sessions[target[c]] # serves[c]

(* A registered session is always on its way to a stream or has one: its   *)
(* Created event is about to be sent or handled, or its own stream plays   *)
(* it.  The exceptions are the two ways the code loses one: the creator    *)
(* gave up before sending the event, or the dispatcher has returned.       *)
EverySessionHasAStream ==
    \A i \in Live :
        LET c == sessions[i] IN
        \/ create[c] \in {"sending", "abandoned"}
        \/ Pending(Created(c))
        \/ stream[c] \in Active /\ serves[c] = c
        \/ ~dispatching

(* The ready channel has room for one value and streamSession sends one: a *)
(* stream about to send finds it empty, and its creator is still waiting   *)
(* or has given up; a call is answered with the outcome of its own stream. *)
ReadyIsSentOnce ==
    \A c \in Creates :
        /\ stream[c] \in {"none", "connecting"} => ready[c] = "empty"
        /\ stream[c] = "connecting" => create[c] \in {"waiting", "deadline"}
        /\ create[c] \in {"ok", "streamFailed"} => stream[c] \notin {"none", "connecting"}

(* The cancel function kept for an id belongs to a stream of that id that  *)
(* has not been cancelled yet, so a Deleted event never wastes itself on a *)
(* stream cancelled before (StreamSessions removes it as it cancels).      *)
CancelsAreLive ==
    \A i \in Ids :
        cancels[i] # None =>
            /\ target[cancels[i]] = i
            /\ stream[cancels[i]] # "none"
            /\ cancels[i] \notin cancelled

\* No DeleteSession call has named the id so far.
Undisturbed(i) == \A d \in Deletes : target[d] = i => delete[d] = "idle"

(* Without an explicit delete of its id, a stream is the only one of its   *)
(* session and plays the queue its own call registered, and the session    *)
(* stays registered until the stream ends it; a delete that comes later    *)
(* finds the stream's cancel function, unless it is cancelled already.     *)
UndisturbedStreamOwnsItsSession ==
    \A c \in Creates :
        stream[c] \in Active /\ Undisturbed(target[c]) =>
            /\ serves[c] = c
            /\ sessions[target[c]] = c
            /\ c \in cancelled \/ cancels[target[c]] = c

(* The dispatcher loop returns for good only at shutdown or after some     *)
(* explicit delete: a stream that ends by itself, and the session created  *)
(* again under its id, never make it miss the session of a Created event.  *)
OnlyDeletesStopTheDispatcher ==
    ~dispatching => shutdown \/ \E d \in Deletes : delete[d] # "idle"

(* A CreateSession call whose event was sent is answered, as long as the   *)
(* dispatcher runs: "block on ready" does not block forever.               *)
WaitingCallIsAnswered ==
    \A c \in Creates :
        create[c] = "waiting" ~> (create[c] # "waiting" \/ ~dispatching)

(* Once its context is done, by a delete or at shutdown, a stream ends and *)
(* unregisters its session, even when nobody takes its Deleted event.      *)
CancelledStreamEnds ==
    \A c \in Creates :
        (stream[c] \in Active /\ ContextDone(c)) ~> stream[c] = "done"

(* The integration test says of its server that the StreamSessions loop    *)
(* "runs, so sessions immediately start consuming their queue"; the code   *)
(* returns from the loop when a session is deleted before its Created      *)
(* event is handled.                                                       *)
DispatcherKeepsRunning == dispatching \/ shutdown
=============================================================================
