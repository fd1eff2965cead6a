----------------------- MODULE SessionLifecycleProofs -----------------------
(***************************************************************************)
(* Proofs about SessionLifecycle, for any sets of ids and calls, any cap   *)
(* and any size of the event buffer.                                       *)
(***************************************************************************)
EXTENDS SessionLifecycle, TLAPS

-----------------------------------------------------------------------------
(* Types.                                                                  *)

LEMMA CreatedIsEvent ==
    ASSUME TypeOK, NEW c \in Creates
    PROVE  Created(c) \in Event
BY DEF TypeOK, Created, Event, Calls

LEMMA DeletedIsEvent ==
    ASSUME NEW i \in Ids
    PROVE  Deleted(i) \in Event
BY DEF Deleted, Event

LEMMA SendKeepsType ==
    ASSUME TypeOK, NEW e \in Event, Send(e)
    PROVE  events' \in Seq(Event) /\ Len(events') <= EventBuffer
BY LifecycleAssumption DEF TypeOK, Send

LEMMA ReceiveKeepsType ==
    ASSUME TypeOK, Receive
    PROVE  /\ events' \in Seq(Event) /\ Len(events') <= EventBuffer
           /\ handling' \in Seq(Event) /\ Len(handling') <= 1
<1>1. Head(events) \in Event /\ Tail(events) \in Seq(Event)
  BY DEF TypeOK, Receive
<1>2. Len(Tail(events)) <= EventBuffer
  BY LifecycleAssumption DEF TypeOK, Receive
<1> QED BY <1>1, <1>2 DEF Receive

(* The initial states are well typed. *)
LEMMA InitTyped == Init => TypeOK
<1> SUFFICES ASSUME Init PROVE TypeOK
  OBVIOUS
<1>1. events \in Seq(Event) /\ Len(events) <= EventBuffer
  BY LifecycleAssumption DEF Init
<1>2. handling \in Seq(Event) /\ Len(handling) <= 1
  BY DEF Init
<1> QED BY <1>1, <1>2 DEF Init, TypeOK, Active

(* Every step keeps the types. *)
LEMMA NextTyped == TypeOK /\ [Next]_vars => TypeOK'
<1> SUFFICES ASSUME TypeOK, [Next]_vars PROVE TypeOK'
  OBVIOUS
<1> USE LifecycleAssumption DEF managerVars, dispatcherVars, callVars, streamVars
<1>1. ASSUME NEW c \in Creates, CreateRejected(c) PROVE TypeOK'
  BY <1>1 DEF TypeOK, CreateRejected
<1>2. ASSUME NEW c \in Creates, CreateInserted(c) PROVE TypeOK'
  BY <1>2 DEF TypeOK, CreateInserted, Calls
<1>3. ASSUME NEW c \in Creates, SendCreated(c) PROVE TypeOK'
  BY <1>3, CreatedIsEvent, SendKeepsType DEF TypeOK, SendCreated
<1>4. ASSUME NEW c \in Creates, AbandonSend(c) PROVE TypeOK'
  BY <1>4 DEF TypeOK, AbandonSend
<1>5. ASSUME NEW c \in Creates, AwaitReady(c) PROVE TypeOK'
  BY <1>5 DEF TypeOK, AwaitReady
<1>6. ASSUME NEW c \in Creates, AbandonWait(c) PROVE TypeOK'
  BY <1>6 DEF TypeOK, AbandonWait
<1>7. ASSUME NEW d \in Deletes, BeginDelete(d) PROVE TypeOK'
  BY <1>7 DEF TypeOK, BeginDelete, Unregister
<1>8. ASSUME NEW d \in Deletes, SendDeleted(d) PROVE TypeOK'
  <2>1. Deleted(target[d]) \in Event
    BY DeletedIsEvent DEF TypeOK, Calls
  <2> QED BY <1>8, <2>1, SendKeepsType DEF TypeOK, SendDeleted
<1>9. ASSUME NEW d \in Deletes, AbandonDelete(d) PROVE TypeOK'
  BY <1>9 DEF TypeOK, AbandonDelete
<1>10. CASE Receive
  BY <1>10, ReceiveKeepsType DEF TypeOK, Receive
<1>11. ASSUME NEW c \in Creates, StartStream(c) PROVE TypeOK'
  <2>1. target[c] \in Ids /\ sessions[target[c]] \in Creates
    BY <1>11 DEF TypeOK, StartStream, Live, Calls
  <2>2. stream' \in [Creates -> Active \cup {"none", "notifying", "done"}]
    BY <1>11 DEF TypeOK, StartStream, Active
  <2>3. handling' \in Seq(Event) /\ Len(handling') <= 1
    BY <1>11 DEF StartStream
  <2> QED BY <1>11, <2>1, <2>2, <2>3 DEF TypeOK, StartStream
<1>12. ASSUME NEW c \in Creates, LoseSession(c) PROVE TypeOK'
  <2>1. handling' \in Seq(Event) /\ Len(handling') <= 1
    BY <1>12 DEF LoseSession
  <2> QED BY <1>12, <2>1 DEF TypeOK, LoseSession
<1>13. ASSUME NEW i \in Ids, CancelStream(i) PROVE TypeOK'
  <2>1. handling' \in Seq(Event) /\ Len(handling') <= 1
    BY <1>13 DEF CancelStream
  <2> QED BY <1>13, <2>1 DEF TypeOK, CancelStream
<1>14. CASE DispatcherStops
  BY <1>14 DEF TypeOK, DispatcherStops
<1>15. ASSUME NEW c \in Creates, Connected(c) PROVE TypeOK'
  BY <1>15 DEF TypeOK, Connected, Active
<1>16. ASSUME NEW c \in Creates, ConnectFails(c) PROVE TypeOK'
  BY <1>16 DEF TypeOK, ConnectFails, Active
<1>17. ASSUME NEW c \in Creates, StreamEnds(c) PROVE TypeOK'
  BY <1>17 DEF TypeOK, StreamEnds, Active
<1>18. ASSUME NEW c \in Creates, StreamCancelled(c) PROVE TypeOK'
  BY <1>18 DEF TypeOK, StreamCancelled, Active
<1>19. ASSUME NEW c \in Creates, EndSession(c) PROVE TypeOK'
  BY <1>19 DEF TypeOK, EndSession, Unregister, Active
<1>20. ASSUME NEW c \in Creates, NotifyDeleted(c) PROVE TypeOK'
  <2>1. Deleted(target[c]) \in Event
    BY DeletedIsEvent DEF TypeOK, Calls
  <2> QED BY <1>20, <2>1, SendKeepsType DEF TypeOK, NotifyDeleted, Active
<1>21. ASSUME NEW c \in Creates, NotifyTimesOut(c) PROVE TypeOK'
  BY <1>21 DEF TypeOK, NotifyTimesOut, Active
<1>22. CASE Shutdown
  BY <1>22 DEF TypeOK, Shutdown
<1>23. CASE UNCHANGED vars
  BY <1>23 DEF TypeOK, vars
<1> QED
  BY <1>1, <1>2, <1>3, <1>4, <1>5, <1>6, <1>7, <1>8, <1>9, <1>10, <1>11, <1>12,
     <1>13, <1>14, <1>15, <1>16, <1>17, <1>18, <1>19, <1>20, <1>21, <1>22, <1>23
     DEF Next, CreateCall, DeleteCall, Dispatch, Stream

(* The types of the manager's, the dispatcher's and the streams' state are *)
(* right in every state: the channel never exceeds its buffer.             *)
THEOREM TypeCorrect == Spec => []TypeOK
<1> QED BY InitTyped, NextTyped, PTL DEF Spec

-----------------------------------------------------------------------------
(* The Created events between their sender and the dispatcher's handler.   *)

Awaited == {c \in Creates : Pending(Created(c))}

\* No Created event is there twice.
CreatedOnce ==
    /\ \A m, n \in 1..Len(events) :
            events[m] = events[n] /\ events[m].type = "created" => m = n
    /\ \A n \in 1..Len(events) :
            Len(handling) = 1 /\ handling[1].type = "created" => handling[1] # events[n]

LEMMA SendCreatedAwaits ==
    ASSUME TypeOK, NEW c \in Creates, SendCreated(c)
    PROVE  Awaited' = Awaited \cup {c}
<1> DEFINE e == Created(c)
<1>1. e \in Event
  BY CreatedIsEvent
<1>2. events' = Append(events, e) /\ handling' = handling /\ target' = target
  BY DEF SendCreated, Send, dispatcherVars
<1>3. ASSUME NEW b \in Creates
      PROVE  Pending(Created(b))' <=> Pending(Created(b)) \/ b = c
  <2>1. Created(b)' = Created(b)
    BY <1>2 DEF Created
  <2>2. Created(b) = e <=> b = c
    BY DEF Created
  <2>3. /\ Len(events') = Len(events) + 1
        /\ \A n \in 1..Len(events) : events'[n] = events[n]
        /\ events'[Len(events) + 1] = e
    BY <1>1, <1>2 DEF TypeOK
  <2>4. Len(events) \in Nat
    BY DEF TypeOK
  <2> HIDE DEF e
  <2> QED BY <1>2, <2>1, <2>2, <2>3, <2>4 DEF Pending
<1> QED BY <1>3 DEF Awaited

LEMMA SendDeletedKeepsAwaited ==
    ASSUME TypeOK, NEW i \in Ids, Send(Deleted(i)), UNCHANGED <<target, handling>>
    PROVE  Awaited' = Awaited
<1> DEFINE e == Deleted(i)
<1>1. e \in Event
  BY DeletedIsEvent
<1>2. ASSUME NEW b \in Creates
      PROVE  Pending(Created(b))' <=> Pending(Created(b))
  <2>1. Created(b)' = Created(b)
    BY DEF Created
  <2>2. Created(b) # e
    BY DEF Created, Deleted
  <2>3. /\ Len(events') = Len(events) + 1
        /\ \A n \in 1..Len(events) : events'[n] = events[n]
        /\ events'[Len(events) + 1] = e
    BY <1>1 DEF TypeOK, Send
  <2>4. Len(events) \in Nat
    BY DEF TypeOK
  <2> HIDE DEF e
  <2> QED BY <2>1, <2>2, <2>3, <2>4 DEF Pending
<1> QED BY <1>2 DEF Awaited

LEMMA ReceiveKeepsAwaited ==
    ASSUME TypeOK, Receive
    PROVE  Awaited' = Awaited
<1>1. /\ handling = <<>> /\ handling' = <<Head(events)>>
      /\ events # <<>> /\ events' = Tail(events) /\ target' = target
  BY DEF Receive
<1>2. /\ Len(events) \in Nat \ {0}
      /\ Len(events') = Len(events) - 1
      /\ \A n \in 1..Len(events') : events'[n] = events[n + 1]
      /\ Head(events) = events[1]
  BY <1>1 DEF TypeOK
<1>3. /\ Len(handling) = 0
      /\ Len(handling') = 1 /\ handling'[1] = events[1]
  BY <1>1, <1>2
<1>4. ASSUME NEW e
      PROVE  (\E n \in 1..Len(events) : e = events[n])
                <=> e = events[1] \/ \E n \in 1..Len(events') : e = events'[n]
  <2>1. ASSUME NEW n \in 1..Len(events), n # 1, e = events[n]
        PROVE  \E m \in 1..Len(events') : e = events'[m]
    <3>1. n - 1 \in 1..Len(events') /\ events'[n - 1] = events[n]
      BY <1>2, <2>1
    <3> QED BY <2>1, <3>1
  <2> QED BY <1>2, <2>1
<1>5. ASSUME NEW b \in Creates
      PROVE  Pending(Created(b))' <=> Pending(Created(b))
  <2>1. Created(b)' = Created(b)
    BY <1>1 DEF Created
  <2>2. Pending(Created(b)) <=> \E n \in 1..Len(events) : Created(b) = events[n]
    BY <1>3 DEF Pending
  <2>3. Pending(Created(b))' <=>
            Created(b) = events[1] \/ \E n \in 1..Len(events') : Created(b) = events'[n]
    BY <1>3, <2>1 DEF Pending
  <2> QED BY <1>4, <2>2, <2>3
<1> QED BY <1>5 DEF Awaited

\* The dispatcher has handled the Created event of call c.
LEMMA HandledIsNotAwaited ==
    ASSUME TypeOK, CreatedOnce, NEW c \in Creates, handling = <<Created(c)>>,
           handling' = <<>>, UNCHANGED <<target, events>>
    PROVE  c \in Awaited /\ Awaited' = Awaited \ {c}
<1>1. /\ Len(handling) = 1 /\ handling[1] = Created(c)
      /\ Len(handling') = 0
  OBVIOUS
<1>2. \A n \in 1..Len(events) : events[n] # Created(c)
  BY <1>1 DEF CreatedOnce, Created
<1>3. ASSUME NEW b \in Creates
      PROVE  Pending(Created(b))' <=> Pending(Created(b)) /\ b # c
  <2>1. Created(b)' = Created(b)
    BY DEF Created
  <2>2. Created(b) = Created(c) <=> b = c
    BY DEF Created
  <2> QED BY <1>1, <1>2, <2>1, <2>2 DEF Pending
<1>4. Pending(Created(c))
  BY <1>1 DEF Pending
<1> QED BY <1>3, <1>4 DEF Awaited

LEMMA CancelKeepsAwaited ==
    ASSUME TypeOK, NEW i \in Ids, CancelStream(i)
    PROVE  Awaited' = Awaited
<1>1. /\ Len(handling) = 1 /\ handling[1] = Deleted(i)
      /\ Len(handling') = 0
      /\ UNCHANGED <<target, events>>
  BY DEF CancelStream, managerVars
<1>2. ASSUME NEW b \in Creates
      PROVE  Pending(Created(b))' <=> Pending(Created(b))
  <2>1. Created(b)' = Created(b)
    BY <1>1 DEF Created
  <2>2. Created(b) # Deleted(i)
    BY DEF Created, Deleted
  <2> QED BY <1>1, <2>1, <2>2 DEF Pending
<1> QED BY <1>2 DEF Awaited

LEMMA QuietKeepsAwaited ==
    ASSUME UNCHANGED <<target, events, handling>>
    PROVE  Awaited' = Awaited
BY DEF Awaited, Pending, Created

-----------------------------------------------------------------------------
(* The inductive invariant, in parts.                                      *)

\* The map holds a call under the id it names, once the call has inserted it.
Registered ==
    \A i \in Ids : sessions[i] # None =>
        target[sessions[i]] = i /\ create[sessions[i]] # "idle"

\* A stream plays a queue that was inserted, and one that ended is unmapped.
StreamsServe ==
    \A c \in Creates : stream[c] # "none" =>
        /\ serves[c] \in Creates /\ create[serves[c]] # "idle"
        /\ stream[c] \in {"notifying", "done"} => sessions[target[c]] # serves[c]

\* A call, its event, its stream and its answer follow one another.
CallsInOrder ==
    \A c \in Creates :
        /\ c \in Awaited => create[c] \in {"waiting", "deadline"} /\ stream[c] = "none"
        /\ stream[c] # "none" => create[c] \in {"waiting", "deadline", "ok", "streamFailed"}
        /\ create[c] \in {"ok", "streamFailed"} => stream[c] \notin {"none", "connecting"}
        /\ stream[c] \in {"none", "connecting"} => ready[c] = "empty"

\* Cancel functions belong to streams that run, cancelled ones did run.
CancelsTyped ==
    /\ CancelsAreLive
    /\ \A c \in cancelled : stream[c] # "none"

\* EverySessionHasAStream over Awaited.
SessionsProvided ==
    \A i \in Ids : sessions[i] # None =>
        \/ create[sessions[i]] \in {"sending", "abandoned"}
        \/ sessions[i] \in Awaited
        \/ stream[sessions[i]] \in Active /\ serves[sessions[i]] = sessions[i]
        \/ ~dispatching

\* Up to its end, an undisturbed call is the one registered under its id.
UndisturbedCallIsRegistered ==
    \A c \in Creates :
        /\ Undisturbed(target[c])
        /\ create[c] = "sending" \/ c \in Awaited \/ stream[c] \in Active
        => sessions[target[c]] = c

Parts ==
    /\ Registered /\ StreamsServe /\ CallsInOrder /\ CancelsTyped
    /\ SessionsProvided /\ UndisturbedCallIsRegistered
    /\ UndisturbedStreamOwnsItsSession /\ OnlyDeletesStopTheDispatcher

LEMMA PartsStep ==
    ASSUME TypeOK, CreatedOnce, Parts, [Next]_vars
    PROVE  Parts'
<1> USE LifecycleAssumption DEF TypeOK, Calls, Active, Live,
        managerVars, dispatcherVars, callVars, streamVars
<1> USE DEF Parts, Registered, StreamsServe, CallsInOrder, CancelsTyped, CancelsAreLive,
        SessionsProvided, UndisturbedCallIsRegistered, Undisturbed,
        UndisturbedStreamOwnsItsSession, OnlyDeletesStopTheDispatcher
<1>1. ASSUME NEW c \in Creates, CreateRejected(c) PROVE Parts'
  <2>1. Awaited' = Awaited
    BY <1>1, QuietKeepsAwaited DEF CreateRejected
  <2>2. /\ create[c] = "idle" /\ create'[c] \in {"exists", "tooMany"}
        /\ \A b \in Creates : b # c => create'[b] = create[b]
    BY <1>1 DEF CreateRejected
  <2>3. UNCHANGED <<target, managerVars, dispatcherVars, delete, streamVars, shutdown>>
    BY <1>1 DEF CreateRejected
  <2> QED BY <2>1, <2>2, <2>3
<1>2. ASSUME NEW c \in Creates, CreateInserted(c) PROVE Parts'
  <2>1. Awaited' = Awaited
    BY <1>2, QuietKeepsAwaited DEF CreateInserted
  <2> QED BY <1>2, <2>1 DEF CreateInserted
<1>3. ASSUME NEW c \in Creates, SendCreated(c) PROVE Parts'
  <2>1. Awaited' = Awaited \cup {c}
    BY <1>3, SendCreatedAwaits
  <2> QED BY <1>3, <2>1 DEF SendCreated
<1>4. ASSUME NEW c \in Creates, AbandonSend(c) PROVE Parts'
  <2>1. Awaited' = Awaited
    BY <1>4, QuietKeepsAwaited DEF AbandonSend
  <2> QED BY <1>4, <2>1 DEF AbandonSend
<1>5. ASSUME NEW c \in Creates, AwaitReady(c) PROVE Parts'
  <2>1. Awaited' = Awaited
    BY <1>5, QuietKeepsAwaited DEF AwaitReady
  <2> QED BY <1>5, <2>1 DEF AwaitReady
<1>6. ASSUME NEW c \in Creates, AbandonWait(c) PROVE Parts'
  <2>1. Awaited' = Awaited
    BY <1>6, QuietKeepsAwaited DEF AbandonWait
  <2> QED BY <1>6, <2>1 DEF AbandonWait
<1>7. ASSUME NEW d \in Deletes, BeginDelete(d) PROVE Parts'
  <2>1. Awaited' = Awaited
    BY <1>7, QuietKeepsAwaited DEF BeginDelete
  <2> QED BY <1>7, <2>1 DEF BeginDelete, Unregister
<1>8. ASSUME NEW d \in Deletes, SendDeleted(d) PROVE Parts'
  <2>1. Awaited' = Awaited
    BY <1>8, SendDeletedKeepsAwaited DEF SendDeleted
  <2> QED BY <1>8, <2>1 DEF SendDeleted
<1>9. ASSUME NEW d \in Deletes, AbandonDelete(d) PROVE Parts'
  <2>1. Awaited' = Awaited
    BY <1>9, QuietKeepsAwaited DEF AbandonDelete
  <2> QED BY <1>9, <2>1 DEF AbandonDelete
<1>10. CASE Receive
  <2>1. Awaited' = Awaited
    BY <1>10, ReceiveKeepsAwaited
  <2> QED BY <1>10, <2>1 DEF Receive
<1>11. ASSUME NEW c \in Creates, StartStream(c) PROVE Parts'
  <2>1. c \in Awaited /\ Awaited' = Awaited \ {c}
    BY <1>11, HandledIsNotAwaited DEF StartStream
  <2> QED BY <1>11, <2>1 DEF StartStream
<1>12. ASSUME NEW c \in Creates, LoseSession(c) PROVE Parts'
  <2>1. c \in Awaited /\ Awaited' = Awaited \ {c}
    BY <1>12, HandledIsNotAwaited DEF LoseSession
  <2> QED BY <1>12, <2>1 DEF LoseSession
<1>13. ASSUME NEW i \in Ids, CancelStream(i) PROVE Parts'
  <2>1. Awaited' = Awaited
    BY <1>13, CancelKeepsAwaited
  <2> QED BY <1>13, <2>1 DEF CancelStream
<1>14. CASE DispatcherStops
  <2>1. Awaited' = Awaited
    BY <1>14, QuietKeepsAwaited DEF DispatcherStops
  <2> QED BY <1>14, <2>1 DEF DispatcherStops
<1>15. ASSUME NEW c \in Creates, Connected(c) PROVE Parts'
  <2>1. Awaited' = Awaited
    BY <1>15, QuietKeepsAwaited DEF Connected
  <2> QED BY <1>15, <2>1 DEF Connected
<1>16. ASSUME NEW c \in Creates, ConnectFails(c) PROVE Parts'
  <2>1. Awaited' = Awaited
    BY <1>16, QuietKeepsAwaited DEF ConnectFails
  <2> QED BY <1>16, <2>1 DEF ConnectFails
<1>17. ASSUME NEW c \in Creates, StreamEnds(c) PROVE Parts'
  <2>1. Awaited' = Awaited
    BY <1>17, QuietKeepsAwaited DEF StreamEnds
  <2> QED BY <1>17, <2>1 DEF StreamEnds
<1>18. ASSUME NEW c \in Creates, StreamCancelled(c) PROVE Parts'
  <2>1. Awaited' = Awaited
    BY <1>18, QuietKeepsAwaited DEF StreamCancelled
  <2> QED BY <1>18, <2>1 DEF StreamCancelled
<1>19. ASSUME NEW c \in Creates, EndSession(c) PROVE Parts'
  <2>1. Awaited' = Awaited
    BY <1>19, QuietKeepsAwaited DEF EndSession
  <2> QED BY <1>19, <2>1 DEF EndSession, Unregister
<1>20. ASSUME NEW c \in Creates, NotifyDeleted(c) PROVE Parts'
  <2>1. Awaited' = Awaited
    BY <1>20, SendDeletedKeepsAwaited DEF NotifyDeleted
  <2> QED BY <1>20, <2>1 DEF NotifyDeleted
<1>21. ASSUME NEW c \in Creates, NotifyTimesOut(c) PROVE Parts'
  <2>1. Awaited' = Awaited
    BY <1>21, QuietKeepsAwaited DEF NotifyTimesOut
  <2> QED BY <1>21, <2>1 DEF NotifyTimesOut
<1>22. CASE Shutdown
  <2>1. Awaited' = Awaited
    BY <1>22, QuietKeepsAwaited DEF Shutdown
  <2> QED BY <1>22, <2>1 DEF Shutdown
<1>23. CASE UNCHANGED vars
  <2>1. Awaited' = Awaited
    BY <1>23, QuietKeepsAwaited DEF vars
  <2> QED BY <1>23, <2>1 DEF vars
<1> QED
  BY <1>1, <1>2, <1>3, <1>4, <1>5, <1>6, <1>7, <1>8, <1>9, <1>10, <1>11, <1>12, <1>13, <1>14, <1>15, <1>16, <1>17, <1>18, <1>19, <1>20, <1>21, <1>22, <1>23
     DEF Next, CreateCall, DeleteCall, Dispatch, Stream

\* A send that adds no second copy of a Created event.
LEMMA SendKeepsCreatedOnce ==
    ASSUME TypeOK, CreatedOnce, NEW e \in Event, Send(e), UNCHANGED handling,
           e.type = "created" => ~Pending(e)
    PROVE  CreatedOnce'
<1>1. /\ Len(events) \in Nat /\ Len(events') = Len(events) + 1
      /\ \A n \in 1..Len(events) : events'[n] = events[n]
      /\ events'[Len(events) + 1] = e
  BY DEF TypeOK, Send
<1>2. e.type = "created" =>
          /\ \A n \in 1..Len(events) : events[n] # e
          /\ Len(handling) = 1 => handling[1] # e
  BY DEF Pending
<1> QED BY <1>1, <1>2 DEF CreatedOnce

LEMMA ReceiveKeepsCreatedOnce ==
    ASSUME TypeOK, CreatedOnce, Receive
    PROVE  CreatedOnce'
<1>1. /\ Len(events) \in Nat \ {0}
      /\ Len(events') = Len(events) - 1
      /\ \A n \in 1..Len(events') : events'[n] = events[n + 1]
      /\ Len(handling') = 1 /\ handling'[1] = events[1]
  BY DEF TypeOK, Receive
<1>2. \A n \in 1..Len(events') : n + 1 \in 1..Len(events)
  BY <1>1
<1> QED BY <1>1, <1>2 DEF CreatedOnce

LEMMA CreatedOnceStep ==
    ASSUME TypeOK, CreatedOnce, Parts, [Next]_vars
    PROVE  CreatedOnce'
<1> USE DEF managerVars, dispatcherVars
<1>1. CASE UNCHANGED <<events, handling>>
  BY <1>1 DEF CreatedOnce
<1>2. ASSUME NEW c \in Creates, SendCreated(c) PROVE CreatedOnce'
  <2>1. c \notin Awaited
    BY <1>2 DEF SendCreated, Parts, CallsInOrder
  <2>2. ~Pending(Created(c))
    BY <2>1 DEF Awaited
  <2> QED BY <1>2, <2>2, CreatedIsEvent, SendKeepsCreatedOnce DEF SendCreated
<1>3. ASSUME NEW d \in Deletes, SendDeleted(d) PROVE CreatedOnce'
  <2>1. Deleted(target[d]) \in Event /\ Deleted(target[d]).type # "created"
    BY DeletedIsEvent DEF TypeOK, Calls, Deleted
  <2> QED BY <1>3, <2>1, SendKeepsCreatedOnce DEF SendDeleted
<1>4. ASSUME NEW c \in Creates, NotifyDeleted(c) PROVE CreatedOnce'
  <2>1. Deleted(target[c]) \in Event /\ Deleted(target[c]).type # "created"
    BY DeletedIsEvent DEF TypeOK, Calls, Deleted
  <2> QED BY <1>4, <2>1, SendKeepsCreatedOnce DEF NotifyDeleted
<1>5. CASE Receive
  BY <1>5, ReceiveKeepsCreatedOnce
<1>6. CASE handling' = <<>> /\ UNCHANGED events
  BY <1>6 DEF CreatedOnce
<1>7. ASSUME NEW c \in Creates, StartStream(c) \/ LoseSession(c) PROVE CreatedOnce'
  BY <1>6, <1>7 DEF StartStream, LoseSession
<1>8. ASSUME NEW i \in Ids, CancelStream(i) PROVE CreatedOnce'
  BY <1>6, <1>8 DEF CancelStream
<1>9. CASE UNCHANGED vars
  BY <1>1, <1>9 DEF vars
<1>10. ASSUME NEW c \in Creates, CreateCall(c), ~SendCreated(c) PROVE CreatedOnce'
  BY <1>1, <1>10 DEF CreateCall, CreateRejected, CreateInserted, AbandonSend,
                     AwaitReady, AbandonWait
<1>11. ASSUME NEW d \in Deletes, DeleteCall(d), ~SendDeleted(d) PROVE CreatedOnce'
  BY <1>1, <1>11 DEF DeleteCall, BeginDelete, AbandonDelete
<1>12. ASSUME NEW c \in Creates, Stream(c), ~NotifyDeleted(c) PROVE CreatedOnce'
  BY <1>1, <1>12 DEF Stream, Connected, ConnectFails, StreamEnds, StreamCancelled,
                     EndSession, NotifyTimesOut
<1>13. CASE DispatcherStops \/ Shutdown
  BY <1>1, <1>13 DEF DispatcherStops, Shutdown
<1> QED
  BY <1>2, <1>3, <1>4, <1>5, <1>7, <1>8, <1>9, <1>10, <1>11, <1>12, <1>13
     DEF Next, Dispatch

-----------------------------------------------------------------------------
(* The invariant holds in every state, and with it the properties.         *)

IInv == TypeOK /\ CreatedOnce /\ Parts

LEMMA InitIInv == Init => IInv
<1> SUFFICES ASSUME Init PROVE IInv
  OBVIOUS
<1>1. TypeOK
  BY InitTyped
<1>2. Len(events) = 0 /\ Len(handling) = 0
  BY DEF Init
<1>3. CreatedOnce
  BY <1>2 DEF CreatedOnce
<1>4. Awaited = {}
  BY <1>2 DEF Awaited, Pending
<1>5. Parts
  BY <1>4, LifecycleAssumption
     DEF Init, Parts, Registered, StreamsServe, CallsInOrder, CancelsTyped,
         CancelsAreLive, SessionsProvided, UndisturbedCallIsRegistered,
         UndisturbedStreamOwnsItsSession, OnlyDeletesStopTheDispatcher, Active
<1> QED BY <1>1, <1>3, <1>5 DEF IInv

LEMMA NextIInv == IInv /\ [Next]_vars => IInv'
BY NextTyped, CreatedOnceStep, PartsStep DEF IInv

LEMMA Invariance == Spec => []IInv
<1> QED BY InitIInv, NextIInv, PTL DEF Spec

(* A queue whose stream has ended is not registered, for any number of     *)
(* calls, deletes and ids: from Registered, a queue is inserted once, by   *)
(* the call it is named for, so nothing brings it back.                    *)
THEOREM SessionEndsWithItsStream == Spec => []NoSessionOutlivesItsStream
<1>1. IInv => NoSessionOutlivesItsStream
  BY DEF IInv, Parts, StreamsServe, NoSessionOutlivesItsStream
<1> QED BY <1>1, Invariance, PTL

(* Every registered session has its Created event on the way or its stream *)
(* running, except for abandoned calls and after the dispatcher returned.  *)
THEOREM SessionsGetStreams == Spec => []EverySessionHasAStream
<1>1. IInv => EverySessionHasAStream
  BY LifecycleAssumption
     DEF IInv, TypeOK, Parts, SessionsProvided, EverySessionHasAStream, Live, Awaited
<1> QED BY <1>1, Invariance, PTL

(* The ready channel of a call never holds two values, and its answer is   *)
(* that of its own stream.                                                 *)
THEOREM ReadyOnce == Spec => []ReadyIsSentOnce
<1>1. IInv => ReadyIsSentOnce
  BY DEF IInv, TypeOK, Parts, CallsInOrder, ReadyIsSentOnce
<1> QED BY <1>1, Invariance, PTL

(* The cancel function kept for an id is that of a stream of this id which *)
(* is not cancelled.                                                       *)
THEOREM CancelsStayLive == Spec => []CancelsAreLive
<1>1. IInv => CancelsAreLive
  BY DEF IInv, Parts, CancelsTyped
<1> QED BY <1>1, Invariance, PTL

(* Without an explicit delete of its id a stream owns its session, however *)
(* often the id is created again while older streams of it end.            *)
THEOREM UndisturbedOwnership == Spec => []UndisturbedStreamOwnsItsSession
<1>1. IInv => UndisturbedStreamOwnsItsSession
  BY DEF IInv, Parts
<1> QED BY <1>1, Invariance, PTL

(* Only an explicit delete, or the shutdown, makes the dispatcher return.  *)
THEOREM DispatcherOutlivesStreams == Spec => []OnlyDeletesStopTheDispatcher
<1>1. IInv => OnlyDeletesStopTheDispatcher
  BY DEF IInv, Parts
<1> QED BY <1>1, Invariance, PTL
=============================================================================
