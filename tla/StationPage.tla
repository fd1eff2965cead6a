---------------------------- MODULE StationPage ----------------------------
(***************************************************************************)
(* The page of one station, open in one browser, over the calls of         *)
(* StationQueue.  Each handler of the page is a thread of awaits: it sends *)
(* a call, the server serves it, the answer comes back or the connection   *)
(* fails, and the handler goes on.  Calls overtake each other at will.     *)
(* Other clients call as well (OtherClients).                              *)
(*                                                                         *)
(* A handler is busy from its click to its end, and its button disabled.   *)
(* Polls, and the refresh after a search result was added, are "silent"    *)
(* calls that no button waits for; at most SilentCalls of them are modelled*)
(* at once, and at most Clicks handlers that a button started.  The form   *)
(* that adds a track and the search panel are one button here: they differ *)
(* in how they go on when the track is added.  The messages of the page    *)
(* (generalError, addError and what addTrackErrorMessage makes of a code)  *)
(* are left out: nothing reads them.                                       *)
(***************************************************************************)
EXTENDS StationQueue, FiniteSets

CONSTANTS SilentCalls, Clicks

ASSUME PageAssumption == SilentCalls \in Nat \ {0} /\ Clicks \in Nat \ {0}

VARIABLES
    call,           \* where each handler is
    left,           \* the listener has gone to another page
    leftEarly,      \* history: before the page was mounted
    notFound,
    streamUrl,      \* whether it is known
    queueLoaded,
    polling,        \* pollHandle is an interval that runs
    tracks          \* the queue as the page shows it

pageVars == <<call, left, leftEarly, notFound, streamUrl, queueLoaded, polling,
              tracks>>

stationPageVars == <<queueVars, pageVars>>

Mount == <<"mount", 0>>
Refresh == <<"refresh", 0>>
AddButton == <<"add", 0>>
SkipButton == <<"skip", 0>>
RemoveButton(index) == <<"remove", index>>
Removes == {RemoveButton(i) : i \in 1..(MaxQueueSize - 1)}
Silent == {<<"silent", n>> : n \in 1..SilentCalls}
Buttons == {Refresh, AddButton, SkipButton} \cup Removes
Handlers == {Mount} \cup Buttons \cup Silent

Outcomes == Replies \cup {"lost"}

Rpcs == {"GetSession", "ListQueue", "AddTrack", "RemoveTrack", "SkipTrack"}

\* seen: the queue as the page showed it when the button was clicked.
NoCall == [stage |-> "idle"]
Sent(rpc, seen) == [stage |-> "sent", rpc |-> rpc, seen |-> seen]
Answered(rpc, reply, list) ==
    [stage |-> "answered", rpc |-> rpc, reply |-> reply, list |-> list]

CallTypeOK(c) ==
    \/ c = NoCall
    \/ c.stage = "sent" /\ c.rpc \in Rpcs /\ c.seen \in Seq(Entries)
    \/ /\ c.stage = "answered" /\ c.rpc \in Rpcs
       /\ c.reply \in Replies /\ c.list \in Seq(Entries)

PageTypeOK ==
    /\ QueueTypeOK
    /\ DOMAIN call = Handlers
    /\ \A h \in Handlers : CallTypeOK(call[h])
    /\ {left, leftEarly, notFound, streamUrl, queueLoaded, polling} \subseteq BOOLEAN
    /\ tracks \in Seq(Entries)
    /\ Len(tracks) <= MaxQueueSize

PageInit ==
    /\ QueueInit
    /\ call = [h \in Handlers |-> IF h = Mount THEN Sent("GetSession", <<>>) ELSE NoCall]
    /\ left = FALSE
    /\ leftEarly = FALSE
    /\ notFound = FALSE
    /\ streamUrl = FALSE
    /\ queueLoaded = FALSE
    /\ polling = FALSE
    /\ tracks = <<>>

-----------------------------------------------------------------------------
(* A call on its way.                                                      *)

\* Procedures that the interceptor limits.
Limited == {"AddTrack", "RemoveTrack", "SkipTrack"}

Serves(h, reply) ==
    LET rpc == call[h].rpc
    IN  \/ rpc = "GetSession" /\ GetSession(reply)
        \/ rpc = "ListQueue" /\ ListQueue(reply)
        \/ rpc = "AddTrack" /\ AddTrack(reply)
        \/ rpc = "RemoveTrack" /\ RemoveTrack(h[2], reply)
        \/ rpc = "SkipTrack" /\ SkipTrack(reply)
        \/ rpc \in Limited /\ RateLimited(reply)

\* What the answer to a served call carries.
Carried(h) == IF call[h].rpc = "ListQueue" THEN queue ELSE <<>>

\* The server serves a call.
ServeCall(h) ==
    /\ call[h].stage = "sent"
    /\ \E reply \in Replies :
         /\ Serves(h, reply)
         /\ call' = [call EXCEPT ![h] = Answered(@.rpc, reply, Carried(h))]
    /\ UNCHANGED <<left, leftEarly, notFound, streamUrl, queueLoaded, polling, tracks>>

\* Calls of other listeners and of the bot.
OtherClients ==
    /\ \E reply \in Replies :
         \/ AddTrack(reply)
         \/ \E i \in 1..(MaxQueueSize - 1) : RemoveTrack(i, reply)
    /\ UNCHANGED pageVars

-----------------------------------------------------------------------------
(* The page.                                                               *)

\* What an await of rpc may come to: the answer, or (before or after the server
\* has served the call) a connection that fails.
Outcome(h, rpc, reply) ==
    /\ call[h].stage # "idle" /\ call[h].rpc = rpc
    /\ \/ call[h].stage = "answered" /\ reply = call[h].reply
       \/ reply = "lost"

\* The await of h ends, and h with it ...
Ends(h) == call' = [call EXCEPT ![h] = NoCall]

\* ... or goes on to fetchQueue.
FetchesNext(h) == call' = [call EXCEPT ![h] = Sent("ListQueue", <<>>)]

\* Mutant: the list is added to the one that is shown.
TakesMoreQueue(h, reply) ==
    /\ Outcome(h, "ListQueue", reply)
    /\ tracks' = IF reply = "ok" THEN tracks \o call[h].list ELSE tracks

\* fetchQueue from its await; of a failure the page shows at most that
\* something went wrong.
TakesQueue(h, reply) ==
    /\ Outcome(h, "ListQueue", reply)
    /\ tracks' = IF reply = "ok" THEN call[h].list ELSE tracks

MountKnowsSession(reply) ==
    /\ Outcome(Mount, "GetSession", reply)
    /\ IF reply = "ok" THEN FetchesNext(Mount) ELSE Ends(Mount)
    /\ streamUrl' = (reply = "ok")
    /\ notFound' = (reply = "not_found")
    /\ UNCHANGED <<queueVars, left, leftEarly, queueLoaded, polling, tracks>>

\* The interval starts, whether or not the page is still there.
MountLoadsQueue(reply) ==
    /\ TakesQueue(Mount, reply)
    /\ Ends(Mount)
    /\ queueLoaded' = TRUE
    /\ polling' = TRUE
    /\ UNCHANGED <<queueVars, left, leftEarly, notFound, streamUrl>>

Gone ==
    /\ left' = TRUE
    /\ leftEarly' = (call[Mount] # NoCall)
    /\ call' = [h \in Handlers |-> IF h \in Buttons THEN NoCall ELSE call[h]]
    /\ tracks' = <<>>
    /\ UNCHANGED <<queueVars, notFound, streamUrl, queueLoaded>>

\* Mutant: the interval is not cleared.
LeaveStillPolling ==
    /\ ~left
    /\ Gone
    /\ UNCHANGED polling

\* onDestroy.  What the page shows is gone, and what its buttons have sent is
\* one of OtherClients; onMount and the silent calls go on.
Leave ==
    /\ ~left
    /\ Gone
    /\ polling' = FALSE

Poll(h) ==
    /\ polling
    /\ call[h] = NoCall
    /\ FetchesNext(h)
    /\ UNCHANGED <<queueVars, left, leftEarly, notFound, streamUrl, queueLoaded,
                   polling, tracks>>

Busy == {h \in Buttons : call[h] # NoCall}

\* A button that is shown and enabled.
Clickable(h) == ~left /\ ~notFound /\ h \notin Busy /\ Cardinality(Busy) < Clicks

Click(h, rpc, seen) ==
    /\ Clickable(h)
    /\ call' = [call EXCEPT ![h] = Sent(rpc, seen)]
    /\ UNCHANGED <<queueVars, left, leftEarly, notFound, streamUrl, queueLoaded,
                   polling, tracks>>

handleRefresh == Click(Refresh, "ListQueue", <<>>)

handleSkip == Click(SkipButton, "SkipTrack", <<>>)

\* The form, or a result of the search panel.
handleAdd == Click(AddButton, "AddTrack", <<>>)

\* The first track has no button.
handleRemove(index) ==
    /\ queueLoaded
    /\ index < Len(tracks)
    /\ Click(RemoveButton(index), "RemoveTrack", tracks)

\* A call that changed the queue succeeds, and the handler fetches it.
ChangeSucceeds(h) ==
    /\ \E rpc \in Limited : Outcome(h, rpc, "ok")
    /\ FetchesNext(h)
    /\ UNCHANGED <<queueVars, left, leftEarly, notFound, streamUrl, queueLoaded,
                   polling, tracks>>

\* The search panel does not wait for the page to fetch it (onAdded).
FoundAdded(h) ==
    /\ Outcome(AddButton, "AddTrack", "ok")
    /\ call[h] = NoCall
    /\ call' = [call EXCEPT ![AddButton] = NoCall, ![h] = Sent("ListQueue", <<>>)]
    /\ UNCHANGED <<queueVars, left, leftEarly, notFound, streamUrl, queueLoaded,
                   polling, tracks>>

\* A call that was to change the queue fails, or its answer is lost.
ChangeFails(h, reply) ==
    /\ \E rpc \in Limited : Outcome(h, rpc, reply)
    /\ reply # "ok"
    /\ Ends(h)
    /\ UNCHANGED <<queueVars, left, leftEarly, notFound, streamUrl, queueLoaded,
                   polling, tracks>>

\* Mutant: a refresh takes the list only if nothing is shown yet.
FetchedOnce(h, reply) ==
    /\ h # Mount
    /\ TakesQueue(h, reply) /\ tracks = <<>>
    /\ Ends(h)
    /\ UNCHANGED <<queueVars, left, leftEarly, notFound, streamUrl, queueLoaded,
                   polling>>

\* fetchQueue is the last await of every handler but onMount.
Fetched(h, reply) ==
    /\ h # Mount
    /\ TakesQueue(h, reply)
    /\ Ends(h)
    /\ UNCHANGED <<queueVars, left, leftEarly, notFound, streamUrl, queueLoaded,
                   polling>>

-----------------------------------------------------------------------------
Continue(h, reply) ==
    \/ h = Mount /\ (MountKnowsSession(reply) \/ MountLoadsQueue(reply))
    \/ ChangeFails(h, reply) \/ Fetched(h, reply)

Clicked ==
    \/ handleRefresh \/ handleSkip \/ handleAdd
    \/ \E i \in 1..(MaxQueueSize - 1) : handleRemove(i)

PageNext ==
    \/ \E h \in Handlers :
          ServeCall(h) \/ ChangeSucceeds(h) \/ \E reply \in Outcomes : Continue(h, reply)
    \/ \E h \in Silent : Poll(h) \/ FoundAdded(h)
    \/ Clicked \/ Leave \/ OtherClients
    \/ StationNext /\ UNCHANGED pageVars

PageSpec == PageInit /\ [][PageNext]_stationPageVars

(* Fairness: the interval fires, a call it has sent is served or lost and   *)
(* its answer taken, and the network does not fail every poll.              *)
PollServed == \E h \in Silent : ServeCall(h)
PollReturns == \E h \in Silent, reply \in Outcomes : Fetched(h, reply)
PollSucceeds == \E h \in Silent : Fetched(h, "ok")

FairSpec ==
    /\ PageSpec
    /\ WF_stationPageVars(\E h \in Silent : Poll(h))
    /\ SF_stationPageVars(PollServed)
    /\ WF_stationPageVars(PollReturns)
    /\ SF_stationPageVars(PollSucceeds)

-----------------------------------------------------------------------------
(* Properties.                                                             *)

(* A remove button takes out the track it stands beside: handleRemove sends
   an index into the list as shown, which the server applies to the queue of
   its own moment, so the track is another one only if a track at or before
   that place has left the queue in between. *)
RemovesTheTrackShown ==
    [][\A h \in Removes :
         /\ call[h].stage = "sent" /\ call'[h].stage = "answered"
         /\ queue' # queue
         /\ \A i \in 1..(h[2] + 1) : Queued(call[h].seen[i])
         => \A i \in 1..Len(queue') : queue'[i] # call[h].seen[h[2] + 1]]_stationPageVars

(* An index that is stale when the server applies it (RemoveTrack, to the queue
   of its own moment) never costs a track that the page listed before the
   button's, the next to play among them: of those, each that is still queued
   stays queued, whatever was played, removed, or queued in a new session of
   the id meanwhile.  What is taken out instead is the track of the button, one
   behind it, or one queued since. *)
RemovesNoneBefore ==
    [][\A h \in Removes :
         /\ call[h].stage = "sent" /\ call'[h].stage = "answered"
         /\ queue' # queue
         => \A i \in 1..h[2] : Queued(call[h].seen[i]) =>
              \E j \in 1..Len(queue') : queue'[j] = call[h].seen[i]]_stationPageVars

(* The page stops polling when it is left, unless it was left while it was
   being mounted: onDestroy finds no pollHandle then, and onMount starts the
   interval after it. *)
PollingStopsWithThePage == left /\ polling => leftEarly

(* "a blip is expected to self-heal on the next call" (fetchQueue): a
   page that polls comes to show the queue and keeps to it, when its changes
   (of which there are finitely many here) are over, however many calls were
   lost or came back out of order. *)
SelfHeals == <>[](live /\ polling) => <>[](tracks = queue)
=============================================================================
