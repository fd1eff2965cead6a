------------------------------ MODULE BotAuth ------------------------------
(***************************************************************************)
(* The bot's side of Auth in one guild: deleteSession, which each /stop of *)
(* the guild calls, runs the call of the server with the token kept in the *)
(* voice session of the guild (withAuth).  Without one, or once when the   *)
(* server refuses it, it earns a new token first.                          *)
(*                                                                         *)
(* A call is served at some time before its answer is taken, and an answer *)
(* or a call may be lost.                                                  *)
(***************************************************************************)
EXTENDS Auth

CONSTANTS
    Stops,          \* deleteSession calls that may be under way at once
    None,           \* no token is kept
    MaxTime         \* bound on the time

ASSUME BotAuthAssumption == MaxTime \in Nat

VARIABLES
    record,         \* the guild has a voice session
    authToken,      \* the token kept in it
    stop,           \* where each deleteSession is
    began,          \* history: when it was called
    forgot          \* history: the server has restarted since

botVars == <<record, authToken, stop, began, forgot>>

vars == <<authVars, botVars>>

Idle == [at |-> "idle"]
\* again: whether a refusal is met by another try with a new token.
Requesting == [at |-> "requesting"]
Responding(n) == [at |-> "responding", with |-> n]
Deleting(token, again) == [at |-> "deleting", with |-> token, again |-> again]
Answer(c, code, value) ==
    [at |-> "answered", call |-> c.at, again |-> c.at = "deleting" /\ c.again,
     code |-> code, value |-> value]

Init ==
    /\ AuthInit
    /\ record \in BOOLEAN
    /\ authToken = None
    /\ stop = [d \in Stops |-> Idle]
    /\ began = [d \in Stops |-> 0]
    /\ forgot = [d \in Stops |-> FALSE]

-----------------------------------------------------------------------------
(* The server, and what is lost on the way.                                *)

Answers(d, code, value) == stop' = [stop EXCEPT ![d] = Answer(@, code, value)]

Serve(d) ==
    LET c == stop[d]
    IN  /\ \/ /\ c.at = "requesting"
              /\ \E n \in Nonces : IssueNonce(n) /\ Answers(d, "ok", n)
           \/ /\ c.at = "responding"
              /\ \/ ConsumeNonce(c.with) /\ Answers(d, "ok", NewToken(c.with))
                 \/ NonceRefused(c.with) /\ Answers(d, "unauthenticated", None)
           \/ /\ c.at = "deleting"
              /\ Answers(d, IF VerifyToken(c.with) THEN "ok" ELSE "unauthenticated", None)
              /\ UNCHANGED authVars
        /\ UNCHANGED <<record, authToken, began, forgot>>

Lose(d) ==
    /\ \/ /\ stop[d].at \in {"requesting", "responding", "deleting"}
          /\ Answers(d, "lost", None)
       \/ /\ stop[d].at = "answered"
          /\ stop' = [stop EXCEPT ![d].code = "lost"]
    /\ UNCHANGED <<authVars, record, authToken, began, forgot>>

ServerRestarts ==
    /\ Restart
    /\ forgot' = [d \in Stops |-> TRUE]
    /\ UNCHANGED <<record, authToken, stop, began>>

-----------------------------------------------------------------------------
(* The bot.                                                                *)

getAuthToken == authToken

deleteSession(d) ==
    /\ stop[d] = Idle
    /\ stop' = [stop EXCEPT ![d] = IF getAuthToken # None THEN Deleting(getAuthToken, TRUE)
                                                          ELSE Requesting]
    /\ began' = [began EXCEPT ![d] = time]
    /\ forgot' = [forgot EXCEPT ![d] = FALSE]
    /\ UNCHANGED <<authVars, record, authToken>>

\* The answer to a step of the call, with its code.
Takes(d, at, code) ==
    stop[d].at = "answered" /\ stop[d].call = at /\ stop[d].code = code

signNonce(d) ==
    /\ Takes(d, "requesting", "ok")
    /\ stop' = [stop EXCEPT ![d] = Responding(@.value)]
    /\ UNCHANGED <<authVars, record, authToken, began, forgot>>

\* Kept if the voice session is still there.
setAuthToken(token) == authToken' = IF record THEN token ELSE authToken

acquireAuthToken(d) ==
    /\ Takes(d, "responding", "ok")
    /\ setAuthToken(stop[d].value)
    /\ stop' = [stop EXCEPT ![d] = Deleting(@.value, FALSE)]
    /\ UNCHANGED <<authVars, record, began, forgot>>

\* Mutant: a refusal is final.
GivesUp(d) == FALSE

TriesAgain(d) == Takes(d, "deleting", "unauthenticated") /\ stop[d].again

withAuthAgain(d) ==
    /\ TriesAgain(d)
    /\ stop' = [stop EXCEPT ![d] = Requesting]
    /\ UNCHANGED <<authVars, record, authToken, began, forgot>>

\* handleStopCommand destroys the voice session, and the token with it.
Stopped(d) ==
    /\ Takes(d, "deleting", "ok")
    /\ stop' = [stop EXCEPT ![d] = Idle]
    /\ record' = FALSE
    /\ authToken' = None
    /\ UNCHANGED <<authVars, began, forgot>>

Refused(d) ==
    /\ stop[d].at = "answered"
    /\ stop[d].code = "unauthenticated"
    /\ ~TriesAgain(d)

Lost(d) == stop[d].at = "answered" /\ stop[d].code = "lost"

StopFails(d) ==
    /\ Refused(d) \/ Lost(d)
    /\ stop' = [stop EXCEPT ![d] = Idle]
    /\ UNCHANGED <<authVars, record, authToken, began, forgot>>

\* A /play creates the voice session anew, or its playback ends and destroys it.
Plays ==
    /\ record' \in BOOLEAN
    /\ authToken' = None
    /\ UNCHANGED <<authVars, stop, began, forgot>>

Next ==
    \/ \E d \in Stops :
         \/ deleteSession(d) \/ signNonce(d) \/ acquireAuthToken(d) \/ withAuthAgain(d)
         \/ Stopped(d) \/ StopFails(d)
         \/ Serve(d) \/ Lose(d)
    \/ Plays
    \/ ServerRestarts
    \/ time < MaxTime /\ TimePasses /\ UNCHANGED botVars

Spec == Init /\ [][Next]_vars

-----------------------------------------------------------------------------
(* Properties.                                                             *)

(* The bot is turned away for its token or its nonce only when the call has
   outlasted one of them, or the server has restarted under it: a token left
   over from an earlier /stop, however old, is replaced by withAuth, and one
   /stop does not spoil the nonce or the token of another. *)
BotRefusedOnlyWhenLate ==
    \A d \in Stops :
        Refused(d) =>
            \/ forgot[d]
            \/ time > began[d] + NonceTTL
            \/ time > began[d] + TokenTTL
=============================================================================
