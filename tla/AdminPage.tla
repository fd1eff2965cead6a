----------------------------- MODULE AdminPage -----------------------------
(***************************************************************************)
(* The admin page over the server's authentication (Auth) and its lists of *)
(* live stations and archives.  The two lists are loaded, shown and        *)
(* emptied alike; Stations and Archives tell them apart.  A station may be *)
(* created again under its id; an archive never has the id of another, and *)
(* those created meanwhile are left out.                                   *)
(*                                                                         *)
(* A handler of the page is a thread of awaits, as in StationPage.  Other  *)
(* admins and the bot act on the server as well.                           *)
(***************************************************************************)
EXTENDS Auth

CONSTANTS
    Stations, Archives,
    None,           \* no token, no nonce
    MaxTime         \* bound on the time

ASSUME AdminAssumption ==
    Stations \cap Archives = {} /\ None \notin Token \cup Nonces /\ MaxTime \in Nat

VARIABLES
    live,           \* the stations and archives of the server
    call,           \* where each handler is
    authToken,      \* on the page, and in localStorage
    nonce,          \* as shown
    listed,         \* sessions and archives as the page shows them
    loaded,
    gone,           \* history: taken off the lists by a button, not created since
    interrupted     \* history: a logout left a load or a button's call under way

adminVars == <<live, call, authToken, nonce, listed, loaded, gone, interrupted>>

vars == <<authVars, adminVars>>

Items == Stations \cup Archives

\* Loads of the two lists, by onMount and by a login.
Loads == {"mount", "login"} \X {"sessions", "archives"}
RequestButton == <<"request", "nonce">>
SubmitButton == <<"submit", "passKey">>
ItemButton(i) == <<"item", i>>
Handlers == Loads \cup {RequestButton, SubmitButton} \cup {ItemButton(i) : i \in Items}

Kind(list) == IF list = "sessions" THEN Stations ELSE Archives

\* with: the nonce or the token that the call carries, or None.  A code comes
\* with what was asked for: a list, a nonce, a token, or nothing.
Idle == [stage |-> "idle"]
Sent(with) == [stage |-> "sent", with |-> with]
Answered(with, code, value) ==
    [stage |-> "answered", with |-> with, code |-> code, value |-> value]
Loading == [stage |-> "loading"]

Codes == {"ok", "unauthenticated", "not_found", "lost"}

CallTypeOK(c) ==
    \/ c \in {Idle, Loading}
    \/ c.stage \in {"sent", "answered"} /\ c.with \in tokens \cup Nonces \cup {None}

TypeOK ==
    /\ AuthTypeOK
    /\ live \subseteq Items
    /\ DOMAIN call = Handlers
    /\ \A h \in Handlers : CallTypeOK(call[h])
    /\ authToken \in tokens \cup {None}
    /\ nonce \in Nonces \cup {None}
    /\ listed \subseteq Items
    /\ {loaded, interrupted} \subseteq BOOLEAN
    /\ gone \subseteq Items

Init ==
    /\ AuthInit
    /\ live \in SUBSET Items
    /\ call = [h \in Handlers |-> Idle]
    /\ authToken = None
    /\ nonce = None
    /\ listed = {}
    /\ loaded = FALSE
    /\ gone = {}
    /\ interrupted = FALSE

-----------------------------------------------------------------------------
(* The server.                                                             *)

Answers(h, code, value) ==
    call' = [call EXCEPT ![h] = Answered(@.with, code, value)]

pageVars == <<authToken, nonce, listed, loaded, interrupted>>

ServeLoad(h) ==
    /\ Answers(h, "ok", live \cap Kind(h[2]))
    /\ UNCHANGED <<authVars, live>>

ServeRequest(n) ==
    /\ IssueNonce(n)
    /\ Answers(RequestButton, "ok", n)
    /\ UNCHANGED live

ServeSubmit ==
    LET n == call[SubmitButton].with
    IN  /\ \/ ConsumeNonce(n) /\ Answers(SubmitButton, "ok", NewToken(n))
           \/ NonceRefused(n) /\ Answers(SubmitButton, "unauthenticated", None)
        /\ UNCHANGED live

\* DeleteSessionAuth and DeleteSessionArchive, behind authInterceptor: a
\* station that is not there is none the less stopped.
ServeItem(i) ==
    LET h == ItemButton(i)
    IN  /\ IF ~VerifyToken(call[h].with)
           THEN Answers(h, "unauthenticated", None) /\ UNCHANGED live
           ELSE /\ live' = live \ {i}
                /\ Answers(h, IF i \in live \cup Stations THEN "ok" ELSE "not_found", None)
        /\ UNCHANGED authVars

Serve ==
    /\ \/ \E h \in Loads : call[h].stage = "sent" /\ ServeLoad(h)
       \/ call[RequestButton].stage = "sent" /\ \E n \in Nonces : ServeRequest(n)
       \/ call[SubmitButton].stage = "sent" /\ ServeSubmit
       \/ \E i \in Items : call[ItemButton(i)].stage = "sent" /\ ServeItem(i)
    /\ UNCHANGED <<pageVars, gone>>

\* The bot and other admins answer nonces; sessions end and are created.
Others ==
    \/ /\ \E n \in Nonces : IssueNonce(n) \/ ConsumeNonce(n)
       /\ UNCHANGED adminVars
    \/ /\ \E i \in live : live' = live \ {i}
       /\ UNCHANGED <<authVars, call, pageVars, gone>>
    \/ /\ \E i \in Stations \ live : live' = live \cup {i} /\ gone' = gone \ {i}
       /\ UNCHANGED <<authVars, call, pageVars>>

ServerRestarts ==
    /\ Restart
    /\ live' = live \cap Archives
    /\ UNCHANGED <<call, pageVars, gone>>

-----------------------------------------------------------------------------
(* The page.                                                               *)

\* What an await may come to: the answer, or a connection that fails.
Outcome(h, code) ==
    \/ call[h].stage = "answered" /\ code = call[h].code
    \/ call[h].stage \in {"sent", "answered"} /\ code = "lost"

Ends(h) == call' = [call EXCEPT ![h] = Idle]

LoadsOf(origin) == {h \in Loads : h[1] = origin}

\* onMount, at first and after a reload, which forgets all but the token.
Mount ==
    /\ call' = [h \in Handlers |->
                  IF authToken # None /\ h \in LoadsOf("mount") THEN Sent(None) ELSE Idle]
    /\ nonce' = None
    /\ listed' = {}
    /\ loaded' = FALSE
    /\ interrupted' = FALSE
    /\ UNCHANGED <<authVars, live, authToken, gone>>

\* loadSessions and loadArchives; loadAll waits for both, and a login for it.
LoadReturns(h, code) ==
    LET last == \A l \in LoadsOf(h[1]) : l # h => call[l] = Idle
    IN  /\ Outcome(h, code)
        /\ listed' = IF code = "ok" THEN (listed \ Kind(h[2])) \cup call[h].value ELSE listed
        /\ loaded' = (loaded \/ last)
        /\ call' = [call EXCEPT ![h] = Idle,
                                ![SubmitButton] = IF last /\ h[1] = "login" THEN Idle ELSE @]
        /\ UNCHANGED <<authVars, live, authToken, nonce, gone, interrupted>>

Click(h, with) ==
    /\ call[h] = Idle
    /\ call' = [call EXCEPT ![h] = Sent(with)]
    /\ UNCHANGED <<authVars, live, pageVars, gone>>

handleRequestNonce == authToken = None /\ Click(RequestButton, None)

NonceReturns(code) ==
    /\ Outcome(RequestButton, code)
    /\ Ends(RequestButton)
    /\ nonce' = IF code = "ok" THEN call[RequestButton].value ELSE nonce
    /\ UNCHANGED <<authVars, live, authToken, listed, loaded, gone, interrupted>>

\* The passkey is a signature of some nonce that was issued.
handleSubmitPassKey ==
    /\ authToken = None
    /\ \E n \in Nonces : issuedAt[n] # Never /\ Click(SubmitButton, n)

LoginSucceeds ==
    /\ Outcome(SubmitButton, "ok")
    /\ authToken' = call[SubmitButton].value
    /\ nonce' = None
    /\ call' = [h \in Handlers |->
                  IF h = SubmitButton THEN Loading
                  ELSE IF h \in LoadsOf("login") THEN Sent(None) ELSE call[h]]
    /\ UNCHANGED <<authVars, live, listed, loaded, gone, interrupted>>

LoginFails(code) ==
    /\ Outcome(SubmitButton, code)
    /\ code # "ok"
    /\ Ends(SubmitButton)
    /\ UNCHANGED <<authVars, live, pageVars, gone>>

\* Mutant: the lists are left for the next login.
LogoutKeepsLists ==
    /\ authToken' = None
    /\ UNCHANGED <<listed, interrupted>>

Logout ==
    /\ authToken' = None
    /\ listed' = {}
    /\ interrupted' = (interrupted \/ \E h \in Handlers \ {RequestButton, SubmitButton} :
                                       call'[h] # Idle)

logout ==
    /\ authToken # None
    /\ UNCHANGED <<authVars, live, call, nonce, loaded, gone>>
    /\ Logout

\* A stop button, or a delete button.
handleStop(i) ==
    /\ authToken # None
    /\ loaded
    /\ i \in listed
    /\ Click(ItemButton(i), authToken)

ItemStopped(i) ==
    /\ Outcome(ItemButton(i), "ok")
    /\ Ends(ItemButton(i))
    /\ listed' = listed \ {i}
    /\ gone' = gone \cup ({i} \ live)
    /\ UNCHANGED <<authVars, live, authToken, nonce, loaded, interrupted>>

\* Mutant: any failure is taken for that of the token.
AuthErrorAny(code) == TRUE

IsAuthError(code) == code = "unauthenticated"

ItemFails(i, code) ==
    /\ Outcome(ItemButton(i), code)
    /\ code # "ok"
    /\ Ends(ItemButton(i))
    /\ IF IsAuthError(code) THEN Logout ELSE UNCHANGED <<authToken, listed, interrupted>>
    /\ UNCHANGED <<authVars, live, nonce, loaded, gone>>

Page ==
    \/ Mount \/ handleRequestNonce \/ handleSubmitPassKey \/ LoginSucceeds \/ logout
    \/ \E i \in Items : handleStop(i) \/ ItemStopped(i)
    \/ \E code \in Codes :
         \/ NonceReturns(code) \/ LoginFails(code)
         \/ \E h \in Loads : LoadReturns(h, code)
         \/ \E i \in Items : ItemFails(i, code)

Next ==
    \/ Serve \/ Others \/ ServerRestarts \/ Page
    \/ time < MaxTime /\ TimePasses /\ UNCHANGED adminVars

Spec == Init /\ [][Next]_vars

-----------------------------------------------------------------------------
(* Properties.                                                             *)

(* A login lasts as long as its token, unless the admin ends it: the page drops
   it for no error but a refusal (handleAuthError), and the server refuses a
   token only when it has expired.  The exception is the late refusal of an
   older token, which logs out the login that has followed it. *)
LoginEndsWithItsToken ==
    [][authToken # None /\ authToken' = None =>
         \/ logout
         \/ ~VerifyToken(authToken)
         \/ \E i \in Items : LET h == ItemButton(i) IN
               call'[h] # call[h] /\ call[h].with # authToken]_vars

(* A station or archive that a button took off the list does not come back to
   it, unless the station is created again: no load that was served before is
   applied after (handleStop, loadAll), except once a logout has left a load or
   a button's call under way, whose answer the next login meets. *)
GoneStaysGone == ~interrupted => gone \cap listed = {}
=============================================================================
