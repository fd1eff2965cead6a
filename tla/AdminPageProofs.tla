-------------------------- MODULE AdminPageProofs --------------------------
(***************************************************************************)
(* Tokens are earned: a nonce in the map has earned none, so the one that  *)
(* it earns as it leaves the map is its first.  Logins end with their      *)
(* tokens, since a refusal says that the token of its call has expired.    *)
(* What a button removed stays removed, since no load of a list is under   *)
(* way while the list shows anything.                                      *)
(***************************************************************************)
EXTENDS AdminPage, FiniteSetTheorems, TLAPS

(* A nonce is in the map once it was issued, and has earned no token. *)
NoncesAreUnspent ==
    \A n \in nonces : issuedAt[n] # Never /\ \A t \in tokens : t.for # n

IInv == AuthTypeOK /\ NoncesAreUnspent /\ TokensAreBacked

(* What happens to the nonces and the tokens, whoever does it. *)
AuthStep ==
    \/ \E n \in Nonces : IssueNonce(n) \/ ConsumeNonce(n)
    \/ TimePasses
    \/ Restart

LEMMA InitInv == Init => IInv
BY DEF Init, AuthInit, IInv, AuthTypeOK, NoncesAreUnspent, TokensAreBacked, Never, Token

LEMMA FirstToken ==
    ASSUME IInv, NEW n \in Nonces, n \in nonces
    PROVE  NewToken(n) = [for |-> n, exp |-> time + TokenTTL, nth |-> 0]
<1>1. {t \in tokens : t.for = n} = {}
  BY DEF IInv, NoncesAreUnspent
<1> QED BY <1>1, FS_EmptySet DEF NewToken

LEMMA ConsumeKeepsInv ==
    ASSUME IInv, NEW n \in Nonces, ConsumeNonce(n)
    PROVE  IInv'
<1> DEFINE new == [for |-> n, exp |-> time + TokenTTL, nth |-> 0]
<1>1. n \in nonces /\ time <= issuedAt[n] + NonceTTL
  BY DEF ConsumeNonce, NonceValid
<1>2. /\ nonces' = nonces \ {n}
      /\ tokens' = tokens \cup {new}
      /\ UNCHANGED <<time, issuedAt>>
  BY <1>1, FirstToken DEF ConsumeNonce, Without
<1>3. /\ new \in Token
      /\ new.for = n /\ new.exp = time + TokenTTL /\ new.nth = 0
  BY AuthAssumption DEF IInv, AuthTypeOK, Token
<1> HIDE DEF new
<1>4. AuthTypeOK'
  BY <1>2, <1>3 DEF IInv, AuthTypeOK
<1>5. NoncesAreUnspent'
  BY <1>2, <1>3 DEF IInv, NoncesAreUnspent
<1>6. issuedAt[n] # Never /\ new.exp <= issuedAt[n] + NonceTTL + TokenTTL
  <2>1. issuedAt[n] # Never /\ issuedAt[n] \in Nat
    BY <1>1 DEF IInv, NoncesAreUnspent, AuthTypeOK
  <2> QED BY <1>1, <1>3, <2>1, AuthAssumption DEF IInv, AuthTypeOK
<1>7. TokensAreBacked'
  BY <1>2, <1>3, <1>6 DEF IInv, TokensAreBacked
<1> QED BY <1>4, <1>5, <1>7 DEF IInv

LEMMA AuthStepKeepsInv ==
    ASSUME IInv, AuthStep
    PROVE  IInv'
<1>1. ASSUME NEW n \in Nonces, IssueNonce(n) PROVE IInv'
  <2>1. /\ issuedAt[n] = Never
        /\ issuedAt' = [issuedAt EXCEPT ![n] = time]
        /\ nonces' = nonces \cup {n}
        /\ UNCHANGED <<time, tokens>>
    BY <1>1 DEF IssueNonce
  <2>2. AuthTypeOK' /\ time # Never
    BY <2>1 DEF IInv, AuthTypeOK, Never
  <2>3. \A t \in tokens : t.for # n
    BY <2>1 DEF IInv, TokensAreBacked
  <2>4. NoncesAreUnspent'
    BY <2>1, <2>2, <2>3 DEF IInv, AuthTypeOK, NoncesAreUnspent
  <2>5. TokensAreBacked'
    BY <2>1, <2>3 DEF IInv, AuthTypeOK, TokensAreBacked
  <2> QED BY <2>2, <2>4, <2>5 DEF IInv
<1>2. ASSUME NEW n \in Nonces, ConsumeNonce(n) PROVE IInv'
  BY <1>2, ConsumeKeepsInv
<1>3. CASE TimePasses
  BY <1>3 DEF TimePasses, IInv, AuthTypeOK, NoncesAreUnspent, TokensAreBacked
<1>4. CASE Restart
  BY <1>4 DEF Restart, IInv, AuthTypeOK, NoncesAreUnspent, TokensAreBacked
<1> QED BY <1>1, <1>2, <1>3, <1>4 DEF AuthStep

(* The page and the other admins reach the nonces and tokens by these only. *)
LEMMA StepsOfAuth ==
    ASSUME IInv, [Next]_vars
    PROVE  AuthStep \/ UNCHANGED authVars
<1>1. CASE Serve
  <2>1. ASSUME NEW h \in Loads, ServeLoad(h) PROVE UNCHANGED authVars
    BY <2>1 DEF ServeLoad
  <2>2. ASSUME NEW n \in Nonces, ServeRequest(n) PROVE AuthStep
    BY <2>2 DEF ServeRequest, AuthStep
  <2>3. CASE ServeSubmit
    <3> DEFINE n == call[SubmitButton].with
    <3>1. CASE ConsumeNonce(n)
      <4>1. n \in Nonces
        BY <3>1 DEF ConsumeNonce, NonceValid, IInv, AuthTypeOK
      <4> QED BY <3>1, <4>1 DEF AuthStep
    <3>2. CASE NonceRefused(n)
      BY <3>2 DEF NonceRefused
    <3> QED BY <2>3, <3>1, <3>2 DEF ServeSubmit
  <2>4. ASSUME NEW i \in Items, ServeItem(i) PROVE UNCHANGED authVars
    BY <2>4 DEF ServeItem
  <2> QED BY <1>1, <2>1, <2>2, <2>3, <2>4 DEF Serve
<1>2. CASE Others
  BY <1>2 DEF Others, AuthStep
<1>3. CASE ServerRestarts
  BY <1>3 DEF ServerRestarts, AuthStep
<1>4. CASE Page
  BY <1>4 DEF Page, Mount, handleRequestNonce, handleSubmitPassKey, LoginSucceeds, logout,
              handleStop, ItemStopped, NonceReturns, LoginFails, LoadReturns, ItemFails, Click
<1>5. CASE TimePasses
  BY <1>5 DEF AuthStep
<1>6. CASE UNCHANGED vars
  BY <1>6 DEF vars
<1> QED BY <1>1, <1>2, <1>3, <1>4, <1>5, <1>6 DEF Next

LEMMA NextInv == IInv /\ [Next]_vars => IInv'
<1> SUFFICES ASSUME IInv, [Next]_vars PROVE IInv'
  OBVIOUS
<1>1. CASE AuthStep
  BY <1>1, AuthStepKeepsInv
<1>2. CASE UNCHANGED authVars
  BY <1>2 DEF authVars, IInv, AuthTypeOK, NoncesAreUnspent, TokensAreBacked
<1> QED BY <1>1, <1>2, StepsOfAuth

(* For any nonces and lifetimes, whatever the page, other admins and restarts
   do: no nonce earns two tokens, and no token outlives its nonce's issue by
   more than the two lifetimes. *)
THEOREM TokensAreEarned == Spec => []TokensAreBacked
<1>1. IInv => TokensAreBacked
  BY DEF IInv
<1> QED BY <1>1, InitInv, NextInv, PTL DEF Spec
-----------------------------------------------------------------------------
(* The handlers of the page.                                               *)

LEMMA HandlerFacts ==
    /\ Loads \subseteq Handlers /\ SubmitButton \in Handlers /\ RequestButton \in Handlers
    /\ \A i \in Items : ItemButton(i) \in Handlers /\ ItemButton(i) \notin Loads
    /\ \A i, j \in Items : ItemButton(i) = ItemButton(j) => i = j
    /\ \A i \in Items : ItemButton(i) # SubmitButton /\ ItemButton(i) # RequestButton
    /\ SubmitButton \notin Loads /\ RequestButton \notin Loads /\ SubmitButton # RequestButton
BY DEF Handlers, Loads, SubmitButton, RequestButton, ItemButton

LEMMA Kinds ==
    /\ \A h \in Loads : Kind(h[2]) \subseteq Items
    /\ \A h, k \in Loads : h[2] # k[2] => Kind(h[2]) \cap Kind(k[2]) = {}
    /\ \A h \in Loads : h[1] \in {"mount", "login"} /\ h[2] \in {"sessions", "archives"}
                       /\ h = <<h[1], h[2]>>
BY AdminAssumption DEF Loads, Kind, Items

(* Every call is some handler's. *)
CallsTyped == call = [h \in Handlers |-> call[h]]

Under(h) == call[h] # Idle

(* What a step of handler h leaves to the others. *)
OnlyMoves(h) == \A k \in Handlers : k # h => call'[k] = call[k]

LEMMA MovesOne ==
    ASSUME CallsTyped, NEW h \in Handlers, NEW c, call' = [call EXCEPT ![h] = c]
    PROVE  CallsTyped' /\ call'[h] = c /\ OnlyMoves(h)
BY DEF CallsTyped, OnlyMoves

-----------------------------------------------------------------------------
(* Logins.                                                                 *)

(* A token is on the page after a login, and with the calls of its buttons. *)
TokensOnPage ==
    /\ authToken \in Token \cup {None}
    /\ call[SubmitButton].stage = "answered" /\ call[SubmitButton].code = "ok" =>
         call[SubmitButton].value \in Token
    /\ \A i \in Items : call[ItemButton(i)].stage \in {"sent", "answered"} =>
         call[ItemButton(i)].with \in Token

(* A refusal is of a token that has expired. *)
RefusalsAreTrue ==
    \A i \in Items :
        LET c == call[ItemButton(i)] IN
        c.stage = "answered" /\ c.code = "unauthenticated" => ~VerifyToken(c.with)

LoginInv == IInv /\ CallsTyped /\ TokensOnPage /\ RefusalsAreTrue

LEMMA LoginInitInv == Init => LoginInv
<1> SUFFICES ASSUME Init PROVE LoginInv
  OBVIOUS
<1>1. CallsTyped /\ \A h \in Handlers : call[h] = Idle
  BY DEF Init, CallsTyped
<1>2. TokensOnPage /\ RefusalsAreTrue
  BY <1>1, HandlerFacts DEF Init, TokensOnPage, RefusalsAreTrue, Idle
<1> QED BY <1>1, <1>2, InitInv DEF LoginInv

(* A refusal stays true: tokens do not get younger. *)
LEMMA TimeGoesOn ==
    ASSUME IInv, [Next]_vars
    PROVE  time \in Nat /\ time' \in Nat /\ time <= time'
<1>1. time \in Nat /\ time' \in Nat
  BY NextInv DEF IInv, AuthTypeOK
<1>2. AuthStep \/ UNCHANGED authVars
  BY StepsOfAuth
<1> QED BY <1>1, <1>2 DEF AuthStep, IssueNonce, ConsumeNonce, TimePasses, Restart, authVars

LEMMA ExpiredStaysExpired ==
    ASSUME IInv, [Next]_vars, NEW t \in Token, ~VerifyToken(t)
    PROVE  ~(time' <= t.exp)
BY TimeGoesOn DEF VerifyToken, Token

(* The page of a step that leaves the buttons of items alone. *)
LEMMA ItemsAtRest ==
    ASSUME LoginInv, [Next]_vars,
           \A i \in Items : \/ call'[ItemButton(i)] = call[ItemButton(i)]
                            \/ call'[ItemButton(i)] = Idle
    PROVE  /\ \A i \in Items : call'[ItemButton(i)].stage \in {"sent", "answered"} =>
                call'[ItemButton(i)].with \in Token
           /\ RefusalsAreTrue'
<1>1. IInv
  BY DEF LoginInv
<1>2. ASSUME NEW i \in Items, call'[ItemButton(i)].stage \in {"sent", "answered"}
      PROVE  call'[ItemButton(i)] = call[ItemButton(i)] /\ call[ItemButton(i)].with \in Token
  BY <1>2 DEF LoginInv, TokensOnPage, Idle
<1>3. ASSUME NEW i \in Items, call'[ItemButton(i)].stage = "answered",
             call'[ItemButton(i)].code = "unauthenticated"
      PROVE  ~(time' <= call'[ItemButton(i)].with.exp)
  BY <1>1, <1>2, <1>3, ExpiredStaysExpired DEF LoginInv, RefusalsAreTrue
<1> QED BY <1>2, <1>3 DEF RefusalsAreTrue, VerifyToken

LEMMA AnswersMoves ==
    ASSUME CallsTyped, NEW h \in Handlers, NEW code, NEW value, Answers(h, code, value)
    PROVE  CallsTyped' /\ call'[h] = Answered(call[h].with, code, value) /\ OnlyMoves(h)
BY DEF CallsTyped, OnlyMoves, Answers

LEMMA EarnedIsToken ==
    ASSUME IInv, NEW n, ConsumeNonce(n)
    PROVE  NewToken(n) \in Token
<1>1. n \in nonces /\ n \in Nonces
  BY DEF ConsumeNonce, NonceValid, IInv, AuthTypeOK
<1> QED BY <1>1, FirstToken, AuthAssumption DEF IInv, AuthTypeOK, Token

LEMMA LoginNextInv == LoginInv /\ [Next]_vars => LoginInv'
<1> SUFFICES ASSUME LoginInv, [Next]_vars PROVE LoginInv'
  OBVIOUS
<1> USE HandlerFacts
<1>i. IInv /\ IInv' /\ CallsTyped /\ TokensOnPage
  BY NextInv DEF LoginInv
<1> DEFINE AtRest == \A i \in Items : \/ call'[ItemButton(i)] = call[ItemButton(i)]
                                      \/ call'[ItemButton(i)] = Idle
<1>r. ASSUME CallsTyped', AtRest, authToken' \in Token \cup {None},
             call'[SubmitButton].stage = "answered" /\ call'[SubmitButton].code = "ok" =>
               call'[SubmitButton].value \in Token
      PROVE  LoginInv'
  BY <1>i, <1>r, ItemsAtRest DEF LoginInv, TokensOnPage
<1>s. ASSUME CallsTyped', AtRest, authToken' \in {authToken, None},
             call'[SubmitButton] = call[SubmitButton] \/ call'[SubmitButton].stage # "answered"
      PROVE  LoginInv'
  BY <1>i, <1>r, <1>s DEF TokensOnPage
<1>u. ASSUME UNCHANGED <<call, authToken>> PROVE LoginInv'
  BY <1>i, <1>s, <1>u DEF CallsTyped
<1>o. ASSUME NEW h \in Handlers, OnlyMoves(h), CallsTyped', authToken' \in {authToken, None},
             \/ h \in Loads \cup {RequestButton} \/ call'[h] = Idle
             \/ h = SubmitButton /\ call'[h].stage # "answered"
      PROVE  LoginInv'
  BY <1>s, <1>o DEF OnlyMoves, Idle
<1>1. CASE Serve
  <2>0. authToken' = authToken
    BY <1>1 DEF Serve, pageVars
  <2>1. ASSUME NEW h \in Loads, ServeLoad(h) PROVE LoginInv'
    <3>1. CallsTyped' /\ OnlyMoves(h)
      BY <2>1, <1>i, AnswersMoves DEF ServeLoad
    <3> QED BY <2>0, <3>1, <1>o
  <2>2. ASSUME NEW n \in Nonces, ServeRequest(n) PROVE LoginInv'
    <3>1. CallsTyped' /\ OnlyMoves(RequestButton)
      BY <2>2, <1>i, AnswersMoves DEF ServeRequest
    <3> QED BY <2>0, <3>1, <1>o
  <2>3. CASE ServeSubmit
    <3> DEFINE n == call[SubmitButton].with
    <3>1. CASE ConsumeNonce(n) /\ Answers(SubmitButton, "ok", NewToken(n))
      <4>1. NewToken(n) \in Token
        BY <3>1, <1>i, EarnedIsToken
      <4>2. CallsTyped' /\ OnlyMoves(SubmitButton)
            /\ call'[SubmitButton] = Answered(call[SubmitButton].with, "ok", NewToken(n))
        BY <3>1, <1>i, AnswersMoves
      <4> QED BY <4>1, <4>2, <2>0, <1>i, <1>r DEF OnlyMoves, Answered, TokensOnPage
    <3>2. CASE Answers(SubmitButton, "unauthenticated", None)
      <4>1. CallsTyped' /\ OnlyMoves(SubmitButton)
            /\ call'[SubmitButton] = Answered(call[SubmitButton].with, "unauthenticated", None)
        BY <3>2, <1>i, AnswersMoves
      <4> QED BY <4>1, <2>0, <1>i, <1>r DEF OnlyMoves, Answered, TokensOnPage
    <3> QED BY <2>3, <3>1, <3>2 DEF ServeSubmit
  <2>4. ASSUME NEW i \in Items, call[ItemButton(i)].stage = "sent", ServeItem(i)
        PROVE  LoginInv'
    <3> DEFINE h == ItemButton(i)
    <3>1. PICK code :
            /\ Answers(h, code, None)
            /\ code = "unauthenticated" => ~VerifyToken(call[h].with)
      BY <2>4 DEF ServeItem
    <3>2. CallsTyped' /\ OnlyMoves(h) /\ call'[h] = Answered(call[h].with, code, None)
      BY <3>1, <1>i, AnswersMoves
    <3>3. call[h].with \in Token /\ time' = time
      BY <2>4, <1>i DEF TokensOnPage, ServeItem, authVars
    <3>4. TokensOnPage'
      BY <3>2, <3>3, <2>0, <1>i DEF TokensOnPage, OnlyMoves, Answered
    <3>5. RefusalsAreTrue'
      BY <3>1, <3>2, <3>3 DEF LoginInv, RefusalsAreTrue, OnlyMoves, Answered, VerifyToken
    <3> QED BY <1>i, <3>2, <3>4, <3>5 DEF LoginInv
  <2> QED BY <1>1, <2>1, <2>2, <2>3, <2>4 DEF Serve
<1>2. CASE Others
  BY <1>2, <1>u DEF Others, adminVars, pageVars
<1>3. CASE ServerRestarts
  BY <1>3, <1>u DEF ServerRestarts, pageVars
<1>4. CASE Page
  <2>1. CASE Mount
    BY <2>1, <1>s DEF Mount, CallsTyped, LoadsOf, Idle
  <2>2. CASE handleRequestNonce
    <3>1. CallsTyped' /\ OnlyMoves(RequestButton) /\ authToken' = authToken
      BY <2>2, <1>i, MovesOne DEF handleRequestNonce, Click, pageVars
    <3> QED BY <3>1, <1>o
  <2>3. CASE handleSubmitPassKey
    <3>1. PICK n \in Nonces : Click(SubmitButton, n)
      BY <2>3 DEF handleSubmitPassKey
    <3>2. CallsTyped' /\ OnlyMoves(SubmitButton) /\ authToken' = authToken
          /\ call'[SubmitButton] = Sent(n)
      BY <3>1, <1>i, MovesOne DEF Click, pageVars
    <3> QED BY <3>2, <1>o DEF Sent
  <2>4. CASE LoginSucceeds
    <3>1. authToken' \in Token
      BY <2>4, <1>i DEF LoginSucceeds, Outcome, TokensOnPage
    <3>2. CallsTyped' /\ AtRest /\ call'[SubmitButton].stage = "loading"
      BY <2>4 DEF LoginSucceeds, CallsTyped, LoadsOf, Loading
    <3> QED BY <3>1, <3>2, <1>r
  <2>5. CASE logout
    BY <2>5, <1>i, <1>s DEF logout, Logout, CallsTyped
  <2>6. ASSUME NEW i \in Items, handleStop(i) PROVE LoginInv'
    <3> DEFINE h == ItemButton(i)
    <3>1. CallsTyped' /\ OnlyMoves(h) /\ call'[h] = Sent(authToken)
      BY <2>6, <1>i, MovesOne DEF handleStop, Click
    <3>2. authToken \in Token /\ authToken' = authToken /\ UNCHANGED authVars
      BY <2>6, <1>i DEF TokensOnPage, handleStop, Click, pageVars
    <3>3. TokensOnPage'
      BY <3>1, <3>2, <1>i DEF TokensOnPage, OnlyMoves, Sent
    <3>4. RefusalsAreTrue'
      BY <3>1, <3>2 DEF LoginInv, RefusalsAreTrue, OnlyMoves, Sent, VerifyToken, authVars
    <3> QED BY <1>i, <3>1, <3>3, <3>4 DEF LoginInv
  <2>7. ASSUME NEW i \in Items, ItemStopped(i) PROVE LoginInv'
    BY <2>7, <1>i, <1>o, MovesOne DEF ItemStopped, Ends
  <2>8. ASSUME NEW code \in Codes, NonceReturns(code) PROVE LoginInv'
    BY <2>8, <1>i, <1>o, MovesOne DEF NonceReturns, Ends
  <2>9. ASSUME NEW code \in Codes, LoginFails(code) PROVE LoginInv'
    BY <2>9, <1>i, <1>o, MovesOne DEF LoginFails, Ends, pageVars
  <2>10. ASSUME NEW h \in Loads, NEW code \in Codes, LoadReturns(h, code) PROVE LoginInv'
    <3>1. CallsTyped' /\ AtRest /\ authToken' = authToken
      BY <2>10, <1>i DEF LoadReturns, CallsTyped
    <3>2. call'[SubmitButton] = call[SubmitButton] \/ call'[SubmitButton].stage # "answered"
      BY <2>10, <1>i DEF LoadReturns, CallsTyped, Idle
    <3> QED BY <3>1, <3>2, <1>s
  <2>11. ASSUME NEW i \in Items, NEW code \in Codes, ItemFails(i, code) PROVE LoginInv'
    BY <2>11, <1>i, <1>o, MovesOne DEF ItemFails, Ends, Logout
  <2> QED
    BY <1>4, <2>1, <2>2, <2>3, <2>4, <2>5, <2>6, <2>7, <2>8, <2>9, <2>10, <2>11 DEF Page
<1>5. CASE TimePasses /\ UNCHANGED adminVars
  BY <1>5, <1>u DEF adminVars
<1>6. CASE UNCHANGED vars
  BY <1>6, <1>u DEF vars, adminVars
<1> QED BY <1>1, <1>2, <1>3, <1>4, <1>5, <1>6 DEF Next

(* For any nonces, items and lifetimes: the page drops its token when the admin
   logs out, when that token has expired, or on the refusal of another. *)
THEOREM LoginsLast == Spec => LoginEndsWithItsToken
<1> DEFINE Allowed == \/ logout
                      \/ ~VerifyToken(authToken)
                      \/ \E i \in Items : LET h == ItemButton(i) IN
                            call'[h] # call[h] /\ call[h].with # authToken
<1>1. ASSUME LoginInv, [Next]_vars, authToken # None, authToken' = None
      PROVE  Allowed
  <2>1. Page
    BY <1>1 DEF Next, vars, adminVars, Serve, Others, ServerRestarts, pageVars
  <2>2. logout \/ LoginSucceeds \/ \E i \in Items : \E code \in Codes : ItemFails(i, code)
    BY <1>1, <2>1 DEF Page, Mount, handleRequestNonce, handleSubmitPassKey, handleStop,
       ItemStopped, NonceReturns, LoginFails, LoadReturns, Click, pageVars
  <2>3. ~LoginSucceeds
    BY <1>1, AdminAssumption, HandlerFacts DEF LoginSucceeds, Outcome, LoginInv, TokensOnPage
  <2>4. ASSUME NEW i \in Items, NEW code \in Codes, ItemFails(i, code) PROVE Allowed
    <3> DEFINE h == ItemButton(i)
    <3>1. code = "unauthenticated" /\ call[h].stage = "answered" /\ call[h].code = code
      BY <1>1, <2>4 DEF ItemFails, IsAuthError, Outcome
    <3>2. ~VerifyToken(call[h].with)
      BY <1>1, <3>1 DEF LoginInv, RefusalsAreTrue
    <3>3. call'[h] = Idle
      BY <1>1, <2>4, HandlerFacts, MovesOne DEF ItemFails, Ends, LoginInv
    <3>4. call'[h] # call[h]
      BY <3>1, <3>3 DEF Idle
    <3> QED BY <3>2, <3>4
  <2> QED BY <2>2, <2>3, <2>4
<1>2. LoginInv /\ [Next]_vars => [authToken # None /\ authToken' = None => Allowed]_vars
  BY <1>1
<1> QED BY <1>2, LoginInitInv, LoginNextInv, PTL DEF Spec, LoginEndsWithItsToken
-----------------------------------------------------------------------------
(* The lists.                                                              *)

LoadsAreOfTheirKind ==
    \A h \in Loads : call[h].stage = "answered" => call[h].value \subseteq Kind(h[2])

(* Only who has no token submits a passkey. *)
SubmitsSignedOut ==
    call[SubmitButton].stage \in {"sent", "answered"} => authToken = None

(* What is gone is neither shown nor on its way to the page. *)
NothingGoneComesBack ==
    /\ gone \cap listed = {}
    /\ \A h \in Loads : call[h].stage = "answered" => call[h].value \cap gone = {}

(* A list is loaded once at a time, and nothing of it is shown meanwhile. *)
LoadsAreAlone ==
    \A h \in Loads : Under(h) =>
        /\ listed \cap Kind(h[2]) = {}
        /\ \A i \in Kind(h[2]) : ~Under(ItemButton(i))
        /\ \A k \in Loads : Under(k) /\ k[2] = h[2] => k = h

(* Who has no token sees nothing, and waits for nothing. *)
SignedOutSeesNothing ==
    authToken = None =>
        /\ listed = {}
        /\ \A h \in Loads : ~Under(h)
        /\ \A i \in Items : ~Under(ItemButton(i))

GoneInv ==
    /\ LoginInv
    /\ gone \cap live = {}
    /\ LoadsAreOfTheirKind
    /\ SubmitsSignedOut
    /\ ~interrupted => NothingGoneComesBack /\ LoadsAreAlone /\ SignedOutSeesNothing

LEMMA GoneInitInv == Init => GoneInv
<1> SUFFICES ASSUME Init PROVE GoneInv
  OBVIOUS
<1>1. \A h \in Handlers : call[h] = Idle
  BY DEF Init
<1>2. \A h \in Loads : call[h] = Idle
  BY <1>1, HandlerFacts
<1>3. SubmitsSignedOut /\ LoadsAreOfTheirKind /\ gone \cap live = {}
  BY <1>2 DEF Init, SubmitsSignedOut, LoadsAreOfTheirKind, Idle
<1>4. NothingGoneComesBack /\ LoadsAreAlone
  BY <1>2 DEF Init, NothingGoneComesBack, LoadsAreAlone, Under, Idle
<1>5. SignedOutSeesNothing
  BY <1>1, <1>2, HandlerFacts DEF Init, SignedOutSeesNothing, Under
<1> QED BY <1>3, <1>4, <1>5, LoginInitInv DEF GoneInv

(* A load that a step leaves alone, ends or serves. *)
KeepsLoad(h) ==
    \/ call'[h] = call[h]
    \/ call'[h] = Idle
    \/ /\ Under(h)
       /\ call'[h].stage = "answered"
       /\ call'[h].value \subseteq Kind(h[2])
       /\ call'[h].value \cap gone' = {}

(* A step that starts none of these calls and shows nothing new. *)
LEMMA QuietStep ==
    ASSUME GoneInv, LoginInv', UNCHANGED <<authToken, interrupted>>,
           listed' \subseteq listed, gone' \subseteq gone, gone' \cap live' = {},
           \A h \in Loads : KeepsLoad(h),
           \A i \in Items : call'[ItemButton(i)] # Idle => Under(ItemButton(i)),
           SubmitsSignedOut'
    PROVE  GoneInv'
<1>0. Idle.stage # "answered"
  BY DEF Idle
<1>1. LoadsAreOfTheirKind'
  BY <1>0 DEF GoneInv, LoadsAreOfTheirKind, KeepsLoad
<1>2. \A h \in Loads : call'[h] # Idle => Under(h)
  BY DEF KeepsLoad, Under
<1> SUFFICES ASSUME ~interrupted
             PROVE  (NothingGoneComesBack /\ LoadsAreAlone /\ SignedOutSeesNothing)'
  BY <1>1 DEF GoneInv
<1>3. NothingGoneComesBack'
  BY <1>0 DEF GoneInv, NothingGoneComesBack, KeepsLoad
<1>4. LoadsAreAlone'
  BY <1>2, Kinds DEF GoneInv, LoadsAreAlone, Under
<1>5. SignedOutSeesNothing'
  BY <1>2 DEF GoneInv, SignedOutSeesNothing, Under
<1> QED BY <1>3, <1>4, <1>5

(* A step of a handler that is no load, and no button of an item begun. *)
LEMMA QuietMove ==
    ASSUME GoneInv, LoginInv', UNCHANGED <<authToken, interrupted, listed>>,
           gone' \subseteq gone, gone' \cap live' = {},
           NEW g \in Handlers \ Loads, OnlyMoves(g),
           \A i \in Items : g = ItemButton(i) /\ call'[g] # Idle => Under(g),
           g = SubmitButton /\ call'[g].stage \in {"sent", "answered"} => authToken = None
    PROVE  GoneInv'
<1>1. \A h \in Loads : KeepsLoad(h)
  BY HandlerFacts DEF OnlyMoves, KeepsLoad
<1>2. \A i \in Items : call'[ItemButton(i)] # Idle => Under(ItemButton(i))
  BY HandlerFacts DEF OnlyMoves, Under
<1>3. SubmitsSignedOut'
  BY HandlerFacts DEF OnlyMoves, GoneInv, SubmitsSignedOut
<1> QED BY <1>1, <1>2, <1>3, QuietStep

(* The server: it serves calls that are under way. *)
LEMMA ServeKeepsGone ==
    ASSUME GoneInv, LoginInv', Serve
    PROVE  GoneInv'
<1> USE HandlerFacts
<1>i. CallsTyped /\ gone \cap live = {}
  BY DEF GoneInv, LoginInv
<1>0. UNCHANGED <<authToken, interrupted, listed, gone>>
  BY DEF Serve, pageVars
<1>1. ASSUME NEW h \in Loads, call[h].stage = "sent", ServeLoad(h) PROVE GoneInv'
  <2>1. live' = live /\ OnlyMoves(h)
        /\ call'[h] = Answered(call[h].with, "ok", live \cap Kind(h[2]))
    BY <1>1, <1>i, AnswersMoves DEF ServeLoad
  <2>2. Under(h)
    BY <1>1 DEF Under, Idle
  <2>3. \A k \in Loads : KeepsLoad(k)
    BY <1>0, <1>i, <2>1, <2>2 DEF KeepsLoad, OnlyMoves, Answered
  <2>4. /\ \A i \in Items : call'[ItemButton(i)] = call[ItemButton(i)]
        /\ call'[SubmitButton] = call[SubmitButton]
    BY <2>1 DEF OnlyMoves
  <2>5. SubmitsSignedOut'
    BY <1>0, <2>4 DEF GoneInv, SubmitsSignedOut
  <2> QED BY <1>0, <1>i, <2>1, <2>3, <2>4, <2>5, QuietStep DEF Under
<1>2. ASSUME NEW n \in Nonces, ServeRequest(n) PROVE GoneInv'
  <2>1. OnlyMoves(RequestButton) /\ live' = live
    BY <1>2, <1>i, AnswersMoves DEF ServeRequest
  <2> QED BY <1>0, <1>i, <2>1, QuietMove
<1>3. CASE call[SubmitButton].stage = "sent" /\ ServeSubmit
  <2>1. OnlyMoves(SubmitButton) /\ live' = live
    BY <1>3, <1>i, AnswersMoves DEF ServeSubmit
  <2>2. authToken = None
    BY <1>3 DEF GoneInv, SubmitsSignedOut
  <2> QED BY <1>0, <1>i, <2>1, <2>2, QuietMove
<1>4. ASSUME NEW i \in Items, call[ItemButton(i)].stage = "sent", ServeItem(i)
      PROVE  GoneInv'
  <2>1. OnlyMoves(ItemButton(i)) /\ live' \subseteq live
    BY <1>4, <1>i, AnswersMoves DEF ServeItem
  <2>2. Under(ItemButton(i))
    BY <1>4 DEF Under, Idle
  <2>3. gone' \cap live' = {}
    BY <1>0, <1>i, <2>1
  <2> QED BY <1>0, <2>1, <2>2, <2>3, QuietMove
<1> QED BY <1>1, <1>2, <1>3, <1>4 DEF Serve

(* Steps that touch neither calls nor page. *)
LEMMA ElsewhereKeepsGone ==
    ASSUME GoneInv, LoginInv', UNCHANGED <<call, authToken, interrupted, listed>>,
           gone' \subseteq gone, gone' \cap live' = {}
    PROVE  GoneInv'
<1>1. SubmitsSignedOut' /\ \A h \in Loads : KeepsLoad(h)
  BY DEF GoneInv, SubmitsSignedOut, KeepsLoad
<1> QED BY <1>1, QuietStep DEF Under

LEMMA MountKeepsGone ==
    ASSUME GoneInv, LoginInv', Mount
    PROVE  GoneInv'
<1> USE HandlerFacts
<1>1. /\ \A h \in Loads : call'[h] = IF authToken # None /\ h[1] = "mount"
                                        THEN Sent(None) ELSE Idle
      /\ call'[SubmitButton] = Idle
      /\ \A i \in Items : call'[ItemButton(i)] = Idle
  BY DEF Mount, LoadsOf
<1>2. UNCHANGED <<authToken, gone, live>> /\ listed' = {} /\ interrupted' = FALSE
  BY DEF Mount
<1>3. LoadsAreOfTheirKind' /\ NothingGoneComesBack' /\ SubmitsSignedOut'
  BY <1>1, <1>2 DEF LoadsAreOfTheirKind, NothingGoneComesBack, SubmitsSignedOut, Idle, Sent
<1>4. LoadsAreAlone'
  BY <1>1, <1>2, Kinds DEF LoadsAreAlone, Under
<1>5. SignedOutSeesNothing'
  BY <1>1, <1>2 DEF SignedOutSeesNothing, Under
<1> QED BY <1>2, <1>3, <1>4, <1>5 DEF GoneInv

(* A login finds nothing under way, so its loads are alone. *)
LEMMA LoginKeepsGone ==
    ASSUME GoneInv, LoginInv', LoginSucceeds
    PROVE  GoneInv'
<1> USE HandlerFacts
<1>1. /\ \A h \in Loads : call'[h] = IF h[1] = "login" THEN Sent(None) ELSE call[h]
      /\ call'[SubmitButton] = Loading
      /\ \A i \in Items : call'[ItemButton(i)] = call[ItemButton(i)]
  BY DEF LoginSucceeds, LoadsOf
<1>2. authToken = None /\ authToken' # None
  BY AdminAssumption DEF LoginSucceeds, Outcome, GoneInv, LoginInv, TokensOnPage, SubmitsSignedOut
<1>3. UNCHANGED <<listed, gone, live, interrupted>>
  BY DEF LoginSucceeds
<1>4. LoadsAreOfTheirKind' /\ SubmitsSignedOut'
  BY <1>1 DEF GoneInv, LoadsAreOfTheirKind, SubmitsSignedOut, Sent, Loading
<1>5. ASSUME ~interrupted
      PROVE  (NothingGoneComesBack /\ LoadsAreAlone /\ SignedOutSeesNothing)'
  <2>1. listed = {} /\ \A h \in Loads : call[h] = Idle
    BY <1>2, <1>5 DEF GoneInv, SignedOutSeesNothing, Under
  <2>2. \A i \in Items : call[ItemButton(i)] = Idle
    BY <1>2, <1>5 DEF GoneInv, SignedOutSeesNothing, Under
  <2>3. NothingGoneComesBack'
    BY <1>1, <1>3, <2>1 DEF NothingGoneComesBack, Sent, Idle
  <2>4. LoadsAreAlone'
    BY <1>1, <1>3, <2>1, <2>2, Kinds DEF LoadsAreAlone, Under
  <2> QED BY <1>2, <2>3, <2>4 DEF SignedOutSeesNothing
<1> QED BY <1>3, <1>4, <1>5 DEF GoneInv

(* A logout that interrupts nothing leaves nothing under way. *)
LEMMA LogoutKeepsGone ==
    ASSUME GoneInv, LoginInv', Logout, UNCHANGED <<gone, live>>,
           call'[SubmitButton] = call[SubmitButton],
           \A h \in Loads : call'[h] = call[h]
    PROVE  GoneInv'
<1> USE HandlerFacts
<1>1. authToken' = None /\ listed' = {}
  BY DEF Logout
<1>2. LoadsAreOfTheirKind' /\ SubmitsSignedOut'
  BY <1>1 DEF GoneInv, LoadsAreOfTheirKind, SubmitsSignedOut
<1>3. ASSUME ~interrupted'
      PROVE  (NothingGoneComesBack /\ LoadsAreAlone /\ SignedOutSeesNothing)'
  <2>1. \A h \in Handlers \ {RequestButton, SubmitButton} : call'[h] = Idle
    BY <1>3 DEF Logout
  <2>2. \A h \in Loads : call'[h] = Idle
    BY <2>1
  <2>3. \A i \in Items : call'[ItemButton(i)] = Idle
    BY <2>1
  <2> QED
    BY <1>1, <2>2, <2>3 DEF NothingGoneComesBack, LoadsAreAlone, SignedOutSeesNothing, Under, Idle
<1> QED BY <1>2, <1>3 DEF GoneInv

(* What a load shows is of its kind, and no other load of that kind is left. *)
LEMMA LoadKeepsGone ==
    ASSUME GoneInv, LoginInv', NEW h \in Loads, NEW code \in Codes, LoadReturns(h, code)
    PROVE  GoneInv'
<1> USE HandlerFacts
<1>i. CallsTyped
  BY DEF GoneInv, LoginInv
<1>1. /\ call'[h] = Idle
      /\ \A k \in Loads : k # h => call'[k] = call[k]
      /\ call'[SubmitButton] \in {call[SubmitButton], Idle}
      /\ \A i \in Items : call'[ItemButton(i)] = call[ItemButton(i)]
  BY <1>i DEF LoadReturns, CallsTyped
<1>2. UNCHANGED <<authToken, gone, live, interrupted>>
  BY DEF LoadReturns
<1>3. /\ Under(h)
      /\ \/ listed' = listed
         \/ /\ call[h].stage = "answered"
            /\ listed' = (listed \ Kind(h[2])) \cup call[h].value
  BY DEF LoadReturns, Outcome, Under, Idle
<1>4. LoadsAreOfTheirKind' /\ SubmitsSignedOut'
  BY <1>1, <1>2 DEF GoneInv, LoadsAreOfTheirKind, SubmitsSignedOut, Idle
<1>5. ASSUME ~interrupted
      PROVE  (NothingGoneComesBack /\ LoadsAreAlone /\ SignedOutSeesNothing)'
  <2>1. NothingGoneComesBack /\ LoadsAreAlone /\ SignedOutSeesNothing
    BY <1>5 DEF GoneInv
  <2>2. NothingGoneComesBack'
    BY <1>1, <1>2, <1>3, <2>1 DEF NothingGoneComesBack, Idle
  <2>3. ASSUME NEW k \in Loads, call'[k] # Idle
        PROVE  listed' \cap Kind(k[2]) = {}
    <3>1. k # h /\ Under(k)
      BY <1>1, <2>3 DEF Under
    <3>2. listed \cap Kind(k[2]) = {} /\ k[2] # h[2]
      BY <1>3, <2>1, <3>1 DEF LoadsAreAlone
    <3>3. Kind(h[2]) \cap Kind(k[2]) = {}
      BY <3>2, Kinds
    <3>4. call[h].stage = "answered" => call[h].value \subseteq Kind(h[2])
      BY DEF GoneInv, LoadsAreOfTheirKind
    <3> QED BY <1>3, <3>2, <3>3, <3>4
  <2>4. \A k \in Loads : call'[k] # Idle => call'[k] = call[k]
    BY <1>1
  <2>5. LoadsAreAlone'
    BY <1>1, <2>1, <2>3, <2>4, Kinds DEF LoadsAreAlone, Under
  <2>6. authToken # None
    BY <1>3, <2>1 DEF SignedOutSeesNothing
  <2> QED BY <1>2, <2>2, <2>5, <2>6 DEF SignedOutSeesNothing
<1> QED BY <1>2, <1>4, <1>5 DEF GoneInv

(* A button is pressed on what the list shows, so no load of it is under way. *)
LEMMA StopKeepsGone ==
    ASSUME GoneInv, LoginInv', NEW i \in Items, handleStop(i)
    PROVE  GoneInv'
<1> USE HandlerFacts
<1>i. CallsTyped
  BY DEF GoneInv, LoginInv
<1>1. OnlyMoves(ItemButton(i))
  BY <1>i, MovesOne DEF handleStop, Click
<1>2. /\ \A h \in Loads : call'[h] = call[h]
      /\ call'[SubmitButton] = call[SubmitButton]
      /\ \A j \in Items : j # i => call'[ItemButton(j)] = call[ItemButton(j)]
  BY <1>1 DEF OnlyMoves
<1>3. /\ UNCHANGED <<authToken, gone, live, interrupted, listed>>
      /\ authToken # None /\ i \in listed
  BY DEF handleStop, Click, pageVars
<1>4. LoadsAreOfTheirKind' /\ SubmitsSignedOut'
  BY <1>2, <1>3 DEF GoneInv, LoadsAreOfTheirKind, SubmitsSignedOut
<1>5. ASSUME ~interrupted
      PROVE  (NothingGoneComesBack /\ LoadsAreAlone /\ SignedOutSeesNothing)'
  <2>1. NothingGoneComesBack /\ LoadsAreAlone
    BY <1>5 DEF GoneInv
  <2>2. NothingGoneComesBack'
    BY <1>2, <1>3, <2>1 DEF NothingGoneComesBack
  <2>3. ASSUME NEW h \in Loads, Under(h) PROVE i \notin Kind(h[2])
    BY <1>3, <2>1, <2>3 DEF LoadsAreAlone
  <2>4. LoadsAreAlone'
    BY <1>2, <1>3, <2>1, <2>3, Kinds DEF LoadsAreAlone, Under
  <2> QED BY <1>3, <2>2, <2>4 DEF SignedOutSeesNothing
<1> QED BY <1>3, <1>4, <1>5 DEF GoneInv

LEMMA StoppedKeepsGone ==
    ASSUME GoneInv, LoginInv', NEW i \in Items, ItemStopped(i)
    PROVE  GoneInv'
<1> USE HandlerFacts
<1>i. CallsTyped
  BY DEF GoneInv, LoginInv
<1>1. OnlyMoves(ItemButton(i)) /\ call'[ItemButton(i)] = Idle
  BY <1>i, MovesOne DEF ItemStopped, Ends
<1>2. /\ \A h \in Loads : call'[h] = call[h]
      /\ call'[SubmitButton] = call[SubmitButton]
      /\ \A j \in Items : call'[ItemButton(j)] \in {call[ItemButton(j)], Idle}
  BY <1>1 DEF OnlyMoves
<1>3. /\ UNCHANGED <<authToken, live, interrupted>>
      /\ listed' = listed \ {i}
      /\ gone' = gone \cup ({i} \ live)
      /\ Under(ItemButton(i))
  BY DEF ItemStopped, Outcome, Under, Idle
<1>4. LoadsAreOfTheirKind' /\ SubmitsSignedOut' /\ (gone \cap live)' = {}
  BY <1>2, <1>3 DEF GoneInv, LoadsAreOfTheirKind, SubmitsSignedOut
<1>5. ASSUME ~interrupted
      PROVE  (NothingGoneComesBack /\ LoadsAreAlone /\ SignedOutSeesNothing)'
  <2>1. NothingGoneComesBack /\ LoadsAreAlone /\ SignedOutSeesNothing
    BY <1>5 DEF GoneInv
  <2>2. ASSUME NEW h \in Loads, call[h].stage = "answered" PROVE i \notin call[h].value
    <3>1. Under(h) /\ call[h].value \subseteq Kind(h[2])
      BY <2>2 DEF GoneInv, LoadsAreOfTheirKind, Under, Idle
    <3> QED BY <1>3, <2>1, <3>1 DEF LoadsAreAlone
  <2>3. NothingGoneComesBack'
    BY <1>2, <1>3, <2>1, <2>2 DEF NothingGoneComesBack
  <2>4. LoadsAreAlone'
    BY <1>2, <1>3, <2>1, Kinds DEF LoadsAreAlone, Under
  <2>5. SignedOutSeesNothing'
    BY <1>2, <1>3, <2>1 DEF SignedOutSeesNothing, Under
  <2> QED BY <2>3, <2>4, <2>5
<1> QED BY <1>3, <1>4, <1>5 DEF GoneInv

LEMMA GoneNextInv == GoneInv /\ [Next]_vars => GoneInv'
<1> SUFFICES ASSUME GoneInv, [Next]_vars PROVE GoneInv'
  OBVIOUS
<1> USE HandlerFacts
<1>i. LoginInv' /\ CallsTyped /\ gone \cap live = {}
  BY LoginNextInv DEF GoneInv, LoginInv
<1>1. CASE Serve
  BY <1>1, <1>i, ServeKeepsGone
<1>2. CASE Others
  BY <1>2, <1>i, ElsewhereKeepsGone DEF Others, adminVars, pageVars
<1>3. CASE ServerRestarts
  BY <1>3, <1>i, ElsewhereKeepsGone DEF ServerRestarts, pageVars
<1>4. CASE Page
  <2>1. CASE handleRequestNonce
    <3>1. OnlyMoves(RequestButton) /\ UNCHANGED <<authToken, interrupted, listed, gone, live>>
      BY <2>1, <1>i, MovesOne DEF handleRequestNonce, Click, pageVars
    <3> QED BY <3>1, <1>i, QuietMove
  <2>2. CASE handleSubmitPassKey
    <3>1. OnlyMoves(SubmitButton) /\ UNCHANGED <<authToken, interrupted, listed, gone, live>>
          /\ authToken = None
      BY <2>2, <1>i, MovesOne DEF handleSubmitPassKey, Click, pageVars
    <3> QED BY <3>1, <1>i, QuietMove
  <2>3. ASSUME NEW code \in Codes, NonceReturns(code) PROVE GoneInv'
    <3>1. OnlyMoves(RequestButton) /\ UNCHANGED <<authToken, interrupted, listed, gone, live>>
      BY <2>3, <1>i, MovesOne DEF NonceReturns, Ends
    <3> QED BY <3>1, <1>i, QuietMove
  <2>4. ASSUME NEW code \in Codes, LoginFails(code) PROVE GoneInv'
    <3>1. OnlyMoves(SubmitButton) /\ UNCHANGED <<authToken, interrupted, listed, gone, live>>
          /\ call'[SubmitButton] = Idle
      BY <2>4, <1>i, MovesOne DEF LoginFails, Ends, pageVars
    <3> QED BY <3>1, <1>i, QuietMove DEF Idle
  <2>5. ASSUME NEW i \in Items, NEW code \in Codes, ItemFails(i, code) PROVE GoneInv'
    <3>1. OnlyMoves(ItemButton(i)) /\ call'[ItemButton(i)] = Idle /\ UNCHANGED <<gone, live>>
      BY <2>5, <1>i, MovesOne DEF ItemFails, Ends
    <3>2. CASE Logout
      BY <3>1, <3>2, <1>i, LogoutKeepsGone DEF OnlyMoves
    <3>3. CASE UNCHANGED <<authToken, listed, interrupted>>
      BY <3>1, <3>3, <1>i, QuietMove
    <3> QED BY <2>5, <3>2, <3>3 DEF ItemFails
  <2>6. CASE logout
    BY <2>6, <1>i, LogoutKeepsGone DEF logout
  <2> QED
    BY <1>4, <1>i, <2>1, <2>2, <2>3, <2>4, <2>5, <2>6, MountKeepsGone, LoginKeepsGone,
       StopKeepsGone, StoppedKeepsGone, LoadKeepsGone DEF Page
<1>5. CASE TimePasses /\ UNCHANGED adminVars
  BY <1>5, <1>i, ElsewhereKeepsGone DEF adminVars
<1>6. CASE UNCHANGED vars
  BY <1>6, <1>i, ElsewhereKeepsGone DEF vars, adminVars
<1> QED BY <1>1, <1>2, <1>3, <1>4, <1>5, <1>6 DEF Next

(* For any stations, archives and nonces: what a button took off a list does
   not come back to it, unless a logout left a call under way. *)
THEOREM RemovedStaysRemoved == Spec => []GoneStaysGone
<1>1. GoneInv => GoneStaysGone
  BY DEF GoneInv, NothingGoneComesBack, GoneStaysGone
<1> QED BY <1>1, GoneInitInv, GoneNextInv, PTL DEF Spec
=============================================================================
