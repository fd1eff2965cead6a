--------------------------- MODULE BotAuthProofs ---------------------------
(***************************************************************************)
(* The bot is refused only when it is late.  The heart of it is who holds  *)
(* a nonce: the one call that was given it, which is the only one that     *)
(* sends it back, so it is in the map until then, unless the server has    *)
(* restarted.  A token that a call has earned itself is as young as the    *)
(* call; a refusal of one that was kept is followed by another try.        *)
(***************************************************************************)
EXTENDS BotAuth, FiniteSetTheorems, TLAPS

(* What may come of each step of a call. *)
Answered(c) ==
    \E again \in BOOLEAN, code \in {"ok", "unauthenticated", "lost"},
       v \in Nonces \cup Token \cup {None}, at \in {"requesting", "responding", "deleting"} :
         /\ c = [at |-> "answered", call |-> at, again |-> again, code |-> code, value |-> v]
         /\ at = "requesting" => code # "unauthenticated" /\ (code = "ok" => v \in Nonces)
         /\ at = "responding" /\ code = "ok" => v \in Token

\* The stages of a deleteSession, with what each carries.
Stage(c) ==
    \/ c = Idle
    \/ c = Requesting
    \/ \E n \in Nonces : c = Responding(n)
    \/ \E t \in Token, again \in BOOLEAN : c = Deleting(t, again)
    \/ Answered(c)

\* Nonce n is in the hands of a call: given to it, or on its way back.
Holds(c, n) ==
    \/ c.at = "responding" /\ c.with = n
    \/ c.at = "answered" /\ c.call = "requesting" /\ c.code = "ok" /\ c.value = n

\* Token t was earned by a call, which is about to use it.
Earned(c, t) ==
    \/ c.at = "deleting" /\ ~c.again /\ c.with = t
    \/ c.at = "answered" /\ c.call = "responding" /\ c.code = "ok" /\ c.value = t

IsRefused(c) ==
    c.at = "answered" /\ c.code = "unauthenticated" /\ ~(c.call = "deleting" /\ c.again)

Late(d) ==
    forgot[d] \/ time > began[d] + NonceTTL \/ time > began[d] + TokenTTL

Typed ==
    /\ AuthTypeOK
    /\ IsFiniteSet(tokens)
    /\ authToken \in Token \cup {None}
    /\ stop = [d \in Stops |-> stop[d]]
    /\ \A d \in Stops : Stage(stop[d])
    /\ began \in [Stops -> Nat]
    /\ forgot \in [Stops -> BOOLEAN]
    /\ \A d \in Stops : began[d] <= time

(* A held nonce is its holder's alone. *)
NoncesHaveOneHolder ==
    \A d, e \in Stops, n \in Nonces : Holds(stop[d], n) /\ Holds(stop[e], n) => d = e

(* It is no older than its holder's call, and in the map unless the server has
   restarted. *)
HeldNoncesAreGood ==
    \A d \in Stops, n \in Nonces : Holds(stop[d], n) =>
        /\ issuedAt[n] # Never /\ began[d] <= issuedAt[n]
        /\ n \in nonces \/ forgot[d]

(* A token that a call has earned was given after the call began. *)
EarnedTokensAreYoung ==
    \A d \in Stops, t \in Token : Earned(stop[d], t) => began[d] + TokenTTL <= t.exp

RefusedAreLate == \A d \in Stops : IsRefused(stop[d]) => Late(d)

IInv ==
    /\ Typed
    /\ NoncesHaveOneHolder
    /\ HeldNoncesAreGood
    /\ EarnedTokensAreYoung
    /\ RefusedAreLate

-----------------------------------------------------------------------------
(* What each stage holds.                                                  *)

LEMMA FreshStages ==
    ASSUME NEW c, c = Idle \/ c = Requesting \/ \E t \in Token : c = Deleting(t, TRUE)
    PROVE  /\ \A n : ~Holds(c, n)
           /\ \A t : ~Earned(c, t)
           /\ ~IsRefused(c)
BY DEF Idle, Requesting, Deleting, Holds, Earned, IsRefused

LEMMA StageAt ==
    ASSUME NEW c, Stage(c)
    PROVE  /\ c.at = "responding" => \E n \in Nonces : c = Responding(n)
           /\ c.at = "deleting" => \E t \in Token, again \in BOOLEAN : c = Deleting(t, again)
           /\ c.at = "answered" => Answered(c)
<1>1. CASE c = Idle \/ c = Requesting
  BY <1>1 DEF Idle, Requesting
<1>2. CASE \E n \in Nonces : c = Responding(n)
  BY <1>2 DEF Responding
<1>3. CASE \E t \in Token, again \in BOOLEAN : c = Deleting(t, again)
  BY <1>3 DEF Deleting
<1>4. CASE Answered(c)
  <2>1. c.at = "answered"
    BY <1>4 DEF Answered
  <2> QED BY <1>4, <2>1
<1> QED BY <1>1, <1>2, <1>3, <1>4 DEF Stage

LEMMA InitInv == Init => IInv
<1> SUFFICES ASSUME Init PROVE IInv
  OBVIOUS
<1>1. \A d \in Stops : stop[d] = Idle /\ began[d] = 0
  BY DEF Init
<1>2. Typed
  <2>1. AuthTypeOK
    BY DEF Init, AuthInit, AuthTypeOK, Never
  <2>2. IsFiniteSet(tokens)
    BY FS_EmptySet DEF Init, AuthInit
  <2> QED BY <1>1, <2>1, <2>2 DEF Init, Typed, Stage, AuthInit
<1>3. NoncesHaveOneHolder /\ HeldNoncesAreGood /\ EarnedTokensAreYoung /\ RefusedAreLate
  BY <1>1, FreshStages
     DEF NoncesHaveOneHolder, HeldNoncesAreGood, EarnedTokensAreYoung, RefusedAreLate
<1> QED BY <1>2, <1>3 DEF IInv

(* A call that goes on without the server, and without a nonce or a token that
   it did not have. *)
LEMMA QuietKeepsInv ==
    ASSUME IInv, NEW d \in Stops, NEW c, Stage(c), stop' = [stop EXCEPT ![d] = c],
           UNCHANGED <<authVars, began, forgot>>, authToken' \in Token \cup {None},
           \A n \in Nonces : Holds(c, n) => Holds(stop[d], n),
           \A t \in Token : Earned(c, t) => Earned(stop[d], t),
           IsRefused(c) => Late(d)
    PROVE  IInv'
<1>1. stop'[d] = c /\ \A e \in Stops : e # d => stop'[e] = stop[e]
  BY DEF IInv, Typed
<1>2. UNCHANGED <<time, nonces, issuedAt, tokens, began, forgot>>
  BY DEF authVars
<1>3. Typed'
  BY <1>1, <1>2 DEF IInv, Typed, AuthTypeOK
<1>4. NoncesHaveOneHolder'
  BY <1>1 DEF IInv, NoncesHaveOneHolder
<1>5. HeldNoncesAreGood'
  BY <1>1, <1>2 DEF IInv, HeldNoncesAreGood
<1>6. EarnedTokensAreYoung'
  BY <1>1, <1>2 DEF IInv, EarnedTokensAreYoung
<1>7. RefusedAreLate'
  BY <1>1, <1>2 DEF IInv, RefusedAreLate, Late
<1> QED BY <1>3, <1>4, <1>5, <1>6, <1>7 DEF IInv

-----------------------------------------------------------------------------
(* The server's answers.                                                   *)

\* An answer, of the form that Answer gives it.
AnswerTo(at, again, code, v) ==
    [at |-> "answered", call |-> at, again |-> again, code |-> code, value |-> v]

LEMMA IssueKeepsInv ==
    ASSUME IInv, NEW d \in Stops, NEW n \in Nonces, stop[d].at = "requesting",
           IssueNonce(n), Answers(d, "ok", n), UNCHANGED <<authToken, began, forgot>>
    PROVE  IInv'
<1> DEFINE c == AnswerTo("requesting", FALSE, "ok", n)
<1>1. /\ stop' = [stop EXCEPT ![d] = c]
      /\ stop'[d] = c /\ \A e \in Stops : e # d => stop'[e] = stop[e]
  BY DEF Answers, Answer, IInv, Typed, AnswerTo
<1>2. /\ issuedAt[n] = Never
      /\ issuedAt' = [issuedAt EXCEPT ![n] = time]
      /\ nonces' = nonces \cup {n}
      /\ UNCHANGED <<time, tokens>>
  BY DEF IssueNonce
<1>3. /\ Stage(c) /\ ~IsRefused(c)
      /\ \A m : Holds(c, m) => m = n
      /\ \A t : ~Earned(c, t)
  BY DEF AnswerTo, Stage, Answered, Holds, Earned, IsRefused
<1> HIDE DEF c
<1>4. \A e \in Stops : ~Holds(stop[e], n)
  BY <1>2 DEF IInv, HeldNoncesAreGood
<1>5. Typed'
  BY <1>1, <1>2, <1>3 DEF IInv, Typed, AuthTypeOK
<1>6. NoncesHaveOneHolder'
  BY <1>1, <1>3, <1>4 DEF IInv, NoncesHaveOneHolder
<1>7. HeldNoncesAreGood'
  <2> SUFFICES ASSUME NEW e \in Stops, NEW m \in Nonces, Holds(stop'[e], m)
               PROVE  /\ issuedAt'[m] # Never /\ began[e] <= issuedAt'[m]
                      /\ m \in nonces' \/ forgot[e]
    BY DEF HeldNoncesAreGood
  <2>1. CASE e = d
    <3>1. m = n /\ issuedAt'[m] = time
      BY <1>1, <1>2, <1>3, <2>1 DEF IInv, Typed, AuthTypeOK
    <3> QED BY <3>1, <1>2, <2>1 DEF IInv, Typed, AuthTypeOK, Never
  <2>2. CASE e # d
    <3>1. Holds(stop[e], m) /\ m # n
      BY <1>1, <1>4, <2>2
    <3> QED BY <3>1, <1>2 DEF IInv, HeldNoncesAreGood, Typed, AuthTypeOK
  <2> QED BY <2>1, <2>2
<1>8. EarnedTokensAreYoung'
  BY <1>1, <1>3 DEF IInv, EarnedTokensAreYoung
<1>9. RefusedAreLate'
  BY <1>1, <1>2, <1>3 DEF IInv, RefusedAreLate, Late
<1> QED BY <1>5, <1>6, <1>7, <1>8, <1>9 DEF IInv

LEMMA NewTokenTyped ==
    ASSUME IInv, NEW n \in Nonces
    PROVE  /\ NewToken(n) \in Token
           /\ NewToken(n).exp = time + TokenTTL
           /\ IsFiniteSet(tokens \cup {NewToken(n)})
<1>1. IsFiniteSet({t \in tokens : t.for = n})
  BY FS_Subset DEF IInv, Typed
<1>2. Cardinality({t \in tokens : t.for = n}) \in Nat
  BY <1>1, FS_CardinalityType
<1>3. IsFiniteSet(tokens \cup {NewToken(n)})
  BY FS_AddElement DEF IInv, Typed
<1> QED BY <1>2, <1>3, AuthAssumption DEF NewToken, Token, IInv, Typed, AuthTypeOK

LEMMA ConsumeKeepsInv ==
    ASSUME IInv, NEW d \in Stops, NEW n \in Nonces, Holds(stop[d], n),
           stop[d].at = "responding",
           ConsumeNonce(n), Answers(d, "ok", NewToken(n)), UNCHANGED <<authToken, began, forgot>>
    PROVE  IInv'
<1> DEFINE new == NewToken(n)
           c == AnswerTo("responding", FALSE, "ok", new)
<1>1. new \in Token /\ new.exp = time + TokenTTL
  BY NewTokenTyped
<1>2. /\ nonces' = nonces \ {n}
      /\ tokens' = tokens \cup {new}
      /\ UNCHANGED <<time, issuedAt>>
  BY DEF ConsumeNonce, Without
<1>3. IsFiniteSet(tokens')
  BY <1>2, NewTokenTyped
<1> HIDE DEF new
<1>4. /\ stop' = [stop EXCEPT ![d] = c]
      /\ stop'[d] = c /\ \A e \in Stops : e # d => stop'[e] = stop[e]
  BY DEF Answers, Answer, IInv, Typed, AnswerTo, new
<1>5. /\ Stage(c) /\ ~IsRefused(c)
      /\ \A m : ~Holds(c, m)
      /\ \A t : Earned(c, t) => t = new
  BY <1>1 DEF AnswerTo, Stage, Answered, Holds, Earned, IsRefused
<1> HIDE DEF c
<1>6. Typed'
  BY <1>1, <1>2, <1>3, <1>4, <1>5 DEF IInv, Typed, AuthTypeOK
<1>7. NoncesHaveOneHolder'
  BY <1>4, <1>5 DEF IInv, NoncesHaveOneHolder
<1>8. HeldNoncesAreGood'
  <2> SUFFICES ASSUME NEW e \in Stops, NEW m \in Nonces, Holds(stop'[e], m)
               PROVE  /\ issuedAt'[m] # Never /\ began[e] <= issuedAt'[m]
                      /\ m \in nonces' \/ forgot[e]
    BY DEF HeldNoncesAreGood
  <2>1. e # d /\ Holds(stop[e], m)
    BY <1>4, <1>5
  <2>2. m # n
    BY <2>1 DEF IInv, NoncesHaveOneHolder
  <2> QED BY <1>2, <2>1, <2>2 DEF IInv, HeldNoncesAreGood
<1>9. EarnedTokensAreYoung'
  <2> SUFFICES ASSUME NEW e \in Stops, NEW t \in Token, Earned(stop'[e], t)
               PROVE  began[e] + TokenTTL <= t.exp
    BY DEF EarnedTokensAreYoung
  <2>1. CASE e = d
    BY <1>1, <1>4, <1>5, <2>1, AuthAssumption DEF IInv, Typed, AuthTypeOK
  <2>2. CASE e # d
    BY <1>4, <2>2 DEF IInv, EarnedTokensAreYoung
  <2> QED BY <2>1, <2>2
<1>10. RefusedAreLate'
  BY <1>2, <1>4, <1>5 DEF IInv, RefusedAreLate, Late
<1> QED BY <1>6, <1>7, <1>8, <1>9, <1>10 DEF IInv

(* A nonce that is refused to its holder has expired or was forgotten. *)
LEMMA RefusedNonceIsLate ==
    ASSUME IInv, NEW d \in Stops, NEW n \in Nonces, Holds(stop[d], n), NonceRefused(n)
    PROVE  Late(d)
<1>1. issuedAt[n] \in Nat /\ began[d] \in Nat /\ time \in Nat
  BY DEF IInv, Typed, AuthTypeOK, HeldNoncesAreGood
<1>2. began[d] <= issuedAt[n] /\ (n \in nonces \/ forgot[d])
  BY DEF IInv, HeldNoncesAreGood
<1> QED BY <1>1, <1>2, AuthAssumption DEF NonceRefused, NonceValid, Late

LEMMA ServeKeepsInv ==
    ASSUME IInv, NEW d \in Stops, Serve(d)
    PROVE  IInv'
<1>0. Stage(stop[d]) /\ UNCHANGED <<authToken, began, forgot>>
  BY DEF Serve, IInv, Typed
<1>1. CASE stop[d].at = "requesting"
  <2>1. PICK n \in Nonces : IssueNonce(n) /\ Answers(d, "ok", n)
    BY <1>1 DEF Serve
  <2> QED BY <1>0, <1>1, <2>1, IssueKeepsInv
<1>2. CASE stop[d].at = "responding"
  <2>1. PICK n \in Nonces : stop[d] = Responding(n)
    BY <1>0, <1>2, StageAt
  <2>2. Holds(stop[d], n) /\ stop[d].with = n
    BY <2>1 DEF Holds, Responding
  <2>3. CASE ConsumeNonce(n) /\ Answers(d, "ok", NewToken(n))
    BY <1>0, <1>2, <2>2, <2>3, ConsumeKeepsInv
  <2>4. CASE NonceRefused(n) /\ Answers(d, "unauthenticated", None)
    <3> DEFINE c == AnswerTo("responding", FALSE, "unauthenticated", None)
    <3>1. stop' = [stop EXCEPT ![d] = c] /\ UNCHANGED authVars
      BY <1>2, <2>4 DEF Answers, Answer, AnswerTo, NonceRefused
    <3>2. Stage(c) /\ (\A m : ~Holds(c, m)) /\ (\A t : ~Earned(c, t))
      BY DEF AnswerTo, Stage, Answered, Holds, Earned
    <3>3. Late(d)
      BY <2>2, <2>4, RefusedNonceIsLate
    <3> HIDE DEF c
    <3>4. authToken' \in Token \cup {None}
      BY <1>0 DEF IInv, Typed
    <3> QED BY <1>0, <3>1, <3>2, <3>3, <3>4, QuietKeepsInv
  <2> QED BY <1>2, <2>2, <2>3, <2>4 DEF Serve
<1>3. CASE stop[d].at = "deleting"
  <2>1. PICK t \in Token, again \in BOOLEAN : stop[d] = Deleting(t, again)
    BY <1>0, <1>3, StageAt
  <2> DEFINE code == IF VerifyToken(t) THEN "ok" ELSE "unauthenticated"
             c == AnswerTo("deleting", again, code, None)
  <2>2. stop' = [stop EXCEPT ![d] = c] /\ UNCHANGED authVars
    BY <1>3, <2>1 DEF Serve, Answers, Answer, AnswerTo, Deleting
  <2>3. Stage(c) /\ (\A m : ~Holds(c, m)) /\ (\A u : ~Earned(c, u))
    BY DEF AnswerTo, Stage, Answered, Holds, Earned
  <2>4. IsRefused(c) => Late(d)
    <3> SUFFICES ASSUME IsRefused(c) PROVE Late(d)
      OBVIOUS
    <3>1. ~VerifyToken(t) /\ ~again
      BY DEF IsRefused, AnswerTo
    <3>2. Earned(stop[d], t)
      BY <2>1, <3>1 DEF Earned, Deleting
    <3>3. began[d] + TokenTTL <= t.exp /\ t.exp \in Nat
      BY <3>2 DEF IInv, EarnedTokensAreYoung, Token
    <3> QED BY <3>1, <3>3, AuthAssumption DEF VerifyToken, Late, IInv, Typed, AuthTypeOK
  <2> HIDE DEF c
  <2>5. authToken' \in Token \cup {None}
    BY <1>0 DEF IInv, Typed
  <2> QED BY <1>0, <2>2, <2>3, <2>4, <2>5, QuietKeepsInv
<1> QED BY <1>1, <1>2, <1>3 DEF Serve

-----------------------------------------------------------------------------
(* The bot.                                                                *)

LEMMA BeginKeepsInv ==
    ASSUME IInv, NEW d \in Stops, deleteSession(d)
    PROVE  IInv'
<1> DEFINE c == IF authToken # None THEN Deleting(authToken, TRUE) ELSE Requesting
<1>1. /\ stop' = [stop EXCEPT ![d] = c]
      /\ stop'[d] = c /\ \A e \in Stops : e # d => stop'[e] = stop[e]
  BY DEF deleteSession, getAuthToken, IInv, Typed
<1>2. /\ began' = [began EXCEPT ![d] = time]
      /\ forgot' = [forgot EXCEPT ![d] = FALSE]
      /\ UNCHANGED <<time, nonces, issuedAt, tokens, authToken>>
  BY DEF deleteSession, authVars
<1>3. c = Requesting \/ \E t \in Token : c = Deleting(t, TRUE)
  BY DEF IInv, Typed
<1>4. /\ Stage(c) /\ ~IsRefused(c)
      /\ \A n : ~Holds(c, n)
      /\ \A t : ~Earned(c, t)
  BY <1>3, FreshStages DEF Stage
<1> HIDE DEF c
<1>5. Typed'
  BY <1>1, <1>2, <1>4 DEF IInv, Typed, AuthTypeOK
<1>6. NoncesHaveOneHolder'
  BY <1>1, <1>4 DEF IInv, NoncesHaveOneHolder
<1>7. \A e \in Stops : e # d => began'[e] = began[e] /\ forgot'[e] = forgot[e]
  BY <1>2 DEF IInv, Typed
<1>8. HeldNoncesAreGood'
  BY <1>1, <1>2, <1>4, <1>7 DEF IInv, HeldNoncesAreGood
<1>9. EarnedTokensAreYoung'
  BY <1>1, <1>4, <1>7 DEF IInv, EarnedTokensAreYoung
<1>10. RefusedAreLate'
  BY <1>1, <1>2, <1>4, <1>7 DEF IInv, RefusedAreLate, Late
<1> QED BY <1>5, <1>6, <1>8, <1>9, <1>10 DEF IInv

LEMMA GoesOnKeepsInv ==
    ASSUME IInv, NEW d \in Stops,
           signNonce(d) \/ acquireAuthToken(d) \/ withAuthAgain(d) \/ Stopped(d) \/ StopFails(d)
    PROVE  IInv'
<1>1. authToken \in Token \cup {None} /\ Stage(stop[d])
  BY DEF IInv, Typed
<1>2. CASE signNonce(d)
  <2> DEFINE n == stop[d].value
             c == Responding(n)
  <2>1. /\ stop' = [stop EXCEPT ![d] = c]
        /\ UNCHANGED <<authVars, authToken, began, forgot>>
    BY <1>2 DEF signNonce
  <2>2. Holds(stop[d], n)
    BY <1>2 DEF signNonce, Takes, Holds
  <2>3. n \in Nonces
    <3>1. Answered(stop[d]) /\ stop[d].call = "requesting" /\ stop[d].code = "ok"
      BY <1>1, <1>2, StageAt DEF signNonce, Takes
    <3> QED BY <3>1 DEF Answered
  <2> HIDE DEF n
  <2>4. /\ Stage(c) /\ ~IsRefused(c)
        /\ \A m : Holds(c, m) => m = n
        /\ \A t : ~Earned(c, t)
    BY <2>3 DEF Stage, Responding, Holds, Earned, IsRefused
  <2> HIDE DEF c
  <2> QED BY <1>1, <2>1, <2>2, <2>4, QuietKeepsInv
<1>3. CASE acquireAuthToken(d)
  <2> DEFINE t == stop[d].value
             c == Deleting(t, FALSE)
  <2>1. /\ stop' = [stop EXCEPT ![d] = c]
        /\ UNCHANGED <<authVars, began, forgot>>
        /\ authToken' \in {authToken, t}
    BY <1>3 DEF acquireAuthToken, setAuthToken
  <2>2. Earned(stop[d], t)
    BY <1>3 DEF acquireAuthToken, Takes, Earned
  <2>3. t \in Token
    <3>1. Answered(stop[d]) /\ stop[d].call = "responding" /\ stop[d].code = "ok"
      BY <1>1, <1>3, StageAt DEF acquireAuthToken, Takes
    <3> QED BY <3>1 DEF Answered
  <2> HIDE DEF t
  <2>4. /\ Stage(c) /\ ~IsRefused(c)
        /\ \A n : ~Holds(c, n)
        /\ \A u : Earned(c, u) => u = t
    BY <2>3 DEF Stage, Deleting, Holds, Earned, IsRefused
  <2> HIDE DEF c
  <2> QED BY <1>1, <2>1, <2>2, <2>3, <2>4, QuietKeepsInv
<1>4. CASE withAuthAgain(d)
  <2>1. /\ stop' = [stop EXCEPT ![d] = Requesting]
        /\ UNCHANGED <<authVars, authToken, began, forgot>>
    BY <1>4 DEF withAuthAgain
  <2> QED BY <1>1, <2>1, FreshStages, QuietKeepsInv DEF Stage
<1>5. CASE Stopped(d) \/ StopFails(d)
  <2>1. /\ stop' = [stop EXCEPT ![d] = Idle]
        /\ UNCHANGED <<authVars, began, forgot>>
        /\ authToken' \in {authToken, None}
    BY <1>5 DEF Stopped, StopFails
  <2> QED BY <1>1, <2>1, FreshStages, QuietKeepsInv DEF Stage
<1> QED BY <1>2, <1>3, <1>4, <1>5

LEMMA LoseKeepsInv ==
    ASSUME IInv, NEW d \in Stops, Lose(d)
    PROVE  IInv'
<1>1. authToken' \in Token \cup {None} /\ Stage(stop[d])
  BY DEF Lose, IInv, Typed
<1>2. PICK c : /\ stop' = [stop EXCEPT ![d] = c]
               /\ Answered(c)
               /\ c.at = "answered" /\ c.code = "lost"
  <2>1. CASE /\ stop[d].at \in {"requesting", "responding", "deleting"}
             /\ Answers(d, "lost", None)
    <3> DEFINE at == stop[d].at
               again == at = "deleting" /\ stop[d].again
               c == AnswerTo(at, again, "lost", None)
    <3>1. stop' = [stop EXCEPT ![d] = c]
      BY <2>1 DEF Answers, Answer, AnswerTo
    <3>2. again \in BOOLEAN
      OBVIOUS
    <3>3. Answered(c) /\ c.at = "answered" /\ c.code = "lost"
      <4> HIDE DEF again
      <4> QED BY <2>1, <3>2 DEF Answered, AnswerTo
    <3> QED BY <3>1, <3>3
  <2>2. CASE stop[d].at = "answered" /\ stop' = [stop EXCEPT ![d].code = "lost"]
    <3>1. PICK again \in BOOLEAN, code \in {"ok", "unauthenticated", "lost"},
               v \in Nonces \cup Token \cup {None},
               at \in {"requesting", "responding", "deleting"} :
                 stop[d] = AnswerTo(at, again, code, v)
      BY <1>1, <2>2, StageAt DEF Answered, AnswerTo
    <3> DEFINE c == AnswerTo(at, again, "lost", v)
    <3>2. stop' = [stop EXCEPT ![d] = c]
      <4>1. stop' = [stop EXCEPT ![d] = [stop[d] EXCEPT !.code = "lost"]]
        BY <2>2
      <4>2. [stop[d] EXCEPT !.code = "lost"] = c
        BY <3>1 DEF AnswerTo
      <4> QED BY <4>1, <4>2
    <3>3. Answered(c) /\ c.at = "answered" /\ c.code = "lost"
      BY DEF Answered, AnswerTo
    <3> QED BY <3>2, <3>3
  <2> QED BY <2>1, <2>2 DEF Lose
<1>3. Stage(c) /\ (\A n : ~Holds(c, n)) /\ (\A t : ~Earned(c, t)) /\ ~IsRefused(c)
  BY <1>2 DEF Stage, Holds, Earned, IsRefused
<1>4. UNCHANGED <<authVars, began, forgot>>
  BY DEF Lose
<1> QED BY <1>1, <1>2, <1>3, <1>4, QuietKeepsInv

LEMMA NextInv == IInv /\ [Next]_vars => IInv'
<1> SUFFICES ASSUME IInv, [Next]_vars PROVE IInv'
  OBVIOUS
<1> USE DEF NoncesHaveOneHolder, HeldNoncesAreGood, EarnedTokensAreYoung, RefusedAreLate, Late
<1>1. ASSUME NEW d \in Stops,
             \/ deleteSession(d) \/ signNonce(d) \/ acquireAuthToken(d) \/ withAuthAgain(d)
             \/ Stopped(d) \/ StopFails(d) \/ Serve(d) \/ Lose(d)
      PROVE  IInv'
  BY <1>1, BeginKeepsInv, GoesOnKeepsInv, ServeKeepsInv, LoseKeepsInv
<1>2. CASE Plays
  BY <1>2 DEF Plays, IInv, Typed, authVars, AuthTypeOK
<1>3. CASE ServerRestarts
  BY <1>3 DEF ServerRestarts, Restart, IInv, Typed, AuthTypeOK
<1>4. CASE TimePasses /\ UNCHANGED botVars
  BY <1>4, AuthAssumption DEF TimePasses, botVars, IInv, Typed, AuthTypeOK
<1>5. CASE UNCHANGED vars
  BY <1>5 DEF vars, authVars, botVars, IInv, Typed, AuthTypeOK
<1> QED BY <1>1, <1>2, <1>3, <1>4, <1>5 DEF Next

-----------------------------------------------------------------------------
(* For any nonces, lifetimes and /stop commands at once: the bot is turned away
   only when a call outlasts its nonce or its token, or the server forgot it. *)
THEOREM RefusedOnlyWhenLate == Spec => []BotRefusedOnlyWhenLate
<1>1. IInv => BotRefusedOnlyWhenLate
  BY DEF IInv, RefusedAreLate, IsRefused, Late, BotRefusedOnlyWhenLate, Refused, TriesAgain, Takes
<1> QED BY <1>1, InitInv, NextInv, PTL DEF Spec
=============================================================================
