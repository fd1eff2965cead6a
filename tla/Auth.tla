-------------------------------- MODULE Auth --------------------------------
(***************************************************************************)
(* The admin's authentication on the server: a nonce is issued, comes back *)
(* signed once before it expires, and earns a token, which is checked by   *)
(* its signature and its expiry alone.  Signatures are not modelled: only  *)
(* who holds the private key (the admin, the bot) answers a nonce.         *)
(* A restart of the server forgets the nonces, and no token.               *)
(***************************************************************************)
EXTENDS Integers, FiniteSets

CONSTANTS
    Nonces,         \* the nonces that may be drawn
    NonceTTL,
    TokenTTL

ASSUME AuthAssumption == NonceTTL \in Nat /\ TokenTTL \in Nat

VARIABLES
    time,
    nonces,         \* the nonces of the map
    issuedAt,       \* when each was issued (the map has its expiry), or Never
    tokens          \* history: the tokens given out

authVars == <<time, nonces, issuedAt, tokens>>

Never == -1

\* A token is its expiry; the nonce it was given for, and how many tokens
\* that nonce had earned before, are history.
Token == [for : Nonces, exp : Nat, nth : Nat]

AuthTypeOK ==
    /\ time \in Nat
    /\ nonces \subseteq Nonces
    /\ issuedAt \in [Nonces -> Nat \cup {Never}]
    /\ tokens \subseteq Token

AuthInit ==
    /\ time = 0
    /\ nonces = {}
    /\ issuedAt = [n \in Nonces |-> Never]
    /\ tokens = {}

IssueNonce(n) ==
    /\ issuedAt[n] = Never
    /\ issuedAt' = [issuedAt EXCEPT ![n] = time]
    /\ nonces' = nonces \cup {n}
    /\ UNCHANGED <<time, tokens>>

\* Mutant: an accepted nonce is kept.
KeepsNonce(n) == nonces

NonceValid(n) == n \in nonces /\ time <= issuedAt[n] + NonceTTL

Without(n) == nonces \ {n}

NewToken(n) ==
    [for |-> n, exp |-> time + TokenTTL, nth |-> Cardinality({t \in tokens : t.for = n})]

\* RespondNonce, with the signature of n.
ConsumeNonce(n) ==
    /\ NonceValid(n)
    /\ nonces' = Without(n)
    /\ tokens' = tokens \cup {NewToken(n)}
    /\ UNCHANGED <<time, issuedAt>>

NonceRefused(n) == ~NonceValid(n) /\ UNCHANGED authVars

VerifyToken(token) == time <= token.exp

TimePasses ==
    /\ time' = time + 1
    /\ UNCHANGED <<nonces, issuedAt, tokens>>

Restart ==
    /\ nonces' = {}
    /\ UNCHANGED <<time, issuedAt, tokens>>

-----------------------------------------------------------------------------
(* A token is worth an answer that its nonce got in time: it expires within
   the two lifetimes of the nonce's issue, and no nonce earns two of them,
   however the answers race (ConsumeNonce, NewToken). *)
TokensAreBacked ==
    /\ \A t \in tokens :
         /\ issuedAt[t.for] # Never
         /\ t.exp <= issuedAt[t.for] + NonceTTL + TokenTTL
    /\ \A t \in tokens : t.nth = 0
=============================================================================
