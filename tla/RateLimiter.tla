---------------------------- MODULE RateLimiter ----------------------------
(***************************************************************************)
(* The rate limiter of the server (ipRateLimiter): a map from clients to   *)
(* token buckets, made on a client's first call and purged when the client *)
(* has been idle for too long.  A bucket is a rate.Limiter of the library, *)
(* which keeps the tokens it had when a call last got one, and the time.   *)
(***************************************************************************)
EXTENDS Integers

CONSTANTS
    Clients,        \* what clientKey tells apart
    Rate,           \* tokens per unit of time
    Burst,          \* capacity of a bucket
    MaxIdle,        \* an entry idle for longer is purged
    NoLimiter       \* the map has no entry

Limiter == [tokens : 0..Burst, last : Nat, lastSeen : Nat]

(* A bucket that was idle for longer than MaxIdle is full. *)
ASSUME LimiterAssumption ==
    /\ Rate \in Nat
    /\ Burst \in Nat \ {0}
    /\ MaxIdle \in Nat
    /\ Burst <= Rate * (MaxIdle + 1)
    /\ NoLimiter \notin Limiter

VARIABLES
    clock,
    limiters,       \* the map
    refused         \* history: clients whose last call was refused

limiterVars == <<clock, limiters, refused>>

LimiterTypeOK ==
    /\ clock \in Nat
    /\ limiters \in [Clients -> Limiter \cup {NoLimiter}]
    /\ refused \subseteq Clients

LimiterInit ==
    /\ clock = 0
    /\ limiters = [k \in Clients |-> NoLimiter]
    /\ refused = {}

AtMostBurst(n) == IF n > Burst THEN Burst ELSE n

\* rate.Limiter: the tokens that a bucket has by now.
Tokens(e) == AtMostBurst(e.tokens + Rate * (clock - e.last))

\* The entry of a client, made if there is none.
Entry(k) ==
    IF limiters[k] = NoLimiter
    THEN [tokens |-> Burst, last |-> clock, lastSeen |-> clock]
    ELSE limiters[k]

Granted(k) ==
    /\ Tokens(Entry(k)) >= 1
    /\ limiters' = [limiters EXCEPT
                      ![k] = [tokens |-> Tokens(Entry(k)) - 1,
                              last |-> clock, lastSeen |-> clock]]
    /\ refused' = refused \ {k}
    /\ UNCHANGED clock

Denied(k) ==
    /\ Tokens(Entry(k)) = 0
    /\ limiters' = [limiters EXCEPT ![k] = [Entry(k) EXCEPT !.lastSeen = clock]]
    /\ refused' = refused \cup {k}
    /\ UNCHANGED clock

allow(k, ok) == (ok /\ Granted(k)) \/ (~ok /\ Denied(k))

\* Mutant: entries are purged as soon as they are idle.
IdleAtAll(e) == clock > e.lastSeen

IdleTooLong(e) == clock - e.lastSeen > MaxIdle

\* A tick of startCleanup.
Cleanup ==
    /\ limiters' = [k \in Clients |->
                      IF limiters[k] # NoLimiter /\ IdleTooLong(limiters[k])
                      THEN NoLimiter ELSE limiters[k]]
    /\ UNCHANGED <<clock, refused>>

TimePasses ==
    /\ clock' = clock + 1
    /\ UNCHANGED <<limiters, refused>>

LimiterNext ==
    \/ \E k \in Clients, ok \in BOOLEAN : allow(k, ok)
    \/ Cleanup
    \/ TimePasses

LimiterSpec == LimiterInit /\ [][LimiterNext]_limiterVars

-----------------------------------------------------------------------------
(* The limiter is buckets that are never thrown away: what it forgets of a
   client, startCleanup's purge included, is a bucket that is full by then,
   so no client gets tokens by having been purged. *)
Unpurged == INSTANCE TokenBuckets WITH
    avail <- [k \in Clients |-> Tokens(Entry(k))]

ForgetsFullBucketsOnly == Unpurged!Spec
=============================================================================
