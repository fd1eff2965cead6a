---------------------------- MODULE TokenBuckets ----------------------------
(***************************************************************************)
(* What the rate limiter promises its clients: each has a bucket that      *)
(* starts full and is never thrown away, and a call is refused only when   *)
(* the bucket of its client is empty.                                      *)
(***************************************************************************)
EXTENDS Integers

CONSTANTS
    Clients,
    Rate,           \* tokens a bucket gets per unit of time
    Burst           \* capacity of a bucket

VARIABLES
    clock,
    avail,          \* tokens in each bucket
    refused         \* clients whose last call was refused

vars == <<clock, avail, refused>>

AtMostBurst(n) == IF n > Burst THEN Burst ELSE n

Init == clock = 0 /\ avail = [k \in Clients |-> Burst] /\ refused = {}

Take(k) ==
    /\ avail[k] > 0
    /\ avail' = [avail EXCEPT ![k] = @ - 1]
    /\ refused' = refused \ {k}
    /\ UNCHANGED clock

Refuse(k) ==
    /\ avail[k] = 0
    /\ refused' = refused \cup {k}
    /\ UNCHANGED <<clock, avail>>

Refill ==
    /\ clock' = clock + 1
    /\ avail' = [k \in Clients |-> AtMostBurst(avail[k] + Rate)]
    /\ UNCHANGED refused

Next == Refill \/ \E k \in Clients : Take(k) \/ Refuse(k)

Spec == Init /\ [][Next]_vars
=============================================================================
