----------------------------- MODULE SearchCache -----------------------------
(***************************************************************************)
(* The route GET /api/youtube-search of the web server and its cache of    *)
(* answers, a JavaScript Map that is kept in insertion order.  A request   *)
(* runs without interruption up to its await of YouTube, and from there to *)
(* its end, so requests interleave only around that await.                 *)
(*                                                                         *)
(* Queries that differ in their case are one query.  The page token n      *)
(* stands for that of page n + 1, and NoToken for the first page's, which  *)
(* has none.  An answer that succeeds is known by its key.                 *)
(***************************************************************************)
EXTENDS Naturals, Sequences, Subsequences

CONSTANTS
    Queries,            \* what listeners search for, in lower case
    LastPage,           \* token of YouTube's last page of results
    Requests,           \* requests the route may have open at once
    CACHE_TTL,          \* lifetime of an entry
    CACHE_MAX_ENTRIES,
    MaxTime             \* bound on the clock

ASSUME SearchAssumption ==
    /\ LastPage \in Nat
    /\ CACHE_TTL \in Nat \ {0}
    /\ CACHE_MAX_ENTRIES \in Nat \ {0}
    /\ MaxTime \in Nat

VARIABLES
    now,                \* Date.now()
    apiKey,             \* whether YOUTUBE_API_KEY is set
    cache,              \* the Map: entries, the first inserted first
    request,            \* what each open request has come to
    watched,            \* history: the key that the next two are about, any one
    storedAt,           \* history: when it was last stored, or Never
    evicted,            \* history: whether it was evicted since
    refreshed           \* history: entries overwritten where they were

history == <<watched, storedAt, evicted>>
cacheVars == <<now, apiKey, cache, request, history, refreshed>>

NoToken == 0
Tokens == NoToken..LastPage
Keys == Queries \X Tokens
Never == MaxTime + 1

cacheKey(query, token) == <<query, token>>

\* The token of the page after this one, if YouTube has one.
NextToken(key) == IF key[2] < LastPage THEN key[2] + 1 ELSE NoToken

Entries == [key : Keys, expiresAt : Nat]
Unserved == [stage : {"sent", "fetching"}, key : Keys, awaited : BOOLEAN]
Statuses == {200, 429, 502, 503}
Served == [stage : {"answered"}, key : Keys, status : Statuses]
Closed == [stage |-> "closed"]

CacheTypeOK ==
    /\ now \in 0..MaxTime
    /\ apiKey \in BOOLEAN
    /\ cache \in Seq(Entries)
    /\ Len(cache) <= CACHE_MAX_ENTRIES
    /\ \A i, j \in 1..Len(cache) : cache[i].key = cache[j].key => i = j
    /\ request \in [Requests -> Unserved \cup Served \cup {Closed}]
    /\ watched \in Keys
    /\ storedAt \in 0..Never
    /\ evicted \in BOOLEAN
    /\ refreshed \subseteq Keys

CacheInit ==
    /\ now = 0
    /\ apiKey \in BOOLEAN
    /\ cache = <<>>
    /\ request = [r \in Requests |-> Closed]
    /\ watched \in Keys
    /\ storedAt = Never
    /\ evicted = FALSE
    /\ refreshed = {}

-----------------------------------------------------------------------------

\* A request of the page leaves the browser.
Send(r, key) ==
    /\ request[r] = Closed
    /\ request' = [request EXCEPT ![r] = [stage |-> "sent", key |-> key, awaited |-> TRUE]]

\* The answer to a request, which the page may not be waiting for.
Respond(r, key, awaited, status) ==
    request' = [request EXCEPT
                  ![r] = IF awaited
                         THEN [stage |-> "answered", key |-> key, status |-> status]
                         ELSE Closed]

HasKey(key) == \E i \in 1..Len(cache) : cache[i].key = key

Fresh(key) == \E i \in 1..Len(cache) : cache[i].key = key /\ cache[i].expiresAt > now

Drop(key) == AtPlaces(cache, {i \in 1..Len(cache) : cache[i].key # key})

\* GET up to its await: a fresh entry is the answer; an expired one is deleted
\* and YouTube asked, if there is a key to ask with.
Hit(r, key, awaited) ==
    /\ Fresh(key)
    /\ Respond(r, key, awaited, 200)
    /\ UNCHANGED <<now, apiKey, cache, history, refreshed>>

Miss(r, key, awaited) ==
    /\ ~Fresh(key)
    /\ cache' = Drop(key)
    /\ refreshed' = refreshed \ {key}
    /\ IF apiKey
       THEN request' = [request EXCEPT
                          ![r] = [stage |-> "fetching", key |-> key, awaited |-> awaited]]
       ELSE Respond(r, key, awaited, 503)
    /\ UNCHANGED <<now, apiKey, history>>

GET(r) ==
    /\ request[r].stage = "sent"
    /\ \/ Hit(r, request[r].key, request[r].awaited)
       \/ Miss(r, request[r].key, request[r].awaited)

\* Another listener searches or turns a page.
OtherGET(r, key) ==
    /\ request[r] = Closed
    /\ Hit(r, key, FALSE) \/ Miss(r, key, FALSE)

\* Mutant: room is made at the wrong end.
MakeRoomAtTheEnd ==
    IF Len(cache) >= CACHE_MAX_ENTRIES THEN SubSeq(cache, 1, Len(cache) - 1) ELSE cache

\* What setCache leaves in the Map before it sets the key.
MakeRoom ==
    IF Len(cache) >= CACHE_MAX_ENTRIES THEN Tail(cache) ELSE cache

\* Map.set: a key that is there keeps its place.
SetIn(map, key, entry) ==
    IF \E i \in 1..Len(map) : map[i].key = key
    THEN [i \in 1..Len(map) |-> IF map[i].key = key THEN entry ELSE map[i]]
    ELSE Append(map, entry)

setCache(key, entry) ==
    LET left == MakeRoom
        gone == {cache[i].key : i \in 1..Len(cache)} \ {left[i].key : i \in 1..Len(left)}
    IN  /\ cache' = SetIn(left, key, entry)
        /\ storedAt' = IF key = watched THEN now ELSE storedAt
        /\ evicted' = (key # watched /\ (evicted \/ watched \in gone))
        /\ UNCHANGED watched
        /\ refreshed' = (refreshed \ gone) \cup (IF HasKey(key) /\ key \notin gone
                                                 THEN {key} ELSE {})

\* Mutant: the lifetime is added in the wrong unit.
FetchedInSeconds(r) ==
    /\ request[r].stage = "fetching"
    /\ setCache(request[r].key, [key |-> request[r].key, expiresAt |-> now])
    /\ Respond(r, request[r].key, request[r].awaited, 200)
    /\ UNCHANGED <<now, apiKey>>

\* YouTube answers, and the answer is stored ...
Fetched(r) ==
    /\ request[r].stage = "fetching"
    /\ setCache(request[r].key,
                [key |-> request[r].key, expiresAt |-> now + CACHE_TTL])
    /\ Respond(r, request[r].key, request[r].awaited, 200)
    /\ UNCHANGED <<now, apiKey>>

\* ... or it refuses: the quota is spent, or something else is wrong.
Refused(r, status) ==
    /\ request[r].stage = "fetching"
    /\ Respond(r, request[r].key, request[r].awaited, status)
    /\ UNCHANGED <<now, apiKey, cache, history, refreshed>>

QuotaExceeded(r) == Refused(r, 429)

SearchFailed(r) == Refused(r, 502)

Tick ==
    /\ now < MaxTime
    /\ now' = now + 1
    /\ UNCHANGED <<apiKey, cache, request, history, refreshed>>

RouteNext ==
    \/ Tick
    \/ \E r \in Requests : GET(r) \/ Fetched(r) \/ QuotaExceeded(r) \/ SearchFailed(r)
    \/ \E r \in Requests, k \in Keys : OtherGET(r, k)

-----------------------------------------------------------------------------

(* No search that was answered and stored costs quota again within the day:
   the route asks YouTube for a key it stored less than CACHE_TTL ago only if
   the entry was evicted in between (GET and setCache, which many requests
   run with an await between the look-up and the store). *)
Asks(r) == request[r].stage # "fetching" /\ request'[r].stage = "fetching"

QuotaIsSpentOncePerDay ==
    [][\A r \in Requests :
         /\ Asks(r)
         /\ request'[r].key = watched
         /\ storedAt # Never
         /\ now < storedAt + CACHE_TTL
         => evicted]_cacheVars

(* setCache evicts the first inserted entry, which must be the one that expires
   first: no fresh entry leaves while another that expires sooner stays, except
   one that a second fetch of its key has overwritten in place. *)
EvictionTakesTheOldest ==
    [][\A i, j \in 1..Len(cache) :
         /\ cache[i].expiresAt > now
         /\ cache[j].expiresAt < cache[i].expiresAt
         /\ \A n \in 1..Len(cache') : cache'[n].key # cache[i].key
         => \/ \A n \in 1..Len(cache') : cache'[n].key # cache[j].key
            \/ cache[i].key \in refreshed]_cacheVars
=============================================================================
