------------------------ MODULE StationClientsProofs ------------------------
(***************************************************************************)
(* The two clients of a station: the web page and the commands of the bot. *)
(* Both send positions in lists they were shown before, and both are right *)
(* for one reason: entries leave the queue and are appended to it, but     *)
(* never change their order, so a list that was read of it keeps its       *)
(* places for as long as nothing before them leaves (ReadingsLast).        *)
(*                                                                         *)
(* The bot meets the server behind the rate limiter.  The limiter that     *)
(* purges is buckets that are never thrown away: a bucket is refilled from *)
(* the time a call last got a token, and purged by the time a call was     *)
(* last seen, which is no earlier, so that a purged bucket is a full one.  *)
(***************************************************************************)
EXTENDS StationPage, BotCommands, SequenceTheorems, TLAPS

-----------------------------------------------------------------------------
(* The queue, and the lists that were read of it.                          *)

(* Entries are queued once, and are numbered in the order they come. *)
QueueIsGood(q, n) ==
    /\ q \in Seq(Entries) /\ Len(q) <= MaxQueueSize
    /\ n \in 0..MaxTracks
    /\ \A i \in 1..Len(q) : q[i] <= n
    /\ \A i, j \in 1..Len(q) : q[i] = q[j] => i = j

In(e, q) == \E i \in 1..Len(q) : q[i] = e

(* A list that was read of the queue: no track in it has moved further back, and
   as long as no track up to a place has left the queue, the track at that place
   is where the list has it. *)
ReadOf(list, q, n) ==
    /\ list \in Seq(Entries) /\ Len(list) <= MaxQueueSize
    /\ \A i \in 1..Len(list) : list[i] <= n
    /\ \A p \in 1..Len(q), k \in 1..Len(list) : list[k] = q[p] => p <= k
    /\ \A k \in 1..Len(list) :
         (\A i \in 1..k : In(list[i], q)) => k <= Len(q) /\ q[k] = list[k]

(* q2 is q without what is at place m. *)
Shortened(q, q2, m) ==
    /\ q2 \in Seq(Entries) /\ Len(q2) = Len(q) - 1
    /\ \A i \in 1..Len(q2) : q2[i] = IF i < m THEN q[i] ELSE q[i + 1]

(* What a step does to the queue. *)
QueueMoves(q, n, q2, n2) ==
    \/ q2 = q /\ n2 = n
    \/ /\ n < MaxTracks /\ Len(q) < MaxQueueSize
       /\ q2 = Append(q, n + 1) /\ n2 = n + 1
    \/ n2 = n /\ \E m \in 1..Len(q) : q2 = RemoveAt(q, m)
    \/ n2 = n /\ q # <<>> /\ q2 = Tail(q)
    \/ n2 = n /\ q2 = <<>>

LEMMA ListTyped ==
    ASSUME NEW s \in Seq(Entries), NEW i \in 1..Len(s)
    PROVE  Len(s) \in Nat /\ s[i] \in Entries /\ s[i] \in Nat
<1>1. s[i] \in Entries
  OBVIOUS
<1> QED BY <1>1 DEF Entries

LEMMA RemoveAtShortens ==
    ASSUME NEW q \in Seq(Entries), NEW m \in 1..Len(q)
    PROVE  Shortened(q, RemoveAt(q, m), m)
<1> DEFINE front == SubSeq(q, 1, m - 1)
           rest == SubSeq(q, m + 1, Len(q))
<1>1. front \in Seq(Entries) /\ Len(front) = m - 1 /\ \A i \in 1..(m - 1) : front[i] = q[i]
  OBVIOUS
<1>2. /\ rest \in Seq(Entries) /\ Len(rest) = Len(q) - m
      /\ \A i \in 1..(Len(q) - m) : rest[i] = q[m + i]
  OBVIOUS
<1>3. RemoveAt(q, m) = front \o rest
  BY DEF RemoveAt
<1> HIDE DEF front, rest
<1>4. front \o rest \in Seq(Entries)
  BY <1>1, <1>2
<1>6. Len(front \o rest) = Len(q) - 1
  <2>1. Len(front \o rest) = Len(front) + Len(rest)
    BY <1>1, <1>2, ConcatProperties
  <2> QED BY <1>1, <1>2, <2>1
<1>5. ASSUME NEW i \in 1..(Len(q) - 1)
      PROVE  (front \o rest)[i] = IF i < m THEN q[i] ELSE q[i + 1]
  <2>1. CASE i < m
    BY <1>1, <1>2, <2>1
  <2>2. CASE i >= m
    <3>1. (front \o rest)[i] = rest[i - (m - 1)]
      BY <1>1, <1>2, <2>2
    <3>2. i - (m - 1) \in 1..(Len(q) - m) /\ m + (i - (m - 1)) = i + 1
      BY <2>2
    <3>3. rest[i - (m - 1)] = q[i + 1]
      <4> DEFINE j == i - (m - 1)
      <4>1. j \in 1..(Len(q) - m) /\ m + j = i + 1
        BY <3>2
      <4> HIDE DEF j
      <4>2. rest[j] = q[m + j]
        BY <1>2, <4>1
      <4>3. rest[j] = q[i + 1]
        BY <4>1, <4>2
      <4> QED BY <4>3 DEF j
    <3>4. ~(i < m)
      BY <2>2
    <3> QED BY <3>1, <3>3, <3>4
  <2>3. i < m \/ i >= m
    OBVIOUS
  <2> QED BY <2>1, <2>2, <2>3
<1> QED BY <1>3, <1>4, <1>5, <1>6 DEF Shortened

LEMMA TailShortens ==
    ASSUME NEW q \in Seq(Entries), q # <<>>
    PROVE  1 \in 1..Len(q) /\ Shortened(q, Tail(q), 1)
<1>1. Len(q) \in Nat /\ Len(q) >= 1 /\ Len(Tail(q)) = Len(q) - 1 /\ Tail(q) \in Seq(Entries)
  OBVIOUS
<1>2. \A i \in 1..Len(Tail(q)) : Tail(q)[i] = q[i + 1]
  BY <1>1
<1> QED BY <1>1, <1>2 DEF Shortened

LEMMA ShorteningIsGood ==
    ASSUME NEW q, NEW q2, NEW n, NEW m \in 1..Len(q), QueueIsGood(q, n), Shortened(q, q2, m)
    PROVE  /\ QueueIsGood(q2, n)
           /\ \A i \in 1..Len(q2) : In(q2[i], q) /\ q2[i] # q[m]
<1>1. Len(q) \in Nat /\ Len(q2) = Len(q) - 1 /\ q2 \in Seq(Entries)
  BY DEF QueueIsGood, Shortened
<1> DEFINE was(i) == IF i < m THEN i ELSE i + 1
<1>2. ASSUME NEW i \in 1..Len(q2)
      PROVE  was(i) \in 1..Len(q) /\ q2[i] = q[was(i)] /\ was(i) # m
  BY <1>1 DEF Shortened
<1>3. \A i \in 1..Len(q2) : In(q2[i], q)
  BY <1>2 DEF In
<1>4. \A i \in 1..Len(q2) : q2[i] # q[m] /\ q2[i] <= n
  BY <1>2 DEF QueueIsGood
<1>5. ASSUME NEW i \in 1..Len(q2), NEW j \in 1..Len(q2), q2[i] = q2[j] PROVE i = j
  <2>1. was(i) = was(j)
    <3> HIDE DEF was
    <3> QED BY <1>2, <1>5 DEF QueueIsGood
  <2> QED BY <1>1, <2>1
<1>6. Len(q2) <= MaxQueueSize
  BY <1>1, QueueAssumption DEF QueueIsGood
<1> HIDE DEF was
<1>7. QueueIsGood(q2, n)
  BY <1>1, <1>4, <1>5, <1>6 DEF QueueIsGood
<1> QED BY <1>3, <1>4, <1>7

LEMMA AppendingIsGood ==
    ASSUME NEW q, NEW n, QueueIsGood(q, n), n < MaxTracks, Len(q) < MaxQueueSize
    PROVE  /\ QueueIsGood(Append(q, n + 1), n + 1)
           /\ Len(Append(q, n + 1)) = Len(q) + 1
           /\ \A i \in 1..Len(q) : Append(q, n + 1)[i] = q[i]
           /\ Append(q, n + 1)[Len(q) + 1] = n + 1
<1> DEFINE q2 == Append(q, n + 1)
<1>1. q \in Seq(Entries) /\ n \in Nat /\ n + 1 \in Entries /\ Len(q) \in Nat
  BY QueueAssumption DEF QueueIsGood, Entries
<1>2. /\ q2 \in Seq(Entries) /\ Len(q2) = Len(q) + 1
      /\ \A i \in 1..Len(q) : q2[i] = q[i]
      /\ q2[Len(q) + 1] = n + 1
  BY <1>1
<1> HIDE DEF q2
<1>3. \A i \in 1..Len(q2) : i \in 1..Len(q) \/ i = Len(q) + 1
  BY <1>1, <1>2
<1>4. \A i \in 1..Len(q) : q[i] <= n /\ q[i] \in Nat
  BY ListTyped DEF QueueIsGood
<1>5. \A i \in 1..Len(q2) : q2[i] <= n + 1
  BY <1>1, <1>2, <1>3, <1>4
<1>6. ASSUME NEW i \in 1..Len(q2), NEW j \in 1..Len(q2), q2[i] = q2[j] PROVE i = j
  BY <1>1, <1>2, <1>3, <1>4, <1>6 DEF QueueIsGood
<1>7. QueueIsGood(q2, n + 1)
  BY <1>1, <1>2, <1>5, <1>6, QueueAssumption DEF QueueIsGood
<1> QED BY <1>2, <1>7 DEF q2

(* Whatever happens to the queue, it stays good, and what was read of it
   keeps its places. *)
LEMMA ReadingsLast ==
    ASSUME NEW q, NEW n, NEW q2, NEW n2, QueueIsGood(q, n), QueueMoves(q, n, q2, n2)
    PROVE  /\ QueueIsGood(q2, n2)
           /\ \A list : ReadOf(list, q, n) => ReadOf(list, q2, n2)
<1>1. CASE q2 = q /\ n2 = n
  BY <1>1
<1>2. CASE /\ n < MaxTracks /\ Len(q) < MaxQueueSize
           /\ q2 = Append(q, n + 1) /\ n2 = n + 1
  <2>1. /\ QueueIsGood(q2, n2) /\ Len(q2) = Len(q) + 1
        /\ \A i \in 1..Len(q) : q2[i] = q[i]
        /\ q2[Len(q) + 1] = n + 1
    BY <1>2, AppendingIsGood
  <2>2. n \in Nat /\ Len(q) \in Nat
    BY DEF QueueIsGood
  <2>3. ASSUME NEW list, ReadOf(list, q, n) PROVE ReadOf(list, q2, n2)
    <3>1. \A i \in 1..Len(list) : list[i] <= n /\ list[i] \in Nat
      BY <2>3, ListTyped DEF ReadOf
    <3>2. ASSUME NEW i \in 1..Len(list), In(list[i], q2) PROVE In(list[i], q)
      <4>1. PICK j \in 1..Len(q2) : q2[j] = list[i]
        BY <3>2 DEF In
      <4>2. j # Len(q) + 1
        BY <2>1, <2>2, <3>1, <4>1
      <4>3. j \in 1..Len(q)
        BY <2>1, <2>2, <4>2
      <4> QED BY <2>1, <4>1, <4>3 DEF In
    <3>3. ASSUME NEW k \in 1..Len(list), \A i \in 1..k : In(list[i], q2)
          PROVE  k <= Len(q2) /\ q2[k] = list[k]
      <4>1. \A i \in 1..k : In(list[i], q)
        <5>1. \A i \in 1..k : i \in 1..Len(list)
          BY <2>3 DEF ReadOf
        <5> QED BY <3>2, <3>3, <5>1
      <4>2. k <= Len(q) /\ q[k] = list[k]
        BY <2>3, <4>1 DEF ReadOf
      <4> QED BY <2>1, <2>2, <4>2
    <3>4. \A i \in 1..Len(list) : list[i] <= n2
      BY <1>2, <2>2, <3>1
    <3>5. ASSUME NEW p \in 1..Len(q2), NEW k \in 1..Len(list), list[k] = q2[p]
          PROVE  p <= k
      <4>1. p # Len(q) + 1
        BY <2>1, <2>2, <3>1, <3>5
      <4>2. p \in 1..Len(q)
        BY <2>1, <2>2, <4>1
      <4> QED BY <2>1, <2>3, <3>5, <4>2 DEF ReadOf
    <3> QED BY <2>3, <3>3, <3>4, <3>5 DEF ReadOf
  <2> QED BY <2>1, <2>3
<1>3. ASSUME n2 = n, NEW m \in 1..Len(q), Shortened(q, q2, m)
      PROVE  /\ QueueIsGood(q2, n2)
             /\ \A list : ReadOf(list, q, n) => ReadOf(list, q2, n2)
  <2>1. QueueIsGood(q2, n2) /\ \A i \in 1..Len(q2) : In(q2[i], q) /\ q2[i] # q[m]
    BY <1>3, ShorteningIsGood
  <2>2. Len(q) \in Nat /\ Len(q2) = Len(q) - 1
    BY <1>3 DEF QueueIsGood, Shortened
  <2>3. ASSUME NEW list, ReadOf(list, q, n) PROVE ReadOf(list, q2, n2)
    <3>1. ASSUME NEW k \in 1..Len(list), \A i \in 1..k : In(list[i], q2)
          PROVE  k <= Len(q2) /\ q2[k] = list[k]
      <4>0. Len(list) \in Nat /\ \A j \in 1..k : j \in 1..Len(list)
        BY <2>3 DEF ReadOf
      <4>1. \A i \in 1..k : In(list[i], q) /\ list[i] # q[m]
        BY <2>1, <3>1 DEF In
      <4>2. ASSUME NEW j \in 1..k PROVE j <= Len(q) /\ q[j] = list[j]
        <5>1. \A i \in 1..j : i \in 1..k
          BY <4>0
        <5> QED BY <2>3, <4>0, <4>1, <5>1 DEF ReadOf
      <4>3. m > k
        <5>1. CASE m \in 1..k
          BY <4>1, <4>2, <5>1
        <5> QED BY <2>2, <4>0, <5>1
      <4>4. k <= Len(q2) /\ q2[k] = q[k]
        BY <1>3, <2>2, <4>0, <4>3 DEF Shortened
      <4>5. k \in 1..k
        BY <4>0
      <4> QED BY <4>2, <4>4, <4>5
    <3>2. ASSUME NEW p \in 1..Len(q2), NEW k \in 1..Len(list), list[k] = q2[p]
          PROVE  p <= k
      <4>1. p \in 1..Len(q) /\ p + 1 \in 1..Len(q) /\ p \in Nat
        BY <2>2
      <4>2. q2[p] = q[p] \/ q2[p] = q[p + 1]
        BY <1>3 DEF Shortened
      <4>3. p <= k \/ p + 1 <= k
        BY <2>3, <3>2, <4>1, <4>2 DEF ReadOf
      <4>4. k \in Nat
        BY <2>3 DEF ReadOf
      <4> QED BY <4>1, <4>3, <4>4
    <3> QED BY <1>3, <2>3, <3>1, <3>2 DEF ReadOf
  <2> QED BY <2>1, <2>3
<1>4. CASE n2 = n /\ \E m \in 1..Len(q) : q2 = RemoveAt(q, m)
  BY <1>3, <1>4, RemoveAtShortens DEF QueueIsGood
<1>5. CASE n2 = n /\ q # <<>> /\ q2 = Tail(q)
  BY <1>3, <1>5, TailShortens DEF QueueIsGood
<1>6. CASE n2 = n /\ q2 = <<>>
  <2>1. QueueIsGood(q2, n2)
    BY <1>6, QueueAssumption DEF QueueIsGood
  <2>2. \A e : ~In(e, q2)
    BY <1>6 DEF In
  <2>3. ASSUME NEW list, ReadOf(list, q, n) PROVE ReadOf(list, q2, n2)
    <3>1. \A k \in 1..Len(list) : 1 \in 1..k
      OBVIOUS
    <3> QED BY <1>6, <2>2, <2>3, <3>1 DEF ReadOf
  <2> QED BY <2>1, <2>3
<1> QED BY <1>1, <1>2, <1>4, <1>5, <1>6 DEF QueueMoves

LEMMA QueueReadsItself ==
    ASSUME NEW q, NEW n, QueueIsGood(q, n)
    PROVE  ReadOf(q, q, n) /\ ReadOf(<<>>, q, n)
<1>1. ReadOf(q, q, n)
  <2>1. ASSUME NEW p \in 1..Len(q), NEW k \in 1..Len(q), q[k] = q[p] PROVE p <= k
    <3>1. k = p /\ p \in Nat
      BY <2>1 DEF QueueIsGood
    <3> QED BY <3>1
  <2> QED BY <2>1 DEF QueueIsGood, ReadOf
<1>2. ReadOf(<<>>, q, n)
  BY QueueAssumption DEF ReadOf
<1> QED BY <1>1, <1>2

(* A track at a place in the queue is gone when that place is removed. *)
LEMMA RemovedIsGone ==
    ASSUME NEW q, NEW n, QueueIsGood(q, n), NEW m \in 1..Len(q)
    PROVE  \A i \in 1..Len(RemoveAt(q, m)) : RemoveAt(q, m)[i] # q[m]
BY RemoveAtShortens, ShorteningIsGood DEF QueueIsGood

(* A removal further back than the place that a list has a track at leaves it in
   the queue. *)
LEMMA ListedBeforeStays ==
    ASSUME NEW q, NEW n, QueueIsGood(q, n), NEW list, ReadOf(list, q, n),
           NEW m \in 1..Len(q), NEW k \in 1..Len(list), k < m, In(list[k], q)
    PROVE  In(list[k], RemoveAt(q, m))
<1>1. PICK j \in 1..Len(q) : q[j] = list[k]
  BY DEF In
<1>2. Len(q) \in Nat /\ m \in Nat /\ j \in Nat /\ k \in Nat
  BY DEF QueueIsGood
<1>3. j <= k
  BY <1>1 DEF ReadOf
<1>4. j < m /\ j \in 1..(Len(q) - 1)
  BY <1>2, <1>3
<1>5. Len(RemoveAt(q, m)) = Len(q) - 1 /\ RemoveAt(q, m)[j] = q[j]
  BY <1>4, RemoveAtShortens DEF Shortened, QueueIsGood
<1> QED BY <1>1, <1>4, <1>5 DEF In

-----------------------------------------------------------------------------
(* The page.                                                               *)

(* A handler makes the calls of its own kind, and may fetch the queue. *)
Makes(h, rpc) ==
    /\ rpc \in Rpcs
    /\ rpc = "GetSession" => h = Mount
    /\ rpc = "AddTrack" => h = AddButton
    /\ rpc = "SkipTrack" => h = SkipButton
    /\ rpc = "RemoveTrack" => h \in Removes

(* Every list on its way was read of the queue, and a removal is of a track
   in the list it was clicked in. *)
CallIsGood(h, c, q, n) ==
    \/ c = NoCall
    \/ /\ c = Sent(c.rpc, c.seen)
       /\ Makes(h, c.rpc) /\ ReadOf(c.seen, q, n)
       /\ c.rpc = "RemoveTrack" => h[2] + 1 \in 1..Len(c.seen)
    \/ /\ c = Answered(c.rpc, c.reply, c.list)
       /\ Makes(h, c.rpc) /\ c.reply \in Replies /\ ReadOf(c.list, q, n)

CallsAreGood ==
    /\ live \in BOOLEAN /\ QueueIsGood(queue, added)
    /\ call = [h \in Handlers |-> call[h]]
    /\ \A h \in Handlers : CallIsGood(h, call[h], queue, added)
    /\ ReadOf(tracks, queue, added)

(* A page that was left polls, or may yet begin to, only if onMount was under
   way. *)
LeftWhileMounting == left /\ (polling \/ call[Mount] # NoCall) => leftEarly

FlagsTyped ==
    /\ left \in BOOLEAN /\ leftEarly \in BOOLEAN /\ notFound \in BOOLEAN
    /\ streamUrl \in BOOLEAN /\ queueLoaded \in BOOLEAN /\ polling \in BOOLEAN

PageInv == CallsAreGood /\ LeftWhileMounting /\ FlagsTyped

QueueStep == live' \in BOOLEAN /\ QueueMoves(queue, added, queue', added')

LEMMA HandlersMoveTheQueue ==
    ASSUME live \in BOOLEAN, QueueIsGood(queue, added), NEW reply,
           \/ UNCHANGED queueVars \/ StationNext
           \/ GetSession(reply) \/ ListQueue(reply) \/ AddTrack(reply)
           \/ SkipTrack(reply) \/ RateLimited(reply)
           \/ \E n \in Nat : RemoveTrack(n, reply)
    PROVE  QueueStep
<1>0. Len(queue) \in Nat
  BY DEF QueueIsGood
<1>1. CASE UNCHANGED queueVars
  BY <1>1 DEF QueueStep, QueueMoves, queueVars
<1>2. CASE StationNext
  BY <1>2 DEF StationNext, TrackEnds, SessionEnds, SessionStarts, QueueStep, QueueMoves
<1>3. CASE AddTrack(reply)
  BY <1>1, <1>3 DEF AddTrack, DownloadFails, NoSession, Refuse, QueueStep, QueueMoves
<1>4. ASSUME NEW n \in Nat, RemoveTrack(n, reply) PROVE QueueStep
  <2>1. CASE n \in 1..(Len(queue) - 1) /\ queue' = RemoveAt(queue, n + 1) /\ UNCHANGED <<live, added>>
    <3>1. n + 1 \in 1..Len(queue)
      BY <1>0, <2>1
    <3> QED BY <2>1, <3>1 DEF QueueStep, QueueMoves
  <2> QED BY <1>1, <1>4, <2>1 DEF RemoveTrack, NoSession, Refuse
<1>5. CASE GetSession(reply) \/ ListQueue(reply) \/ SkipTrack(reply) \/ RateLimited(reply)
  BY <1>1, <1>5 DEF GetSession, ListQueue, SkipTrack, RateLimited, NoSession, Refuse
<1> QED BY <1>1, <1>2, <1>3, <1>4, <1>5

LEMMA CallsSurvive ==
    ASSUME QueueIsGood(queue, added), QueueStep, NEW h, NEW c,
           CallIsGood(h, c, queue, added)
    PROVE  CallIsGood(h, c, queue', added')
<1>1. \A list : ReadOf(list, queue, added) => ReadOf(list, queue', added')
  BY ReadingsLast DEF QueueStep
<1> QED BY <1>1 DEF CallIsGood

(* The queue moves under the calls ... *)
LEMMA QueueMovesUnderCalls ==
    ASSUME CallsAreGood, QueueStep, UNCHANGED <<call, tracks>>
    PROVE  CallsAreGood'
<1>1. QueueIsGood(queue', added') /\ ReadOf(tracks, queue', added')
  BY ReadingsLast DEF QueueStep, CallsAreGood
<1>2. \A h \in Handlers : CallIsGood(h, call[h], queue', added')
  BY CallsSurvive DEF CallsAreGood
<1> QED BY <1>1, <1>2 DEF CallsAreGood, QueueStep

(* ... or one of them goes on. *)
LEMMA OneCallGoesOn ==
    ASSUME CallsAreGood, QueueStep, NEW h \in Handlers, NEW c,
           call' = [call EXCEPT ![h] = c], CallIsGood(h, c, queue', added'),
           tracks' = tracks \/ ReadOf(tracks', queue', added')
    PROVE  CallsAreGood'
<1>1. QueueIsGood(queue', added') /\ ReadOf(tracks', queue', added')
  BY ReadingsLast DEF QueueStep, CallsAreGood
<1>2. call' = [g \in Handlers |-> call'[g]] /\ call'[h] = c
  BY DEF CallsAreGood
<1>3. ASSUME NEW g \in Handlers PROVE CallIsGood(g, call'[g], queue', added')
  <2>1. CASE g = h
    BY <1>2, <2>1
  <2>2. CASE g # h
    <3>1. call'[g] = call[g]
      BY <2>2 DEF CallsAreGood
    <3> QED BY <3>1, CallsSurvive DEF CallsAreGood
  <2> QED BY <2>1, <2>2
<1> QED BY <1>1, <1>2, <1>3 DEF CallsAreGood, QueueStep

LEMMA NothingNewIsGood ==
    ASSUME CallsAreGood, NEW h
    PROVE  /\ CallIsGood(h, NoCall, queue, added)
           /\ CallIsGood(h, Sent("ListQueue", <<>>), queue, added)
<1>1. ReadOf(<<>>, queue, added)
  BY QueueReadsItself DEF CallsAreGood
<1>2. CallIsGood(h, NoCall, queue, added)
  BY DEF CallIsGood
<1> DEFINE c == Sent("ListQueue", <<>>)
<1>3. c.rpc = "ListQueue" /\ c.seen = <<>> /\ c = Sent(c.rpc, c.seen)
  BY DEF Sent
<1> HIDE DEF c
<1>4. CallIsGood(h, c, queue, added)
  BY <1>1, <1>3 DEF CallIsGood, Makes, Rpcs
<1> QED BY <1>2, <1>4 DEF c

LEMMA CallFacts ==
    ASSUME CallsAreGood, NEW h \in Handlers
    PROVE  /\ call[h] = NoCall <=> call[h].stage = "idle"
           /\ call[h].stage = "sent" =>
                /\ call[h] = Sent(call[h].rpc, call[h].seen)
                /\ Makes(h, call[h].rpc) /\ ReadOf(call[h].seen, queue, added)
                /\ call[h].rpc = "RemoveTrack" => h[2] + 1 \in 1..Len(call[h].seen)
           /\ call[h].stage = "answered" =>
                /\ Makes(h, call[h].rpc) /\ call[h].reply \in Replies
                /\ ReadOf(call[h].list, queue, added)
           /\ call[h] # NoCall => Makes(h, call[h].rpc)
<1> DEFINE c == call[h]
<1>1. CallIsGood(h, c, queue, added)
  BY DEF CallsAreGood
<1> HIDE DEF c
<1>2. CASE c = NoCall
  BY <1>2 DEF NoCall, c
<1>3. CASE /\ c = Sent(c.rpc, c.seen)
           /\ Makes(h, c.rpc) /\ ReadOf(c.seen, queue, added)
           /\ c.rpc = "RemoveTrack" => h[2] + 1 \in 1..Len(c.seen)
  <2>1. c.stage = "sent" /\ c # NoCall
    BY <1>3 DEF Sent, NoCall
  <2> QED BY <1>3, <2>1 DEF c
<1>4. CASE /\ c = Answered(c.rpc, c.reply, c.list)
           /\ Makes(h, c.rpc) /\ c.reply \in Replies /\ ReadOf(c.list, queue, added)
  <2>1. c.stage = "answered" /\ c # NoCall
    BY <1>4 DEF Answered, NoCall
  <2> QED BY <1>4, <2>1 DEF c
<1> QED BY <1>1, <1>2, <1>3, <1>4 DEF CallIsGood

LEMMA MountIsNoButton ==
    /\ Mount \in Handlers /\ Buttons \subseteq Handlers /\ Silent \subseteq Handlers
    /\ Mount \notin Buttons /\ Mount \notin Silent
    /\ Refresh \in Buttons /\ AddButton \in Buttons /\ SkipButton \in Buttons
    /\ Removes \subseteq Buttons
    /\ AddButton \notin Silent
BY DEF Handlers, Buttons, Silent, Removes, RemoveButton, Mount, Refresh, AddButton, SkipButton

(* The calls as a step of the page leaves them. *)
LEMMA PageMovesOneCall ==
    ASSUME CallsAreGood, UNCHANGED queueVars, NEW h \in Handlers, NEW c,
           call' = [call EXCEPT ![h] = c], CallIsGood(h, c, queue, added),
           tracks' = tracks \/ ReadOf(tracks', queue, added)
    PROVE  /\ CallsAreGood'
           /\ call'[h] = c
           /\ h # Mount => call'[Mount] = call[Mount]
<1>1. QueueStep
  BY DEF CallsAreGood, QueueStep, QueueMoves, queueVars
<1>2. queue' = queue /\ added' = added
  BY DEF queueVars
<1>3. CallsAreGood'
  BY <1>1, <1>2, OneCallGoesOn
<1> QED BY <1>3, MountIsNoButton DEF CallsAreGood

LEMMA PageInitInv == PageInit => PageInv
<1> SUFFICES ASSUME PageInit PROVE PageInv
  OBVIOUS
<1>1. QueueIsGood(queue, added)
  <2>1. queue = <<>> /\ added = 0
    BY DEF PageInit, QueueInit
  <2> QED BY <2>1, QueueAssumption DEF QueueIsGood
<1>2. ReadOf(<<>>, queue, added)
  BY <1>1, QueueReadsItself
<1> DEFINE c == Sent("GetSession", <<>>)
<1>3. c.rpc = "GetSession" /\ c.seen = <<>> /\ c = Sent(c.rpc, c.seen)
  BY DEF Sent
<1>4. call = [h \in Handlers |-> IF h = Mount THEN c ELSE NoCall]
  BY DEF PageInit
<1> HIDE DEF c
<1>5. CallIsGood(Mount, c, queue, added)
  BY <1>2, <1>3 DEF CallIsGood, Makes, Rpcs
<1>6. ASSUME NEW h \in Handlers PROVE CallIsGood(h, call[h], queue, added)
  BY <1>4, <1>5 DEF CallIsGood
<1>7. CallsAreGood
  <2>1. live \in BOOLEAN /\ tracks = <<>>
    BY DEF PageInit, QueueInit
  <2> QED BY <1>1, <1>2, <1>4, <1>6, <2>1 DEF CallsAreGood
<1>8. LeftWhileMounting /\ FlagsTyped
  BY DEF PageInit, LeftWhileMounting, FlagsTyped
<1> QED BY <1>7, <1>8 DEF PageInv

LEMMA ServeCallKeepsInv ==
    ASSUME PageInv, NEW h \in Handlers, ServeCall(h)
    PROVE  PageInv'
<1>1. CallsAreGood /\ call[h].stage = "sent" /\ Makes(h, call[h].rpc)
  BY CallFacts DEF PageInv, ServeCall
<1>2. PICK reply \in Replies :
        Serves(h, reply) /\ call' = [call EXCEPT ![h] = Answered(@.rpc, reply, Carried(h))]
  BY DEF ServeCall
<1>3. call[h].rpc = "RemoveTrack" => h[2] \in Nat
  BY <1>1, QueueAssumption DEF Makes, Removes, RemoveButton
<1>4. QueueStep
  BY <1>1, <1>2, <1>3, HandlersMoveTheQueue DEF Serves, CallsAreGood
<1>5. ReadOf(Carried(h), queue, added)
  BY <1>1, QueueReadsItself DEF Carried, CallsAreGood
<1>6. ReadOf(Carried(h), queue', added')
  BY <1>1, <1>4, <1>5, ReadingsLast DEF QueueStep, CallsAreGood
<1> DEFINE c == Answered(call[h].rpc, reply, Carried(h))
<1>7. c.rpc = call[h].rpc /\ c.reply = reply /\ c.list = Carried(h)
      /\ c = Answered(c.rpc, c.reply, c.list) /\ c # NoCall
  BY DEF Answered, NoCall
<1>8. call' = [call EXCEPT ![h] = c]
  BY <1>2
<1> HIDE DEF c
<1>9. CallIsGood(h, c, queue', added')
  BY <1>1, <1>6, <1>7 DEF CallIsGood
<1>10. CallsAreGood'
  BY <1>1, <1>4, <1>8, <1>9, OneCallGoesOn DEF ServeCall
<1>11. call'[Mount] # NoCall => call[Mount] # NoCall
  <2>1. call[h] # NoCall
    BY <1>1, CallFacts DEF NoCall
  <2> QED BY <1>1, <1>8, <2>1, MountIsNoButton DEF CallsAreGood
<1> QED BY <1>10, <1>11 DEF PageInv, LeftWhileMounting, FlagsTyped, ServeCall

LEMMA OthersKeepInv ==
    ASSUME PageInv, OtherClients \/ (StationNext /\ UNCHANGED pageVars)
    PROVE  PageInv'
<1>1. \A i \in 1..(MaxQueueSize - 1) : i \in Nat
  BY QueueAssumption
<1>2. QueueStep
  BY <1>1, HandlersMoveTheQueue DEF OtherClients, PageInv, CallsAreGood
<1>3. UNCHANGED pageVars
  BY DEF OtherClients
<1> QED BY <1>2, <1>3, QueueMovesUnderCalls
        DEF PageInv, pageVars, LeftWhileMounting, FlagsTyped

(* A step of the page that neither polls nor leaves. *)
LEMMA PageStepKeepsInv ==
    ASSUME PageInv, CallsAreGood', FlagsTyped', UNCHANGED <<left, leftEarly, polling>>,
           call'[Mount] # NoCall => call[Mount] # NoCall
    PROVE  PageInv'
BY DEF PageInv, LeftWhileMounting

(* An answer to ListQueue is a list that was read of the queue. *)
LEMMA TakenIsRead ==
    ASSUME CallsAreGood, NEW h \in Handlers, NEW reply, TakesQueue(h, reply)
    PROVE  tracks' = tracks \/ ReadOf(tracks', queue, added)
<1>1. CASE reply = "ok"
  <2>1. call[h].stage = "answered" /\ tracks' = call[h].list
    BY <1>1 DEF TakesQueue, Outcome
  <2> QED BY <2>1, CallFacts
<1>2. CASE reply # "ok"
  BY <1>2 DEF TakesQueue
<1> QED BY <1>1, <1>2

LEMMA MountKeepsInv ==
    ASSUME PageInv, NEW reply, MountKnowsSession(reply) \/ MountLoadsQueue(reply)
    PROVE  PageInv'
<1>1. CallsAreGood /\ Mount \in Handlers
  BY MountIsNoButton DEF PageInv
<1>2. call[Mount] # NoCall
  BY <1>1, CallFacts DEF MountKnowsSession, MountLoadsQueue, TakesQueue, Outcome
<1>3. CASE MountKnowsSession(reply)
  <2>1. CallsAreGood'
    <3>1. \/ call' = [call EXCEPT ![Mount] = Sent("ListQueue", <<>>)]
          \/ call' = [call EXCEPT ![Mount] = NoCall]
      BY <1>3 DEF MountKnowsSession, FetchesNext, Ends
    <3> QED BY <1>1, <1>3, <3>1, NothingNewIsGood, PageMovesOneCall DEF MountKnowsSession
  <2>2. FlagsTyped'
    BY <1>3 DEF MountKnowsSession, PageInv, FlagsTyped
  <2> QED BY <1>2, <1>3, <2>1, <2>2, PageStepKeepsInv DEF MountKnowsSession
<1>4. CASE MountLoadsQueue(reply)
  <2>1. CallsAreGood'
    <3>1. call' = [call EXCEPT ![Mount] = NoCall] /\ UNCHANGED queueVars
      BY <1>4 DEF MountLoadsQueue, Ends
    <3>2. tracks' = tracks \/ ReadOf(tracks', queue, added)
      BY <1>1, <1>4, TakenIsRead DEF MountLoadsQueue
    <3> QED BY <1>1, <3>1, <3>2, NothingNewIsGood, PageMovesOneCall
  <2>2. FlagsTyped'
    BY <1>4 DEF MountLoadsQueue, PageInv, FlagsTyped
  <2>3. LeftWhileMounting'
    BY <1>2, <1>4 DEF MountLoadsQueue, PageInv, LeftWhileMounting
  <2> QED BY <2>1, <2>2, <2>3 DEF PageInv
<1> QED BY <1>3, <1>4

LEMMA LeaveKeepsInv ==
    ASSUME PageInv, Leave
    PROVE  PageInv'
<1>1. CallsAreGood
  BY DEF PageInv
<1>2. ReadOf(<<>>, queue, added)
  BY <1>1, QueueReadsItself DEF CallsAreGood
<1>3. call' = [h \in Handlers |-> IF h \in Buttons THEN NoCall ELSE call[h]]
  BY DEF Leave, Gone
<1>4. \A h \in Handlers : CallIsGood(h, call'[h], queue, added)
  BY <1>1, <1>3, NothingNewIsGood DEF CallsAreGood
<1>5. CallsAreGood'
  <2>1. UNCHANGED <<live, queue, added>> /\ tracks' = <<>>
    BY DEF Leave, Gone, queueVars
  <2> QED BY <1>1, <1>2, <1>3, <1>4, <2>1 DEF CallsAreGood
<1>6. call'[Mount] = call[Mount]
  BY <1>3, MountIsNoButton
<1>7. LeftWhileMounting' /\ leftEarly' \in BOOLEAN
  BY <1>6 DEF Leave, Gone, LeftWhileMounting
<1>8. FlagsTyped'
  <2>1. left' = TRUE /\ polling' = FALSE
        /\ UNCHANGED <<notFound, streamUrl, queueLoaded>>
    BY DEF Leave, Gone
  <2> QED BY <1>7, <2>1 DEF PageInv, FlagsTyped
<1> QED BY <1>5, <1>7, <1>8 DEF PageInv

LEMMA PollKeepsInv ==
    ASSUME PageInv, NEW h \in Silent, Poll(h)
    PROVE  PageInv'
<1>1. h \in Handlers /\ h # Mount /\ CallsAreGood
  BY MountIsNoButton DEF PageInv
<1>2. CallsAreGood' /\ call'[Mount] = call[Mount]
  <2>1. call' = [call EXCEPT ![h] = Sent("ListQueue", <<>>)]
    BY DEF Poll, FetchesNext
  <2> QED BY <1>1, <2>1, NothingNewIsGood, PageMovesOneCall DEF Poll
<1>3. FlagsTyped'
  BY DEF Poll, PageInv, FlagsTyped
<1> QED BY <1>2, <1>3, PageStepKeepsInv DEF Poll

LEMMA ClickKeepsInv ==
    ASSUME PageInv, NEW h \in Buttons, NEW rpc, NEW seen, Click(h, rpc, seen),
           Makes(h, rpc), ReadOf(seen, queue, added),
           rpc = "RemoveTrack" => h[2] + 1 \in 1..Len(seen)
    PROVE  PageInv'
<1>1. h \in Handlers /\ h # Mount /\ CallsAreGood
  BY MountIsNoButton DEF PageInv
<1> DEFINE c == Sent(rpc, seen)
<1>2. c.rpc = rpc /\ c.seen = seen /\ c = Sent(c.rpc, c.seen)
  BY DEF Sent
<1>3. call' = [call EXCEPT ![h] = c]
  BY DEF Click
<1> HIDE DEF c
<1>4. CallIsGood(h, c, queue, added)
  BY <1>2 DEF CallIsGood
<1>5. CallsAreGood' /\ call'[Mount] = call[Mount]
  BY <1>1, <1>3, <1>4, PageMovesOneCall DEF Click
<1>6. FlagsTyped'
  BY DEF Click, PageInv, FlagsTyped
<1> QED BY <1>5, <1>6, PageStepKeepsInv DEF Click

LEMMA ClickedKeepsInv ==
    ASSUME PageInv, Clicked
    PROVE  PageInv'
<1>1. CallsAreGood
  BY DEF PageInv
<1>2. ReadOf(<<>>, queue, added)
  BY <1>1, QueueReadsItself DEF CallsAreGood
<1>3. CASE handleRefresh
  BY <1>1, <1>2, <1>3, ClickKeepsInv, MountIsNoButton DEF handleRefresh, Makes, Rpcs
<1>4. CASE handleSkip
  BY <1>1, <1>2, <1>4, ClickKeepsInv, MountIsNoButton DEF handleSkip, Makes, Rpcs
<1>5. CASE handleAdd
  BY <1>1, <1>2, <1>5, ClickKeepsInv, MountIsNoButton DEF handleAdd, Makes, Rpcs
<1>6. ASSUME NEW i \in 1..(MaxQueueSize - 1), handleRemove(i) PROVE PageInv'
  <2>1. RemoveButton(i) \in Removes /\ RemoveButton(i)[2] = i
    BY DEF Removes, RemoveButton
  <2>2. ReadOf(tracks, queue, added)
    BY <1>1 DEF CallsAreGood
  <2>3. i + 1 \in 1..Len(tracks)
    BY <1>6, <2>2, QueueAssumption DEF handleRemove, ReadOf
  <2>4. Makes(RemoveButton(i), "RemoveTrack")
    BY <2>1 DEF Makes, Rpcs
  <2>5. RemoveButton(i) \in Buttons
    BY <2>1, MountIsNoButton
  <2> HIDE DEF RemoveButton
  <2> QED BY <1>1, <1>6, <2>1, <2>2, <2>3, <2>4, <2>5, ClickKeepsInv DEF handleRemove
<1> QED BY <1>3, <1>4, <1>5, <1>6 DEF Clicked

(* Awaits that end a handler, or let it go on to fetchQueue. *)
LEMMA AwaitKeepsInv ==
    ASSUME PageInv, NEW h \in Handlers, UNCHANGED <<left, leftEarly, notFound, streamUrl,
                                                    queueLoaded, polling>>,
           Ends(h) \/ FetchesNext(h), UNCHANGED queueVars,
           call[Mount] # NoCall \/ h # Mount,
           tracks' = tracks \/ ReadOf(tracks', queue, added)
    PROVE  PageInv'
<1>1. CallsAreGood
  BY DEF PageInv
<1>2. CallsAreGood' /\ (h # Mount => call'[Mount] = call[Mount])
  <2>1. \/ call' = [call EXCEPT ![h] = Sent("ListQueue", <<>>)]
        \/ call' = [call EXCEPT ![h] = NoCall]
    BY DEF Ends, FetchesNext
  <2> QED BY <1>1, <2>1, NothingNewIsGood, PageMovesOneCall
<1>3. FlagsTyped'
  BY DEF PageInv, FlagsTyped
<1> QED BY <1>2, <1>3, PageStepKeepsInv

LEMMA FoundAddedKeepsInv ==
    ASSUME PageInv, NEW h \in Silent, FoundAdded(h)
    PROVE  PageInv'
<1>1. h \in Handlers /\ h # Mount /\ h # AddButton /\ CallsAreGood
      /\ AddButton \in Handlers /\ AddButton # Mount
  BY MountIsNoButton DEF PageInv
<1> DEFINE c == Sent("ListQueue", <<>>)
<1>2. call' = [call EXCEPT ![AddButton] = NoCall, ![h] = c]
  BY DEF FoundAdded
<1>3. CallIsGood(h, c, queue, added) /\ CallIsGood(AddButton, NoCall, queue, added)
  BY <1>1, NothingNewIsGood
<1> HIDE DEF c
<1>4. call' = [g \in Handlers |-> IF g = h THEN c ELSE
                                  IF g = AddButton THEN NoCall ELSE call[g]]
  BY <1>1, <1>2 DEF CallsAreGood
<1>5. \A g \in Handlers : CallIsGood(g, call'[g], queue, added)
  BY <1>1, <1>3, <1>4 DEF CallsAreGood
<1>6. CallsAreGood'
  <2>1. UNCHANGED <<live, queue, added, tracks>>
    BY DEF FoundAdded, queueVars
  <2> QED BY <1>1, <1>4, <1>5, <2>1 DEF CallsAreGood
<1>7. call'[Mount] = call[Mount]
  BY <1>1, <1>4, MountIsNoButton
<1>8. FlagsTyped'
  BY DEF FoundAdded, PageInv, FlagsTyped
<1> QED BY <1>6, <1>7, <1>8, PageStepKeepsInv DEF FoundAdded

LEMMA ChangeSucceedsKeepsInv ==
    ASSUME PageInv, NEW h \in Handlers, ChangeSucceeds(h)
    PROVE  PageInv'
<1>1. CallsAreGood
  BY DEF PageInv
<1>2. Makes(h, call[h].rpc) /\ call[h].rpc \in Limited
  BY <1>1, CallFacts DEF ChangeSucceeds, Outcome
<1>3. h # Mount
  <2>1. h \in Buttons
    BY <1>2, MountIsNoButton DEF Makes, Limited
  <2> QED BY <2>1, MountIsNoButton
<1> QED BY <1>1, <1>3, AwaitKeepsInv DEF ChangeSucceeds

LEMMA ContinueKeepsInv ==
    ASSUME PageInv, NEW h \in Handlers, NEW reply \in Outcomes, Continue(h, reply)
    PROVE  PageInv'
<1>1. CallsAreGood
  BY DEF PageInv
<1>2. CASE h = Mount /\ (MountKnowsSession(reply) \/ MountLoadsQueue(reply))
  BY <1>2, MountKeepsInv
<1>3. CASE ChangeFails(h, reply)
  <2>1. call[h] # NoCall
    BY <1>1, <1>3, CallFacts DEF ChangeFails, Outcome
  <2> QED BY <1>1, <1>3, <2>1, AwaitKeepsInv DEF ChangeFails
<1>4. CASE Fetched(h, reply)
  <2>1. tracks' = tracks \/ ReadOf(tracks', queue, added)
    BY <1>1, <1>4, TakenIsRead DEF Fetched
  <2> QED BY <1>1, <1>4, <2>1, AwaitKeepsInv DEF Fetched
<1> QED BY <1>2, <1>3, <1>4 DEF Continue

LEMMA PageNextInv == PageInv /\ [PageNext]_stationPageVars => PageInv'
<1> SUFFICES ASSUME PageInv, [PageNext]_stationPageVars PROVE PageInv'
  OBVIOUS
<1>1. CASE UNCHANGED stationPageVars
  <2>1. QueueStep /\ UNCHANGED pageVars
    BY <1>1 DEF stationPageVars, PageInv, CallsAreGood, QueueStep, QueueMoves, queueVars
  <2> QED BY <2>1, QueueMovesUnderCalls
          DEF PageInv, pageVars, LeftWhileMounting, FlagsTyped
<1> QED BY <1>1, ServeCallKeepsInv, OthersKeepInv, LeaveKeepsInv, PollKeepsInv,
           ClickedKeepsInv, FoundAddedKeepsInv, ChangeSucceedsKeepsInv, ContinueKeepsInv
        DEF PageNext

(* The state of the page is well typed, and it never shows more tracks than a
   queue may hold. *)
THEOREM PageTypeCorrect == PageSpec => []PageTypeOK
<1>1. PageInv => PageTypeOK
  <2> SUFFICES ASSUME PageInv PROVE PageTypeOK
    OBVIOUS
  <2>1. CallsAreGood /\ FlagsTyped
    BY DEF PageInv
  <2>2. QueueTypeOK /\ tracks \in Seq(Entries) /\ Len(tracks) <= MaxQueueSize
    BY <2>1 DEF CallsAreGood, QueueIsGood, ReadOf, QueueTypeOK
  <2>3. ASSUME NEW h \in Handlers PROVE CallTypeOK(call[h])
    <3> DEFINE c == call[h]
    <3>1. CallIsGood(h, c, queue, added)
      BY <2>1 DEF CallsAreGood
    <3> HIDE DEF c
    <3>2. CallTypeOK(c)
      <4>1. CASE c = NoCall
        BY <4>1 DEF CallTypeOK
      <4>2. CASE c = Sent(c.rpc, c.seen) /\ Makes(h, c.rpc) /\ ReadOf(c.seen, queue, added)
        <5>1. c.stage = "sent"
          BY <4>2 DEF Sent
        <5> QED BY <4>2, <5>1 DEF CallTypeOK, Makes, ReadOf
      <4>3. CASE /\ c = Answered(c.rpc, c.reply, c.list)
                 /\ Makes(h, c.rpc) /\ c.reply \in Replies /\ ReadOf(c.list, queue, added)
        <5>1. c.stage = "answered"
          BY <4>3 DEF Answered
        <5> QED BY <4>3, <5>1 DEF CallTypeOK, Makes, ReadOf
      <4> QED BY <3>1, <4>1, <4>2, <4>3 DEF CallIsGood
    <3> QED BY <3>2 DEF c
  <2>4. DOMAIN call = Handlers
    BY <2>1 DEF CallsAreGood
  <2>5. {left, leftEarly, notFound, streamUrl, queueLoaded, polling} \subseteq BOOLEAN
    BY <2>1 DEF FlagsTyped
  <2> QED BY <2>2, <2>3, <2>4, <2>5 DEF PageTypeOK
<1> QED BY <1>1, PageInitInv, PageNextInv, PTL DEF PageSpec

(* However many calls are under way, a page that was left does not poll,
   unless it was left while onMount was under way. *)
THEOREM PollingStops == PageSpec => []PollingStopsWithThePage
<1>1. PageInv => PollingStopsWithThePage
  BY DEF PageInv, LeftWhileMounting, PollingStopsWithThePage
<1> QED BY <1>1, PageInitInv, PageNextInv, PTL DEF PageSpec

(* A button's removal takes place when its call is served, at its index. *)
LEMMA RemovalIsServed ==
    ASSUME PageInv, PageNext, NEW h \in Removes,
           call[h].stage = "sent", call'[h].stage = "answered", queue' # queue
    PROVE  /\ QueueIsGood(queue, added) /\ ReadOf(call[h].seen, queue, added)
           /\ h[2] \in Nat /\ h[2] + 1 \in 1..Len(call[h].seen)
           /\ h[2] + 1 \in 1..Len(queue) /\ queue' = RemoveAt(queue, h[2] + 1)
<1>1. h \in Handlers /\ CallsAreGood /\ QueueIsGood(queue, added)
  BY MountIsNoButton DEF PageInv, CallsAreGood
<1>2. ServeCall(h)
  <2>1. ASSUME NEW g \in Handlers, ServeCall(g) PROVE g = h
    <3>1. PICK c : call' = [call EXCEPT ![g] = c]
      BY <2>1 DEF ServeCall
    <3>2. call'[h] # call[h]
      OBVIOUS
    <3> QED BY <1>1, <3>1, <3>2 DEF CallsAreGood
  <2>2. ASSUME UNCHANGED queueVars PROVE FALSE
    BY <2>2 DEF queueVars
  <2>3. ASSUME UNCHANGED pageVars PROVE FALSE
    BY <2>3 DEF pageVars
  <2> QED BY <2>1, <2>2, <2>3
          DEF PageNext, ChangeSucceeds, Continue, MountKnowsSession, MountLoadsQueue,
              ChangeFails, Fetched, Poll, FoundAdded, Clicked, handleRefresh, handleSkip,
              handleAdd, handleRemove, Click, Leave, Gone, OtherClients
<1>3. PICK reply \in Replies : Serves(h, reply)
  BY <1>2 DEF ServeCall
<1>4. Makes(h, call[h].rpc) /\ ReadOf(call[h].seen, queue, added)
      /\ (call[h].rpc = "RemoveTrack" => h[2] + 1 \in 1..Len(call[h].seen))
  BY <1>1, CallFacts
<1>5. call[h].rpc # "AddTrack" /\ h[2] \in Nat
  <2>1. h # AddButton /\ h[2] \in Nat
    BY QueueAssumption DEF Removes, RemoveButton, AddButton
  <2> QED BY <1>4, <2>1 DEF Makes
<1>6. call[h].rpc = "RemoveTrack" /\ h[2] \in 1..(Len(queue) - 1)
      /\ queue' = RemoveAt(queue, h[2] + 1)
  <2>1. queueVars' # queueVars
    BY DEF queueVars
  <2> QED BY <1>3, <1>5, <2>1
          DEF Serves, GetSession, ListQueue, RemoveTrack, SkipTrack, RateLimited, NoSession, Refuse
<1>7. h[2] + 1 \in 1..Len(queue)
  BY <1>1, <1>5, <1>6 DEF QueueIsGood
<1> QED BY <1>1, <1>4, <1>5, <1>6, <1>7

(* For a queue and a page of any size, whatever others remove, play and queue
   meanwhile, and however often the session ends and starts anew. *)
THEOREM RemovesWhatIsShown == PageSpec => RemovesTheTrackShown
<1> DEFINE Shown(h) ==
      /\ call[h].stage = "sent" /\ call'[h].stage = "answered"
      /\ queue' # queue
      /\ \A i \in 1..(h[2] + 1) : Queued(call[h].seen[i])
      => \A i \in 1..Len(queue') : queue'[i] # call[h].seen[h[2] + 1]
<1>1. ASSUME PageInv, PageNext, NEW h \in Removes PROVE Shown(h)
  <2> SUFFICES ASSUME call[h].stage = "sent", call'[h].stage = "answered", queue' # queue,
                      \A i \in 1..(h[2] + 1) : Queued(call[h].seen[i])
               PROVE  \A i \in 1..Len(queue') : queue'[i] # call[h].seen[h[2] + 1]
    OBVIOUS
  <2>1. /\ QueueIsGood(queue, added) /\ ReadOf(call[h].seen, queue, added)
        /\ h[2] + 1 \in 1..Len(call[h].seen)
        /\ h[2] + 1 \in 1..Len(queue) /\ queue' = RemoveAt(queue, h[2] + 1)
    BY <1>1, RemovalIsServed
  <2>2. queue[h[2] + 1] = call[h].seen[h[2] + 1]
    BY <2>1 DEF ReadOf, In, Queued
  <2>3. \A i \in 1..Len(queue') : queue'[i] # queue[h[2] + 1]
    BY <2>1, RemovedIsGone
  <2> QED BY <2>2, <2>3
<1>2. PageInv /\ [PageNext]_stationPageVars => [\A h \in Removes : Shown(h)]_stationPageVars
  BY <1>1
<1> QED BY <1>2, PageInitInv, PageNextInv, PTL DEF PageSpec, RemovesTheTrackShown

(* The same without asking what has left the queue: however stale the index, no
   track that the page listed before it is lost. *)
THEOREM RemovalsSpareWhatIsBefore == PageSpec => RemovesNoneBefore
<1> DEFINE Spared(h) ==
      /\ call[h].stage = "sent" /\ call'[h].stage = "answered"
      /\ queue' # queue
      => \A i \in 1..h[2] : Queued(call[h].seen[i]) =>
           \E j \in 1..Len(queue') : queue'[j] = call[h].seen[i]
<1>1. ASSUME PageInv, PageNext, NEW h \in Removes PROVE Spared(h)
  <2> SUFFICES ASSUME call[h].stage = "sent", call'[h].stage = "answered", queue' # queue,
                      NEW i \in 1..h[2], Queued(call[h].seen[i])
               PROVE  In(call[h].seen[i], queue')
    BY DEF In
  <2>1. /\ QueueIsGood(queue, added) /\ ReadOf(call[h].seen, queue, added)
        /\ h[2] \in Nat /\ h[2] + 1 \in 1..Len(call[h].seen)
        /\ h[2] + 1 \in 1..Len(queue) /\ queue' = RemoveAt(queue, h[2] + 1)
    BY <1>1, RemovalIsServed
  <2>2. Len(call[h].seen) \in Nat
    BY <2>1 DEF ReadOf
  <2>3. i \in 1..Len(call[h].seen) /\ i < h[2] + 1
    BY <2>1, <2>2
  <2>4. In(call[h].seen[i], queue)
    BY DEF In, Queued
  <2> QED BY <2>1, <2>3, <2>4, ListedBeforeStays
<1>2. PageInv /\ [PageNext]_stationPageVars => [\A h \in Removes : Spared(h)]_stationPageVars
  BY <1>1
<1> QED BY <1>2, PageInitInv, PageNextInv, PTL DEF PageSpec, RemovesNoneBefore

-----------------------------------------------------------------------------
(* The rate limiter.                                                       *)

(* What the refinement rests on: no entry is seen before its last token, nor
   in the future. *)
SeenAfterToken ==
    \A k \in Clients : limiters[k] # NoLimiter =>
        limiters[k].last <= limiters[k].lastSeen /\ limiters[k].lastSeen <= clock

LimiterInv == LimiterTypeOK /\ SeenAfterToken

Bucket(k) == Tokens(Entry(k))

-----------------------------------------------------------------------------
(* Arithmetic of the library's buckets.                                    *)

LEMMA TimesMonotone ==
    ASSUME NEW r \in Nat, NEW m \in Nat, NEW n \in Nat, m <= n
    PROVE  r * m \in Nat /\ r * m <= r * n
<1>1. r * n = r * m + r * (n - m)
  OBVIOUS
<1>2. r * m \in Nat /\ r * (n - m) \in Nat
  OBVIOUS
<1> QED BY <1>1, <1>2

LEMMA TimesNextTime ==
    ASSUME NEW r \in Nat, NEW n \in Nat, NEW m \in Nat, m <= n
    PROVE  r * ((n + 1) - m) = r * (n - m) + r
OBVIOUS

(* A bucket that was full just now is full. *)
LEMMA FullNow ==
    ASSUME NEW n \in Nat
    PROVE  AtMostBurst(Burst + Rate * (n - n)) = Burst
<1>1. Rate * (n - n) = 0
  BY LimiterAssumption
<1> QED BY <1>1, LimiterAssumption DEF AtMostBurst

LEMMA EntryTyped ==
    ASSUME LimiterInv, NEW k \in Clients
    PROVE  /\ Entry(k) \in Limiter
           /\ Entry(k).last <= clock
           /\ Bucket(k) \in 0..Burst
<1>1. Entry(k) \in Limiter /\ Entry(k).last <= clock
  <2>1. CASE limiters[k] = NoLimiter
    BY <2>1, LimiterAssumption DEF LimiterInv, LimiterTypeOK, Entry, Limiter
  <2>2. CASE limiters[k] # NoLimiter
    BY <2>2, LimiterAssumption DEF LimiterInv, LimiterTypeOK, SeenAfterToken, Entry, Limiter
  <2> QED BY <2>1, <2>2
<1>2. Rate * (clock - Entry(k).last) \in Nat
  BY <1>1, LimiterAssumption, TimesMonotone DEF Limiter, LimiterInv, LimiterTypeOK
<1>3. Entry(k).tokens \in 0..Burst
  BY <1>1 DEF Limiter
<1> QED BY <1>1, <1>2, <1>3, LimiterAssumption DEF Bucket, Tokens, AtMostBurst

(* A client without an entry has a full bucket. *)
LEMMA NewBucketIsFull ==
    ASSUME LimiterInv, NEW k \in Clients, limiters[k] = NoLimiter
    PROVE  Bucket(k) = Burst
<1>1. Entry(k).tokens = Burst /\ Entry(k).last = clock
  BY DEF Entry
<1> QED BY <1>1, FullNow DEF Bucket, Tokens, LimiterInv, LimiterTypeOK

(* So has one that was idle for longer than MaxIdle. *)
LEMMA IdleBucketIsFull ==
    ASSUME LimiterInv, NEW k \in Clients, limiters[k] # NoLimiter, IdleTooLong(limiters[k])
    PROVE  Bucket(k) = Burst
<1> DEFINE e == limiters[k]
<1>1. e \in Limiter /\ e.last <= e.lastSeen /\ e.lastSeen <= clock /\ Entry(k) = e
  BY DEF LimiterInv, LimiterTypeOK, SeenAfterToken, Entry
<1>2. MaxIdle + 1 <= clock - e.last /\ clock - e.last \in Nat
  BY <1>1, LimiterAssumption DEF IdleTooLong, LimiterInv, LimiterTypeOK, Limiter
<1>3. Rate * (MaxIdle + 1) <= Rate * (clock - e.last)
  BY <1>2, TimesMonotone, LimiterAssumption
<1>4. Rate * (clock - e.last) \in Nat /\ Rate * (MaxIdle + 1) \in Nat
  BY <1>2, TimesMonotone, LimiterAssumption
<1>5. e.tokens \in 0..Burst
  BY <1>1 DEF Limiter
<1> QED
  <2> HIDE DEF e
  <2> QED BY <1>1, <1>3, <1>4, <1>5, LimiterAssumption DEF Bucket, Tokens, AtMostBurst

-----------------------------------------------------------------------------
(* The invariant.                                                          *)

LEMMA LimiterInitInv == LimiterInit => LimiterInv
BY LimiterAssumption DEF LimiterInit, LimiterInv, LimiterTypeOK, SeenAfterToken

LEMMA LimiterNextInv == LimiterInv /\ [LimiterNext]_limiterVars => LimiterInv'
<1> SUFFICES ASSUME LimiterInv, [LimiterNext]_limiterVars PROVE LimiterInv'
  OBVIOUS
<1>1. ASSUME NEW k \in Clients, Granted(k) PROVE LimiterInv'
  <2>1. Tokens(Entry(k)) - 1 \in 0..Burst
    BY <1>1, EntryTyped, LimiterAssumption DEF Granted, Bucket
  <2> QED BY <1>1, <2>1, LimiterAssumption
          DEF Granted, LimiterInv, LimiterTypeOK, SeenAfterToken, Limiter
<1>2. ASSUME NEW k \in Clients, Denied(k) PROVE LimiterInv'
  <2>1. Entry(k) \in Limiter /\ Entry(k).last <= clock
    BY EntryTyped
  <2> QED BY <1>2, <2>1, LimiterAssumption
          DEF Denied, LimiterInv, LimiterTypeOK, SeenAfterToken, Limiter
<1>3. CASE Cleanup
  BY <1>3 DEF Cleanup, LimiterInv, LimiterTypeOK, SeenAfterToken
<1>4. CASE TimePasses
  <2>1. \A k \in Clients : limiters[k] # NoLimiter => limiters[k].lastSeen \in Nat
    BY DEF LimiterInv, LimiterTypeOK, Limiter
  <2> QED BY <1>4, <2>1 DEF TimePasses, LimiterInv, LimiterTypeOK, SeenAfterToken
<1>5. CASE UNCHANGED limiterVars
  BY <1>5 DEF limiterVars, LimiterInv, LimiterTypeOK, SeenAfterToken
<1> QED BY <1>1, <1>2, <1>3, <1>4, <1>5 DEF LimiterNext, allow

-----------------------------------------------------------------------------
(* Each step as a step of the buckets.                                     *)

(* A bucket is left as it is by a step that leaves the clock and its entry. *)
LEMMA SameBucket ==
    ASSUME NEW k \in Clients, UNCHANGED clock, limiters'[k] = limiters[k]
    PROVE  Bucket(k)' = Bucket(k)
BY DEF Bucket, Tokens, Entry

LEMMA GrantedTakes ==
    ASSUME LimiterInv, NEW k \in Clients, Granted(k)
    PROVE  Unpurged!Take(k)
<1>1. Bucket(k) \in 0..Burst /\ Bucket(k) >= 1
  BY EntryTyped DEF Granted, Bucket
<1>2. /\ Entry(k)'.tokens = Bucket(k) - 1
      /\ Entry(k)'.last = clock
      /\ clock' = clock
  <2>1. limiters'[k] = [tokens |-> Bucket(k) - 1, last |-> clock, lastSeen |-> clock]
    BY DEF Granted, LimiterInv, LimiterTypeOK, Bucket
  <2>2. limiters'[k] \in Limiter
    BY <1>1, <2>1, LimiterAssumption DEF Limiter, LimiterInv, LimiterTypeOK
  <2> QED BY <2>1, <2>2, LimiterAssumption DEF Entry, Granted
<1>3. Bucket(k)' = Bucket(k) - 1
  <2>1. Rate * (clock - clock) = 0
    BY LimiterAssumption DEF LimiterInv, LimiterTypeOK
  <2> QED BY <1>1, <1>2, <2>1, LimiterAssumption DEF Bucket, Tokens, AtMostBurst
<1>4. ASSUME NEW j \in Clients, j # k PROVE Bucket(j)' = Bucket(j)
  BY <1>4, SameBucket DEF Granted, LimiterInv, LimiterTypeOK
<1>5. refused' = refused \ {k} /\ UNCHANGED clock
  BY DEF Granted
<1>6. [j \in Clients |-> Bucket(j)]' = [[j \in Clients |-> Bucket(j)] EXCEPT ![k] = @ - 1]
  <2> HIDE DEF Bucket
  <2> QED BY <1>3, <1>4
<1>7. [j \in Clients |-> Bucket(j)][k] > 0
  BY <1>1
<1> QED BY <1>5, <1>6, <1>7 DEF Unpurged!Take, Bucket

LEMMA DeniedRefuses ==
    ASSUME LimiterInv, NEW k \in Clients, Denied(k)
    PROVE  Unpurged!Refuse(k)
<1>1. Bucket(k) = 0
  BY DEF Denied, Bucket
<1>2. limiters[k] # NoLimiter
  BY <1>1, NewBucketIsFull, LimiterAssumption
<1>3. /\ Entry(k)'.tokens = Entry(k).tokens
      /\ Entry(k)'.last = Entry(k).last
      /\ clock' = clock
  <2>1. Entry(k) = limiters[k] /\ limiters[k] \in Limiter
    BY <1>2 DEF Entry, LimiterInv, LimiterTypeOK
  <2>2. limiters'[k] = [limiters[k] EXCEPT !.lastSeen = clock]
    BY <2>1 DEF Denied, LimiterInv, LimiterTypeOK
  <2>3. limiters'[k] \in Limiter
    BY <2>1, <2>2 DEF Limiter, LimiterInv, LimiterTypeOK
  <2> QED BY <2>1, <2>2, <2>3, LimiterAssumption DEF Entry, Denied, Limiter
<1>4. Bucket(k)' = Bucket(k)
  BY <1>3 DEF Bucket, Tokens
<1>5. ASSUME NEW j \in Clients, j # k PROVE Bucket(j)' = Bucket(j)
  BY <1>5, SameBucket DEF Denied, LimiterInv, LimiterTypeOK
<1> QED BY <1>1, <1>4, <1>5 DEF Unpurged!Refuse, Denied, Bucket

LEMMA CleanupForgetsFullBuckets ==
    ASSUME LimiterInv, Cleanup
    PROVE  UNCHANGED Unpurged!vars
<1>1. ASSUME NEW k \in Clients PROVE Bucket(k)' = Bucket(k)
  <2>1. CASE limiters[k] # NoLimiter /\ IdleTooLong(limiters[k])
    <3>1. limiters'[k] = NoLimiter
      BY <2>1 DEF Cleanup
    <3>2. Bucket(k)' = Burst
      <4>1. Entry(k)'.tokens = Burst /\ Entry(k)'.last = clock /\ clock' = clock
        BY <3>1 DEF Entry, Cleanup
      <4> QED BY <4>1, FullNow DEF Bucket, Tokens, LimiterInv, LimiterTypeOK
    <3> QED BY <2>1, <3>2, IdleBucketIsFull
  <2>2. CASE ~(limiters[k] # NoLimiter /\ IdleTooLong(limiters[k]))
    BY <2>2, SameBucket DEF Cleanup
  <2> QED BY <2>1, <2>2
<1> QED BY <1>1 DEF Unpurged!vars, Cleanup, Bucket

LEMMA TimeRefills ==
    ASSUME LimiterInv, TimePasses
    PROVE  Unpurged!Refill
<1>1. ASSUME NEW k \in Clients PROVE Bucket(k)' = AtMostBurst(Bucket(k) + Rate)
  <2>1. CASE limiters[k] = NoLimiter
    <3>1. Entry(k)'.tokens = Burst /\ Entry(k)'.last = clock' /\ clock' \in Nat
      BY <2>1 DEF TimePasses, Entry, LimiterInv, LimiterTypeOK
    <3>2. AtMostBurst(Burst + Rate * (clock' - clock')) = Burst
      BY <3>1, FullNow
    <3>3. Bucket(k)' = Burst
      BY <3>1, <3>2 DEF Bucket, Tokens
    <3> QED BY <2>1, <3>3, NewBucketIsFull, LimiterAssumption DEF AtMostBurst
  <2>2. CASE limiters[k] # NoLimiter
    <3>1. Entry(k)' = Entry(k) /\ clock' = clock + 1
      BY <2>2 DEF TimePasses, Entry
    <3>2. /\ Entry(k).tokens \in 0..Burst
          /\ clock \in Nat /\ Entry(k).last \in Nat /\ Entry(k).last <= clock
      BY EntryTyped DEF LimiterInv, LimiterTypeOK, Limiter
    <3>3. Rate * ((clock + 1) - Entry(k).last) = Rate * (clock - Entry(k).last) + Rate
      BY <3>2, TimesNextTime, LimiterAssumption
    <3>4. Rate * (clock - Entry(k).last) \in Nat
      BY <3>2, TimesMonotone, LimiterAssumption
    <3> QED BY <3>1, <3>2, <3>3, <3>4, LimiterAssumption DEF Bucket, Tokens, AtMostBurst
  <2> QED BY <2>1, <2>2
<1> QED BY <1>1 DEF Unpurged!Refill, Unpurged!AtMostBurst, AtMostBurst, TimePasses, Bucket

-----------------------------------------------------------------------------
(* For any rate, capacity and idle time in which a bucket fills, the limiter
   is buckets that are never thrown away: what startCleanup purges is full. *)
THEOREM PurgeIsInvisible == LimiterSpec => ForgetsFullBucketsOnly
<1>1. LimiterInit => Unpurged!Init
  <2> SUFFICES ASSUME LimiterInit PROVE Unpurged!Init
    OBVIOUS
  <2>1. ASSUME NEW k \in Clients PROVE Bucket(k) = Burst
    BY LimiterInitInv, NewBucketIsFull DEF LimiterInit
  <2> QED BY <2>1 DEF LimiterInit, Unpurged!Init, Bucket
<1>2. LimiterInv /\ [LimiterNext]_limiterVars => [Unpurged!Next]_(Unpurged!vars)
  <2> SUFFICES ASSUME LimiterInv, [LimiterNext]_limiterVars
               PROVE  [Unpurged!Next]_(Unpurged!vars)
    OBVIOUS
  <2>1. ASSUME NEW k \in Clients, NEW ok \in BOOLEAN, allow(k, ok)
        PROVE  Unpurged!Next
    BY <2>1, GrantedTakes, DeniedRefuses DEF allow, Unpurged!Next
  <2>2. CASE Cleanup
    BY <2>2, CleanupForgetsFullBuckets
  <2>3. CASE TimePasses
    BY <2>3, TimeRefills DEF Unpurged!Next
  <2>4. CASE UNCHANGED limiterVars
    BY <2>4 DEF limiterVars, Unpurged!vars, Tokens, Entry
  <2> QED BY <2>1, <2>2, <2>3, <2>4 DEF LimiterNext
<1> QED BY <1>1, <1>2, LimiterInitInv, LimiterNextInv, PTL
    DEF LimiterSpec, ForgetsFullBucketsOnly, Unpurged!Spec

(* A call is limited by its token, or is not limited at all. *)
LEMMA CallsAreLimiterSteps ==
    ASSUME NEW command, NEW reply, Calls(command, reply)
    PROVE  LimiterNext \/ UNCHANGED limiterVars
<1>1. Bot \in Clients
  BY BotAssumption
<1>2. ASSUME NEW ok \in BOOLEAN, allow(Bot, ok) PROVE LimiterNext
  BY <1>1, <1>2 DEF LimiterNext
<1>3. CASE command[1] = "skip" /\ ((Admitted /\ SkipTrack(reply)) \/ OverLimit(reply))
  BY <1>2, <1>3 DEF Admitted, OverLimit
<1>4. CASE command[1] = "remove" /\ RemoveIndex(command[2], reply)
  BY <1>2, <1>4 DEF RemoveIndex, Admitted, OverLimit
<1> QED BY <1>3, <1>4 DEF Calls

LEMMA BotStepsTheLimiter == [Next]_vars => [LimiterNext]_limiterVars
<1> SUFFICES ASSUME [Next]_vars PROVE LimiterNext \/ UNCHANGED limiterVars
  OBVIOUS
<1>1. ASSUME NEW i \in Interactions, Serve(i) PROVE LimiterNext \/ UNCHANGED limiterVars
  BY <1>1, CallsAreLimiterSteps DEF Serve
<1>2. ASSUME NEW i \in Interactions,
             \/ \E command \in Commands : Begin(i, command)
             \/ Lose(i) \/ Reply(i) \/ ReplyFails(i)
      PROVE  UNCHANGED limiterVars
  BY <1>2 DEF Begin, Lose, Reply, ReplyFails
<1>3. CASE OtherGuild
  BY <1>3, BotAssumption DEF OtherGuild, LimiterNext
<1>4. CASE Others \/ (StationNext /\ UNCHANGED <<limiterVars, botVars>>)
  BY <1>4 DEF Others
<1>5. CASE Cleanup \/ TimePasses
  BY <1>5 DEF LimiterNext
<1>6. CASE UNCHANGED vars
  BY <1>6 DEF vars
<1> QED BY <1>1, <1>2, <1>3, <1>4, <1>5, <1>6 DEF Next

(* What startCleanup purges is full, whatever the bot's commands and the other
   clients of its bucket do. *)
THEOREM BotLosesNoTokens == Spec => ForgetsFullBucketsOnly
<1>1. Init => LimiterInit
  BY DEF Init
<1> QED BY <1>1, BotStepsTheLimiter, PurgeIsInvisible, PTL DEF Spec, LimiterSpec

-----------------------------------------------------------------------------
(* The bot.                                                                *)

(* What a reply tells of the station it was given for. *)
IsSo(c) ==
    /\ c.reply = "not_found" => ~c.here
    /\ c.command[1] = "queue" /\ c.reply = "ok" => c.here
    /\ c.command[1] = "skip" /\ c.reply = "failed_precondition" => c.here /\ c.list = <<>>
    /\ c.command[1] = "remove" /\ c.reply = "invalid_argument" =>
         c.command[2] = 1 \/ c.command[2] > Len(c.list)

BotReplies == Replies \cup {"lost", "unencodable"}

InteractionIsGood(c, q, n) ==
    \/ c = Idle
    \/ /\ c = [stage |-> "asked", command |-> c.command, listed |-> c.listed]
       /\ c.command \in Commands /\ ReadOf(c.listed, q, n)
    \/ /\ c = [stage |-> "served", command |-> c.command,
               reply |-> c.reply, list |-> c.list, here |-> c.here]
       /\ c.command \in Commands /\ c.reply \in BotReplies /\ c.here \in BOOLEAN
       /\ ReadOf(c.list, q, n) /\ IsSo(c)

BotInv ==
    /\ live \in BOOLEAN /\ QueueIsGood(queue, added)
    /\ interaction = [i \in Interactions |-> interaction[i]]
    /\ \A i \in Interactions : InteractionIsGood(interaction[i], queue, added)
    /\ ReadOf(listing, queue, added)
    /\ said \in Sayings

LEMMA BotInitInv == Init => BotInv
<1> SUFFICES ASSUME Init PROVE BotInv
  OBVIOUS
<1>1. queue = <<>> /\ added = 0 /\ live \in BOOLEAN /\ listing = <<>>
  BY DEF Init, QueueInit
<1>2. QueueIsGood(queue, added)
  BY <1>1, QueueAssumption DEF QueueIsGood
<1> QED BY <1>1, <1>2, QueueReadsItself DEF Init, BotInv, InteractionIsGood, Sayings

LEMMA InteractionFacts ==
    ASSUME BotInv, NEW i \in Interactions
    PROVE  /\ interaction[i].stage = "asked" =>
                /\ interaction[i].command \in Commands
                /\ ReadOf(interaction[i].listed, queue, added)
           /\ interaction[i].stage = "served" =>
                /\ interaction[i] = [stage |-> "served", command |-> interaction[i].command,
                                     reply |-> interaction[i].reply,
                                     list |-> interaction[i].list,
                                     here |-> interaction[i].here]
                /\ interaction[i].command \in Commands
                /\ interaction[i].reply \in BotReplies /\ interaction[i].here \in BOOLEAN
                /\ ReadOf(interaction[i].list, queue, added)
                /\ IsSo(interaction[i])
<1> DEFINE c == interaction[i]
<1>1. InteractionIsGood(c, queue, added)
  BY DEF BotInv
<1> HIDE DEF c
<1>2. CASE c = Idle
  BY <1>2 DEF Idle, c
<1>3. CASE /\ c = [stage |-> "asked", command |-> c.command, listed |-> c.listed]
           /\ c.command \in Commands /\ ReadOf(c.listed, queue, added)
  <2>1. c.stage = "asked"
    BY <1>3
  <2> QED BY <1>3, <2>1 DEF c
<1>4. CASE /\ c = [stage |-> "served", command |-> c.command,
                   reply |-> c.reply, list |-> c.list, here |-> c.here]
           /\ c.command \in Commands /\ c.reply \in BotReplies /\ c.here \in BOOLEAN
           /\ ReadOf(c.list, queue, added) /\ IsSo(c)
  <2>1. c.stage = "served"
    BY <1>4
  <2> QED BY <1>4, <2>1 DEF c
<1> QED BY <1>1, <1>2, <1>3, <1>4 DEF InteractionIsGood

(* The queue moves under the interactions ... *)
LEMMA QueueMovesUnderInteractions ==
    ASSUME BotInv, QueueStep, UNCHANGED botVars
    PROVE  BotInv'
<1>1. QueueIsGood(queue', added')
      /\ \A list : ReadOf(list, queue, added) => ReadOf(list, queue', added')
  BY ReadingsLast DEF QueueStep, BotInv
<1>2. \A i \in Interactions : InteractionIsGood(interaction[i], queue', added')
  BY <1>1 DEF BotInv, InteractionIsGood
<1> QED BY <1>1, <1>2 DEF BotInv, QueueStep, botVars

(* ... or one of them goes on. *)
LEMMA OneInteractionGoesOn ==
    ASSUME BotInv, QueueStep, NEW i \in Interactions, NEW c,
           interaction' = [interaction EXCEPT ![i] = c],
           InteractionIsGood(c, queue', added'),
           listing' = listing \/ ReadOf(listing', queue, added),
           said' \in Sayings
    PROVE  BotInv'
<1>1. QueueIsGood(queue', added')
      /\ \A list : ReadOf(list, queue, added) => ReadOf(list, queue', added')
  BY ReadingsLast DEF QueueStep, BotInv
<1>2. interaction' = [j \in Interactions |-> interaction'[j]] /\ interaction'[i] = c
  BY DEF BotInv
<1>3. ASSUME NEW j \in Interactions PROVE InteractionIsGood(interaction'[j], queue', added')
  <2>1. CASE j = i
    BY <1>2, <2>1
  <2>2. CASE j # i
    <3>1. interaction'[j] = interaction[j]
      BY <2>2 DEF BotInv
    <3> QED BY <1>1, <3>1 DEF BotInv, InteractionIsGood
  <2> QED BY <2>1, <2>2
<1> QED BY <1>1, <1>2, <1>3 DEF BotInv, QueueStep

LEMMA CommandFacts ==
    ASSUME NEW command \in Commands
    PROVE  command[1] \in {"ping", "queue", "skip", "remove"} /\ command[2] \in Nat
BY QueueAssumption DEF Commands, Positions

LEMMA QueueStays ==
    ASSUME BotInv, UNCHANGED queueVars
    PROVE  QueueStep /\ queue' = queue /\ added' = added
BY DEF BotInv, QueueStep, QueueMoves, queueVars

LEMMA ServedIsSo ==
    ASSUME BotInv, NEW command \in Commands, NEW reply, Calls(command, reply)
    PROVE  /\ QueueStep
           /\ IsSo([stage |-> "served", command |-> command,
                    reply |-> reply, list |-> queue, here |-> live])
<1> DEFINE So == /\ reply = "not_found" => ~live
                 /\ command[1] = "queue" /\ reply = "ok" => live
                 /\ command[1] = "skip" /\ reply = "failed_precondition" => live /\ queue = <<>>
                 /\ command[1] = "remove" /\ reply = "invalid_argument" =>
                      command[2] = 1 \/ command[2] > Len(queue)
<1> SUFFICES QueueStep /\ So
  BY DEF IsSo
<1>0. command[2] \in Nat /\ Len(queue) \in Nat
  BY CommandFacts DEF BotInv, QueueIsGood
<1>1. CASE command[1] = "ping" /\ reply = "ok" /\ UNCHANGED <<queueVars, limiterVars>>
  BY <1>1, QueueStays
<1>2. CASE command[1] = "queue" /\ ListQueue(reply)
  BY <1>2, QueueStays DEF ListQueue, NoSession, Refuse
<1>3. CASE reply = "lost" /\ UNCHANGED queueVars
  BY <1>3, QueueStays
<1>4. CASE OverLimit(reply)
  BY <1>4, QueueStays DEF OverLimit, RateLimited, Refuse
<1>5. CASE command[1] = "skip" /\ SkipTrack(reply)
  BY <1>5, QueueStays DEF SkipTrack, NoSession, Refuse
<1>6. CASE reply = "unencodable" /\ UNCHANGED queueVars
  BY <1>6, QueueStays
<1>7. CASE command[1] = "remove" /\ command[2] # 0 /\ RemoveTrack(command[2] - 1, reply)
  <2>1. command[2] - 1 \in Nat
    BY <1>0, <1>7
  <2>2. QueueStep
    BY <1>7, <2>1, HandlersMoveTheQueue DEF BotInv
  <2>3. So
    BY <1>0, <1>7 DEF RemoveTrack, NoSession, Refuse
  <2> QED BY <2>2, <2>3
<1> QED BY <1>1, <1>2, <1>3, <1>4, <1>5, <1>6, <1>7 DEF Calls, RemoveIndex

LEMMA BeginKeepsInv ==
    ASSUME BotInv, NEW i \in Interactions, NEW command \in Commands, Begin(i, command)
    PROVE  BotInv'
<1> DEFINE c == [stage |-> "asked", command |-> command, listed |-> listing]
<1>1. /\ c = [stage |-> "asked", command |-> c.command, listed |-> c.listed]
      /\ c.command = command /\ c.listed = listing
  OBVIOUS
<1>2. interaction' = [interaction EXCEPT ![i] = c]
  BY DEF Begin
<1> HIDE DEF c
<1>3. InteractionIsGood(c, queue, added)
  BY <1>1 DEF InteractionIsGood, BotInv
<1> QED BY <1>2, <1>3, QueueStays, OneInteractionGoesOn DEF Begin, BotInv

LEMMA BotServeKeepsInv ==
    ASSUME BotInv, NEW i \in Interactions, Serve(i)
    PROVE  BotInv'
<1> DEFINE command == interaction[i].command
<1>1. PICK reply \in BotReplies : Calls(command, reply) /\ Answer(i, reply)
  BY DEF Serve, BotReplies
<1>2. command \in Commands
  BY InteractionFacts DEF Serve
<1>3. QueueStep /\ IsSo([stage |-> "served", command |-> command,
                         reply |-> reply, list |-> queue, here |-> live])
  BY <1>1, <1>2, ServedIsSo
<1>4. ReadOf(queue, queue', added')
  BY <1>3, QueueReadsItself, ReadingsLast DEF QueueStep, BotInv
<1> DEFINE c == [stage |-> "served", command |-> command,
                 reply |-> reply, list |-> queue, here |-> live]
<1>5. interaction' = [interaction EXCEPT ![i] = c]
  BY <1>1 DEF Answer
<1>6. /\ c = [stage |-> "served", command |-> c.command,
              reply |-> c.reply, list |-> c.list, here |-> c.here]
      /\ c.command \in Commands /\ c.reply \in BotReplies /\ c.here \in BOOLEAN
      /\ c.list = queue /\ IsSo(c)
  BY <1>1, <1>2, <1>3 DEF BotInv
<1>7. UNCHANGED <<listing, said>>
  BY <1>1 DEF Answer
<1> HIDE DEF c
<1>8. InteractionIsGood(c, queue', added')
  BY <1>4, <1>6 DEF InteractionIsGood
<1> QED BY <1>3, <1>5, <1>7, <1>8, OneInteractionGoesOn DEF BotInv

LEMMA LoseKeepsInv ==
    ASSUME BotInv, NEW i \in Interactions, Lose(i)
    PROVE  BotInv'
<1> DEFINE c == [interaction[i] EXCEPT !.reply = "lost"]
<1>1. interaction' = [interaction EXCEPT ![i] = c] /\ UNCHANGED <<queueVars, listing, said>>
  BY DEF Lose
<1> DEFINE b == interaction[i]
<1>2. /\ b = [stage |-> "served", command |-> b.command, reply |-> b.reply,
              list |-> b.list, here |-> b.here]
      /\ b.command \in Commands /\ b.here \in BOOLEAN
      /\ ReadOf(b.list, queue, added) /\ IsSo(b)
  BY InteractionFacts DEF Lose
<1>3. c = [stage |-> "served", command |-> b.command, reply |-> "lost",
           list |-> b.list, here |-> b.here]
  BY <1>2
<1>4. /\ c = [stage |-> "served", command |-> c.command,
              reply |-> c.reply, list |-> c.list, here |-> c.here]
      /\ c.command = b.command /\ c.reply = "lost" /\ c.list = b.list /\ c.here = b.here
  BY <1>3
<1> HIDE DEF b, c
<1>5. IsSo(c)
  BY <1>2, <1>4 DEF IsSo
<1>6. InteractionIsGood(c, queue, added)
  BY <1>2, <1>4, <1>5 DEF InteractionIsGood, BotReplies
<1> QED BY <1>1, <1>6, QueueStays, OneInteractionGoesOn DEF BotInv

LEMMA SayingsAreSayings ==
    ASSUME NEW c, c.command \in Commands
    PROVE  Saying(c) \in Sayings
<1>1. c.command[1] \in {"ping", "queue", "skip", "remove"}
  BY CommandFacts
<1> QED BY <1>1 DEF Saying, Sayings, handlePingCommand, handleQueueCommand, handleRemoveCommand,
                    handleSkipCommand

LEMMA ReplyKeepsInv ==
    ASSUME BotInv, NEW i \in Interactions, Reply(i) \/ ReplyFails(i)
    PROVE  BotInv'
<1>1. interaction' = [interaction EXCEPT ![i] = Idle] /\ UNCHANGED queueVars
  BY DEF Reply, ReplyFails
<1>2. InteractionIsGood(Idle, queue, added)
  BY DEF InteractionIsGood
<1>3. interaction[i].command \in Commands /\ ReadOf(interaction[i].list, queue, added)
  BY InteractionFacts DEF Reply, ReplyFails
<1>4. listing' = listing \/ ReadOf(listing', queue, added)
  BY <1>3 DEF Reply, ReplyFails
<1>5. said' \in Sayings
  BY <1>3, SayingsAreSayings DEF Reply, ReplyFails, BotInv
<1> QED BY <1>1, <1>2, <1>4, <1>5, QueueStays, OneInteractionGoesOn

LEMMA BotNextInv == BotInv /\ [Next]_vars => BotInv'
<1> SUFFICES ASSUME BotInv, [Next]_vars PROVE BotInv'
  OBVIOUS
<1>1. ASSUME UNCHANGED botVars, UNCHANGED queueVars PROVE BotInv'
  BY <1>1, QueueStays, QueueMovesUnderInteractions
<1>2. CASE Others
  <2>1. \A n \in 1..(MaxQueueSize - 1) : n \in Nat
    BY QueueAssumption
  <2>2. QueueStep
    BY <1>2, <2>1, HandlersMoveTheQueue DEF Others, BotInv
  <2> QED BY <1>2, <2>2, QueueMovesUnderInteractions DEF Others
<1>3. CASE StationNext /\ UNCHANGED <<limiterVars, botVars>>
  BY <1>3, HandlersMoveTheQueue, QueueMovesUnderInteractions DEF BotInv
<1>4. CASE OtherGuild \/ ((Cleanup \/ TimePasses) /\ UNCHANGED <<queueVars, botVars>>)
  BY <1>1, <1>4 DEF OtherGuild
<1>5. CASE UNCHANGED vars
  BY <1>1, <1>5 DEF vars
<1> QED BY <1>2, <1>3, <1>4, <1>5, BeginKeepsInv, BotServeKeepsInv, LoseKeepsInv, ReplyKeepsInv
        DEF Next

(* The state of the bot's commands is well typed, that of the station and of
   the limiter as well. *)
THEOREM BotTypeCorrect == Spec => []TypeOK
<1>1. BotInv /\ LimiterInv => TypeOK
  <2> SUFFICES ASSUME BotInv, LimiterInv PROVE TypeOK
    OBVIOUS
  <2>1. QueueTypeOK /\ LimiterTypeOK /\ listing \in Seq(Entries) /\ said \in Sayings
    BY DEF BotInv, QueueIsGood, QueueTypeOK, LimiterInv, ReadOf
  <2>2. ASSUME NEW i \in Interactions PROVE interaction[i] \in Asked \cup Served \cup {Idle}
    BY DEF BotInv, InteractionIsGood, Asked, Served, BotReplies, ReadOf
  <2> QED BY <2>1, <2>2 DEF TypeOK
<1>2. Init => LimiterInv
  BY LimiterInitInv DEF Init
<1>3. LimiterInv /\ [Next]_vars => LimiterInv'
  BY BotStepsTheLimiter, LimiterNextInv
<1> QED BY <1>1, <1>2, <1>3, BotInitInv, BotNextInv, PTL DEF Spec

(* For any queue, any interactions at once and any tokens: what the bot says of
   a station, its queue or a position was so when the server looked. *)
THEOREM BotTellsTheTruth == Spec => SaysWhatWasSo
<1> DEFINE True(i) ==
      LET c == interaction[i] IN
      said' # said /\ interaction'[i] # c =>
        /\ said' = "no session" => ~c.here
        /\ said' \in {"queue is empty", "the queue"} => c.here
        /\ said' = "queue is empty" => c.list = <<>>
        /\ said' = "is playing" => c.command[2] = 1
        /\ said' = "invalid position" => c.command[2] > Len(c.list)
<1>1. ASSUME BotInv, [Next]_vars, NEW i \in Interactions PROVE True(i)
  <2> SUFFICES ASSUME said' # said, interaction'[i] # interaction[i] PROVE True(i)
    OBVIOUS
  <2>1. PICK j \in Interactions : Reply(j)
    BY <1>1 DEF Next, vars, botVars, Begin, Serve, Answer, Lose, ReplyFails, Others, OtherGuild
  <2>2. i = j
    BY <1>1, <2>1 DEF Reply, BotInv
  <2> DEFINE c == interaction[i]
  <2>3. said' = Saying(c) /\ IsSo(c) /\ c.command \in Commands
    BY <1>1, <2>1, <2>2, InteractionFacts DEF Reply
  <2>4. c.command[1] \in {"ping", "queue", "skip", "remove"}
    BY <2>3, CommandFacts
  <2> HIDE DEF c
  <2>5. CASE c.command[1] = "ping"
    BY <2>3, <2>5 DEF Saying, handlePingCommand, c
  <2>6. CASE c.command[1] = "queue"
    BY <2>3, <2>6 DEF Saying, handleQueueCommand, IsSo, c
  <2>7. CASE c.command[1] = "skip"
    BY <2>3, <2>7 DEF Saying, handleSkipCommand, IsSo, c
  <2>8. CASE c.command[1] = "remove"
    BY <2>3, <2>8 DEF Saying, handleRemoveCommand, IsSo, c
  <2> QED BY <2>4, <2>5, <2>6, <2>7, <2>8
<1>2. BotInv /\ [Next]_vars => [\A i \in Interactions : True(i)]_vars
  BY <1>1
<1> QED BY <1>2, BotInitInv, BotNextInv, PTL DEF Spec, SaysWhatWasSo

(* For a queue of any size, whatever others remove, play and queue between
   /queue and /remove, and however often the session ends and starts anew:
   the track listed at the position is removed, as long as none up to it has
   left, and never one that was listed before it. *)
THEOREM RemovesWhatIsListed == Spec => RemovesTheTrackListed
<1> DEFINE Listed(i) ==
      LET c == interaction[i] IN
      /\ c.stage = "asked" /\ interaction'[i].stage = "served"
      /\ queue' # queue
      /\ c.command[2] \in 1..Len(c.listed)
      => /\ (\A n \in 1..c.command[2] : Queued(c.listed[n])) =>
              \A n \in 1..Len(queue') : queue'[n] # c.listed[c.command[2]]
         /\ \A n \in 1..(c.command[2] - 1) : Queued(c.listed[n]) =>
              \E m \in 1..Len(queue') : queue'[m] = c.listed[n]
<1>1. ASSUME BotInv, Next, NEW i \in Interactions PROVE Listed(i)
  <2> DEFINE c == interaction[i]
             p == c.command[2]
  <2> SUFFICES ASSUME c.stage = "asked", interaction'[i].stage = "served", queue' # queue,
                      p \in 1..Len(c.listed)
               PROVE  /\ (\A n \in 1..p : Queued(c.listed[n])) =>
                           \A n \in 1..Len(queue') : queue'[n] # c.listed[p]
                      /\ \A n \in 1..(p - 1) : Queued(c.listed[n]) => In(c.listed[n], queue')
    BY DEF In
  <2>1. Serve(i)
    <3>1. ASSUME NEW j \in Interactions, Serve(j) PROVE j = i
      <4>1. PICK b : interaction' = [interaction EXCEPT ![j] = b]
        BY <3>1 DEF Serve, Answer
      <4>2. interaction'[i] # interaction[i]
        OBVIOUS
      <4> QED BY <1>1, <4>1, <4>2 DEF BotInv
    <3>2. ASSUME UNCHANGED queueVars PROVE FALSE
      BY <3>2 DEF queueVars
    <3>3. ASSUME UNCHANGED botVars PROVE FALSE
      BY <3>3 DEF botVars
    <3> QED BY <1>1, <3>1, <3>2, <3>3
            DEF Next, Begin, Lose, Reply, ReplyFails, Others, OtherGuild
  <2>2. PICK reply : Calls(c.command, reply)
    BY <2>1 DEF Serve
  <2>3. c.command \in Commands /\ ReadOf(c.listed, queue, added)
    BY <1>1, InteractionFacts
  <2>4. p \in Nat /\ Len(queue) \in Nat
    BY <1>1, <2>3, CommandFacts DEF BotInv, QueueIsGood
  <2> HIDE DEF c
  <2>5. p # 0 /\ p - 1 \in 1..(Len(queue) - 1) /\ queue' = RemoveAt(queue, (p - 1) + 1)
    <3>1. queueVars' # queueVars
      BY DEF queueVars
    <3> QED BY <2>2, <3>1
            DEF Calls, RemoveIndex, Admitted, OverLimit, ListQueue, SkipTrack, RemoveTrack,
                RateLimited, NoSession, Refuse
  <2>6. p \in 1..Len(queue) /\ queue' = RemoveAt(queue, p)
    BY <2>4, <2>5
  <2>7. (\A n \in 1..p : Queued(c.listed[n])) => queue[p] = c.listed[p]
    BY <2>3, <2>6 DEF ReadOf, In, Queued
  <2>8. \A n \in 1..Len(queue') : queue'[n] # queue[p]
    BY <1>1, <2>6, RemovedIsGone DEF BotInv
  <2>9. ASSUME NEW n \in 1..(p - 1), Queued(c.listed[n]) PROVE In(c.listed[n], queue')
    <3>1. Len(c.listed) \in Nat
      BY <2>3 DEF ReadOf
    <3>2. n \in 1..Len(c.listed) /\ n < p
      BY <2>4, <3>1
    <3>3. In(c.listed[n], queue)
      BY <2>9 DEF In, Queued
    <3> QED BY <1>1, <2>3, <2>6, <3>2, <3>3, ListedBeforeStays DEF BotInv
  <2> QED BY <2>7, <2>8, <2>9
<1>2. BotInv /\ [Next]_vars => [\A i \in Interactions : Listed(i)]_vars
  BY <1>1
<1> QED BY <1>2, BotInitInv, BotNextInv, PTL DEF Spec, RemovesTheTrackListed
=============================================================================
