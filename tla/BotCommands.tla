---------------------------- MODULE BotCommands ----------------------------
(***************************************************************************)
(* The commands of the Discord bot that are one call of the server and one *)
(* reply (/ping, /queue, /remove, /skip) in one guild, over the station of *)
(* the guild (StationQueue) and the rate limiter, in which the bot is one  *)
(* client.  An interaction is a command of some user; what overlaps it is  *)
(* one of Others, or a command in another guild, which takes its token     *)
(* from the same bucket.  Discord may refuse the reply, for one when it    *)
(* comes late.                                                             *)
(***************************************************************************)
EXTENDS StationQueue, RateLimiter

CONSTANTS
    Interactions,   \* commands that may be under way at once
    Bot,            \* the bot's address, its key in the limiter
    MaxClock        \* bound on the clock

ASSUME BotAssumption == Bot \in Clients /\ MaxClock \in Nat

VARIABLES
    interaction,    \* where each command is
    listing,        \* the queue as a reply to /queue last showed it
    said            \* what the bot last replied

botVars == <<interaction, listing, said>>

vars == <<queueVars, limiterVars, botVars>>

Positions == 0..(MaxQueueSize + 1)
\* A command and its option; those without one have 0.
Commands == {"ping", "queue", "skip"} \X {0} \cup {"remove"} \X Positions

\* listed: the listing that the user of the command looked at.
Idle == [stage |-> "idle"]
Asked == [stage : {"asked"}, command : Commands, listed : Seq(Entries)]
\* list: the queue when the server served the call; here: whether it was live.
Served == [stage : {"served"}, command : Commands, reply : Replies \cup {"lost", "unencodable"},
           list : Seq(Entries), here : BOOLEAN]

Sayings == {"nothing", "pong", "the queue", "queue is empty", "no session", "removed",
            "is playing", "invalid position", "skipped", "went wrong"}

TypeOK ==
    /\ QueueTypeOK
    /\ LimiterTypeOK
    /\ \A i \in Interactions : interaction[i] \in Asked \cup Served \cup {Idle}
    /\ listing \in Seq(Entries)
    /\ said \in Sayings

Init ==
    /\ QueueInit
    /\ LimiterInit
    /\ interaction = [i \in Interactions |-> Idle]
    /\ listing = <<>>
    /\ said = "nothing"

-----------------------------------------------------------------------------
(* Commands.                                                               *)

\* The dispatcher calls the handler of the command.
Begin(i, command) ==
    /\ interaction[i] = Idle
    /\ interaction' = [interaction EXCEPT
                         ![i] = [stage |-> "asked", command |-> command, listed |-> listing]]
    /\ UNCHANGED <<queueVars, limiterVars, listing, said>>

Answer(i, reply) ==
    /\ interaction' = [interaction EXCEPT
                         ![i] = [stage |-> "served", command |-> @.command,
                                 reply |-> reply, list |-> queue, here |-> live]]
    /\ UNCHANGED <<listing, said>>

\* The handler of a limited procedure runs when the bot's bucket has a token.
Admitted == allow(Bot, TRUE)
OverLimit(reply) == allow(Bot, FALSE) /\ RateLimited(reply)

\* Mutant: the position is sent as it is.
RemovePosition(position, reply) ==
    (Admitted /\ RemoveTrack(position, reply)) \/ OverLimit(reply)

\* The position counts from one; an index below zero cannot be encoded.
RemoveIndex(position, reply) ==
    IF position = 0
    THEN reply = "unencodable" /\ UNCHANGED <<queueVars, limiterVars>>
    ELSE (Admitted /\ RemoveTrack(position - 1, reply)) \/ OverLimit(reply)

Calls(command, reply) ==
    \/ command[1] = "ping" /\ reply = "ok" /\ UNCHANGED <<queueVars, limiterVars>>
    \/ command[1] = "queue" /\ ListQueue(reply) /\ UNCHANGED limiterVars
    \/ command[1] = "skip" /\ ((Admitted /\ SkipTrack(reply)) \/ OverLimit(reply))
    \/ command[1] = "remove" /\ RemoveIndex(command[2], reply)
    \/ reply = "lost" /\ UNCHANGED <<queueVars, limiterVars>>

Serve(i) ==
    /\ interaction[i].stage = "asked"
    /\ \E reply \in Replies \cup {"lost", "unencodable"} :
         Calls(interaction[i].command, reply) /\ Answer(i, reply)

\* The answer of a call that was served is lost.
Lose(i) ==
    /\ interaction[i].stage = "served"
    /\ interaction[i].reply = "ok"
    /\ interaction' = [interaction EXCEPT ![i].reply = "lost"]
    /\ UNCHANGED <<queueVars, limiterVars, listing, said>>

handlePingCommand(reply) == IF reply = "ok" THEN "pong" ELSE "went wrong"

handleQueueCommand(reply, list) ==
    CASE reply = "ok" -> IF list = <<>> THEN "queue is empty" ELSE "the queue"
      [] reply = "not_found" -> "no session"
      [] OTHER -> "went wrong"

\* Mutant: every refused position is taken for that of the track on air.
RemoveSaysPlaying(position, reply) ==
    CASE reply = "ok" -> "removed"
      [] reply = "not_found" -> "no session"
      [] reply = "invalid_argument" -> "is playing"
      [] OTHER -> "went wrong"

handleRemoveCommand(position, reply) ==
    CASE reply = "ok" -> "removed"
      [] reply = "not_found" -> "no session"
      [] reply = "invalid_argument" ->
           IF position = 1 THEN "is playing" ELSE "invalid position"
      [] OTHER -> "went wrong"

handleSkipCommand(reply) ==
    CASE reply = "ok" -> "skipped"
      [] reply = "not_found" -> "no session"
      [] reply = "failed_precondition" -> "queue is empty"
      [] OTHER -> "went wrong"

Saying(c) ==
    CASE c.command[1] = "ping" -> handlePingCommand(c.reply)
      [] c.command[1] = "queue" -> handleQueueCommand(c.reply, c.list)
      [] c.command[1] = "skip" -> handleSkipCommand(c.reply)
      [] c.command[1] = "remove" -> handleRemoveCommand(c.command[2], c.reply)

\* interaction.reply, inside withConnectError.
Reply(i) ==
    LET c == interaction[i]
    IN  /\ c.stage = "served"
        /\ said' = Saying(c)
        /\ listing' = IF Saying(c) = "the queue" THEN c.list ELSE listing
        /\ interaction' = [interaction EXCEPT ![i] = Idle]
        /\ UNCHANGED <<queueVars, limiterVars>>

\* Discord refuses the reply, which is no ConnectError: the dispatcher logs it.
ReplyFails(i) ==
    /\ interaction[i].stage = "served"
    /\ interaction' = [interaction EXCEPT ![i] = Idle]
    /\ UNCHANGED <<queueVars, limiterVars, listing, said>>

-----------------------------------------------------------------------------
\* Calls of other clients, which have buckets of their own, and of other users.
Others ==
    /\ \E reply \in Replies :
         AddTrack(reply) \/ \E n \in 1..(MaxQueueSize - 1) : RemoveTrack(n, reply)
    /\ UNCHANGED <<limiterVars, botVars>>

\* A limited command in another guild.
OtherGuild ==
    /\ \E ok \in BOOLEAN : allow(Bot, ok)
    /\ UNCHANGED <<queueVars, botVars>>

Next ==
    \/ \E i \in Interactions :
         \/ \E command \in Commands : Begin(i, command)
         \/ Serve(i) \/ Lose(i) \/ Reply(i) \/ ReplyFails(i)
    \/ Others \/ OtherGuild
    \/ StationNext /\ UNCHANGED <<limiterVars, botVars>>
    \/ Cleanup /\ UNCHANGED <<queueVars, botVars>>
    \/ clock < MaxClock /\ TimePasses /\ UNCHANGED <<queueVars, botVars>>

Spec == Init /\ [][Next]_vars

-----------------------------------------------------------------------------
(* Properties.                                                             *)

(* /remove takes out the track that /queue listed at that position: the list
   counts from one, the call from zero (remove.ts, queue.ts), so the track is
   another one only if one at or before that place has left the queue since,
   by a command repeated after its reply was lost for instance.  Even then it
   is one listed behind that place, or queued since: those listed before it
   that are still queued stay. *)
RemovesTheTrackListed ==
    [][\A i \in Interactions :
         LET c == interaction[i] IN
         /\ c.stage = "asked" /\ interaction'[i].stage = "served"
         /\ queue' # queue
         /\ c.command[2] \in 1..Len(c.listed)
         => /\ (\A n \in 1..c.command[2] : Queued(c.listed[n])) =>
                 \A n \in 1..Len(queue') : queue'[n] # c.listed[c.command[2]]
            /\ \A n \in 1..(c.command[2] - 1) : Queued(c.listed[n]) =>
                 \E m \in 1..Len(queue') : queue'[m] = c.listed[n]]_vars

(* What the bot says of the station was so when the server looked: that there
   is none, that its queue is empty, that the position is not in it. *)
SaysWhatWasSo ==
    [][\A i \in Interactions :
         LET c == interaction[i] IN
         said' # said /\ interaction'[i] # c =>
           /\ said' = "no session" => ~c.here
           /\ said' \in {"queue is empty", "the queue"} => c.here
           /\ said' = "queue is empty" => c.list = <<>>
           /\ said' = "is playing" => c.command[2] = 1
           /\ said' = "invalid position" => c.command[2] > Len(c.list)]_vars
=============================================================================
