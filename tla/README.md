# radio-jockey in TLA+

radio-jockey is a shared internet radio. Anyone may create a *session* (a
station), queue YouTube tracks in it, skip and remove them, and listen to the
Icecast stream the server feeds for it; a Discord bot and a web site are two
clients of the same RPC server. This directory holds TLA+ models of the server,
the bot and the web site, the TLC configurations that check them and TLAPS
proofs about them.

Run, in this directory, `tlc -config MCPlayback.cfg MCPlayback.tla` for a model
(PROJECT.json names the module of each configuration) and
`tlapm PlaybackProofs.tla` for a proof.

## 1. The system

Everything below is in `src/`; the Go server is `src/server/src/`.

### Session lifecycle: `session/session_manager.go`, `icecast/icecast.go`, `connect/rpc.go`

*State.* The manager's map from session id to queue, under its mutex; a
buffered channel of events (16), `SessionCreated` with a ready channel or
`SessionDeleted` with an id only; the dispatcher's map of cancel functions.

*Operations.* `CreateSession` checks and inserts under the mutex, sends the event
after it, then blocks on ready or on the request's context. `DeleteSession`
removes the entry whoever put it there, then sends. `StreamSessions` handles
one event at a time: it starts a stream goroutine, or calls and forgets the
cancel function of an id. `streamSession` connects, reports on ready, plays
until its context is done or the session has been silent for an hour, and in a
defer calls `DeleteSession` itself with a timeout of five seconds.

*Hard.* Three kinds of goroutines and the clients that give up interleave
around one channel and events that carry only an id; the id of a session may
be created again at every point of the old one's end.

*Correct when* a registered session has a stream and a stream's end frees its
session; a creator is answered by its own stream, once; a delete cancels the
stream it means; the dispatcher outlives what it dispatches.

### Queue and playback: `session/session_queue.go`, `icecast/icecast.go`

*State.* A bounded list of tracks under a mutex, a one-token notify channel and
a one-event channel for skips.

*Operations.* `Enqueue` appends under the lock and notifies after it; `Skip`,
`Remove`, `Peek`, `Dequeue`. The stream loop peeks, records the track in the
session's archive, plays it under a context of its own that a watcher goroutine
cancels on a skip, stops the watcher, dequeues; on an empty queue it streams
silence until notified, cancelled or timed out.

*Hard.* A track is played for minutes between `Peek` and `Dequeue` with no lock
held; a notify may come for a track already played; a skip event has no
addressee; a cancelled track takes the same path as an empty queue.

*Correct when* the track dequeued is the one played, no enqueue goes unnoticed,
skips and cancellations work however long the track is, and listeners hear the
queue in its order.

### Track cache and download: `music/cache.go`, `music/youtube.go`, `db/tracks.go`

*State.* The music directory, the rows of the tracks, and the cache's window, a
list of at most 50 tracks by recency (more when more are queued).

*Operations.* `AddTrack` resolves the id, asks the cache, looks for the file,
downloads it, finds or inserts the row, enqueues, snapshots the tracks in use and
touches the cache, which evicts the oldest tracks outside the snapshot and
deletes their files. A start fills the window from the database.

*Hard.* Only the cache's own operations are locked, so every other step works on
what may have been evicted since, or evicts by what was true before; files and
rows survive a restart, the window does not.

*Correct when* a queued track has its file and the window is no larger than it
must be.

### Session archives: `db/session_archives.go`, `connect/rpc.go`

*State.* Two tables: the archives, and the tracks each has recorded. Both ids are
AUTOINCREMENT; foreign keys are not enforced.

*Operations.* `CreateSession` inserts the archive before the session is accepted;
the stream of an archived session inserts a row per track; an admin's
`DeleteSessionArchive` finds the archive, deletes its rows, then the archive;
`GetSessionArchive` reads the archive, then its rows.

*Hard.* No two statements are in one transaction. A stream records into the archive of the
queue it plays until it ends: after its session was deleted, beside the stream of a new
session of the same id, and after its archive was deleted.

*Correct when* an archive shows what its own station has played, all of it, and
nothing of another.

### Rate limiter: `connect/ratelimit.go`, `connect/interceptor.go`

A map from client addresses to token buckets, made on a client's first call and
purged when idle. *Correct when* a client cannot tell that it was purged.

### Authentication: `connect/auth/auth.go`, `web/src/routes/admin/+page.svelte`, `discord-jockey/src/connect/auth/auth.ts`

*State.* The server keeps the nonces it has issued with their expiry, and nothing of
the tokens it gives for them. The admin page keeps its token in localStorage; the bot keeps
one in the voice session of each guild.

*Operations.* `RequestNonce`; `RespondNonce` with the nonce signed, which consumes
it; calls with a token. The admin page loads two lists, stops stations and
deletes archives, logs in and out; the bot's `withAuth` tries the kept token,
earns another when refused and tries once more.

*Hard.* Nonces and tokens expire while calls are under way, the server restarts, several
calls of one page or bot are under way, and an answer may be about a login or a
token that has been replaced since.

*Correct when* no nonce earns two tokens, a login ends with its token, what was
removed does not come back, and the bot is refused only when it was late.

### Discord bot: `discord-jockey/src/discord/command/`, `sessions.ts`

*State.* A map from guild to the record of its voice session, the one voice
connection per guild that the library keeps, and in the closures of each
playback its connection, its HTTP request and its `stopped` flag.

*Operations.* `/play` adds a track when the guild has a record; otherwise it
creates or finds the server's session, joins the channel, waits 30 seconds for the
connection, stores the record and streams. `/stop` deletes the server's
session, then destroys the record and its connection. A stream that ends or
fails leaves the channel; a player that idles requests the stream again. `/queue`,
`/remove`, `/skip` and `/ping` are one call and one reply each.

*Hard.* A command is suspended at every await, for minutes altogether; what it
has found at its start (no record) may be wrong when it acts on it. Callbacks name a
guild, not a playback. Two commands may share one connection and each destroys it.
Users count positions from one in a list that an earlier reply showed.

*Correct when* the bot is not left in a channel nobody can take it out of, the record is
that of the running playback, the bot leaves when the server's session is gone, and
its replies say what was so.

### Web site: `web/src/routes/`, `web/src/lib/`

*State.* Each page's variables, in one browser; on the web server, the cache of
YouTube searches (1000 answers, 24 hours).

*Operations.* A page asks the server when it is mounted. The station page also polls its
queue every five seconds, and adds, skips and removes; it plays the stream through a
gain node; its search panel searches and turns pages through the route
`/api/youtube-search`, which answers from the cache or asks YouTube. The create page
creates a station and goes to it.

*Hard.* Handlers are threads of awaits: answers overtake each other, are lost, or
come when the page was left, and a handler acts on the state it finds then. An index
sent to the server counts in a list that may be old. Concurrent searches miss
and store side by side in a cache that evicts by insertion.

*Correct when* the page comes to show the queue whatever was lost, a button does
what it stands beside, the panel shows the page it was asked for, and
searches do not cost quota twice.

### How the parts meet

`AddTrack` (TrackCache) ends in `Enqueue` (Playback); `SessionLifecycle` starts and
cancels the stream whose loop is `Playback`. The modules meet at these points:
SessionLifecycle's stream is "streaming" for as long as Playback's loop runs
(`StreamEnds` and `StreamCancelled` are Playback reaching "ended"), its `cancelled`
and `shutdown` are Playback's `Cancel`, and TrackCache's `queued` is the union of
Playback's `tracks` over the sessions, with `Leave` for `Dequeue` and `Remove`.
VoiceSessions sees one id of SessionLifecycle, as `server`: whether the id is
registered, and that a listener's answer ends when its mount goes.

`StationQueue` is one session as its clients meet it: `live` is the registration in
SessionLifecycle, `queue` is Playback's `tracks`, `TrackEnds` its `DequeueTrack`. `ServedQueue`
puts Playback behind the manager's map and shows that it implements StationQueue.
StationQueue takes the look-up of the session and the operation as one step; in the code the
session may be unregistered in between, and the handler then acts on a queue
that no client can reach any more (in ServedQueue, a step that clients do not see).
`StationPage` and `BotCommands` are two clients composed with it, the second with
`RateLimiter` in front. `Auth` is composed with its two clients, in `AdminPage` and
`BotAuth`; BotAuth's `deleteSession` is what VoiceSessions' `/stop` calls as one step
that succeeds or fails. `Archives` sees of SessionLifecycle which call's queue is
registered under an id (`AcceptSession`, `DeleteSession`), which queue the stream of an event
plays, and that it ends some time later (`StartStream`, `StreamEnds`), and of Playback that a stream
records (`RecordPlay`); `Browse` composes it with the visitor's pages and `StationPlayer`.
`SearchPage` is composed with `SearchCache`, the route that answers it.

## 2. Modules

| module | models |
|---|---|
| `SessionLifecycle` | session manager, dispatcher, streams, create and delete calls |
| `Playback` | queue, stream loop, skip watcher, queue handlers |
| `Station` | abstract: what a session promises its listeners |
| `ServedQueue` | Playback behind the manager's map, as an implementation of StationQueue |
| `TrackCache` | AddTrack and the cache |
| `Subsequences` | what is left of a list when some of its places are dropped, without recursion |
| `Archives` | archives, their rows, creation and deletion |
| `RateLimiter` | the limiter's map of token buckets and its purge |
| `TokenBuckets` | abstract: buckets that are never purged |
| `Auth` | nonces and tokens on the server |
| `StationQueue` | one session's RPC handlers and replies, as clients meet them |
| `VoiceSessions` | /play and /stop of the Discord bot in one guild |
| `BotCommands` | its other commands, over StationQueue and RateLimiter |
| `BotAuth` | its token, over Auth |
| `StationPage` | the station page, over StationQueue |
| `SearchCache`, `SearchPage` | the search route; the search panel over it |
| `AdminPage` | the admin page, over Auth |
| `StationPlayer`, `Browse` | the player; a visitor's pages over Archives and the player |
| `...Proofs` | theorems and proofs: SessionLifecycle, Playback (with Station, ServedQueue), VoiceSessions, Caches (TrackCache, SearchCache, SearchPage), StationClients (StationPage, BotCommands, RateLimiter), BotAuth, AdminPage (with Auth), Browse (with Archives, StationPlayer) |
| `MC...` | instances for TLC, with symmetry sets |

Definitions named "Mutant: ..." are plausible wrong versions of the definition
that follows them; substituting one makes a property fail, which shows that
the property depends on that piece of code. "History" variables remember what a
property speaks of and no action reads them.

### SessionLifecycle

An RPC call is a one-shot process: `Creates` and `Deletes` are the calls, `target` the
id each names. A call also names the queue it allocates, its ready channel and
the stream its event starts, so that two sessions with one id are told apart,
which the code cannot do. `serves` is the queue a stream plays: whatever is
registered when the event is handled.

| code | actions |
|---|---|
| `CreateSession`, critical section | `CreateRejected`, `CreateInserted` |
| its send, or the context's end | `SendCreated`, `AbandonSend` |
| the handler on ready, or the context's end | `AwaitReady`, `AbandonWait` |
| `DeleteSession` by RPC | `BeginDelete`, `SendDeleted`, `AbandonDelete` |
| `StreamSessions` | `Receive`, then `StartStream`, `LoseSession` or `CancelStream`; `DispatcherStops` |
| `streamSession` | `Connected`, `ConnectFails`, `StreamEnds`, `StreamCancelled` |
| its deferred `endSession` | `EndSession`, then `NotifyDeleted` or `NotifyTimesOut` |

The receive of an event and its handling are two steps, since others may run in
between; `GetQueue` and the registration of the cancel function are one, because
only the dispatcher touches `cancels`. `NotifyTimesOut` has no guard but the place:
Go's select may take it when both arms are ready. What the process does after
shutdown is not cut short: it goes on as it may until it exits.

### Playback

An AddTrack call is one-shot and stands for the entry it enqueues, so the
same track queued twice is two entries. A skip event remembers whether
the track it was requested over has been dequeued since, which no action reads. `pc` is the place of the
loop, `watcher` that of the skip watcher.

| code | actions |
|---|---|
| `Enqueue`, locked part, and the notify after it | `EnqueueFull`, `Enqueue`, `SignalNotify` |
| `Remove` behind RemoveTrack's refusal of index 0 | `Remove` |
| `Skip` | `Skip` (a stutter when an event is there) |
| `playCurrentTrack` | `PeekTrack`, `RecordPlay`, `TrackFinishes`/`TrackFails`/`TrackCancelled`, `StopWatch`, `DequeueTrack` |
| `streamSilencePCM` | `SilenceNotified`, `SilenceCancelled`, `SilenceTimesOut` |
| `watchForSkip` | `WatchSkip`, `WatchQuit`; its stop() is `StopWatch` |

A session without an archive is the branch of `RecordPlay` that records nothing;
an insert with a cancelled context fails. The elapsed time passed to
ffmpeg is left out: the loop around it never comes round.

### Station

The queue, the track on air and whether the stream is on. `OnAir` in Playback
maps the loop to it: a track is on air from the peek that starts it to the step that
dequeues or abandons it.

### ServedQueue

`registered` is the queue's place in the manager's map, `DeleteSession` its removal, by a client or
by the stream's endSession; all else is Playback's. Clients know an entry by its number in the order of
the enqueues, so the history `enqueued` gives the entries their numbers, and `FoundQueue`
is the queue by numbers, or nothing when it is not registered.

### TrackCache

Calls interleave at the granularity of the code's locks, files and statements:
`CacheHit`/`CacheMiss` (Get), `Stat`, `Download`, `ReadTags`, `FindRow`, `InsertRow`/`Panic` (the insert,
or the read that follows it, has failed),
`Enqueue`, `Snapshot` (InUseTrackIDs), `TouchRow`, `Touch`, and `Fail` wherever the
handler returns an error. `Leave` is an entry played or removed. The initial
states are all databases, directories and windows `NewCache` can produce: a
restart is one of them. `Snapshot` is atomic, although the code reads the queues
one after the other under the manager's lock. `raced` is a history variable.

### Archives

| code | actions |
|---|---|
| `CreateSessionArchive` in `CreateSession` | `InsertArchive` |
| the manager's `CreateSession`, the answer on ready | `AcceptSession`, `RejectSession`; `CreateReturns` |
| the dispatcher's `GetQueue`, the start of a stream | `StartStream` |
| `AddSessionArchiveTrack` by the stream | `AddSessionArchiveTrack`, with `ArchiveID` |
| the end of a stream, with its `endSession` | `StreamEnds` |
| `DeleteSession` by RPC | `DeleteSession` |
| `DeleteSessionArchive` | `FindDeleted`, `DeleteRows`, `DeleteArchive`; `DeletionFails` between them |
| `GetSessionArchive` | `Serve`, `ListSessionArchiveTracks` in Browse |

`streams[c]` is the queue that the stream plays which the event of call `c` has started: that
of whatever session had the id when the event was handled. It does not change until the stream ends,
whatever becomes of the session, so streams of one id may record side by side. When an event
is handled and when a stream ends is left open here; SessionLifecycle says more.

One deletion of an archive is under way at a time. Rows are a set: the order by time of
`ListSessionArchiveTracks` is not modelled.

### RateLimiter, TokenBuckets

`allow` is `Granted` or `Denied`, `startCleanup`'s tick is `Cleanup`. A bucket is what
`rate.Limiter` keeps, in whole tokens: those it had when a call last got one,
and when. `Unpurged` maps the map of limiters to buckets that are always there: the tokens
that the next call of a client would find.

### Auth, AdminPage, BotAuth

Signatures are not modelled: only who has the private key answers a nonce. A token is its
expiry; which nonce it was given for is history. `Restart` forgets the nonces. `ConsumeNonce`
is `ConsumeNonce` and `NewToken` of `rpc.go:68-72` in one step: nothing that another call does
comes between them but the passing of time, which is taken as none. Left out is that
`VerifyToken` takes any message signed with the private key and not expired
(`auth.go:97-101`), so that a signed passkey is itself good for a call until it expires; the
page and the bot never send one so.

The page is mounted anew by a reload. A navigation within the site leaves the old page's
handlers running, and their `localStorage` writes may then meet a new page's; that is not modelled.

| code | actions |
|---|---|
| `IssueNonce`, `ConsumeNonce`, `NewToken`, `VerifyToken` | of the same names; `NonceRefused` |
| admin page: `onMount`, `loadAll` | `Mount` (also a reload), `LoadReturns` |
| `handleRequestNonce`, `handleSubmitPassKey` | of the same names, then `NonceReturns`; `LoginSucceeds`, `LoginFails` |
| `handleStop`, `handleDeleteArchive`, `handleAuthError` | `handleStop`, then `ItemStopped`, `ItemFails` |
| `logout` | `logout`, and `Logout` in `ItemFails` |
| bot: `withAuth`, `acquireAuthToken`, `signNonce` | `deleteSession`, `signNonce`, `acquireAuthToken`, `withAuthAgain` |
| its end in `handleStopCommand` | `Stopped`, `StopFails` |

A call is served at some time after it was sent and its answer taken at some time after
that; either may be lost (`Serve`, `Lose`, `Outcome`). Stations and archives differ in that
the id of an archive never comes back, and in what a second deletion answers.

### StationQueue, StationPage, BotCommands

Entries are numbered as they are queued. A handler of the server is one operator with the
reply it gives (`AddTrack(reply)`, ...); `RateLimited` is the interceptor's refusal. The
two errors with `CodeResourceExhausted` are told apart as their message does. A track that cannot be
downloaded is refused as an invalid argument or as an internal error. The page's messages are
left out, since nothing reads them.

A handler of the page is a thread of awaits: `Sent`, `Answered`, and an `Outcome` that may be
"lost". `Busy` buttons are disabled.

| code | actions |
|---|---|
| `onMount`, `onDestroy` | `MountKnowsSession`, `MountLoadsQueue`; `Leave` |
| the interval | `Poll` |
| `handleRefresh`, `handleSkip`, `handleAddTrack`, `handleRemove` | of like names, then `ChangeSucceeds`, `ChangeFails`, `AddFails` |
| `fetchQueue` | `TakesQueue` in `Fetched` and `MountLoadsQueue` |
| search panel's `onAdded` | `FoundAdded` |
| bot: the dispatcher, a command's call and its reply | `Begin`, `Serve`, `Reply`, `ReplyFails` |

In BotCommands the bot is one client of the limiter for all guilds (`OtherGuild`).

### SearchCache, SearchPage

The Map is a sequence in insertion order. A request to the route runs to its await of
YouTube (`GET`: `Hit` or `Miss`) and from there to its end (`Fetched`, `Refused`). Queries are
already lower case: which of them are one query is what `cacheKey` says. The page of
results is known by its key.

| code | actions |
|---|---|
| `handleSearch`, `handleNext`, `handlePrev` to their await | of the same names |
| `runSearch` after it | `SearchSucceeds`, `SearchFails`, `PageArrives`, `PageFails` |
| other listeners | `OtherGET` |

### Browse, StationPlayer

`page` is the page shown, `load` its one call. `Follow` is a link; `Serve` and
`ListSessionArchiveTracks` serve the call, `LoadReturns` and `LoadLost` end it; an answer for a page
that was left finds nobody. `handleSubmit`, `Created` and `CreationFails` are the create page,
whose goto leads on from any page. `play`, `stop`, `MoveVolume` and `ensureAudioGraph` are the
player; the keys of the media session call the same functions.

### VoiceSessions

A /play command is one-shot and stands for the playback it starts, its record and
the voice connection it opens; `connection` says whose it uses. The voice library is
external and modelled as the commands use it: `joinVoiceChannel` returns the guild's
connection until that is destroyed, and destroying one twice throws.
`overlapped` is a history variable.

| code | actions |
|---|---|
| `handlePlayCommand` to its first await | `BeginPlay` |
| `getOrCreateSession` | `CreateSession`, `CreateSessionFails`, `GetSession` |
| `addTrack`, the replies, and `joinVoiceChannel` | `AddTrack`, `ReplyFails`; `MemberHasLeft` when the user has left the channel since, which `startPlayback` finds and the handler's catch answers by `destroySession` |
| the rest of `startPlayback`; or the catch blocks of it and of the handler | `StartPlayback`; `NotReady` |
| the callbacks of request and player | `StreamEnds`, `StreamFails`, `Reconnect` |
| `handleStopCommand`, `withAuth` | `BeginStop`, `DeleteSession`, `DeleteSessionFails`, `LeaveChannel` |
| the container's `restart: unless-stopped` | `Restart` |
| voice gateway; server | `VoiceReady`, `VoiceDrops`; `ServerEnds` |

`DeleteSession` stands for a deletion that succeeds and for NotFound, after
which the handler does the same. An error that escapes a callback may end the
process: `Restart` may follow any step.

## 3. What is checked

| run | question | bounds |
|---|---|---|
| `sessions` | safety of the lifecycle; calls are answered, cancelled streams end | 2 ids, 2 creates, 1 delete, cap 1, buffer 1 |
| `dispatcher_returns` | does the dispatcher keep running? (no) | 1 id, 2 creates, 1 delete |
| `playback` | safety; skips and cancellations with endless tracks; Playback, in ServedQueue, implements Station and StationQueue | 3 adds, queue of 2 |
| `track_cache` | which races lose a file; what Touch evicts | 3 adds, 3 tracks, window of 2 |
| `queued_evicted` | are queued tracks never evicted? (no) | 3 adds, 3 tracks, window of 2 |
| `voice_sessions` | leaks, stuck and foreign records, the bot's way out | 3 plays, 1 stop |
| `web_search` | which page the panel shows; what the cache spares and evicts | 2 queries of 2 pages, 2 requests at once, 2 entries, lifetime 1, time to 1 |
| `station_page` | what a button removes, what the page says, healing, the interval | 3 tracks, queue of 3, 1 silent call and 1 button at a time |
| `bot_commands` | what /remove removes, what the bot says, what a purge gives away | 3 tracks, queue of 3, 1 interaction at a time, burst 2, rate 1, time to 2 |
| `admin` | tokens are earned, logins last, what was removed stays removed | 2 nonces, 1 station, 1 archive, lifetimes 0 and 1, time to 2 |
| `bot_auth` | when the bot is refused | 3 nonces, 2 stops, lifetimes 1, time to 2 |
| `browse` | what an archive holds and its page shows; how loud the player is | 1 id, 2 creates, 1 row, 2 volumes |

*Bounds.* Two creates of one id and a delete let a session be created, end
or be deleted, and be created again while the old stream and its
events linger; `target` also spreads them over two ids, where the second creation is
refused at the cap. A buffer of one blocks senders. Three entries and a
queue of two reach a full queue, a removal behind the head, a token left over and a
skip left over. A window of two with three tracks evicts with one, two or all
tracks in use, and three calls let two race the third. With three plays two overlap
and a third comes after them; one stop can interrupt any of them.

Two requests to the search route are a search and a page turn, or two misses of one key; two
entries in the cache evict at the third key of four. On the station page a poll and a
button, onMount and a button, or onMount's fetch and what others do overlap, and the station ends
and restarts; three tracks fill a queue of three, and its places move under a list that is shown. Interactions
of the bot overlap with others' calls, which can be the other commands of its own guild; two tokens in a bucket and
two units of time reach an empty bucket, one that fills again and a purge. One nonce earns a login and the other
is the next login's or another admin's, while the first token expires at time 1 of
2. Three nonces let each of two stops earn one and one of them try again. Two creates
name one id one after the other, with and without archives, so that the first stream plays on beside
the second, or its event is handled late and finds the second's queue. One archive is deleted while
the other is written and read; one row is enough to be in the wrong archive, to be deleted or
to be missing.

`MaxTime`, `MaxClock`, `MaxTracks`, `MaxRows` are bounds of the models only; the proofs
hold for any.

*Deadlock* is not checked (`CHECK_DEADLOCK FALSE`): calls are one-shot, a stream
ends, and a server, a bot or a page without work waits.

*Symmetry* is used where a run has invariants and action properties only. `MCPlayback` checks
liveness too; there the AddTrack calls, which are interchangeable, come in a fixed order.

### Properties

- `NoSessionOutlivesItsStream`, `EverySessionHasAStream`: session and stream come and go
  together, with the two exceptions the code has (a creator that gives up
  before its event is sent; a dispatcher that has returned).
- `WaitingCallIsAnswered`: the answer on ready, while the dispatcher runs.
- `UndisturbedStreamOwnsItsSession`, `CancelledStreamEnds`: cancelling
  reaches a live stream, the session's own when no explicit delete interferes.
- `OnlyDeletesStopTheDispatcher`: how far the weakness of `dispatcher_returns` goes.
- `PlayingIsHead`, `NoLostWakeup`, `RecordedOnce`, `SkipEndsTheTrack`,
  `CancelEndsTheStream`, `PlaysLikeAStation`: playback.
- `SkipIsNotLate`: a skip may miss its track and cut off the next one, as the code has it, but
  never one that comes later.
- `ServesItsQueue`: what a client finds under a session's id changes by accepted tracks, removals,
  ends of tracks and the end of the session only, each as StationQueue says; AddTrack
  accepts and refuses as StationQueue says.
- `FileLossNeedsARace`: a queued track loses its file in two situations only.
  `TouchEvictsJustEnough`: eviction order and extent.
- `NoLeakedVoice`, `StuckNeedsASharedConnection`, `PlaybackOwnsTheSession`,
  `VoiceFollowsServer`: the bot's voice. The second and the third delimit what two
  overlapping commands can break: a record that can never be removed, after which
  /play answers "Already playing!" until the bot restarts; a leave() that
  destroys the record of another playback.
- `ShowsThePageAskedFor`: results, index and tokens of the search panel agree, unless an earlier
  search's page turn landed after a search. `QuotaIsSpentOncePerDay`,
  `EvictionTakesTheOldest`: the cache.
- `RemovesTheTrackShown`, `RemovesTheTrackListed`: a removal takes out the track that the page
  or /queue showed at that place, unless one at or before it has left the queue since. Then it
  is another one, as the code has it; `RemovesNoneBefore` and the second half of
  `RemovesTheTrackListed` say of that case that nothing listed before the place is taken out.
- `SaysWhatWasSo`: what the bot says of the station.
- `PollingStopsWithThePage`: with the one exception of a page left while it is being mounted.
- `SelfHeals`: a page that polls comes to show the queue and keeps to it.
- `ForgetsFullBucketsOnly`: the limiter implements TokenBuckets.
- `TokensAreBacked`, `LoginEndsWithItsToken`, `GoneStaysGone`, `BotRefusedOnlyWhenLate`:
  authentication and its two clients. The exceptions in them are the code's: a refusal of an
  older token logs out the login that followed; a logout does not stop the calls under way.
- `ArchiveIsOneStation`: an archive holds what was played from its own session's queue only, although
  the streams of deleted sessions go on recording beside those of new sessions with
  their ids. `ArchiveShowsItsStation`: what its page shows while an admin deletes archives;
  an archive whose deletion has begun may be shown in part.
- `VolumeIsHeard`: with the one exception of a volume chosen before the first play.

### Fairness

*SessionLifecycle*: weak fairness of the dispatcher, of each stream's progress
and of a creator whose answer is there. Go runs every runnable goroutine; the
connection has a bounded number of attempts and endSession a timeout, so a stream leaves
"connecting" and "notifying". Calls, clients that give up, streams that end by
themselves and shutdown are not forced.

*Playback*: weak fairness of the loop, the watcher and of the notify that follows an
enqueue (`Fairness`), whether or not the session is registered. Tracks need not end; `PlaysLikeAStation` supposes in its premise that
they do (they are files that ffmpeg plays in real
time). A killed ffmpeg returns, which supposes
that the encoder goes on reading its pipe or is killed too. Timeouts and clients are not
forced.

*StationPage*: weak fairness of the interval and of taking an answer, strong fairness of
serving a poll and of a poll that succeeds: the browser runs the interval, and the
network does not lose every poll. A network that did would heal nothing. Clicks, other handlers and the
station are not forced.

*VoiceSessions*: weak fairness of the wait for a voice connection, which has a timeout,
and of the delivery of the end of a stream. Neither users, the server nor Discord are
forced, nor any other step of a command.

### Disagreements between the code and what it says

1. `dispatcher_returns`: a session deleted before the dispatcher has looked it up
   makes `StreamSessions` return (`icecast.go:86-90`). No later session gets a stream.
2. `queued_evicted`: `Touch` evicts by a snapshot taken before it has the
   lock. `Get` moves a hit to the front, which does not protect it when all behind
   it are in use; `FileLossNeedsARace` states both races.

Met while modelling, and not runs of their own:

- A stream that ends unregisters its session, then sends its
  `SessionDeleted`. If the id is created again in between and its event is handled
  first, the new stream is the one cancelled. In the same way the deferred
  endSession of a stream removes a session created under its id after an explicit
  delete; `UndisturbedStreamOwnsItsSession` is limited for that reason.
- A skip requested in silence with a track just queued, or as a track
  ends, cuts off the track that follows.
- `YouTubeSearch.svelte:51-52` says that a failed page turn "should leave the current (still
  valid) page in place". The results are kept but not shown: the error hides them and the page
  buttons until the next search (`ShowsResults`), and the index stays that of the
  page that failed.
- The volume of the slider is not applied to the gain node when the first play makes it.
- A creation that is refused leaves its archive behind, empty. One whose answer is lost has
  made the station all the same, and a second try is told that the name is taken.
- Of `CodeResourceExhausted` the bot says "The queue is full!" also when the rate limit refused
  the track (`play.ts:89-92`); the web page tells the two apart.
- `RATE_LIMIT_RPS` and `RATE_LIMIT_BURST` come from the environment and the idle time (30
  minutes) does not: a burst that takes longer to refill would break
  `LimiterAssumption`, and with it the theorem. The defaults (1 and 5) are far from it.

## 4. What is proved

For any sets of ids, calls, entries, tracks, nonces and clients and any capacities and lifetimes
(the assumptions are those named in the modules: a buffer and a queue of at least one, `None`,
`NoRequest` and `NoQuery` outside the sets, a finite set of AddTrack calls in ServedQueue, lifetimes and rates in Nat, and for the limiter
`Burst <= Rate * (MaxIdle + 1)`: a bucket idle for longer than MaxIdle is full):

| theorem | states |
|---|---|
| `SessionLifecycleProofs!TypeCorrect` | `TypeOK` |
| `SessionEndsWithItsStream` | `NoSessionOutlivesItsStream` |
| `SessionsGetStreams` | `EverySessionHasAStream` |
| `ReadyOnce` | `ReadyIsSentOnce`: ready is empty when its stream reports |
| `CancelsStayLive` | `CancelsAreLive`: a stored cancel function is a live stream's of its id |
| `UndisturbedOwnership` | `UndisturbedStreamOwnsItsSession` |
| `DispatcherOutlivesStreams` | `OnlyDeletesStopTheDispatcher` |
| `PlaybackProofs!TypeCorrect` | `TypeOK` |
| `HeadIsOnAir` | `PlayingIsHead` |
| `WakeupsArrive` | `NoLostWakeup` |
| `ArchivedOnce` | `RecordedOnce` |
| `SkipsAreInTime` | `SkipIsNotLate` |
| `ImplementsStation` | `Spec` implements Station's safety |
| `ServesClients` | `ServesItsQueue`: ServedQueue implements StationQueue |
| `VoiceSessionsProofs!TypeCorrect` | `TypeOK` |
| `NoVoiceLeaks` | `NoLeakedVoice` |
| `StuckRecords` | `StuckNeedsASharedConnection` |
| `PlaybackOwnership` | `PlaybackOwnsTheSession` |
| `CachesProofs!CacheTypeCorrect` | TrackCache's `TypeOK`: no track is in the window twice or without a row |
| `EvictsJustEnough` | `TouchEvictsJustEnough` |
| `FilesAreLostByRaces` | `FileLossNeedsARace` |
| `PanelShowsItsPage` | `ShowsThePageAskedFor` |
| `SearchTypeCorrect` | `SearchTypeOK`: panel and route; no key is in the cache twice |
| `QuotaIsSpared` | `QuotaIsSpentOncePerDay` |
| `OldestIsEvicted` | `EvictionTakesTheOldest` |
| `StationClientsProofs!PageTypeCorrect` | `PageTypeOK` |
| `PollingStops` | `PollingStopsWithThePage` |
| `RemovesWhatIsShown` | `RemovesTheTrackShown` |
| `RemovalsSpareWhatIsBefore` | `RemovesNoneBefore` |
| `PurgeIsInvisible` | the limiter implements `TokenBuckets`: `ForgetsFullBucketsOnly` |
| `BotLosesNoTokens` | the same of BotCommands' `Spec` |
| `BotTypeCorrect` | BotCommands' `TypeOK` |
| `BotTellsTheTruth` | `SaysWhatWasSo` |
| `RemovesWhatIsListed` | `RemovesTheTrackListed` |
| `AdminPageProofs!TokensAreEarned` | `TokensAreBacked` |
| `LoginsLast` | `LoginEndsWithItsToken` |
| `RemovedStaysRemoved` | `GoneStaysGone` |
| `BotAuthProofs!RefusedOnlyWhenLate` | `BotRefusedOnlyWhenLate` |
| `BrowseProofs!ArchivesStayApart` | `ArchiveIsOneStation` |
| `ArchivePagesAreTrue` | `ArchiveShowsItsStation` |
| `VolumeStaysHeard` | `VolumeIsHeard` |

*SessionLifecycle.* Most of the listed invariants are inductive only together
with what is known of the Created event. The invariant adds that a Created event
is awaited at most once, in the channel or in the dispatcher's hand, exactly
while its call has sent it and its stream has not started (`CreatedOnce`): this is what rules out
that a stream starts twice, reports twice on ready, or that the session of a waiting event
has lost its stream. Sends and receives on the channel are lemmas of their own;
each action then has a step for each part it can disturb.

*Playback.* `PlayingIsHead` holds by the shape of three sequence operations (append,
removal behind the head, dequeue) on a non-empty queue. `RecordedOnce` needs more: what
is recorded, what waits in the queue and what has not been enqueued are disjoint, the
queue has no duplicates, and the head may already be recorded only while it is being played or
after the stream's context is done, when nothing more is recorded. The refinement
reuses the invariant: in `DequeueTrack` it gives that the track finished is the one on air.

`SkipIsNotLate` needs that there is a watcher only while a track is under way, and that once it has
taken a skip, or the track is over, no skip waits from before that track
(`SkipsAreTaken`): the watcher took it, or stop() took it back.

*ServedQueue.* Each entry that was enqueued has one number (`NumbersAreGood`: no entry is
enqueued twice, since the call of an enqueued entry is no longer idle), and what is queued while the
session is registered has been numbered (`FoundAreNumbered`). A step of Playback then is, for the queue, an append,
a removal behind the head, a dequeue or nothing (`QueueStep`), and each is the same operation on the
numbers (`EnqueueServed`, `RemoveServed`, `DequeueServed`); that no more entries are
numbered than there are calls is a count of an injection.

*VoiceSessions.* `NoLeakedVoice` and `StuckNeedsASharedConnection` are inductive with
two facts more: at most one connection is open (so a command that joins takes over the only
one), and a record's playback has started (so the command that times out is not
the one the record belongs to). `PlaybackOwnsTheSession` needs that, while nothing has
overlapped and no /stop has run, one command at a time is starting, over an empty map,
and with a connection of its own: then, by `StuckNeedsASharedConnection`, its record can
always be destroyed.

*TrackCache.* The window is what is left of a list when the places of the victims are dropped.
The places are numbered by how many of them come no later (`PlacesInOrder`); that every
number up to their count has a place follows from the least that would not, so that no induction over the list
is needed. From this it follows that the window keeps its order and gets no duplicates
(`TypeInv`), that the victims are the oldest of those not in use, and as many as the window is too long
by (`EvictionIsJustEnough`). An eviction spares its snapshot. `FilesInv` says what else it may hit: a call
that holds a track and has not queued it has seen its file (`HeldHasItsFile`), and
a call about to evict has every queued track in its snapshot (`SnapshotsCoverTheQueues`),
but for those that `raced` has noted.

*SearchCache.* A step of the route sets or drops one entry and moves one request (`CacheStep`,
`RequestStep`). What was stored within the lifetime is there unless it was evicted (`WatchedIsKept`), since only
an entry that is no longer fresh is dropped; and the entries expire in the order of
their places, but for those overwritten in place (`OldestFirst`), so the first is the oldest.

*SearchPage.* A search under way is for the first page of the last query (`SearchAsks`), a page
turn for the page that the index stands for (`TurnAsks`), unless a page turn that a search overtook has
landed, which history notes (`CrossingIsNoted`); the tokens are those of the pages turned,
in their order (`TurnedInOrder`). The invariant is proved over the requests of the route, each of which keeps
its query and page until it is answered.

*StationPage, BotCommands.* A list read earlier stays right about its places for as long as what was at
or before a place is queued: entries leave the queue and join at its end, and never
pass each other (`ReadingsLast`). So an index counted in an old list meets the track
that was listed there, unless one at or before it has gone. That is the whole of
`RemovesTheTrackShown` and `RemovesTheTrackListed` once each call is shown to carry the list it
was counted in. No entry moves further back either, so the index of a button is never the place
of one that was listed before it (`ListedBeforeStays`): that is `RemovesNoneBefore`, for whatever
has left the queue. `PollingStopsWithThePage` follows from where `onMount` is when the page is left.

*RateLimiter.* A bucket is refilled from when a call last got a token, and purged by when a call
was last seen; the invariant says that the second is no earlier (`SeenAfterToken`). Then a
purged bucket has been refilled for longer than MaxIdle, so that it is full: `Cleanup` is a stutter of
TokenBuckets, `Granted` a Take, `Denied` a Refuse, `TimePasses` a Refill. The bot's commands are
steps of the limiter, or leave it alone.

*BotCommands.* A served interaction keeps the queue that its reply was given over; `IsSo` says what
each code tells of it, once for each handler of StationQueue, and each of the four commands
words no more than that.

*Auth.* `TokensAreBacked` needs that a nonce in the map has earned nothing yet
(`NoncesAreUnspent`). Everything that AdminPage does to nonces and tokens is one of five
steps, so its invariant is proved over these. A refusal on its way to the page is of a token
that has expired, and stays so, since time does not run back (`RefusalsAreTrue`): if it was
the page's own, that has expired as well.

*AdminPage's lists.* `GoneStaysGone` says nothing of the loads under way, and is not inductive. What
keeps it is that a list is loaded once at a time, shows nothing meanwhile and has no
button that could remove something of it (`LoadsAreAlone`), that who has no token sees
nothing and waits for nothing (`SignedOutSeesNothing`), so that a login starts its loads over an
empty page, and that no answer on its way has what is gone (`NothingGoneComesBack`). All
three are lost when a logout interrupts a call, and regained by a reload.

*BotAuth.* A nonce is held by one call (`NoncesHaveOneHolder`), is no older than that call and
in the map unless the server restarted (`HeldNoncesAreGood`), and a token that a call has earned
itself is as young as the call (`EarnedTokensAreYoung`). So a refusal of either means that the
call was late; a refusal of a kept token is followed by another try.

*Archives.* The archive of a call, its queue and the rows played from that queue agree on
one id for ever, and no two calls have the same (`OneCallPerArchive`, `ArchivesHaveCalls`,
`RowsHaveCalls`). A registered session, an event and a stream are each of a call that was made
(`SessionsHaveCalls`, `StreamsHaveCalls`), also when the stream plays the queue of a later
call than the one whose event started it. Two things in the code carry the theorem: a stream
takes the archive's id from the queue that it plays and not from the session of its id, and
AUTOINCREMENT keeps a new archive from taking the id of one that a stream may still record into. `ArchivesAreKept` adds that an archive is there
unless its deletion has begun. The page of an archive is reached from a list whose names are
of archives that were there (`LinksLeadToArchives`), and rows leave an archive only after its
deletion has begun (`ArchivesGrow`), so what was known when the page was opened is in its
answer (`ArchiveIsWhole`). The player's invariant adds to `VolumeIsHeard` that what plays
has a gain node, and that the slider counts as moved only since there is one.

*Only model-checked.* Every invariant and action property that a passing run checks is a theorem.
What is left to TLC is liveness, which the prover does not reach: `WaitingCallIsAnswered`,
`CancelledStreamEnds`, `SkipEndsTheTrack`, `CancelEndsTheStream`, `VoiceFollowsServer`, `SelfHeals`, and the
fairness part of `PlaysLikeAStation` (its safety part is `ImplementsStation`).

## 5. Not modelled

- *Queue slices* (`session_queue.go:82-115`). `ListQueue` returns a slice that is encoded outside
  the lock while `Remove` shifts the array under it: a data race, whose outcomes are
  those of the encoder. In the modules the queue is a sequence, and a read of it atomic.
- *Retry* (`util/retry.go`). Attempts and delays are the library's; what is left is a
  scan of its list of errors.
- *Icecast's handshake* (`icecast.go:352-387`) is I/O; its outcome is a choice of SessionLifecycle.
- *Database and migrations*: a library and SQL that runs at start; the tables are sets of the
  modules that use them. A failed statement is modelled where a handler goes on after it.
- *Interceptors* other than the rate limit and authentication: logging, trimming, validation.
- *Configuration and start*: `main.go` is wiring but for the shutdown, which is modelled.
- *Rendering*: lists, buttons, styles and texts of the pages, the lock screen's metadata.
- *Generated code*, Caddy's and Icecast's configurations, build scripts and key tools have no
  logic of the program.

## 6. Plan

1. SessionLifecycle as an implementation of what `VoiceSessions` and `Archives` take from it: an
   id that is registered, ends, and is registered again for another call.
2. StationQueue with the look-up and the operation as two steps.
3. Files that an AddTrack call leaves behind when it fails after its download: which they
   are, and that a later call for the track takes them up again.
