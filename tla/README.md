# jellych in TLA+

jellych is a server that restreams Twitch channels through ffmpeg, proxies and downloads
Twitch VODs, keeps its configuration in SQLite, and serves web pages and M3U playlists for
them. This directory models the parts that keep state and run concurrently, checks them
with TLC on small instances and proves their safety properties with TLAPS for every value
of the constants. Paths are relative to the repository.

- [The system](#the-system): components, state, interactions, hard behaviours
- [The modules](#the-modules): what models what, and the abstractions
- [The runs](#the-runs): questions, bounds, fairness
- [Disagreements found](#disagreements-found)
- [The proofs](#the-proofs)
- [Not modelled, and the plan](#not-modelled-and-the-plan)

## The system

### Components

| Component | Source | State it keeps | Operations |
|---|---|---|---|
| Live stream registry | `stream/stream.go` | `managers` (a manager per channel: state, command, `done`, `stopInProgress`, `writeMu`, write token), `stopsInProgress` | `Start`, `StopChannel`, `Stop`, the ffmpeg goroutine, `finishManager`, `commitLiveWrite` |
| Live object store | `stream/live.go` | objects, deletion deadlines, byte counters | store, get, delete, clear, purge |
| Live HTTP handlers | `stream/live.go` | none | reads that start a stream and wait for an object; ffmpeg's writes |
| VOD downloads | `stream/vod_download*.go` | `active`, `removing`, `stopping`, preset cache; the files `<id>.mkv`, `.partials/<id>-*.part`, `.partials/<id>.original` | `Start`, `Convert`, `Delete`, `RemoveWithArtifacts`, `RemoveMetadataIfNoDownload`, `Stop`, the hourly cleanup, the progress |
| Playback and idle monitor | `server/api/playback.go`, `handlers.go` | `playSessions`, `jellyfinSessions`, `idleTimers` | ping, stop, webhook start and stop, sweep |
| Configuration | `twitch/manager`, `server/api/api.go` | the SQLite database, the manager's memory, the API's `channelNames` and `channelOps`, statuses | add and remove channels and VODs, import, durations, prune, load |
| Twitch synchronisation | `twitch/twitch.go`, `twitch/manager` | `vodPruneGate` | `SyncVODs`, status loop |
| Twitch client and API | `twitch/client`, `twitch/api` | access token | refresh loop, Helix requests |
| VOD playlist cache, live proxy | `stream/vod.go`, `stream/live_proxy.go` | caches and calls in flight | shared resolution, eviction |
| Media tokens | `server/api/vod_proxy.go`, `live_proxy.go` | two maps between tokens and URLs | register, look up, prune |
| HTTP routing, playlists, chat sign-in | `server/...` | a state cookie | decoding, authorisation, M3U text, OAuth code exchange |
| Wiring | `main.go`, `stream/services.go` | none | start and shutdown order |
| Pages | `html/js` | player, tiles, heartbeats, chat socket, VOD list | polling, retries, reconnects |

### How they interact

`Start` registers a manager and forks a goroutine that resolves the upstream playlist,
launches ffmpeg and waits for it. ffmpeg sends the segments and the playlist back to the
server as HTTP requests, which go to the live store when the request's token is that of
the channel's manager. Players read the store. The idle monitor asks the playback tracker
for viewers and calls `StopChannel`. The pages ping the tracker; a Jellyfin webhook starts
a stream, records its session and marks it. Requests change the configuration through the
manager; `SyncVODs` imports VODs, updates durations and prunes VODs that Twitch no longer
has, through `RemoveMetadataIfNoDownload` of the downloader so that no VOD with a download
loses its metadata. The downloader removes a VOD's files before it calls back into the
manager to remove the metadata. At shutdown `main.go` closes the HTTP server, the
synchronisation, the downloader and the registry in this order.

### What is hard, and what makes each part correct

- **Registry.** Three kinds of goroutines and the stops of the whole server meet on one
  manager: a stop may find a start that has no process yet, two stops may signal one
  process, a media request may arrive at its commit after its stream was replaced.
  Correct: a channel has one process, which is that of the registered manager; an object
  is served only while its generation holds the channel; a stop that returns nil means
  released.
- **Live store.** Deleted segments stay for a grace period; counters are maintained by
  hand. Correct: the counters are the sums, what is put is served, a deadline is granted
  once.
- **Downloads.** The disk outlives the process; conversions move the original aside and
  put a new file in its place; cleanup, removal, prune and operations meet on the same
  files. Correct: one operation at a time, none beside a removal, and the last copy of a
  finished download is lost only to its expiry or a delete, with crashes and failing file
  calls at any step.
- **Playback.** Two maps with one limit, a monitor that decides on counts it took earlier
  and stops streams one after the other without a lock. Correct: a stream is stopped only
  after an idle period, hits latecomers only, and a stream nobody watches is stopped.
- **Configuration.** The same data is held three times. Correct: memory is the database
  whenever the mutex is free, names are the channels, nothing acknowledged is lost or
  returns.
- **Proxied playlists.** Requests share a resolution that one of them started and may
  leave; a failing fetch evicts from a cache that others fill; URLs and tokens are kept in
  two maps with one limit. Correct: one resolution for a key and an end for who waits, a
  failure evicts its own URL only, the maps agree, a token in use stays.
- **Chat.** A pane replaces its socket on a close, an error, a refusal, a `RECONNECT`, a
  change of login, channel or visibility, while the events of the old socket are still to
  come. Correct: one live socket at most, a socket or a retry while one is wanted, a timer
  that is forgotten only where the code does forget it, never the wrong name or room, and
  every pane in the state of the page.

`PROJECT.json` lists the hazards line by line, with the properties that guard them.

The models also allow a few behaviours about which the code, its documents and its tests
promise nothing, so that no property speaks of them: a download that is started after its
VOD was removed has no metadata and goes with its retention (`handlers.go:304`); expired
segments of another channel count against the total capacity until that channel is purged
(`live.go:123`); a channel that stops and starts between two sweeps keeps its idle timer
(`playback.go:209`); a webhook start that finds its channel stopping takes it for started
(`handlers.go:607`); a VOD that was removed and added again while the prune asked Twitch
about it may be pruned (`manager.go:401`).

## The modules

| Module | Models | Kind |
|---|---|---|
| `StreamRegistry` | the registry, the ffmpeg goroutine, media writes | detailed |
| `LiveSlot` | what the registry promises: a slot per channel with at most one tenant | abstract |
| `LiveStore` | the isolated live store with its accounting | detailed |
| `EagerStore` | what the live store promises its readers: a deleted segment goes at the end of its grace period | abstract |
| `VODDownloader` | one VOD: operations, removal, prune, cleanup, shutdown, crash | detailed |
| `VODShelf` | what the downloader promises: a copy that one operation at a time may replace | abstract |
| `Playback` | tracker, handlers, webhooks, monitor, a small view of the registry | composition |
| `ConfigData` | a configuration as a value, its changes, and the look that decides about one | data |
| `ConfigStore` | database, memory, API names, requests, synchronisation, restart | composition |
| `AtomicConfig` | what the manager promises: one configuration, on which a call looks and acts in one step | abstract |
| `MediaProxy` | playlist cache, shared resolution, media tokens, the requests that use them | composition |
| `ChatClient` | the chat clients of the panes, the panes of the channels, the login | composition |
| `*Proofs` | the theorems about the module they are named for | proofs |
| `MC*` | instances for TLC | checking |

Four modules implement an abstract one, which is checked by a run and proved:

- `StreamRegistry` implements `LiveSlot` (`ImplementsLiveSlot`): the slot is the managers
  map, the content is the live store, the slot is closed from the clear of the objects to
  the unregistration.
- `LiveStore` implements `EagerStore` (`ImplementsEagerStore`): what is shown of a channel
  is what it holds without what is due. A purge is a stutter, and the clock takes what is
  over although the store still holds it.
- `VODDownloader` implements `VODShelf` (`ImplementsShelf`): the copy is the output file or,
  when a conversion has moved it aside, its backup; the spare is a backup beside an output
  file. A call takes its turn when it is registered, delivers or fails when it has renamed
  its file or given up, and leaves until it is cleared; clearing is a removal or prune that
  waits for nobody any more. The renames in between are stutters, and a crash leaves the
  copy and the spare as they are.
- `ConfigStore` implements `AtomicConfig` (`ImplementsAtomicConfig`): the configuration is
  the manager's memory, a call is a change on its way through `mutationMu`. `Lock` narrows
  it to what is left of it, `Publish` makes it, an error refuses it, a commit is a stutter,
  and a crash, after which the memory is the database, makes the change that was committed
  and not published, if there is one.

`StreamRegistry` keeps, of the store, which generations have an object
in a channel; `LiveStore` is the store's own behaviour, in which every call is one
critical section. `Playback` keeps, of the registry, whether a channel has a manager.
`VODDownloader` and `ConfigStore` meet at the removal of a VOD's metadata: `VODDownloader`
has it as the variable `record`, and `ConfigStore` allows one removal of a VOD at a time,
which is what the downloader's `removing` map (`WorkIsExclusive`) gives it. `MediaProxy`
and `ChatClient` share no state with the others: the one asks Twitch, the other runs in the
browser.

Some definitions stand next to another one with nearly the same name (`Launchable` and
`LaunchableUnlessReplaced`): the other one is a plausible mistake in that code, is
described by its comment, and is not used by the specification. Each property is violated
when one of them is put in the place of the real definition.

### State and actions against the code

**StreamRegistry.** A generation `g` is an accepted call of `Start`; it identifies the
manager, its token and its goroutine, whose program counter is `gpc[g]`: `Register`
(`Start` up to the registration, under `mu`, refused while a `Stop` is under way),
`Resolve`, `Launch` (the check and `cmd.Start` under `mu`), `ProcessExit`, `Reap`, and
`finishManager` as `FinishMark` (state), `FinishLock` (`writeMu`), `FinishClear`,
`FinishUnregister`, `FinishUnlock`, `FinishClose`. `StopChannel` is `StopUnknown` or
`StopLookup`, the waits `DoneSeen`, `TimeOut`, `KillSeen`, `GiveUp`, and the signals
`Interrupt`, `Kill`. `Stop` is `StopAllBegin` (count, snapshot, forks) and `StopAllEnd`. A
media request is `WriteArrive` (its token is checked), `WriteCapture`, `WriteLock`,
`WriteValidate`, `WriteCommit`, `WriteUnlock`. Resolving and launching may fail, and
ffmpeg may exit by itself at any time.

**LiveStore.** `items`, `deadline`, `channelBytes`, `totalBytes` are the maps of the code;
an object is its size. `StoreObject` purges what is due, and `RefuseObject` is its refusal
after the purge; `DeleteSegment` notes a deadline, `DeleteOther` removes at once,
`EmptyChannel` is reset and clear. `Served` is `GetObject`, which does not purge.

**VODDownloader.** Files are known by the download they come from, whether they are still
the original encoding, and whether they are past retention. An operation goes through
`opc`: a `Convert` call `CheckInactive`, `ReadSize`, `Probe` (reads without the lock),
then `RegisterDownload` or `RegisterConversion`, `Prepare`, `Launch`, `FfmpegEnds`,
`ReadResult`, `InstallDownload` or the conversion's `RemoveStaleBackup`, `BackUpOriginal`,
`InstallConversion`, `RollBack`, `DropBackup`, then `Stamp`, `Discard`, `ClearActive`,
`CloseDone`. Every file call may fail. `RemoveWithArtifacts` is `BeginRemove`,
`StoppedSeen` or `StopTimesOut`, `RemoveOutput`, `RemoveBackup`, `RemovePartials`,
`RemoveMetadata`, `Release`; the prune is `BeginPrune`, `RemoveMetadata`, `Release`. The
cleanup is `BeginCleanup`, `Recover`, `RemoveInterrupted`, `ListOutput`, `RemoveExpired`.
`Age` lets the files pass their retention. `Crash` keeps the disk only and starts the
server again; its prune and its cleanup run in goroutines of their own and come in either
order.

**Playback.** `RecordPlaying`, `MarkJellyfinSession` and `StopPlaying` are the tracker's
critical sections; `Ping` and `Leave` are the handlers around them, `WebhookStart`,
`WebhookRecord`, `WebhookMark`, `WebhookUndo` the steps of a webhook start. The sweep is
`SweepCount`, `SweepLook`, `SweepTimers`, `SweepStop`, `SweepRest`. `Tick` lets one sweep
interval pass.

**ConfigStore.** A change goes through `Lock` (with the check against the memory, or
`Reject`), `Commit` or `CommitFails`, `Publish`. `ChangeChannel` reserves a name in
`channelOps`, and `EndChange` or `UndoChange` releases it. `Import`, `ListSaved`,
`RefreshAnswered`, `RefreshFails`, `Prune`, `EndSync` are the rounds of `SyncVODs`.
`Crash` restarts from the database.

**MediaProxy.** `live` is chosen once and says whether a behaviour is that of the live
proxy or of the VOD proxy, which are built alike from a cache and a token registry of
their own. A request is `RequestLive` (`ResolveLiveProxyPlaylist` looks into the cache) or
`RequestVOD`; the fetch of a cached or resolved URL is `Fetched`, `FetchFailed` (with
`Evict`) or `FetchCancelled`; `Resolve` is the second look, the join of a call in flight
or its start. The goroutine of a call ends with `Resolved` or `Unresolved`, one critical
section that fills the cache and wakes who waits; `WaitCancelled` is a caller that does
not wait any longer. `BeginRewrite` prunes the tokens, `Register` registers one URL of the
playlist, `Refuse` is the full registry, `EndRewrite` sends the playlist. `Lookup` is a
media request, whose answer may be a playlist that is rewritten again. `Tick` lets time
pass.

**ChatClient.** A client is a record, and each method of `TwitchIRCClient` is an operator
from a client to a client (`ConnectNow`, `RestartConnection`, `SetIdentity`, ...), so that
a method that calls others is a composition as in the code. The functions around the
clients (`ApplyIdentity`, `Logout`, `Denied`, `HandleFrame`, `Moved`) do the same with the
page. The actions are the page's events: `SocketOpens`, `SocketFrame`, `SocketCloses`,
`SocketErrors`, `RetryTimer`, `ExpiryTimer`, the user's `UserLogsIn`, `UserLogsOut`,
`SetVisible`, and `SyncChatPanes` whenever the player's channels change. `Expires` is the
time at which the login ends, before its timer fires.

### Abstractions

- A critical section of a mutex that is not held across a call is one action. So a
  deadlock on such a mutex (the registry's `mu`, the store's, the tracker's) is not in the
  models; none of them takes another lock inside, by inspection. `writeMu` and
  `mutationMu`, which are held across calls, are variables with a holder.
- A timer fires whenever its wait is not over. Durations are not compared with each other,
  except where a property is about them (`LiveStore`, `Playback`).
- *VODDownloader*: one VOD (every map is keyed by the id); an empty `.mkv` is not
  modelled; two different files of a VOD differ in size, which is all that `Convert`
  compares; a rename, a remove and a sync are durable when they return; a file does not
  pass its retention while it is being installed or examined by the cleanup; the progress
  numbers and the preset cache are left out. `ReadSize` leaves out that `completedFile`
  looks at `active` a second time, which only lets the model go on where the code would
  not. The look at the final names and the rename or remove that follows are one step
  (`InstallDownload`, `vod_download_lifecycle.go:506`; `RemoveStaleBackup`): an operation
  has no second one beside it that could come between (`WorkIsExclusive`).
- *Playback*: ages count sweep intervals up to the value from which they make no
  difference, so time has no bound. The clock does not tick within the three short steps
  of a sweep that use one reading of it; it does while the stops are worked off. A
  `StopChannel` returns after any time. A start that fails is a start and an end. The
  comment in `server/api/playback.go:142-143` says that a marked session stays until it is
  stopped; the code drops it after 24 hours, which the model follows.
- *ConfigStore*: a `Commit`, or a `DELETE` outside a transaction
  (`twitch/manager/config.go:282`), that returns an error has stored nothing
  (`CommitFails`), although a driver may report an error after the change took effect, and
  the memory would then lag behind the database until a restart; positions, icons,
  the schema and the status loop are left out. `Channel` and `Vod` are disjoint
  (`NameAssumption`) because a login name and a numeric id live in different tables.
- *MediaProxy*: ages are counted in ticks up to the age that is expired. The clock stands
  still while one rewrite registers its URLs, since it uses one reading of it. The code
  reads it before it takes the lock (`vod_proxy.go:124`), so that a rewrite may move the
  expiry that a lookup has just set back by the time the rewrite takes: milliseconds of
  twelve hours, less than a tick. A new token
  is one that nobody has (128 random bits). `given` and `givenAge` are bookkeeping: what a
  viewer was told, and when it was last told or answered.
- *ChatClient*: the generation of a client changes whenever its socket does, so the socket
  stands for both. What is sent and shown is left out, except for the login and the room a
  socket has signed in to. A frame holds one line or two, whatever they are, and each is
  handled, as in `handleSocketData`, although the one before may have ended the connection.
  So `RECONNECT` may come twice in a frame, or after a refusal: `restartConnection`
  (`twitch_chat.js:510`) then overwrites a `retryTimer` that is set, and nothing can clear
  the timer it forgets (`Forgotten`), which connects once more when it fires. The timers
  are counted (`timers`), a pane has `MaxForgotten` forgotten ones at most, and those of a
  client that was destroyed are dropped, because they find it destroyed and do nothing.
  `RefusedRecovers` is about a pane with a login: one without, or one that is refused again
  in the frame that ended its login, stays unavailable until the login, the channel or the
  visibility changes, and nothing in the repository says otherwise.
- Wording, logging, ffmpeg's arguments, authorisation and HTTP decoding are left out.

## The runs

| Run | Instance | Shows | States |
|---|---|---|---|
| `registry` | 1 channel, 2 generations, a `StopChannel`, a `Stop`, 2 requests | one process per channel, that of the owner; only the owner is served; stops are honest (`OnlyTheOwnerIsServed`, `ProcessIsRegistered`, `NilMeansReleased`, `StopFlagIsHeld`, `StopLeavesNothing`); the registry implements `LiveSlot` | 1.25 million |
| `registry_live` | 1 generation, 2 stoppers, 2 requests | `StopReturns`, `ExitFreesTheChannel`, `CancelledStartEnds` | 19 thousand |
| `live_store` | 2 channels, 2 segments and a playlist, sizes 0 to 2, limits 3 and 4, grace 2, clock to 3 | `AccountingIsExact`, `PutIsServed`; the grace period is kept and granted once (`GraceIsExact`); the limits of the counters (`TypeOK`); the store implements `EagerStore` | 110 thousand |
| `vod_races` | 2 operations, an earlier download or none, 1 crash | `WorkIsExclusive`, `TempIsKept`; a conversion reads the file that it was asked for and nothing takes the name it will need (`NameStaysAsRegistered`); `LostOnlyByExpiry`; the downloader implements `VODShelf` | 2 million |
| `vod_live` | 1 operation, 1 crash | operations and removals end (`WorkEnds`); backups and `.part` files are resolved (`LeftoversAreResolved`) | 42 thousand |
| `vod_retention`, `vod_orphan` | 1 operation, 1 crash | counterexamples, see below | |
| `playback` | 1 channel, 2 sessions, limit 1, 1 webhook, TTL 1, idle 2, maximal age 3 | limits, idle period, latecomers, counted sessions, `IdleIsStopped` | 104 thousand |
| `playback_stop` | the same | counterexample, see below | |
| `config` | 1 channel, 1 VOD, 2 durations, 2 requests and the synchronisation, 1 crash | memory is the database, names are the channels, nothing acknowledged is lost or returns (`AcknowledgedStands`), changes end; the manager implements `AtomicConfig` | 31 thousand |
| `media` | 2 keys, 2 requests, 2 URLs, a cache for 1, a registry for 2 tokens, cache time 1, token time 2 | `OneResolution`, `FreshIsSpared`, `TokensAgree`, `TokenInUseStays` | 463 thousand |
| `chat` | 2 channels, 2 logins, 2 panes, 2 sockets and 1 forgotten timer of a pane | `OneConnection` (one live socket at most; a timer is forgotten at a repeated `RECONNECT` only), `NeverStranded`, `SpeaksAsShown`, `PanesAgree`, `RefusedRecovers` | 61 thousand |

### Why the bounds are enough

- Two generations of a channel are an old stream and its replacement; a request of either
  can be at any stage. A third generation would meet the second as the second meets the
  first.
- Two stoppers are the initiator and the follower of a stop; `Stop` adds one of its own.
  Channels share the registry's mutex and the snapshot of a `Stop`, nothing else; with one
  channel the snapshot has it or does not, and a generation that registers after it is the
  other case.
- Two operations and an earlier download give a conversion whose input was replaced since
  it was read, and two `.part` files. One crash leaves every partial state of the disk;
  the restarted server runs against it.
- One of two sessions fits the limit, so refusals, replacements and half-finished starts
  occur. The values of TTL, idle and maximal age are the smallest that are distinct and
  let a session pass each of them.
- In the store, a channel's limit and the total limit can each be the one that refuses; an
  object of size zero is there, and a second deletion falls before and after a deadline.
- Two requests and the synchronisation contend for one channel and one VOD, which is where
  the changes of the configuration meet; entries with different names only share the
  mutex.

- Two keys of which one fits the cache, and two tokens for four places: entries and tokens
  are evicted, expired, refused and given again while the other request is anywhere.
- Two sockets of a pane are the one in use and one that is still closing; more that are
  closing would have the same events. A step that may connect waits for a spare one
  (`CanConnect`), which only delays it. A forgotten timer fires at any time, beside a
  socket, a retry or neither; a second one would do the same again.

The proofs have none of these bounds, `Sockets` and `MaxForgotten` of `ChatClient` excepted:
they are part of the model there, with any values. `Symmetry` is used in safety runs only, for
constants that are interchangeable in the specification and the properties.

Deadlock is checked in the registry runs, `config`, `media` and `chat`. In the others a model stops
where the program may: the operations, crashes or the clock of the instance are used up,
and an idle server waits.

### Fairness

Liveness is checked under fairness that the code or the Go runtime justifies:

- A goroutine that can run does (`WF` of the steps of generations, stops, operations,
  removals, the cleanup, the sweep, the manager). Timers fire, and so does the ticker of
  the monitor. An upstream request ends (its context or client has a time-out). ffmpeg
  exits when it is killed; it need not exit otherwise. An operation's ffmpeg ends.
- `sync.Mutex` hands the lock to a waiter that has waited a millisecond (starvation mode),
  so the acquisitions of `writeMu` and `mutationMu` are strongly fair.
- The cleanup comes back every hour, so a file call that fails sometimes succeeds in the
  end: strong fairness of a successful recovery and a successful removal (`RecoverWorks`,
  `SweepWorks`).
- In `chat`, while there are sockets that were closed, one of them delivers its close event
  in the end, and a login that has expired ends, by its timer or by a new login
  (`ExpiredLoginEnds`); the latter is strongly fair only because the model's bound on
  sockets can put it off again and again. No socket has to open, to answer or to fail.
- Nothing is expected of callers: nobody has to start, stop, ping, write or leave.

## Disagreements found

Three runs end in a counterexample; each checks what a document, a comment or a test of the
repository says.

1. **`vod_retention` violates `FreshIsKept`** (`stream/vod_download_retention.go:97`). The
   cleanup decides by the age it read without the lock and removes under the lock whatever
   file is there. A conversion of an expiring original that ends in between loses its new
   file; so does a delete and a new download, which is what the run's trace shows.
   `README.md:31` promises a number of days.
2. **`vod_orphan` violates `MetadataGoesLast`** (`vod_download_artifacts.go:158`). After a
   crash between the renames of a conversion the download is its backup alone. The
   synchronisation, started at `main.go:99`, prunes before the cleanup of `main.go:127`
   puts it back, and looks at the output file only; the restored file has no metadata any
   more. The property is also broken at `vod_download_retention.go:169`: the recovery of a
   backup does not look at `removing`, so between the two file removals of
   `RemoveWithArtifacts` it may put a left-over backup in the place of the output that has
   just gone; then the metadata goes and the file stays, where a test
   (`vod_download_test.go:389`) expects the opposite order.
3. **`playback_stop` violates `StopRemovesMark`** (`server/api/handlers.go:614`). A
   webhook start records and marks its session after a start of seconds; a stop of the
   session that comes before removes nothing, and the stream is kept for up to a day. The
   comment at `playback.go:64` says that the stop removes the mark so that the session is
   not kept alive. A stop between the record and the mark leaves a mark alone, which counts
   nobody until that session pings again.

## The proofs

Every theorem is of the form `Spec => [](...)`, `Spec => [][...]_vars` or, for a refinement,
`Spec => Abstract!Spec` (`SingleConnection` joins the first two), for every value of the
constants that satisfies the module's assumptions: identifiers are distinct
(`NoneAssumption`, `ThreadAssumption`, `WriterAssumption`, `OpAssumption`,
`NameAssumption`), `None` is neither a file nor a change (`FileAssumption`,
`ChangeAssumption`), bounds are numbers (`LimitAssumption`, `SocketAssumption`,
`ForgottenAssumption`; a limit of the live store is not zero, which in the code is no
limit), `Session`, `Key` and `Token` are finite (`SessionAssumption`, `FiniteAssumption`,
for cardinalities), the primary pane is not a dynamic one (`PaneAssumption`). Each module
follows one argument: an inductive invariant, a lemma per conjunct that every step keeps it,
one case per action, and the properties as consequences.

**StreamRegistryProofs.** `IInv` adds to the types: `SlotInv` (the managers map and the
goroutines agree on who holds a channel), `LifeInv` (what state, command, process and
`done` say of the goroutine), `LockInv` (`writeMu` excludes), `CommitInv` (a validated
request commits before its manager clears), `StoreInv`, `StopInv` (what a stop knows of
the manager it looked up), `FlagInv` (who holds `stopInProgress`), `ForkInv` (a registered
channel is in the snapshot of every `Stop` under way). `OnlyTheOwnerIsServed` alone is not
inductive: that a commit belongs to the owner follows from the lock it holds, which the
finisher needs before it clears, and from the check after the lock. `Implements` proves
the refinement of `LiveSlot` from the same invariant.

**VODDownloaderProofs.** `IInv` is the types, the safety invariants of the run,
`RemovalInv` (what a removal waits for, and that nobody is owed what it removed) and
`StageInv` (a stage tells the kind of its operation and what a conversion left on the
disk). They need each other: `NameStaysAsRegistered` (`NameStands`) holds because nothing
that changes the output runs beside an operation. `DownloadSurvives` proves
`LostOnlyByExpiry` step by step from it.

`Implements` proves the refinement of `VODShelf` from the same invariant. `WorkIsExclusive`
makes the shelf free for whoever takes a file away; `TempIsKept` lets a delivery succeed;
and two facts were added to `StageInv` for it: while a conversion has the file moved aside
there is no output, so the copy that the shelf shows is the backup, and what is converted
is no original, as the shelf's `Convert` says of what is delivered. A lemma per group of
steps (`SameTurns`, `SameDisk`, `Unseen`) says that a step shows nothing.

**LiveStoreProofs.** `StoreInv` is the shape of the maps, `PendingIsHeld` and
`WantedIsHeld`. `PutIsServed`, `GraceIsExact` and `DeletedIsGone` (that a segment is served
again only if it is put again, which the run checks as a part of the refinement) follow;
they do not depend on the counters, and neither does `Implements`, the refinement of
`EagerStore`: after every operation of a channel nothing there is due (`OneChannel`), so a
purge takes exactly what readers had lost before.

The counters are exact by `CountInv`. A sum of sizes is written as the number of the bytes
it counts (`Bytes`, `Total`), so that the laws of finite cardinalities take the place of an
induction over the objects: what is dropped and what is left are disjoint sets of bytes
(`TotalSplit`), and a counter that changes by the change of one summand stays the sum
(`TotalChanged`). `CountersExact` is `AccountingIsExact`; with it, `LimitInv` is kept
because a store that does not fit is refused, which gives `WithinLimits` (`TypeOK`).

**PlaybackProofs.** Three invariants for three questions: the limits from facts about
cardinalities; `IdleInv` (the phases of a sweep, and that an idle timer is no older than
the last count that found viewers) for `GraceAfterViewers`; `LateInv` (a counted key on
the stop list began after the count) for `OnlyLatecomersLoseTheStream`.

**ConfigStoreProofs.** `ConfigInv` is the types, `ThreadsInv` (who holds the mutex and
what its change is between commit and publication; a name is reserved by one request),
`Agreed` (the names follow the memory but for reserved ones) and `Stored` (what was
acknowledged, the blacklist). `MemoryIsTheDatabase` needs the state between the two
assignments, the rest needs `MemoryIsTheDatabase`. `AcknowledgementsStand` is
`AcknowledgedStands`.

`Implements` proves the refinement of `AtomicConfig`. It needs `Looked`: what the look under
the mutex allowed is still right when the change is published, because nobody else changes
the memory meanwhile and because a second look at the narrowed change finds nothing more to
leave out (`WantedIs`). A crash needs `Memory`, which says that the database is at most one
change ahead, and again `Looked` for that change. `StepIs` sorts the steps into those of the
manager and the few shapes of all others, for this proof and for the invariant.

**MediaProxyProofs.** `IInv` is the types and one conjunct for each thing that can go
wrong: `Flights` (the goroutines are those of the calls in flight) and `Waits` (who waits,
waits for the call in flight of its key) for `OneResolution`; `Uncached` (a key that is
being resolved is not cached), which bounds the cache (`CacheLimit`); `Maps` and
`TokenLimit` for `TokensAgree`; `HeldIsNew` (what a rewrite holds was used at this very
time) and `InUse` (the registry's clock of a token is no older than its viewer's) for
`TokenInUseStays`. `NewerIsSpared` is the action property `FreshIsSpared` from it.

**ChatClientProofs.** Between two methods a client is `Steady` (its socket is the only live
one, and the timer of its retry is pending, beside those it has forgotten), or `Quiet` when
it knows of nothing under way; between two events it is `Settled` (it has a socket or a
retry, not both, when it wants a connection and was not refused, and neither when it wants
none). The lemmas say of each method what it makes of such a client, and how many timers it
forgets, in the order in which the code builds the methods from each other, then of each
function of the page (`IdentityApplied`, `LineHandled`, `FrameHandled`, `PaneMoved`); the
invariant of the page (`PageInv`) is that of its clients and the agreement of the panes.
`Restarted` is the one method that can forget a timer, and only from a client that has a
retry set, which `FrameHandled` finds in the second line of a frame alone: so
`ForgetsOnRepeat`, which `Step` proves together with the invariant.
`Step` then has a case per event that cites the lemma of the method it calls. A frame
needs the invariant between its lines, since the second line is handled after the socket
may have gone.

**Only model-checked.** The liveness properties `StopReturns`, `ExitFreesTheChannel`,
`CancelledStartEnds`, `WorkEnds`, `LeftoversAreResolved`, `IdleIsStopped`, `ChangeEnds` and
`RefusedRecovers`: they need fairness and `ENABLED`. Every safety and action property that
a passing run checks is a theorem.

## Not modelled, and the plan

The modules above were written in the order of their weight: `StreamRegistry` and
`LiveSlot`, `VODDownloader`, `LiveStore`, `Playback`, `ConfigStore`, `MediaProxy`,
`ChatClient`; the abstract specifications `VODShelf`, `AtomicConfig` and `EagerStore` came
last. What is not modelled, in the order in which it would be worth it:

1. **Read handler** (`live.go:288`): the automatic start and the waits, over the registry.
   The handler changes no state but by `Start`, whose refusal of an active channel is in
   `StreamRegistry`; what it adds is a reader that may be told to come back.
2. **Status loop** of the configuration (`manager.go:341`): a channel removed during a
   fetch is listed until the next round. It heals with the next fetch that succeeds, so
   the property is a liveness property over all of `ConfigStore`, which is too much for
   TLC with the two requests; it needs a model of its own. Positions and the order of
   channels are data.
3. **Shutdown**: the order of `main.go` over the registry and the downloader. A handler
   that outlives the server may start a stream after `Stop` (`main.go:141`); the code has
   nothing against it and promises nothing.
4. **Token refresh** of the Twitch client with failures and `Close`; the deletion outside
   a transaction (`config.go:282`), whose error after a success would leave the memory
   behind the database.
5. **Chat sign-in** with its state cookie: one request and its answer; the login window of
   `ChatClient` is its end. The page's session storage and the end of the page.
6. **VOD page**: the poll that ends with a failed fetch (`vods.js:401`). **Player page and
   channel manager page**: player, tiles and heartbeats; their pings are the `Ping` of
   `Playback`.
7. **Playlists**: an M3U text for the channels and their statuses, without state.
8. **Proofs**: abstract specifications of the playback tracker and of the token registry.

A component that gets its own module brings its own run; where two questions can share an
instance, their properties go into one run.

Left out for good: ffmpeg's argument lists (stateless), Helix requests and the service
itself (their answers are choices in `ConfigStore`), formatting, markup and the build
script.
