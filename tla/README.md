# cassonic: TLA+ models, checks and proofs

cassonic is a self-hosted music server in Go: it scans audio files into SQLite,
serves them over Subsonic, Ampache and native APIs, relays them to Icecast
servers, and runs scheduled jobs around that; its web pages play music through a
script of their own. This directory models the parts of
it that are concurrent or that keep state across failures. Source paths below
are relative to `src/src/server/` unless they begin with `src/`. `PROJECT.json`
maps every definition to the lines it models.

## 1. The system

| Component | State it keeps | Operations | What it talks to |
|---|---|---|---|
| Icecast manager (`service/icecast/icecast.go`) | `mounts`: a registry mount id → handle (`cancel`, `doneCh`), under `mu` | `Start`, `Stop`, `StartMount`, `StopMount`, `IsRunning` | one goroutine per mount; the `icecast_mounts` rows |
| Icecast admin handlers (`handler/api/icecast.go`) | rows `icecast_servers`, `icecast_mounts` (`enabled`, `status`) | create, update, delete, start, stop, status | the manager, after the row is written |
| Mount goroutine (`service/icecast/mount.go`, `source.go`) | queue and position, backoff, the TCP connection | build queue, connect, transcode and send, reconnect, end | songs, server row, files, ffmpeg, the peer; writes the mount's `status` |
| Scan pipeline (`service/scanner.go`, `scanner_walk.go`) | channels `results`, `jobs`; worker pool; the walk's visited sets | `ScanLibrary`, `WalkAudioFiles`, `workerPool` | file system, `processFile` |
| Library tables (`store/music_store.go`) | `artists`, `albums` (foreign key with cascade), `songs` (unique path, no foreign keys), `cover_art`, `libraries`, `scan_status` | upserts by natural key, cleanups, searches | scans, tag editor, cover handlers, MusicBrainz job |
| Scheduler (`service/scheduler`) | per job: `nextRun`, `running`, `lastRun`, in memory | `Register`, `Start`, `catchUp`, `tick`, `Status` | 15 jobs, the signal context of `src/src/main.go` |
| Scrobbling (`service/scrobble`) | `scrobble_services`, `scrobble_queue` | `Scrobble` (fan-out), `DrainQueue`, `Verify` | Last.fm and ListenBrainz, the scheduler |
| Web player (`CassonicPlayer` in `handler/web/static/js/app.js`) | queue, index, shuffle order, an `<audio>` element; copies in session and local storage | play, queue, next, prev, seek, shuffle, repeat, restore | the play buttons, media events, album requests; every navigation starts it anew |
| Page requests (`app.js`, the other handlers) | stars, buttons, the grid and its next url, a reload timer | click, scroll, answer, reload | the API, without order or timeout |
| Setup wizard (`handler/admin/setup.go`) | wizard step, first administrator, configuration file | one handler per step | store, configuration |
| Accounts, sessions, tokens (`store/user_store.go`, `admin_store.go`, `totp_store.go`, `handler/api/auth.go`, `users.go`) | users, sessions, API tokens, two-step settings | login, logout, create, revoke, periodic clean-up | middleware, scheduler |
| Middleware (`middleware/`) | rate-limit buckets | per request | every handler |
| Playlists and activity (`store/playlist_store.go`, `activity_store.go`) | playlists with positions, stars, ratings, play queue, bookmarks | edit through three APIs | library tables |
| Podcasts (`service/podcast`) | channels, episodes with a download status | refresh, download, delete | feeds, file system, scheduler |
| Shares, chat (`store/share_store.go`, `model/chat.go`) | shares with visit counts and expiry; messages | create, visit, expire | library tables |
| Cover art, caches (`service/cover_art.go`, `src/src/common/cache`) | art rows, thumbnails, an expiring cache | get, put, refresh | scans, scheduler |
| Streaming (`handler/*/stream.go`, `service/ffmpeg`) | ffmpeg processes | serve, transcode | files |
| Backup, update (`service/backup`, `service/update`) | archives, the executable | back up, restore, replace, roll back | file system |
| TLS, Tor, e-mail, GeoIP, MusicBrainz (`ssl`, `service/*`) | certificates, keys | renew, send, look up | outside services |
| Tag readers and writers (`service/tags`) | none | parse, rewrite a file | files |
| API handlers for browsing, configuration, installer, client | none, or read at start-up | read and render | all stores |

### What is hard

* **Admin handlers are several steps long.** A start writes the row, then calls
  the manager; a stop writes the row, looks a handle up, cancels it, waits for
  it. Handlers, goroutines and the shutdown run between any two of these.
* **A goroutine outlives its registration by two deferred calls**, in the order
  delete, close. A new stream of the same mount may begin between them.
* **Everything a stream reads changes under it**: songs, files, its server row,
  the peer. A cancel can meet it in every call.
* **A scan is a pipeline of goroutines with bounded channels**, cancelled at any
  time, that walks a file system with links.
* **An upsert reports a row id**, and reads it from the connection, whose last insert
  may have gone to another table.
* **Scans have no lock.** Four endpoints and the scheduler start one; each ends
  with clean-up statements over whole tables, some of whose rows another scan may
  just have created.
* **Editors read a song, work, and write every column back**, over what happened
  in between; incremental scans trust the modification time in the row.
* **A crash loses memory and keeps rows**: enabled mounts restart, `status`
  columns and "running" scans stay as they were; the scheduler forgets `nextRun`.
* **A scrobble is submitted before its row is deleted**, and whether the service
  recorded it is known only from an answer that may not come.
* **The player's state is in four places**: queue and index, the element, the
  button, and the saved copy. Clicks, media events and answers change them in any
  order; some changes of the element come without an event.
* **A page shows what its server held at some time**, then what the clicks since
  assume of it. Answers come in any order, or not at all.

### What makes each part correct

| Component | Correct when |
|---|---|
| Icecast manager | a mount has at most one source; registry and goroutines agree; what is recorded as on air is on air; stops and the shutdown return |
| Mount goroutine | no connection leaks; it resumes the track it lost; the backoff forgets old failures; every song of its scope gets its turn; a cancel ends it; it does not panic |
| Scan pipeline | success means every reachable file was processed; nothing runs on after it; it ends; links do not make it loop |
| Library tables | a full scan indexes every file; what incremental scans skip is right; an undisturbed scan repairs all; clean-up leaves no orphan and takes nothing in use |
| Scheduler | a job never overlaps itself; a hung job stops no other; jobs are spaced by their interval; `Running` is true |
| Scrobbling | a play is delivered, still queued, or purged by the stated rule; one duplicate at most for each lost answer, failed delete or exit |
| Web player | what plays is the current track of the queue; each round plays every track; a navigation loses nothing; the button says what it does |
| Page requests | when all is answered the page shows what the server holds; nothing is fetched or started twice; buttons come back |
| Setup wizard | it can be continued after a restart at each step and ends with exactly one first administrator |
| Sessions and tokens | revoked or expired ones stay so; clean-up removes nothing that is in use |
| Playlists | positions stay dense and unique under concurrent edits |
| Podcasts | an episode marked complete has its file; one marked downloading is being downloaded |
| Cache, rate limiter | size and count stay in their bounds, nothing expired is served |
| Backup, update | a failure at any step leaves either the old state or the new one |

## 2. The modules

```
ExclusiveStreams            the promise: one source per mount, true status
     ^ implemented by
IcecastManager              manager + handlers + rows + process
     ^ its goroutine is implemented by
MountStream                 one mount goroutine
ScanPipeline                goroutines and channels of one scan
LibraryScan                 tables under scans, editors and file changes
Scheduler                   jobs, catch-up and tick
     ^ extended by
ScrobbleRetry               the retry queue and its drain as one of the jobs
WebPlayer                   the player of one tab, across pages
PageRequests                the other handlers of one page
MC<Module>                  symmetry sets and small constants for TLC
<Module>_proofs             inductive invariant and theorems, for seven of them
```

`ManagerView` composes the two Icecast models: every step of `MountStream` is a
step `IcecastManager` allows its goroutines, under `INSTANCE IcecastManager WITH`
a mapping of the program counter to running / blocked / returned. `ScanPipeline`
and `LibraryScan` divide one scan: that no job is left when `ScanLibrary` leaves its
pool (`wg.Wait`, and `CallerInv` in the proof of the first) is what the second takes
for granted when clean-up follows `EndWork`.

### ExclusiveStreams

The abstract specification. `streams` is the set of (mount, handle) pairs on air,
`shown` the recorded status. Sources begin only while the mounts have none; only
a mount on air changes what is recorded for it; what a source records last is
final (`disconnected`, `error`) unless the record was gone or the write lost.

### IcecastManager

| Model | Code |
|---|---|
| `row`, `status` | `icecast_mounts.enabled` and `.status`; `unborn`/`deleted`: no row |
| `mounts` | `Manager.mounts` |
| `hstate`, `hmount` | a `MountStream` handle and its goroutine: `running`, `blocked` (in a network call), `returned`, `removed` (deferred delete done), `closed` (`doneCh` closed) |
| `managed`, `cancelled` | contexts derived from `managerCtx`; `ctx.Err() != nil` |
| `pc`, `target`, `flag`, `waiting` | one admin request: its place, its mount, the `enabled` it writes, the handle it waits for |
| `phase`, `stopSet`, `stopping` | `Server.Start` and `Manager.Stop` |
| `stale` | history: rows whose last status write was lost, or that say on air at the next boot of a process that died; the next write of their status clears it |

Each handler is split at its store calls and at each unlock (`StartRead`,
`StartWrite`, `StartCall`, ...). `StartCall` is one step because `StartMount`
holds `mu` across its query. `UpdateMount` writes all columns from what the
handler read earlier, so `flag` is chosen at the read. A store error or a client
that went away ends a handler before any store call (`StoreError`). Handles are
reused once nothing refers to them; mount ids never are.

### MountStream

`streamMount`, `streamSongs` and `transcodeAndSend` as one state machine whose
`pc` names the next call. `todo` and `cur` are the shuffled queue: the order is
chosen when a track is reached. `Cancel` may come at any time; actions that a
cancelled context can fail are enabled both ways. `Troubles` selects what goes
wrong around it; with `ffmpeg`, ffmpeg cannot be started for a file that can be
read. `broken` and `failures` are history variables.

### ScanPipeline

`stack` holds the nested `WalkAudioFiles` calls, each with its own visited set
(`seen`) and the entries it has yet to visit (`todo`); a directory's entries are
visited in any order, which includes the lexical one. `results` and `jobs` are
the channels, `held` the path the mapper has taken out of one and not yet put in
the other, `worker` the pool. Directories whose entries cannot be read are
skipped, as the callback does. `cancelled` may become true at any time. A link to a
directory starts a call of its own, with an empty visited set, so links that lead
round nest calls without end; `MaxDepth` bounds how many are followed, and a walk
that needs more stands still there (a cancel still ends it). `NoRound` says that the
links of a run do not lead from a directory back to it through another one's call.

### LibraryScan

`songs`, `artists`, `albums` are the tables; an album row has an `artist_id` that
is a real foreign key with cascade, a song's ids are plain columns. `job[s][f]`
is `processFile` for file `f` in scan `s`, a step per store call; `editor` is
anything that reads a song and later upserts it (`PatchTags`, the cover handlers,
the MusicBrainz job). `alone` is a history variable: the scan beside which nothing
has run since it began.

Row ids are numbers. `top` is the last one each table has given out and `lastId` the
`last_insert_rowid` of the one connection, which every insert sets, those into other
tables included (`InsertElsewhere`: plays, covers), and no `ON CONFLICT DO UPDATE`
does. `Reported` is what `UpsertArtist` and `UpsertAlbum` return for a row that
exists: `lastId`, or the id they then look up if it is 0. In a scan it never is, since
`CreateScanStatus` has inserted a row, so there the lookup does not run. An artist id
that names nobody is refused by the foreign key of the album (`AlbumRefused`, after
which the file is given up); whether that failed insert moves `last_insert_rowid` is
left open. `misled` is a history variable: the files whose job was told the id of
another row, since they were last written.

Abstractions: `None` stands for a missing row or file; one library; a file's tags are
its artist, who is also the artist of one album; statements are atomic, which
`MaxOpenConns(1)` gives; two writes to files are at least two seconds apart, because
the scanner takes times within one second to be equal.

### Scheduler and ScrobbleRetry

| Model | Code |
|---|---|
| `phase`, `ticking` | the goroutine of `Start`: registered, caught up, in its loop, past `ctx.Done()`; the ticker's channel |
| `due`, `running` | `nextRun`, in minutes from now, and `running` of each entry |
| `active` | goroutines in a job's `Fn`; two fit, so that a job beside itself can be seen |
| `queue`, `before` | rows of `scrobble_queue`, and their order by `queued_at` |
| `attempts`, `old` | columns of a row; queued more than 14 days ago |
| `enabled` | services with `enabled` and `verified` |
| `drain` | one `DrainQueue`: services and entries still to do, and the next store call |
| `fate`, `copies`, `slips` | history: where an entry is, how often its service has it, how often the program could not know |

`DrainQueue` is split at every call of the store and the network. It takes the
services in any order, which includes the one they are listed in; a batch is the
oldest pending entries of one service, in order. Each of them
can fail; a submission can also be recorded without an answer. When the context
is cancelled the store calls of a drain fail, and the loop over its entries goes
on. `Exit` ends every goroutine wherever it is; rows stay. A play and a service
make one entry, so the fan-out of `Scrobble` is its entries being independent of
each other. Time is minutes until the next run; that an entry is old is a step of
its own. `attempts < 50` and the age are compared in two statements of which one
mixes two text formats of a date, so an old entry may be pending for the rest of
its day (`sameDay`).

### WebPlayer

| Model | Code |
|---|---|
| `queue`, `index`, `order` | `queue`, `queueIndex`, `_shuffleOrder`; indexes from 0, and `undefined`, `NaN` and `null` where the code computes them |
| `audio` | the element: its track, how far it is loaded, `paused`, more than three seconds in (`late`), `loop` |
| `button` | its label and whether a play or pause event is due |
| `saved` | `cassonic_queue` in `sessionStorage`; a navigation starts from it |
| `fetching` | albums asked for |
| `mayPlay` | whether the browser lets the page start sound before a click |

An action is one event handler with all it calls; the script has one thread. What
the element does is external and follows the HTML standard as far as the player
can tell: setting `src` pauses it without an event and drops queued events,
playback that ends pauses it first, a looping element starts over by itself, an
error can come at any time while a track loads or plays. The lists of tracks a
page offers are a constant. Volume and mute are left out.

### PageRequests

`requests` has the requests under way, each sent, done or refused, and whether a
page still listens. `Serve` is the server's half, `Answered` and `Lost` the two
ways it comes back; after a `Load` the changes that were not made yet are made
with nobody listening. `doubt` and `scans` are history. Other tabs and users are
left out: with them a page may be out of date at any time.

At this commit the pages do not yet have the elements of several of these
handlers, and the server registers other routes than those the script calls for
streams (`/api/v1/songs/{id}/stream`), album songs, stars, scans
(`/api/v1/libraries/{id}/scan`), uploads, lookups and now-playing events. All
such requests fail, and the player skips every track. The models let requests
succeed and fail, so these paths are among those checked.

## 3. The runs

Eight runs pass. Four each violate one property that a comment or a document states;
these are the findings below.

| Run | Asks | Instance and bounds |
|---|---|---|
| `icecast` | `TypeOK`, `AtMostOneStream`, `RegistryExact`, `StatusTruth`, `CleanExit`, `PromiseKept`, `StopReturns`, `ShutdownEnds` under everything that can go wrong | 1 mount, 2 handles, 2 requests, all operations, crash / drain timeout / lost status write, restarts |
| `icecast_race` | *violated*: `StreamingIsEnabled` | as above, create, start and stop, no failures |
| `stream` | `TypeOK`, `NoLeak`, `BackoffForgets`, `ResumesTrack`, `ManagerView`, `CancelReturns`, `EverySongGetsATurn` | 2 songs, every trouble, any number of cancelled and failed sessions |
| `pipeline_scan` | `TypeOK`, `NilMeansAll`, `NoCycleOfLinks`, `ScanReturns` | 3 directories, 2 files, 2 workers, channels of 1, seven sets of links, any directory unreadable, 4 nested calls |
| `pipeline_links` | *violated*: `NoCycle` | the three sets of links that lead round |
| `library_scan` | `TypeOK`, `SkippedIsRight`, `ScanRepairs`, `NoOrphans` | 2 files, 2 artists, 1 scan at a time and 2 in all, 1 editor, 2 workers, one write to a file after the beginning, ids up to 2, cancels, store errors, inserts into other tables |
| `library_index` | *violated*: `FullScanIndexesAll` | 3 files of 1 artist, 1 worker, no editor, no trouble |
| `library_race` | *violated*: `SkippedIsRight` | 1 file, 2 scans at once, no editor, no trouble |
| `scrobble` | `TypeOK`, `NeverTwice`, `DeliveryKept`, `EveryEntryLeaves` | the retry job and one other, 2 plays for 1 service, batches of 1, 2 attempts, 1 exit, 1 unknown outcome per entry |
| `player` | `TypeOK`, `AudioIsCurrent`, `EveryTrackOncePerRound`, `ButtonTellsTruth`, `PrevUndoesNext`, `NavigationResumes`, `LostOnlyAfterRestore` | 2 tracks, one list, a queue of up to 3, any number of clicks and navigations |
| `player_live` | `QueueEnds`, `EveryTurnComes` | the same with a queue of up to 2 |
| `page` | `PageAgrees`, `GridInOrder`, `ButtonsHold`, `GridFills` | 3 pages, 2 requests at once, any number of clicks and loads |

### Why these bounds

* *Icecast.* The manager's code never compares two mounts: handlers, goroutine
  and registry entry of one mount touch nothing of another, except in `Stop`,
  which takes handles one by one. Two handles let a successor start while its
  predecessor is in its deferred calls; two requests give every pair of handlers.
  The theorems remove the bounds for the safety properties.
  In one run with the fairness below, since a bound that lets the failures happen
  must let the stops end as well.
* *Stream.* Two songs make "the same track", "the other one" and "a rebuilt queue"
  different. `failures` is counted up to 6, where the backoff has reached its ceiling.
* *Pipeline.* Channels of one are full and empty in every combination; two
  workers let one leave while the other works. The link sets are the shapes that
  differ: up, to itself, across, to a file, twice to one place; and round, inside the
  library and through a directory outside of it. Without a way round no walk of this
  tree needs more than four calls (`ScanReturns` would fail otherwise); with one, four
  show that the first directory is walked again.
* *Library.* Two files make an artist shared or not. `MaxId` = 2 lets each table give
  out two ids: two scans, each file's row, both artists. An insert beyond it is not
  made, so in this run an artist or album that was cleaned up twice does not come back;
  the theorems have no such bound. `MaxTime` = 2 is one write to one file by a program
  or by the tag editor; the contents before it and after it are arbitrary.
  `library_index` needs the id of a song that no artist has: the third file of one
  artist.
* *Scrobble.* Batches of one make two entries wait for each other; two attempts
  are the last but one and the last. One exit separates two lives of the process.
  `MaxSlips` bounds what the program cannot know, which it could otherwise repeat
  without end.
* *Player.* Three places hold the first, a middle and the last track, and one
  track twice. Nothing else is bounded: histories keep one round.
* *Page.* Two requests overlap or do not, three pages have a first, a middle and a
  last one; more would only wait.

Deadlock is checked in the Icecast, scrobble, player and page runs. It is not in
the others: a stream and a scan end, and the library model may come to rest when
its clock does.

### What they show

*A mount never has two sources, and the registry is exact*, although the deferred
delete of an old goroutine runs without looking whose entry it deletes: it can
only find its own, because a start is refused until the entry is gone.

*A track that was cut off is the next one transcoded*, through any number of
failed reconnects, unless its row is gone or a query for it fails.

*A cancelled scan never reports success*, although the walk may have ended well
before the cancel: the store call that stamps the library fails with the context.

*A status that says on air is true* whatever fails, except in a row that a crash or a
lost write has left behind; the row stays so until that mount's status is written
again, and nothing sees to that.

*With one scan at a time, what is skipped has the tags of its file*, also with an
editor that writes back an old row: the old row carries its old modification time, so
the next scan sees a difference and repairs it. The editor is harmless only because it
does not touch `last_modified` (mutant `EditUpsert_Now`). Its artist and album are the
right ones unless an upsert reported a wrong id for it, which is finding 3; a scan
repairs what it was not told wrong ids for.

*A directory link that is met twice in one call is walked once*, and `ScanLibrary`
returns on every tree whose links do not lead round between calls. Where they do, it
does not: finding 4.

*A drain is never beside itself*, so that what is sent twice has a cause the
program could not see. A play is not dropped for waiting behind others, and one
whose service is switched off goes after 14 days all the same, because the purge
looks at no service.

*The player's four states agree.* The order of a round survives being rebuilt in
the middle of it, by restarting the round. The one way to lose the index is a page
restored with shuffle on: `_restoreState` builds no order, the next track is
`order[x % 0]`, and the player stands still until shuffle is toggled or something
is played or queued (`LostOnlyAfterRestore`).

*A page comes to agree with its server* when clicks on the star wait for each
other's answers. Two at once need not: the refusal of the first puts back the star
of before both.

Disagreements between the code and what its docs or comments say, each shown by a
run (quotes in `PROJECT.json`, `findings`):

1. `icecast_race`: a stop that runs between the two halves of a start answers
   "stopped", after which the start launches the stream. The mount is disabled
   and streams.
2. `library_race`: the clean-up of one scan removes the artist and album another
   scan has just created; the song is then inserted with ids of nothing and every
   incremental scan skips it.
3. `library_index`: one undisturbed full scan leaves a file out. From the second file
   of an artist on, its upsert reports the id of the last insert, a song, instead of
   the artist's; no artist has that id, and the foreign key refuses the album. When
   another artist has it, the song is filed under that one.
4. `pipeline_links`: each recursive walk has its own visited set, so directories that
   link to each other are walked inside each other, in the code until the path is too
   long for the file system or the scan is cancelled.

Further ones the models contain, without a run of their own:

* two editors of one song: the first writes back a row from before the last scan,
  a clean-up then removes the artist and album that only the newer row named, the
  second writes the newer row back with ids of nothing, and it is skipped from
  then on. `library_scan` has one editor; with two TLC finds this, and the proof of
  `SkippedIsRight` needs `NoClash` for it (`EditUpsert`);
* deleting a mount does not end its stream, and the stop endpoint then answers
  404, so nothing but a restart ends it (`DeleteIcecastMount`);
* the queue rebuilt after the last track is indexed without being tested for being
  empty (`RebuildEmpty`, which `ManagerView` counts as a crash);
* a track that cannot be read is treated as a lost connection and retried for ever
  (`Barred`, which `EverySongGetsATurn` leaves out);
* a restored track that fails to load starts the one after it, although nobody
  pressed play; a queue that wraps and cannot play at all is skipped through for
  ever; an album that arrives late replaces what was chosen since
  (`MediaError`, `AlbumArrives`);
* a growing grid whose next page fails to load never grows again, and one whose
  new items leave the sentinel in view waits until it is scrolled away and back
  (`ScrollIn`, `PageArrives`);
* a start that enables the mount and cannot launch it answers an error, and the
  page goes on showing it as disabled (`Serve`);
* a crash leaves `connecting` or `connected` in the row of a mount nobody streams,
  and `Manager.Start` resets nothing (`stale`, which `StatusTruth` leaves out).

Met while reading:
`Connect` reads the server's answer without a deadline, so a silent peer holds up
a stop (the liveness properties assume it answers); every successful connect resets the
backoff, so a peer that accepts and drops is reconnected to every second; the
status endpoint answers `connected` for every registered mount; the mapper
goroutine of a cancelled scan can stay blocked on `jobs`; `MarkSongMissing` has no
caller; the admin panel's `TriggerScan` only redirects; `Service.Scrobble` and
`Verify` have no caller outside tests; `docs/admin.md:210` has the retry every 15
minutes and the code every 30; the catch-up window of 24 hours never applies,
since nothing registered in a process can be that late; `data-play-playlist` has
no handler; a lookup that lacks an album id leaves that of an earlier one in the
form; `sessionStorage` has a quota, beyond which saving throws in the middle of
`_loadTrack`; two writes to a file within a second look like one to a scan; jobs
fixed to a time of day move away from it, as the next run is counted from the end
of the last.

### Fairness

* *Icecast handlers and shutdown*: straight-line code without loops; weak fairness
  per request and per step of the shutdown. No request has to arrive and no signal
  has to come.
* *Mount goroutines*: deferred calls weakly fair. The return of a cancelled
  goroutine is strongly fair: it may go into the network and come back again and
  again before it tests its context. That it does return is checked on
  `MountStream` (`CancelReturns`), where local steps are only weakly fair.
* *Peers*: a blocked call returns in the end. This is an assumption about the
  outside, stated apart (`PeerFairness`): the code sets no deadline.
* `GoodPeerSpec` of `MountStream` says that no trouble but a missing file or server row
  is permanent: again and again the row is found, a connect succeeds, ffmpeg starts on
  a file that is there and a track gets through. `EverySongGetsATurn` needs it, which
  asks that each song be played and could hold under nothing weaker; the other
  properties of the run hold without.
* *Scan*: each goroutine weakly fair, a worker's job ends.
* `LibraryScan` states no fairness; it is checked for safety.
* *Scheduler and drain*: the loop and each goroutine get on, store calls return and
  a submission has a timeout of 30 seconds (`scrobble.go:26`). Weak for a drain's
  steps; strong for the list of services and the purge, which may fail now and
  then and not for ever. Other jobs may hang, a service may refuse for ever.
* *Player*: a track loads or fails, one that plays ends, albums are answered.
  Nothing is assumed of the user, and the properties are about what happens while
  the user does nothing.
* *Page*: a request is answered or given up by the browser, and the timer fires.
  `GridFills` takes a user who scrolls on as its premise.

## 4. The theorems

Each of the proof modules states an inductive invariant (`IInv`, in parts for
`LibraryScan`), proves that it holds at the beginning and after every action (a lemma
per action or per group of actions), and takes the properties from it. The constants
are arbitrary, under the assumptions named in the modules and repeated below.

| Module | Theorems | Assumptions |
|---|---|---|
| `IcecastManager_proofs` | `TypeCorrect`, `RegistryIsExact`, `Exclusion`, `Implements` (`PromiseKept`), `StatusIsTrue` (`StatusTruth`), `ExitIsClean` (`CleanExit`) | every mount has a server, `None` is no mount and no handle, `Ops` and `Faults` are of the named kinds |
| `MountStream_proofs` | `TypeCorrect`, `NoLeakAlways`, `ResumesTrackAlways`, `BackoffForgetsAlways`, `ManagerViewAlways` | `None` is no song, `Troubles` are of the named kinds |
| `ScanPipeline_proofs` | `TypeCorrect`, `NilMeansAllAlways`, `CyclesDetected` (`NoCycleOfLinks`) | the tree is one of directories and files, some worker, channels of at least one, at least one nested call, no file is a directory |
| `ScrobbleRetry_proofs` | `TypeCorrect`, `NeverTwiceAlways`, `DeliveryKeptAlways` | every entry has a service, the retry job is a job, bounds are positive, intervals too |
| `WebPlayer_proofs` | `TypeCorrect`, `AudioIsCurrentAlways`, `ButtonTellsTruthAlways`, `EveryTrackOncePerRoundAlways`, `PrevUndoesNextAlways`, `NavigationResumesAlways`, `LostOnlyAfterRestoreAlways` | lists fit the queue, `undefined`, `NaN` and `null` differ and are no integers |
| `LibraryScan_proofs` | `TypeCorrect`, `NoOrphansAlways`; with `Spaced` and `NoClash`: `SkippedIsRightAlways`, `ScanRepairsAlways` | the bounds of clock and ids and the steps are numbers, some worker, `None` is no id, row or version |
| `PageRequests_proofs` | `PageAgreesAlways`, `GridInOrderAlways`, `ButtonsHoldAlways` | request slots are numbers, the grid has a page |

A theorem `XAlways` states `Spec => []X`, or `Spec => X` where `X` is itself a
property of steps: `PrevUndoesNext`, `NavigationResumes`, `LostOnlyAfterRestore`,
`ManagerView`, `PromiseKept`.

### IcecastManager

`AtMostOneStream` is not inductive: nothing in it says that a mount without a
registry entry has no goroutine. The inductive invariant is

    IInv == TypeOK /\ RegistryExact /\ RefsBound /\ ShutdownOrder

`RegistryExact` is the heart: a mount is registered *if and only if* a goroutine of
it is in the registry's care. A start needs the "if" (no entry, so no goroutine),
a deferred delete the "only if" (the entry is its own). `RefsBound` keeps what the
actions index with in range: the mount of a live handle, the target of a request.
`ShutdownOrder` carries what Boot relies on: when the process is down or has
exited, no goroutine and no request is left; it needs, of `Stop`, that the handles
it has yet to join include every live one. From it follow the two halves of the
other theorems: `Exclusion` (two goroutines of a mount would both be its entry),
`Implements` (a launch is a `Begin`, a return an `End`, a crash a `Die`, every
other step a `Report` or a stutter), and, with `UnbornQuiet`, the invariants of
`StatusIsTrue` and `ExitIsClean`. These hold through every fault, since `stale` names
the rows that a fault has left behind: a crash makes no row of the next process stale
that the goroutines of that process write.

### MountStream

    IInv == TypeOK /\ NoLeak /\ ResumeInv /\ SessionInv /\ BackoffInv

`ResumesTrack` speaks of the moment before a transcode; `ResumeInv` carries the
lost track through the reconnects before it: while one is on record, it is the one
at `queuePos`. `SessionInv` says where `streamErr` can be set and that it counts
as a failure. `BackoffInv` relates the delay to the number of failures in a row at
every place of the loop, one step ahead of them outside a wait. `ManagerView` is
proved action by action: a return, a blocking call, its answer, a status update
and a cancel map to those of `IcecastManager`, the empty rebuilt queue to its
crash, everything else to a stutter.

### ScanPipeline

    IInv == TypeOK /\ WalkerInv /\ MapperInv /\ PoolInv /\ CallerInv /\ Covered /\ NilMeansAll

What must be processed is defined from the file system (`Audible`: in every set of
directories that holds the root and is closed under subdirectories and links),
what is processed by the walk. Between them stands `Covered`: unless the context
was cancelled, there is a set of directories entered so far such that every entry
of one of them is still to be visited, or leads to a directory that is entered or
that a call is about to enter, or is a path under way in the pipeline. When the
stack is empty that set is closed. `SeenIsEntered` is why a visited set may be
trusted although each call has one of its own. The other parts say that a closed
channel is drained behind its sender, that a worker leaves only drained
channels or a cancelled context, and that none is left when `ScanLibrary` has left the
pool (`CallerInv`).

`NoCycleOfLinks` rests on an invariant of the stack, `StackInv`: a call that has begun
has its own directory among those it has seen, and what it has yet to visit lies in
directories it reaches without a link; so each call but the first was made for a link
in the one around it, to another directory (`LeadsTo`). A directory that is on the
stack twice closes a round of such calls, and the directories between the two places
are the set that `NoRound` excludes.

### Scheduler and ScrobbleRetry

    IInv == TypeOK /\ SchedulerInv /\ DrainInv /\ BatchInv /\ FateInv

`NeverTwice` needs that the `running` flag is set whenever a goroutine of the job
exists (`SchedulerInv`); after an exit the flags are new and the goroutines gone.
`DeliveryKept` needs that the batch a drain works on is still in the queue
(`BatchInv`): nobody deletes an entry but the drain itself and the purge at its end,
and there is one drain. So the invariant of the queue rests on that of the scheduler.
`FateInv` counts: a queued entry was recorded at most as often as the program could
not know of it, except between an accepted submission and its delete.

### WebPlayer

    IInv == TypeOK /\ IndexInv /\ SavedInv /\ OrderInv /\ AudioIsCurrent
            /\ ButtonInv /\ ButtonTellsTruth /\ HeardInv

A navigation needs that the saved copy could be restored as it is (`SavedInv`);
the place in a round needs that the order is a permutation of the queue, or that
none was built since a restore (`OrderInv`). `EveryTrackOncePerRound` is not
inductive: `HeardInv` adds that what was heard stands in consecutive seats of the
order, wrapping once at most. A lemma groups the thirty-odd handlers into five
kinds of move (walk on, choose, add, reshuffle, restore), and the properties of
steps are proved of these.

### LibraryScan

    SkipInv == TypeOK /\ TimesPast /\ JobInv /\ EditorInv /\ SkippedIsRight
    AloneInv, OrphanInv

`TypeOK` and `NoOrphans` hold whatever runs at the same time. `SkippedIsRight` and
`ScanRepairs` do not, and are proved from two hypotheses. `NoClash`, a condition on
the states of the behaviour: no two scans are active at once and no two editors
work on the same song. Any number of scans may follow each other, and any number
of editors work beside them. `Spaced`, on the constants: two writes of files are
more than a second apart. Nothing in the code sees to either. `library_race` is
the counterexample for scans; for editors see section 3.

`SkippedIsRight` is not inductive: rows also travel, in jobs and in editors.
`TimesPast` says that no time is ahead of the clock, so that no row, job or editor has
the time of a file written next. `JobInv` says that a job that began with the present
file has its tags, that the artist and album it holds are there unless its file is
`misled`, and that before a job of an older file the table has nothing of the present
one, so that it overwrites nothing newer. `EditorInv` is why the cleanups may look at
the songs alone: an editor that holds a row of the present file holds what is in the
table, so its artist and album are in use. What is proved of the links is proved of
the files no upsert has reported a wrong id for; of the tags, of all. `AloneInv`
follows a scan beside which nothing runs: the files are those it found, and what it
has finished is in order; `OrphanInv` says what holds between the two cleanups.

### PageRequests

    IInv == TypeOK /\ LeftBehind /\ StarFollows /\ MountFollows
            /\ NextPage /\ GridInOrder /\ OneScan /\ ButtonsHold

`PageAgrees` holds when nothing is under way; `StarFollows` and `MountFollows` say
what the page's idea and the server's state are while something is. `NextPage`
says that a page under way is the next one and its url is blanked, so that no second
request for it is made. `LeftBehind` covers requests of a page that was left.

### What is only model-checked

* All liveness: `StopReturns`, `ShutdownEnds`, `CancelReturns`,
  `EverySongGetsATurn`, `ScanReturns`, `EveryEntryLeaves`, `QueueEnds`,
  `EveryTurnComes`, `GridFills`. Fairness and ENABLED are out of the prover's reach.
* That the four findings are violations: TLC's counterexamples.

Every invariant and every action property of the passing runs is a theorem; for
`SkippedIsRight` and `ScanRepairs` under the two hypotheses above.

## 5. What is not modelled

Text and formats (tags, XML and JSON, ICY frames) are planned where a property is
about them and left out elsewhere. Pure I/O (TLS, Tor, mail, ffmpeg's bytes), the
rendered pages and the command-line client keep no state of interest. Of the
script: volume and mute, theme, tabs, search, logout, toasts and the formatting of
times keep a value that one handler writes; uploads are independent of each other
and of the rest; marks of now-playing events are only ever added. Of scrobbling:
the two protocols, and `Verify`, of which only the switching is kept. The rest of
the table in section 1 is planned.

## 6. Plan

In this order:

1. **Library**: cover art, `user_edited`, scan status and the library rows as a
   module of their own; whether a lock around scans and a version column for
   editors would give `NoClash`.
2. **SetupWizard**; sessions, tokens and their clean-up jobs; two-step settings.
3. **Playlists** (positions under the edits of three APIs), play queue, bookmarks.
4. **Podcasts**, shares, cache and rate limiter, backup, update.
5. **IcyFraming**: metadata blocks at the interval, for any split of the writes,
   against a reference definition.
