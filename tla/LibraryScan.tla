---------------------------- MODULE LibraryScan -----------------------------
(***************************************************************************)
(* What library scans do to the database: Scanner.Scan and processFile     *)
(* (service/scanner.go) over the songs, artists and albums tables          *)
(* (store/music_store.go), together with the writers that run beside them: *)
(* the tag editor (handler/api/tags.go) and the MusicBrainz job            *)
(* (scheduler/jobs.go), which read a song, work, and write all of it back. *)
(*                                                                         *)
(* Nothing excludes two scans: the Subsonic, native and Ampache endpoints   *)
(* and the scheduler start one whenever they are asked.  One library; a     *)
(* file's tags are its artist, who is the album artist of one album.  How   *)
(* files reach processFile is ScanPipeline's subject.                       *)
(*                                                                         *)
(* Row ids are numbers, counted by each table from 1.  An upsert that finds *)
(* its row reports the last insert of the connection, which may have been   *)
(* into any table.                                                          *)
(***************************************************************************)
EXTENDS Integers, FiniteSets

CONSTANTS
  Files, Artists,
  Scans,      \* scans that may run at the same time
  Editors,    \* song editors that may run at the same time
  Workers,    \* size of the worker pool of a scan
  MaxId,      \* bound on the row ids of a table
  MaxTime,    \* bound on the clock
  Steps,      \* how far apart two writes of files are; skipping tolerates 1
  Troubles,   \* what may go wrong in a run
  None

AllTroubles == {"cancel",   \* the context of a scan is cancelled: shutdown
                "error",    \* a store call of a file's job fails
                "plays"}    \* rows are inserted into other tables: plays, covers

ASSUME ClockAssumption == MaxTime \in Nat /\ Steps \subseteq Nat \ {0}
ASSUME TroubleAssumption == Troubles \subseteq AllTroubles
ASSUME IdAssumption == MaxId \in Nat
ASSUME PoolAssumption == Workers \in Nat \ {0}

VARIABLES
  clock,      \* the time of the last write to a file
  disk,       \* per file: its tags and mtime, or None
  songs,      \* per path: the row, or None
  artists,    \* per name: the id of its row, or None
  albums,     \* rows [id, artist]: artist_id, with ON DELETE CASCADE
  top,        \* per table: the last id given out; AUTOINCREMENT reuses none
  lastId,     \* last_insert_rowid() of the one connection, 0 before any insert
  pc, mode, due, job,   \* per scan; job: per file, how far its job is
  editor,     \* per editor: the song it works on and the row it has read
  alone,      \* history: scans beside which nothing has run, without an error
  misled      \* history: files that an upsert has reported the id of another row
              \* to since they were last written

rowIds  == <<top, lastId>>
tables  == <<songs, artists, albums, rowIds>>
scan    == <<pc, mode, due, job>>
vars    == <<clock, disk, tables, scan, editor, alone, misled>>

Ids      == 1..MaxId
Tables   == {"artists", "albums", "songs", "scan_status"}
Versions == [artist : Artists, mtime : 0..MaxTime]
Rows     == [name : Artists, artist : Ids, album : Ids, mtime : 0..MaxTime]

ASSUME NoneAssumption == None \notin Ids \cup Versions \cup Rows

Waiting  == [step |-> "waiting"]
Finished == [step |-> "finished"]
Jobs == {Waiting, Finished}
        \cup [step : {"lookup", "read"}, mtime : 0..MaxTime]
        \cup [step : {"artist"}, mtime : 0..MaxTime, name : Artists]
        \cup [step : {"album"}, mtime : 0..MaxTime, name : Artists, artist : Ids]
        \cup [step : {"song"}, mtime : 0..MaxTime, name : Artists, artist : Ids, album : Ids]
Idle  == [step |-> "idle"]

\* An album always has its artist, and only the foreign key sees to it.
TypeOK ==
  /\ clock \in 0..MaxTime
  /\ disk \in [Files -> Versions \cup {None}]
  /\ songs \in [Files -> Rows \cup {None}]
  /\ artists \in [Artists -> Ids \cup {None}]
  /\ albums \subseteq [id : Ids, artist : {artists[a] : a \in Artists} \cap Ids]
  /\ \A b, c \in albums : b.id = c.id \/ b.artist = c.artist => b = c
  /\ top \in [Tables -> 0..MaxId] /\ lastId \in 0..MaxId
  /\ \A b \in albums : b.id <= top["albums"]
  /\ pc \in [Scans -> {"idle", "work", "artists", "albums", "done"}]
  /\ mode \in [Scans -> {"incremental", "full"}]
  /\ due \in [Scans -> SUBSET Files]
  /\ job \in [Scans -> [Files -> Jobs]]
  /\ editor \in [Editors -> {Idle} \cup
                   [step : {"read", "written"}, file : Files, row : Rows]]
  /\ alone \in SUBSET Scans /\ misled \in SUBSET Files

Init ==
  /\ clock = 0
  /\ disk \in [Files -> [artist : Artists, mtime : {0}] \cup {None}]
  /\ songs = [f \in Files |-> None]
  /\ artists = [a \in Artists |-> None]
  /\ albums = {}
  /\ top = [t \in Tables |-> 0] /\ lastId = 0
  /\ pc = [s \in Scans |-> "idle"] /\ mode = [s \in Scans |-> "full"]
  /\ due = [s \in Scans |-> {}]
  /\ job = [s \in Scans |-> [f \in Files |-> Waiting]]
  /\ editor = [e \in Editors |-> Idle]
  /\ alone = {} /\ misled = {}

NewId(t) == top[t] + 1

Insert(t) ==
  /\ NewId(t) \in Ids
  /\ top' = [top EXCEPT ![t] = NewId(t)]
  /\ lastId' = NewId(t)

\* What an upsert reports when ON CONFLICT has updated row id: LastInsertId,
\* which the update leaves as it was, and the id that is looked up for 0.
Reported(id) == IF lastId = 0 THEN id ELSE lastId
Mislead(f, id) == misled' = IF Reported(id) = id THEN misled ELSE misled \cup {f}

-----------------------------------------------------------------------------
(* The files change: other programs write and remove them; and so do other *)
(* tables.                                                                 *)

\* Anything that happens beside a scan ends its being alone.
Disturb(s) == alone' = alone \cap {s}
DisturbAll == alone' = {}

Written(f, a) ==
  \E d \in Steps :
    /\ clock + d <= MaxTime
    /\ clock' = clock + d
    /\ disk' = [disk EXCEPT ![f] = [artist |-> a, mtime |-> clock + d]]
    /\ misled' = misled \ {f}

WriteFile(f, a) ==
  /\ Written(f, a)
  /\ DisturbAll
  /\ UNCHANGED <<tables, scan, editor>>

RemoveFile(f) ==
  /\ disk[f] # None
  /\ disk' = [disk EXCEPT ![f] = None]
  /\ DisturbAll
  /\ UNCHANGED <<clock, tables, scan, editor, misled>>

\* Any other insert into the database of the library.
InsertElsewhere ==
  /\ "plays" \in Troubles
  /\ lastId' \in Ids
  /\ UNCHANGED <<clock, disk, songs, artists, albums, top, scan, editor, alone, misled>>

-----------------------------------------------------------------------------
(* Scan.                                                                   *)

\* CreateScanStatus inserts a row.
StartScan(s, m) ==
  /\ pc[s] \in {"idle", "done"}
  /\ Insert("scan_status")
  /\ pc' = [pc EXCEPT ![s] = "work"] /\ mode' = [mode EXCEPT ![s] = m]
  /\ due' = [due EXCEPT ![s] = {f \in Files : disk[f] # None}]
  /\ job' = [job EXCEPT ![s] = [f \in Files |-> Waiting]]
  /\ alone' = {t \in {s} : /\ \A u \in Scans \ {s} : pc[u] \in {"idle", "done"}
                          /\ \A e \in Editors : editor[e] = Idle}
  /\ UNCHANGED <<clock, disk, songs, artists, albums, editor, misled>>

Busy(s) == {f \in Files : job[s][f].step \notin {"waiting", "finished"}}

\* A step of the job of file f.
Step(s, f, step) ==
  /\ pc[s] = "work" /\ job[s][f].step = step
  /\ Disturb(s)
  /\ UNCHANGED <<clock, disk, pc, mode, due, editor>>

Becomes(s, f, j) == job' = [job EXCEPT ![s][f] = j]

\* processFile; the walker may meet files that came after it had started.
Stat(s, f) ==
  /\ Step(s, f, "waiting")
  /\ Cardinality(Busy(s)) < Workers
  /\ disk[f] # None
  /\ Becomes(s, f, [step |-> IF mode[s] = "full" THEN "read" ELSE "lookup",
                    mtime |-> disk[f].mtime])
  /\ UNCHANGED <<tables, misled>>

\* Within one second of each other.
SameTime(t, u) == t - u \in -1..1

\* Mutant: a song that is known is not looked at again.
Lookup_Known(s, f) ==
  /\ Step(s, f, "lookup")
  /\ Becomes(s, f, IF songs[f] # None THEN Finished ELSE [job[s][f] EXCEPT !.step = "read"])
  /\ UNCHANGED <<tables, misled>>

Lookup(s, f) ==
  /\ Step(s, f, "lookup")
  /\ Becomes(s, f, IF songs[f] # None /\ SameTime(songs[f].mtime, job[s][f].mtime)
                   THEN Finished ELSE [job[s][f] EXCEPT !.step = "read"])
  /\ UNCHANGED <<tables, misled>>

ReadTags(s, f) ==
  /\ Step(s, f, "read")
  /\ disk[f] # None
  /\ Becomes(s, f, [step |-> "artist", mtime |-> job[s][f].mtime, name |-> disk[f].artist])
  /\ UNCHANGED <<tables, misled>>

\* The comment in the code expects 0 of a conflict.  In a scan lastId is never 0.
UpsertArtist(s, f) ==
  /\ Step(s, f, "artist")
  /\ LET j == job[s][f]
         Goes(i) == Becomes(s, f, [step |-> "album", mtime |-> j.mtime, name |-> j.name,
                                   artist |-> i]) IN
     \/ /\ artists[j.name] = None
        /\ Insert("artists")
        /\ artists' = [artists EXCEPT ![j.name] = NewId("artists")]
        /\ Goes(NewId("artists"))
        /\ UNCHANGED misled
     \/ /\ artists[j.name] # None
        /\ Goes(Reported(artists[j.name]))
        /\ Mislead(f, artists[j.name])
        /\ UNCHANGED <<artists, rowIds>>
  /\ UNCHANGED <<songs, albums>>

HasArtist(i) == \E a \in Artists : artists[a] = i

UpsertAlbum(s, f) ==
  /\ Step(s, f, "album")
  /\ LET j == job[s][f]
         Goes(i) == Becomes(s, f, [step |-> "song", mtime |-> j.mtime, name |-> j.name,
                                   artist |-> j.artist, album |-> i]) IN
     \/ /\ \A b \in albums : b.artist # j.artist
        /\ HasArtist(j.artist)
        /\ Insert("albums")
        /\ albums' = albums \cup {[id |-> NewId("albums"), artist |-> j.artist]}
        /\ Goes(NewId("albums"))
        /\ UNCHANGED misled
     \/ \E b \in albums :
        /\ b.artist = j.artist
        /\ Goes(Reported(b.id))
        /\ Mislead(f, b.id)
        /\ UNCHANGED <<albums, rowIds>>
  /\ UNCHANGED <<songs, artists>>

\* The foreign key: the artist was never there, or is gone, and the file is given
\* up.  Whether the refused insert counts as the last one is left open.
AlbumRefused(s, f) ==
  /\ Step(s, f, "album")
  /\ ~HasArtist(job[s][f].artist)
  /\ Becomes(s, f, Finished)
  /\ lastId' \in {lastId, NewId("albums")} \cap (0..MaxId)
  /\ UNCHANGED <<songs, artists, albums, top, misled>>

\* artist_id and album_id are no foreign keys.  user_edited is never set on a
\* row that exists, so every column is taken over.
UpsertSong(s, f) ==
  /\ Step(s, f, "song")
  /\ LET j == job[s][f] IN
     songs' = [songs EXCEPT ![f] =
       [name |-> j.name, artist |-> j.artist, album |-> j.album, mtime |-> j.mtime]]
  /\ IF songs[f] = None THEN Insert("songs") ELSE UNCHANGED rowIds
  /\ Becomes(s, f, Finished)
  /\ UNCHANGED <<artists, albums, misled>>

\* A job ends early: the file is gone or a store call failed.
JobFails(s, f) ==
  /\ pc[s] = "work" /\ f \in Busy(s)
  /\ \/ "error" \in Troubles
     \/ job[s][f].step = "read" /\ disk[f] = None
  /\ Becomes(s, f, Finished)
  /\ DisturbAll
  /\ UNCHANGED <<clock, disk, tables, pc, mode, due, editor, misled>>

\* Every library has been scanned.
EndWork(s) ==
  /\ pc[s] = "work"
  /\ \A f \in due[s] : job[s][f].step = "finished" \/ disk[f] = None
  /\ Busy(s) = {}
  /\ pc' = [pc EXCEPT ![s] = "artists"]
  /\ Disturb(s)
  /\ UNCHANGED <<clock, disk, tables, mode, due, job, editor, misled>>

Used(column) == {songs[f][column] : f \in {g \in Files : songs[g] # None}}

\* Mutant: an artist is kept only for the songs that belong to an album of it.
DeleteArtists_Unlisted(s) ==
  /\ pc[s] = "artists"
  /\ artists' = [a \in Artists |-> IF artists[a] \in {b.artist : b \in albums} THEN artists[a] ELSE None]
  /\ UNCHANGED <<songs, albums>>
  /\ pc' = [pc EXCEPT ![s] = "albums"]
  /\ Disturb(s)
  /\ UNCHANGED <<clock, disk, rowIds, mode, due, job, editor, misled>>

\* Mutant: the albums of a deleted artist stay.
DeleteArtists_NoCascade(s) ==
  /\ pc[s] = "artists"
  /\ artists' = [a \in Artists |-> IF artists[a] \in Used("artist") THEN artists[a] ELSE None]
  /\ pc' = [pc EXCEPT ![s] = "albums"]
  /\ Disturb(s)
  /\ UNCHANGED <<clock, disk, songs, albums, rowIds, mode, due, job, editor, misled>>

DeleteArtistsWithNoSongs(s) ==
  /\ pc[s] = "artists"
  /\ artists' = [a \in Artists |-> IF artists[a] \in Used("artist") THEN artists[a] ELSE None]
  /\ albums' = {b \in albums : b.artist \in Used("artist")}
  /\ pc' = [pc EXCEPT ![s] = "albums"]
  /\ Disturb(s)
  /\ UNCHANGED <<clock, disk, songs, rowIds, mode, due, job, editor, misled>>

\* Then DeleteMissingSongs, which finds none: nothing calls MarkSongMissing.
DeleteAlbumsWithNoSongs(s) ==
  /\ pc[s] = "albums"
  /\ albums' = {b \in albums : b.id \in Used("album")}
  /\ pc' = [pc EXCEPT ![s] = "done"]
  /\ Disturb(s)
  /\ UNCHANGED <<clock, disk, songs, artists, rowIds, mode, due, job, editor, misled>>

\* A cleanup that fails is logged, and the next one follows.
CleanupFails(s) ==
  /\ "error" \in Troubles
  /\ \/ pc[s] = "artists" /\ pc' = [pc EXCEPT ![s] = "albums"]
     \/ pc[s] = "albums" /\ pc' = [pc EXCEPT ![s] = "done"]
  /\ DisturbAll
  /\ UNCHANGED <<clock, disk, tables, mode, due, job, editor, misled>>

\* The workers drop their jobs, every store call that follows fails, and so
\* does the one that would end the "running" status of this scan.
CancelScan(s) ==
  /\ "cancel" \in Troubles
  /\ pc[s] \in {"work", "artists", "albums"}
  /\ pc' = [pc EXCEPT ![s] = "idle"]
  /\ job' = [job EXCEPT ![s] = [f \in Files |-> Waiting]]
  /\ DisturbAll
  /\ UNCHANGED <<clock, disk, tables, mode, due, editor, misled>>

-----------------------------------------------------------------------------
(* Editors: PatchTags, the two cover handlers, the MusicBrainz job.        *)

EditRead(e, f) ==
  /\ editor[e] = Idle /\ songs[f] # None
  /\ editor' = [editor EXCEPT ![e] = [step |-> "read", file |-> f, row |-> songs[f]]]
  /\ DisturbAll
  /\ UNCHANGED <<clock, disk, tables, scan, misled>>

\* tags.Write, of PatchTags alone.
EditFile(e, a) ==
  /\ editor[e].step = "read"
  /\ disk[editor[e].file] # None
  /\ Written(editor[e].file, a)
  /\ editor' = [editor EXCEPT ![e].step = "written"]
  /\ DisturbAll
  /\ UNCHANGED <<tables, scan>>

\* Mutant: the editor stamps the row it writes back.
EditUpsert_Now(e) ==
  /\ editor[e] # Idle
  /\ songs' = [songs EXCEPT ![editor[e].file] = [editor[e].row EXCEPT !.mtime = clock]]
  /\ editor' = [editor EXCEPT ![e] = Idle]
  /\ DisturbAll
  /\ UNCHANGED <<clock, disk, artists, albums, rowIds, scan, misled>>

\* UpsertSong with the row as it was read, last_modified included.
EditUpsert(e) ==
  /\ editor[e] # Idle
  /\ songs' = [songs EXCEPT ![editor[e].file] = editor[e].row]
  /\ editor' = [editor EXCEPT ![e] = Idle]
  /\ DisturbAll
  /\ UNCHANGED <<clock, disk, artists, albums, rowIds, scan, misled>>

\* An error or nothing to change: the editor leaves without writing the row.
EditGiveUp(e) ==
  /\ editor[e] # Idle
  /\ editor' = [editor EXCEPT ![e] = Idle]
  /\ DisturbAll
  /\ UNCHANGED <<clock, disk, tables, scan, misled>>

-----------------------------------------------------------------------------
FileJob(s, f) ==
  \/ Stat(s, f) \/ Lookup(s, f) \/ ReadTags(s, f)
  \/ UpsertArtist(s, f) \/ UpsertAlbum(s, f) \/ AlbumRefused(s, f) \/ UpsertSong(s, f)
  \/ JobFails(s, f)

Scan(s) ==
  \/ \E m \in {"incremental", "full"} : StartScan(s, m)
  \/ \E f \in Files : FileJob(s, f)
  \/ EndWork(s) \/ DeleteArtistsWithNoSongs(s) \/ DeleteAlbumsWithNoSongs(s)
  \/ CleanupFails(s) \/ CancelScan(s)

Editor(e) ==
  \/ \E f \in Files : EditRead(e, f)
  \/ \E a \in Artists : EditFile(e, a)
  \/ EditUpsert(e) \/ EditGiveUp(e)

Around ==
  \/ \E f \in Files : RemoveFile(f) \/ \E a \in Artists : WriteFile(f, a)
  \/ InsertElsewhere

Next == Around \/ (\E s \in Scans : Scan(s)) \/ (\E e \in Editors : Editor(e))

Spec == Init /\ [][Next]_vars

-----------------------------------------------------------------------------
Linked(row) == /\ artists[row.name] = row.artist
               /\ [id |-> row.album, artist |-> row.artist] \in albums
Right(f) == songs[f].name = disk[f].artist /\ Linked(songs[f])

\* "incremental (skip unchanged files by modification time)" (IDEA.md) loses no
\* tags: a song whose row has the mtime of its file has the tags of that file,
\* whatever scans, editors and programs have done to both.  Its artist and album
\* exist as well, unless an upsert reported a wrong id for this very contents.
SkippedIsRight ==
  \A f \in Files :
    disk[f] # None /\ songs[f] # None /\ SameTime(songs[f].mtime, disk[f].mtime)
    => /\ songs[f].name = disk[f].artist
       /\ f \notin misled => Linked(songs[f])

\* Scan repairs: one beside which nothing ran leaves every song as it is on disk,
\* whatever edits, failures and cancelled scans came before; an incremental too.
\* What is missing or wrong after it, a wrong id was reported for.
ScanRepairs ==
  \A s \in alone : pc[s] = "done" =>
    \A f \in Files \ misled : disk[f] # None => songs[f] # None /\ Right(f)

\* "The first full scan after adding a new path indexes all files."
\* (docs/admin.md)  Of a scan beside which nothing ran: each file has its song.
FullScanIndexesAll ==
  \A s \in alone : pc[s] = "done" /\ mode[s] = "full" =>
    \A f \in Files : disk[f] # None => songs[f] # None

\* A scan beside which nothing ran leaves no artist and no album that no song refers
\* to ("Cleanup (orphaned artists, albums, and missing songs) runs after all
\* libraries", scanner.go), whatever ids the upserts have reported.
NoOrphans ==
  \A s \in alone : pc[s] = "done" =>
    /\ \A a \in Artists : artists[a] # None => artists[a] \in Used("artist")
    /\ \A b \in albums : b.id \in Used("album")
=============================================================================
