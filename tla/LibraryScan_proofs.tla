------------------------- MODULE LibraryScan_proofs -------------------------
(***************************************************************************)
(* For any files, artists, scans, editors and bounds: what an incremental  *)
(* scan skips has the tags of its file, and a scan beside which nothing    *)
(* runs repairs all, but for links by an id that an upsert has reported    *)
(* wrongly; and it leaves no orphan.  The first two take it that scans     *)
(* follow each other, that no two editors work on one song, and that two   *)
(* writes of files are not within a second.                                *)
(***************************************************************************)
EXTENDS LibraryScan, TLAPS

Active(s)     == pc[s] \in {"work", "artists", "albums"}
Editing(e, f) == editor[e] # Idle /\ editor[e].file = f

\* What the code does not see to itself: library_race is the run without it.
NoClash ==
  /\ \A s, t \in Scans : Active(s) /\ Active(t) => s = t
  /\ \A d, e \in Editors, f \in Files : Editing(d, f) /\ Editing(e, f) => d = e

Spaced == \A d \in Steps : d > 1

\* A time of file f that an incremental scan would take for the present one.
Present(t, f) == disk[f] # None /\ SameTime(t, disk[f].mtime)

InFlight(j) == j.step \notin {"waiting", "finished"}

\* No time is ahead of the clock, so a file that is written gets a new one.
TimesPast ==
  /\ \A f \in Files : disk[f] # None => disk[f].mtime <= clock
  /\ \A f \in Files : songs[f] # None => songs[f].mtime <= clock
  /\ \A s \in Scans, f \in Files : InFlight(job[s][f]) => job[s][f].mtime <= clock
  /\ \A e \in Editors : editor[e] # Idle => editor[e].row.mtime <= clock

\* A job of the present file has its tags; the rows it has ids of are there, unless
\* it was given a wrong one; and before a job of an older file the table has nothing
\* of the present one.
JobInv ==
  \A s \in Scans, f \in Files : InFlight(job[s][f]) =>
    LET j == job[s][f] IN
    /\ pc[s] = "work"
    /\ j.step \in {"artist", "album", "song"} /\ Present(j.mtime, f) => j.name = disk[f].artist
    /\ Present(j.mtime, f) /\ f \notin misled =>
         /\ j.step \in {"album", "song"} => artists[j.name] = j.artist
         /\ j.step = "song" => [id |-> j.album, artist |-> j.artist] \in albums
    /\ songs[f] # None /\ Present(songs[f].mtime, f) => Present(j.mtime, f)

\* An editor that holds a row of the present file holds what is in the table, but
\* for columns of its own.
EditorInv ==
  \A e \in Editors, f \in Files : Editing(e, f) /\ Present(editor[e].row.mtime, f) =>
    /\ songs[f] # None /\ Present(songs[f].mtime, f)
    /\ editor[e].row.name = disk[f].artist
    /\ f \notin misled => Linked(editor[e].row)

SkipInv == TypeOK /\ TimesPast /\ JobInv /\ EditorInv /\ SkippedIsRight

\* A scan that is alone has met the files as they are, and has dealt with those it
\* has finished.
InOrder(f) == disk[f] # None /\ f \notin misled => songs[f] # None /\ Right(f)
Exact(t, f) == disk[f] # None /\ t = disk[f].mtime
Undisturbed(s) ==
  /\ pc[s] = "work" =>
       /\ \A f \in Files : disk[f] # None => f \in due[s]
       /\ \A f \in Files : InFlight(job[s][f]) => Exact(job[s][f].mtime, f)
       /\ \A f \in Files : job[s][f].step = "finished" => InOrder(f)
  /\ pc[s] \in {"artists", "albums", "done"} => \A f \in Files : InOrder(f)
AloneInv == \A s \in alone : Undisturbed(s)

\* Between the two cleanups no artist is without a song.
OrphanInv ==
  \A s \in alone :
    /\ pc[s] \in {"albums", "done"} =>
         \A a \in Artists : artists[a] # None => artists[a] \in Used("artist")
    /\ pc[s] = "done" => \A b \in albums : b.id \in Used("album")

-----------------------------------------------------------------------------
(* Jobs, rows and ids.                                                      *)

\* A job has the fields that its step has reached.
LEMMA JobFacts ==
  ASSUME NEW j \in Jobs
  PROVE  /\ j.step \in {"waiting", "finished", "lookup", "read", "artist", "album", "song"}
         /\ j.step = "waiting" => j = Waiting
         /\ j.step = "finished" => j = Finished
         /\ j.step \in {"lookup", "read"} => j \in [step : {"lookup", "read"}, mtime : 0..MaxTime]
         /\ j.step = "artist" => j \in [step : {"artist"}, mtime : 0..MaxTime, name : Artists]
         /\ j.step = "album" =>
              j \in [step : {"album"}, mtime : 0..MaxTime, name : Artists, artist : Ids]
         /\ j.step = "song" =>
              j \in [step : {"song"}, mtime : 0..MaxTime, name : Artists, artist : Ids, album : Ids]
BY DEF Jobs, Waiting, Finished

\* An insert counts on, and its id is that of no album.
LEMMA InsertFacts ==
  ASSUME TypeOK, NEW t \in Tables, Insert(t)
  PROVE  /\ top' \in [Tables -> 0..MaxId] /\ lastId' \in 0..MaxId /\ NewId(t) \in Ids
         /\ top["albums"] <= top'["albums"]
         /\ t = "albums" => /\ top'["albums"] = NewId("albums")
                            /\ \A b \in albums : b.id # NewId("albums")
         /\ \A b \in albums : b.id <= top'["albums"]
<1>1. PICK n \in Nat : n = top[t]
  BY IdAssumption DEF TypeOK
<1>2. n + 1 \in Ids /\ top' = [top EXCEPT ![t] = n + 1] /\ lastId' = n + 1 /\ NewId(t) = n + 1
  BY <1>1 DEF Insert, NewId
<1>3. n + 1 \in 0..MaxId
  BY <1>2, IdAssumption DEF Ids
<1>4. top' \in [Tables -> 0..MaxId] /\ top'[t] = n + 1
  BY <1>2, <1>3 DEF TypeOK
<1>5. "albums" \in Tables /\ top["albums"] \in 0..MaxId /\ top'["albums"] \in 0..MaxId
  BY <1>4 DEF TypeOK, Tables
<1>6. top["albums"] <= top'["albums"]
  BY <1>1, <1>2, <1>4, <1>5, IdAssumption DEF TypeOK
<1>7. \A b \in albums : b.id \in 1..MaxId /\ b.id <= top["albums"]
  BY DEF TypeOK, Ids
<1>8. t = "albums" => \A b \in albums : b.id # n + 1
  BY <1>1, <1>7, IdAssumption
<1>9. \A b \in albums : b.id <= top'["albums"]
  BY <1>5, <1>6, <1>7, IdAssumption
<1>10. QED
  BY <1>2, <1>3, <1>4, <1>6, <1>8, <1>9

\* What an upsert reports is an id, and the right one unless the file is misled.
LEMMA ReportedFacts ==
  ASSUME TypeOK, NEW f \in Files, NEW i \in Ids, Mislead(f, i)
  PROVE  /\ Reported(i) \in Ids /\ misled' \in SUBSET Files /\ misled \subseteq misled'
         /\ f \notin misled' => Reported(i) = i
<1>1. lastId = 0 \/ lastId \in Ids
  BY IdAssumption DEF TypeOK, Ids
<1>2. Reported(i) \in Ids
  BY <1>1 DEF Reported
<1>3. QED
  BY <1>2 DEF Mislead, TypeOK

\* A job moves on.
LEMMA BecomesFacts ==
  ASSUME job \in [Scans -> [Files -> Jobs]], NEW s \in Scans, NEW f \in Files, NEW j \in Jobs,
         Becomes(s, f, j)
  PROVE  /\ job' \in [Scans -> [Files -> Jobs]] /\ job'[s][f] = j
         /\ \A t \in Scans, g \in Files : t # s \/ g # f => job'[t][g] = job[t][g]
BY DEF Becomes

\* What has been written is no longer what it was.
LEMMA WrittenFacts ==
  ASSUME TypeOK, NEW f \in Files, NEW a \in Artists, Written(f, a)
  PROVE  /\ clock' \in 0..MaxTime /\ disk' \in [Files -> Versions \cup {None}]
         /\ clock <= clock' /\ disk'[f] # None /\ disk'[f].mtime = clock'
         /\ \A g \in Files \ {f} : disk'[g] = disk[g]
         /\ Spaced => clock' - clock > 1
         /\ misled' = misled \ {f}
<1>1. PICK d \in Steps : /\ clock + d <= MaxTime /\ clock' = clock + d
                         /\ disk' = [disk EXCEPT ![f] = [artist |-> a, mtime |-> clock + d]]
  BY DEF Written
<1>2. clock \in Nat /\ d \in Nat \ {0} /\ MaxTime \in Nat
  BY ClockAssumption DEF TypeOK
<1>3. [artist |-> a, mtime |-> clock + d] \in Versions
  BY <1>1, <1>2 DEF Versions
<1>4. clock' \in 0..MaxTime /\ clock <= clock' /\ (Spaced => clock' - clock > 1)
  BY <1>1, <1>2 DEF TypeOK, Spaced
<1>5. disk' \in [Files -> Versions \cup {None}] /\ disk'[f] = [artist |-> a, mtime |-> clock']
      /\ \A g \in Files \ {f} : disk'[g] = disk[g]
  BY <1>1, <1>3 DEF TypeOK
<1>6. disk'[f] # None
  BY <1>1, <1>3, <1>5, NoneAssumption
<1>7. QED
  BY <1>4, <1>5, <1>6 DEF Written

-----------------------------------------------------------------------------
(* Types.                                                                   *)

\* The two upserts: a row that was not there is inserted, one that was stays, and
\* the id that goes on is that of the row unless the file is misled.
LEMMA UpsertArtistFacts ==
  ASSUME TypeOK, NEW s \in Scans, NEW f \in Files, UpsertArtist(s, f), job[s][f].name \in Artists
  PROVE  LET j == job[s][f] IN
         \E i \in Ids :
           /\ artists[j.name] = None \/ UNCHANGED artists
           /\ artists' \in [Artists -> Ids \cup {None}]
           /\ \A a \in Artists \ {j.name} : artists'[a] = artists[a]
           /\ Becomes(s, f, [step |-> "album", mtime |-> j.mtime, name |-> j.name, artist |-> i])
           /\ top' \in [Tables -> 0..MaxId] /\ lastId' \in 0..MaxId /\ misled' \in SUBSET Files
           /\ \A b \in albums : b.id <= top'["albums"]
           /\ misled \subseteq misled' /\ (f \notin misled' => artists'[j.name] = i)
<1> DEFINE j == job[s][f]
<1>1. CASE /\ artists[j.name] = None /\ Insert("artists")
           /\ artists' = [artists EXCEPT ![j.name] = NewId("artists")]
           /\ Becomes(s, f, [step |-> "album", mtime |-> j.mtime, name |-> j.name,
                             artist |-> NewId("artists")])
           /\ UNCHANGED misled
  <2>1. /\ top' \in [Tables -> 0..MaxId] /\ lastId' \in 0..MaxId
        /\ \A b \in albums : b.id <= top'["albums"]
        /\ NewId("artists") \in Ids
    BY <1>1, InsertFacts DEF Tables
  <2>2. /\ artists' \in [Artists -> Ids \cup {None}] /\ artists'[j.name] = NewId("artists")
        /\ \A a \in Artists \ {j.name} : artists'[a] = artists[a]
    BY <1>1, <2>1 DEF TypeOK
  <2>3. misled' \in SUBSET Files
    BY <1>1 DEF TypeOK
  <2>4. QED
    BY <1>1, <2>1, <2>2, <2>3
<1>2. CASE /\ artists[j.name] # None
           /\ Becomes(s, f, [step |-> "album", mtime |-> j.mtime, name |-> j.name,
                             artist |-> Reported(artists[j.name])])
           /\ Mislead(f, artists[j.name])
           /\ UNCHANGED <<artists, rowIds>>
  <2>1. artists[j.name] \in Ids
    BY <1>2 DEF TypeOK
  <2>2. /\ Reported(artists[j.name]) \in Ids /\ misled' \in SUBSET Files /\ misled \subseteq misled'
        /\ f \notin misled' => Reported(artists[j.name]) = artists[j.name]
    BY <1>2, <2>1, ReportedFacts
  <2>3. /\ artists' \in [Artists -> Ids \cup {None}] /\ artists' = artists
        /\ top' \in [Tables -> 0..MaxId] /\ lastId' \in 0..MaxId
        /\ \A b \in albums : b.id <= top'["albums"]
    BY <1>2 DEF TypeOK, rowIds
  <2>4. QED
    BY <1>2, <2>2, <2>3
<1>3. QED
  BY <1>1, <1>2 DEF UpsertArtist

LEMMA UpsertAlbumFacts ==
  ASSUME TypeOK, NEW s \in Scans, NEW f \in Files, UpsertAlbum(s, f), job[s][f].artist \in Ids
  PROVE  LET j == job[s][f] IN
         \E i \in Ids :
           /\ Becomes(s, f, [step |-> "song", mtime |-> j.mtime, name |-> j.name,
                             artist |-> j.artist, album |-> i])
           /\ albums' \subseteq [id : Ids, artist : {artists[a] : a \in Artists} \cap Ids]
           /\ \A b, c \in albums' : b.id = c.id \/ b.artist = c.artist => b = c
           /\ top' \in [Tables -> 0..MaxId] /\ lastId' \in 0..MaxId /\ misled' \in SUBSET Files
           /\ \A b \in albums' : b.id <= top'["albums"]
           /\ albums \subseteq albums' /\ misled \subseteq misled'
           /\ f \notin misled' => [id |-> i, artist |-> j.artist] \in albums'
<1> DEFINE j == job[s][f]
           r == [id |-> NewId("albums"), artist |-> j.artist]
<1>1. CASE /\ \A b \in albums : b.artist # j.artist
           /\ HasArtist(j.artist) /\ Insert("albums")
           /\ albums' = albums \cup {r}
           /\ Becomes(s, f, [step |-> "song", mtime |-> j.mtime, name |-> j.name,
                             artist |-> j.artist, album |-> NewId("albums")])
           /\ UNCHANGED misled
  <2>1. /\ top' \in [Tables -> 0..MaxId] /\ lastId' \in 0..MaxId /\ NewId("albums") \in Ids
        /\ \A b \in albums : b.id <= top'["albums"]
        /\ top'["albums"] = NewId("albums") /\ \A b \in albums : b.id # NewId("albums")
    BY <1>1, InsertFacts DEF Tables
  <2>2. r \in [id : Ids, artist : {artists[a] : a \in Artists} \cap Ids]
    BY <1>1, <2>1 DEF HasArtist
  <2>3. albums' \subseteq [id : Ids, artist : {artists[a] : a \in Artists} \cap Ids]
    BY <1>1, <2>2 DEF TypeOK
  <2>4. \A b, c \in albums' : b.id = c.id \/ b.artist = c.artist => b = c
    BY <1>1, <2>1 DEF TypeOK
  <2>5. \A b \in albums' : b.id <= top'["albums"]
    BY <1>1, <2>1, IdAssumption DEF Ids
  <2>6. misled' \in SUBSET Files
    BY <1>1 DEF TypeOK
  <2>7. QED
    BY <1>1, <2>1, <2>3, <2>4, <2>5, <2>6
<1>2. ASSUME NEW b \in albums, b.artist = j.artist,
             Becomes(s, f, [step |-> "song", mtime |-> j.mtime, name |-> j.name,
                            artist |-> j.artist, album |-> Reported(b.id)]),
             Mislead(f, b.id), UNCHANGED <<albums, rowIds>>
      PROVE  \E i \in Ids :
               /\ Becomes(s, f, [step |-> "song", mtime |-> j.mtime, name |-> j.name,
                                 artist |-> j.artist, album |-> i])
               /\ albums' \subseteq [id : Ids, artist : {artists[a] : a \in Artists} \cap Ids]
               /\ \A d, c \in albums' : d.id = c.id \/ d.artist = c.artist => d = c
               /\ top' \in [Tables -> 0..MaxId] /\ lastId' \in 0..MaxId /\ misled' \in SUBSET Files
               /\ \A d \in albums' : d.id <= top'["albums"]
               /\ albums \subseteq albums' /\ misled \subseteq misled'
               /\ f \notin misled' => [id |-> i, artist |-> j.artist] \in albums'
  <2>1. b.id \in Ids /\ b = [id |-> b.id, artist |-> j.artist]
    BY <1>2 DEF TypeOK
  <2>2. /\ Reported(b.id) \in Ids /\ misled' \in SUBSET Files /\ misled \subseteq misled'
        /\ f \notin misled' => Reported(b.id) = b.id
    BY <1>2, <2>1, ReportedFacts
  <2>3. /\ albums' = albums
        /\ albums' \subseteq [id : Ids, artist : {artists[a] : a \in Artists} \cap Ids]
        /\ \A d, c \in albums' : d.id = c.id \/ d.artist = c.artist => d = c
        /\ top' \in [Tables -> 0..MaxId] /\ lastId' \in 0..MaxId
        /\ \A d \in albums' : d.id <= top'["albums"]
    BY <1>2 DEF TypeOK, rowIds
  <2>4. QED
    BY <1>2, <2>1, <2>2, <2>3
<1>3. QED
  BY <1>1, <1>2 DEF UpsertAlbum

\* What a job does to its place, whatever the step.
LEMMA JobTypes ==
  ASSUME TypeOK, NEW s \in Scans, NEW f \in Files, FileJob(s, f)
  PROVE  TypeOK'
<1> USE DEF TypeOK
<1> DEFINE j == job[s][f]
<1>0. j \in Jobs
  OBVIOUS
<1>1. \A k \in Jobs : Becomes(s, f, k) => job' \in [Scans -> [Files -> Jobs]]
  BY BecomesFacts
<1>2. \A x : alone \cap {x} \subseteq Scans
  OBVIOUS
<1>3. CASE Stat(s, f)
  <2>1. disk[f].mtime \in 0..MaxTime
    BY <1>3 DEF Stat, Versions
  <2>2. job' \in [Scans -> [Files -> Jobs]]
    <3>1. [step |-> IF mode[s] = "full" THEN "read" ELSE "lookup", mtime |-> disk[f].mtime] \in Jobs
      BY <2>1 DEF Jobs
    <3>2. QED
      BY <1>1, <1>3, <3>1 DEF Stat
  <2>3. QED
    BY <1>2, <1>3, <2>2 DEF Stat, Step, Disturb, tables, rowIds
<1>4. CASE Lookup(s, f)
  <2>1. j \in [step : {"lookup", "read"}, mtime : 0..MaxTime]
    BY <1>0, <1>4, JobFacts DEF Lookup, Step
  <2>2. [j EXCEPT !.step = "read"] \in Jobs /\ Finished \in Jobs
    BY <2>1 DEF Jobs
  <2>3. job' \in [Scans -> [Files -> Jobs]]
    BY <1>1, <1>4, <2>2 DEF Lookup
  <2>4. QED
    BY <1>2, <1>4, <2>3 DEF Lookup, Step, Disturb, tables, rowIds
<1>5. CASE ReadTags(s, f)
  <2>1. j \in [step : {"lookup", "read"}, mtime : 0..MaxTime]
    BY <1>0, <1>5, JobFacts DEF ReadTags, Step
  <2>2. disk[f].artist \in Artists
    BY <1>5 DEF ReadTags, Versions
  <2>3. [step |-> "artist", mtime |-> j.mtime, name |-> disk[f].artist] \in Jobs
    BY <2>1, <2>2 DEF Jobs
  <2>4. job' \in [Scans -> [Files -> Jobs]]
    BY <1>1, <1>5, <2>3 DEF ReadTags
  <2>5. QED
    BY <1>2, <1>5, <2>4 DEF ReadTags, Step, Disturb, tables, rowIds
<1>6. CASE UpsertArtist(s, f)
  <2>1. j \in [step : {"artist"}, mtime : 0..MaxTime, name : Artists]
    BY <1>0, <1>6, JobFacts DEF UpsertArtist, Step
  <2>2. PICK i \in Ids :
          /\ artists[j.name] = None \/ UNCHANGED artists
          /\ artists' \in [Artists -> Ids \cup {None}]
          /\ \A a \in Artists \ {j.name} : artists'[a] = artists[a]
          /\ Becomes(s, f, [step |-> "album", mtime |-> j.mtime, name |-> j.name, artist |-> i])
          /\ top' \in [Tables -> 0..MaxId] /\ lastId' \in 0..MaxId /\ misled' \in SUBSET Files
          /\ \A b \in albums : b.id <= top'["albums"]
    BY <1>6, <2>1, UpsertArtistFacts
  <2>3. [step |-> "album", mtime |-> j.mtime, name |-> j.name, artist |-> i] \in Jobs
    BY <2>1 DEF Jobs
  <2>4. job' \in [Scans -> [Files -> Jobs]]
    BY <1>1, <2>2, <2>3
  <2>5. \A a \in Artists : artists[a] \in Ids => artists'[a] = artists[a]
    BY <2>1, <2>2, NoneAssumption
  <2>6. albums' = albums
    BY <1>6 DEF UpsertArtist
  <2>7. albums' \subseteq [id : Ids, artist : {artists'[a] : a \in Artists} \cap Ids]
    BY <2>5, <2>6
  <2>8. QED
    BY <1>2, <1>6, <2>2, <2>4, <2>6, <2>7 DEF UpsertArtist, Step, Disturb
<1>7. CASE UpsertAlbum(s, f)
  <2>1. j \in [step : {"album"}, mtime : 0..MaxTime, name : Artists, artist : Ids]
    BY <1>0, <1>7, JobFacts DEF UpsertAlbum, Step
  <2>2. PICK i \in Ids :
          /\ Becomes(s, f, [step |-> "song", mtime |-> j.mtime, name |-> j.name,
                            artist |-> j.artist, album |-> i])
          /\ albums' \subseteq [id : Ids, artist : {artists[a] : a \in Artists} \cap Ids]
          /\ \A b, c \in albums' : b.id = c.id \/ b.artist = c.artist => b = c
          /\ top' \in [Tables -> 0..MaxId] /\ lastId' \in 0..MaxId /\ misled' \in SUBSET Files
          /\ \A b \in albums' : b.id <= top'["albums"]
    BY <1>7, <2>1, UpsertAlbumFacts
  <2>3. [step |-> "song", mtime |-> j.mtime, name |-> j.name, artist |-> j.artist, album |-> i] \in Jobs
    BY <2>1 DEF Jobs
  <2>4. job' \in [Scans -> [Files -> Jobs]]
    BY <1>1, <2>2, <2>3
  <2>5. artists' = artists
    BY <1>7 DEF UpsertAlbum
  <2>6. QED
    BY <1>2, <1>7, <2>2, <2>4, <2>5 DEF UpsertAlbum, Step, Disturb
<1>8. CASE UpsertSong(s, f)
  <2>1. j \in [step : {"song"}, mtime : 0..MaxTime, name : Artists, artist : Ids, album : Ids]
    BY <1>0, <1>8, JobFacts DEF UpsertSong, Step
  <2>2. [name |-> j.name, artist |-> j.artist, album |-> j.album, mtime |-> j.mtime] \in Rows
    BY <2>1 DEF Rows
  <2>3. songs' \in [Files -> Rows \cup {None}]
    BY <1>8, <2>2 DEF UpsertSong
  <2>4. job' \in [Scans -> [Files -> Jobs]]
    BY <1>1, <1>8 DEF UpsertSong, Jobs
  <2>5. /\ top' \in [Tables -> 0..MaxId] /\ lastId' \in 0..MaxId
        /\ \A b \in albums : b.id <= top'["albums"]
    <3>1. CASE Insert("songs")
      BY <3>1, InsertFacts DEF Tables
    <3>2. CASE UNCHANGED rowIds
      BY <3>2 DEF rowIds
    <3>3. QED
      BY <1>8, <3>1, <3>2 DEF UpsertSong
  <2>6. QED
    BY <1>2, <1>8, <2>3, <2>4, <2>5 DEF UpsertSong, Step, Disturb
<1>9. CASE AlbumRefused(s, f)
  <2>1. job' \in [Scans -> [Files -> Jobs]]
    BY <1>1, <1>9 DEF AlbumRefused, Jobs
  <2>2. lastId' \in 0..MaxId
    BY <1>9 DEF AlbumRefused
  <2>3. QED
    BY <1>2, <1>9, <2>1, <2>2 DEF AlbumRefused, Step, Disturb
<1>10. CASE JobFails(s, f)
  <2>1. job' \in [Scans -> [Files -> Jobs]]
    BY <1>1, <1>10 DEF JobFails, Jobs
  <2>2. QED
    BY <1>10, <2>1 DEF JobFails, DisturbAll, tables, rowIds
<1>11. QED
  BY <1>3, <1>4, <1>5, <1>6, <1>7, <1>8, <1>9, <1>10 DEF FileJob

LEMMA TypeStep == TypeOK /\ [Next]_vars => TypeOK'
<1> SUFFICES ASSUME TypeOK, [Next]_vars PROVE TypeOK'
  OBVIOUS
<1> USE DEF TypeOK
<1>1. ASSUME NEW f \in Files, RemoveFile(f)
      PROVE  TypeOK'
  BY <1>1 DEF RemoveFile, DisturbAll, tables, rowIds, scan
<1>2. ASSUME NEW f \in Files, NEW a \in Artists, WriteFile(f, a)
      PROVE  TypeOK'
  <2>1. /\ clock' \in 0..MaxTime /\ disk' \in [Files -> Versions \cup {None}]
        /\ misled' = misled \ {f}
    BY <1>2, WrittenFacts DEF WriteFile
  <2>2. QED
    BY <1>2, <2>1 DEF WriteFile, DisturbAll, tables, rowIds, scan
<1>3. ASSUME NEW s \in Scans, NEW m \in {"incremental", "full"}, StartScan(s, m)
      PROVE  TypeOK'
  <2>1. job' \in [Scans -> [Files -> Jobs]]
    BY <1>3 DEF StartScan, Jobs
  <2>2. /\ top' \in [Tables -> 0..MaxId] /\ lastId' \in 0..MaxId
        /\ \A b \in albums : b.id <= top'["albums"]
    BY <1>3, InsertFacts DEF StartScan, Tables
  <2>3. QED
    BY <1>3, <2>1, <2>2 DEF StartScan
<1>4. ASSUME NEW s \in Scans, NEW f \in Files, FileJob(s, f)
      PROVE  TypeOK'
  BY <1>4, JobTypes
<1>5. ASSUME NEW s \in Scans, EndWork(s) \/ CleanupFails(s)
      PROVE  TypeOK'
  <2>1. pc' \in [Scans -> {"idle", "work", "artists", "albums", "done"}] /\ alone' \subseteq alone
    BY <1>5 DEF EndWork, CleanupFails, Disturb, DisturbAll
  <2>2. UNCHANGED <<clock, disk, songs, artists, albums, top, lastId, mode, due, job, editor, misled>>
    BY <1>5 DEF EndWork, CleanupFails, tables, rowIds
  <2>3. QED
    BY <2>1, <2>2
<1>6. ASSUME NEW s \in Scans, DeleteArtistsWithNoSongs(s)
      PROVE  TypeOK'
  <2>1. artists' \in [Artists -> Ids \cup {None}]
    BY <1>6 DEF DeleteArtistsWithNoSongs
  <2>2. albums' \subseteq albums /\ \A b \in albums' : b.artist \in Used("artist")
    BY <1>6 DEF DeleteArtistsWithNoSongs
  <2>3. \A a \in Artists : artists[a] \in Used("artist") => artists'[a] = artists[a]
    BY <1>6 DEF DeleteArtistsWithNoSongs
  <2>4. albums' \subseteq [id : Ids, artist : {artists'[a] : a \in Artists} \cap Ids]
    BY <2>2, <2>3
  <2>5. \A b, c \in albums' : b.id = c.id \/ b.artist = c.artist => b = c
    BY <2>2
  <2>6. QED
    BY <1>6, <2>1, <2>2, <2>4, <2>5 DEF DeleteArtistsWithNoSongs, Disturb, rowIds
<1>7. ASSUME NEW s \in Scans, DeleteAlbumsWithNoSongs(s)
      PROVE  TypeOK'
  BY <1>7 DEF DeleteAlbumsWithNoSongs, Disturb, rowIds
<1>8. ASSUME NEW s \in Scans, CancelScan(s)
      PROVE  TypeOK'
  <2>1. job' \in [Scans -> [Files -> Jobs]]
    BY <1>8 DEF CancelScan, Jobs
  <2>2. QED
    BY <1>8, <2>1 DEF CancelScan, DisturbAll, tables, rowIds
<1>9. ASSUME NEW e \in Editors, NEW f \in Files, EditRead(e, f)
      PROVE  TypeOK'
  BY <1>9 DEF EditRead, DisturbAll, tables, rowIds, scan
<1>10. ASSUME NEW e \in Editors, NEW a \in Artists, EditFile(e, a)
       PROVE  TypeOK'
  <2>1. editor[e] \in [step : {"read", "written"}, file : Files, row : Rows]
    BY <1>10 DEF EditFile, Idle
  <2>2. /\ clock' \in 0..MaxTime /\ disk' \in [Files -> Versions \cup {None}]
        /\ misled' = misled \ {editor[e].file}
    BY <1>10, <2>1, WrittenFacts DEF EditFile
  <2>3. editor' \in [Editors -> {Idle} \cup [step : {"read", "written"}, file : Files, row : Rows]]
    BY <1>10, <2>1 DEF EditFile
  <2>4. QED
    BY <1>10, <2>2, <2>3 DEF EditFile, DisturbAll, tables, rowIds, scan
<1>11. ASSUME NEW e \in Editors, EditUpsert(e)
       PROVE  TypeOK'
  BY <1>11 DEF EditUpsert, DisturbAll, rowIds, scan
<1>12. ASSUME NEW e \in Editors, EditGiveUp(e)
       PROVE  TypeOK'
  BY <1>12 DEF EditGiveUp, DisturbAll, tables, rowIds, scan
<1>13. CASE InsertElsewhere
  <2>1. lastId' \in 0..MaxId
    BY <1>13, IdAssumption DEF InsertElsewhere, Ids
  <2>2. QED
    BY <1>13, <2>1 DEF InsertElsewhere, scan
<1>14. CASE UNCHANGED vars
  BY <1>14 DEF vars, tables, rowIds, scan
<1>15. QED
  BY <1>1, <1>2, <1>3, <1>4, <1>5, <1>6, <1>7, <1>8, <1>9, <1>10, <1>11, <1>12, <1>13, <1>14
     DEF Next, Around, Scan, Editor

-----------------------------------------------------------------------------
(* Times, jobs, editors and what is skipped.                                *)

\* Times more than a second apart are told apart.
LEMMA TimeFacts ==
  ASSUME NEW c \in Nat, NEW u \in Nat, NEW t \in 0..c, u - c > 1
  PROVE  ~SameTime(t, u)
BY DEF SameTime

Facts == TimesPast /\ JobInv /\ EditorInv /\ SkippedIsRight

\* A song's row is a row, and so is an editor's.
LEMMA RowFacts ==
  ASSUME TypeOK
  PROVE  /\ \A f \in Files : songs[f] # None => songs[f] \in Rows
         /\ \A e \in Editors : editor[e] # Idle =>
              editor[e] \in [step : {"read", "written"}, file : Files, row : Rows]
         /\ \A f \in Files : disk[f] # None => disk[f] \in Versions
BY DEF TypeOK

\* A file's contents change: to what nothing has met, or to nothing.
LEMMA DiskStep ==
  ASSUME SkipInv, NEW f \in Files,
         UNCHANGED <<songs, artists, albums, job, pc>>,
         clock \in Nat, clock' \in Nat, clock <= clock',
         \A g \in Files \ {f} : disk'[g] = disk[g] /\ (g \in misled' <=> g \in misled),
         disk'[f] = None \/ (disk'[f] # None /\ disk'[f].mtime = clock' /\ clock' - clock > 1),
         \A e \in Editors : /\ editor'[e] = Idle <=> editor[e] = Idle
                            /\ editor'[e].file = editor[e].file /\ editor'[e].row = editor[e].row
  PROVE  Facts'
<1> USE DEF SkipInv
<1>1. \A t \in 0..clock : ~Present(t, f)'
  <2>1. \A t \in 0..clock : clock' - clock > 1 => ~SameTime(t, clock')
    BY TimeFacts
  <2>2. QED
    BY <2>1 DEF Present
<1>2. \A g \in Files \ {f} : \A t : Present(t, g)' <=> Present(t, g)
  BY DEF Present
<1>3. \A g \in Files : songs[g] # None => songs[g].mtime \in 0..clock
  BY RowFacts DEF TimesPast, Rows
<1>4. \A e \in Editors : editor[e] # Idle => editor[e].row.mtime \in 0..clock /\ editor[e].file \in Files
  BY RowFacts DEF TimesPast, Rows
<1>5. \A s \in Scans, g \in Files : InFlight(job[s][g]) => job[s][g].mtime \in 0..clock
  <2> SUFFICES ASSUME NEW s \in Scans, NEW g \in Files, InFlight(job[s][g])
               PROVE  job[s][g].mtime \in 0..clock
    OBVIOUS
  <2>1. job[s][g] \in Jobs
    BY DEF TypeOK
  <2>2. job[s][g].mtime \in 0..MaxTime
    BY <2>1, JobFacts DEF InFlight
  <2>3. QED
    BY <2>2 DEF TimesPast
<1>6. TimesPast'
  <2>1. \A g \in Files : disk'[g] # None => disk'[g].mtime <= clock'
    BY RowFacts DEF TimesPast, Versions
  <2>2. QED
    BY <1>3, <1>4, <1>5, <2>1 DEF TimesPast
<1>7. JobInv'
  <2> SUFFICES ASSUME NEW s \in Scans, NEW g \in Files, InFlight(job[s][g])
               PROVE  LET j == job[s][g] IN
                      /\ pc[s] = "work"
                      /\ j.step \in {"artist", "album", "song"} /\ Present(j.mtime, g)'
                           => j.name = disk'[g].artist
                      /\ Present(j.mtime, g)' /\ g \notin misled' =>
                           /\ j.step \in {"album", "song"} => artists[j.name] = j.artist
                           /\ j.step = "song" => [id |-> j.album, artist |-> j.artist] \in albums
                      /\ songs[g] # None /\ Present(songs[g].mtime, g)' => Present(j.mtime, g)'
    BY DEF JobInv
  <2>1. CASE g = f
    BY <1>1, <1>3, <1>5, <2>1 DEF JobInv
  <2>2. CASE g # f
    BY <1>2, <2>2 DEF JobInv
  <2>3. QED
    BY <2>1, <2>2
<1>8. EditorInv'
  <2> SUFFICES ASSUME NEW e \in Editors, NEW g \in Files, Editing(e, g)', Present(editor[e].row.mtime, g)'
               PROVE  /\ songs[g] # None /\ Present(songs[g].mtime, g)'
                      /\ editor[e].row.name = disk'[g].artist
                      /\ g \notin misled' => Linked(editor[e].row)
    BY DEF EditorInv, Linked
  <2>1. Editing(e, g) /\ editor[e] # Idle
    BY DEF Editing
  <2>2. g # f
    BY <1>1, <1>4, <2>1
  <2>3. QED
    BY <1>2, <2>1, <2>2 DEF EditorInv
<1>9. SkippedIsRight'
  <2> SUFFICES ASSUME NEW g \in Files, disk'[g] # None, songs[g] # None,
                      SameTime(songs[g].mtime, disk'[g].mtime)
               PROVE  songs[g].name = disk'[g].artist /\ (g \notin misled' => Linked(songs[g]))
    BY DEF SkippedIsRight, Linked
  <2>1. g # f
    BY <1>1, <1>3 DEF Present
  <2>2. QED
    BY <2>1 DEF SkippedIsRight
<1>10. QED
  BY <1>6, <1>7, <1>8, <1>9 DEF Facts

\* Jobs and editors end, and nothing else happens.
LEMMA QuietStep ==
  ASSUME SkipInv,
         UNCHANGED <<clock, disk, songs, artists, albums, misled>>,
         \A s \in Scans, f \in Files : InFlight(job'[s][f]) =>
           job'[s][f] = job[s][f] /\ pc'[s] = pc[s],
         \A e \in Editors : editor'[e] = Idle \/ editor'[e] = editor[e]
  PROVE  Facts'
<1> USE DEF SkipInv
<1>1. TimesPast'
  BY DEF TimesPast
<1>2. \A t, f : Present(t, f)' <=> Present(t, f)
  BY DEF Present
<1>3. \A row : Linked(row)' <=> Linked(row)
  BY DEF Linked
<1>4. JobInv'
  BY <1>2 DEF JobInv
<1>5. EditorInv'
  BY <1>2, <1>3 DEF EditorInv, Editing
<1>6. SkippedIsRight'
  BY <1>3 DEF SkippedIsRight
<1>7. QED
  BY <1>1, <1>4, <1>5, <1>6 DEF Facts

\* A job goes on, and what it makes adds to the tables.
LEMMA JobStep ==
  ASSUME SkipInv, NEW s \in Scans, NEW f \in Files, NEW j,
         UNCHANGED <<clock, disk, songs, pc, editor>>,
         job'[s][f] = j, \A t \in Scans, g \in Files : t # s \/ g # f => job'[t][g] = job[t][g],
         \A a \in Artists : artists[a] # None => artists'[a] = artists[a],
         albums \subseteq albums', misled \subseteq misled',
         pc[s] = "work", j.mtime <= clock,
         j.step \in {"artist", "album", "song"} /\ Present(j.mtime, f) => j.name = disk[f].artist,
         Present(j.mtime, f) /\ f \notin misled' =>
           /\ j.step \in {"album", "song"} => artists'[j.name] = j.artist
           /\ j.step = "song" => [id |-> j.album, artist |-> j.artist] \in albums',
         songs[f] # None /\ Present(songs[f].mtime, f) => Present(j.mtime, f)
  PROVE  Facts'
<1> USE DEF SkipInv
<1>1. TimesPast'
  BY DEF TimesPast
<1>2. \A t, g : Present(t, g)' <=> Present(t, g)
  BY DEF Present
<1>3. \A row \in Rows : Linked(row) => Linked(row)'
  BY NoneAssumption DEF Linked, Rows
<1>4. JobInv'
  <2> SUFFICES ASSUME NEW t \in Scans, NEW g \in Files, InFlight(job'[t][g])
               PROVE  LET k == job'[t][g] IN
                      /\ pc[t] = "work"
                      /\ k.step \in {"artist", "album", "song"} /\ Present(k.mtime, g)
                           => k.name = disk[g].artist
                      /\ Present(k.mtime, g) /\ g \notin misled' =>
                           /\ k.step \in {"album", "song"} => artists'[k.name] = k.artist
                           /\ k.step = "song" => [id |-> k.album, artist |-> k.artist] \in albums'
                      /\ songs[g] # None /\ Present(songs[g].mtime, g) => Present(k.mtime, g)
    BY <1>2 DEF JobInv
  <2>1. CASE t = s /\ g = f
    BY <2>1
  <2>2. CASE ~(t = s /\ g = f)
    <3>1. job'[t][g] = job[t][g] /\ job[t][g] \in Jobs
      BY <2>2 DEF TypeOK
    <3>2. job[t][g].step \in {"album", "song"} =>
            job[t][g].name \in Artists /\ job[t][g].artist # None
      BY <3>1, JobFacts, NoneAssumption
    <3>3. QED
      BY <3>1, <3>2 DEF JobInv
  <2>3. QED
    BY <2>1, <2>2
<1>5. EditorInv'
  BY <1>2, <1>3, RowFacts DEF EditorInv, Editing
<1>6. SkippedIsRight'
  BY <1>3, RowFacts DEF SkippedIsRight
<1>7. QED
  BY <1>1, <1>4, <1>5, <1>6 DEF Facts

\* With one scan at a time, a job in flight is of the scan that works, and beside
\* the cleanups there is none.
LEMMA OneJob ==
  ASSUME JobInv, NoClash, NEW s \in Scans, Active(s),
         NEW t \in Scans, NEW f \in Files, InFlight(job[t][f])
  PROVE  t = s /\ pc[s] = "work"
BY DEF JobInv, NoClash, Active

LEMMA FileJobStep ==
  ASSUME SkipInv, NoClash, NEW s \in Scans, NEW f \in Files, FileJob(s, f)
  PROVE  Facts'
<1> USE DEF SkipInv
<1> DEFINE j == job[s][f]
<1>0. job \in [Scans -> [Files -> Jobs]] /\ j \in Jobs /\ Finished \in Jobs
  BY DEF TypeOK, Jobs
<1>1. CASE Stat(s, f)
  <2> DEFINE k == [step |-> IF mode[s] = "full" THEN "read" ELSE "lookup", mtime |-> disk[f].mtime]
  <2>1. disk[f].mtime \in 0..MaxTime /\ disk[f] # None /\ disk[f].mtime <= clock
    BY <1>1, RowFacts DEF Stat, Versions, TimesPast
  <2>2. k \in Jobs /\ k.step \in {"lookup", "read"} /\ k.mtime = disk[f].mtime
    BY <2>1 DEF Jobs
  <2>3. Becomes(s, f, k) /\ UNCHANGED <<clock, disk, songs, artists, albums, pc, editor, misled>> /\ pc[s] = "work"
    BY <1>1 DEF Stat, Step, tables
  <2>4. Present(k.mtime, f)
    BY <2>1 DEF Present, SameTime
  <2> HIDE DEF k
  <2>5. job'[s][f] = k /\ \A t \in Scans, g \in Files : t # s \/ g # f => job'[t][g] = job[t][g]
    BY <1>0, <2>2, <2>3, BecomesFacts
  <2>6. QED
    BY <2>1, <2>2, <2>3, <2>4, <2>5, JobStep
<1>2. CASE Lookup(s, f)
  <2>1. j \in [step : {"lookup", "read"}, mtime : 0..MaxTime] /\ InFlight(j)
    BY <1>0, <1>2, JobFacts DEF Lookup, Step, InFlight
  <2> DEFINE k == [j EXCEPT !.step = "read"]
  <2>2. k \in Jobs /\ k.step = "read" /\ k.mtime = j.mtime
    BY <2>1 DEF Jobs
  <2>3. UNCHANGED <<clock, disk, songs, artists, albums, pc, editor, misled>> /\ pc[s] = "work"
    BY <1>2 DEF Lookup, Step, tables
  <2> HIDE DEF k
  <2>4. CASE Becomes(s, f, k)
    <3>1. job'[s][f] = k /\ \A t \in Scans, g \in Files : t # s \/ g # f => job'[t][g] = job[t][g]
      BY <1>0, <2>2, <2>4, BecomesFacts
    <3>2. k.mtime <= clock /\ (songs[f] # None /\ Present(songs[f].mtime, f) => Present(k.mtime, f))
      BY <2>1, <2>2 DEF TimesPast, JobInv
    <3>3. QED
      BY <2>2, <2>3, <3>1, <3>2, JobStep
  <2>5. CASE Becomes(s, f, Finished)
    <3>1. job'[s][f] = Finished /\ \A t \in Scans, g \in Files : t # s \/ g # f => job'[t][g] = job[t][g]
      BY <1>0, <2>5, BecomesFacts
    <3>2. \A t \in Scans, g \in Files : InFlight(job'[t][g]) => job'[t][g] = job[t][g] /\ pc'[t] = pc[t]
      BY <2>3, <3>1 DEF InFlight, Finished
    <3>3. QED
      BY <2>3, <3>2, QuietStep
  <2>6. QED
    BY <1>2, <2>4, <2>5 DEF Lookup, k
<1>3. CASE ReadTags(s, f)
  <2>1. j \in [step : {"lookup", "read"}, mtime : 0..MaxTime] /\ InFlight(j)
    BY <1>0, <1>3, JobFacts DEF ReadTags, Step, InFlight
  <2> DEFINE k == [step |-> "artist", mtime |-> j.mtime, name |-> disk[f].artist]
  <2>2. k \in Jobs /\ k.step = "artist" /\ k.mtime = j.mtime /\ k.name = disk[f].artist
    BY <1>3, <2>1, RowFacts DEF ReadTags, Versions, Jobs
  <2>3. Becomes(s, f, k) /\ UNCHANGED <<clock, disk, songs, artists, albums, pc, editor, misled>> /\ pc[s] = "work"
    BY <1>3 DEF ReadTags, Step, tables
  <2> HIDE DEF k
  <2>4. job'[s][f] = k /\ \A t \in Scans, g \in Files : t # s \/ g # f => job'[t][g] = job[t][g]
    BY <1>0, <2>2, <2>3, BecomesFacts
  <2>5. k.mtime <= clock /\ (songs[f] # None /\ Present(songs[f].mtime, f) => Present(k.mtime, f))
    BY <2>1, <2>2 DEF TimesPast, JobInv
  <2>6. QED
    BY <2>2, <2>3, <2>4, <2>5, JobStep
<1>4. CASE UpsertArtist(s, f)
  <2>1. j \in [step : {"artist"}, mtime : 0..MaxTime, name : Artists] /\ InFlight(j)
    BY <1>0, <1>4, JobFacts DEF UpsertArtist, Step, InFlight
  <2>2. PICK i \in Ids :
          /\ artists[j.name] = None \/ UNCHANGED artists
          /\ \A a \in Artists \ {j.name} : artists'[a] = artists[a]
          /\ Becomes(s, f, [step |-> "album", mtime |-> j.mtime, name |-> j.name, artist |-> i])
          /\ misled \subseteq misled' /\ (f \notin misled' => artists'[j.name] = i)
    BY <1>4, <2>1, UpsertArtistFacts
  <2> DEFINE k == [step |-> "album", mtime |-> j.mtime, name |-> j.name, artist |-> i]
  <2>3. k \in Jobs /\ k.step = "album" /\ k.mtime = j.mtime /\ k.name = j.name /\ k.artist = i
    BY <2>1 DEF Jobs
  <2>4. Becomes(s, f, k) /\ UNCHANGED <<clock, disk, songs, albums, pc, editor>> /\ pc[s] = "work"
    BY <1>4, <2>2 DEF UpsertArtist, Step
  <2> HIDE DEF k
  <2>5. job'[s][f] = k /\ \A t \in Scans, g \in Files : t # s \/ g # f => job'[t][g] = job[t][g]
    BY <1>0, <2>3, <2>4, BecomesFacts
  <2>6. \A a \in Artists : artists[a] # None => artists'[a] = artists[a]
    BY <2>1, <2>2
  <2>7. /\ k.mtime <= clock /\ (songs[f] # None /\ Present(songs[f].mtime, f) => Present(k.mtime, f))
        /\ Present(k.mtime, f) => k.name = disk[f].artist
    BY <1>4, <2>1, <2>3 DEF TimesPast, JobInv, UpsertArtist, Step
  <2>8. QED
    BY <2>2, <2>3, <2>4, <2>5, <2>6, <2>7, JobStep
<1>5. CASE UpsertAlbum(s, f)
  <2>1. j \in [step : {"album"}, mtime : 0..MaxTime, name : Artists, artist : Ids] /\ InFlight(j)
    BY <1>0, <1>5, JobFacts DEF UpsertAlbum, Step, InFlight
  <2>2. PICK i \in Ids :
          /\ Becomes(s, f, [step |-> "song", mtime |-> j.mtime, name |-> j.name,
                            artist |-> j.artist, album |-> i])
          /\ albums \subseteq albums' /\ misled \subseteq misled'
          /\ f \notin misled' => [id |-> i, artist |-> j.artist] \in albums'
    BY <1>5, <2>1, UpsertAlbumFacts
  <2> DEFINE k == [step |-> "song", mtime |-> j.mtime, name |-> j.name, artist |-> j.artist, album |-> i]
  <2>3. /\ k \in Jobs /\ k.step = "song" /\ k.mtime = j.mtime /\ k.name = j.name
        /\ k.artist = j.artist /\ k.album = i
    BY <2>1 DEF Jobs
  <2>4. Becomes(s, f, k) /\ UNCHANGED <<clock, disk, songs, artists, pc, editor>> /\ pc[s] = "work"
    BY <1>5, <2>2 DEF UpsertAlbum, Step
  <2> HIDE DEF k
  <2>5. job'[s][f] = k /\ \A t \in Scans, g \in Files : t # s \/ g # f => job'[t][g] = job[t][g]
    BY <1>0, <2>3, <2>4, BecomesFacts
  <2>6. f \notin misled' => [id |-> k.album, artist |-> k.artist] \in albums'
    BY <2>2, <2>3
  <2>7. /\ k.mtime <= clock /\ (songs[f] # None /\ Present(songs[f].mtime, f) => Present(k.mtime, f))
        /\ Present(k.mtime, f) => k.name = disk[f].artist
        /\ Present(k.mtime, f) /\ f \notin misled' => artists[k.name] = k.artist
    <3>1. j.step = "album" /\ j.mtime <= clock
      BY <2>1 DEF TimesPast
    <3>2. /\ Present(j.mtime, f) => j.name = disk[f].artist
          /\ Present(j.mtime, f) /\ f \notin misled => artists[j.name] = j.artist
          /\ songs[f] # None /\ Present(songs[f].mtime, f) => Present(j.mtime, f)
      BY <2>1, <3>1 DEF JobInv
    <3>3. QED
      BY <2>2, <2>3, <3>1, <3>2
  <2>8. QED
    BY <2>2, <2>3, <2>4, <2>5, <2>6, <2>7, JobStep
<1>6. CASE UpsertSong(s, f)
  <2>1. j \in [step : {"song"}, mtime : 0..MaxTime, name : Artists, artist : Ids, album : Ids] /\ InFlight(j)
    BY <1>0, <1>6, JobFacts DEF UpsertSong, Step, InFlight
  <2> DEFINE r == [name |-> j.name, artist |-> j.artist, album |-> j.album, mtime |-> j.mtime]
  <2>2. /\ r \in Rows /\ r # None /\ r.mtime = j.mtime /\ r.name = j.name
        /\ r.artist = j.artist /\ r.album = j.album
    BY <2>1, NoneAssumption DEF Rows
  <2>3. songs' = [songs EXCEPT ![f] = r] /\ UNCHANGED <<clock, disk, artists, albums, pc, editor, misled>> /\ pc[s] = "work"
    BY <1>6 DEF UpsertSong, Step
  <2> HIDE DEF r
  <2>4. songs'[f] = r /\ \A g \in Files \ {f} : songs'[g] = songs[g]
    BY <2>3 DEF TypeOK
  <2>5. job'[s][f] = Finished /\ \A t \in Scans, g \in Files : t # s \/ g # f => job'[t][g] = job[t][g]
    BY <1>0, <1>6, BecomesFacts DEF UpsertSong
  <2>6. \A t, g : Present(t, g)' <=> Present(t, g)
    BY <2>3 DEF Present
  <2>7. \A row : Linked(row)' <=> Linked(row)
    BY <2>3 DEF Linked
  <2>8. /\ j.mtime <= clock /\ (songs[f] # None /\ Present(songs[f].mtime, f) => Present(j.mtime, f))
        /\ Present(j.mtime, f) => j.name = disk[f].artist
        /\ Present(j.mtime, f) /\ f \notin misled =>
             artists[j.name] = j.artist /\ [id |-> j.album, artist |-> j.artist] \in albums
    BY <1>6, <2>1 DEF TimesPast, JobInv, UpsertSong, Step
  <2>9. Present(r.mtime, f) => r.name = disk[f].artist /\ (f \notin misled => Linked(r))
    BY <2>2, <2>8 DEF Linked
  <2>10. \A t \in Scans, g \in Files : InFlight(job'[t][g]) => job'[t][g] = job[t][g] /\ g # f
    <3>1. \A t \in Scans, g \in Files : InFlight(job'[t][g]) => job'[t][g] = job[t][g] /\ ~(t = s /\ g = f)
      BY <2>5 DEF InFlight, Finished
    <3>2. Active(s)
      BY <2>3 DEF Active
    <3>3. \A t \in Scans, g \in Files : InFlight(job'[t][g]) => t = s
      BY <3>1, <3>2, OneJob
    <3>4. QED
      BY <3>1, <3>3
  <2>11. TimesPast'
    BY <2>2, <2>3, <2>4, <2>8, <2>10 DEF TimesPast
  <2>12. JobInv'
    BY <2>3, <2>4, <2>6, <2>10 DEF JobInv
  <2>13. EditorInv'
    BY <2>2, <2>3, <2>4, <2>6, <2>7, <2>8 DEF EditorInv, Editing
  <2>14. SkippedIsRight'
    BY <2>2, <2>3, <2>4, <2>7, <2>9 DEF SkippedIsRight, Present
  <2>15. QED
    BY <2>11, <2>12, <2>13, <2>14 DEF Facts
<1>7. CASE JobFails(s, f) \/ AlbumRefused(s, f)
  <2>1. job'[s][f] = Finished /\ \A t \in Scans, g \in Files : t # s \/ g # f => job'[t][g] = job[t][g]
    BY <1>0, <1>7, BecomesFacts DEF JobFails, AlbumRefused
  <2>2. UNCHANGED <<clock, disk, songs, artists, albums, pc, editor, misled>>
    BY <1>7 DEF JobFails, AlbumRefused, Step, tables
  <2>3. \A t \in Scans, g \in Files : InFlight(job'[t][g]) => job'[t][g] = job[t][g] /\ pc'[t] = pc[t]
    BY <2>1, <2>2 DEF InFlight, Finished
  <2>4. QED
    BY <2>2, <2>3, QuietStep
<1>8. QED
  BY <1>1, <1>2, <1>3, <1>4, <1>5, <1>6, <1>7 DEF FileJob

\* What the cleanups leave: a row of the present file keeps its artist and album,
\* since the row in the table has the same.
LEMMA CleanupStep ==
  ASSUME SkipInv, NoClash, NEW s \in Scans,
         DeleteArtistsWithNoSongs(s) \/ DeleteAlbumsWithNoSongs(s)
  PROVE  Facts'
<1> USE DEF SkipInv
<1>1. UNCHANGED <<clock, disk, songs, job, editor, misled>> /\ Active(s) /\ pc[s] # "work"
  BY DEF DeleteArtistsWithNoSongs, DeleteAlbumsWithNoSongs, Active
<1>2. \A t \in Scans, f \in Files : ~InFlight(job[t][f])
  BY <1>1, OneJob
<1>3. \A t, f : Present(t, f)' <=> Present(t, f)
  BY <1>1 DEF Present
<1>4. ASSUME NEW row \in Rows, Linked(row),
             NEW f \in Files, songs[f] # None, Linked(songs[f]), songs[f].name = row.name
      PROVE  Linked(row)'
  <2> DEFINE b == [id |-> row.album, artist |-> row.artist]
             c == [id |-> songs[f].album, artist |-> songs[f].artist]
  <2>1. songs[f].artist = row.artist /\ b \in albums /\ c \in albums /\ b.artist = c.artist
    BY <1>4 DEF Linked
  <2>2. b = c
    BY <2>1 DEF TypeOK
  <2>3. songs[f].album = row.album
    BY <2>2
  <2>4. songs[f] \in Rows
    BY <1>4, RowFacts
  <2>5. row.artist \in Used("artist") /\ row.album \in Used("album")
    BY <1>4, <2>1, <2>3 DEF Used
  <2>6. artists[row.name] = row.artist
    BY <1>4 DEF Linked
  <2>7. artists'[row.name] = row.artist
    <3>1. row.name \in Artists
      BY DEF Rows
    <3>2. QED
      BY <2>5, <2>6, <3>1 DEF DeleteArtistsWithNoSongs, DeleteAlbumsWithNoSongs
  <2>8. b \in albums'
    BY <2>1, <2>5 DEF DeleteArtistsWithNoSongs, DeleteAlbumsWithNoSongs
  <2>9. QED
    BY <2>7, <2>8 DEF Linked
<1>5. TimesPast'
  BY <1>1 DEF TimesPast
<1>6. JobInv'
  BY <1>1, <1>2 DEF JobInv
<1>7. EditorInv'
  <2> SUFFICES ASSUME NEW e \in Editors, NEW f \in Files, Editing(e, f), Present(editor[e].row.mtime, f)
               PROVE  /\ songs[f] # None /\ Present(songs[f].mtime, f)
                      /\ editor[e].row.name = disk[f].artist
                      /\ f \notin misled => Linked(editor[e].row)'
    BY <1>1, <1>3 DEF EditorInv, Editing, Linked
  <2>1. /\ songs[f] # None /\ Present(songs[f].mtime, f)
        /\ editor[e].row.name = disk[f].artist /\ (f \notin misled => Linked(editor[e].row))
    BY DEF EditorInv
  <2>2. songs[f].name = disk[f].artist /\ (f \notin misled => Linked(songs[f]))
    BY <2>1 DEF SkippedIsRight, Present
  <2>3. PICK row \in Rows : row = editor[e].row
    BY RowFacts DEF Editing
  <2>4. f \notin misled => Linked(row)'
    BY <1>4, <2>1, <2>2, <2>3
  <2>5. QED
    BY <1>1, <2>1, <2>3, <2>4 DEF Linked
<1>8. SkippedIsRight'
  <2> SUFFICES ASSUME NEW f \in Files, disk[f] # None, songs[f] # None, SameTime(songs[f].mtime, disk[f].mtime)
               PROVE  songs[f].name = disk[f].artist /\ (f \notin misled => Linked(songs[f])')
    BY <1>1 DEF SkippedIsRight, Linked
  <2>1. songs[f].name = disk[f].artist /\ (f \notin misled => Linked(songs[f]))
    BY DEF SkippedIsRight
  <2>2. PICK row \in Rows : row = songs[f]
    BY RowFacts
  <2>3. f \notin misled => Linked(row)'
    BY <1>4, <2>1, <2>2
  <2>4. QED
    BY <1>1, <2>1, <2>2, <2>3 DEF Linked
<1>9. QED
  BY <1>5, <1>6, <1>7, <1>8 DEF Facts

LEMMA EditorStep ==
  ASSUME SkipInv, NoClash, Spaced, NEW e \in Editors, Editor(e)
  PROVE  Facts'
<1> USE DEF SkipInv
<1>0. editor \in [Editors -> {Idle} \cup [step : {"read", "written"}, file : Files, row : Rows]]
  BY DEF TypeOK
<1>1. ASSUME NEW f \in Files, EditRead(e, f)
      PROVE  Facts'
  <2> DEFINE x == [step |-> "read", file |-> f, row |-> songs[f]]
  <2>1. x.file = f /\ x.row = songs[f] /\ songs[f] # None
    BY <1>1 DEF EditRead
  <2>2. editor' = [editor EXCEPT ![e] = x] /\ UNCHANGED <<clock, disk, songs, artists, albums, job, pc, misled>>
    BY <1>1 DEF EditRead, tables, scan
  <2> HIDE DEF x
  <2>3. editor'[e] = x /\ \A d \in Editors \ {e} : editor'[d] = editor[d]
    BY <1>0, <2>2
  <2>4. \A t, g : Present(t, g)' <=> Present(t, g)
    BY <2>2 DEF Present
  <2>5. \A row : Linked(row)' <=> Linked(row)
    BY <2>2 DEF Linked
  <2>6. TimesPast'
    BY <2>1, <2>2, <2>3 DEF TimesPast
  <2>7. JobInv'
    BY <2>2, <2>4 DEF JobInv
  <2>8. SkippedIsRight'
    BY <2>2, <2>5 DEF SkippedIsRight
  <2>9. EditorInv'
    <3>1. Present(songs[f].mtime, f) =>
            songs[f].name = disk[f].artist /\ (f \notin misled => Linked(songs[f]))
      BY <2>1 DEF SkippedIsRight, Present
    <3>2. QED
      BY <2>1, <2>2, <2>3, <2>4, <2>5, <3>1 DEF EditorInv, Editing
  <2>10. QED
    BY <2>6, <2>7, <2>8, <2>9 DEF Facts
<1>2. ASSUME NEW a \in Artists, EditFile(e, a)
      PROVE  Facts'
  <2>1. editor[e] \in [step : {"read", "written"}, file : Files, row : Rows]
    BY <1>0, <1>2 DEF EditFile, Idle
  <2> DEFINE f == editor[e].file
  <2>2. f \in Files /\ Written(f, a) /\ UNCHANGED <<songs, artists, albums, job, pc>>
    BY <1>2, <2>1 DEF EditFile, tables, scan
  <2>3. editor' = [editor EXCEPT ![e].step = "written"]
    BY <1>2 DEF EditFile
  <2>4. \A d \in Editors : /\ editor'[d] = Idle <=> editor[d] = Idle
                           /\ editor'[d].file = editor[d].file /\ editor'[d].row = editor[d].row
    <3>1. \A d \in Editors \ {e} : editor'[d] = editor[d]
      BY <1>0, <2>3
    <3>2. editor'[e] = [editor[e] EXCEPT !.step = "written"]
      BY <1>0, <2>3
    <3>3. editor'[e] # Idle /\ editor[e] # Idle
      BY <2>1, <3>2 DEF Idle
    <3>4. editor'[e].file = editor[e].file /\ editor'[e].row = editor[e].row
      BY <2>1, <3>2
    <3>5. QED
      BY <3>1, <3>3, <3>4
  <2> HIDE DEF f
  <2>5. clock \in Nat /\ clock' \in Nat
    BY <2>2, WrittenFacts, ClockAssumption DEF TypeOK
  <2>6. QED
    BY <2>2, <2>4, <2>5, WrittenFacts, DiskStep
<1>3. CASE EditUpsert(e)
  <2>1. editor[e] \in [step : {"read", "written"}, file : Files, row : Rows] /\ editor[e] # Idle
    BY <1>0, <1>3 DEF EditUpsert
  <2> DEFINE f == editor[e].file
             r == editor[e].row
  <2>2. f \in Files /\ r \in Rows /\ Editing(e, f)
    BY <2>1 DEF Editing
  <2>3. /\ songs' = [songs EXCEPT ![f] = r] /\ editor' = [editor EXCEPT ![e] = Idle]
        /\ UNCHANGED <<clock, disk, artists, albums, job, pc, misled>>
    BY <1>3 DEF EditUpsert, scan
  <2>4. r # None /\ r.mtime <= clock
    BY <2>1, <2>2, NoneAssumption DEF TimesPast
  <2> HIDE DEF f, r
  <2>5. songs'[f] = r /\ \A g \in Files \ {f} : songs'[g] = songs[g]
    BY <2>2, <2>3 DEF TypeOK
  <2>6. editor'[e] = Idle /\ \A d \in Editors \ {e} : editor'[d] = editor[d]
    BY <1>0, <2>3
  <2>7. \A t, g : Present(t, g)' <=> Present(t, g)
    BY <2>3 DEF Present
  <2>8. \A row : Linked(row)' <=> Linked(row)
    BY <2>3 DEF Linked
  <2>9. Present(r.mtime, f) => /\ songs[f] # None /\ Present(songs[f].mtime, f)
                               /\ r.name = disk[f].artist /\ (f \notin misled => Linked(r))
    BY <2>2 DEF EditorInv, r
  <2>10. TimesPast'
    BY <2>3, <2>4, <2>5, <2>6 DEF TimesPast
  <2>11. JobInv'
    BY <2>3, <2>5, <2>7, <2>9 DEF JobInv
  <2>12. EditorInv'
    <3>1. \A d \in Editors, g \in Files : Editing(d, g)' => Editing(d, g) /\ editor'[d] = editor[d] /\ g # f
      BY <2>2, <2>6 DEF Editing, NoClash
    <3>2. QED
      BY <2>3, <2>5, <2>7, <2>8, <3>1 DEF EditorInv
  <2>13. SkippedIsRight'
    BY <2>3, <2>5, <2>8, <2>9 DEF SkippedIsRight, Present
  <2>14. QED
    BY <2>10, <2>11, <2>12, <2>13 DEF Facts
<1>4. CASE EditGiveUp(e)
  <2>1. /\ UNCHANGED <<clock, disk, songs, artists, albums, job, pc, misled>>
        /\ \A d \in Editors : editor'[d] = Idle \/ editor'[d] = editor[d]
    BY <1>0, <1>4 DEF EditGiveUp, tables, scan
  <2>2. QED
    BY <2>1, QuietStep
<1>5. QED
  BY <1>1, <1>2, <1>3, <1>4 DEF Editor

LEMMA SkipStep == SkipInv /\ NoClash /\ Spaced /\ [Next]_vars => SkipInv'
<1> SUFFICES ASSUME SkipInv, NoClash, Spaced, [Next]_vars PROVE Facts'
  BY TypeStep DEF SkipInv, Facts
<1>0. TypeOK /\ TimesPast /\ JobInv /\ clock \in Nat
  BY ClockAssumption DEF SkipInv, TypeOK
<1>1. ASSUME NEW f \in Files, RemoveFile(f)
      PROVE  Facts'
  <2>1. /\ UNCHANGED <<clock, songs, artists, albums, job, pc, editor, misled>>
        /\ disk'[f] = None /\ \A g \in Files \ {f} : disk'[g] = disk[g]
    BY <1>0, <1>1 DEF RemoveFile, tables, scan, TypeOK
  <2>2. QED
    BY <1>0, <2>1, DiskStep
<1>2. ASSUME NEW f \in Files, NEW a \in Artists, WriteFile(f, a)
      PROVE  Facts'
  <2>1. Written(f, a) /\ UNCHANGED <<songs, artists, albums, job, pc, editor>>
    BY <1>2 DEF WriteFile, tables, scan
  <2>2. clock' \in Nat
    BY <1>0, <2>1, WrittenFacts, ClockAssumption
  <2>3. QED
    BY <1>0, <2>1, <2>2, WrittenFacts, DiskStep
<1>3. ASSUME NEW s \in Scans, NEW m \in {"incremental", "full"}, StartScan(s, m)
      PROVE  Facts'
  <2>1. UNCHANGED <<clock, disk, songs, artists, albums, editor, misled>>
    BY <1>3 DEF StartScan
  <2>2. \A t \in Scans, f \in Files : InFlight(job'[t][f]) => job'[t][f] = job[t][f] /\ pc'[t] = pc[t]
    BY <1>0, <1>3 DEF StartScan, TypeOK, InFlight, Waiting
  <2>3. QED
    BY <2>1, <2>2, QuietStep
<1>4. ASSUME NEW s \in Scans, NEW f \in Files, FileJob(s, f)
      PROVE  Facts'
  BY <1>4, FileJobStep
<1>5. ASSUME NEW s \in Scans, EndWork(s) \/ CleanupFails(s)
      PROVE  Facts'
  <2>1. UNCHANGED <<clock, disk, songs, artists, albums, editor, job, misled>>
    BY <1>5 DEF EndWork, CleanupFails, tables
  <2>2. \A t \in Scans \ {s} : pc'[t] = pc[t]
    BY <1>0, <1>5 DEF EndWork, CleanupFails, TypeOK
  <2>3. \A f \in Files : ~InFlight(job[s][f])
    <3>1. CASE EndWork(s)
      BY <3>1 DEF EndWork, Busy, InFlight
    <3>2. CASE CleanupFails(s)
      BY <1>0, <3>2 DEF CleanupFails, JobInv
    <3>3. QED
      BY <1>5, <3>1, <3>2
  <2>4. QED
    BY <2>1, <2>2, <2>3, QuietStep
<1>6. ASSUME NEW s \in Scans, DeleteArtistsWithNoSongs(s) \/ DeleteAlbumsWithNoSongs(s)
      PROVE  Facts'
  BY <1>6, CleanupStep
<1>7. ASSUME NEW s \in Scans, CancelScan(s)
      PROVE  Facts'
  <2>1. UNCHANGED <<clock, disk, songs, artists, albums, editor, misled>>
    BY <1>7 DEF CancelScan, tables
  <2>2. \A t \in Scans, f \in Files : InFlight(job'[t][f]) => job'[t][f] = job[t][f] /\ pc'[t] = pc[t]
    BY <1>0, <1>7 DEF CancelScan, TypeOK, InFlight, Waiting
  <2>3. QED
    BY <2>1, <2>2, QuietStep
<1>8. ASSUME NEW e \in Editors, Editor(e)
      PROVE  Facts'
  BY <1>8, EditorStep
<1>9. CASE InsertElsewhere \/ UNCHANGED vars
  <2>1. UNCHANGED <<clock, disk, songs, artists, albums, editor, job, pc, misled>>
    BY <1>9 DEF InsertElsewhere, vars, tables, scan
  <2>2. QED
    BY <2>1, QuietStep
<1>10. QED
  BY <1>1, <1>2, <1>3, <1>4, <1>5, <1>6, <1>7, <1>8, <1>9 DEF Next, Around, Scan

-----------------------------------------------------------------------------
(* A scan beside which nothing runs.                                        *)

\* The tables only grow while a scan works, and what is in order stays so.
LEMMA WorkStep ==
  ASSUME TypeOK, NEW s \in Scans, NEW f \in Files, Undisturbed(s), NEW j,
         UNCHANGED <<disk, due, pc>>, pc[s] = "work",
         job'[s][f] = j, \A g \in Files \ {f} : job'[s][g] = job[s][g] /\ songs'[g] = songs[g],
         \A a \in Artists : artists[a] # None => artists'[a] = artists[a],
         albums \subseteq albums', misled \subseteq misled',
         InFlight(j) => Exact(j.mtime, f),
         j.step = "finished" => InOrder(f)'
  PROVE  Undisturbed(s)'
<1>1. \A t, g : Exact(t, g)' <=> Exact(t, g)
  BY DEF Exact
<1>2. \A g \in Files \ {f} : InOrder(g) => InOrder(g)'
  <2> SUFFICES ASSUME NEW g \in Files \ {f}, InOrder(g), disk[g] # None, g \notin misled'
               PROVE  songs[g] # None /\ songs[g].name = disk[g].artist
                      /\ artists'[songs[g].name] = songs[g].artist
                      /\ [id |-> songs[g].album, artist |-> songs[g].artist] \in albums'
    BY DEF InOrder, Right, Linked
  <2>1. songs[g] # None /\ songs[g] \in Rows
    BY RowFacts DEF InOrder
  <2>2. songs[g].name \in Artists /\ songs[g].artist # None
    BY <2>1, NoneAssumption DEF Rows
  <2>3. QED
    BY <2>1, <2>2 DEF InOrder, Right, Linked
<1>3. QED
  BY <1>1, <1>2 DEF Undisturbed

LEMMA FileJobAlone ==
  ASSUME SkipInv, NEW s \in Scans, NEW f \in Files, FileJob(s, f), ~JobFails(s, f), Undisturbed(s)
  PROVE  Undisturbed(s)'
<1> USE DEF SkipInv
<1> DEFINE j == job[s][f]
<1>0. job \in [Scans -> [Files -> Jobs]] /\ j \in Jobs /\ Finished \in Jobs /\ Finished.step = "finished"
  BY DEF TypeOK, Jobs, Finished
<1>1. CASE Stat(s, f)
  <2> DEFINE k == [step |-> IF mode[s] = "full" THEN "read" ELSE "lookup", mtime |-> disk[f].mtime]
  <2>1. disk[f].mtime \in 0..MaxTime /\ disk[f] # None
    BY <1>1, RowFacts DEF Stat, Versions
  <2>2. k \in Jobs /\ k.step \in {"lookup", "read"} /\ k.mtime = disk[f].mtime
    BY <2>1 DEF Jobs
  <2>3. Becomes(s, f, k) /\ UNCHANGED <<disk, songs, artists, albums, pc, due, misled>> /\ pc[s] = "work"
    BY <1>1 DEF Stat, Step, tables
  <2>4. Exact(k.mtime, f)
    BY <2>1, <2>2 DEF Exact
  <2> HIDE DEF k
  <2>5. job'[s][f] = k /\ \A t \in Scans, g \in Files : t # s \/ g # f => job'[t][g] = job[t][g]
    BY <1>0, <2>2, <2>3, BecomesFacts
  <2>6. QED
    BY <2>2, <2>3, <2>4, <2>5, WorkStep
<1>2. CASE Lookup(s, f)
  <2>1. j \in [step : {"lookup", "read"}, mtime : 0..MaxTime] /\ InFlight(j)
    BY <1>0, <1>2, JobFacts DEF Lookup, Step, InFlight
  <2> DEFINE k == [j EXCEPT !.step = "read"]
  <2>2. k \in Jobs /\ k.step = "read" /\ k.mtime = j.mtime
    BY <2>1 DEF Jobs
  <2>3. UNCHANGED <<disk, songs, artists, albums, pc, due, misled>> /\ pc[s] = "work"
    BY <1>2 DEF Lookup, Step, tables
  <2>4. Exact(j.mtime, f)
    BY <2>1, <2>3 DEF Undisturbed
  <2>5. CASE songs[f] # None /\ SameTime(songs[f].mtime, j.mtime)
    <3>1. Becomes(s, f, Finished)
      BY <1>2, <2>5 DEF Lookup
    <3>2. job'[s][f] = Finished /\ \A t \in Scans, g \in Files : t # s \/ g # f => job'[t][g] = job[t][g]
      BY <1>0, <3>1, BecomesFacts
    <3>3. j.mtime = disk[f].mtime
      BY <2>4 DEF Exact
    <3>4. InOrder(f)'
      BY <2>3, <2>5, <3>3 DEF SkippedIsRight, InOrder, Right, Linked
    <3>5. QED
      BY <1>0, <2>3, <3>2, <3>4, WorkStep DEF InFlight
  <2>6. CASE ~(songs[f] # None /\ SameTime(songs[f].mtime, j.mtime))
    <3>1. Becomes(s, f, k)
      BY <1>2, <2>6 DEF Lookup
    <3> HIDE DEF k
    <3>2. job'[s][f] = k /\ \A t \in Scans, g \in Files : t # s \/ g # f => job'[t][g] = job[t][g]
      BY <1>0, <2>2, <3>1, BecomesFacts
    <3>3. QED
      BY <2>2, <2>3, <2>4, <3>2, WorkStep
  <2>7. QED
    BY <2>5, <2>6
<1>3. CASE ReadTags(s, f)
  <2>1. j \in [step : {"lookup", "read"}, mtime : 0..MaxTime] /\ InFlight(j)
    BY <1>0, <1>3, JobFacts DEF ReadTags, Step, InFlight
  <2> DEFINE k == [step |-> "artist", mtime |-> j.mtime, name |-> disk[f].artist]
  <2>2. k \in Jobs /\ k.step = "artist" /\ k.mtime = j.mtime
    BY <1>3, <2>1, RowFacts DEF ReadTags, Versions, Jobs
  <2>3. Becomes(s, f, k) /\ UNCHANGED <<disk, songs, artists, albums, pc, due, misled>> /\ pc[s] = "work"
    BY <1>3 DEF ReadTags, Step, tables
  <2> HIDE DEF k
  <2>4. job'[s][f] = k /\ \A t \in Scans, g \in Files : t # s \/ g # f => job'[t][g] = job[t][g]
    BY <1>0, <2>2, <2>3, BecomesFacts
  <2>5. Exact(k.mtime, f)
    BY <2>1, <2>2, <2>3 DEF Undisturbed
  <2>6. QED
    BY <2>2, <2>3, <2>4, <2>5, WorkStep
<1>4. CASE UpsertArtist(s, f)
  <2>1. j \in [step : {"artist"}, mtime : 0..MaxTime, name : Artists] /\ InFlight(j)
    BY <1>0, <1>4, JobFacts DEF UpsertArtist, Step, InFlight
  <2>2. PICK i \in Ids :
          /\ artists[j.name] = None \/ UNCHANGED artists
          /\ \A a \in Artists \ {j.name} : artists'[a] = artists[a]
          /\ Becomes(s, f, [step |-> "album", mtime |-> j.mtime, name |-> j.name, artist |-> i])
          /\ misled \subseteq misled'
    BY <1>4, <2>1, UpsertArtistFacts
  <2> DEFINE k == [step |-> "album", mtime |-> j.mtime, name |-> j.name, artist |-> i]
  <2>3. k \in Jobs /\ k.step = "album" /\ k.mtime = j.mtime
    BY <2>1 DEF Jobs
  <2>4. Becomes(s, f, k) /\ UNCHANGED <<disk, songs, albums, pc, due>> /\ pc[s] = "work"
    BY <1>4, <2>2 DEF UpsertArtist, Step
  <2> HIDE DEF k
  <2>5. job'[s][f] = k /\ \A t \in Scans, g \in Files : t # s \/ g # f => job'[t][g] = job[t][g]
    BY <1>0, <2>3, <2>4, BecomesFacts
  <2>6. \A a \in Artists : artists[a] # None => artists'[a] = artists[a]
    BY <2>1, <2>2
  <2>7. Exact(k.mtime, f)
    BY <2>1, <2>3, <2>4 DEF Undisturbed
  <2>8. QED
    BY <2>2, <2>3, <2>4, <2>5, <2>6, <2>7, WorkStep
<1>5. CASE UpsertAlbum(s, f)
  <2>1. j \in [step : {"album"}, mtime : 0..MaxTime, name : Artists, artist : Ids] /\ InFlight(j)
    BY <1>0, <1>5, JobFacts DEF UpsertAlbum, Step, InFlight
  <2>2. PICK i \in Ids :
          /\ Becomes(s, f, [step |-> "song", mtime |-> j.mtime, name |-> j.name,
                            artist |-> j.artist, album |-> i])
          /\ albums \subseteq albums' /\ misled \subseteq misled'
    BY <1>5, <2>1, UpsertAlbumFacts
  <2> DEFINE k == [step |-> "song", mtime |-> j.mtime, name |-> j.name, artist |-> j.artist, album |-> i]
  <2>3. k \in Jobs /\ k.step = "song" /\ k.mtime = j.mtime
    BY <2>1 DEF Jobs
  <2>4. Becomes(s, f, k) /\ UNCHANGED <<disk, songs, artists, pc, due>> /\ pc[s] = "work"
    BY <1>5, <2>2 DEF UpsertAlbum, Step
  <2> HIDE DEF k
  <2>5. job'[s][f] = k /\ \A t \in Scans, g \in Files : t # s \/ g # f => job'[t][g] = job[t][g]
    BY <1>0, <2>3, <2>4, BecomesFacts
  <2>6. Exact(k.mtime, f)
    BY <2>1, <2>3, <2>4 DEF Undisturbed
  <2>7. QED
    BY <2>2, <2>3, <2>4, <2>5, <2>6, WorkStep
<1>6. CASE UpsertSong(s, f)
  <2>1. j \in [step : {"song"}, mtime : 0..MaxTime, name : Artists, artist : Ids, album : Ids] /\ InFlight(j)
    BY <1>0, <1>6, JobFacts DEF UpsertSong, Step, InFlight
  <2> DEFINE r == [name |-> j.name, artist |-> j.artist, album |-> j.album, mtime |-> j.mtime]
  <2>2. r # None /\ r.name = j.name /\ r.artist = j.artist /\ r.album = j.album
    <3>1. r \in Rows
      BY <2>1 DEF Rows
    <3>2. QED
      BY <3>1, NoneAssumption
  <2>3. songs' = [songs EXCEPT ![f] = r] /\ UNCHANGED <<disk, artists, albums, pc, due, misled>> /\ pc[s] = "work"
    BY <1>6 DEF UpsertSong, Step
  <2> HIDE DEF r
  <2>4. songs'[f] = r /\ \A g \in Files \ {f} : songs'[g] = songs[g]
    BY <2>3 DEF TypeOK
  <2>5. job'[s][f] = Finished /\ \A t \in Scans, g \in Files : t # s \/ g # f => job'[t][g] = job[t][g]
    BY <1>0, <1>6, BecomesFacts DEF UpsertSong
  <2>6. Exact(j.mtime, f) /\ j.step = "song"
    BY <2>1, <2>3 DEF Undisturbed
  <2>7. /\ j.name = disk[f].artist
        /\ f \notin misled => /\ artists[j.name] = j.artist
                              /\ [id |-> j.album, artist |-> j.artist] \in albums
    <3>1. Present(j.mtime, f)
      <4>1. j.mtime \in Nat
        BY <2>1, ClockAssumption
      <4>2. QED
        BY <2>6, <4>1 DEF Exact, Present, SameTime
    <3>2. QED
      BY <2>1, <3>1 DEF JobInv
  <2>8. InOrder(f)'
    BY <2>2, <2>3, <2>4, <2>7 DEF InOrder, Right, Linked
  <2>9. QED
    BY <1>0, <2>3, <2>4, <2>5, <2>8, WorkStep DEF InFlight
<1>7. CASE AlbumRefused(s, f)
  <2>1. j \in [step : {"album"}, mtime : 0..MaxTime, name : Artists, artist : Ids] /\ InFlight(j)
    BY <1>0, <1>7, JobFacts DEF AlbumRefused, Step, InFlight
  <2>2. /\ UNCHANGED <<disk, songs, artists, albums, pc, due, misled>> /\ pc[s] = "work"
        /\ ~HasArtist(j.artist)
    BY <1>7 DEF AlbumRefused, Step
  <2>3. job'[s][f] = Finished /\ \A t \in Scans, g \in Files : t # s \/ g # f => job'[t][g] = job[t][g]
    BY <1>0, <1>7, BecomesFacts DEF AlbumRefused
  <2>4. Exact(j.mtime, f) /\ j.step = "album" /\ j.mtime \in Nat /\ j.name \in Artists
    BY <2>1, <2>2, ClockAssumption DEF Undisturbed
  <2>5. Present(j.mtime, f)
    BY <2>4 DEF Exact, Present, SameTime
  <2>6. f \in misled
    BY <2>1, <2>2, <2>4, <2>5 DEF JobInv, HasArtist
  <2>7. InOrder(f)'
    BY <2>2, <2>6 DEF InOrder
  <2>8. QED
    BY <1>0, <2>2, <2>3, <2>7, WorkStep DEF InFlight
<1>8. QED
  BY <1>1, <1>2, <1>3, <1>4, <1>5, <1>6, <1>7 DEF FileJob

LEMMA AloneStep == SkipInv /\ AloneInv /\ [Next]_vars => AloneInv'
<1> SUFFICES ASSUME SkipInv, AloneInv, [Next]_vars, NEW s \in alone' PROVE Undisturbed(s)'
  BY DEF AloneInv
<1> USE DEF SkipInv
<1>0. TypeOK
  OBVIOUS
<1>1. CASE alone' = {}
  BY <1>1
<1>2. ASSUME NEW t \in Scans, NEW m \in {"incremental", "full"}, StartScan(t, m)
      PROVE  Undisturbed(s)'
  <2>1. s = t /\ disk' = disk
    BY <1>2 DEF StartScan
  <2>2. /\ pc'[s] = "work" /\ \A f \in Files : job'[s][f] = Waiting
        /\ due'[s] = {f \in Files : disk[f] # None}
    BY <1>0, <1>2, <2>1 DEF StartScan, TypeOK
  <2>3. QED
    BY <2>1, <2>2 DEF Undisturbed, InFlight, Waiting
<1>3. ASSUME NEW t \in Scans, NEW f \in Files, FileJob(t, f), alone' # {}
      PROVE  Undisturbed(s)'
  <2>1. alone' = alone \cap {t} /\ ~JobFails(t, f)
    BY <1>3 DEF FileJob, Stat, Lookup, ReadTags, UpsertArtist, UpsertAlbum,
                AlbumRefused, UpsertSong, JobFails, Step, Disturb, DisturbAll
  <2>2. s = t /\ Undisturbed(t)
    BY <2>1 DEF AloneInv
  <2>3. QED
    BY <1>3, <2>1, <2>2, FileJobAlone
<1>4. ASSUME NEW t \in Scans, EndWork(t)
      PROVE  Undisturbed(s)'
  <2>1. s = t /\ Undisturbed(t)
    BY <1>4 DEF EndWork, Disturb, AloneInv
  <2>2. /\ pc[t] = "work" /\ pc'[t] = "artists" /\ UNCHANGED <<disk, songs, artists, albums, misled>>
        /\ \A f \in due[t] : job[t][f].step = "finished" \/ disk[f] = None
    BY <1>0, <1>4 DEF EndWork, TypeOK, tables
  <2>3. \A f \in Files : InOrder(f)
    BY <2>1, <2>2 DEF Undisturbed, InOrder
  <2>4. \A f \in Files : InOrder(f)'
    BY <2>2, <2>3 DEF InOrder, Right, Linked
  <2>5. QED
    BY <2>1, <2>2, <2>4 DEF Undisturbed
<1>5. ASSUME NEW t \in Scans, DeleteArtistsWithNoSongs(t) \/ DeleteAlbumsWithNoSongs(t)
      PROVE  Undisturbed(s)'
  <2>1. s = t /\ Undisturbed(t)
    BY <1>5 DEF DeleteArtistsWithNoSongs, DeleteAlbumsWithNoSongs, Disturb, AloneInv
  <2>2. /\ pc[t] \in {"artists", "albums"} /\ pc'[t] \in {"albums", "done"}
        /\ UNCHANGED <<disk, songs, misled>>
    BY <1>0, <1>5 DEF DeleteArtistsWithNoSongs, DeleteAlbumsWithNoSongs, TypeOK
  <2>3. ASSUME NEW f \in Files
        PROVE  InOrder(f)'
    <3> SUFFICES ASSUME disk[f] # None, f \notin misled
                 PROVE  songs[f] # None /\ songs[f].name = disk[f].artist
                        /\ artists'[songs[f].name] = songs[f].artist
                        /\ [id |-> songs[f].album, artist |-> songs[f].artist] \in albums'
      BY <2>2 DEF InOrder, Right, Linked
    <3>1. songs[f] # None /\ Right(f)
      BY <2>1, <2>2 DEF Undisturbed, InOrder
    <3>2. songs[f].artist \in Used("artist") /\ songs[f].album \in Used("album")
      BY <3>1 DEF Used
    <3>3. songs[f].name \in Artists
      BY <1>0, <3>1, RowFacts DEF Rows
    <3>4. QED
      BY <1>5, <3>1, <3>2, <3>3 DEF Right, Linked, DeleteArtistsWithNoSongs, DeleteAlbumsWithNoSongs
  <2>4. QED
    BY <2>1, <2>2, <2>3 DEF Undisturbed
<1>6. CASE InsertElsewhere \/ UNCHANGED vars
  BY <1>6 DEF InsertElsewhere, vars, tables, scan, AloneInv, Undisturbed, InOrder, Right, Linked, Exact
<1>7. ASSUME NEW t \in Scans, CleanupFails(t) \/ CancelScan(t)
      PROVE  alone' = {}
  BY <1>7 DEF CleanupFails, CancelScan, DisturbAll
<1>8. (\E f \in Files : RemoveFile(f) \/ \E a \in Artists : WriteFile(f, a))
      \/ (\E e \in Editors : Editor(e)) => alone' = {}
  BY DEF RemoveFile, WriteFile, Editor, EditRead, EditFile, EditUpsert, EditGiveUp, DisturbAll
<1>9. QED
  BY <1>1, <1>2, <1>3, <1>4, <1>5, <1>6, <1>7, <1>8 DEF Next, Around, Scan

\* Artists and albums without a song, of which only cleanups are rid.
LEMMA OrphanStep == TypeOK /\ OrphanInv /\ [Next]_vars => OrphanInv'
<1> DEFINE Clean(s) ==
             /\ pc[s] \in {"albums", "done"} =>
                  \A a \in Artists : artists[a] # None => artists[a] \in Used("artist")
             /\ pc[s] = "done" => \A b \in albums : b.id \in Used("album")
<1> SUFFICES ASSUME TypeOK, OrphanInv, [Next]_vars, NEW s \in alone' PROVE Clean(s)'
  BY DEF OrphanInv
<1>0. \A t \in alone : Clean(t)
  BY DEF OrphanInv
<1>1. CASE alone' = {}
  BY <1>1
<1>2. ASSUME NEW t \in Scans, NEW m \in {"incremental", "full"}, StartScan(t, m)
      PROVE  pc'[s] = "work"
  BY <1>2 DEF StartScan, TypeOK
<1>3. ASSUME NEW t \in Scans, NEW f \in Files, FileJob(t, f), alone' # {}
      PROVE  pc'[s] = "work"
  BY <1>3 DEF FileJob, Stat, Lookup, ReadTags, UpsertArtist, UpsertAlbum,
              AlbumRefused, UpsertSong, JobFails, Step, Disturb, DisturbAll
<1>4. ASSUME NEW t \in Scans, EndWork(t)
      PROVE  pc'[s] = "artists"
  BY <1>4 DEF EndWork, Disturb, TypeOK
<1>5. ASSUME NEW t \in Scans, DeleteArtistsWithNoSongs(t)
      PROVE  Clean(s)'
  <2>1. s = t /\ pc'[s] = "albums" /\ songs' = songs
    BY <1>5 DEF DeleteArtistsWithNoSongs, Disturb, TypeOK
  <2>2. Used("artist")' = Used("artist")
    BY <2>1 DEF Used
  <2>3. \A a \in Artists : artists'[a] # None => artists'[a] \in Used("artist")
    BY <1>5 DEF DeleteArtistsWithNoSongs
  <2>4. QED
    BY <2>1, <2>2, <2>3
<1>6. ASSUME NEW t \in Scans, DeleteAlbumsWithNoSongs(t)
      PROVE  Clean(s)'
  <2>1. s = t /\ s \in alone /\ pc[s] = "albums" /\ UNCHANGED <<songs, artists>>
    BY <1>6 DEF DeleteAlbumsWithNoSongs, Disturb
  <2>2. Used("artist")' = Used("artist") /\ Used("album")' = Used("album")
    BY <2>1 DEF Used
  <2>3. \A b \in albums' : b.id \in Used("album")
    BY <1>6 DEF DeleteAlbumsWithNoSongs
  <2>4. QED
    BY <1>0, <2>1, <2>2, <2>3
<1>7. CASE InsertElsewhere \/ UNCHANGED vars
  <2>1. UNCHANGED <<songs, artists, albums, pc, alone>>
    BY <1>7 DEF InsertElsewhere, vars, tables, scan
  <2>2. Used("artist")' = Used("artist") /\ Used("album")' = Used("album")
    BY <2>1 DEF Used
  <2>3. QED
    BY <1>0, <2>1, <2>2
<1>8. ASSUME NEW t \in Scans, CleanupFails(t) \/ CancelScan(t)
      PROVE  alone' = {}
  BY <1>8 DEF CleanupFails, CancelScan, DisturbAll
<1>9. (\E f \in Files : RemoveFile(f) \/ \E a \in Artists : WriteFile(f, a))
      \/ (\E e \in Editors : Editor(e)) => alone' = {}
  BY DEF RemoveFile, WriteFile, Editor, EditRead, EditFile, EditUpsert, EditGiveUp, DisturbAll
<1>10. QED
  BY <1>1, <1>2, <1>3, <1>4, <1>5, <1>6, <1>7, <1>8, <1>9 DEF Next, Around, Scan

-----------------------------------------------------------------------------
(* Theorems.                                                                *)

\* An empty database and files as they are.
LEMMA InitInv == Init => SkipInv /\ AloneInv /\ OrphanInv
<1> SUFFICES ASSUME Init PROVE SkipInv /\ AloneInv /\ OrphanInv
  OBVIOUS
<1> USE DEF Init
<1>1. clock = 0 /\ 0 \in 0..MaxTime
  BY ClockAssumption
<1>2. disk \in [Files -> Versions \cup {None}]
  BY <1>1 DEF Versions
<1>3. \A f \in Files : disk[f] # None => disk[f].mtime = 0
  OBVIOUS
<1>4. \A s \in Scans, f \in Files : job[s][f] = Waiting
  OBVIOUS
<1>5. job \in [Scans -> [Files -> Jobs]]
  BY DEF Jobs
<1>6. TypeOK
  <2>1. 0 \in 0..MaxId
    BY IdAssumption
  <2>2. QED
    BY <1>1, <1>2, <1>5, <2>1 DEF TypeOK
<1>7. TimesPast /\ JobInv
  BY <1>1, <1>3, <1>4 DEF TimesPast, JobInv, InFlight, Waiting
<1>8. EditorInv /\ SkippedIsRight
  BY DEF EditorInv, Editing, SkippedIsRight
<1>9. AloneInv /\ OrphanInv
  BY DEF AloneInv, OrphanInv
<1>10. QED
  BY <1>6, <1>7, <1>8, <1>9 DEF SkipInv

\* The types, with an artist to each album, whatever runs at the same time.
THEOREM TypeCorrect == Spec => []TypeOK
<1>1. Init => TypeOK
  BY InitInv DEF SkipInv
<1>2. QED
  BY <1>1, TypeStep, PTL DEF Spec

\* A scan beside which nothing ran leaves no artist and no album without a song,
\* whatever ran before it.
THEOREM NoOrphansAlways == Spec => []NoOrphans
<1>1. Init => TypeOK /\ OrphanInv
  BY InitInv DEF SkipInv
<1>2. TypeOK /\ OrphanInv => NoOrphans
  BY DEF TypeOK, OrphanInv, NoOrphans
<1>3. QED
  BY <1>1, <1>2, TypeStep, OrphanStep, PTL DEF Spec

\* What an incremental scan skips has the tags of its file, and is linked right
\* unless an upsert reported a wrong id for it, for any number of scans after each
\* other and of editors of different songs.
THEOREM SkippedIsRightAlways ==
  ASSUME Spaced
  PROVE  Spec /\ []NoClash => []SkippedIsRight
<1>1. Init => SkipInv
  BY InitInv
<1>2. SkipInv /\ NoClash /\ [Next]_vars => SkipInv'
  BY Spaced, SkipStep
<1>3. SkipInv => SkippedIsRight
  BY DEF SkipInv
<1>4. QED
  BY <1>1, <1>2, <1>3, PTL DEF Spec

\* A scan beside which nothing runs repairs all that went wrong before, and a file
\* it leaves without its song, or with a wrong link, is one it got a wrong id for.
THEOREM ScanRepairsAlways ==
  ASSUME Spaced
  PROVE  Spec /\ []NoClash => []ScanRepairs
<1>1. Init => SkipInv /\ AloneInv
  BY InitInv
<1>2. SkipInv /\ NoClash /\ [Next]_vars => SkipInv'
  BY Spaced, SkipStep
<1>3. SkipInv /\ AloneInv => ScanRepairs
  BY DEF SkipInv, AloneInv, Undisturbed, InOrder, ScanRepairs
<1>4. QED
  BY <1>1, <1>2, <1>3, AloneStep, PTL DEF Spec
=============================================================================
