---------------------------- MODULE MountStream ----------------------------
(***************************************************************************)
(* The goroutine of one Icecast mount (service/icecast/mount.go with the   *)
(* connection of source.go): builds a shuffled queue, connects, streams    *)
(* track after track, reconnects after a failure, ends when cancelled.     *)
(*                                                                         *)
(* Songs, files, the server row and the peer change under it.  A shuffled  *)
(* queue is a set not yet played plus the track at queuePos: the order is  *)
(* only chosen when it matters.                                            *)
(***************************************************************************)
EXTENDS Naturals

CONSTANTS
  Songs,     \* song ids
  Troubles,  \* what may go wrong around the goroutine in a run
  None

AllTroubles == {"store",    \* a query fails
                "peer",     \* the peer refuses, or drops the connection
                "files",    \* a file disappears (its row may stay)
                "ffmpeg",   \* ffmpeg cannot be started for a file that is there
                "library",  \* songs are added and removed
                "empty",    \* ... down to the last one
                "server"}   \* the server row is deleted

ASSUME TroublesAssumption == Troubles \subseteq AllTroubles
ASSUME NoSongAssumption == None \notin Songs

VARIABLES
  library,    \* rows buildQueue and GetSong find (ids are never reused)
  readable,   \* songs whose file is there
  hasServer,  \* whether the icecast_servers row is there
  cancelled,  \* ctx.Err() # nil
  pc,
  todo,       \* queue[queuePos+1 ..]
  cur,        \* queue[queuePos], None past the end
  backoff,    \* seconds
  conns,      \* TCP connections open
  failed,     \* streamErr, or the error of a failed attempt, is set
  status,     \* the status last written
  broken,     \* history: the track on air when the connection was lost, until it
              \* is transcoded again or given up because its row cannot be read
  failures    \* history: failed attempts since a track was played to its
              \* end, counted up to 6

world  == <<library, readable, hasServer>>
queue  == <<todo, cur>>
vars   == <<world, cancelled, pc, queue, backoff, conns, failed, status, broken, failures>>

Session == {"connected", "songs", "transcode", "send", "close"}
Ended   == {"done", "panic"}
Delays  == {1, 2, 4, 8, 16, 30}

TypeOK ==
  /\ library \subseteq Songs /\ readable \subseteq Songs
  /\ hasServer \in BOOLEAN /\ cancelled \in BOOLEAN /\ failed \in BOOLEAN
  /\ pc \in Session \cup Ended \cup
            {"begin", "loop", "get", "server", "connect", "failed", "sleep"}
  /\ todo \subseteq Songs /\ cur \in Songs \cup {None}
  /\ backoff \in Delays
  /\ conns \in Nat
  /\ status \in {"disconnected", "connecting", "connected", "error"}
  /\ broken \in Songs \cup {None}
  /\ failures \in 0..6

Init ==
  /\ library \in SUBSET Songs /\ readable = library
  /\ hasServer = TRUE /\ cancelled = FALSE /\ failed = FALSE
  /\ pc = "begin"
  /\ todo = {} /\ cur = None
  /\ backoff = 1
  /\ conns = 0
  /\ status \in {"disconnected", "error"}
  /\ broken = None /\ failures = 0

-----------------------------------------------------------------------------
(* Around the goroutine.                                                   *)

quiet == UNCHANGED <<pc, queue, backoff, conns, failed, status, broken, failures>>

Cancel ==
  /\ cancelled' = TRUE
  /\ quiet /\ UNCHANGED world

AddSong(s) ==
  /\ "library" \in Troubles
  /\ s \notin library
  /\ library' = library \cup {s} /\ readable' = readable \cup {s}
  /\ quiet /\ UNCHANGED <<hasServer, cancelled>>

RemoveSong(s) ==
  /\ "library" \in Troubles
  /\ s \in library
  /\ library # {s} \/ "empty" \in Troubles
  /\ library' = library \ {s}
  /\ quiet /\ UNCHANGED <<readable, hasServer, cancelled>>

LoseFile(s) ==
  /\ "files" \in Troubles
  /\ readable' = readable \ {s}
  /\ quiet /\ UNCHANGED <<library, hasServer, cancelled>>

DeleteServer ==
  /\ "server" \in Troubles
  /\ hasServer' = FALSE
  /\ quiet /\ UNCHANGED <<library, readable, cancelled>>

-----------------------------------------------------------------------------
\* Mutant: nextBackoff without its ceiling.
nextBackoff_Uncapped(d) == 2 * d

nextBackoff(d) == IF 2 * d > 30 THEN 30 ELSE 2 * d

Go(step) == pc' = step
KeepSession == UNCHANGED <<backoff, conns, failed, broken, failures>>

\* A query fails: the store does, or the cancelled context it is given.
QueryFails == cancelled \/ "store" \in Troubles

Finish(s) == Go("done") /\ status' = s

\* queuePos++
Advance ==
  IF todo = {} THEN cur' = None /\ UNCHANGED todo
               ELSE /\ cur' \in todo
                    /\ todo' = todo \ {cur'}

\* buildQueue found songs: queuePos = 0.
Requeue ==
  /\ library # {}
  /\ cur' \in library
  /\ todo' = library \ {cur'}

\* No ffmpeg, no queue or no songs: the goroutine ends at once.
BeginFails ==
  /\ pc = "begin"
  /\ Finish("error")
  /\ KeepSession /\ UNCHANGED <<world, cancelled, queue>>

Begin ==
  /\ pc = "begin" /\ ~cancelled
  /\ Requeue
  /\ Go("loop")
  /\ KeepSession /\ UNCHANGED <<world, cancelled, status>>

\* Mutant: the cancelled loop breaks out of a select and goes on looping.
LoopCancelled_Breaks ==
  /\ pc = "loop" /\ cancelled
  /\ status' = "disconnected"
  /\ KeepSession /\ UNCHANGED <<world, cancelled, pc, queue>>

\* The head of the loop: ctx, then the end of the queue.
LoopCancelled ==
  /\ pc = "loop" /\ cancelled
  /\ Finish("disconnected")
  /\ KeepSession /\ UNCHANGED <<world, cancelled, queue>>

LoopTrack ==
  /\ pc = "loop" /\ ~cancelled
  /\ cur # None
  /\ Go("get")
  /\ KeepSession /\ UNCHANGED <<world, cancelled, queue, status>>

LoopRebuild ==
  /\ pc = "loop" /\ ~cancelled
  /\ cur = None
  /\ Requeue
  /\ Go("get")
  /\ KeepSession /\ UNCHANGED <<world, cancelled, status>>

\* A cancel between the test of ctx and the query fails the query.
RebuildFails ==
  /\ pc = "loop"
  /\ cur = None
  /\ QueryFails
  /\ Finish("error")
  /\ KeepSession /\ UNCHANGED <<world, cancelled, queue>>

\* The rebuilt queue is not tested for being empty: queue[0] is out of range.
RebuildEmpty ==
  /\ pc = "loop" /\ ~cancelled
  /\ cur = None /\ library = {}
  /\ Go("panic")
  /\ KeepSession /\ UNCHANGED <<world, cancelled, queue, status>>

GetSong ==
  /\ pc = "get" /\ ~cancelled
  /\ cur \in library
  /\ Go("server")
  /\ status' = "connecting"
  /\ KeepSession /\ UNCHANGED <<world, cancelled, queue>>

\* Mutant: a failed lookup leaves queuePos where it is.
GetSongSkips_Stays ==
  /\ pc = "get"
  /\ cur \notin library \/ QueryFails
  /\ Go("loop")
  /\ KeepSession /\ UNCHANGED <<world, cancelled, queue, status>>

GetSongSkips ==
  /\ pc = "get"
  /\ cur \notin library \/ QueryFails
  /\ Advance
  /\ Go("loop")
  /\ broken' = None
  /\ UNCHANGED <<world, cancelled, status, backoff, conns, failed, failures>>

GetServer ==
  /\ pc = "server" /\ ~cancelled
  /\ hasServer
  /\ Go("connect")
  /\ KeepSession /\ UNCHANGED <<world, cancelled, queue, status>>

\* An attempt fails: the error is recorded, then the backoff slept.
Fail == /\ failed' = TRUE
        /\ failures' = IF failures < 6 THEN failures + 1 ELSE 6

NoServer ==
  /\ pc = "server"
  /\ ~hasServer \/ QueryFails
  /\ Go("failed") /\ Fail
  /\ UNCHANGED <<world, cancelled, queue, backoff, conns, status, broken>>

\* Mutant: a successful connect does not reset the backoff.
Connect_KeepBackoff ==
  /\ pc = "connect"
  /\ Go("connected")
  /\ conns' = conns + 1
  /\ failed' = FALSE
  /\ UNCHANGED <<world, cancelled, queue, backoff, status, broken, failures>>

\* Connect blocks until the peer has accepted, refused or closed.
Connect ==
  /\ pc = "connect"
  /\ Go("connected")
  /\ conns' = conns + 1
  /\ backoff' = 1
  /\ failed' = FALSE
  /\ UNCHANGED <<world, cancelled, queue, status, broken, failures>>

ConnectFails ==
  /\ pc = "connect"
  /\ "peer" \in Troubles
  /\ Go("failed") /\ Fail
  /\ UNCHANGED <<world, cancelled, queue, backoff, conns, status, broken>>

Connected ==
  /\ pc = "connected"
  /\ Go("songs")
  /\ status' = "connected"
  /\ KeepSession /\ UNCHANGED <<world, cancelled, queue>>

-----------------------------------------------------------------------------
(* streamSongs and transcodeAndSend.                                       *)

SongsEnd ==
  /\ pc = "songs"
  /\ cancelled \/ cur = None
  /\ Go("close")
  /\ KeepSession /\ UNCHANGED <<world, cancelled, queue, status>>

NextSong ==
  /\ pc = "songs" /\ ~cancelled
  /\ cur \in library
  /\ Go("transcode")
  /\ status' = "connected"
  /\ KeepSession /\ UNCHANGED <<world, cancelled, queue>>

NextSongSkips ==
  /\ pc = "songs"
  /\ cur # None
  /\ cur \notin library \/ QueryFails
  /\ Advance
  /\ broken' = None
  /\ UNCHANGED <<world, cancelled, pc, backoff, conns, failed, status, failures>>

Transcode ==
  /\ pc = "transcode" /\ ~cancelled
  /\ cur \in readable
  /\ Go("send")
  /\ broken' = None
  /\ UNCHANGED <<world, cancelled, queue, backoff, conns, failed, status, failures>>

\* The input is not accessible, or ffmpeg does not start: always so for a
\* cancelled ctx.
TranscodeFails ==
  /\ pc = "transcode"
  /\ cur \notin readable \/ cancelled \/ "ffmpeg" \in Troubles
  /\ Go("close") /\ Fail
  /\ UNCHANGED <<world, cancelled, queue, backoff, conns, status, broken>>

\* EOF or a read error of ffmpeg's output, which a cancelled ctx also causes.
TrackEnds ==
  /\ pc = "send"
  /\ Advance
  /\ Go("songs")
  /\ failures' = 0
  /\ UNCHANGED <<world, cancelled, backoff, conns, failed, status, broken>>

\* Mutant: a lost connection also moves on to the next track.
WriteFails_Advancing ==
  /\ pc = "send"
  /\ "peer" \in Troubles
  /\ Advance
  /\ Go("close") /\ Fail
  /\ broken' = cur
  /\ UNCHANGED <<world, cancelled, backoff, conns, status>>

WriteFails ==
  /\ pc = "send"
  /\ "peer" \in Troubles
  /\ Go("close") /\ Fail
  /\ broken' = cur
  /\ UNCHANGED <<world, cancelled, queue, backoff, conns, status>>

\* Mutant: the connection is closed after the context has been tested.
CloseCancelled_Open ==
  /\ pc = "close" /\ cancelled
  /\ Finish("disconnected")
  /\ UNCHANGED <<world, cancelled, queue, conns, backoff, failed, broken, failures>>

\* Mutant: a session that was cancelled ends without recording it.
CloseCancelled_Silent ==
  /\ pc = "close" /\ cancelled
  /\ conns' = conns - 1
  /\ Go("done")
  /\ UNCHANGED <<world, cancelled, queue, backoff, failed, status, broken, failures>>

CloseCancelled ==
  /\ pc = "close" /\ cancelled
  /\ conns' = conns - 1
  /\ Finish("disconnected")
  /\ UNCHANGED <<world, cancelled, queue, backoff, failed, broken, failures>>

Close ==
  /\ pc = "close" /\ ~cancelled
  /\ conns' = conns - 1
  /\ Go(IF failed THEN "failed" ELSE "loop")
  /\ UNCHANGED <<world, cancelled, queue, backoff, failed, status, broken, failures>>

-----------------------------------------------------------------------------
(* After a failure: the status, then sleepWithContext.                     *)

ReportError ==
  /\ pc = "failed"
  /\ Go("sleep")
  /\ status' = "error"
  /\ KeepSession /\ UNCHANGED <<world, cancelled, queue>>

SleepEnds ==
  /\ pc = "sleep"
  /\ Go("loop")
  /\ backoff' = nextBackoff(backoff)
  /\ failed' = FALSE
  /\ UNCHANGED <<world, cancelled, queue, conns, status, broken, failures>>

SleepCancelled ==
  /\ pc = "sleep" /\ cancelled
  /\ Finish("disconnected")
  /\ KeepSession /\ UNCHANGED <<world, cancelled, queue>>

-----------------------------------------------------------------------------
Around ==
  \/ Cancel \/ DeleteServer
  \/ \E s \in Songs : AddSong(s) \/ RemoveSong(s) \/ LoseFile(s)

\* Steps that only the peer or ffmpeg can make happen.
Answered == Connect \/ ConnectFails \/ TrackEnds \/ WriteFails

Local ==
  \/ BeginFails \/ Begin
  \/ LoopCancelled \/ LoopTrack \/ LoopRebuild \/ RebuildFails \/ RebuildEmpty
  \/ GetSong \/ GetSongSkips \/ GetServer \/ NoServer \/ Connected
  \/ SongsEnd \/ NextSong \/ NextSongSkips \/ Transcode \/ TranscodeFails
  \/ CloseCancelled \/ Close \/ ReportError \/ SleepEnds \/ SleepCancelled

Next == Around \/ Answered \/ Local

Spec == Init /\ [][Next]_vars

\* The goroutine keeps running, ffmpeg ends and the peer answers in the end.
FairSpec == Spec /\ WF_vars(Local) /\ WF_vars(Answered)

\* No trouble but a missing file or server is permanent: again and again the server
\* row is found, the peer accepts, ffmpeg starts on a file that is there, and a
\* track gets through.
GoodPeerSpec == FairSpec /\ SF_vars(GetServer) /\ SF_vars(Connect)
                         /\ SF_vars(Transcode) /\ SF_vars(TrackEnds)

-----------------------------------------------------------------------------
\* Every way out of a session closes its connection, once: a cancelled or
\* failing mount leaves no socket behind on which the peer still sees a source.
NoLeak == conns = IF pc \in Session THEN 1 ELSE 0

\* "If the stream reconnects mid-track, it resumes from the beginning of the
\* current track" (IDEA.md, Resume behavior): the next track transcoded after a
\* lost connection is the one it was lost in, through any number of failed
\* attempts, unless its row is gone or the query for it failed: then it is skipped.
ResumesTrack == pc = "transcode" /\ broken # None => cur = broken

\* 1s, 2s, 4s, 8s, 16s, then 30s: the wait after the n-th failure in a row.
Delay(n) == <<1, 2, 4, 8, 16, 30>>[n]

\* A mount never waits longer than its failures in a row justify: what went
\* wrong before the last track that played does not slow down a new attempt.
BackoffForgets == pc = "sleep" => backoff <= Delay(failures)

\* A cancelled goroutine ends, wherever the cancel met it.
CancelReturns == cancelled ~> pc \in Ended

\* The source of a mount is its whole scope: every song in it comes to its turn,
\* through reconnections, skipped songs and rebuilt queues, unless the queue comes
\* to a track whose file is gone, which is tried again for ever, or the server row is.
Barred == cur \in Songs \ readable \/ ~hasServer
EverySongGetsATurn ==
  \A s \in Songs : s \in library ~> (cur = s \/ s \notin library \/ pc \in Ended \/ Barred)

-----------------------------------------------------------------------------
(* The manager's view: IcecastManager models a goroutine by Report, Block,  *)
(* PeerAnswers and Return.                                                  *)

Life == CASE pc = "panic" -> "unused"
          [] pc = "done" -> "returned"
          [] pc \in {"connect", "send"} -> "blocked"
          [] OTHER -> "running"
Up == pc # "panic"

Manager == INSTANCE IcecastManager WITH
  Mounts <- {"m"}, Servers <- {"s"}, ServerOf <- [m \in {"m"} |-> "s"],
  Handles <- {"h"}, Requests <- {}, Ops <- {}, Faults <- {"crash"}, None <- None,
  row <- [m \in {"m"} |-> "enabled"],
  status <- [m \in {"m"} |-> status], stale <- {},
  mounts <- [m \in {"m"} |-> IF Up THEN "h" ELSE None],
  hstate <- [h \in {"h"} |-> Life],
  hmount <- [h \in {"h"} |-> IF Up THEN "m" ELSE None],
  managed <- {},
  cancelled <- IF cancelled /\ Up THEN {"h"} ELSE {},
  pc <- <<>>, target <- <<>>, flag <- <<>>, waiting <- <<>>,
  phase <- IF Up THEN "up" ELSE "down",
  stopSet <- {}, stopping <- None

\* Every step is one the manager's model allows its goroutines (or the cancel,
\* or the crash of the process a panic is): in particular a final status is the
\* last thing written, and "disconnected" is written only after a cancel.
ManagerView ==
  [][\/ Manager!Goroutine("h") \/ Manager!Crash
     \/ Manager!Cancel({"h"}) /\ UNCHANGED <<Life, status>>]_<<Life, status, cancelled /\ Up>>
=============================================================================
