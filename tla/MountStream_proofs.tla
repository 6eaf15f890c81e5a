------------------------- MODULE MountStream_proofs -------------------------
(***************************************************************************)
(* For any songs and any troubles: a mount closes each connection it       *)
(* opens, resumes the track a connection was lost in, waits no longer than *)
(* its last failures justify, and its status is the one the manager's      *)
(* model expects of its goroutines.                                        *)
(***************************************************************************)
EXTENDS MountStream, TLAPS

\* The track a connection was lost in is still at queuePos, and none is on record
\* while a track is sent.
ResumeInv ==
  /\ broken # None => cur = broken
  /\ pc \in {"begin", "send"} => broken = None

\* streamErr is set by what ends a session, and by nothing in it.
SessionInv ==
  /\ pc \in Session \ {"close"} => ~failed
  /\ pc = "close" /\ failed => failures > 0
  /\ pc \in {"failed", "sleep"} => failures > 0

\* The backoff starts at one second with every session; before the next wait it is
\* what that wait may be.
BackoffInv ==
  /\ pc \in Session => backoff = 1
  /\ pc \in {"failed", "sleep"} => backoff <= Delay(failures)
  /\ pc \in {"begin", "loop", "get", "server", "connect"} =>
       backoff <= Delay(IF failures < 6 THEN failures + 1 ELSE 6)

IInv == TypeOK /\ NoLeak /\ ResumeInv /\ SessionInv /\ BackoffInv
-----------------------------------------------------------------------------
\* What goes on around the goroutine leaves its own state alone.
LEMMA AroundFacts ==
  Around => quiet /\ (library \subseteq Songs /\ readable \subseteq Songs /\ hasServer \in BOOLEAN
                       => library' \subseteq Songs /\ readable' \subseteq Songs /\ hasServer' \in BOOLEAN)
                  /\ (cancelled \in BOOLEAN => cancelled' \in BOOLEAN)
BY DEF Around, Cancel, AddSong, RemoveSong, LoseFile, DeleteServer, world

\* The queue holds songs, and moving on in it takes one of them.
LEMMA QueueFacts ==
  ASSUME library \subseteq Songs, todo \subseteq Songs, cur \in Songs \cup {None},
         Advance \/ Requeue \/ UNCHANGED queue
  PROVE  todo' \subseteq Songs /\ cur' \in Songs \cup {None}
BY DEF Advance, Requeue, queue

\* The next delay is a delay.
LEMMA DelayFacts ==
  /\ \A d \in Delays : nextBackoff(d) \in Delays
  /\ \A n \in 1..6 : Delay(n) \in Delays
  /\ Delay(1) = 1
  /\ \A n \in 1..6, d \in Delays :
       d <= Delay(n) => nextBackoff(d) <= Delay(IF n < 6 THEN n + 1 ELSE 6)
<1>1. /\ Delay(1) = 1 /\ Delay(2) = 2 /\ Delay(3) = 4
      /\ Delay(4) = 8 /\ Delay(5) = 16 /\ Delay(6) = 30
  BY DEF Delay
<1>2. /\ nextBackoff(1) = 2 /\ nextBackoff(2) = 4 /\ nextBackoff(4) = 8
      /\ nextBackoff(8) = 16 /\ nextBackoff(16) = 30 /\ nextBackoff(30) = 30
  BY DEF nextBackoff
<1>3. \A n \in 1..6 : n = 1 \/ n = 2 \/ n = 3 \/ n = 4 \/ n = 5 \/ n = 6
  OBVIOUS
<1>4. \A n \in 1..6 : Delay(n) \in Delays
  BY <1>1, <1>3 DEF Delays
<1>5. \A d \in Delays : nextBackoff(d) \in Delays
  BY <1>2 DEF Delays
<1>6. ASSUME NEW n \in 1..6, NEW d \in Delays, d <= Delay(n)
      PROVE  nextBackoff(d) <= Delay(IF n < 6 THEN n + 1 ELSE 6)
  <2>1. CASE n = 1
    BY <1>1, <1>2, <1>6, <2>1 DEF Delays
  <2>2. CASE n = 2
    BY <1>1, <1>2, <1>6, <2>2 DEF Delays
  <2>3. CASE n = 3
    BY <1>1, <1>2, <1>6, <2>3 DEF Delays
  <2>4. CASE n = 4
    BY <1>1, <1>2, <1>6, <2>4 DEF Delays
  <2>5. CASE n = 5 \/ n = 6
    BY <1>1, <1>2, <2>5 DEF Delays
  <2>6. QED
    BY <1>3, <2>1, <2>2, <2>3, <2>4, <2>5
<1>7. QED
  BY <1>1, <1>4, <1>5, <1>6

\* The steps inside an attempt that change neither the connection nor what is on
\* record of a failure.
Minor ==
  \/ BeginFails \/ Begin \/ LoopCancelled \/ LoopTrack \/ LoopRebuild \/ RebuildFails
  \/ RebuildEmpty \/ GetSong \/ GetServer \/ Connected \/ SongsEnd \/ NextSong
  \/ ReportError \/ SleepCancelled

Skips == GetSongSkips \/ NextSongSkips

\* Where minor steps lead: never into a session or out of one.
LEMMA MinorFacts ==
  ASSUME TypeOK, Minor
  PROVE  /\ UNCHANGED <<world, cancelled, backoff, conns, failed, broken, failures>>
         /\ pc \in Session <=> pc' \in Session
         /\ pc' \in Session \cup Ended \cup {"loop", "get", "server", "connect", "sleep"}
         /\ pc' # "send" /\ pc # "close"
         /\ pc' = "close" => pc \in Session \ {"close"}
         /\ pc' = "sleep" => pc = "failed"
         /\ pc' \in {"loop", "get", "server", "connect"} =>
              pc \in {"begin", "loop", "get", "server"}
         /\ status' \in {"disconnected", "connecting", "connected", "error"}
         /\ Requeue \/ UNCHANGED queue
         /\ ~(UNCHANGED queue) => pc = "begin" \/ cur = None
<1> USE DEF KeepSession, Go, Finish, Session, Ended, TypeOK
<1>1. CASE BeginFails \/ LoopCancelled \/ RebuildFails \/ RebuildEmpty \/ SleepCancelled
  BY <1>1 DEF BeginFails, LoopCancelled, RebuildFails, RebuildEmpty, SleepCancelled
<1>2. CASE Begin \/ LoopRebuild
  BY <1>2 DEF Begin, LoopRebuild
<1>3. CASE LoopTrack \/ GetSong \/ GetServer \/ ReportError
  BY <1>3 DEF LoopTrack, GetSong, GetServer, ReportError
<1>4. CASE Connected \/ SongsEnd \/ NextSong
  BY <1>4 DEF Connected, SongsEnd, NextSong
<1>5. QED
  BY <1>1, <1>2, <1>3, <1>4 DEF Minor

\* Every step is one of these.
LEMMA StepCases ==
  ASSUME [Next]_vars
  PROVE  \/ Around \/ Minor \/ Skips \/ NoServer \/ Connect \/ ConnectFails \/ TrackEnds
         \/ WriteFails \/ Transcode \/ TranscodeFails \/ CloseCancelled \/ Close \/ SleepEnds
         \/ UNCHANGED vars
BY DEF Next, Answered, Local, Minor, Skips

\* A connection is opened by Connect only, and closed at the end of its session.
LEMMA LeakStep == IInv /\ [Next]_vars => NoLeak'
<1> SUFFICES ASSUME IInv, [Next]_vars PROVE NoLeak'
  OBVIOUS
<1> USE DEF IInv
<1>1. CASE Around
  BY <1>1, AroundFacts DEF quiet, NoLeak
<1>2. CASE Minor
  BY <1>2, MinorFacts DEF NoLeak
<1>3. CASE Skips
  BY <1>3 DEF Skips, GetSongSkips, NextSongSkips, Go, Finish, Session, NoLeak
<1>4. CASE NoServer
  BY <1>4 DEF NoServer, Go, Finish, Session, NoLeak
<1>5. CASE Connect
  BY <1>5 DEF Connect, Go, Finish, Session, NoLeak
<1>6. CASE ConnectFails
  BY <1>6 DEF ConnectFails, Go, Finish, Session, NoLeak
<1>7. CASE TrackEnds
  BY <1>7 DEF TrackEnds, Go, Finish, Session, NoLeak
<1>8. CASE WriteFails
  BY <1>8 DEF WriteFails, Go, Finish, Session, NoLeak
<1>9. CASE Transcode
  BY <1>9 DEF Transcode, Go, Finish, Session, NoLeak
<1>10. CASE TranscodeFails
  BY <1>10 DEF TranscodeFails, Go, Finish, Session, NoLeak
<1>11. CASE CloseCancelled
  BY <1>11 DEF CloseCancelled, Go, Finish, Session, NoLeak
<1>12. CASE Close
  BY <1>12 DEF Close, Go, Finish, Session, NoLeak
<1>13. CASE SleepEnds
  BY <1>13 DEF SleepEnds, Go, Finish, Session, NoLeak
<1>14. CASE UNCHANGED vars
  BY <1>14 DEF vars, NoLeak
<1>15. QED
  BY StepCases, <1>1, <1>2, <1>3, <1>4, <1>5, <1>6, <1>7, <1>8, <1>9, <1>10, <1>11, <1>12, <1>13, <1>14

\* Every step keeps the types; a session is closed once, so conns stays a number.
LEMMA TypeStep == IInv /\ [Next]_vars => TypeOK'
<1> SUFFICES ASSUME IInv, [Next]_vars PROVE TypeOK'
  OBVIOUS
<1> USE DEF IInv
<1>1. CASE Around
  BY <1>1, AroundFacts DEF TypeOK, quiet, queue
<1>2. CASE Minor
  <2>1. todo' \subseteq Songs /\ cur' \in Songs \cup {None}
    BY <1>2, MinorFacts, QueueFacts DEF TypeOK
  <2>2. QED
    BY <1>2, <2>1, MinorFacts DEF TypeOK, world
<1>3. CASE Skips
  <2>1. todo' \subseteq Songs /\ cur' \in Songs \cup {None}
    BY <1>3, QueueFacts DEF Skips, GetSongSkips, NextSongSkips, queue, TypeOK
  <2>2. QED
    BY <1>3, <2>1 DEF Skips, GetSongSkips, NextSongSkips, Go, Finish, Fail, KeepSession, world, Session, TypeOK
<1>4. CASE NoServer
  <2>1. todo' \subseteq Songs /\ cur' \in Songs \cup {None}
    BY <1>4, QueueFacts DEF NoServer, queue, TypeOK
  <2>2. QED
    BY <1>4, <2>1 DEF NoServer, Go, Finish, Fail, KeepSession, world, Session, TypeOK
<1>5. CASE Connect
  <2>1. todo' \subseteq Songs /\ cur' \in Songs \cup {None}
    BY <1>5, QueueFacts DEF Connect, queue, TypeOK
  <2>2. conns' \in Nat
    BY <1>5 DEF Connect, Session, NoLeak, TypeOK
  <2>3. QED
    BY <1>5, <2>1, <2>2 DEF Connect, Go, Finish, Fail, KeepSession, world, Session, Ended, Delays, TypeOK
<1>6. CASE ConnectFails
  <2>1. todo' \subseteq Songs /\ cur' \in Songs \cup {None}
    BY <1>6, QueueFacts DEF ConnectFails, queue, TypeOK
  <2>2. QED
    BY <1>6, <2>1 DEF ConnectFails, Go, Finish, Fail, KeepSession, world, Session, TypeOK
<1>7. CASE TrackEnds
  <2>1. todo' \subseteq Songs /\ cur' \in Songs \cup {None}
    BY <1>7, QueueFacts DEF TrackEnds, queue, TypeOK
  <2>2. QED
    BY <1>7, <2>1 DEF TrackEnds, Go, Finish, Fail, KeepSession, world, Session, TypeOK
<1>8. CASE WriteFails
  <2>1. todo' \subseteq Songs /\ cur' \in Songs \cup {None}
    BY <1>8, QueueFacts DEF WriteFails, queue, TypeOK
  <2>2. QED
    BY <1>8, <2>1 DEF WriteFails, Go, Finish, Fail, KeepSession, world, Session, TypeOK
<1>9. CASE Transcode
  <2>1. todo' \subseteq Songs /\ cur' \in Songs \cup {None}
    BY <1>9, QueueFacts DEF Transcode, queue, TypeOK
  <2>2. QED
    BY <1>9, <2>1 DEF Transcode, Go, Finish, Fail, KeepSession, world, Session, TypeOK
<1>10. CASE TranscodeFails
  <2>1. todo' \subseteq Songs /\ cur' \in Songs \cup {None}
    BY <1>10, QueueFacts DEF TranscodeFails, queue, TypeOK
  <2>2. QED
    BY <1>10, <2>1 DEF TranscodeFails, Go, Finish, Fail, KeepSession, world, Session, TypeOK
<1>11. CASE CloseCancelled
  <2>1. todo' \subseteq Songs /\ cur' \in Songs \cup {None}
    BY <1>11, QueueFacts DEF CloseCancelled, queue, TypeOK
  <2>2. conns' \in Nat
    BY <1>11 DEF CloseCancelled, Session, NoLeak, TypeOK
  <2>3. QED
    BY <1>11, <2>1, <2>2 DEF CloseCancelled, Go, Finish, Fail, KeepSession, world, Session, Ended, Delays, TypeOK
<1>12. CASE Close
  <2>1. todo' \subseteq Songs /\ cur' \in Songs \cup {None}
    BY <1>12, QueueFacts DEF Close, queue, TypeOK
  <2>2. conns' \in Nat
    BY <1>12 DEF Close, Session, NoLeak, TypeOK
  <2>3. QED
    BY <1>12, <2>1, <2>2 DEF Close, Go, Finish, Fail, KeepSession, world, Session, Ended, Delays, TypeOK
<1>13. CASE SleepEnds
  <2>1. todo' \subseteq Songs /\ cur' \in Songs \cup {None}
    BY <1>13, QueueFacts DEF SleepEnds, queue, TypeOK
  <2>2. QED
    BY <1>13, <2>1, DelayFacts DEF SleepEnds, Go, world, TypeOK
<1>14. CASE UNCHANGED vars
  BY <1>14 DEF vars, world, queue, TypeOK
<1>15. QED
  BY StepCases, <1>1, <1>2, <1>3, <1>4, <1>5, <1>6, <1>7, <1>8, <1>9, <1>10, <1>11, <1>12, <1>13, <1>14

\* The queue stays at the track a connection was lost in until it is sent again or skipped.
LEMMA ResumeStep == IInv /\ [Next]_vars => ResumeInv'
<1> SUFFICES ASSUME IInv, [Next]_vars PROVE ResumeInv'
  OBVIOUS
<1> USE DEF IInv
<1>1. CASE Around
  BY <1>1, AroundFacts DEF quiet, queue, ResumeInv
<1>2. CASE Minor
  <2>1. broken' = broken /\ pc' \notin {"begin", "send"}
    BY <1>2, MinorFacts DEF Session, Ended
  <2>2. broken # None => pc # "begin" /\ cur # None
    BY NoSongAssumption DEF ResumeInv, TypeOK
  <2>3. broken # None => cur' = cur
    BY <1>2, <2>2, MinorFacts DEF queue
  <2>4. QED
    BY <2>1, <2>3 DEF ResumeInv
<1>3. CASE Skips
  BY <1>3 DEF Skips, GetSongSkips, NextSongSkips, Go, Finish, queue, ResumeInv
<1>4. CASE NoServer
  BY <1>4 DEF NoServer, Go, Finish, queue, ResumeInv
<1>5. CASE Connect
  BY <1>5 DEF Connect, Go, Finish, queue, ResumeInv
<1>6. CASE ConnectFails
  BY <1>6 DEF ConnectFails, Go, Finish, queue, ResumeInv
<1>7. CASE TrackEnds
  BY <1>7 DEF TrackEnds, Go, Finish, queue, ResumeInv
<1>8. CASE WriteFails
  BY <1>8 DEF WriteFails, Go, Finish, queue, ResumeInv
<1>9. CASE Transcode
  BY <1>9 DEF Transcode, Go, Finish, queue, ResumeInv
<1>10. CASE TranscodeFails
  BY <1>10 DEF TranscodeFails, Go, Finish, queue, ResumeInv
<1>11. CASE CloseCancelled
  BY <1>11 DEF CloseCancelled, Go, Finish, queue, ResumeInv
<1>12. CASE Close
  BY <1>12 DEF Close, Go, Finish, queue, ResumeInv
<1>13. CASE SleepEnds
  BY <1>13 DEF SleepEnds, Go, Finish, queue, ResumeInv
<1>14. CASE UNCHANGED vars
  BY <1>14 DEF vars, queue, ResumeInv
<1>15. QED
  BY StepCases, <1>1, <1>2, <1>3, <1>4, <1>5, <1>6, <1>7, <1>8, <1>9, <1>10, <1>11, <1>12, <1>13, <1>14

\* A failure is on record wherever a wait may follow.
LEMMA SessionStep == IInv /\ [Next]_vars => SessionInv'
<1> SUFFICES ASSUME IInv, [Next]_vars PROVE SessionInv'
  OBVIOUS
<1> USE DEF IInv
<1>1. CASE Around
  BY <1>1, AroundFacts DEF quiet, SessionInv
<1>2. CASE Minor
  BY <1>2, MinorFacts DEF Session, Ended, SessionInv
<1>3. CASE Skips
  BY <1>3 DEF Skips, GetSongSkips, NextSongSkips, Go, Finish, Fail, Session, SessionInv, TypeOK
<1>4. CASE NoServer
  BY <1>4 DEF NoServer, Go, Finish, Fail, Session, SessionInv, TypeOK
<1>5. CASE Connect
  BY <1>5 DEF Connect, Go, Finish, Fail, Session, SessionInv, TypeOK
<1>6. CASE ConnectFails
  BY <1>6 DEF ConnectFails, Go, Finish, Fail, Session, SessionInv, TypeOK
<1>7. CASE TrackEnds
  BY <1>7 DEF TrackEnds, Go, Finish, Fail, Session, SessionInv, TypeOK
<1>8. CASE WriteFails
  BY <1>8 DEF WriteFails, Go, Finish, Fail, Session, SessionInv, TypeOK
<1>9. CASE Transcode
  BY <1>9 DEF Transcode, Go, Finish, Fail, Session, SessionInv, TypeOK
<1>10. CASE TranscodeFails
  BY <1>10 DEF TranscodeFails, Go, Finish, Fail, Session, SessionInv, TypeOK
<1>11. CASE CloseCancelled
  BY <1>11 DEF CloseCancelled, Go, Finish, Fail, Session, SessionInv, TypeOK
<1>12. CASE Close
  BY <1>12 DEF Close, Go, Finish, Fail, Session, SessionInv, TypeOK
<1>13. CASE SleepEnds
  BY <1>13 DEF SleepEnds, Go, Finish, Fail, Session, SessionInv, TypeOK
<1>14. CASE UNCHANGED vars
  BY <1>14 DEF vars, SessionInv
<1>15. QED
  BY StepCases, <1>1, <1>2, <1>3, <1>4, <1>5, <1>6, <1>7, <1>8, <1>9, <1>10, <1>11, <1>12, <1>13, <1>14

\* A wait is doubled after each failure and starts anew with each connection.
LEMMA BackoffStep == IInv /\ [Next]_vars => BackoffInv'
<1> SUFFICES ASSUME IInv, [Next]_vars PROVE BackoffInv'
  OBVIOUS
<1> USE DEF IInv
<1>1. CASE Around
  BY <1>1, AroundFacts DEF quiet, BackoffInv
<1>2. CASE Minor
  BY <1>2, MinorFacts DEF Session, Ended, BackoffInv
<1>3. CASE Skips
  BY <1>3 DEF Skips, GetSongSkips, NextSongSkips, Go, Finish, Fail, Session, BackoffInv, TypeOK
<1>4. CASE NoServer
  BY <1>4 DEF NoServer, Go, Fail, Session, BackoffInv, TypeOK
<1>5. CASE Connect
  BY <1>5 DEF Connect, Go, Finish, Fail, Session, BackoffInv, TypeOK
<1>6. CASE ConnectFails
  BY <1>6 DEF ConnectFails, Go, Fail, Session, BackoffInv, TypeOK
<1>7. CASE TrackEnds
  BY <1>7 DEF TrackEnds, Go, Finish, Fail, Session, BackoffInv, TypeOK
<1>8. CASE WriteFails
  BY <1>8 DEF WriteFails, Go, Finish, Fail, Session, BackoffInv, TypeOK
<1>9. CASE Transcode
  BY <1>9 DEF Transcode, Go, Finish, Fail, Session, BackoffInv, TypeOK
<1>10. CASE TranscodeFails
  BY <1>10 DEF TranscodeFails, Go, Finish, Fail, Session, BackoffInv, TypeOK
<1>11. CASE CloseCancelled
  BY <1>11 DEF CloseCancelled, Go, Finish, Fail, Session, BackoffInv, TypeOK
<1>12. CASE Close
  <2>1. backoff' = 1 /\ failures' = failures /\ pc' \in {"failed", "loop"}
        /\ (pc' = "failed" => failures > 0)
    BY <1>12 DEF Close, Go, Session, SessionInv, BackoffInv
  <2>2. \A n \in 1..6 : 1 <= Delay(n)
    BY DelayFacts DEF Delays
  <2>3. failures \in 0..6 /\ (IF failures < 6 THEN failures + 1 ELSE 6) \in 1..6
    BY DEF TypeOK
  <2>4. QED
    BY <2>1, <2>2, <2>3 DEF Session, BackoffInv
<1>13. CASE SleepEnds
  <2>1. failures \in 1..6 /\ failures' = failures /\ backoff <= Delay(failures)
    BY <1>13 DEF SleepEnds, SessionInv, BackoffInv, TypeOK
  <2>2. backoff' <= Delay(IF failures' < 6 THEN failures' + 1 ELSE 6)
    BY <1>13, <2>1, DelayFacts DEF SleepEnds, TypeOK
  <2>3. QED
    BY <1>13, <2>2 DEF SleepEnds, Go, Session, BackoffInv
<1>14. CASE UNCHANGED vars
  BY <1>14 DEF vars, BackoffInv
<1>15. QED
  BY StepCases, <1>1, <1>2, <1>3, <1>4, <1>5, <1>6, <1>7, <1>8, <1>9, <1>10, <1>11, <1>12, <1>13, <1>14

LEMMA InitInv == Init => IInv
<1> SUFFICES ASSUME Init PROVE IInv
  OBVIOUS
<1>1. TypeOK
  <2>1. library \subseteq Songs /\ readable \subseteq Songs /\ todo \subseteq Songs
    BY DEF Init
  <2>2. backoff \in Delays /\ conns \in Nat /\ failures \in 0..6
    BY DEF Init, Delays
  <2>3. pc = "begin" /\ cur = None /\ broken = None
    BY DEF Init
  <2>4. hasServer \in BOOLEAN /\ cancelled \in BOOLEAN /\ failed \in BOOLEAN
    BY DEF Init
  <2>5. status \in {"disconnected", "connecting", "connected", "error"}
    BY DEF Init
  <2>6. QED
    BY <2>1, <2>2, <2>3, <2>4, <2>5 DEF TypeOK
<1>2. NoLeak /\ ResumeInv /\ SessionInv
  BY DEF Init, Session, NoLeak, ResumeInv, SessionInv
<1>3. BackoffInv
  BY DelayFacts DEF Init, Session, BackoffInv
<1>4. QED
  BY <1>1, <1>2, <1>3 DEF IInv

\* The inductive invariant of a mount's goroutine.
THEOREM MountInvariant == Spec => []IInv
<1>1. IInv /\ [Next]_vars => IInv'
  BY TypeStep, LeakStep, ResumeStep, SessionStep, BackoffStep DEF IInv
<1>2. QED
  BY InitInv, <1>1, PTL DEF Spec

\* The state of the goroutine, its connection and its queue keep to their types.
THEOREM TypeCorrect == Spec => []TypeOK
<1>1. IInv => TypeOK
  BY DEF IInv
<1>2. QED
  BY <1>1, MountInvariant, PTL

\* streamMount closes every connection it opens, once (mount.go, Connect to Close).
THEOREM NoLeakAlways == Spec => []NoLeak
<1>1. IInv => NoLeak
  BY DEF IInv
<1>2. QED
  BY <1>1, MountInvariant, PTL

\* After a lost connection the track it was lost in is the next one transcoded
\* (streamSongs leaves queuePos where it is).
THEOREM ResumesTrackAlways == Spec => []ResumesTrack
<1>1. IInv => ResumesTrack
  BY DEF IInv, ResumeInv, ResumesTrack
<1>2. QED
  BY <1>1, MountInvariant, PTL

\* The wait before an attempt is no longer than the failures since the last track
\* that was played justify (nextBackoff, and the reset after Connect).
THEOREM BackoffForgetsAlways == Spec => []BackoffForgets
<1>1. IInv => BackoffForgets
  BY DEF IInv, BackoffInv, BackoffForgets
<1>2. QED
  BY <1>1, MountInvariant, PTL

-----------------------------------------------------------------------------
(* The manager's view, step by step.                                        *)

MView == <<Life, status, cancelled /\ Up>>
MStep == \/ Manager!Goroutine("h") \/ Manager!Crash
         \/ Manager!Cancel({"h"}) /\ UNCHANGED <<Life, status>>

\* Nothing the manager sees has changed.
Unseen == Life' = Life /\ status' = status /\ ((cancelled' /\ Up') <=> (cancelled /\ Up))

\* What the program counter says to the manager.
LEMMA LifeFacts ==
  /\ pc = "panic" => Life = "unused" /\ ~Up
  /\ pc = "done" => Life = "returned" /\ Up
  /\ pc \in {"connect", "send"} => Life = "blocked" /\ Up
  /\ pc \notin {"panic", "done", "connect", "send"} => Life = "running" /\ Up
BY DEF Life, Up

LEMMA NextLifeFacts ==
  /\ pc' = "panic" => Life' = "unused" /\ ~Up'
  /\ pc' = "done" => Life' = "returned" /\ Up'
  /\ pc' \in {"connect", "send"} => Life' = "blocked" /\ Up'
  /\ pc' \notin {"panic", "done", "connect", "send"} => Life' = "running" /\ Up'
BY DEF Life, Up

\* A status written between two others is a report.
LEMMA ReportMaps ==
  ASSUME Life = "running", Life' = "running", Up, Up', cancelled' = cancelled,
         status' \in {"connecting", "connected", "error"}
  PROVE  Manager!Goroutine("h")
<1>1. Manager!Report("h", status')
  BY DEF Manager!Report, Manager!WriteStatus, Manager!Exists, Manager!handles,
         Manager!requests, Manager!process
<1>2. QED
  BY <1>1 DEF Manager!Goroutine, Manager!Statuses

\* A call that blocks, and its return.
LEMMA BlockMaps ==
  ASSUME Life = "running", Life' = "blocked", Up, Up', cancelled' = cancelled, status' = status
  PROVE  Manager!Goroutine("h")
<1>1. Manager!Block("h")
  BY DEF Manager!Block, Manager!rows, Manager!requests, Manager!process
<1>2. QED
  BY <1>1 DEF Manager!Goroutine

LEMMA AnswerMaps ==
  ASSUME Life = "blocked", Life' = "running", Up, Up', cancelled' = cancelled, status' = status
  PROVE  Manager!Goroutine("h")
<1>1. Manager!PeerAnswers("h")
  BY DEF Manager!PeerAnswers, Manager!rows, Manager!requests, Manager!process
<1>2. QED
  BY <1>1 DEF Manager!Goroutine

\* The goroutine leaves with a final status.
LEMMA ReturnMaps ==
  ASSUME Life = "running", Life' = "returned", Up, Up', cancelled \in BOOLEAN,
         cancelled' = cancelled,
         status' = "error" \/ (cancelled /\ status' = "disconnected")
  PROVE  Manager!Goroutine("h")
<1>1. Manager!Return("h")
  BY DEF Manager!Return, Manager!WriteStatus, Manager!Exists, Manager!requests,
         Manager!process
<1>2. QED
  BY <1>1 DEF Manager!Goroutine

\* A panic takes the process with it.
LEMMA PanicMaps ==
  ASSUME Up, ~Up', Life' = "unused", status' = status
  PROVE  Manager!Crash
BY DEF Manager!Crash, Manager!Vanish, Manager!rows

\* A cancel from outside.
LEMMA CancelMaps ==
  ASSUME Life \in {"running", "blocked", "returned"}, Life' = Life, Up, Up', cancelled', status' = status
  PROVE  Manager!Cancel({"h"}) /\ UNCHANGED <<Life, status>>
BY DEF Manager!Cancel

\* Every step of the goroutine is a step of the manager's model or one it cannot see.
LEMMA ViewStep == IInv /\ [Next]_vars => MStep \/ Unseen
<1> SUFFICES ASSUME IInv, [Next]_vars PROVE MStep \/ Unseen
  OBVIOUS
<1> USE LifeFacts, NextLifeFacts DEF MStep, Unseen, Go, Finish
<1>0. cancelled \in BOOLEAN /\ pc \in Session \cup Ended \cup
            {"begin", "loop", "get", "server", "connect", "failed", "sleep"}
  BY DEF IInv, TypeOK
<1>1. CASE Cancel
  <2>1. pc' = pc /\ status' = status /\ cancelled' = TRUE
    BY <1>1 DEF Cancel, quiet
  <2>2. Life' = Life /\ (Up' <=> Up)
    BY <2>1
  <2>3. CASE Up
    BY <1>0, <2>1, <2>2, <2>3, CancelMaps
  <2>4. CASE ~Up
    BY <2>1, <2>2, <2>4
  <2>5. QED
    BY <2>3, <2>4
<1>2. CASE DeleteServer \/ \E s \in Songs : AddSong(s) \/ RemoveSong(s) \/ LoseFile(s)
  BY <1>2 DEF DeleteServer, AddSong, RemoveSong, LoseFile, quiet
<1>3. CASE BeginFails \/ LoopCancelled \/ RebuildFails \/ CloseCancelled \/ SleepCancelled
  <2>1. /\ pc \in {"begin", "loop", "close", "sleep"} /\ pc' = "done"
        /\ cancelled' = cancelled
        /\ status' = "error" \/ (cancelled /\ status' = "disconnected")
    BY <1>3 DEF BeginFails, LoopCancelled, RebuildFails, CloseCancelled, SleepCancelled
  <2>2. QED
    BY <1>0, <2>1, ReturnMaps
<1>4. CASE RebuildEmpty
  <2>1. pc = "loop" /\ pc' = "panic" /\ status' = status
    BY <1>4 DEF RebuildEmpty
  <2>2. QED
    BY <2>1, PanicMaps
<1>5. CASE GetSong \/ Connected \/ NextSong \/ ReportError
  <2>1. /\ pc \in {"get", "connected", "songs", "failed"}
        /\ pc' \in {"server", "songs", "transcode", "sleep"}
        /\ cancelled' = cancelled /\ status' \in {"connecting", "connected", "error"}
    BY <1>5 DEF GetSong, Connected, NextSong, ReportError
  <2>2. QED
    BY <2>1, ReportMaps
<1>6. CASE GetServer \/ Transcode
  <2>1. /\ pc \in {"server", "transcode"} /\ pc' \in {"connect", "send"}
        /\ cancelled' = cancelled /\ status' = status
    BY <1>6 DEF GetServer, Transcode
  <2>2. QED
    BY <2>1, BlockMaps
<1>7. CASE Connect \/ ConnectFails \/ TrackEnds \/ WriteFails
  <2>1. /\ pc \in {"connect", "send"} /\ pc' \in {"connected", "failed", "songs", "close"}
        /\ cancelled' = cancelled /\ status' = status
    BY <1>7 DEF Connect, ConnectFails, TrackEnds, WriteFails
  <2>2. QED
    BY <2>1, AnswerMaps
<1>8. CASE \/ Begin \/ LoopTrack \/ LoopRebuild \/ GetSongSkips \/ NoServer \/ SongsEnd
           \/ NextSongSkips \/ TranscodeFails \/ Close \/ SleepEnds
  <2>1. /\ pc \in {"begin", "loop", "get", "server", "songs", "transcode", "close", "sleep"}
        /\ pc' \in {"loop", "get", "failed", "close", "songs"}
        /\ cancelled' = cancelled /\ status' = status
    BY <1>8 DEF Begin, LoopTrack, LoopRebuild, GetSongSkips, NoServer, SongsEnd,
                NextSongSkips, TranscodeFails, Close, SleepEnds
  <2>2. QED
    BY <2>1
<1>9. CASE UNCHANGED vars
  BY <1>9 DEF vars
<1>10. QED
  BY <1>1, <1>2, <1>3, <1>4, <1>5, <1>6, <1>7, <1>8, <1>9 DEF Next, Around, Answered, Local

\* The goroutine behaves as the manager's model expects of a goroutine: a refinement
\* of its actions Report, Block, PeerAnswers, Return and Crash.
THEOREM ManagerViewAlways == Spec => ManagerView
<1>1. Unseen => UNCHANGED MView
  BY DEF Unseen, MView
<1>2. IInv /\ [Next]_vars => [MStep]_MView
  BY <1>1, ViewStep
<1>3. QED
  BY <1>2, MountInvariant, PTL DEF Spec, ManagerView, MStep, MView
=============================================================================
