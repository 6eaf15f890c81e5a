----------------------------- MODULE WebPlayer -----------------------------
(***************************************************************************)
(* The music player of the web pages (class CassonicPlayer of              *)
(* handler/web/static/js/app.js, with the play buttons of                  *)
(* initPlayButtons), in one tab: a queue, the order it is played in, the   *)
(* <audio> element behind it, and the copy in sessionStorage from which    *)
(* the next page continues, since every navigation loads the script anew.  *)
(*                                                                         *)
(* The user's clicks and keys, the events of the audio element and the     *)
(* answers to album requests are handled one at a time, in any order.      *)
(* Indexes count from 0 as in the code.  JavaScript's non-numbers are kept *)
(* because the code computes with them: Undefined, NaN, and the Null that  *)
(* NaN becomes in JSON.                                                    *)
(***************************************************************************)
EXTENDS Integers, FiniteSets, SequencesExt

CONSTANTS
  Tracks,     \* tracks by their id
  Lists,      \* track lists of pages and albums: non-empty sequences
  MaxQueue,   \* bound on the length of the queue
  NoTrack,    \* an audio element without src
  Undefined, NaN, Null

ASSUME ListsAssumption ==
  \A l \in Lists : l \in Seq(Tracks) /\ Len(l) \in 1..MaxQueue
ASSUME NoTrackAssumption == NoTrack \notin Tracks
ASSUME MaxQueueAssumption == MaxQueue \in Nat \ {0}
ASSUME OddAssumption ==
  /\ {Undefined, NaN, Null} \cap Int = {}
  /\ Undefined # NaN /\ NaN # Null /\ Null # Undefined

VARIABLES
  queue,     \* this.queue
  index,     \* this.queueIndex
  order,     \* this._shuffleOrder
  shuffle, repeat,  \* kept in localStorage, so a navigation leaves them
  audio,     \* the <audio> element
  button,    \* the play button: its label, and whether a play or pause event
             \* is due that refreshes it
  saved,     \* cassonic_queue in sessionStorage
  fetching,  \* albums asked for and not answered yet
  mayPlay,   \* whether the browser lets the page start playing: it may refuse
             \* until the user has clicked in the page
  heard,     \* history: the last indexes next() went through, at most one round,
             \* since the order was built, a track was picked or prev() went back
  restored,  \* history: the page was restored and has not built its order since
  turn       \* history: flips whenever the user does something

settings == <<shuffle, repeat>>
vars == <<queue, index, order, settings, audio, button, saved, fetching,
          mayPlay, heard, restored, turn>>

Lost      == {Undefined, NaN}
Modes     == {"none", "all", "one"}
Positions(q) == 0 .. Len(q) - 1
Silent    == [src |-> NoTrack, state |-> "none", paused |-> TRUE,
              late |-> FALSE, loop |-> FALSE]
NewButton == [label |-> "Play", due |-> FALSE]

TypeOK ==
  /\ queue \in Seq(Tracks) /\ Len(queue) <= MaxQueue
  /\ index \in (-1 .. MaxQueue - 1) \cup {Undefined, NaN, Null}
  /\ order \in Seq(0 .. MaxQueue - 1)
  /\ shuffle \in BOOLEAN /\ repeat \in Modes
  /\ audio \in [src : Tracks \cup {NoTrack},
                state : {"none", "loading", "ready", "failed"},
                paused : BOOLEAN, late : BOOLEAN, loop : BOOLEAN]
  /\ button \in [label : {"Play", "Pause"}, due : BOOLEAN]
  /\ saved.queue \in Seq(Tracks)
  /\ saved.index \in (-1 .. MaxQueue - 1) \cup {Undefined, Null}
  /\ fetching \subseteq Lists /\ mayPlay \in BOOLEAN
  /\ heard \in Seq(0 .. MaxQueue - 1) /\ restored \in BOOLEAN /\ turn \in BOOLEAN

Init ==
  /\ queue = <<>> /\ index = -1 /\ order = <<>>
  /\ shuffle \in BOOLEAN /\ repeat \in Modes
  /\ audio = Silent /\ button = NewButton
  /\ saved = [queue |-> <<>>, index |-> -1]
  /\ fetching = {} /\ mayPlay \in BOOLEAN
  /\ heard = <<>> /\ restored = FALSE /\ turn \in BOOLEAN

-----------------------------------------------------------------------------
(* JavaScript arithmetic, the order and the audio element                   *)

Plus(i, d) == IF i \in Lost THEN NaN ELSE IF i = Null THEN d ELSE i + d

AtLeast(i, n) == i \notin Lost /\ i >= n

Below(i, n) == i \notin Lost /\ i < n

\* Mutant: positions counted from 1.
Orders_FromOne(n, shuffled) ==
  IF shuffled THEN {p \in [1..n -> 1 .. n] : IsInjective(p)}
              ELSE {[p \in 1..n |-> p - 1]}

\* _buildShuffleOrder: any permutation of the positions, or the identity
Orders(n, shuffled) ==
  IF shuffled THEN {p \in [1..n -> 0 .. n - 1] : IsInjective(p)}
              ELSE {[p \in 1..n |-> p - 1]}

\* indexOf: -1 when the index is not in the order
PlaceInOrder == IF \E p \in 1..Len(order) : order[p] = index
                THEN (CHOOSE p \in 1..Len(order) : order[p] = index) - 1
                ELSE -1

\* Mutant: the place itself, not the one d on.
InOrder_Same(d) == IF order = <<>> THEN Undefined
                   ELSE order[(PlaceInOrder % Len(order)) + 1]

\* d places on in the order, wrapping; without an order, x % 0 is NaN and the
\* lookup undefined
InOrder(d) == IF order = <<>> THEN Undefined
              ELSE order[((PlaceInOrder + d + Len(order)) % Len(order)) + 1]

\* what is written to JSON for an index: NaN becomes null
Stored(i) == IF i = NaN THEN Null ELSE i

\* Mutant: a pause without its event.
Pause_Unheard(a, b) == audio' = [a EXCEPT !.paused = TRUE] /\ button' = b

Pause(a, b) ==
  /\ audio'  = [a EXCEPT !.paused = TRUE]
  /\ button' = [b EXCEPT !.due = @ \/ ~a.paused]

\* setting src drops the events of the former track
_loadTrack(q, i, autoplay, b) ==
  /\ audio'  = [audio EXCEPT !.src = q[i + 1], !.state = "loading",
                             !.paused = ~autoplay, !.late = FALSE]
  /\ button' = [b EXCEPT !.due = autoplay]
  /\ saved'  = [queue |-> q, index |-> i]

\* the end of next() and prev(); when queue[i] is undefined _loadTrack throws
\* and only queueIndex has changed
GoTo(i, a, b) ==
  /\ index' = i
  /\ IF i \in Positions(queue)
     THEN _loadTrack(queue, i, mayPlay', b)
     ELSE audio' = a /\ button' = b /\ UNCHANGED saved

HeardNext(i) ==
  IF i \notin Positions(queue) THEN <<>>
  ELSE IF Len(heard) = Len(queue) THEN Append(Tail(heard), i)
  ELSE Append(heard, i)

\* next(), called with the element and the button as they are by then
next(a, b) ==
  LET following == IF shuffle THEN InOrder(1) ELSE Plus(index, 1)
      past      == AtLeast(following, Len(queue))
      target    == IF past THEN 0 ELSE following
  IN  \/ /\ queue = <<>>
         /\ audio' = a /\ button' = b
         /\ UNCHANGED <<index, saved, heard>>
      \/ /\ queue # <<>> /\ past /\ repeat # "all"
         /\ Pause(a, b)
         /\ UNCHANGED <<index, saved, heard>>
      \/ /\ queue # <<>> /\ (past => repeat = "all")
         /\ GoTo(target, a, b)
         /\ heard' = HeardNext(target)

\* Mutant: the order is not built for a new queue.
Choose_KeepsOrder(q, i) ==
  /\ queue' = q /\ index' = i
  /\ restored' = FALSE /\ UNCHANGED order
  /\ _loadTrack(q, i, mayPlay', button)
  /\ heard' = <<i>>

\* the queue replaced, a track of it picked and played: playAll and playTrack
Choose(q, i) ==
  /\ queue' = q /\ index' = i
  /\ order' \in Orders(Len(q), shuffle) /\ restored' = FALSE
  /\ _loadTrack(q, i, mayPlay', button)
  /\ heard' = <<i>>

-----------------------------------------------------------------------------
(* The user                                                                 *)

Click == turn' = ~turn /\ mayPlay' = TRUE

\* a song of the page: the whole page becomes the queue
PlaySong(q, i) ==
  /\ Click
  /\ Choose(q, i)
  /\ UNCHANGED <<settings, fetching>>

playTrack(t) == PlaySong(<<t>>, 0)

\* play(trackId): the first place of the track in the queue
play(i) ==
  /\ Click
  /\ \A j \in 0 .. i - 1 : queue[j + 1] # queue[i + 1]
  /\ index' = i /\ heard' = <<i>>
  /\ _loadTrack(queue, i, TRUE, button)
  /\ UNCHANGED <<queue, order, settings, fetching, restored>>

PlayAlbum(l) ==
  /\ Click
  /\ fetching' = fetching \cup {l}
  /\ UNCHANGED <<queue, index, order, settings, audio, button, saved, heard, restored>>

\* Mutant: the track goes first.
addToQueue_First(t) ==
  /\ Click
  /\ Len(queue) < MaxQueue
  /\ queue' = <<t>> \o queue
  /\ order' \in Orders(Len(queue) + 1, shuffle) /\ restored' = FALSE
  /\ saved' = [queue |-> queue', index |-> Stored(index)]
  /\ heard' = IF index \in Positions(queue) THEN <<index>> ELSE <<>>
  /\ UNCHANGED <<index, settings, audio, button, fetching>>

\* Mutant: the order is not rebuilt.
addToQueue_OldOrder(t) ==
  /\ Click
  /\ Len(queue) < MaxQueue
  /\ queue' = Append(queue, t)
  /\ restored' = FALSE
  /\ saved' = [queue |-> queue', index |-> Stored(index)]
  /\ heard' = IF index \in Positions(queue) THEN <<index>> ELSE <<>>
  /\ UNCHANGED <<index, order, settings, audio, button, fetching>>

addToQueue(t) ==
  /\ Click
  /\ Len(queue) < MaxQueue
  /\ queue' = Append(queue, t)
  /\ order' \in Orders(Len(queue) + 1, shuffle) /\ restored' = FALSE
  /\ saved' = [queue |-> queue', index |-> Stored(index)]
  /\ heard' = IF index \in Positions(queue) THEN <<index>> ELSE <<>>
  /\ UNCHANGED <<index, settings, audio, button, fetching>>

\* audio.play() on the loaded track; one that failed may be refused
ResumeAudio ==
  /\ \/ /\ audio'  = [audio EXCEPT !.paused = FALSE]
        /\ button' = [button EXCEPT !.due = TRUE]
     \/ audio.state = "failed" /\ UNCHANGED <<audio, button>>
  /\ UNCHANGED <<index, saved, heard>>

togglePlay ==
  /\ Click
  /\ \/ /\ audio.paused /\ audio.src = NoTrack /\ queue # <<>>
        /\ index' = 0 /\ heard' = <<0>>
        /\ _loadTrack(queue, 0, TRUE, button)
     \/ /\ audio.paused /\ (audio.src # NoTrack \/ queue = <<>>)
        /\ ResumeAudio
     \/ /\ ~audio.paused
        /\ Pause(audio, button)
        /\ UNCHANGED <<index, saved, heard>>
  /\ UNCHANGED <<queue, order, settings, fetching, restored>>

NextButton ==
  /\ Click
  /\ next(audio, button)
  /\ UNCHANGED <<queue, order, settings, fetching, restored>>

Rewind ==
  /\ audio' = [audio EXCEPT !.late = FALSE]
  /\ UNCHANGED <<index, button, saved, heard>>

\* Mutant: back in the queue, not in the order.
prev_Unshuffled ==
  LET before == Plus(index, -1)
      first  == Below(before, 0)
      target == IF first THEN Len(queue) - 1 ELSE before
  IN  /\ Click
      /\ \/ audio.late /\ Rewind
         \/ ~audio.late /\ queue = <<>> /\ UNCHANGED <<index, audio, button, saved, heard>>
         \/ ~audio.late /\ queue # <<>> /\ first /\ repeat # "all" /\ Rewind
         \/ /\ ~audio.late /\ queue # <<>> /\ (first => repeat = "all")
            /\ GoTo(target, audio, button)
            /\ heard' = IF Len(heard) > 1 /\ heard[Len(heard) - 1] = target
                        THEN Front(heard)
                        ELSE IF target \in Positions(queue) THEN <<target>> ELSE <<>>
      /\ UNCHANGED <<queue, order, settings, fetching, restored>>

prev ==
  LET before == IF shuffle THEN InOrder(-1) ELSE Plus(index, -1)
      first  == Below(before, 0)
      target == IF first THEN Len(queue) - 1 ELSE before
  IN  /\ Click
      /\ \/ audio.late /\ Rewind
         \/ ~audio.late /\ queue = <<>> /\ UNCHANGED <<index, audio, button, saved, heard>>
         \/ ~audio.late /\ queue # <<>> /\ first /\ repeat # "all" /\ Rewind
         \/ /\ ~audio.late /\ queue # <<>> /\ (first => repeat = "all")
            /\ GoTo(target, audio, button)
            /\ heard' = IF Len(heard) > 1 /\ heard[Len(heard) - 1] = target
                        THEN Front(heard)
                        ELSE IF target \in Positions(queue) THEN <<target>> ELSE <<>>
      /\ UNCHANGED <<queue, order, settings, fetching, restored>>

\* only once the duration is known
seek(late) ==
  /\ Click
  /\ audio.state = "ready"
  /\ audio' = [audio EXCEPT !.late = late]
  /\ UNCHANGED <<queue, index, order, settings, button, saved, fetching, heard, restored>>

_toggleShuffle ==
  /\ Click
  /\ shuffle' = ~shuffle
  /\ order' \in Orders(Len(queue), shuffle') /\ restored' = FALSE
  /\ heard' = IF index \in Positions(queue) THEN <<index>> ELSE <<>>
  /\ UNCHANGED <<queue, index, repeat, audio, button, saved, fetching>>

_cycleRepeat ==
  /\ Click
  /\ repeat' = CASE repeat = "none" -> "all"
                 [] repeat = "all"  -> "one"
                 [] repeat = "one"  -> "none"
  /\ audio' = [audio EXCEPT !.loop = repeat' = "one"]
  /\ UNCHANGED <<queue, index, order, shuffle, button, saved, fetching, heard, restored>>

\* Mutant: an index of 0 counts as none.
_restoreState_Positive ==
  /\ queue' = saved.queue
  /\ index' = IF saved.index \in {Undefined, 0} THEN -1 ELSE saved.index
  /\ audio' = IF index' \in Positions(queue')
              THEN [Silent EXCEPT !.src = queue'[index' + 1], !.state = "loading"]
              ELSE Silent
  /\ heard' = IF index' \in Positions(queue') THEN <<index'>> ELSE <<>>
  /\ UNCHANGED saved

\* another page: a new script, a new element, the queue from sessionStorage
_restoreState ==
  /\ queue' = saved.queue
  /\ index' = IF saved.index = Undefined THEN -1 ELSE saved.index
  /\ audio' = IF index' \in Positions(queue')
              THEN [Silent EXCEPT !.src = queue'[index' + 1], !.state = "loading"]
              ELSE Silent
  /\ heard' = IF index' \in Positions(queue') THEN <<index'>> ELSE <<>>
  /\ UNCHANGED saved

Navigate ==
  /\ turn' = ~turn
  /\ _restoreState
  /\ order' = <<>> /\ restored' = TRUE /\ button' = NewButton /\ fetching' = {}
  /\ mayPlay' \in BOOLEAN
  /\ UNCHANGED settings

User ==
  \/ \E q \in Lists : \E i \in Positions(q) : PlaySong(q, i)
  \/ \E t \in Tracks : playTrack(t) \/ addToQueue(t)
  \/ \E i \in Positions(queue) : play(i)
  \/ \E l \in Lists : PlayAlbum(l)
  \/ togglePlay \/ NextButton \/ prev
  \/ \E late \in BOOLEAN : seek(late)
  \/ _toggleShuffle \/ _cycleRepeat
  \/ Navigate

-----------------------------------------------------------------------------
(* The browser: the audio element, and the answers of the server            *)

Browser == UNCHANGED <<queue, order, settings, mayPlay, restored, turn>>

Loaded ==
  /\ audio.state = "loading"
  /\ audio' = [audio EXCEPT !.state = "ready"]
  /\ Browser /\ UNCHANGED <<index, button, saved, fetching, heard>>

Playing == audio.state = "ready" /\ ~audio.paused

Progress ==
  /\ Playing
  /\ audio' = [audio EXCEPT !.late = TRUE]
  /\ Browser /\ UNCHANGED <<index, button, saved, fetching, heard>>

\* Mutant: a failed track is not skipped.
MediaError_Stays ==
  /\ audio.state \in {"loading", "ready"}
  /\ audio' = [audio EXCEPT !.state = "failed"]
  /\ Browser /\ UNCHANGED <<index, button, saved, fetching, heard>>

\* the element fetches and fails whether it plays or not; the handler skips
MediaError ==
  /\ audio.state \in {"loading", "ready"}
  /\ Browser
  /\ next([audio EXCEPT !.state = "failed"], button)
  /\ UNCHANGED fetching

\* a looping element starts over by itself; otherwise it pauses, with its
\* event, and then says it has ended
_onEnded ==
  /\ Playing
  /\ Browser
  /\ \/ /\ audio.loop
        /\ audio' = [audio EXCEPT !.late = FALSE]
        /\ UNCHANGED <<index, button, saved, heard>>
     \/ /\ ~audio.loop /\ repeat = "one"
        /\ audio'  = [audio EXCEPT !.late = FALSE]
        /\ button' = [label |-> "Play", due |-> TRUE]
        /\ UNCHANGED <<index, saved, heard>>
     \/ /\ ~audio.loop /\ repeat # "one"
        /\ next([audio EXCEPT !.paused = TRUE, !.late = TRUE],
                [label |-> "Play", due |-> FALSE])
  /\ UNCHANGED fetching

\* the play or pause event; the handler reads the element as it is now
_onStateChange ==
  /\ button.due
  /\ button' = [label |-> IF audio.paused THEN "Play" ELSE "Pause", due |-> FALSE]
  /\ Browser /\ UNCHANGED <<index, audio, saved, fetching, heard>>

\* the songs of an album arrive: they replace whatever is played by then
AlbumArrives(l) ==
  /\ l \in fetching
  /\ fetching' = fetching \ {l}
  /\ UNCHANGED mayPlay
  /\ Choose(l, 0)
  /\ UNCHANGED <<settings, turn>>

\* it cannot be loaded, or is empty: nothing but a message
AlbumFails(l) ==
  /\ l \in fetching
  /\ fetching' = fetching \ {l}
  /\ Browser /\ UNCHANGED <<index, audio, button, saved, heard>>

Answer == \E l \in Lists : AlbumArrives(l) \/ AlbumFails(l)

Media == Loaded \/ Progress \/ MediaError \/ _onEnded \/ _onStateChange

Next == User \/ Media \/ Answer

Safe == Init /\ [][Next]_vars

\* The browser fetches a track or fails to, plays it to its end unless paused,
\* delivers events and answers.  Nothing is assumed of the user.
Fairness ==
  /\ WF_vars(Loaded \/ MediaError)
  /\ WF_vars(_onEnded)
  /\ WF_vars(Answer)

Spec == Safe /\ Fairness

-----------------------------------------------------------------------------
(* Properties                                                               *)

Current == index \in Positions(queue)

\* Whatever is loaded is the track the player counts as current: queue and
\* index are changed by the user, by an album that arrives and by the events of
\* the element, and none of these may leave another track playing.
AudioIsCurrent == Current => audio.src = queue[index + 1]

\* next() visits every track of the queue before it comes to one again, with
\* and without shuffle, however often the queue was replaced, extended or
\* reordered before and whether the track ended, failed or was skipped.
EveryTrackOncePerRound == IsInjective(heard)

\* When no event is due the label of the button says what a click will do,
\* although setting src pauses the element without an event.
ButtonTellsTruth == ~button.due => (button.label = "Play" <=> audio.paused)

\* The way back: prev() after next() returns to the track before.
PrevUndoesNext ==
  [][(prev /\ Len(heard) > 1 /\ index' # index) => index' = heard[Len(heard) - 1]]_vars

\* A navigation loses neither the queue nor the track that was loaded, whenever
\* it comes: every handler that changes them has saved them, and what is loaded
\* is what the next page loads.
NavigationResumes ==
  [][(Navigate /\ Current) =>
       queue' = queue /\ index' = index /\ audio'.src = audio.src]_vars

\* The index becomes undefined or NaN in one way only: in a page that was
\* restored with shuffle on and in which nothing has built the order since.
LostOnlyAfterRestore ==
  [][(index' \in Lost /\ index \notin Lost) => restored /\ shuffle]_vars

UnderWay == ~audio.paused /\ audio.state \in {"loading", "ready"}

\* Left alone, a queue without shuffle or repeat comes to its end and pauses,
\* through tracks that fail as well as through those that play.  (The user does
\* something exactly when turn flips; one of its two values stands for both.)
QueueEnds ==
  (turn /\ UnderWay /\ Current /\ ~shuffle /\ repeat = "none")
    ~> (~turn \/ audio.paused)

\* Left alone, a queue that wraps brings every one of its tracks, again through
\* failures, provided its order was built in this page.
Wraps == \/ shuffle /\ repeat # "one" /\ order # <<>>
         \/ ~shuffle /\ repeat = "all"

EveryTurnComes ==
  \A i \in 0 .. MaxQueue - 1 :
    (turn /\ UnderWay /\ Current /\ Wraps /\ fetching = {} /\ i \in Positions(queue))
      ~> (~turn \/ index = i)
=============================================================================
