-------------------------- MODULE WebPlayer_proofs --------------------------
(***************************************************************************)
(* For any tracks, lists and length of the queue: what is loaded is the    *)
(* current track, next() goes through the queue without repeating itself,  *)
(* prev() is the way back, the play button tells the truth and a           *)
(* navigation loses nothing.                                               *)
(***************************************************************************)
EXTENDS WebPlayer, FiniteSetTheorems, SequenceTheorems, TLAPS

AudioStates == [src : Tracks \cup {NoTrack}, state : {"none", "loading", "ready", "failed"},
                paused : BOOLEAN, late : BOOLEAN, loop : BOOLEAN]
Buttons     == [label : {"Play", "Pause"}, due : BOOLEAN]

\* An index that is not in the queue is none or no number, and stays so however
\* the queue grows.
IndexInv == index \in Positions(queue) \cup {-1, Undefined, NaN, Null}

\* The copy is of the current track, and could be restored as it is.
SavedInv ==
  /\ Len(saved.queue) <= MaxQueue
  /\ saved.index \in Positions(saved.queue) \cup {-1, Undefined, Null}
  /\ Current => saved.queue = queue /\ saved.index = index

\* The order is a permutation of the queue, or was not built since a restore.
OrderInv ==
  /\ order \in Orders(Len(queue), TRUE) \/ order = <<>>
  /\ order = <<>> /\ queue # <<>> => restored

\* Before the user has clicked in the page nothing plays.
ButtonInv == ~mayPlay => button.label = "Play" /\ audio.paused

\* The place of an index in the order next() follows.
Seat(i) == IF shuffle THEN CHOOSE p \in 1..Len(order) : order[p] = i ELSE i + 1

\* What was heard follows the order, wrapping once at most, up to the current track.
HeardInv ==
  /\ Len(heard) <= Len(queue)
  /\ heard # <<>> => Current /\ heard[Len(heard)] = index
  /\ \A k \in 1..Len(heard) : heard[k] \in Positions(queue)
  /\ shuffle /\ order = <<>> => Len(heard) <= 1
  /\ \A j, k \in 1..Len(heard) :
       j < k => Seat(heard[k]) - Seat(heard[j]) \in {k - j, k - j - Len(queue)}

IInv ==
  /\ TypeOK
  /\ IndexInv /\ SavedInv /\ OrderInv
  /\ AudioIsCurrent
  /\ ButtonInv /\ ButtonTellsTruth
  /\ HeardInv

-----------------------------------------------------------------------------
(* Orders, places in them and arithmetic on indexes.                        *)

\* An order of n tracks holds every position: no track is out of next()'s reach.
LEMMA OrderIsOnto ==
  ASSUME NEW n \in Nat \ {0}, NEW p \in Orders(n, TRUE)
  PROVE  \A i \in 0 .. n - 1 : \E k \in 1..n : p[k] = i
<1> DEFINE R == {p[k] : k \in 1..n}
<1>1. p \in [1..n -> 0 .. n - 1] /\ \A j, k \in 1..n : p[j] = p[k] => j = k
  BY DEF Orders, IsInjective
<1>2. R \subseteq 0 .. n - 1
  BY <1>1
<1>3. p \in Surjection(1..n, R) /\ p \in Injection(1..n, R)
  BY <1>1 DEF Surjection, Injection, IsInjective
<1>4. IsFiniteSet(1..n) /\ Cardinality(1..n) = n
  BY FS_Interval
<1>5. IsFiniteSet(0 .. n - 1) /\ Cardinality(0 .. n - 1) = n
  BY FS_Interval
<1> HIDE DEF R
<1>6. Cardinality(R) = n
  BY <1>3, <1>4, FS_Surjection
<1>7. R = 0 .. n - 1
  BY <1>2, <1>5, <1>6, FS_Subset
<1>8. QED
  BY <1>7 DEF R

\* Both ways of building an order give a permutation of the positions.
LEMMA OrderFacts ==
  ASSUME NEW n \in Nat, NEW shuffled \in BOOLEAN, NEW p \in Orders(n, shuffled)
  PROVE  /\ p \in Orders(n, TRUE) /\ p \in Seq(0 .. n - 1) /\ Len(p) = n
         /\ n > 0 => p # <<>>
<1>1. p \in [1..n -> 0 .. n - 1] /\ IsInjective(p)
  <2>1. CASE shuffled
    BY <2>1 DEF Orders
  <2>2. CASE ~shuffled
    BY <2>2 DEF Orders, IsInjective
  <2>3. QED
    BY <2>1, <2>2
<1>2. p \in Seq(0 .. n - 1) /\ Len(p) = n
  BY <1>1, IsASeq, LenProperties
<1>3. QED
  BY <1>1, <1>2 DEF Orders

\* A remainder by n is a position.
LEMMA RemainderFacts ==
  ASSUME NEW n \in Nat \ {0}, NEW x \in Int
  PROVE  /\ x % n \in 0 .. n - 1
         /\ x \in 0 .. n - 1 => x % n = x
         /\ x \in n .. 2 * n - 1 => x % n = x - n
OBVIOUS

\* The seats of the positions of the queue are the places of its order.
LEMMA SeatFacts ==
  ASSUME queue \in Seq(Tracks), shuffle \in BOOLEAN,
         shuffle => queue = <<>> \/ order \in Orders(Len(queue), TRUE)
  PROVE  /\ \A i \in Positions(queue) :
              Seat(i) \in 1..Len(queue) /\ (shuffle => order[Seat(i)] = i)
         /\ \A i, j \in Positions(queue) : Seat(i) = Seat(j) => i = j
         /\ shuffle => \A k \in 1..Len(queue) :
              order[k] \in Positions(queue) /\ Seat(order[k]) = k
<1>1. PICK n \in Nat : n = Len(queue) /\ (n = 0 <=> queue = <<>>)
  OBVIOUS
<1>2. Positions(queue) = 0 .. n - 1
  BY <1>1 DEF Positions
<1>3. CASE ~shuffle
  BY <1>1, <1>2, <1>3 DEF Seat
<1>4. CASE n = 0
  BY <1>1, <1>2, <1>4
<1>5. CASE shuffle /\ n # 0
  <2>1. order \in Orders(n, TRUE) /\ n \in Nat \ {0}
    BY <1>1, <1>5
  <2>2. order \in [1..n -> 0 .. n - 1] /\ Len(order) = n
        /\ \A j, k \in 1..n : order[j] = order[k] => j = k
    BY <2>1, OrderFacts DEF Orders, IsInjective
  <2>3. \A i \in 0 .. n - 1 : \E k \in 1..n : order[k] = i
    BY <2>1, OrderIsOnto
  <2>4. \A i : Seat(i) = CHOOSE k \in 1..n : order[k] = i
    BY <1>5, <2>2 DEF Seat
  <2>5. \A i \in 0 .. n - 1 : Seat(i) \in 1..n /\ order[Seat(i)] = i
    BY <2>3, <2>4
  <2>6. \A k \in 1..n : order[k] \in 0 .. n - 1 /\ Seat(order[k]) = k
    BY <2>2, <2>5
  <2>7. QED
    BY <1>1, <1>2, <2>5, <2>6
<1>6. QED
  BY <1>3, <1>4, <1>5

\* One place on and one place back in an order that was built.
LEMMA InOrderFacts ==
  ASSUME queue \in Seq(Tracks), queue # <<>>, shuffle, order \in Orders(Len(queue), TRUE)
  PROVE  /\ InOrder(1) \in Positions(queue) /\ InOrder(-1) \in Positions(queue)
         /\ Current =>
              /\ Seat(InOrder(1)) = IF Seat(index) = Len(queue) THEN 1 ELSE Seat(index) + 1
              /\ Seat(InOrder(-1)) = IF Seat(index) = 1 THEN Len(queue) ELSE Seat(index) - 1
<1>1. PICK n \in Nat \ {0} : n = Len(queue)
  OBVIOUS
<1>2. order \in [1..n -> 0 .. n - 1] /\ Len(order) = n /\ order # <<>>
  BY <1>1, OrderFacts DEF Orders
<1>3. Positions(queue) = 0 .. n - 1
  BY <1>1 DEF Positions
<1>4. \A k \in 1..n : order[k] \in 0 .. n - 1 /\ Seat(order[k]) = k
  BY <1>1, <1>3, SeatFacts
<1>5. PlaceInOrder \in -1 .. n - 1
  <2>1. CASE \E k \in 1..n : order[k] = index
    BY <1>2, <2>1 DEF PlaceInOrder
  <2>2. CASE ~ \E k \in 1..n : order[k] = index
    BY <1>2, <2>2 DEF PlaceInOrder
  <2>3. QED
    BY <2>1, <2>2
<1>6. Current => Seat(index) \in 1..n /\ PlaceInOrder = Seat(index) - 1
  <2>1. Current => Seat(index) \in 1..n /\ order[Seat(index)] = index
    BY <1>1, <1>3, SeatFacts DEF Current
  <2>2. QED
    BY <1>2, <2>1 DEF PlaceInOrder, Seat
<1>7. /\ InOrder(1) = order[((PlaceInOrder + 1 + n) % n) + 1]
      /\ InOrder(-1) = order[((PlaceInOrder + (-1) + n) % n) + 1]
  BY <1>2 DEF InOrder
<1> HIDE DEF PlaceInOrder
<1>8. PICK x \in -1 .. n - 1 : x = PlaceInOrder
  BY <1>5
<1>9. (x + 1 + n) % n \in 0 .. n - 1 /\ (x + (-1) + n) % n \in 0 .. n - 1
  <2>1. \A y \in Int : y % n \in 0 .. n - 1
    BY RemainderFacts
  <2>2. x + 1 + n \in Int /\ x + (-1) + n \in Int
    OBVIOUS
  <2>3. QED
    BY <2>1, <2>2
<1>10. x \in 0 .. n - 1 =>
         /\ (x + 1 + n) % n = IF x = n - 1 THEN 0 ELSE x + 1
         /\ (x + (-1) + n) % n = IF x = 0 THEN n - 1 ELSE x - 1
  <2>1. ASSUME x \in 0 .. n - 1 PROVE (x + 1 + n) % n = IF x = n - 1 THEN 0 ELSE x + 1
    <3>1. CASE x = n - 1
      BY <2>1, <3>1
    <3>2. CASE x # n - 1
      BY <2>1, <3>2
    <3>3. QED
      BY <3>1, <3>2
  <2>2. ASSUME x \in 0 .. n - 1 PROVE (x + (-1) + n) % n = IF x = 0 THEN n - 1 ELSE x - 1
    <3>1. CASE x = 0
      BY <2>2, <3>1
    <3>2. CASE x # 0
      BY <2>2, <3>2
    <3>3. QED
      BY <3>1, <3>2
  <2>3. QED
    BY <2>1, <2>2
<1>11. InOrder(1) \in Positions(queue) /\ InOrder(-1) \in Positions(queue)
  <2>1. \A y \in 0 .. n - 1 : order[y + 1] \in Positions(queue)
    BY <1>3, <1>4
  <2>2. QED
    BY <1>7, <1>8, <1>9, <2>1
<1>12. ASSUME Current
       PROVE  /\ Seat(InOrder(1)) = IF Seat(index) = n THEN 1 ELSE Seat(index) + 1
              /\ Seat(InOrder(-1)) = IF Seat(index) = 1 THEN n ELSE Seat(index) - 1
  <2>1. x \in 0 .. n - 1 /\ Seat(index) = x + 1
    BY <1>6, <1>8, <1>12
  <2>2. /\ InOrder(1) = order[(IF x = n - 1 THEN 0 ELSE x + 1) + 1]
        /\ InOrder(-1) = order[(IF x = 0 THEN n - 1 ELSE x - 1) + 1]
    BY <1>7, <1>8, <1>10, <2>1
  <2>3. \A k \in 1..n : Seat(order[k]) = k
    BY <1>4
  <2>4. Seat(InOrder(1)) = (IF x = n - 1 THEN 0 ELSE x + 1) + 1
    <3>1. (IF x = n - 1 THEN 0 ELSE x + 1) + 1 \in 1..n
      BY <2>1
    <3>2. QED
      BY <2>2, <2>3, <3>1
  <2>5. Seat(InOrder(-1)) = (IF x = 0 THEN n - 1 ELSE x - 1) + 1
    <3>1. (IF x = 0 THEN n - 1 ELSE x - 1) + 1 \in 1..n
      BY <2>1
    <3>2. QED
      BY <2>2, <2>3, <3>1
  <2>6. QED
    BY <2>1, <2>4, <2>5
<1>13. QED
  BY <1>1, <1>11, <1>12

\* Where next() and prev() want to go.
Following == IF shuffle THEN InOrder(1) ELSE Plus(index, 1)
Preceding == IF shuffle THEN InOrder(-1) ELSE Plus(index, -1)
NextTarget == IF AtLeast(Following, Len(queue)) THEN 0 ELSE Following
PrevTarget == IF Below(Preceding, 0) THEN Len(queue) - 1 ELSE Preceding

Ordered == ~shuffle \/ order # <<>>

\* Indexes are numbers or one of the three oddities, which are distinct.
LEMMA OddFacts ==
  ASSUME NEW q \in Seq(Tracks)
  PROVE  /\ Positions(q) \subseteq Nat /\ Positions(q) \cap {Undefined, NaN, Null} = {}
         /\ -1 \notin Positions(q) /\ -1 \notin {Undefined, NaN, Null}
         /\ Null \notin Lost
         /\ q # <<>> => Len(q) - 1 \in Positions(q) /\ 0 \in Positions(q)
<1>1. PICK n \in Nat : n = Len(q) /\ (q # <<>> => n > 0)
  OBVIOUS
<1>2. Positions(q) = 0 .. n - 1
  BY <1>1 DEF Positions
<1>3. Undefined \notin Int /\ NaN \notin Int /\ Null \notin Int
  BY OddAssumption
<1>4. Null \notin Lost
  BY OddAssumption DEF Lost
<1>5. QED
  BY <1>1, <1>2, <1>3, <1>4

\* next() goes to the track behind the current one in the order, or gets lost.
LEMMA NextTargetFacts ==
  ASSUME IInv, queue # <<>>
  PROVE  \/ /\ NextTarget \in Lost /\ NextTarget \notin Positions(queue)
            /\ (~Ordered) \/ index \in Lost
         \/ /\ NextTarget \in Positions(queue) /\ Ordered
            /\ Current => Seat(NextTarget) = IF Seat(index) = Len(queue) THEN 1 ELSE Seat(index) + 1
<1>1. PICK n \in Nat \ {0} : n = Len(queue)
  BY DEF IInv, TypeOK
<1>2. queue \in Seq(Tracks) /\ Positions(queue) = 0 .. n - 1
  BY <1>1 DEF IInv, TypeOK, Positions
<1>3. shuffle \in BOOLEAN /\ (order = <<>> \/ order \in Orders(Len(queue), TRUE))
      /\ index \in 0 .. n - 1 \cup {-1, Undefined, NaN, Null}
  BY <1>2 DEF IInv, TypeOK, OrderInv, IndexInv
<1>4. CASE shuffle /\ order # <<>>
  <2>1. Following \in 0 .. n - 1
        /\ (Current => Seat(Following) = IF Seat(index) = Len(queue) THEN 1 ELSE Seat(index) + 1)
    BY <1>2, <1>3, <1>4, InOrderFacts DEF Following
  <2>2. NextTarget = Following
    BY <1>1, <2>1 DEF NextTarget, AtLeast
  <2>3. QED
    BY <1>2, <1>4, <2>1, <2>2 DEF Ordered
<1>5. CASE shuffle /\ order = <<>>
  <2>1. Following = Undefined
    BY <1>5 DEF Following, InOrder
  <2>2. NextTarget = Undefined
    BY <2>1 DEF NextTarget, AtLeast, Lost
  <2>3. QED
    BY <1>2, <1>5, <2>2, OddFacts DEF Ordered, Lost
<1>6. CASE ~shuffle /\ index \in Lost
  <2>1. Following = NaN
    BY <1>6 DEF Following, Plus
  <2>2. NextTarget = NaN
    BY <2>1 DEF NextTarget, AtLeast, Lost
  <2>3. QED
    BY <1>2, <1>6, <2>2, OddFacts DEF Lost
<1>7. CASE ~shuffle /\ index \notin Lost
  <2>1. Following = IF index = Null THEN 1 ELSE index + 1
    BY <1>7 DEF Following, Plus
  <2>2. index = Null \/ index \in -1 .. n - 1
    BY <1>3, <1>7 DEF Lost
  <2>3. Following \in 0 .. n
    BY <2>1, <2>2
  <2>4. Following \notin Lost
    BY <2>3, OddAssumption DEF Lost
  <2>5. NextTarget = IF Following = n THEN 0 ELSE Following
    BY <1>1, <2>3, <2>4 DEF NextTarget, AtLeast
  <2>6. Current => index \in 0 .. n - 1 /\ index # Null
    BY <1>2, OddAssumption DEF Current
  <2>7. QED
    BY <1>1, <1>2, <1>7, <2>1, <2>3, <2>5, <2>6 DEF Ordered, Seat
<1>8. QED
  BY <1>3, <1>4, <1>5, <1>6, <1>7

\* prev() goes to the track before the current one in the order, or gets lost.
LEMMA PrevTargetFacts ==
  ASSUME IInv, queue # <<>>
  PROVE  \/ /\ PrevTarget \in Lost /\ PrevTarget \notin Positions(queue)
            /\ (~Ordered) \/ index \in Lost
         \/ /\ PrevTarget \in Positions(queue) /\ Ordered
            /\ Current => Seat(PrevTarget) = IF Seat(index) = 1 THEN Len(queue) ELSE Seat(index) - 1
<1>1. PICK n \in Nat \ {0} : n = Len(queue)
  BY DEF IInv, TypeOK
<1>2. queue \in Seq(Tracks) /\ Positions(queue) = 0 .. n - 1
  BY <1>1 DEF IInv, TypeOK, Positions
<1>3. shuffle \in BOOLEAN /\ (order = <<>> \/ order \in Orders(Len(queue), TRUE))
      /\ index \in 0 .. n - 1 \cup {-1, Undefined, NaN, Null}
  BY <1>2 DEF IInv, TypeOK, OrderInv, IndexInv
<1>4. CASE shuffle /\ order # <<>>
  <2>1. Preceding \in 0 .. n - 1
        /\ (Current => Seat(Preceding) = IF Seat(index) = 1 THEN Len(queue) ELSE Seat(index) - 1)
    BY <1>2, <1>3, <1>4, InOrderFacts DEF Preceding
  <2>2. PrevTarget = Preceding
    BY <2>1 DEF PrevTarget, Below
  <2>3. QED
    BY <1>2, <1>4, <2>1, <2>2 DEF Ordered
<1>5. CASE shuffle /\ order = <<>>
  <2>1. Preceding = Undefined
    BY <1>5 DEF Preceding, InOrder
  <2>2. PrevTarget = Undefined
    BY <2>1 DEF PrevTarget, Below, Lost
  <2>3. QED
    BY <1>2, <1>5, <2>2, OddFacts DEF Ordered, Lost
<1>6. CASE ~shuffle /\ index \in Lost
  <2>1. Preceding = NaN
    BY <1>6 DEF Preceding, Plus
  <2>2. PrevTarget = NaN
    BY <2>1 DEF PrevTarget, Below, Lost
  <2>3. QED
    BY <1>2, <1>6, <2>2, OddFacts DEF Lost
<1>7. CASE ~shuffle /\ index \notin Lost
  <2>1. Preceding = IF index = Null THEN -1 ELSE index + (-1)
    BY <1>7 DEF Preceding, Plus
  <2>2. index = Null \/ index \in -1 .. n - 1
    BY <1>3, <1>7 DEF Lost
  <2>3. Preceding \in -2 .. n - 2
    BY <2>1, <2>2
  <2>4. Preceding \notin Lost
    BY <2>3, OddAssumption DEF Lost
  <2>5. PrevTarget = IF Preceding < 0 THEN n - 1 ELSE Preceding
    BY <1>1, <2>3, <2>4 DEF PrevTarget, Below
  <2>6. Current => index \in 0 .. n - 1 /\ index # Null
    BY <1>2, OddAssumption DEF Current
  <2>7. QED
    BY <1>1, <1>2, <1>7, <2>1, <2>3, <2>5, <2>6 DEF Ordered, Seat
<1>8. QED
  BY <1>3, <1>4, <1>5, <1>6, <1>7

-----------------------------------------------------------------------------
(* What a step does: to the element and its button, and to the queue.       *)

\* A button b beside an element a in a page that may (m) or may not play.
Truthful(a, b, m) ==
  /\ a \in AudioStates /\ b \in Buttons
  /\ ~b.due => (b.label = "Play" <=> a.paused)
  /\ ~m => b.label = "Play" /\ a.paused

\* The queue and its order stay, and so does the player's place in it,
Rests == UNCHANGED <<index, saved, heard>> /\ audio'.src = audio.src

\* or the index is lost, in a page that was restored,
Strays ==
  /\ queue # <<>> /\ index' \in Lost /\ index' \notin Positions(queue) /\ (index \notin Lost => ~Ordered)
  /\ heard' = <<>> /\ saved' = saved /\ audio'.src = audio.src

\* or another track is loaded: one picked, the next one or the one before.
Lands(i) ==
  /\ i \in Positions(queue) /\ index' = i
  /\ saved' = [queue |-> queue, index |-> i] /\ audio'.src = queue[i + 1]
  /\ \/ heard' = <<i>>
     \/ /\ heard' = HeardNext(i) /\ Ordered
        /\ Current => Seat(i) = IF Seat(index) = Len(queue) THEN 1 ELSE Seat(index) + 1
     \/ /\ Len(heard) > 1 /\ heard[Len(heard) - 1] = i /\ heard' = Front(heard)

Walks == /\ UNCHANGED <<queue, order, shuffle, restored>>
         /\ Rests \/ Strays \/ \E i \in Positions(queue) : Lands(i)

\* The queue is replaced,
Chooses(q, i) ==
  /\ q \in Seq(Tracks) /\ Len(q) \in 1..MaxQueue /\ i \in Positions(q)
  /\ queue' = q /\ index' = i /\ heard' = <<i>>
  /\ order' \in Orders(Len(q), shuffle) /\ restored' = FALSE /\ shuffle' = shuffle
  /\ saved' = [queue |-> q, index |-> i] /\ audio'.src = q[i + 1]

HeardHere == heard' = IF index \in Positions(queue) THEN <<index>> ELSE <<>>

\* extended,
Adds(t) ==
  /\ t \in Tracks /\ Len(queue) < MaxQueue
  /\ queue' = Append(queue, t) /\ index' = index /\ HeardHere
  /\ order' \in Orders(Len(queue) + 1, shuffle) /\ restored' = FALSE /\ shuffle' = shuffle
  /\ saved' = [queue |-> queue', index |-> Stored(index)] /\ audio'.src = audio.src

\* reordered
Reshuffles ==
  /\ UNCHANGED <<queue, index, saved>> /\ HeardHere /\ audio'.src = audio.src
  /\ shuffle' \in BOOLEAN /\ order' \in Orders(Len(queue), shuffle') /\ restored' = FALSE

\* or restored.
Restores == _restoreState /\ order' = <<>> /\ restored' = TRUE /\ shuffle' = shuffle

Moves == \/ Walks \/ Reshuffles \/ Restores
         \/ \E q \in Seq(Tracks) : \E i \in Positions(q) : Chooses(q, i)
         \/ \E t \in Tracks : Adds(t)

\* The state of the element before the step.
LEMMA SoundFacts ==
  ASSUME IInv
  PROVE  /\ Truthful(audio, button, mayPlay) /\ audio \in AudioStates /\ button \in Buttons
         /\ mayPlay \in BOOLEAN
BY DEF IInv, TypeOK, AudioStates, Buttons, Truthful, ButtonInv, ButtonTellsTruth

\* A track is loaded, and started exactly when the page may play.
LEMMA LoadFacts ==
  ASSUME audio \in AudioStates, NEW b \in Buttons, mayPlay' \in BOOLEAN,
         ~mayPlay' => b.label = "Play",
         NEW q \in Seq(Tracks), NEW i \in Positions(q), NEW autoplay \in BOOLEAN,
         autoplay <=> mayPlay', _loadTrack(q, i, autoplay, b)
  PROVE  /\ Truthful(audio', button', mayPlay')
         /\ audio'.src = q[i + 1] /\ saved' = [queue |-> q, index |-> i]
<1>1. q[i + 1] \in Tracks
  <2>1. PICK n \in Nat : n = Len(q) /\ i \in 0 .. n - 1
    BY DEF Positions
  <2>2. i + 1 \in 1..n
    BY <2>1
  <2>3. QED
    BY <2>1, <2>2, ElementOfSeq
<1>2. audio' = [audio EXCEPT !.src = q[i + 1], !.state = "loading",
                             !.paused = ~autoplay, !.late = FALSE]
  BY DEF _loadTrack
<1>3. audio' \in AudioStates /\ audio'.src = q[i + 1] /\ (audio'.paused <=> ~autoplay)
  BY <1>1, <1>2 DEF AudioStates
<1>4. button' \in Buttons /\ button'.label = b.label /\ (button'.due <=> autoplay)
  BY DEF _loadTrack, Buttons
<1>5. b.label \in {"Play", "Pause"}
  BY DEF Buttons
<1>6. QED
  BY <1>3, <1>4, <1>5 DEF Truthful, _loadTrack

\* A pause, with its event.
LEMMA PauseFacts ==
  ASSUME NEW a, NEW b, NEW m, Truthful(a, b, m), Pause(a, b)
  PROVE  Truthful(audio', button', m) /\ audio'.src = a.src
<1>1. a \in AudioStates /\ b \in Buttons
  BY DEF Truthful
<1>2. audio' \in AudioStates /\ audio'.paused /\ audio'.src = a.src
  BY <1>1 DEF Pause, AudioStates
<1>3. button' \in Buttons /\ button'.label = b.label /\ (button'.due <=> b.due \/ ~a.paused)
  BY <1>1 DEF Pause, Buttons
<1>4. QED
  BY <1>2, <1>3 DEF Truthful

\* next(), whoever calls it.
LEMMA NextFacts ==
  ASSUME IInv, mayPlay' \in BOOLEAN, NEW a, NEW b, Truthful(a, b, mayPlay'), a.src = audio.src,
         next(a, b)
  PROVE  /\ Truthful(audio', button', mayPlay')
         /\ Rests \/ Strays \/ \E i \in Positions(queue) : Lands(i)
<1>0. queue \in Seq(Tracks) /\ audio \in AudioStates /\ b \in Buttons /\ (~mayPlay' => b.label = "Play")
  BY SoundFacts DEF IInv, TypeOK, Truthful
<1>1. CASE audio' = a /\ button' = b /\ UNCHANGED <<index, saved, heard>>
  BY <1>1 DEF Rests
<1>2. CASE Pause(a, b) /\ UNCHANGED <<index, saved, heard>>
  BY <1>2, PauseFacts DEF Rests
<1>3. ASSUME queue # <<>>, GoTo(NextTarget, a, b), heard' = HeardNext(NextTarget)
      PROVE  /\ Truthful(audio', button', mayPlay')
             /\ Rests \/ Strays \/ \E i \in Positions(queue) : Lands(i)
  <2>1. CASE NextTarget \in Positions(queue)
    <3>1. index' = NextTarget /\ _loadTrack(queue, NextTarget, mayPlay', b)
      BY <1>3, <2>1 DEF GoTo
    <3>2. /\ Truthful(audio', button', mayPlay') /\ audio'.src = queue[NextTarget + 1]
          /\ saved' = [queue |-> queue, index |-> NextTarget]
      BY <1>0, <2>1, <3>1, LoadFacts
    <3>3. /\ Ordered
          /\ Current => Seat(NextTarget) = IF Seat(index) = Len(queue) THEN 1 ELSE Seat(index) + 1
      BY <1>3, <2>1, NextTargetFacts
    <3>4. Lands(NextTarget)
      BY <1>3, <2>1, <3>1, <3>2, <3>3 DEF Lands
    <3>5. QED
      BY <2>1, <3>2, <3>4
  <2>2. CASE NextTarget \notin Positions(queue)
    <3>1. index' = NextTarget /\ audio' = a /\ button' = b /\ saved' = saved
      BY <1>3, <2>2 DEF GoTo
    <3>2. heard' = <<>>
      BY <1>3, <2>2 DEF HeardNext
    <3>3. NextTarget \in Lost /\ (index \notin Lost => ~Ordered)
      BY <1>3, <2>2, NextTargetFacts
    <3>4. QED
      BY <1>3, <2>2, <3>1, <3>2, <3>3 DEF Strays
  <2>3. QED
    BY <2>1, <2>2
<1>4. QED
  BY <1>1, <1>2, <1>3 DEF next, NextTarget, Following

\* A step that leaves the queue and the button alone.
LEMMA RestMoves ==
  ASSUME IInv, UNCHANGED <<queue, index, order, shuffle, button, saved, heard, restored>>,
         audio' \in AudioStates, audio'.paused <=> audio.paused, audio'.src = audio.src,
         mayPlay' = mayPlay \/ mayPlay' = TRUE
  PROVE  Truthful(audio', button', mayPlay') /\ Moves
<1>1. Truthful(audio, button, mayPlay)
  BY SoundFacts
<1>2. Truthful(audio', button', mayPlay')
  BY <1>1 DEF Truthful
<1>3. QED
  BY <1>2 DEF Rests, Walks, Moves

\* A step that replaces the queue.
LEMMA ChooseMoves ==
  ASSUME IInv, mayPlay' = mayPlay \/ mayPlay' = TRUE, shuffle' = shuffle,
         NEW q \in Seq(Tracks), Len(q) \in 1..MaxQueue, NEW i \in Positions(q), Choose(q, i)
  PROVE  Truthful(audio', button', mayPlay') /\ Moves
<1>1. /\ Truthful(audio, button, mayPlay) /\ audio \in AudioStates /\ button \in Buttons
      /\ mayPlay' \in BOOLEAN
  BY SoundFacts
<1>2. ~mayPlay' => button.label = "Play"
  BY <1>1 DEF Truthful
<1>3. _loadTrack(q, i, mayPlay', button)
  BY DEF Choose
<1>4. /\ Truthful(audio', button', mayPlay') /\ audio'.src = q[i + 1]
      /\ saved' = [queue |-> q, index |-> i]
  BY <1>1, <1>2, <1>3, LoadFacts
<1>5. Chooses(q, i)
  BY <1>4 DEF Choose, Chooses
<1>6. QED
  BY <1>4, <1>5 DEF Moves

\* What a new page makes of the copy.
LEMMA RestoreFacts ==
  ASSUME IInv, _restoreState
  PROVE  /\ audio' \in AudioStates /\ audio'.paused
         /\ queue' \in Seq(Tracks) /\ Len(queue') <= MaxQueue
         /\ index' \in Positions(queue') \cup {-1, Null}
         /\ index' \in Positions(queue') => audio'.src = queue'[index' + 1]
<1>1. queue' = saved.queue /\ index' = IF saved.index = Undefined THEN -1 ELSE saved.index
  BY DEF _restoreState
<1>2. queue' \in Seq(Tracks) /\ Len(queue') <= MaxQueue
      /\ saved.index \in Positions(queue') \cup {-1, Undefined, Null}
  BY <1>1 DEF IInv, TypeOK, SavedInv
<1>3. Silent \in AudioStates /\ Silent.paused
  BY DEF Silent, AudioStates
<1>4. CASE index' \in Positions(queue')
  <2>1. PICK n \in Nat : n = Len(queue') /\ Positions(queue') = 0 .. n - 1
    BY <1>2 DEF Positions
  <2>2. queue'[index' + 1] \in Tracks
    BY <1>2, <1>4, <2>1, ElementOfSeq
  <2>3. audio' = [Silent EXCEPT !.src = queue'[index' + 1], !.state = "loading"]
    BY <1>4 DEF _restoreState
  <2>4. audio' \in AudioStates /\ audio'.paused /\ audio'.src = queue'[index' + 1]
    BY <1>3, <2>2, <2>3 DEF AudioStates
  <2>5. QED
    BY <1>1, <1>2, <1>4, <2>4
<1>5. CASE index' \notin Positions(queue')
  <2>1. audio' = Silent
    BY <1>5 DEF _restoreState
  <2>2. QED
    BY <1>1, <1>2, <1>3, <1>5, <2>1
<1>6. QED
  BY <1>4, <1>5

\* Every step is one of these, and leaves a button that does not lie.
LEMMA StepKinds == IInv /\ [Next]_vars => Truthful(audio', button', mayPlay') /\ Moves
<1> SUFFICES ASSUME IInv, [Next]_vars PROVE Truthful(audio', button', mayPlay') /\ Moves
  OBVIOUS
<1>0. /\ Truthful(audio, button, mayPlay) /\ audio \in AudioStates /\ button \in Buttons
      /\ mayPlay \in BOOLEAN /\ queue \in Seq(Tracks)
  BY SoundFacts DEF IInv, TypeOK
<1> USE <1>0
<1>1. ASSUME NEW q \in Lists, NEW i \in Positions(q), PlaySong(q, i)
      PROVE  Truthful(audio', button', mayPlay') /\ Moves
  <2>1. q \in Seq(Tracks) /\ Len(q) \in 1..MaxQueue
    BY ListsAssumption
  <2>2. mayPlay' = TRUE /\ Choose(q, i) /\ shuffle' = shuffle
    BY <1>1 DEF PlaySong, Click, settings
  <2>3. QED
    BY <2>1, <2>2, ChooseMoves
<1>2. ASSUME NEW t \in Tracks, playTrack(t)
      PROVE  Truthful(audio', button', mayPlay') /\ Moves
  <2>1. <<t>> \in Seq(Tracks) /\ Len(<<t>>) = 1 /\ Len(<<t>>) \in 1..MaxQueue /\ 0 \in Positions(<<t>>)
    BY MaxQueueAssumption DEF Positions
  <2>2. mayPlay' = TRUE /\ Choose(<<t>>, 0) /\ shuffle' = shuffle
    BY <1>2 DEF playTrack, PlaySong, Click, settings
  <2>3. QED
    BY <2>1, <2>2, ChooseMoves
<1>3. ASSUME NEW t \in Tracks, addToQueue(t)
      PROVE  Truthful(audio', button', mayPlay') /\ Moves
  <2>1. mayPlay' = TRUE /\ audio' = audio /\ button' = button
    BY <1>3 DEF addToQueue, Click
  <2>2. Truthful(audio', button', mayPlay')
    BY <2>1 DEF Truthful
  <2>3. Adds(t)
    BY <1>3 DEF addToQueue, Adds, HeardHere, settings
  <2>4. QED
    BY <2>2, <2>3 DEF Moves
<1>4. ASSUME NEW i \in Positions(queue), play(i)
      PROVE  Truthful(audio', button', mayPlay') /\ Moves
  <2>1. mayPlay' = TRUE /\ index' = i /\ heard' = <<i>> /\ _loadTrack(queue, i, TRUE, button)
        /\ UNCHANGED <<queue, order, shuffle, restored>>
    BY <1>4 DEF play, Click, settings
  <2>2. /\ Truthful(audio', button', mayPlay') /\ audio'.src = queue[i + 1]
        /\ saved' = [queue |-> queue, index |-> i]
    BY <2>1, LoadFacts
  <2>3. QED
    BY <2>1, <2>2 DEF Lands, Walks, Moves
<1>5. ASSUME NEW l \in Lists, PlayAlbum(l)
      PROVE  Truthful(audio', button', mayPlay') /\ Moves
  <2>1. mayPlay' = TRUE /\ UNCHANGED <<queue, index, order, shuffle, audio, button, saved, heard, restored>>
    BY <1>5 DEF PlayAlbum, Click, settings
  <2>2. QED
    BY <2>1, RestMoves
<1>6. CASE togglePlay
  <2>0. mayPlay' = TRUE /\ UNCHANGED <<queue, order, shuffle, restored>>
    BY <1>6 DEF togglePlay, Click, settings
  <2>1. ASSUME queue # <<>>, index' = 0, heard' = << 0 >>, _loadTrack(queue, 0, TRUE, button)
        PROVE  Truthful(audio', button', mayPlay') /\ Moves
    <3>1. 0 \in Positions(queue)
      BY <2>1, OddFacts
    <3>2. /\ Truthful(audio', button', mayPlay') /\ audio'.src = queue[0 + 1]
          /\ saved' = [queue |-> queue, index |-> 0]
      BY <2>0, <2>1, <3>1, LoadFacts
    <3>3. QED
      BY <2>0, <2>1, <3>1, <3>2 DEF Lands, Walks, Moves
  <2>2. CASE ResumeAudio
    <3>1. UNCHANGED <<index, saved, heard>>
      BY <2>2 DEF ResumeAudio
    <3>2. CASE audio' = [audio EXCEPT !.paused = FALSE] /\ button' = [button EXCEPT !.due = TRUE]
      <4>1. audio' \in AudioStates /\ audio'.src = audio.src
        BY <3>2 DEF AudioStates
      <4>2. button' \in Buttons /\ button'.due
        BY <3>2 DEF Buttons
      <4>3. QED
        BY <2>0, <3>1, <4>1, <4>2 DEF Truthful, Rests, Walks, Moves
    <3>3. CASE UNCHANGED <<audio, button>>
      BY <2>0, <3>1, <3>3, RestMoves
    <3>4. QED
      BY <2>2, <3>2, <3>3 DEF ResumeAudio
  <2>3. CASE Pause(audio, button) /\ UNCHANGED <<index, saved, heard>>
    <3>1. Truthful(audio, button, mayPlay')
      BY <2>0 DEF Truthful
    <3>2. Truthful(audio', button', mayPlay') /\ audio'.src = audio.src
      BY <2>3, <3>1, PauseFacts
    <3>3. QED
      BY <2>0, <2>3, <3>2 DEF Rests, Walks, Moves
  <2>4. QED
    BY <1>6, <2>1, <2>2, <2>3 DEF togglePlay
<1>7. CASE NextButton
  <2>1. mayPlay' = TRUE /\ next(audio, button) /\ UNCHANGED <<queue, order, shuffle, restored>>
    BY <1>7 DEF NextButton, Click, settings
  <2>2. Truthful(audio, button, mayPlay')
    BY <2>1 DEF Truthful
  <2>3. QED
    BY <2>1, <2>2, NextFacts DEF Walks, Moves
<1>8. CASE prev
  <2>1. mayPlay' = TRUE /\ UNCHANGED <<queue, order, shuffle, restored>>
    BY <1>8 DEF prev, Click, settings
  <2>2. CASE Rewind
    <3>1. audio' \in AudioStates /\ (audio'.paused <=> audio.paused) /\ audio'.src = audio.src
      BY <2>2 DEF Rewind, AudioStates
    <3>2. QED
      BY <2>1, <2>2, <3>1, RestMoves DEF Rewind
  <2>3. CASE UNCHANGED <<index, audio, button, saved, heard>>
    BY <2>1, <2>3, RestMoves
  <2>4. ASSUME queue # <<>>, GoTo(PrevTarget, audio, button),
               heard' = IF Len(heard) > 1 /\ heard[Len(heard) - 1] = PrevTarget THEN Front(heard)
                        ELSE IF PrevTarget \in Positions(queue) THEN <<PrevTarget>> ELSE <<>>
        PROVE  Truthful(audio', button', mayPlay') /\ Moves
    <3>1. CASE PrevTarget \in Positions(queue)
      <4>1. index' = PrevTarget /\ _loadTrack(queue, PrevTarget, mayPlay', button)
        BY <2>4, <3>1 DEF GoTo
      <4>2. /\ Truthful(audio', button', mayPlay') /\ audio'.src = queue[PrevTarget + 1]
            /\ saved' = [queue |-> queue, index |-> PrevTarget]
        BY <2>1, <3>1, <4>1, LoadFacts
      <4>3. Lands(PrevTarget)
        BY <2>4, <3>1, <4>1, <4>2 DEF Lands
      <4>4. QED
        BY <2>1, <3>1, <4>2, <4>3 DEF Walks, Moves
    <3>2. CASE PrevTarget \notin Positions(queue)
      <4>1. index' = PrevTarget /\ audio' = audio /\ button' = button /\ saved' = saved
        BY <2>4, <3>2 DEF GoTo
      <4>2. \A k \in 1..Len(heard) : heard[k] \in Positions(queue)
        BY DEF IInv, HeardInv
      <4>3. heard \in Seq(0 .. MaxQueue - 1)
        BY DEF IInv, TypeOK
      <4>4. PICK m \in Nat : m = Len(heard)
        BY <4>3
      <4>5. ~(m > 1 /\ heard[m - 1] = PrevTarget)
        BY <3>2, <4>2, <4>4
      <4>6. heard' = <<>>
        BY <2>4, <3>2, <4>4, <4>5
      <4>7. PrevTarget \in Lost /\ (index \notin Lost => ~Ordered)
        BY <2>4, <3>2, PrevTargetFacts
      <4>8. Truthful(audio', button', mayPlay')
        BY <2>1, <4>1 DEF Truthful
      <4>9. QED
        BY <2>1, <2>4, <3>2, <4>1, <4>6, <4>7, <4>8 DEF Strays, Walks, Moves
    <3>3. QED
      BY <3>1, <3>2
  <2>5. QED
    BY <1>8, <2>2, <2>3, <2>4 DEF prev, PrevTarget, Preceding
<1>9. ASSUME NEW late \in BOOLEAN, seek(late)
      PROVE  Truthful(audio', button', mayPlay') /\ Moves
  <2>1. mayPlay' = TRUE /\ UNCHANGED <<queue, index, order, shuffle, button, saved, heard, restored>>
    BY <1>9 DEF seek, Click, settings
  <2>2. audio' \in AudioStates /\ (audio'.paused <=> audio.paused) /\ audio'.src = audio.src
    BY <1>9 DEF seek, AudioStates
  <2>3. QED
    BY <2>1, <2>2, RestMoves
<1>10. CASE _toggleShuffle
  <2>1. mayPlay' = TRUE /\ audio' = audio /\ button' = button
    BY <1>10 DEF _toggleShuffle, Click
  <2>2. Truthful(audio', button', mayPlay')
    BY <2>1 DEF Truthful
  <2>3. shuffle' \in BOOLEAN
    BY <1>10 DEF _toggleShuffle
  <2>4. Reshuffles
    BY <1>10, <2>1, <2>3 DEF _toggleShuffle, Reshuffles, HeardHere
  <2>5. QED
    BY <2>2, <2>4 DEF Moves
<1>11. CASE _cycleRepeat
  <2>1. mayPlay' = TRUE /\ UNCHANGED <<queue, index, order, shuffle, button, saved, heard, restored>>
    BY <1>11 DEF _cycleRepeat, Click
  <2>2. (repeat' = "one") \in BOOLEAN
    OBVIOUS
  <2>3. audio' \in AudioStates /\ (audio'.paused <=> audio.paused) /\ audio'.src = audio.src
    BY <1>11, <2>2 DEF _cycleRepeat, AudioStates
  <2>4. QED
    BY <2>1, <2>3, RestMoves
<1>12. CASE Navigate
  <2>1. Restores
    BY <1>12 DEF Navigate, Restores, settings
  <2>2. button' = NewButton /\ mayPlay' \in BOOLEAN
    BY <1>12 DEF Navigate
  <2>3. audio' \in AudioStates /\ audio'.paused
    BY <2>1, RestoreFacts DEF Restores
  <2>4. NewButton \in Buttons /\ NewButton.label = "Play" /\ ~NewButton.due
    BY DEF NewButton, Buttons
  <2>5. QED
    BY <2>1, <2>2, <2>3, <2>4 DEF Truthful, Moves
<1>13. CASE Loaded
  <2>1. UNCHANGED <<queue, index, order, shuffle, button, saved, heard, restored, mayPlay>>
    BY <1>13 DEF Loaded, Browser, settings
  <2>2. audio' \in AudioStates /\ (audio'.paused <=> audio.paused) /\ audio'.src = audio.src
    BY <1>13 DEF Loaded, AudioStates
  <2>3. QED
    BY <2>1, <2>2, RestMoves
<1>14. CASE Progress
  <2>1. UNCHANGED <<queue, index, order, shuffle, button, saved, heard, restored, mayPlay>>
    BY <1>14 DEF Progress, Browser, settings
  <2>2. audio' \in AudioStates /\ (audio'.paused <=> audio.paused) /\ audio'.src = audio.src
    BY <1>14 DEF Progress, AudioStates
  <2>3. QED
    BY <2>1, <2>2, RestMoves
<1>15. CASE MediaError
  <2> DEFINE a == [audio EXCEPT !.state = "failed"]
  <2>1. mayPlay' = mayPlay /\ next(a, button) /\ UNCHANGED <<queue, order, shuffle, restored>>
    BY <1>15 DEF MediaError, Browser, settings
  <2>2. a \in AudioStates /\ (a.paused <=> audio.paused) /\ a.src = audio.src
    BY DEF AudioStates
  <2> HIDE DEF a
  <2>3. Truthful(a, button, mayPlay')
    BY <2>1, <2>2 DEF Truthful
  <2>4. QED
    BY <2>1, <2>2, <2>3, NextFacts DEF Walks, Moves
<1>16. CASE _onEnded
  <2>1. mayPlay' = mayPlay /\ ~audio.paused /\ UNCHANGED <<queue, order, shuffle, restored>>
    BY <1>16 DEF _onEnded, Playing, Browser, settings
  <2>2. mayPlay
    BY <2>1 DEF Truthful
  <2>3. CASE audio' = [audio EXCEPT !.late = FALSE] /\ UNCHANGED <<index, button, saved, heard>>
    <3>1. audio' \in AudioStates /\ (audio'.paused <=> audio.paused) /\ audio'.src = audio.src
      BY <2>3 DEF AudioStates
    <3>2. QED
      BY <2>1, <2>3, <3>1, RestMoves
  <2>4. CASE /\ audio' = [audio EXCEPT !.late = FALSE] /\ button' = [label |-> "Play", due |-> TRUE]
             /\ UNCHANGED <<index, saved, heard>>
    <3>1. audio' \in AudioStates /\ audio'.src = audio.src
      BY <2>4 DEF AudioStates
    <3>2. button' \in Buttons /\ button'.due
      BY <2>4 DEF Buttons
    <3>3. QED
      BY <2>1, <2>2, <2>4, <3>1, <3>2 DEF Truthful, Rests, Walks, Moves
  <2>5. ASSUME next([audio EXCEPT !.paused = TRUE, !.late = TRUE], [label |-> "Play", due |-> FALSE])
        PROVE  Truthful(audio', button', mayPlay') /\ Moves
    <3> DEFINE a == [audio EXCEPT !.paused = TRUE, !.late = TRUE]
               b == [label |-> "Play", due |-> FALSE]
    <3>1. a \in AudioStates /\ a.paused /\ a.src = audio.src
      BY DEF AudioStates
    <3>2. b \in Buttons /\ b.label = "Play"
      BY DEF Buttons
    <3>3. next(a, b)
      BY <2>5
    <3> HIDE DEF a, b
    <3>4. Truthful(a, b, mayPlay')
      BY <3>1, <3>2 DEF Truthful
    <3>5. QED
      BY <2>1, <3>1, <3>3, <3>4, NextFacts DEF Walks, Moves
  <2>6. QED
    BY <1>16, <2>3, <2>4, <2>5 DEF _onEnded
<1>17. CASE _onStateChange
  <2>1. UNCHANGED <<queue, index, order, shuffle, audio, saved, heard, restored, mayPlay>>
        /\ button' = [label |-> IF audio.paused THEN "Play" ELSE "Pause", due |-> FALSE]
    BY <1>17 DEF _onStateChange, Browser, settings
  <2>2. button' \in Buttons /\ (button'.label = "Play" <=> audio.paused)
    BY <2>1 DEF Buttons
  <2>3. QED
    BY <2>1, <2>2 DEF Truthful, Rests, Walks, Moves
<1>18. ASSUME NEW l \in Lists, AlbumArrives(l)
      PROVE  Truthful(audio', button', mayPlay') /\ Moves
  <2>1. l \in Seq(Tracks) /\ Len(l) \in 1..MaxQueue /\ l # <<>>
    BY ListsAssumption
  <2>2. 0 \in Positions(l)
    BY <2>1 DEF Positions
  <2>3. mayPlay' = mayPlay /\ Choose(l, 0) /\ shuffle' = shuffle
    BY <1>18 DEF AlbumArrives, settings
  <2>4. QED
    BY <2>1, <2>2, <2>3, ChooseMoves
<1>19. ASSUME NEW l \in Lists, AlbumFails(l)
      PROVE  Truthful(audio', button', mayPlay') /\ Moves
  <2>1. UNCHANGED <<queue, index, order, shuffle, audio, button, saved, heard, restored, mayPlay>>
    BY <1>19 DEF AlbumFails, Browser, settings
  <2>2. QED
    BY <2>1, RestMoves
<1>20. CASE UNCHANGED vars
  <2>1. UNCHANGED <<queue, index, order, shuffle, audio, button, saved, heard, restored, mayPlay>>
    BY <1>20 DEF vars, settings
  <2>2. QED
    BY <2>1, RestMoves
<1>21. QED
  BY <1>1, <1>2, <1>3, <1>4, <1>5, <1>6, <1>7, <1>8, <1>9, <1>10, <1>11, <1>12, <1>13, <1>14, <1>15, <1>16, <1>17, <1>18, <1>19, <1>20 DEF Next, User, Media, Answer

-----------------------------------------------------------------------------
(* The queue, the place in it and the copy.                                 *)

PlaceInv ==
  /\ queue \in Seq(Tracks) /\ Len(queue) <= MaxQueue
  /\ saved.queue \in Seq(Tracks) /\ restored \in BOOLEAN
  /\ IndexInv /\ SavedInv /\ OrderInv /\ AudioIsCurrent

\* What was heard is a sequence of positions.
Heard == heard \in Seq(Positions(queue)) /\ HeardInv

\* A longer queue keeps its tracks where they are.
LEMMA AppendFacts ==
  ASSUME NEW q \in Seq(Tracks), NEW t \in Tracks
  PROVE  /\ Append(q, t) \in Seq(Tracks) /\ Len(Append(q, t)) = Len(q) + 1
         /\ Append(q, t) # <<>>
         /\ Positions(q) \subseteq Positions(Append(q, t))
         /\ \A i \in Positions(q) : Append(q, t)[i + 1] = q[i + 1]
<1>1. PICK n \in Nat : n = Len(q) /\ Positions(q) = 0 .. n - 1
  BY DEF Positions
<1>2. /\ Append(q, t) \in Seq(Tracks) /\ Len(Append(q, t)) = n + 1 /\ Append(q, t) # <<>>
      /\ \A k \in 1..n : Append(q, t)[k] = q[k]
  BY <1>1
<1>3. Positions(Append(q, t)) = 0 .. n
  BY <1>2 DEF Positions
<1>4. QED
  BY <1>1, <1>2, <1>3

\* What every step leaves of the queue, the index, the order, the copy and the
\* track that is loaded.
LEMMA PlaceStep == IInv /\ [Next]_vars => PlaceInv'
<1> SUFFICES ASSUME IInv, [Next]_vars PROVE PlaceInv'
  OBVIOUS
<1>0. PlaceInv /\ shuffle \in BOOLEAN
  BY DEF IInv, TypeOK, PlaceInv
<1>1. CASE Walks
  <2>1. UNCHANGED <<queue, order, restored>>
    BY <1>1 DEF Walks
  <2>2. CASE Rests
    BY <1>0, <2>1, <2>2 DEF Rests, PlaceInv, IndexInv, SavedInv, OrderInv, AudioIsCurrent, Current, Positions
  <2>3. CASE Strays
    <3>1. index' \notin Positions(queue') /\ index' \in {Undefined, NaN}
      BY <2>1, <2>3 DEF Strays, Lost, Positions
    <3>2. IndexInv' /\ AudioIsCurrent' /\ SavedInv'
      BY <1>0, <2>1, <2>3, <3>1 DEF Strays, PlaceInv, IndexInv, AudioIsCurrent, SavedInv, Current
    <3>3. QED
      BY <1>0, <2>1, <2>3, <3>2 DEF Strays, PlaceInv, OrderInv
  <2>4. ASSUME NEW i \in Positions(queue), Lands(i)
        PROVE  PlaceInv'
    <3>1. index' = i /\ i \in Positions(queue') /\ saved'.queue = queue' /\ saved'.index = i
          /\ audio'.src = queue'[index' + 1]
      BY <2>1, <2>4 DEF Lands, Positions
    <3>2. QED
      BY <1>0, <2>1, <3>1 DEF PlaceInv, IndexInv, AudioIsCurrent, SavedInv, Current, OrderInv
  <2>5. QED
    BY <1>1, <2>2, <2>3, <2>4 DEF Walks
<1>2. CASE Reshuffles
  <2>1. UNCHANGED <<queue, index, saved>> /\ audio'.src = audio.src
    BY <1>2 DEF Reshuffles
  <2>2. IndexInv' /\ SavedInv' /\ AudioIsCurrent'
    BY <1>0, <2>1 DEF PlaceInv, IndexInv, SavedInv, AudioIsCurrent, Current, Positions
  <2>3. OrderInv'
    <3>1. PICK n \in Nat : n = Len(queue) /\ (queue # <<>> => n > 0)
      BY <1>0 DEF PlaceInv
    <3>2. shuffle' \in BOOLEAN /\ order' \in Orders(n, shuffle')
      BY <1>2, <3>1 DEF Reshuffles
    <3>3. order' \in Orders(n, TRUE) /\ (n > 0 => order' # <<>>)
      BY <3>2, OrderFacts
    <3>4. QED
      BY <2>1, <3>1, <3>3 DEF OrderInv
  <2>4. QED
    BY <1>0, <1>2, <2>1, <2>2, <2>3 DEF PlaceInv, Reshuffles
<1>3. CASE Restores
  <2>1. /\ queue' = saved.queue /\ saved' = saved /\ order' = <<>> /\ restored' = TRUE
        /\ index' = IF saved.index = Undefined THEN -1 ELSE saved.index
    BY <1>3 DEF Restores, _restoreState
  <2>2. /\ queue' \in Seq(Tracks) /\ Len(queue') <= MaxQueue
        /\ index' \in Positions(queue') \cup {-1, Null}
        /\ index' \in Positions(queue') => audio'.src = queue'[index' + 1]
    BY <1>3, RestoreFacts DEF Restores
  <2>3. IndexInv' /\ OrderInv' /\ AudioIsCurrent'
    BY <2>1, <2>2 DEF IndexInv, OrderInv, AudioIsCurrent, Current
  <2>4. index' \in Positions(queue') => saved'.queue = queue' /\ saved'.index = index'
    BY <2>1, <2>2, OddFacts
  <2>5. SavedInv'
    BY <1>0, <2>1, <2>4 DEF PlaceInv, SavedInv, Current
  <2>6. QED
    BY <1>0, <2>1, <2>2, <2>3, <2>5 DEF PlaceInv
<1>4. ASSUME NEW q \in Seq(Tracks), NEW i \in Positions(q), Chooses(q, i)
      PROVE  PlaceInv'
  <2>1. PICK n \in Nat \ {0} : n = Len(q) /\ n <= MaxQueue
    BY <1>4 DEF Chooses
  <2>2. queue' = q /\ index' = i /\ audio'.src = q[i + 1] /\ saved'.queue = q /\ saved'.index = i
        /\ restored' = FALSE
    BY <1>4 DEF Chooses
  <2>3. IndexInv' /\ SavedInv' /\ AudioIsCurrent'
    BY <2>1, <2>2 DEF IndexInv, SavedInv, AudioIsCurrent, Current
  <2>4. OrderInv'
    <3>1. order' \in Orders(n, shuffle)
      BY <1>4, <2>1 DEF Chooses
    <3>2. order' \in Orders(n, TRUE) /\ order' # <<>>
      BY <1>0, <2>1, <3>1, OrderFacts
    <3>3. QED
      BY <2>1, <2>2, <3>2 DEF OrderInv
  <2>5. QED
    BY <2>1, <2>2, <2>3, <2>4 DEF PlaceInv
<1>5. ASSUME NEW t \in Tracks, Adds(t)
      PROVE  PlaceInv'
  <2>0. queue \in Seq(Tracks) /\ IndexInv /\ AudioIsCurrent
    BY <1>0 DEF PlaceInv
  <2>1. PICK n \in Nat : n = Len(queue) /\ n < MaxQueue
    BY <1>5, <2>0 DEF Adds
  <2>2. queue' = Append(queue, t) /\ index' = index /\ audio'.src = audio.src /\ restored' = FALSE
        /\ saved'.queue = queue' /\ saved'.index = Stored(index)
    BY <1>5 DEF Adds
  <2>3. queue' \in Seq(Tracks) /\ Len(queue') = n + 1 /\ queue' # <<>> /\ n + 1 <= MaxQueue
        /\ Positions(queue) \subseteq Positions(queue')
        /\ \A i \in Positions(queue) : queue'[i + 1] = queue[i + 1]
    <3>1. /\ Append(queue, t) \in Seq(Tracks) /\ Len(Append(queue, t)) = Len(queue) + 1
          /\ Append(queue, t) # <<>>
          /\ Positions(queue) \subseteq Positions(Append(queue, t))
          /\ \A i \in Positions(queue) : Append(queue, t)[i + 1] = queue[i + 1]
      BY <2>0, AppendFacts
    <3>2. n + 1 <= MaxQueue
      BY <2>1, MaxQueueAssumption
    <3>3. QED
      BY <2>1, <2>2, <3>1, <3>2
  <2>4. index \in Positions(queue') => index \in Positions(queue)
    <3>1. Positions(queue') \cap {Undefined, NaN, Null} = {} /\ -1 \notin Positions(queue')
      BY <2>3, OddFacts
    <3>2. QED
      BY <2>0, <3>1 DEF IndexInv
  <2>5. IndexInv' /\ AudioIsCurrent'
    BY <2>0, <2>2, <2>3, <2>4 DEF IndexInv, AudioIsCurrent, Current
  <2>6. index \in Positions(queue) => Stored(index) = index
    BY <2>0, OddFacts DEF Stored
  <2>7. Stored(index) \in Positions(queue') \cup {-1, Undefined, Null}
    BY <2>0, <2>3 DEF IndexInv, Stored
  <2>8. SavedInv'
    BY <2>2, <2>3, <2>4, <2>6, <2>7 DEF SavedInv, Current
  <2>9. OrderInv'
    <3>1. PICK m \in Nat : m = n + 1 /\ m > 0
      BY <2>1
    <3>2. order' \in Orders(m, shuffle)
      BY <1>5, <2>1, <3>1 DEF Adds
    <3>3. order' \in Orders(m, TRUE) /\ order' # <<>>
      BY <1>0, <3>1, <3>2, OrderFacts
    <3>4. QED
      BY <2>3, <3>1, <3>3 DEF OrderInv
  <2>10. QED
    BY <2>2, <2>3, <2>5, <2>8, <2>9 DEF PlaceInv
<1>6. QED
  BY <1>1, <1>2, <1>3, <1>4, <1>5, StepKinds DEF Moves

-----------------------------------------------------------------------------
(* What was heard.                                                          *)

\* A sequence of positions that follows the order.
Follows(h) ==
  \A j, k \in 1..Len(h) : j < k => Seat(h[k]) - Seat(h[j]) \in {k - j, k - j - Len(queue)}

LEMMA NothingHeard ==
  ASSUME heard' = <<>>, queue' \in Seq(Tracks)
  PROVE  Heard'
<1>1. Len(heard') = 0 /\ heard' \in Seq(Positions(queue'))
  OBVIOUS
<1>2. Len(queue') \in Nat
  OBVIOUS
<1>3. QED
  BY <1>1, <1>2 DEF Heard, HeardInv

LEMMA OneHeard ==
  ASSUME queue' \in Seq(Tracks), index' \in Positions(queue'), heard' = <<index'>>
  PROVE  Heard'
<1>1. Len(heard') = 1 /\ heard' \in Seq(Positions(queue')) /\ heard'[1] = index'
  OBVIOUS
<1>2. PICK n \in Nat \ {0} : n = Len(queue')
  BY DEF Positions
<1>3. QED
  BY <1>1, <1>2 DEF Heard, HeardInv, Current

LEMMA TailFollows ==
  ASSUME NEW S, NEW h \in Seq(S), h # <<>>, Follows(h)
  PROVE  /\ Tail(h) \in Seq(S) /\ Len(Tail(h)) = Len(h) - 1 /\ Follows(Tail(h))
         /\ Tail(h) # <<>> => Tail(h)[Len(Tail(h))] = h[Len(h)]
<1>1. PICK m \in Nat \ {0} : m = Len(h)
  OBVIOUS
<1>2. /\ Tail(h) \in Seq(S) /\ Len(Tail(h)) = m - 1
      /\ \A k \in 1 .. m - 1 : Tail(h)[k] = h[k + 1]
  BY <1>1
<1>3. ASSUME NEW j \in 1 .. m - 1, NEW k \in 1 .. m - 1, j < k
      PROVE  Seat(Tail(h)[k]) - Seat(Tail(h)[j]) \in {k - j, k - j - Len(queue)}
  <2>1. Seat(h[k + 1]) - Seat(h[j + 1]) \in {(k + 1) - (j + 1), (k + 1) - (j + 1) - Len(queue)}
    BY <1>1, <1>3 DEF Follows
  <2>2. Tail(h)[k] = h[k + 1] /\ Tail(h)[j] = h[j + 1]
    BY <1>2
  <2>3. (k + 1) - (j + 1) = k - j
    OBVIOUS
  <2>4. QED
    BY <2>1, <2>2, <2>3
<1>4. Follows(Tail(h))
  BY <1>2, <1>3 DEF Follows
<1>5. Tail(h) # <<>> => m - 1 \in 1 .. m - 1
  BY <1>2
<1>6. QED
  BY <1>1, <1>2, <1>4, <1>5

LEMMA FrontFollows ==
  ASSUME NEW S, NEW h \in Seq(S), Len(h) > 1, Follows(h)
  PROVE  /\ Front(h) \in Seq(S) /\ Len(Front(h)) = Len(h) - 1 /\ Follows(Front(h))
         /\ Front(h) # <<>> /\ Front(h)[Len(Front(h))] = h[Len(h) - 1]
<1>1. PICK m \in Nat \ {0} : m = Len(h)
  OBVIOUS
<1>2. /\ Front(h) \in Seq(S) /\ Len(Front(h)) = m - 1
      /\ \A k \in 1 .. m - 1 : Front(h)[k] = h[k]
  BY <1>1, SubSeqProperties DEF Front
<1>3. Follows(Front(h))
  <2> SUFFICES ASSUME NEW j \in 1 .. m - 1, NEW k \in 1 .. m - 1, j < k
               PROVE  Seat(Front(h)[k]) - Seat(Front(h)[j]) \in {k - j, k - j - Len(queue)}
    BY <1>2 DEF Follows
  <2>1. j \in 1..Len(h) /\ k \in 1..Len(h) /\ Front(h)[k] = h[k] /\ Front(h)[j] = h[j]
    BY <1>1, <1>2
  <2>2. QED
    BY <2>1 DEF Follows
<1>4. QED
  BY <1>1, <1>2, <1>3

LEMMA AppendFollows ==
  ASSUME queue \in Seq(Tracks), NEW h \in Seq(Positions(queue)), Follows(h), Len(h) < Len(queue),
         NEW i \in Positions(queue),
         \A x \in Positions(queue) : Seat(x) \in 1..Len(queue),
         h # <<>> => Seat(i) = IF Seat(h[Len(h)]) = Len(queue) THEN 1 ELSE Seat(h[Len(h)]) + 1
  PROVE  /\ Append(h, i) \in Seq(Positions(queue)) /\ Len(Append(h, i)) = Len(h) + 1
         /\ Append(h, i)[Len(h) + 1] = i /\ Follows(Append(h, i))
<1>1. PICK m \in Nat, n \in Nat : m = Len(h) /\ n = Len(queue) /\ m < n
  OBVIOUS
<1>2. /\ Append(h, i) \in Seq(Positions(queue)) /\ Len(Append(h, i)) = m + 1
      /\ Append(h, i)[m + 1] = i /\ \A k \in 1..m : Append(h, i)[k] = h[k]
  BY <1>1
<1>3. \A k \in 1..m : h[k] \in Positions(queue) /\ Seat(h[k]) \in 1..n
  BY <1>1
<1>4. ASSUME NEW j \in 1..m
      PROVE  Seat(i) - Seat(h[j]) \in {m + 1 - j, m + 1 - j - n}
  <2>1. PICK last \in 1..n : last = Seat(h[m])
    BY <1>3, <1>4
  <2>2. Seat(i) = IF last = n THEN 1 ELSE last + 1
    BY <1>1, <1>4, <2>1
  <2>3. PICK s \in 1..n : s = Seat(h[j])
    BY <1>3
  <2>4. j < m => last - s \in {m - j, m - j - n}
    <3>1. j \in 1..Len(h) /\ m \in 1..Len(h)
      BY <1>1, <1>4
    <3>2. QED
      BY <1>1, <2>1, <2>3, <3>1 DEF Follows
  <2>5. j = m => last = s
    BY <2>1, <2>3
  <2>6. CASE last = n
    BY <1>1, <1>4, <2>1, <2>2, <2>3, <2>4, <2>5, <2>6
  <2>7. CASE last # n
    <3>1. Seat(i) = last + 1
      BY <2>2, <2>7
    <3>2. CASE j < m
      BY <2>1, <2>3, <2>4, <3>1, <3>2
    <3>3. CASE j = m
      BY <2>1, <2>3, <2>5, <3>1, <3>3
    <3>4. QED
      BY <1>1, <3>2, <3>3
  <2>8. QED
    BY <2>6, <2>7
<1>5. Follows(Append(h, i))
  <2> SUFFICES ASSUME NEW j \in 1 .. m + 1, NEW k \in 1 .. m + 1, j < k
               PROVE  Seat(Append(h, i)[k]) - Seat(Append(h, i)[j]) \in {k - j, k - j - n}
    BY <1>1, <1>2 DEF Follows
  <2>1. CASE k \in 1..m
    <3>1. j \in 1..m /\ Append(h, i)[j] = h[j] /\ Append(h, i)[k] = h[k]
      BY <1>2, <2>1
    <3>2. QED
      BY <1>1, <2>1, <3>1 DEF Follows
  <2>2. CASE k = m + 1
    <3>1. j \in 1..m /\ Append(h, i)[j] = h[j] /\ Append(h, i)[k] = i
      BY <1>2, <2>2
    <3>2. QED
      BY <1>4, <2>2, <3>1
  <2>3. QED
    BY <1>1, <2>1, <2>2
<1>6. QED
  BY <1>1, <1>2, <1>5

\* What was heard follows the order after every step: it grows by the next track,
\* shrinks by prev(), or starts anew.
LEMMA HeardStep == IInv /\ [Next]_vars => Heard'
<1> SUFFICES ASSUME IInv, [Next]_vars PROVE Heard'
  OBVIOUS
<1>0. PlaceInv' /\ queue' \in Seq(Tracks) /\ queue \in Seq(Tracks) /\ HeardInv
  BY PlaceStep DEF IInv, TypeOK, PlaceInv
<1>1. heard \in Seq(Positions(queue))
  <2>1. heard \in Seq(0 .. MaxQueue - 1) /\ \A k \in 1..Len(heard) : heard[k] \in Positions(queue)
    BY DEF IInv, TypeOK, HeardInv
  <2>2. QED
    BY <2>1
<1>2. PICK m \in Nat, n \in Nat : /\ m = Len(heard) /\ n = Len(queue) /\ m <= n
                                  /\ (m = 0 <=> heard = <<>>) /\ (n = 0 <=> queue = <<>>)
  BY <1>0, <1>1 DEF HeardInv
<1>3. Follows(heard)
  BY <1>0 DEF HeardInv, Follows
<1>4. CASE HeardHere /\ index' = index /\ Positions(queue) \subseteq Positions(queue')
  <2>1. CASE index \in Positions(queue)
    BY <1>0, <1>4, <2>1, OneHeard DEF HeardHere
  <2>2. CASE index \notin Positions(queue)
    BY <1>0, <1>4, <2>2, NothingHeard DEF HeardHere
  <2>3. QED
    BY <2>1, <2>2
<1>5. ASSUME UNCHANGED <<queue, order, shuffle>>,
             Follows(heard'), heard' \in Seq(Positions(queue)), heard' # <<>>, Len(heard') <= n,
             index' \in Positions(queue), heard'[Len(heard')] = index',
             Ordered \/ Len(heard') <= 1
      PROVE  Heard'
  <2>1. Positions(queue') = Positions(queue) /\ \A i : Seat(i)' = Seat(i)
    BY <1>5 DEF Positions, Seat
  <2>2. ASSUME NEW j \in 1..Len(heard'), NEW k \in 1..Len(heard'), j < k
        PROVE  Seat(heard[k])' - Seat(heard[j])' \in {k - j, k - j - Len(queue')}
    <3>1. Seat(heard'[k]) - Seat(heard'[j]) \in {k - j, k - j - Len(queue)}
      BY <1>5, <2>2 DEF Follows
    <3>2. Seat(heard[k])' = Seat(heard'[k]) /\ Seat(heard[j])' = Seat(heard'[j])
      BY <1>5 DEF Seat
    <3>3. QED
      BY <1>5, <3>1, <3>2
  <2>3. \A k \in 1..Len(heard') : heard'[k] \in Positions(queue')
    BY <1>5, <2>1
  <2>4. QED
    BY <1>2, <1>5, <2>1, <2>2, <2>3 DEF Heard, HeardInv, Follows, Current, Ordered
<1>6. CASE Walks
  <2>0. UNCHANGED <<queue, order, shuffle>>
    BY <1>6 DEF Walks
  <2>1. CASE Rests
    <3>1. heard' = heard /\ index' = index
      BY <2>1 DEF Rests
    <3>2. CASE heard = <<>>
      BY <1>0, <3>1, <3>2, NothingHeard
    <3>3. CASE heard # <<>>
      <4>1. index \in Positions(queue) /\ heard[Len(heard)] = index /\ (Ordered \/ Len(heard) <= 1)
        BY <1>0, <3>3 DEF HeardInv, Current, Ordered
      <4>2. QED
        BY <1>1, <1>2, <1>3, <1>5, <2>0, <3>1, <3>3, <4>1
    <3>4. QED
      BY <3>2, <3>3
  <2>2. CASE Strays
    BY <1>0, <2>2, NothingHeard DEF Strays
  <2>3. ASSUME NEW i \in Positions(queue), Lands(i)
        PROVE  Heard'
    <3>0. index' = i /\ i \in Positions(queue') /\ n > 0
      <4>1. index' = i
        BY <2>3 DEF Lands
      <4>2. Positions(queue') = Positions(queue)
        BY <2>0 DEF Positions
      <4>3. n > 0
        BY <1>2 DEF Positions
      <4>4. QED
        BY <4>1, <4>2, <4>3
    <3>1. CASE heard' = <<i>>
      BY <1>0, <3>0, <3>1, OneHeard
    <3>2. ASSUME heard' = HeardNext(i), Ordered,
                 Current => Seat(i) = IF Seat(index) = Len(queue) THEN 1 ELSE Seat(index) + 1
          PROVE  Heard'
      <4>1. \A x \in Positions(queue) : Seat(x) \in 1..Len(queue)
        BY <1>0, <3>2, SeatFacts DEF Ordered, IInv, TypeOK, OrderInv
      <4>2. heard # <<>> => /\ heard[Len(heard)] = index
                            /\ Seat(i) = IF Seat(heard[Len(heard)]) = Len(queue) THEN 1
                                         ELSE Seat(heard[Len(heard)]) + 1
        BY <1>0, <3>2 DEF HeardInv
      <4>3. ASSUME NEW h \in Seq(Positions(queue)), Follows(h), Len(h) < n,
                   h # <<>> => h[Len(h)] = heard[Len(heard)] /\ heard # <<>>,
                   heard' = Append(h, i)
            PROVE  Heard'
        <5>1. h # <<>> => Seat(i) = IF Seat(h[Len(h)]) = Len(queue) THEN 1 ELSE Seat(h[Len(h)]) + 1
          BY <4>2, <4>3
        <5>2. /\ Append(h, i) \in Seq(Positions(queue)) /\ Len(Append(h, i)) = Len(h) + 1
              /\ Append(h, i)[Len(h) + 1] = i /\ Follows(Append(h, i))
          BY <1>0, <1>2, <4>1, <4>3, <5>1, AppendFollows
        <5>3. PICK l \in Nat : l = Len(h)
          BY <4>3
        <5>4. heard' # <<>> /\ Len(heard') <= n /\ heard'[Len(heard')] = index'
          BY <1>2, <3>0, <4>3, <5>2, <5>3
        <5>5. QED
          BY <1>5, <2>0, <3>0, <3>2, <4>3, <5>2, <5>4
      <4>4. CASE m = n
        <5>1. heard # <<>> /\ heard' = Append(Tail(heard), i)
          BY <1>2, <3>0, <3>2, <4>4 DEF HeardNext
        <5>2. /\ Tail(heard) \in Seq(Positions(queue)) /\ Len(Tail(heard)) = m - 1
              /\ Follows(Tail(heard))
              /\ Tail(heard) # <<>> => Tail(heard)[Len(Tail(heard))] = heard[Len(heard)]
          BY <1>1, <1>2, <1>3, <5>1, TailFollows
        <5>3. Len(Tail(heard)) < n
          BY <1>2, <4>4, <5>2
        <5>4. QED
          BY <4>3, <5>1, <5>2, <5>3
      <4>5. CASE m # n
        <5>1. heard' = Append(heard, i)
          BY <1>2, <3>2, <4>5 DEF HeardNext
        <5>2. Len(heard) < n
          BY <1>2, <4>5
        <5>3. QED
          BY <1>1, <1>3, <4>3, <5>1, <5>2
      <4>6. QED
        BY <4>4, <4>5
    <3>3. ASSUME Len(heard) > 1, heard[Len(heard) - 1] = i, heard' = Front(heard)
          PROVE  Heard'
      <4>1. /\ Front(heard) \in Seq(Positions(queue)) /\ Len(Front(heard)) = m - 1
            /\ Follows(Front(heard))
            /\ Front(heard) # <<>> /\ Front(heard)[Len(Front(heard))] = i
        BY <1>1, <1>2, <1>3, <3>3, FrontFollows
      <4>2. Ordered
        BY <1>0, <1>2, <3>3 DEF HeardInv, Ordered
      <4>3. Len(heard') <= n
        BY <1>2, <3>3, <4>1
      <4>4. QED
        BY <1>5, <2>0, <3>0, <3>3, <4>1, <4>2, <4>3
    <3>4. QED
      BY <2>3, <3>1, <3>2, <3>3 DEF Lands
  <2>4. QED
    BY <1>6, <2>1, <2>2, <2>3 DEF Walks
<1>7. CASE Reshuffles
  <2>1. HeardHere /\ index' = index /\ queue' = queue
    BY <1>7 DEF Reshuffles
  <2>2. Positions(queue) = Positions(queue')
    BY <2>1 DEF Positions
  <2>3. QED
    BY <1>4, <2>1, <2>2
<1>8. CASE Restores
  <2>1. heard' = IF index' \in Positions(queue') THEN <<index'>> ELSE <<>>
    BY <1>8 DEF Restores, _restoreState
  <2>2. QED
    BY <1>0, <2>1, OneHeard, NothingHeard
<1>9. ASSUME NEW q \in Seq(Tracks), NEW i \in Positions(q), Chooses(q, i)
      PROVE  Heard'
  BY <1>0, <1>9, OneHeard DEF Chooses
<1>10. ASSUME NEW t \in Tracks, Adds(t)
       PROVE  Heard'
  <2>1. HeardHere /\ index' = index /\ queue' = Append(queue, t)
    BY <1>10 DEF Adds
  <2>2. Positions(queue) \subseteq Positions(queue')
    BY <1>0, <2>1, AppendFacts
  <2>3. QED
    BY <1>4, <2>1, <2>2
<1>11. QED
  BY <1>6, <1>7, <1>8, <1>9, <1>10, StepKinds DEF Moves

-----------------------------------------------------------------------------
SettingsOK ==
  shuffle \in BOOLEAN /\ repeat \in Modes /\ fetching \subseteq Lists /\ mayPlay \in BOOLEAN
  /\ turn \in BOOLEAN

\* The settings and the albums under way keep to their types.
LEMMA SettingsStep == IInv /\ [Next]_vars => SettingsOK'
<1> SUFFICES ASSUME IInv, [Next]_vars PROVE SettingsOK'
  OBVIOUS
<1>0. SettingsOK
  BY DEF IInv, TypeOK, SettingsOK
<1> USE <1>0 DEF SettingsOK, settings, Click, Browser
<1>1. ASSUME NEW q \in Lists, NEW i \in Positions(q), PlaySong(q, i)
      PROVE  SettingsOK'
  BY <1>1 DEF PlaySong
<1>2. ASSUME NEW t \in Tracks, playTrack(t) \/ addToQueue(t)
      PROVE  SettingsOK'
  BY <1>2 DEF playTrack, PlaySong, addToQueue
<1>3. ASSUME NEW i \in Positions(queue), play(i)
      PROVE  SettingsOK'
  BY <1>3 DEF play
<1>4. ASSUME NEW l \in Lists, PlayAlbum(l)
      PROVE  SettingsOK'
  BY <1>4 DEF PlayAlbum
<1>5. CASE togglePlay \/ NextButton \/ prev
  BY <1>5 DEF togglePlay, NextButton, prev
<1>6. ASSUME NEW late \in BOOLEAN, seek(late)
      PROVE  SettingsOK'
  BY <1>6 DEF seek
<1>7. CASE _toggleShuffle
  BY <1>7 DEF _toggleShuffle
<1>8. CASE _cycleRepeat
  <2>1. repeat' \in Modes
    BY <1>8 DEF _cycleRepeat, Modes
  <2>2. QED
    BY <1>8, <2>1 DEF _cycleRepeat
<1>9. CASE Navigate
  BY <1>9 DEF Navigate
<1>10. CASE Media
  BY <1>10 DEF Media, Loaded, Progress, MediaError, _onEnded, _onStateChange
<1>11. ASSUME NEW l \in Lists, AlbumArrives(l) \/ AlbumFails(l)
       PROVE  SettingsOK'
  BY <1>11 DEF AlbumArrives, AlbumFails
<1>12. CASE UNCHANGED vars
  BY <1>12 DEF vars
<1>13. QED
  BY <1>1, <1>2, <1>3, <1>4, <1>5, <1>6, <1>7, <1>8, <1>9, <1>10, <1>11, <1>12 DEF Next, User, Answer

\* The parts make up the invariant.
LEMMA Together == PlaceInv /\ Heard /\ SettingsOK /\ Truthful(audio, button, mayPlay) => IInv
<1> SUFFICES ASSUME PlaceInv, Heard, SettingsOK, Truthful(audio, button, mayPlay) PROVE IInv
  OBVIOUS
<1>1. PICK n \in 0 .. MaxQueue : n = Len(queue) /\ Positions(queue) = 0 .. n - 1
  BY MaxQueueAssumption DEF PlaceInv, Positions
<1>2. Positions(queue) \subseteq 0 .. MaxQueue - 1 /\ MaxQueue \in Nat \ {0}
  BY <1>1, MaxQueueAssumption
<1>3. PICK k \in 0 .. MaxQueue : k = Len(saved.queue) /\ Positions(saved.queue) = 0 .. k - 1
  BY MaxQueueAssumption DEF PlaceInv, SavedInv, Positions
<1>4. index \in (-1 .. MaxQueue - 1) \cup {Undefined, NaN, Null}
  BY <1>2 DEF PlaceInv, IndexInv
<1>5. saved.index \in (-1 .. MaxQueue - 1) \cup {Undefined, Null}
  <2>1. Positions(saved.queue) \subseteq 0 .. MaxQueue - 1
    BY <1>2, <1>3
  <2>2. QED
    BY <1>2, <2>1 DEF PlaceInv, SavedInv
<1>6. order \in Seq(0 .. MaxQueue - 1)
  <2>1. CASE order = <<>>
    BY <2>1
  <2>2. CASE order \in Orders(n, TRUE)
    <3>1. order \in Seq(0 .. n - 1)
      <4>1. n \in Nat
        BY <1>2
      <4>2. QED
        BY <2>2, <4>1, OrderFacts
    <3>2. 0 .. n - 1 \subseteq 0 .. MaxQueue - 1
      BY <1>1, <1>2
    <3>3. QED
      BY <3>1, <3>2, SeqMonotonic
  <2>3. QED
    BY <1>1, <2>1, <2>2 DEF PlaceInv, OrderInv
<1>7. heard \in Seq(0 .. MaxQueue - 1)
  BY <1>2, SeqMonotonic DEF Heard
<1>8. TypeOK
  <2>1. audio \in AudioStates /\ button \in Buttons
    BY DEF Truthful
  <2>2. QED
    BY <1>4, <1>5, <1>6, <1>7, <2>1 DEF TypeOK, PlaceInv, SettingsOK, AudioStates, Buttons
<1>9. ButtonInv /\ ButtonTellsTruth
  BY DEF Truthful, ButtonInv, ButtonTellsTruth
<1>10. QED
  BY <1>8, <1>9 DEF IInv, PlaceInv, Heard

\* A page without a queue.
LEMMA InitInv == Init => IInv
<1> SUFFICES ASSUME Init PROVE IInv
  OBVIOUS
<1> USE DEF Init
<1>1. queue \in Seq(Tracks) /\ Len(queue) = 0 /\ Positions(queue) = {} /\ MaxQueue \in Nat \ {0}
  BY MaxQueueAssumption DEF Positions
<1>2. saved.queue = <<>> /\ saved.index = -1 /\ restored \in BOOLEAN
  OBVIOUS
<1>3. IndexInv /\ SavedInv /\ OrderInv /\ AudioIsCurrent
  BY <1>1, <1>2 DEF IndexInv, SavedInv, OrderInv, AudioIsCurrent, Current
<1>4. PlaceInv
  BY <1>1, <1>2, <1>3 DEF PlaceInv
<1>5. Heard
  BY <1>1 DEF Heard, HeardInv
<1>6. Truthful(audio, button, mayPlay)
  <2>1. Silent \in AudioStates /\ Silent.paused
    BY DEF Silent, AudioStates
  <2>2. NewButton \in Buttons /\ NewButton.label = "Play"
    BY DEF NewButton, Buttons
  <2>3. QED
    BY <2>1, <2>2 DEF Truthful
<1>7. SettingsOK
  BY DEF SettingsOK
<1>8. QED
  BY <1>4, <1>5, <1>6, <1>7, Together

\* The inductive invariant of the player.
THEOREM PlayerInvariant == Spec => []IInv
<1>1. IInv /\ [Next]_vars => (PlaceInv /\ Heard /\ SettingsOK /\ Truthful(audio, button, mayPlay))'
  BY PlaceStep, HeardStep, SettingsStep, StepKinds
<1>2. QED
  BY InitInv, <1>1, Together, PTL DEF Spec, Safe

\* The player's state keeps to its types.
THEOREM TypeCorrect == Spec => []TypeOK
<1>1. IInv => TypeOK
  BY DEF IInv
<1>2. QED
  BY <1>1, PlayerInvariant, PTL

\* The track that is loaded is the one at queueIndex (_loadTrack and its callers).
THEOREM AudioIsCurrentAlways == Spec => []AudioIsCurrent
<1>1. IInv => AudioIsCurrent
  BY DEF IInv
<1>2. QED
  BY <1>1, PlayerInvariant, PTL

\* The button shows what a click will do once its events are handled (_loadTrack,
\* _onEnded, _onStateChange).
THEOREM ButtonTellsTruthAlways == Spec => []ButtonTellsTruth
<1>1. IInv => ButtonTellsTruth
  BY DEF IInv
<1>2. QED
  BY <1>1, PlayerInvariant, PTL

\* next() comes to no track again before it has been through all others, with
\* and without shuffle.
THEOREM EveryTrackOncePerRoundAlways == Spec => []EveryTrackOncePerRound
<1>1. IInv => EveryTrackOncePerRound
  <2> SUFFICES ASSUME IInv PROVE EveryTrackOncePerRound
    OBVIOUS
  <2>1. heard \in Seq(0 .. MaxQueue - 1) /\ HeardInv /\ queue \in Seq(Tracks)
    BY DEF IInv, TypeOK
  <2>2. PICK m \in Nat, n \in Nat : m = Len(heard) /\ DOMAIN heard = 1..m /\ n = Len(queue) /\ m <= n
    BY <2>1 DEF HeardInv
  <2>3. ASSUME NEW j \in 1..m, NEW k \in 1..m, j < k
        PROVE  heard[k] # heard[j]
    <3>1. k - j # 0 /\ k - j - n # 0
      BY <2>2, <2>3
    <3>2. Seat(heard[k]) - Seat(heard[j]) \in {k - j, k - j - n}
      BY <2>1, <2>2, <2>3 DEF HeardInv
    <3>3. heard[k] \in Positions(queue) /\ heard[j] \in Positions(queue)
      BY <2>1, <2>2 DEF HeardInv
    <3>4. ~shuffle \/ order # <<>>
      BY <2>1, <2>2, <2>3 DEF HeardInv
    <3>5. Seat(heard[k]) \in 1..n
      BY <2>1, <2>2, <3>3, <3>4, SeatFacts DEF IInv, TypeOK, OrderInv
    <3>6. QED
      BY <2>2, <3>1, <3>2, <3>5
  <2>4. QED
    BY <2>2, <2>3 DEF EveryTrackOncePerRound, IsInjective
<1>2. QED
  BY <1>1, PlayerInvariant, PTL

\* prev() goes back to the track heard before (prev).
THEOREM PrevUndoesNextAlways == Spec => PrevUndoesNext
<1>1. IInv /\ prev /\ Len(heard) > 1 /\ index' # index => index' = heard[Len(heard) - 1]
  <2> SUFFICES ASSUME IInv, prev, Len(heard) > 1, index' # index
               PROVE  index' = heard[Len(heard) - 1]
    OBVIOUS
  <2>1. queue # <<>> /\ GoTo(PrevTarget, audio, button)
    BY DEF prev, Rewind, PrevTarget, Preceding
  <2>2. index' = PrevTarget
    BY <2>1 DEF GoTo
  <2>3. heard \in Seq(0 .. MaxQueue - 1) /\ HeardInv /\ queue \in Seq(Tracks)
    BY DEF IInv, TypeOK
  <2>4. PICK m \in Nat, n \in Nat : m = Len(heard) /\ n = Len(queue) /\ m > 1 /\ m <= n /\ heard # <<>>
    BY <2>3 DEF HeardInv
  <2>5. Current /\ heard[m] = index /\ heard[m - 1] \in Positions(queue) /\ Ordered
    BY <2>3, <2>4 DEF HeardInv, Ordered
  <2>6. index \notin Lost
    BY <2>3, <2>5, OddFacts DEF Current, Lost
  <2>7. /\ PrevTarget \in Positions(queue)
        /\ Seat(PrevTarget) = IF Seat(index) = 1 THEN n ELSE Seat(index) - 1
    BY <2>1, <2>4, <2>5, <2>6, PrevTargetFacts
  <2>8. /\ \A i \in Positions(queue) : Seat(i) \in 1..n
        /\ \A i, j \in Positions(queue) : Seat(i) = Seat(j) => i = j
    BY <2>3, <2>4, <2>5, SeatFacts DEF Ordered, IInv, TypeOK, OrderInv
  <2>9. Seat(index) - Seat(heard[m - 1]) \in {1, 1 - n}
    <3>1. m - 1 \in 1..Len(heard) /\ m \in 1..Len(heard) /\ m - 1 < m
      BY <2>4
    <3>2. Seat(heard[m]) - Seat(heard[m - 1]) \in {m - (m - 1), m - (m - 1) - n}
      BY <2>3, <2>4, <3>1 DEF HeardInv
    <3>3. m - (m - 1) = 1
      BY <2>4
    <3>4. QED
      BY <2>5, <3>2, <3>3
  <2>10. Seat(PrevTarget) = Seat(heard[m - 1])
    <3>1. PICK s \in 1..n, r \in 1..n : s = Seat(index) /\ r = Seat(heard[m - 1])
      BY <2>5, <2>8 DEF Current
    <3>2. s - r \in {1, 1 - n} /\ Seat(PrevTarget) = IF s = 1 THEN n ELSE s - 1
      BY <2>7, <2>9, <3>1
    <3>3. CASE s = 1
      BY <2>4, <3>1, <3>2, <3>3
    <3>4. CASE s # 1
      BY <2>4, <3>1, <3>2, <3>4
    <3>5. QED
      BY <3>3, <3>4
  <2>11. QED
    BY <2>2, <2>4, <2>5, <2>7, <2>8, <2>10
<1>2. IInv /\ [Next]_vars => [(prev /\ Len(heard) > 1 /\ index' # index) => index' = heard[Len(heard) - 1]]_vars
  BY <1>1
<1>3. QED
  BY <1>2, PlayerInvariant, PTL DEF Spec, Safe, PrevUndoesNext

\* The next page continues with the queue and the track of this one (_saveState
\* in every handler that changes them, _restoreState).
THEOREM NavigationResumesAlways == Spec => NavigationResumes
<1>1. IInv /\ Navigate /\ Current => queue' = queue /\ index' = index /\ audio'.src = audio.src
  <2> SUFFICES ASSUME IInv, Navigate, Current
               PROVE  queue' = queue /\ index' = index /\ audio'.src = audio.src
    OBVIOUS
  <2>1. _restoreState
    BY DEF Navigate
  <2>2. saved.queue = queue /\ saved.index = index /\ queue \in Seq(Tracks) /\ AudioIsCurrent
    BY DEF IInv, SavedInv, TypeOK
  <2>3. index # Undefined
    BY <2>2, OddFacts DEF Current
  <2>4. queue' = queue /\ index' = index
    BY <2>1, <2>2, <2>3 DEF _restoreState
  <2>5. index' \in Positions(queue')
    BY <2>4 DEF Current, Positions
  <2>6. audio'.src = queue'[index' + 1]
    BY <2>1, <2>5, RestoreFacts
  <2>7. QED
    BY <2>2, <2>4, <2>6 DEF AudioIsCurrent
<1>2. IInv /\ [Next]_vars => [(Navigate /\ Current) =>
                               queue' = queue /\ index' = index /\ audio'.src = audio.src]_vars
  BY <1>1
<1>3. QED
  BY <1>2, PlayerInvariant, PTL DEF Spec, Safe, NavigationResumes

\* The index is lost only in a page restored with shuffle on (_restoreState builds
\* no order).
THEOREM LostOnlyAfterRestoreAlways == Spec => LostOnlyAfterRestore
<1>1. IInv /\ [Next]_vars => [(index' \in Lost /\ index \notin Lost) => restored /\ shuffle]_vars
  <2> SUFFICES ASSUME IInv, [Next]_vars, index' \in Lost, index \notin Lost
               PROVE  restored /\ shuffle
    OBVIOUS
  <2>0. queue \in Seq(Tracks) /\ \A q \in Seq(Tracks) : Positions(q) \cap Lost = {}
    BY OddFacts DEF IInv, TypeOK, Lost
  <2>1. Rests => FALSE
    BY DEF Rests
  <2>2. CASE Strays
    BY <2>2 DEF Strays, Ordered, IInv, OrderInv
  <2>3. ASSUME NEW i \in Positions(queue), Lands(i) PROVE FALSE
    BY <2>0, <2>3 DEF Lands
  <2>4. Restores => FALSE
    <3>1. -1 \notin Lost /\ Null \notin Lost
      BY <2>0, OddFacts DEF Lost
    <3>2. QED
      BY <2>0, <3>1, RestoreFacts DEF Restores
  <2>5. ASSUME NEW q \in Seq(Tracks), NEW i \in Positions(q), Chooses(q, i) PROVE FALSE
    BY <2>0, <2>5 DEF Chooses
  <2>6. QED
    BY <2>1, <2>2, <2>3, <2>4, <2>5, StepKinds DEF Moves, Walks, Reshuffles, Adds
<1>2. QED
  BY <1>1, PlayerInvariant, PTL DEF Spec, Safe, LostOnlyAfterRestore
=============================================================================
