------------------------- MODULE ScanPipeline_proofs -------------------------
(***************************************************************************)
(* For every tree of directories, every set of links, any number of        *)
(* workers and any capacity of the channels: a scan that returns nil has    *)
(* processed all that is audible, and no directory is walked inside a walk *)
(* of itself unless the links lead round.                                   *)
(***************************************************************************)
EXTENDS ScanPipeline, SequenceTheorems, TLAPS

\* What the walk still has before it.
Pending == UNION {stack[k].todo : k \in DOMAIN stack}

\* A path between the walker and the end of its job.
InElements(f, s) == \E n \in 1..Len(s) : s[n] = f
UnderWay(f) ==
  \/ f = sending \/ InElements(f, results) \/ f = held \/ InElements(f, jobs)
  \/ \E w \in Workers : worker[w] = f
  \/ f \in processed

\* The walk has entered the directory, or will.
Known(d, E) == d \in E \/ Item("dir", d, d) \in Pending

\* Each entry of the directories entered so far is still to be visited, or it
\* led to a directory the walk knows or to a path that is under way.
NothingSkipped(E) ==
  \A i \in Below(E) : \/ i \in Pending
                      \/ i.to \in Dirs /\ Known(i.to, E)
                      \/ i.to \in Files /\ UnderWay(i.to)

\* What a call marks as seen was entered, or is what a deeper call begins with.
SeenIsEntered(E) ==
  \A k \in DOMAIN stack : \A d \in stack[k].seen :
    d \in E \/ \E m \in DOMAIN stack : m > k /\ Item("dir", d, d) \in stack[m].todo

WalkCovers(E) == Known(Root, E) /\ NothingSkipped(E) /\ SeenIsEntered(E)
Covered == ~cancelled => \E E \in SUBSET Dirs : WalkCovers(E)

WalkerInv ==
  /\ walkErr => cancelled
  /\ walker = "sending" <=> sending # None
  /\ walker \in {"ended", "posted", "closed"} => stack = <<>>

MapperInv == mapper = "closed" => walker = "closed" /\ results = <<>> /\ held = None

\* A worker leaves drained channels behind, unless the context was cancelled.
PoolInv ==
  ~cancelled /\ (\E w \in Workers : worker[w] = "gone")
    => mapper = "closed" /\ jobs = <<>>

CallerInv == caller # "pool" => \A w \in Workers : worker[w] = "gone"

IInv ==
  /\ TypeOK
  /\ WalkerInv /\ MapperInv /\ PoolInv /\ CallerInv
  /\ Covered /\ NilMeansAll

-----------------------------------------------------------------------------
\* What is read in a directory is an item.
LEMMA EntriesAreItems ==
  ASSUME links \in LinkSets, NEW d \in Dirs
  PROVE  Entries(d) \subseteq Items
<1>1. \A e \in Sub[d] : Item("dir", d, e) \in Items
  BY TreeAssumption DEF Item, Items, Kinds
<1>2. \A f \in Holds[d] : Item("file", d, f) \in Items
  BY TreeAssumption DEF Item, Items, Kinds
<1>3. \A l \in links : l[1] = d => Item("link", l[1], l[2]) \in Items
  BY TreeAssumption DEF Item, Items, Kinds
<1>4. QED
  BY TreeAssumption, <1>1, <1>2, <1>3 DEF Entries

\* A call begins with its directory.
LEMMA CallFacts ==
  ASSUME NEW d \in Dirs
  PROVE  Call(d) \in Frames /\ Call(d).todo = {Item("dir", d, d)} /\ Call(d).seen = {}
<1>1. Item("dir", d, d) \in Items
  BY DEF Item, Items, Kinds
<1>2. QED
  BY <1>1 DEF Call, Frames

\* The innermost call and those around it.
LEMMA StackFacts ==
  ASSUME stack \in Seq(Frames), stack # <<>>
  PROVE  /\ Len(stack) \in Nat \ {0} /\ DOMAIN stack = 1..Len(stack)
         /\ Top \in Frames
         /\ Outer \in Seq(Frames)
         /\ Len(Outer) \in Nat /\ Len(stack) = Len(Outer) + 1
         /\ \A k \in 1..Len(Outer) : Outer[k] = stack[k]
<1>1. PICK n \in Nat \ {0} : n = Len(stack)
  BY EmptySeq
<1>2. DOMAIN stack = 1..n /\ \A k \in 1..n : stack[k] \in Frames
  BY <1>1, LenProperties
<1>3. PICK m \in Nat : m = n - 1
  OBVIOUS
<1>4. Outer \in Seq(Frames) /\ Len(Outer) = m /\ \A k \in 1..m : Outer[k] = stack[k]
  <2>1. Outer = SubSeq(stack, 1, m)
    BY <1>1, <1>3 DEF Outer
  <2>2. \A k \in 1..m : stack[k] \in Frames
    BY <1>2, <1>3
  <2>3. /\ Outer \in Seq(Frames)
        /\ Len(Outer) = IF 1 <= m THEN m-1+1 ELSE 0
        /\ \A k \in 1..m-1+1 : Outer[k] = stack[1+k-1]
    BY <2>1, <2>2, SubSeqProperties
  <2>4. m-1+1 = m /\ \A k \in 1..m : 1+k-1 = k
    OBVIOUS
  <2>5. (IF 1 <= m THEN m-1+1 ELSE 0) = m
    OBVIOUS
  <2>6. Len(Outer) = m
    BY <2>3, <2>5
  <2>7. QED
    BY <2>3, <2>4, <2>6
<1>5. Top \in Frames
  BY <1>1, <1>2 DEF Top
<1>6. QED
  BY <1>1, <1>2, <1>3, <1>4, <1>5

\* The frame of the innermost call is replaced.
LEMMA TopReplaced ==
  ASSUME stack \in Seq(Frames), stack # <<>>, NEW frame \in Frames
  PROVE  /\ WithTop(frame) \in Seq(Frames) /\ Len(WithTop(frame)) = Len(stack)
         /\ DOMAIN WithTop(frame) = DOMAIN stack
         /\ WithTop(frame)[Len(stack)] = frame
         /\ \A k \in DOMAIN stack : k # Len(stack) => WithTop(frame)[k] = stack[k]
<1>1. /\ WithTop(frame) \in Seq(Frames) /\ Len(WithTop(frame)) = Len(Outer) + 1
      /\ \A k \in 1..Len(Outer) : WithTop(frame)[k] = Outer[k]
      /\ WithTop(frame)[Len(Outer)+1] = frame
  BY StackFacts, AppendProperties DEF WithTop
<1>2. PICK m \in Nat : m = Len(Outer) /\ Len(stack) = m + 1
  BY StackFacts
<1>3. DOMAIN WithTop(frame) = 1..m+1 /\ DOMAIN stack = 1..m+1
  <2>1. DOMAIN WithTop(frame) = 1..Len(WithTop(frame)) /\ DOMAIN stack = 1..Len(stack)
    BY <1>1, LenProperties
  <2>2. QED
    BY <1>1, <1>2, <2>1
<1>4. \A k \in 1..m : WithTop(frame)[k] = stack[k]
  BY <1>1, <1>2, StackFacts
<1>5. \A k \in 1..m+1 : k # m+1 => k \in 1..m
  OBVIOUS
<1>6. QED
  BY <1>1, <1>2, <1>3, <1>4, <1>5

\* A call is made from the innermost one.
LEMMA CallPushed ==
  ASSUME stack \in Seq(Frames), stack # <<>>,
         NEW frame \in Frames, NEW call \in Frames
  PROVE  LET s == Append(WithTop(frame), call)
         IN  /\ s \in Seq(Frames) /\ Len(s) = Len(stack) + 1
             /\ DOMAIN s = DOMAIN stack \cup {Len(stack) + 1}
             /\ s[Len(stack)] = frame /\ s[Len(stack)+1] = call
             /\ \A k \in DOMAIN stack : k # Len(stack) => s[k] = stack[k]
<1> DEFINE s == Append(WithTop(frame), call)
<1>1. PICK n \in Nat \ {0} : n = Len(stack) /\ DOMAIN stack = 1..n
  BY StackFacts
<1>2. WithTop(frame) \in Seq(Frames) /\ Len(WithTop(frame)) = n
  BY <1>1, TopReplaced
<1>3. /\ s \in Seq(Frames) /\ Len(s) = n + 1 /\ s[n+1] = call
      /\ \A k \in 1..n : s[k] = WithTop(frame)[k]
  BY <1>2, AppendProperties
<1> HIDE DEF s
<1>4. DOMAIN s = 1..n+1
  BY <1>3, LenProperties
<1>5. 1..n+1 = 1..n \cup {n+1} /\ n \in 1..n
  OBVIOUS
<1>6. /\ s \in Seq(Frames) /\ Len(s) = Len(stack) + 1
      /\ DOMAIN s = DOMAIN stack \cup {Len(stack) + 1}
      /\ s[Len(stack)] = frame /\ s[Len(stack)+1] = call
      /\ \A k \in DOMAIN stack : k # Len(stack) => s[k] = stack[k]
  BY <1>1, <1>3, <1>4, <1>5, TopReplaced
<1>7. QED
  BY <1>6 DEF s

\* What becomes of the innermost call when one of its entries is visited.
LEMMA FrameFacts ==
  ASSUME TypeOK, stack # <<>>, NEW i \in Top.todo
  PROVE  /\ i \in Items
         /\ Done(i) \in Frames
         /\ Done(i).todo = Top.todo \ {i} /\ Done(i).seen = Top.seen
         /\ i.to \in Dirs =>
              /\ Seen(i) \in Frames
              /\ Seen(i).todo = Top.todo \ {i} /\ Seen(i).seen = Top.seen \cup {i.to}
<1>1. Top \in Frames
  BY StackFacts DEF TypeOK
<1>2. QED
  BY <1>1 DEF Done, Seen, Frames

LEMMA EnteredFrame ==
  ASSUME TypeOK, stack # <<>>, NEW i \in Top.todo, i.to \in Dirs,
         NEW frame, frame = [Seen(i) EXCEPT !.todo = @ \cup Entries(i.to)]
  PROVE  /\ frame \in Frames
         /\ frame.todo = (Top.todo \ {i}) \cup Entries(i.to)
         /\ frame.seen = Top.seen \cup {i.to}
<1>1. /\ Seen(i) \in Frames
      /\ Seen(i).todo = Top.todo \ {i} /\ Seen(i).seen = Top.seen \cup {i.to}
  BY FrameFacts
<1>2. Entries(i.to) \subseteq Items
  BY EntriesAreItems DEF TypeOK
<1>3. /\ frame.todo = Seen(i).todo \cup Entries(i.to) /\ frame.seen = Seen(i).seen
      /\ frame.dir = Seen(i).dir /\ frame = [dir |-> frame.dir, todo |-> frame.todo, seen |-> frame.seen]
  BY <1>1 DEF Frames
<1>4. QED
  BY <1>1, <1>2, <1>3 DEF Frames

\* What goes into a channel comes out of it.
LEMMA ChannelFacts ==
  ASSUME NEW c \in Seq(Files), Len(c) <= Capacity
  PROVE  /\ c # <<>> => /\ Head(c) \in Files
                        /\ Tail(c) \in Seq(Files) /\ Len(Tail(c)) <= Capacity
                        /\ \A f : InElements(f, c) => f = Head(c) \/ InElements(f, Tail(c))
         /\ \A g \in Files : Len(c) < Capacity =>
              /\ Append(c, g) \in Seq(Files) /\ Len(Append(c, g)) <= Capacity
              /\ InElements(g, Append(c, g))
              /\ \A f : InElements(f, c) => InElements(f, Append(c, g))
<1> USE PoolAssumption
<1>1. ASSUME c # <<>>
      PROVE  /\ Head(c) \in Files
             /\ Tail(c) \in Seq(Files) /\ Len(Tail(c)) <= Capacity
             /\ \A f : InElements(f, c) => f = Head(c) \/ InElements(f, Tail(c))
  <2>1. Head(c) \in Files /\ Tail(c) \in Seq(Files) /\ Len(Tail(c)) = Len(c) - 1
    BY <1>1
  <2>2. ASSUME NEW n \in 1..Len(c)
        PROVE  c[n] = Head(c) \/ InElements(c[n], Tail(c))
    <3>1. CASE n = 1
      BY <1>1, <3>1
    <3>2. CASE n # 1
      <4>1. n-1 \in 1..Len(Tail(c)) /\ Tail(c)[n-1] = c[n]
        BY <1>1, <2>1, <3>2
      <4>2. QED
        BY <4>1 DEF InElements
    <3>3. QED
      BY <3>1, <3>2
  <2>3. QED
    BY <2>1, <2>2 DEF InElements
<1>2. ASSUME NEW g \in Files, Len(c) < Capacity
      PROVE  /\ Append(c, g) \in Seq(Files) /\ Len(Append(c, g)) <= Capacity
             /\ InElements(g, Append(c, g))
             /\ \A f : InElements(f, c) => InElements(f, Append(c, g))
  <2>1. /\ Append(c, g) \in Seq(Files) /\ Len(Append(c, g)) = Len(c) + 1
        /\ Append(c, g)[Len(c)+1] = g
        /\ \A n \in 1..Len(c) : Append(c, g)[n] = c[n]
    OBVIOUS
  <2>2. QED
    BY <1>2, <2>1 DEF InElements
<1>3. QED
  BY <1>1, <1>2

\* Every step writes values of the right sort.
LEMMA TypeOKStep == IInv /\ [Next]_vars => TypeOK'
<1> SUFFICES ASSUME IInv, [Next]_vars PROVE TypeOK'
  OBVIOUS
<1> USE DEF IInv
<1>1. ASSUME NEW i \in Top.todo, stack # <<>>, EnterDir(i)
      PROVE  TypeOK'
  <2>1. stack' \in Seq(Frames) /\ Len(stack') <= MaxDepth
    <3>1. i.to \in Dirs
      BY <1>1, FrameFacts DEF EnterDir, Visit, Items
    <3>2. QED
      BY <1>1, <3>1, FrameFacts, EnteredFrame, TopReplaced DEF EnterDir, TypeOK
  <2>9. QED
    BY <1>1, <2>1 DEF EnterDir, Visit, TypeOK, disk, walk, pool
<1>2. ASSUME NEW i \in Top.todo, stack # <<>>, FollowLink(i)
      PROVE  TypeOK'
  <2>1. CASE i.to \in Top.seen
    BY <1>2, <2>1, FrameFacts, TopReplaced DEF FollowLink, Visit, TypeOK, disk, walk, pool
  <2>2. CASE i.to \notin Top.seen
    <3>1. /\ stack' = Append(WithTop(Seen(i)), Call(i.to)) /\ Len(stack) < MaxDepth
          /\ Seen(i) \in Frames /\ Call(i.to) \in Frames
      BY <1>2, <2>2, FrameFacts, CallFacts DEF FollowLink
    <3>2. stack' \in Seq(Frames) /\ Len(stack') = Len(stack) + 1
      BY <1>2, <3>1, CallPushed DEF TypeOK
    <3>3. Len(stack) \in Nat
      BY <1>2, StackFacts DEF TypeOK
    <3>4. Len(stack') <= MaxDepth
      BY <3>1, <3>2, <3>3, DepthAssumption
    <3>5. QED
      BY <1>2, <3>2, <3>4 DEF FollowLink, Visit, TypeOK, disk, walk, pool
  <2>3. QED
    BY <2>1, <2>2
<1>3. ASSUME NEW i \in Top.todo, stack # <<>>, FindFile(i)
      PROVE  TypeOK'
  <2>1. stack' \in Seq(Frames) /\ Len(stack') <= MaxDepth
    BY <1>3, FrameFacts, TopReplaced DEF FindFile, TypeOK
  <2>9. QED
    BY <1>3, <2>1 DEF FindFile, Visit, TypeOK, disk, walk, pool
<1>4. CASE Send
  <2>1. results' \in Seq(Files) /\ Len(results') <= Capacity
    <3>1. sending \in Files
      BY <1>4 DEF Send, TypeOK, WalkerInv
    <3>2. QED
      BY <1>4, <3>1, ChannelFacts DEF Send, TypeOK
  <2>9. QED
    BY <1>4, <2>1 DEF Send, Visit, TypeOK, disk, walk, pool
<1>5. CASE WalkCancelled
  BY <1>5, DepthAssumption DEF WalkCancelled, TypeOK, disk, walk, pool
<1>6. CASE CallReturns
  <2>1. /\ stack' \in Seq(Frames) /\ Len(stack') \in Nat
        /\ Len(stack) = Len(stack') + 1 /\ Len(stack) <= MaxDepth
    BY <1>6, StackFacts DEF CallReturns, TypeOK
  <2>2. Len(stack') <= MaxDepth
    BY <2>1, DepthAssumption
  <2>9. QED
    BY <1>6, <2>1, <2>2 DEF CallReturns, Visit, TypeOK, disk, walk, pool
<1>7. CASE PostResult
  BY <1>7 DEF PostResult, TypeOK, disk, walk, pool
<1>8. CASE CloseResults
  BY <1>8 DEF CloseResults, TypeOK, disk, walk, pool
<1>9. CASE Receive
  BY <1>9, ChannelFacts DEF Receive, TypeOK, disk, walk, pool
<1>10. CASE Submit
  BY <1>10, ChannelFacts DEF Submit, TypeOK, disk, walk, pool
<1>11. CASE CloseJobs
  BY <1>11 DEF CloseJobs, TypeOK, disk, walk, pool
<1>12. CASE PoolReturns
  BY <1>12 DEF PoolReturns, TypeOK, disk, walk, pool
<1>13. CASE Join
  BY <1>13 DEF Join, TypeOK, disk, walk, pool
<1>14. CASE Cancel
  BY <1>14 DEF Cancel, TypeOK, disk, walk, pool
<1>15. ASSUME NEW w \in Workers, Take(w)
      PROVE  TypeOK'
  BY <1>15, ChannelFacts DEF Take, TypeOK, disk, walk, pool
<1>16. ASSUME NEW w \in Workers, Process(w)
      PROVE  TypeOK'
  BY <1>16 DEF Process, TypeOK, disk, walk, pool
<1>17. ASSUME NEW w \in Workers, Leave(w)
      PROVE  TypeOK'
  BY <1>17 DEF Leave, TypeOK, disk, walk, pool
<1>18. CASE UNCHANGED vars
  BY <1>18 DEF vars, TypeOK, disk, walk, pool
<1>19. QED
  BY <1>1, <1>2, <1>3, <1>4, <1>5, <1>6, <1>7, <1>8, <1>9, <1>10, <1>11, <1>12, <1>13, <1>14, <1>15, <1>16, <1>17, <1>18 DEF Next, Walker, Mapper, Worker, Caller

\* The goroutines end in order: the walker, the mapper, the workers, the caller.
LEMMA ControlStep == IInv /\ [Next]_vars => (WalkerInv /\ MapperInv /\ PoolInv /\ CallerInv)'
<1> SUFFICES ASSUME IInv, [Next]_vars PROVE (WalkerInv /\ MapperInv /\ PoolInv /\ CallerInv)'
  OBVIOUS
<1> USE DEF IInv
<1>1. ASSUME NEW i \in Top.todo, stack # <<>>, EnterDir(i)
      PROVE  (WalkerInv /\ MapperInv /\ PoolInv /\ CallerInv)'
  BY <1>1, PathAssumption DEF EnterDir, Visit, WalkerInv, MapperInv, PoolInv, CallerInv, TypeOK, disk, walk, pool
<1>2. ASSUME NEW i \in Top.todo, stack # <<>>, FollowLink(i)
      PROVE  (WalkerInv /\ MapperInv /\ PoolInv /\ CallerInv)'
  BY <1>2, PathAssumption DEF FollowLink, Visit, WalkerInv, MapperInv, PoolInv, CallerInv, TypeOK, disk, walk, pool
<1>3. ASSUME NEW i \in Top.todo, stack # <<>>, FindFile(i)
      PROVE  (WalkerInv /\ MapperInv /\ PoolInv /\ CallerInv)'
  BY <1>3, PathAssumption DEF FindFile, Visit, WalkerInv, MapperInv, PoolInv, CallerInv, TypeOK, disk, walk, pool
<1>4. CASE Send
  BY <1>4, PathAssumption DEF Send, WalkerInv, MapperInv, PoolInv, CallerInv, TypeOK, disk, walk, pool
<1>5. CASE WalkCancelled
  BY <1>5, PathAssumption DEF WalkCancelled, WalkerInv, MapperInv, PoolInv, CallerInv, TypeOK, disk, walk, pool
<1>6. CASE CallReturns
  <2>1. Len(stack) = 1 => Outer = <<>>
    <3>1. PICK m \in Nat : m = Len(Outer) /\ Len(stack) = m + 1
      BY <1>6, StackFacts DEF CallReturns, TypeOK
    <3>2. Outer \in Seq(Frames)
      BY <1>6, StackFacts DEF CallReturns, TypeOK
    <3>3. m + 1 = 1 => m = 0
      OBVIOUS
    <3>4. QED
      BY <3>1, <3>2, <3>3, EmptySeq
  <2>2. QED
    BY <1>6, <2>1, PathAssumption DEF CallReturns, WalkerInv, MapperInv, PoolInv, CallerInv, TypeOK, disk, walk, pool
<1>7. CASE PostResult
  BY <1>7, PathAssumption DEF PostResult, WalkerInv, MapperInv, PoolInv, CallerInv, TypeOK, disk, walk, pool
<1>8. CASE CloseResults
  BY <1>8, PathAssumption DEF CloseResults, WalkerInv, MapperInv, PoolInv, CallerInv, TypeOK, disk, walk, pool
<1>9. CASE Receive
  BY <1>9, PathAssumption DEF Receive, WalkerInv, MapperInv, PoolInv, CallerInv, TypeOK, disk, walk, pool
<1>10. CASE Submit
  BY <1>10, PathAssumption DEF Submit, WalkerInv, MapperInv, PoolInv, CallerInv, TypeOK, disk, walk, pool
<1>11. CASE CloseJobs
  BY <1>11, PathAssumption DEF CloseJobs, WalkerInv, MapperInv, PoolInv, CallerInv, TypeOK, disk, walk, pool
<1>12. CASE PoolReturns
  BY <1>12, PathAssumption DEF PoolReturns, WalkerInv, MapperInv, PoolInv, CallerInv, TypeOK, disk, walk, pool
<1>13. CASE Join
  BY <1>13, PathAssumption DEF Join, WalkerInv, MapperInv, PoolInv, CallerInv, TypeOK, disk, walk, pool
<1>14. CASE Cancel
  BY <1>14, PathAssumption DEF Cancel, WalkerInv, MapperInv, PoolInv, CallerInv, TypeOK, disk, walk, pool
<1>15. ASSUME NEW w \in Workers, Take(w)
      PROVE  (WalkerInv /\ MapperInv /\ PoolInv /\ CallerInv)'
  BY <1>15, PathAssumption DEF Take, WalkerInv, MapperInv, PoolInv, CallerInv, TypeOK, disk, walk, pool
<1>16. ASSUME NEW w \in Workers, Process(w)
      PROVE  (WalkerInv /\ MapperInv /\ PoolInv /\ CallerInv)'
  BY <1>16, PathAssumption DEF Process, WalkerInv, MapperInv, PoolInv, CallerInv, TypeOK, disk, walk, pool
<1>17. ASSUME NEW w \in Workers, Leave(w)
      PROVE  (WalkerInv /\ MapperInv /\ PoolInv /\ CallerInv)'
  BY <1>17, PathAssumption DEF Leave, WalkerInv, MapperInv, PoolInv, CallerInv, TypeOK, disk, walk, pool
<1>18. CASE UNCHANGED vars
  BY <1>18, PathAssumption DEF vars, WalkerInv, MapperInv, PoolInv, CallerInv, TypeOK, disk, walk, pool
<1>19. QED
  BY <1>1, <1>2, <1>3, <1>4, <1>5, <1>6, <1>7, <1>8, <1>9, <1>10, <1>11, <1>12, <1>13, <1>14, <1>15, <1>16, <1>17, <1>18 DEF Next, Walker, Mapper, Worker, Caller

\* Paths and jobs are not lost on their way while the context is not cancelled.
LEMMA UnderWayStep ==
  ASSUME IInv, [Next]_vars, ~cancelled, NEW f \in Files, UnderWay(f)
  PROVE  UnderWay(f)'
<1> USE DEF IInv
<1>1. CASE UNCHANGED <<sending, results, held, jobs, worker>> /\ processed \subseteq processed'
  BY <1>1 DEF UnderWay
<1>2. ASSUME NEW i \in Top.todo, FindFile(i)
      PROVE  UnderWay(f)'
  <2>1. sending = None
    BY <1>2 DEF FindFile, Visit, WalkerInv
  <2>2. f # sending
    BY <2>1, PathAssumption
  <2>3. UNCHANGED <<results, held, jobs, worker, processed>>
    BY <1>2 DEF FindFile, Visit, pool
  <2>4. QED
    BY <2>2, <2>3 DEF UnderWay
<1>3. CASE Send
  <2>1. sending \in Files
    BY <1>3 DEF Send, TypeOK, WalkerInv
  <2>2. InElements(sending, results') /\ \A g : InElements(g, results) => InElements(g, results')
    BY <1>3, <2>1, ChannelFacts DEF Send, TypeOK
  <2>3. UNCHANGED <<held, jobs, worker, processed>>
    BY <1>3 DEF Send, pool
  <2>4. QED
    BY <2>2, <2>3 DEF UnderWay
<1>4. CASE Receive
  <2>1. InElements(f, results) => f = held' \/ InElements(f, results')
    BY <1>4, ChannelFacts DEF Receive, TypeOK
  <2>2. f # held
    BY <1>4, PathAssumption DEF Receive
  <2>3. UNCHANGED <<sending, jobs, worker, processed>>
    BY <1>4 DEF Receive, walk
  <2>4. QED
    BY <2>1, <2>2, <2>3 DEF UnderWay
<1>5. CASE Submit
  <2>1. InElements(held, jobs') /\ \A g : InElements(g, jobs) => InElements(g, jobs')
    BY <1>5, ChannelFacts DEF Submit, TypeOK
  <2>2. UNCHANGED <<sending, results, worker, processed>>
    BY <1>5 DEF Submit, walk
  <2>3. QED
    BY <2>1, <2>2 DEF UnderWay
<1>6. ASSUME NEW w \in Workers, Take(w)
      PROVE  UnderWay(f)'
  <2>1. InElements(f, jobs) => f = worker'[w] \/ InElements(f, jobs')
    BY <1>6, ChannelFacts DEF Take, TypeOK
  <2>2. \A v \in Workers : worker[v] = f => worker'[v] = f
    BY <1>6, PathAssumption DEF Take, TypeOK
  <2>3. UNCHANGED <<sending, results, held, processed>>
    BY <1>6 DEF Take, walk
  <2>4. QED
    BY <2>1, <2>2, <2>3 DEF UnderWay
<1>7. ASSUME NEW w \in Workers, Process(w)
      PROVE  UnderWay(f)'
  <2>1. \A v \in Workers : worker[v] = f => worker'[v] = f \/ f \in processed'
    BY <1>7 DEF Process, TypeOK
  <2>2. UNCHANGED <<sending, results, held, jobs>> /\ processed \subseteq processed'
    BY <1>7 DEF Process, walk
  <2>3. QED
    BY <2>1, <2>2 DEF UnderWay
<1>8. ASSUME NEW w \in Workers, Leave(w)
      PROVE  UnderWay(f)'
  <2>1. \A v \in Workers : worker[v] = f => worker'[v] = f
    BY <1>8, PathAssumption DEF Leave, TypeOK
  <2>2. UNCHANGED <<sending, results, held, jobs, processed>>
    BY <1>8 DEF Leave, walk
  <2>3. QED
    BY <2>1, <2>2 DEF UnderWay
<1>9. QED
  <2>1. ASSUME NEW i, EnterDir(i) \/ FollowLink(i)
        PROVE  UnderWay(f)'
    BY <1>1, <2>1 DEF EnterDir, FollowLink, Visit, pool
  <2>2. CASE WalkCancelled \/ CallReturns \/ PostResult \/ CloseResults
    BY <1>1, <2>2 DEF WalkCancelled, CallReturns, PostResult, CloseResults, pool
  <2>3. CASE CloseJobs \/ PoolReturns \/ Join \/ Cancel \/ UNCHANGED vars
    BY <1>1, <2>3 DEF CloseJobs, PoolReturns, Join, Cancel, vars, walk, pool
  <2>4. QED
    BY <1>2, <1>3, <1>4, <1>5, <1>6, <1>7, <1>8, <2>1, <2>2, <2>3
       DEF Next, Walker, Mapper, Worker, Caller

\* The walk covers what it covered when only the paths behind it move.
LEMMA SameStack ==
  ASSUME IInv, [Next]_vars, ~cancelled, UNCHANGED <<stack, links, unreadable>>,
         NEW E \in SUBSET Dirs, WalkCovers(E)
  PROVE  WalkCovers(E)'
<1>1. Pending' = Pending /\ Below(E)' = Below(E)
  BY DEF Pending, Below, Entries
<1>2. NothingSkipped(E)'
  BY <1>1, UnderWayStep DEF WalkCovers, NothingSkipped, Known
<1>3. QED
  BY <1>1, <1>2 DEF WalkCovers, Known, SeenIsEntered

\* Only the innermost call has anything after it that can be visited, so that one
\* more entry visited leaves the rest where it was.
LEMMA TopMoves ==
  ASSUME TypeOK, stack # <<>>, NEW i \in Top.todo, NEW frame \in Frames,
         Top.todo \ {i} \subseteq frame.todo,
         stack' = WithTop(frame)
  PROVE  /\ DOMAIN stack' = DOMAIN stack /\ Len(stack) \in DOMAIN stack
         /\ stack'[Len(stack)] = frame
         /\ \A k \in DOMAIN stack : k <= Len(stack) /\ stack[k].todo \ {i} \subseteq stack'[k].todo
         /\ \A k \in DOMAIN stack : k # Len(stack) => stack'[k].seen = stack[k].seen
         /\ Pending \ {i} \subseteq Pending' /\ frame.todo \subseteq Pending'
<1>1. PICK n \in Nat \ {0} : n = Len(stack) /\ DOMAIN stack = 1..n
  BY StackFacts DEF TypeOK
<1>2. /\ DOMAIN stack' = 1..n /\ stack'[n] = frame
      /\ \A k \in 1..n : k # n => stack'[k] = stack[k]
  BY <1>1, TopReplaced DEF TypeOK
<1>3. \A k \in 1..n : k <= n /\ stack[k].todo \ {i} \subseteq stack'[k].todo
  BY <1>1, <1>2 DEF Top
<1>4. Pending \ {i} \subseteq Pending' /\ frame.todo \subseteq Pending'
  BY <1>1, <1>2, <1>3 DEF Pending
<1>5. QED
  BY <1>1, <1>2, <1>3, <1>4

\* Entering a directory puts all its entries before the walk, and skipping one
\* skips nothing new.
LEMMA EnterDirCovers ==
  ASSUME IInv, [Next]_vars, NEW i \in Top.todo, EnterDir(i),
         NEW E \in SUBSET Dirs, WalkCovers(E)
  PROVE  \E F \in SUBSET Dirs : WalkCovers(F)'
<1> USE DEF IInv, WalkCovers
<1>1. /\ ~cancelled /\ stack # <<>> /\ UNCHANGED <<links, unreadable>>
      /\ i \in Items /\ i.to \in Dirs /\ i.to \notin Files
  BY FrameFacts, PathAssumption DEF EnterDir, Visit, disk, Items
<1>2. \A D \in SUBSET Dirs : Below(D)' = Below(D)
  BY <1>1 DEF Below, Entries
<1>3. \A f \in Files : UnderWay(f) => UnderWay(f)'
  BY <1>1, UnderWayStep
<1>4. \A d : i = Item("dir", d, d) => d = i.to
  BY DEF Item
<1>5. CASE i.to \in Top.seen
  <2>1. stack' = WithTop(Done(i)) /\ Done(i) \in Frames
        /\ Done(i).todo = Top.todo \ {i} /\ Done(i).seen = Top.seen
    BY <1>1, <1>5, FrameFacts DEF EnterDir
  <2>2. /\ DOMAIN stack' = DOMAIN stack /\ Len(stack) \in DOMAIN stack
        /\ stack'[Len(stack)] = Done(i)
        /\ \A k \in DOMAIN stack : k <= Len(stack) /\ stack[k].todo \ {i} \subseteq stack'[k].todo
        /\ \A k \in DOMAIN stack : k # Len(stack) => stack'[k].seen = stack[k].seen
        /\ Pending \ {i} \subseteq Pending'
    BY <1>1, <2>1, TopMoves
  <2>3. i.to \in E
    <3>1. ~ \E m \in DOMAIN stack : m > Len(stack)
      <4>1. PICK n \in Nat : n = Len(stack) /\ DOMAIN stack = 1..n
        BY <1>1, StackFacts DEF TypeOK
      <4>2. QED
        BY <4>1
    <3>2. Top = stack[Len(stack)]
      BY DEF Top
    <3>3. QED
      BY <1>5, <2>2, <3>1, <3>2 DEF SeenIsEntered
  <2>4. \A d : Known(d, E) => Known(d, E)'
    BY <1>4, <2>2, <2>3 DEF Known
  <2>5. NothingSkipped(E)'
    BY <1>1, <1>2, <1>3, <2>2, <2>3, <2>4 DEF NothingSkipped, Known
  <2>6. SeenIsEntered(E)'
    <3>1. ASSUME NEW k \in DOMAIN stack, NEW d \in stack'[k].seen
          PROVE  d \in E \/ \E m \in DOMAIN stack : m > k /\ Item("dir", d, d) \in stack'[m].todo
      <4>1. d \in stack[k].seen
        BY <2>1, <2>2, <3>1 DEF Top
      <4>2. QED
        BY <1>4, <2>2, <2>3, <4>1 DEF SeenIsEntered
    <3>2. QED
      BY <2>2, <3>1 DEF SeenIsEntered
  <2>7. QED
    BY <2>4, <2>5, <2>6
<1>6. CASE i.to \notin Top.seen
  <2> DEFINE frame == [Seen(i) EXCEPT !.todo = @ \cup Entries(i.to)]
             F == E \cup {i.to}
  <2>1. stack' = WithTop(frame) /\ frame \in Frames
        /\ frame.todo = (Top.todo \ {i}) \cup Entries(i.to)
        /\ frame.seen = Top.seen \cup {i.to}
    BY <1>1, <1>6, EnteredFrame DEF EnterDir
  <2> HIDE DEF frame
  <2>2. /\ DOMAIN stack' = DOMAIN stack /\ Len(stack) \in DOMAIN stack
        /\ stack'[Len(stack)] = frame
        /\ \A k \in DOMAIN stack : k <= Len(stack) /\ stack[k].todo \ {i} \subseteq stack'[k].todo
        /\ \A k \in DOMAIN stack : k # Len(stack) => stack'[k].seen = stack[k].seen
        /\ Pending \ {i} \subseteq Pending' /\ frame.todo \subseteq Pending'
    BY <1>1, <2>1, TopMoves
  <2>3. F \in SUBSET Dirs /\ Below(F) = Below(E) \cup Entries(i.to)
    BY <1>1 DEF Below
  <2>4. \A d : Known(d, E) => Known(d, F)'
    BY <1>4, <2>2 DEF Known
  <2>5. NothingSkipped(F)'
    <3>1. ASSUME NEW j \in Below(E)
          PROVE  j \in Pending' \/ (j.to \in Dirs /\ Known(j.to, F)') \/ (j.to \in Files /\ UnderWay(j.to)')
      <4>1. CASE j = i
        BY <1>1, <4>1 DEF Known
      <4>2. CASE j # i
        BY <1>3, <2>2, <2>4, <4>2 DEF NothingSkipped
      <4>3. QED
        BY <4>1, <4>2
    <3>2. Entries(i.to) \subseteq Pending'
      BY <2>1, <2>2
    <3>3. Below(F)' = Below(E) \cup Entries(i.to)
      BY <1>2, <2>3
    <3>4. QED
      BY <3>1, <3>2, <3>3 DEF NothingSkipped
  <2>6. SeenIsEntered(F)'
    <3>1. ASSUME NEW k \in DOMAIN stack, NEW d \in stack'[k].seen
          PROVE  d \in F \/ \E m \in DOMAIN stack : m > k /\ Item("dir", d, d) \in stack'[m].todo
      <4>1. d \in stack[k].seen \/ d = i.to
        BY <2>1, <2>2, <3>1 DEF Top
      <4>2. QED
        BY <1>4, <2>2, <4>1 DEF SeenIsEntered
    <3>2. QED
      BY <2>2, <3>1 DEF SeenIsEntered
  <2>7. WalkCovers(F)'
    BY <2>4, <2>5, <2>6
  <2> HIDE DEF F
  <2>8. QED
    BY <2>3, <2>7
<1>7. QED
  BY <1>5, <1>6

\* A link to a directory is followed into a call of its own, or has been.
LEMMA FollowLinkCovers ==
  ASSUME IInv, [Next]_vars, NEW i \in Top.todo, FollowLink(i),
         NEW E \in SUBSET Dirs, WalkCovers(E)
  PROVE  WalkCovers(E)'
<1> USE DEF IInv, WalkCovers
<1>1. /\ ~cancelled /\ stack # <<>> /\ UNCHANGED <<links, unreadable>>
      /\ i \in Items /\ i.to \in Dirs /\ i.to \notin Files
      /\ \A d : i # Item("dir", d, d)
  BY FrameFacts, PathAssumption DEF FollowLink, Visit, disk, Item
<1>2. Below(E)' = Below(E)
  BY <1>1 DEF Below, Entries
<1>3. \A f \in Files : UnderWay(f) => UnderWay(f)'
  BY <1>1, UnderWayStep
<1>4. PICK n \in Nat \ {0} : n = Len(stack) /\ DOMAIN stack = 1..n
  BY <1>1, StackFacts DEF TypeOK
<1>5. Top = stack[n]
  BY <1>4 DEF Top
<1>6. CASE i.to \in Top.seen
  <2>1. stack' = WithTop(Done(i)) /\ Done(i) \in Frames
        /\ Done(i).todo = Top.todo \ {i} /\ Done(i).seen = Top.seen
    BY <1>1, <1>6, FrameFacts DEF FollowLink
  <2>2. /\ DOMAIN stack' = 1..n /\ stack'[n] = Done(i)
        /\ \A k \in 1..n : stack[k].todo \ {i} \subseteq stack'[k].todo
        /\ \A k \in 1..n : k # n => stack'[k].seen = stack[k].seen
        /\ Pending \ {i} \subseteq Pending'
    BY <1>1, <1>4, <2>1, TopMoves
  <2>3. i.to \in E
    BY <1>4, <1>5, <1>6 DEF SeenIsEntered
  <2>4. \A d : Known(d, E) => Known(d, E)'
    BY <1>1, <2>2 DEF Known
  <2>5. NothingSkipped(E)'
    BY <1>1, <1>2, <1>3, <2>2, <2>3, <2>4 DEF NothingSkipped, Known
  <2>6. \A k \in 1..n : stack'[k].seen = stack[k].seen
    BY <1>5, <2>1, <2>2
  <2>7. SeenIsEntered(E)'
    BY <1>1, <1>4, <2>2, <2>6 DEF SeenIsEntered
  <2>8. QED
    BY <2>4, <2>5, <2>7
<1>7. CASE i.to \notin Top.seen
  <2>1. /\ stack' = Append(WithTop(Seen(i)), Call(i.to))
        /\ Seen(i) \in Frames /\ Call(i.to) \in Frames
        /\ Seen(i).todo = Top.todo \ {i} /\ Seen(i).seen = Top.seen \cup {i.to}
        /\ Call(i.to).todo = {Item("dir", i.to, i.to)} /\ Call(i.to).seen = {}
    BY <1>1, <1>7, FrameFacts, CallFacts DEF FollowLink
  <2>2. /\ DOMAIN stack' = 1..n \cup {n+1}
        /\ stack'[n] = Seen(i) /\ stack'[n+1] = Call(i.to)
        /\ \A k \in 1..n : k # n => stack'[k] = stack[k]
    <3>1. /\ DOMAIN stack' = DOMAIN stack \cup {Len(stack)+1}
          /\ stack'[Len(stack)] = Seen(i) /\ stack'[Len(stack)+1] = Call(i.to)
          /\ \A k \in DOMAIN stack : k # Len(stack) => stack'[k] = stack[k]
      <4>1. stack \in Seq(Frames) /\ stack # <<>> /\ Seen(i) \in Frames /\ Call(i.to) \in Frames
        BY <1>1, <2>1 DEF TypeOK
      <4>2. /\ DOMAIN Append(WithTop(Seen(i)), Call(i.to)) = DOMAIN stack \cup {Len(stack)+1}
            /\ Append(WithTop(Seen(i)), Call(i.to))[Len(stack)] = Seen(i)
            /\ Append(WithTop(Seen(i)), Call(i.to))[Len(stack)+1] = Call(i.to)
            /\ \A k \in DOMAIN stack : k # Len(stack) =>
                 Append(WithTop(Seen(i)), Call(i.to))[k] = stack[k]
        BY <4>1, CallPushed, Zenon
      <4>3. QED
        BY <2>1, <4>2
    <3>2. QED
      BY <1>4, <3>1
  <2>3. \A k \in 1..n : stack[k].todo \ {i} \subseteq stack'[k].todo
    BY <1>5, <2>1, <2>2
  <2>4. Pending \ {i} \subseteq Pending' /\ Item("dir", i.to, i.to) \in Pending'
    BY <1>4, <2>1, <2>2, <2>3 DEF Pending
  <2>5. \A d : Known(d, E) => Known(d, E)'
    BY <1>1, <2>4 DEF Known
  <2>6. NothingSkipped(E)'
    BY <1>1, <1>2, <1>3, <2>4, <2>5 DEF NothingSkipped, Known
  <2>7. SeenIsEntered(E)'
    <3>1. ASSUME NEW k \in 1..n, NEW d \in stack'[k].seen
          PROVE  d \in E \/ \E m \in DOMAIN stack' : m > k /\ Item("dir", d, d) \in stack'[m].todo
      <4>1. CASE d \in stack[k].seen
        BY <1>1, <1>4, <2>2, <2>3, <4>1 DEF SeenIsEntered
      <4>2. CASE d \notin stack[k].seen
        <5>1. k = n /\ d = i.to
          BY <1>5, <2>1, <2>2, <4>2
        <5>2. QED
          BY <2>1, <2>2, <5>1
      <4>3. QED
        BY <4>1, <4>2
    <3>2. stack'[n+1].seen = {}
      BY <2>1, <2>2
    <3>3. QED
      BY <2>2, <3>1, <3>2 DEF SeenIsEntered
  <2>8. QED
    BY <2>5, <2>6, <2>7
<1>8. QED
  BY <1>6, <1>7

\* A file found is under way.
LEMMA FindFileCovers ==
  ASSUME IInv, [Next]_vars, NEW i \in Top.todo, FindFile(i),
         NEW E \in SUBSET Dirs, WalkCovers(E)
  PROVE  WalkCovers(E)'
<1> USE DEF IInv, WalkCovers
<1>1. /\ ~cancelled /\ stack # <<>> /\ UNCHANGED <<links, unreadable>>
      /\ i.to \in Files /\ i.to = sending'
      /\ \A d \in Dirs : i # Item("dir", d, d)
  BY PathAssumption DEF FindFile, Visit, disk, Item
<1>2. Below(E)' = Below(E)
  BY <1>1 DEF Below, Entries
<1>3. \A f \in Files : UnderWay(f) => UnderWay(f)'
  BY <1>1, UnderWayStep
<1>4. PICK n \in Nat \ {0} : n = Len(stack) /\ DOMAIN stack = 1..n /\ Top = stack[n]
  BY <1>1, StackFacts DEF TypeOK, Top
<1>5. stack' = WithTop(Done(i)) /\ Done(i) \in Frames
      /\ Done(i).todo = Top.todo \ {i} /\ Done(i).seen = Top.seen
  BY <1>1, FrameFacts DEF FindFile
<1>6. /\ DOMAIN stack' = 1..n /\ stack'[n] = Done(i)
      /\ \A k \in 1..n : stack[k].todo \ {i} \subseteq stack'[k].todo
      /\ \A k \in 1..n : k # n => stack'[k].seen = stack[k].seen
      /\ Pending \ {i} \subseteq Pending'
  BY <1>1, <1>4, <1>5, TopMoves
<1>7. \A d \in Dirs : Known(d, E) => Known(d, E)'
  BY <1>1, <1>6 DEF Known
<1>8. NothingSkipped(E)'
  <2>1. UnderWay(i.to)'
    BY <1>1 DEF UnderWay
  <2>2. QED
    BY <1>1, <1>2, <1>3, <1>6, <1>7, <2>1 DEF NothingSkipped
<1>9. SeenIsEntered(E)'
  <2>1. \A k \in 1..n : stack'[k].seen = stack[k].seen /\ stack[k].seen \subseteq Dirs
    <3>1. \A k \in 1..n : stack[k] \in Frames
      BY <1>4 DEF TypeOK
    <3>2. \A k \in 1..n : stack[k].seen \subseteq Dirs
      BY <3>1 DEF Frames
    <3>3. QED
      BY <1>4, <1>5, <1>6, <3>2
  <2>2. QED
    BY <1>1, <1>4, <1>6, <2>1 DEF SeenIsEntered
<1>10. QED
  BY <1>7, <1>8, <1>9, TreeAssumption

\* A call returns when nothing is left before it.
LEMMA CallReturnsCovers ==
  ASSUME IInv, [Next]_vars, ~cancelled, CallReturns,
         NEW E \in SUBSET Dirs, WalkCovers(E)
  PROVE  WalkCovers(E)'
<1> USE DEF IInv, WalkCovers
<1>1. /\ stack # <<>> /\ Top.todo = {} /\ stack' = Outer
      /\ UNCHANGED <<links, unreadable>>
  BY DEF CallReturns, disk
<1>2. Below(E)' = Below(E)
  BY <1>1 DEF Below, Entries
<1>3. \A f \in Files : UnderWay(f) => UnderWay(f)'
  BY <1>1, UnderWayStep
<1>4. PICK m \in Nat : m = Len(Outer) /\ Len(stack) = m + 1
  BY <1>1, StackFacts DEF TypeOK
<1>5. /\ DOMAIN stack = 1..m+1 /\ DOMAIN stack' = 1..m
      /\ stack[m+1].todo = {}
      /\ \A k \in 1..m : stack'[k] = stack[k]
  BY <1>1, <1>4, StackFacts, LenProperties DEF TypeOK, Top
<1>6. 1..m+1 = 1..m \cup {m+1}
  OBVIOUS
<1>7. Pending' = Pending
  BY <1>5, <1>6 DEF Pending
<1>8. NothingSkipped(E)'
  BY <1>2, <1>3, <1>7 DEF NothingSkipped, Known
<1>9. SeenIsEntered(E)'
  BY <1>5, <1>6 DEF SeenIsEntered
<1>10. QED
  BY <1>7, <1>8, <1>9 DEF Known

\* Whatever the walk, the workers and the caller do, what the walk has entered is
\* covered as long as the context is not cancelled.
LEMMA CoveredStep == IInv /\ [Next]_vars => Covered'
<1> SUFFICES ASSUME IInv, [Next]_vars, ~cancelled' PROVE \E E \in SUBSET Dirs : WalkCovers(E)'
  BY DEF Covered
<1>1. ~cancelled
  BY DEF Next, Walker, Mapper, Worker, Caller, vars, EnterDir, FollowLink, FindFile, Visit,
         Send, WalkCancelled, CallReturns, PostResult, CloseResults, Receive, Submit,
         CloseJobs, Take, Process, Leave, PoolReturns, Join, Cancel
<1>2. PICK E \in SUBSET Dirs : WalkCovers(E)
  BY <1>1 DEF IInv, Covered
<1>3. ASSUME NEW i \in Top.todo, EnterDir(i) \/ FollowLink(i) \/ FindFile(i)
      PROVE  \E F \in SUBSET Dirs : WalkCovers(F)'
  BY <1>2, <1>3, EnterDirCovers, FollowLinkCovers, FindFileCovers
<1>4. CASE CallReturns
  BY <1>1, <1>2, <1>4, CallReturnsCovers
<1>5. CASE UNCHANGED <<stack, links, unreadable>>
  BY <1>1, <1>2, <1>5, SameStack
<1>6. CASE Send \/ PostResult \/ CloseResults
  BY <1>5, <1>6 DEF Send, PostResult, CloseResults, disk
<1>7. CASE Mapper \/ Caller \/ UNCHANGED vars
  BY <1>5, <1>7 DEF Mapper, Receive, Submit, CloseJobs, Caller, PoolReturns, Join, vars, disk, walk
<1>8. ASSUME NEW w \in Workers, Worker(w)
      PROVE  \E F \in SUBSET Dirs : WalkCovers(F)'
  BY <1>5, <1>8 DEF Worker, Take, Process, Leave, disk, walk
<1>9. ~WalkCancelled /\ ~Cancel
  BY <1>1 DEF WalkCancelled, Cancel
<1>10. QED
  BY <1>3, <1>4, <1>6, <1>7, <1>8, <1>9 DEF Next, Walker

\* A scan joins a walk that covered everything and a pool with nothing left, and
\* returns nil only then.
LEMMA JoinedAll ==
  ASSUME IInv, Join, caller' = "nil"
  PROVE  Audible \subseteq processed
<1> USE DEF IInv
<1>1. ~cancelled /\ caller = "join" /\ walker \in {"posted", "closed"}
  BY DEF Join
<1>2. PICK E \in SUBSET Dirs : WalkCovers(E)
  BY <1>1 DEF Covered
<1>3. stack = <<>> /\ sending = None /\ Pending = {}
  BY <1>1 DEF WalkerInv, Pending
<1>4. \A w \in Workers : worker[w] = "gone"
  BY <1>1 DEF CallerInv
<1>5. jobs = <<>> /\ results = <<>> /\ held = None
  BY <1>1, <1>4, PoolAssumption DEF PoolInv, MapperInv
<1>6. \A f \in Files : UnderWay(f) => f \in processed
  BY <1>3, <1>4, <1>5, PathAssumption DEF UnderWay, InElements
<1>7. Closed(E)
  BY <1>2, <1>3, PathAssumption DEF WalkCovers, Known, NothingSkipped, Closed
<1>8. ASSUME NEW f \in Audible
      PROVE  f \in processed
  <2>1. f \in Files /\ \E i \in Below(E) : i.to = f
    BY <1>7 DEF Audible
  <2>2. UnderWay(f)
    BY <1>2, <1>3, <2>1, PathAssumption DEF WalkCovers, NothingSkipped
  <2>3. QED
    BY <1>6, <2>1, <2>2
<1>9. QED
  BY <1>8

\* Once nil is returned nothing takes the processed files back.
LEMMA NilMeansAllStep == IInv /\ [Next]_vars => NilMeansAll'
<1> SUFFICES ASSUME IInv, [Next]_vars, caller' = "nil" PROVE (Audible \subseteq processed)'
  BY DEF NilMeansAll
<1>1. /\ UNCHANGED <<links, unreadable>> /\ processed \subseteq processed'
      /\ caller = "nil" \/ Join
  BY DEF Next, Walker, Mapper, Worker, Caller, vars, EnterDir, FollowLink, FindFile, Visit,
         Send, WalkCancelled, CallReturns, PostResult, CloseResults, Receive, Submit,
         CloseJobs, Take, Process, Leave, PoolReturns, Join, Cancel, disk, walk, pool
<1>2. Audible' = Audible
  BY <1>1 DEF Audible, Closed, Below, Entries
<1>3. Audible \subseteq processed
  BY <1>1, JoinedAll DEF IInv, NilMeansAll
<1>4. QED
  BY <1>1, <1>2, <1>3

\* The scan starts with its root before it.
LEMMA InitInv == Init => IInv
<1> SUFFICES ASSUME Init PROVE IInv
  OBVIOUS
<1> USE DEF Init
<1>1. Root \in Dirs /\ stack = <<Call(Root)>> /\ stack \in Seq(Frames) /\ DOMAIN stack = {1}
  BY TreeAssumption, CallFacts
<1>9. Len(stack) <= MaxDepth
  BY <1>1, DepthAssumption
<1>2. TypeOK
  <2>1. links \in LinkSets /\ unreadable \subseteq Dirs
    OBVIOUS
  <2>2. results \in Seq(Files) /\ Len(results) <= Capacity
        /\ jobs \in Seq(Files) /\ Len(jobs) <= Capacity
    BY PoolAssumption
  <2>3. worker \in [Workers -> Files \cup {"idle", "gone"}]
    OBVIOUS
  <2>4. QED
    BY <1>1, <1>9, <2>1, <2>2, <2>3 DEF TypeOK
<1>3. WalkCovers({})
  <2>1. Item("dir", Root, Root) \in Pending
    BY <1>1, CallFacts DEF Pending
  <2>2. stack[1].seen = {}
    BY <1>1, CallFacts
  <2>3. QED
    BY <1>1, <2>1, <2>2 DEF WalkCovers, Known, NothingSkipped, Below, SeenIsEntered
<1>4. WalkerInv /\ MapperInv /\ PoolInv /\ CallerInv /\ Covered /\ NilMeansAll
  BY <1>3 DEF WalkerInv, MapperInv, PoolInv, CallerInv, Covered, NilMeansAll
<1>5. QED
  BY <1>2, <1>4 DEF IInv

\* The inductive invariant of a scan.
THEOREM ScanInvariant == Spec => []IInv
<1>1. Init => IInv
  BY InitInv
<1>2. IInv /\ [Next]_vars => IInv'
  BY TypeOKStep, ControlStep, CoveredStep, NilMeansAllStep DEF IInv
<1>3. QED
  BY <1>1, <1>2, PTL DEF Spec

\* Calls, channels and goroutines keep to their kinds, and the channels to their
\* capacity.
THEOREM TypeCorrect == Spec => []TypeOK
<1>1. IInv => TypeOK
  BY DEF IInv
<1>2. QED
  BY <1>1, ScanInvariant, PTL

\* A scan that returns nil has processed every audible file, whatever the tree,
\* its links and the moment of a cancel (Scanner.ScanLibrary).
THEOREM NilMeansAllAlways == Spec => []NilMeansAll
<1>1. IInv => NilMeansAll
  BY DEF IInv
<1>2. QED
  BY <1>1, ScanInvariant, PTL


-----------------------------------------------------------------------------
(* Calls inside one another.                                               *)

\* A call begins with its directory alone; from then on it has that directory in
\* its visited set, and before it entries of directories it enters itself.
FrameInv(call) ==
  \/ call.todo = {Item("dir", call.dir, call.dir)} /\ call.seen = {}
  \/ /\ call.dir \in call.seen
     /\ \A i \in call.todo : i.at \in Inside(call.dir) /\ i \in Entries(i.at)

\* Each call was made for a link inside the one around it.
StackInv ==
  /\ \A k \in DOMAIN stack : FrameInv(stack[k])
  /\ \A k \in DOMAIN stack :
       k+1 \in DOMAIN stack => LeadsTo(stack[k].dir, stack[k+1].dir)

\* What a call enters without a link is closed under subdirectories.
LEMMA InsideFacts ==
  ASSUME NEW d \in Dirs
  PROVE  /\ d \in Inside(d)
         /\ \A c \in Inside(d) : \A i \in Entries(c) :
              i.kind = "dir" /\ i.to \in Dirs => i.to \in Inside(d)
<1>1. d \in Inside(d)
  BY DEF Inside
<1>2. ASSUME NEW c \in Inside(d), NEW i \in Entries(c), i.kind = "dir", i.to \in Dirs
      PROVE  i.to \in Inside(d)
  <2> SUFFICES ASSUME NEW D \in SUBSET Dirs, d \in D,
                      \A j \in Below(D) : j.kind = "dir" => j.to \in D
               PROVE  i.to \in D
    BY <1>2 DEF Inside
  <2>1. c \in D
    BY DEF Inside
  <2>2. i \in Below(D)
    BY <2>1 DEF Below
  <2>3. QED
    BY <1>2, <2>2
<1>3. QED
  BY <1>1, <1>2

\* The disk does not change under the scan.
LEMMA DiskStays == [Next]_vars => UNCHANGED <<links, unreadable>>
BY DEF Next, Walker, Mapper, Worker, Caller, vars, EnterDir, FollowLink, FindFile, Visit,
       Send, WalkCancelled, CallReturns, PostResult, CloseResults, Receive, Submit,
       CloseJobs, Take, Process, Leave, PoolReturns, Join, Cancel, disk

LEMMA StackInvNext ==
  ASSUME UNCHANGED <<links, unreadable>>,
         \A k \in DOMAIN stack' : FrameInv(stack'[k]),
         \A k \in DOMAIN stack' :
           k+1 \in DOMAIN stack' => LeadsTo(stack'[k].dir, stack'[k+1].dir)
  PROVE  StackInv'
<1>1. \A d : Entries(d)' = Entries(d)
  BY DEF Entries
<1>2. \A d : Inside(d)' = Inside(d)
  BY DEF Inside, Below, Entries
<1>3. \A call : FrameInv(call)' <=> FrameInv(call)
  BY <1>1, <1>2 DEF FrameInv
<1>4. \A d, e : LeadsTo(d, e)' <=> LeadsTo(d, e)
  BY <1>1, <1>2 DEF LeadsTo
<1>5. QED
  BY <1>3, <1>4 DEF StackInv

\* An entry of the innermost call that has been dealt with.
LEMMA DoneKeeps ==
  ASSUME TypeOK, StackInv, stack # <<>>, NEW i \in Top.todo, i.kind # "dir" \/ i.to \in Top.seen
  PROVE  /\ FrameInv(Done(i)) /\ Done(i).dir = Top.dir /\ Top.dir \in Top.seen
         /\ i.at \in Inside(Top.dir) /\ i \in Entries(i.at)
<1>1. Top \in Frames /\ FrameInv(Top)
  BY StackFacts DEF TypeOK, Top, StackInv
<1>2. /\ Top.dir \in Top.seen
      /\ \A j \in Top.todo : j.at \in Inside(Top.dir) /\ j \in Entries(j.at)
  BY <1>1 DEF FrameInv, Item
<1>3. Done(i).dir = Top.dir /\ Done(i).todo = Top.todo \ {i} /\ Done(i).seen = Top.seen
  BY <1>1 DEF Done, Frames
<1>4. QED
  BY <1>2, <1>3 DEF FrameInv

\* The innermost call goes on.
LEMMA TopKeeps ==
  ASSUME TypeOK, StackInv, UNCHANGED <<links, unreadable>>, stack # <<>>,
         NEW frame \in Frames, frame.dir = Top.dir, FrameInv(frame),
         stack' = WithTop(frame)
  PROVE  StackInv'
<1>1. PICK n \in Nat \ {0} : n = Len(stack) /\ DOMAIN stack = 1..n
  BY StackFacts DEF TypeOK
<1>2. /\ DOMAIN stack' = 1..n /\ stack'[n] = frame /\ Top = stack[n]
      /\ \A k \in 1..n : k # n => stack'[k] = stack[k]
  BY <1>1, TopReplaced DEF TypeOK, Top
<1>3. \A k \in 1..n : FrameInv(stack'[k]) /\ stack'[k].dir = stack[k].dir
  BY <1>1, <1>2 DEF StackInv
<1>4. \A k \in 1..n : k+1 \in 1..n => LeadsTo(stack'[k].dir, stack'[k+1].dir)
  BY <1>1, <1>3 DEF StackInv
<1>5. QED
  BY <1>2, <1>3, <1>4, StackInvNext

\* A step of the walk, as far as directories are concerned.
LEMMA StackInvStep == IInv /\ StackInv /\ [Next]_vars => StackInv'
<1> SUFFICES ASSUME IInv, StackInv, [Next]_vars PROVE StackInv'
  OBVIOUS
<1> USE DEF IInv
<1>1. UNCHANGED <<links, unreadable>>
  BY DiskStays
<1>2. ASSUME NEW i \in Top.todo, stack # <<>>, EnterDir(i)
      PROVE  StackInv'
  <2>1. i.to \in Dirs /\ i.kind = "dir"
    BY <1>2, FrameFacts DEF EnterDir, Visit, Items
  <2>2. CASE i.to \in Top.seen
    BY <1>1, <1>2, <2>1, <2>2, DoneKeeps, FrameFacts, TopKeeps DEF EnterDir
  <2>3. CASE i.to \notin Top.seen
    <3> DEFINE frame == [Seen(i) EXCEPT !.todo = @ \cup Entries(i.to)]
    <3>1. /\ stack' = WithTop(frame) /\ frame \in Frames
          /\ frame.todo = (Top.todo \ {i}) \cup Entries(i.to)
          /\ frame.seen = Top.seen \cup {i.to}
      BY <1>2, <2>1, <2>3, EnteredFrame DEF EnterDir
    <3>2. Top \in Frames /\ FrameInv(Top)
      BY <1>2, StackFacts DEF TypeOK, Top, StackInv
    <3>3. frame.dir = Top.dir /\ Top.dir \in Dirs
      BY <3>2 DEF Seen, Frames
    <3>4. \A j \in Entries(i.to) : j.at = i.to
      BY DEF Entries, Item
    <3> HIDE DEF frame
    <3>5. CASE Top.todo = {Item("dir", Top.dir, Top.dir)} /\ Top.seen = {}
      <4>1. i = Item("dir", Top.dir, Top.dir) /\ i.to = Top.dir
        BY <3>5 DEF Item
      <4>2. frame.todo = Entries(Top.dir) /\ frame.seen = {Top.dir}
        BY <3>1, <3>5, <4>1
      <4>3. FrameInv(frame)
        BY <3>3, <3>4, <4>1, <4>2, InsideFacts DEF FrameInv
      <4>4. QED
        BY <1>1, <1>2, <3>1, <3>3, <4>3, TopKeeps
    <3>6. CASE /\ Top.dir \in Top.seen
               /\ \A j \in Top.todo : j.at \in Inside(Top.dir) /\ j \in Entries(j.at)
      <4>1. i.to \in Inside(Top.dir)
        BY <2>1, <3>3, <3>6, InsideFacts
      <4>2. FrameInv(frame)
        BY <3>1, <3>3, <3>4, <3>6, <4>1 DEF FrameInv
      <4>3. QED
        BY <1>1, <1>2, <3>1, <3>3, <4>2, TopKeeps
    <3>7. QED
      BY <3>2, <3>5, <3>6 DEF FrameInv
  <2>4. QED
    BY <2>2, <2>3
<1>3. ASSUME NEW i \in Top.todo, stack # <<>>, FollowLink(i)
      PROVE  StackInv'
  <2>1. i.kind = "link" /\ i.to \in Dirs /\ Done(i) \in Frames
    BY <1>3, FrameFacts DEF FollowLink
  <2>2. /\ FrameInv(Done(i)) /\ Done(i).dir = Top.dir /\ Top.dir \in Top.seen
        /\ i.at \in Inside(Top.dir) /\ i \in Entries(i.at)
    BY <1>3, <2>1, DoneKeeps
  <2>3. CASE i.to \in Top.seen
    BY <1>1, <1>3, <2>1, <2>2, <2>3, TopKeeps DEF FollowLink
  <2>4. CASE i.to \notin Top.seen
    <3>1. /\ stack' = Append(WithTop(Seen(i)), Call(i.to))
          /\ Seen(i) \in Frames /\ Call(i.to) \in Frames
          /\ Seen(i).todo = Top.todo \ {i} /\ Seen(i).seen = Top.seen \cup {i.to}
          /\ Call(i.to).todo = {Item("dir", i.to, i.to)} /\ Call(i.to).seen = {}
      BY <1>3, <2>1, <2>4, FrameFacts, CallFacts DEF FollowLink
    <3>2. Seen(i).dir = Top.dir /\ Call(i.to).dir = i.to
      <4>1. Top \in Frames
        BY <1>3, StackFacts DEF TypeOK
      <4>2. QED
        BY <4>1 DEF Seen, Call, Frames
    <3>3. FrameInv(Seen(i)) /\ FrameInv(Call(i.to))
      <4>1. Done(i).todo = Top.todo \ {i} /\ Done(i).seen = Top.seen
        BY <1>3, FrameFacts
      <4>2. i.kind # "dir"
        BY <2>1
      <4>3. \A j \in Top.todo \ {i} : j.at \in Inside(Top.dir) /\ j \in Entries(j.at)
        BY <2>2, <4>1 DEF FrameInv
      <4>4. QED
        BY <2>2, <3>1, <3>2, <4>3 DEF FrameInv
    <3>4. LeadsTo(Top.dir, i.to)
      <4>1. i = Item("link", i.at, i.to)
        BY <1>3, <2>1, FrameFacts DEF Item, Items
      <4>2. QED
        BY <2>2, <2>4, <4>1 DEF LeadsTo
    <3>5. PICK n \in Nat \ {0} : n = Len(stack) /\ DOMAIN stack = 1..n /\ Top = stack[n]
      BY <1>3, StackFacts DEF TypeOK, Top
    <3>6. /\ DOMAIN stack' = 1..n \cup {n+1}
          /\ stack'[n] = Seen(i) /\ stack'[n+1] = Call(i.to)
          /\ \A k \in 1..n : k # n => stack'[k] = stack[k]
      <4>1. stack \in Seq(Frames) /\ stack # <<>> /\ Seen(i) \in Frames /\ Call(i.to) \in Frames
        BY <1>3, <3>1 DEF TypeOK
      <4>2. /\ DOMAIN Append(WithTop(Seen(i)), Call(i.to)) = DOMAIN stack \cup {Len(stack)+1}
            /\ Append(WithTop(Seen(i)), Call(i.to))[Len(stack)] = Seen(i)
            /\ Append(WithTop(Seen(i)), Call(i.to))[Len(stack)+1] = Call(i.to)
            /\ \A k \in DOMAIN stack : k # Len(stack) =>
                 Append(WithTop(Seen(i)), Call(i.to))[k] = stack[k]
        BY <4>1, CallPushed, Zenon
      <4>3. QED
        BY <3>1, <3>5, <4>2
    <3>7. \A k \in 1..n : FrameInv(stack'[k]) /\ stack'[k].dir = stack[k].dir
      BY <3>2, <3>3, <3>5, <3>6 DEF StackInv
    <3>8. FrameInv(stack'[n+1]) /\ LeadsTo(stack'[n].dir, stack'[n+1].dir)
      BY <3>2, <3>3, <3>4, <3>6
    <3>9. ASSUME NEW k \in 1..n \cup {n+1}, k+1 \in 1..n \cup {n+1}
          PROVE  LeadsTo(stack'[k].dir, stack'[k+1].dir)
      <4>1. CASE k = n
        BY <3>8, <4>1
      <4>2. CASE k # n
        <5>1. k \in 1..n /\ k+1 \in 1..n
          BY <3>9, <4>2
        <5>2. QED
          BY <3>5, <3>7, <5>1 DEF StackInv
      <4>3. QED
        BY <4>1, <4>2
    <3>10. QED
      BY <1>1, <3>6, <3>7, <3>8, <3>9, StackInvNext
  <2>5. QED
    BY <2>3, <2>4
<1>4. ASSUME NEW i \in Top.todo, stack # <<>>, FindFile(i)
      PROVE  StackInv'
  <2>1. i.kind # "dir" /\ Done(i) \in Frames /\ stack' = WithTop(Done(i))
    BY <1>4, FrameFacts, PathAssumption DEF FindFile, Visit, Items
  <2>2. FrameInv(Done(i)) /\ Done(i).dir = Top.dir
    BY <1>4, <2>1, DoneKeeps
  <2>3. QED
    BY <1>1, <1>4, <2>1, <2>2, TopKeeps
<1>5. CASE CallReturns
  <2>1. stack # <<>> /\ stack' = Outer
    BY <1>5 DEF CallReturns
  <2>2. PICK m \in Nat : m = Len(Outer) /\ Len(stack) = m + 1
    BY <2>1, StackFacts DEF TypeOK
  <2>3. /\ DOMAIN stack = 1..m+1 /\ DOMAIN stack' = 1..m
        /\ \A k \in 1..m : stack'[k] = stack[k]
    BY <2>1, <2>2, StackFacts, LenProperties DEF TypeOK
  <2>4. \A k \in 1..m : k \in 1..m+1 /\ FrameInv(stack'[k])
    BY <2>3 DEF StackInv
  <2>5. ASSUME NEW k \in 1..m, k+1 \in 1..m
        PROVE  LeadsTo(stack'[k].dir, stack'[k+1].dir)
    <3>1. LeadsTo(stack[k].dir, stack[k+1].dir)
      BY <2>3, <2>4, <2>5 DEF StackInv
    <3>2. QED
      BY <2>3, <2>5, <3>1
  <2>6. QED
    BY <1>1, <2>3, <2>4, <2>5, StackInvNext
<1>6. CASE stack' = <<>>
  BY <1>1, <1>6, StackInvNext
<1>7. CASE UNCHANGED stack
  BY <1>1, <1>7, StackInvNext DEF StackInv
<1>8. QED
  BY <1>2, <1>3, <1>4, <1>5, <1>6, <1>7
  DEF Next, Walker, Mapper, Worker, Caller, vars, Send, WalkCancelled, PostResult,
      CloseResults, Receive, Submit, CloseJobs, Take, Process, Leave, PoolReturns, Join,
      Cancel, walk

\* Two calls on one directory make the links lead round: from the outer of them
\* each call leads to the next, the last to the directory they share.
LEMMA RoundOfLinks ==
  ASSUME TypeOK, StackInv, NEW m \in DOMAIN stack, NEW n \in DOMAIN stack,
         m < n, stack[m].dir = stack[n].dir
  PROVE  ~NoRound
<1>1. PICK h \in Nat : DOMAIN stack = 1..h /\ \A k \in 1..h : stack[k].dir \in Dirs
  <2>1. PICK h \in Nat : h = Len(stack) /\ DOMAIN stack = 1..h
    BY LenProperties DEF TypeOK
  <2>2. \A k \in 1..h : stack[k] \in Frames
    BY <2>1 DEF TypeOK
  <2>3. QED
    BY <2>1, <2>2 DEF Frames
<1> DEFINE D == {stack[k].dir : k \in m..n-1}
<1>2. m \in 1..h /\ n \in 1..h /\ \A k \in m..n-1 : k \in 1..h /\ k+1 \in 1..h
  BY <1>1
<1>3. D \in SUBSET Dirs /\ stack[m].dir \in D
  <2>1. m \in m..n-1
    BY <1>2
  <2>2. QED
    BY <1>1, <1>2, <2>1
<1>4. \A k \in m..n-1 : stack[k+1].dir \in D
  <2>1. \A k \in m..n-1 : k+1 \in m..n-1 \/ k+1 = n
    BY <1>2
  <2>2. QED
    BY <1>3, <2>1
<1>5. \A k \in m..n-1 : LeadsTo(stack[k].dir, stack[k+1].dir)
  BY <1>1, <1>2 DEF StackInv
<1>6. \A d \in D : \E e \in D : LeadsTo(d, e)
  BY <1>4, <1>5
<1>7. QED
  BY <1>3, <1>6 DEF NoRound

\* While the links do not lead round between calls, no directory is walked inside
\* a walk of itself, whatever the tree and the order of its entries
\* (WalkAudioFiles).
THEOREM CyclesDetected == Spec => []NoCycleOfLinks
<1>1. Init => StackInv
  <2> SUFFICES ASSUME Init PROVE StackInv
    OBVIOUS
  <2>1. Root \in Dirs /\ stack = <<Call(Root)>> /\ DOMAIN stack = {1}
    BY TreeAssumption DEF Init
  <2>2. /\ Call(Root).dir = Root /\ Call(Root).seen = {}
        /\ Call(Root).todo = {Item("dir", Root, Root)}
    BY DEF Call
  <2>3. FrameInv(stack[1])
    BY <2>1, <2>2 DEF FrameInv
  <2>4. QED
    BY <2>1, <2>3 DEF StackInv
<1>2. IInv /\ StackInv /\ [Next]_vars => StackInv'
  BY StackInvStep
<1>3. IInv /\ StackInv => NoCycleOfLinks
  <2> SUFFICES ASSUME IInv, StackInv, NoRound,
                      NEW m \in DOMAIN stack, NEW n \in DOMAIN stack,
                      stack[m].dir = stack[n].dir
               PROVE  m = n
    BY DEF NoCycleOfLinks, NoCycle
  <2>1. m \in Nat /\ n \in Nat
    BY LenProperties DEF IInv, TypeOK
  <2>2. ~(m < n) /\ ~(n < m)
    BY RoundOfLinks DEF IInv
  <2>3. QED
    BY <2>1, <2>2
<1>4. QED
  BY ScanInvariant, <1>1, <1>2, <1>3, PTL DEF Spec
=============================================================================
