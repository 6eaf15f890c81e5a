---------------------------- MODULE ScanPipeline ----------------------------
(***************************************************************************)
(* One library scan as goroutines and channels: Scanner.ScanLibrary        *)
(* (service/scanner.go) with WalkAudioFiles and workerPool                 *)
(* (service/scanner_walk.go).  A walker sends paths over results, a mapper  *)
(* turns each into a job, a pool runs the jobs, ScanLibrary joins the pool  *)
(* and then the walker.  The context may be cancelled between any two steps.*)
(*                                                                         *)
(* The walk recurses into linked directories, each call with a visited set  *)
(* of its own, so directories whose links lead round are walked for ever;  *)
(* what a job does to the database is LibraryScan's subject.               *)
(***************************************************************************)
EXTENDS Integers, Sequences

CONSTANTS
  Dirs, Files,
  Root,        \* lib.Path
  Sub,         \* the subdirectories of a directory (a forest)
  Holds,       \* the audio files in a directory
  LinkSets,    \* the symbolic links a run tries: sets of <<directory, target>>
  Workers,     \* goroutines of workerPool
  Capacity,    \* of the two channels
  MaxDepth,    \* bound: WalkAudioFiles calls inside one another
  None

ASSUME TreeAssumption ==
  /\ Root \in Dirs
  /\ Sub \in [Dirs -> SUBSET Dirs] /\ Holds \in [Dirs -> SUBSET Files]
  /\ LinkSets \subseteq SUBSET (Dirs \X (Dirs \cup Files))
ASSUME PoolAssumption == Workers # {} /\ Capacity \in Nat \ {0}
ASSUME DepthAssumption == MaxDepth \in Nat \ {0}
ASSUME PathAssumption ==
  /\ Dirs \cap Files = {}
  /\ {None, "idle", "gone"} \cap Files = {}

VARIABLES
  links,       \* the links of this run
  unreadable,  \* directories whose entries cannot be read
  cancelled,   \* ctx.Err() # nil
  stack,       \* the active WalkAudioFiles calls, outermost first
  walker, sending,
  walkErr,     \* what the walker puts into walkDone
  results, held, mapper, jobs,
  worker,      \* the path a worker processes, "idle" or "gone"
  caller,      \* ScanLibrary: in workerPool, at <-walkDone, or returned
  processed    \* history: files whose job has run

disk    == <<links, unreadable>>
walk    == <<stack, walker, sending, walkErr>>
vars    == <<disk, cancelled, walk, results, held, mapper, jobs, worker, caller, processed>>

Kinds == {"dir", "link", "file"}
Items == {i \in [kind : Kinds, at : Dirs, to : Dirs \cup Files] :
            (i.kind = "dir" => i.to \in Dirs) /\ (i.kind = "file" => i.to \in Files)}
Frames == [dir : Dirs, todo : SUBSET Items, seen : SUBSET Dirs]

TypeOK ==
  /\ links \in LinkSets /\ unreadable \subseteq Dirs
  /\ cancelled \in BOOLEAN /\ walkErr \in BOOLEAN
  /\ stack \in Seq(Frames) /\ Len(stack) <= MaxDepth
  /\ walker \in {"walking", "sending", "ended", "posted", "closed"}
  /\ sending \in Files \cup {None} /\ held \in Files \cup {None}
  /\ results \in Seq(Files) /\ Len(results) <= Capacity
  /\ jobs \in Seq(Files) /\ Len(jobs) <= Capacity
  /\ mapper \in {"running", "closed"}
  /\ worker \in [Workers -> Files \cup {"idle", "gone"}]
  /\ caller \in {"pool", "join", "nil", "error"}
  /\ processed \subseteq Files

Item(k, d, t) == [kind |-> k, at |-> d, to |-> t]

\* Only a directory that can be read has entries: a failed ReadDir is skipped.
Entries(d) ==
  IF d \in unreadable THEN {}
  ELSE {Item("dir", d, e) : e \in Sub[d]} \cup {Item("file", d, f) : f \in Holds[d]}
       \cup {Item("link", l[1], l[2]) : l \in {k \in links : k[1] = d}}

\* A call walks from its directory, which it has not entered yet.
Call(d) == [dir |-> d, todo |-> {Item("dir", d, d)}, seen |-> {}]

Init ==
  /\ links \in LinkSets /\ unreadable \in SUBSET Dirs
  /\ cancelled = FALSE
  /\ stack = <<Call(Root)>> /\ walker = "walking" /\ sending = None /\ walkErr = FALSE
  /\ results = <<>> /\ held = None /\ mapper = "running" /\ jobs = <<>>
  /\ worker = [w \in Workers |-> "idle"]
  /\ caller = "pool" /\ processed = {}

-----------------------------------------------------------------------------
(* The walker.                                                             *)

pool == <<held, mapper, jobs, worker, caller, processed>>
Top  == stack[Len(stack)]
Outer == SubSeq(stack, 1, Len(stack) - 1)
WithTop(frame) == Append(Outer, frame)

\* The callback for one entry, its context not cancelled.
Visit(i) ==
  /\ walker = "walking" /\ ~cancelled
  /\ stack # <<>> /\ i \in Top.todo
  /\ UNCHANGED <<disk, cancelled, walkErr, results, pool>>

Done(i) == [Top EXCEPT !.todo = @ \ {i}]
Seen(i) == [Top EXCEPT !.todo = @ \ {i}, !.seen = @ \cup {i.to}]

\* Mutant: a call forgets the directories it enters itself.
EnterDir_Forgets(i) ==
  /\ Visit(i) /\ i.kind = "dir"
  /\ stack' = WithTop([Done(i) EXCEPT !.todo = @ \cup Entries(i.to)])
  /\ UNCHANGED <<walker, sending>>

EnterDir(i) ==
  /\ Visit(i) /\ i.kind = "dir"
  /\ stack' = WithTop(IF i.to \in Top.seen THEN Done(i)    \* SkipDir
                      ELSE [Seen(i) EXCEPT !.todo = @ \cup Entries(i.to)])
  /\ UNCHANGED <<walker, sending>>

FollowLink(i) ==
  /\ Visit(i) /\ i.kind = "link" /\ i.to \in Dirs
  /\ \/ i.to \in Top.seen /\ stack' = WithTop(Done(i))
     \/ /\ i.to \notin Top.seen /\ Len(stack) < MaxDepth
        /\ stack' = Append(WithTop(Seen(i)), Call(i.to))
  /\ UNCHANGED <<walker, sending>>

\* Mutant: a link is sent whatever it leads to.
FindFile_AnyLink(i) ==
  /\ Visit(i) /\ i.kind # "dir"
  /\ stack' = WithTop(Done(i))
  /\ walker' = "sending" /\ sending' = i.to

\* A file, or a link to one, which is sent under its real path.
FindFile(i) ==
  /\ Visit(i) /\ i.to \in Files
  /\ stack' = WithTop(Done(i))
  /\ walker' = "sending" /\ sending' = i.to

Send ==
  /\ walker = "sending"
  /\ Len(results) < Capacity
  /\ results' = Append(results, sending)
  /\ walker' = "walking" /\ sending' = None
  /\ UNCHANGED <<disk, cancelled, stack, walkErr, pool>>

\* The error of an inner call ends the outer ones too.
WalkCancelled ==
  /\ cancelled
  /\ \/ walker = "sending"
     \/ walker = "walking" /\ stack # <<>> /\ Top.todo # {}
  /\ walker' = "ended" /\ walkErr' = TRUE
  /\ stack' = <<>> /\ sending' = None
  /\ UNCHANGED <<disk, cancelled, results, pool>>

CallReturns ==
  /\ walker = "walking" /\ stack # <<>> /\ Top.todo = {}
  /\ stack' = Outer
  /\ walker' = IF Len(stack) = 1 THEN "ended" ELSE "walking"
  /\ UNCHANGED <<disk, cancelled, sending, walkErr, results, pool>>

PostResult ==
  /\ walker = "ended" /\ walker' = "posted"
  /\ UNCHANGED <<disk, cancelled, stack, sending, walkErr, results, pool>>

\* Mutant: results is left open when the walk failed.
CloseResults_OnSuccess ==
  /\ walker = "posted" /\ ~walkErr /\ walker' = "closed"
  /\ UNCHANGED <<disk, cancelled, stack, sending, walkErr, results, pool>>

CloseResults ==
  /\ walker = "posted" /\ walker' = "closed"
  /\ UNCHANGED <<disk, cancelled, stack, sending, walkErr, results, pool>>

-----------------------------------------------------------------------------
(* The mapper: one job per path.  It does not look at the context.         *)

Receive ==
  /\ held = None /\ results # <<>>
  /\ held' = Head(results) /\ results' = Tail(results)
  /\ UNCHANGED <<disk, cancelled, walk, mapper, jobs, worker, caller, processed>>

Submit ==
  /\ held # None /\ Len(jobs) < Capacity
  /\ jobs' = Append(jobs, held) /\ held' = None
  /\ UNCHANGED <<disk, cancelled, walk, results, mapper, worker, caller, processed>>

CloseJobs ==
  /\ mapper = "running" /\ walker = "closed"
  /\ results = <<>> /\ held = None
  /\ mapper' = "closed"
  /\ UNCHANGED <<disk, cancelled, walk, results, held, jobs, worker, caller, processed>>

-----------------------------------------------------------------------------
(* The pool.                                                               *)

Take(w) ==
  /\ worker[w] = "idle" /\ jobs # <<>>
  /\ jobs' = Tail(jobs)
  /\ worker' = [worker EXCEPT ![w] = IF cancelled THEN "gone" ELSE Head(jobs)]
  /\ UNCHANGED <<disk, cancelled, walk, results, held, mapper, caller, processed>>

Process(w) ==
  /\ worker[w] \in Files
  /\ processed' = processed \cup {worker[w]}
  /\ worker' = [worker EXCEPT ![w] = "idle"]
  /\ UNCHANGED <<disk, cancelled, walk, results, held, mapper, jobs, caller>>

Leave(w) ==
  /\ worker[w] = "idle" /\ jobs = <<>> /\ mapper = "closed"
  /\ worker' = [worker EXCEPT ![w] = "gone"]
  /\ UNCHANGED <<disk, cancelled, walk, results, held, mapper, jobs, caller, processed>>

PoolReturns ==
  /\ caller = "pool" /\ \A w \in Workers : worker[w] = "gone"
  /\ caller' = "join"
  /\ UNCHANGED <<disk, cancelled, walk, results, held, mapper, jobs, worker, processed>>

\* Mutant: the library is stamped whatever became of the context.
Join_AnyContext ==
  /\ caller = "join" /\ walker \in {"posted", "closed"}
  /\ caller' \in IF walkErr THEN {"error"} ELSE {"nil", "error"}
  /\ UNCHANGED <<disk, cancelled, walk, results, held, mapper, jobs, worker, processed>>

\* <-walkDone, then UpdateLibrary, a store call that fails under a cancelled ctx.
Join ==
  /\ caller = "join" /\ walker \in {"posted", "closed"}
  /\ caller' \in IF walkErr \/ cancelled THEN {"error"} ELSE {"nil", "error"}
  /\ UNCHANGED <<disk, cancelled, walk, results, held, mapper, jobs, worker, processed>>

Cancel ==
  /\ cancelled' = TRUE
  /\ UNCHANGED <<disk, walk, results, pool>>

-----------------------------------------------------------------------------
Walker ==
  \/ \E i \in (IF stack = <<>> THEN {} ELSE Top.todo) :
       EnterDir(i) \/ FollowLink(i) \/ FindFile(i)
  \/ Send \/ WalkCancelled \/ CallReturns \/ PostResult \/ CloseResults

Mapper == Receive \/ Submit \/ CloseJobs
Worker(w) == Take(w) \/ Process(w) \/ Leave(w)
Caller == PoolReturns \/ Join

Next == Walker \/ Mapper \/ Caller \/ Cancel \/ \E w \in Workers : Worker(w)

Spec == Init /\ [][Next]_vars

\* Goroutines run, and processFile ends.
FairSpec == Spec /\ WF_vars(Walker) /\ WF_vars(Mapper) /\ WF_vars(Caller)
                 /\ \A w \in Workers : WF_vars(Worker(w))

-----------------------------------------------------------------------------
\* What a scan of the library should find: every audio file below its root,
\* through subdirectories and links, in directories that can be read.
Below(D) == UNION {Entries(d) : d \in D}
Closed(D) == Root \in D /\ \A i \in Below(D) : i.to \in Dirs => i.to \in D
Audible == {f \in Files : \A D \in SUBSET Dirs : Closed(D) => \E i \in Below(D) : i.to = f}

\* ScanLibrary returns nil, which stamps LastScanAt, only when every audio file
\* has been processed: a cancel that made workers drop jobs is never reported as
\* success, although the walk itself had already ended without an error.
NilMeansAll == caller = "nil" => Audible \subseteq processed

\* What one call enters without following a link; a call on d leads to a call
\* on e when a link in there does.  The directory of a call is in its visited
\* set, so no call leads to itself; others may lead round.
Inside(d) ==
  {e \in Dirs : \A D \in SUBSET Dirs :
     d \in D /\ (\A i \in Below(D) : i.kind = "dir" => i.to \in D) => e \in D}
LeadsTo(d, e) == d # e /\ \E c \in Inside(d) : Item("link", c, e) \in Entries(c)
NoRound == \A D \in SUBSET Dirs : D # {} => \E d \in D : \A e \in D : ~LeadsTo(d, e)

\* "visited tracks real paths already entered to prevent symlink cycles"
\* (WalkAudioFiles): no directory is walked inside a walk of itself.
NoCycle == \A m, n \in DOMAIN stack : stack[m].dir = stack[n].dir => m = n

\* As far as one call's visited set reaches, the cycle detection works: while
\* the links do not lead round between calls, whatever they do inside of one,
\* no directory is walked inside a walk of itself.
NoCycleOfLinks == NoRound => NoCycle

\* ScanLibrary returns, also when it is cancelled with full channels, and also
\* with links into the walked tree; with links that lead round between calls it
\* returns only once it is cancelled.
ScanReturns == NoRound \/ cancelled ~> caller \in {"nil", "error"}
=============================================================================
