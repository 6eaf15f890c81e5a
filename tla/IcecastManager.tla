--------------------------- MODULE IcecastManager ---------------------------
(***************************************************************************)
(* The Icecast relay manager (service/icecast/icecast.go), the admin       *)
(* handlers that drive it (handler/api/icecast.go), the icecast_mounts     *)
(* rows they share (store/icecast_store.go) and the process around them    *)
(* (server.go, Start).                                                     *)
(*                                                                         *)
(* A handler is several store calls long, and other handlers, the mount    *)
(* goroutines and the shutdown sequence run between any two of them.  The  *)
(* body of a mount goroutine is MountStream's subject; here it is the part *)
(* the manager relies on: it writes status, may block in a network call,   *)
(* returns, leaves the registry and closes doneCh, in that order.          *)
(***************************************************************************)
EXTENDS FiniteSets

CONSTANTS
  Mounts,      \* icecast_mounts ids; AUTOINCREMENT never hands one out twice
  Servers,     \* icecast_servers ids
  ServerOf,    \* the server a mount belongs to: no handler changes server_id
  Handles,     \* MountStream handles; one is reused once nothing refers to it
  Requests,    \* slots for admin HTTP requests in flight
  Ops,         \* the admin operations a run exercises
  Faults,      \* the failures a run exercises
  None

AllOps == {"create", "start", "stop", "update", "delete"}

\* The process dies; http.Shutdown runs out of time; a status write fails,
\* which updateStatus ignores.
AllFaults == {"crash", "timeout", "lost"}

ASSUME ServerOfAssumption == ServerOf \in [Mounts -> Servers]
ASSUME OpsAssumption == Ops \subseteq AllOps
ASSUME FaultsAssumption == Faults \subseteq AllFaults
ASSUME NoneAssumption == None \notin Mounts \cup Handles

VARIABLES
  row,        \* icecast_mounts: whether the row exists, and its enabled column
  status,     \* icecast_mounts.status
  stale,      \* history: rows whose last status write was lost, or that still
              \* show what an earlier process wrote
  mounts,     \* Manager.mounts: the handle registered for a mount
  hstate,     \* how far the goroutine of a handle is
  hmount,     \* MountStream.Mount
  managed,    \* handles whose context derives from managerCtx
  cancelled,  \* handles whose context is cancelled
  pc, target, flag, waiting,  \* per request: step, mount, value to write, handle
  phase,      \* the life of the process
  stopSet,    \* Manager.Stop: handles still to stop
  stopping    \* Manager.Stop: the handle whose doneCh it waits for

rows      == <<row, status, stale>>
handles   == <<hstate, hmount, managed, cancelled>>
requests  == <<pc, target, flag, waiting>>
process   == <<phase, stopSet, stopping>>
vars      == <<rows, mounts, handles, requests, process>>

RowStates == {"unborn", "disabled", "enabled", "deleted"}
Statuses  == {"disconnected", "connecting", "connected", "error"}
OnAir     == {"connecting", "connected"}
Live      == {"running", "blocked", "returned"}   \* still in the registry
PCs       == {"idle", "start.write", "start.call", "stop.write", "stop.lookup",
              "stop.cancel", "stop.wait", "update.write"}

Exists(m)  == row[m] \in {"disabled", "enabled"}
EnabledRow(e) == IF e THEN "enabled" ELSE "disabled"
LiveOn(m)  == {h \in Handles : hstate[h] \in Live /\ hmount[h] = m}

\* A handle nobody can reach any more: the garbage collector's view.
Fresh(h) == /\ hstate[h] \in {"unused", "closed"}
            /\ h \notin stopSet
            /\ \A r \in Requests : waiting[r] # h

TypeOK ==
  /\ row \in [Mounts -> RowStates]
  /\ status \in [Mounts -> Statuses]
  /\ stale \in SUBSET Mounts
  /\ mounts \in [Mounts -> Handles \cup {None}]
  /\ hstate \in [Handles -> Live \cup {"unused", "removed", "closed"}]
  /\ hmount \in [Handles -> Mounts \cup {None}]
  /\ managed \in SUBSET Handles
  /\ cancelled \in SUBSET Handles
  /\ pc \in [Requests -> PCs]
  /\ target \in [Requests -> Mounts \cup {None}]
  /\ flag \in [Requests -> BOOLEAN]
  /\ waiting \in [Requests -> Handles \cup {None}]
  /\ phase \in {"down", "up", "draining", "snapshot", "stopping", "exited"}
  /\ stopSet \in SUBSET Handles
  /\ stopping \in Handles \cup {None}

Init ==
  /\ row = [m \in Mounts |-> "unborn"]
  /\ status = [m \in Mounts |-> "disconnected"]
  /\ stale = {}
  /\ mounts = [m \in Mounts |-> None]
  /\ hstate = [h \in Handles |-> "unused"]
  /\ hmount = [h \in Handles |-> None]
  /\ managed = {}
  /\ cancelled = {}
  /\ pc = [r \in Requests |-> "idle"]
  /\ target = [r \in Requests |-> None]
  /\ flag = [r \in Requests |-> FALSE]
  /\ waiting = [r \in Requests |-> None]
  /\ phase = "down"
  /\ stopSet = {}
  /\ stopping = None

-----------------------------------------------------------------------------
(* Requests.  Reply(r) ends a handler; a store error or a client that went  *)
(* away (the handlers use r.Context()) ends it early, at any store call.    *)

Reply(r) ==
  /\ pc' = [pc EXCEPT ![r] = "idle"]
  /\ target' = [target EXCEPT ![r] = None]
  /\ flag' = [flag EXCEPT ![r] = FALSE]
  /\ waiting' = [waiting EXCEPT ![r] = None]

GoTo(r, step) ==
  /\ pc' = [pc EXCEPT ![r] = step]
  /\ UNCHANGED <<target, flag, waiting>>

\* A new request that read its mount with GetMount (404 when there is none).
Read(r, op, m, step, e) ==
  /\ op \in Ops
  /\ phase = "up"
  /\ pc[r] = "idle"
  /\ Exists(m)
  /\ pc' = [pc EXCEPT ![r] = step]
  /\ target' = [target EXCEPT ![r] = m]
  /\ flag' = [flag EXCEPT ![r] = e]
  /\ UNCHANGED <<rows, mounts, handles, waiting, process>>

\* UpdateMount: writes enabled whatever it is by now; no row, no effect.
WriteRow(r) ==
  /\ row' = [row EXCEPT ![target[r]] = IF Exists(target[r]) THEN EnabledRow(flag[r])
                                       ELSE @]
  /\ UNCHANGED <<status, stale, mounts, handles, process>>

StoreError(r) ==
  /\ pc[r] \in {"start.write", "start.call", "stop.write", "update.write"}
  /\ Reply(r)
  /\ UNCHANGED <<rows, mounts, handles, process>>

CreateIcecastMount(m, e) ==
  /\ "create" \in Ops
  /\ phase = "up"
  /\ row[m] = "unborn"
  /\ row' = [row EXCEPT ![m] = EnabledRow(e)]
  /\ UNCHANGED <<status, stale, mounts, handles, requests, process>>

\* One statement each; neither handler tells the manager.
DeleteRows(ms) ==
  /\ "delete" \in Ops
  /\ phase = "up"
  /\ \E m \in ms : Exists(m)
  /\ row' = [m \in Mounts |-> IF m \in ms /\ Exists(m) THEN "deleted" ELSE row[m]]
  /\ UNCHANGED <<status, stale, mounts, handles, requests, process>>

DeleteIcecastMount(m) == DeleteRows({m})
DeleteIcecastServer(s) == DeleteRows({m \in Mounts : ServerOf[m] = s})

\* UpdateIcecastMount: "enabled" absent from the body writes back what was read.
UpdateRead(r, m, e) == Read(r, "update", m, "update.write", e)
UpdateWrite(r) ==
  /\ pc[r] = "update.write"
  /\ WriteRow(r)
  /\ Reply(r)

StartRead(r, m) == Read(r, "start", m, "start.write", TRUE)
StartWrite(r) ==
  /\ pc[r] = "start.write"
  /\ WriteRow(r)
  /\ GoTo(r, "start.call")

\* A registered handle with its goroutine launched.
Launch(m, h) ==
  /\ Fresh(h)
  /\ mounts' = [mounts EXCEPT ![m] = h]
  /\ hstate' = [hstate EXCEPT ![h] = "running"]
  /\ hmount' = [hmount EXCEPT ![h] = m]
  /\ cancelled' = cancelled \ {h}
  /\ managed' = managed \ {h}

\* Mutant: StartMount without its "already running" test.
StartCall_Unchecked(r) ==
  /\ pc[r] = "start.call"
  /\ \/ ~Exists(target[r]) /\ UNCHANGED <<mounts, handles>>
     \/ Exists(target[r]) /\ \E h \in Handles : Launch(target[r], h)
  /\ Reply(r)
  /\ UNCHANGED <<rows, process>>

\* StartMount under Manager.mu, which it holds across GetMount.
StartCall(r) ==
  /\ pc[r] = "start.call"
  /\ \/ /\ mounts[target[r]] # None \/ ~Exists(target[r])
        /\ UNCHANGED <<mounts, handles>>
     \/ /\ mounts[target[r]] = None /\ Exists(target[r])
        /\ \E h \in Handles : Launch(target[r], h)
  /\ Reply(r)
  /\ UNCHANGED <<rows, process>>

\* Cancelling the context of a goroutine that has ended changes nothing.
Cancel(hs) == cancelled' = cancelled \cup {h \in hs : hstate[h] # "closed"}

StopRead(r, m) == Read(r, "stop", m, "stop.write", FALSE)
StopWrite(r) ==
  /\ pc[r] = "stop.write"
  /\ WriteRow(r)
  /\ GoTo(r, "stop.lookup")

\* Mutant: StopMount takes the handle out of the registry itself.
StopLookup_Removing(r) ==
  /\ pc[r] = "stop.lookup"
  /\ mounts[target[r]] # None
  /\ pc' = [pc EXCEPT ![r] = "stop.cancel"]
  /\ waiting' = [waiting EXCEPT ![r] = mounts[target[r]]]
  /\ mounts' = [mounts EXCEPT ![target[r]] = None]
  /\ UNCHANGED <<rows, handles, target, flag, process>>

StopLookup(r) ==
  /\ pc[r] = "stop.lookup"
  /\ IF mounts[target[r]] = None
       THEN Reply(r)
       ELSE /\ pc' = [pc EXCEPT ![r] = "stop.cancel"]
            /\ waiting' = [waiting EXCEPT ![r] = mounts[target[r]]]
            /\ UNCHANGED <<target, flag>>
  /\ UNCHANGED <<rows, mounts, handles, process>>

\* Mutant: StopMount waits without having cancelled.
StopCancel_Missing(r) ==
  /\ pc[r] = "stop.cancel"
  /\ GoTo(r, "stop.wait")
  /\ UNCHANGED <<rows, mounts, handles, process>>

StopCancel(r) ==
  /\ pc[r] = "stop.cancel"
  /\ Cancel({waiting[r]})
  /\ GoTo(r, "stop.wait")
  /\ UNCHANGED <<rows, mounts, hstate, hmount, managed, process>>

StopWait(r) ==
  /\ pc[r] = "stop.wait"
  /\ hstate[waiting[r]] = "closed"
  /\ Reply(r)
  /\ UNCHANGED <<rows, mounts, handles, process>>

-----------------------------------------------------------------------------
(* The goroutine of a handle.                                              *)

\* updateStatus; UpdateMountStatus touches no row once the mount is deleted.
WriteStatus(m, s) ==
  \/ /\ status' = [status EXCEPT ![m] = IF Exists(m) THEN s ELSE @]
     /\ stale' = stale \ {m}
  \/ /\ "lost" \in Faults
     /\ stale' = stale \cup {m}
     /\ UNCHANGED status

\* Mutant: a status written from a deferred function, after the return.
Report_Late(h, s) ==
  /\ hstate[h] \in {"running", "returned", "removed"}
  /\ s \in {"connecting", "connected", "error"}
  /\ WriteStatus(hmount[h], s)
  /\ UNCHANGED <<row, mounts, handles, requests, process>>

\* streamMount between two of its status writes.
Report(h, s) ==
  /\ hstate[h] = "running"
  /\ s \in {"connecting", "connected", "error"}
  /\ WriteStatus(hmount[h], s)
  /\ UNCHANGED <<row, mounts, handles, requests, process>>

\* Connect and IcecastConn.Write block without a deadline and without ctx.
Block(h) ==
  /\ hstate[h] = "running"
  /\ hstate' = [hstate EXCEPT ![h] = "blocked"]
  /\ UNCHANGED <<rows, mounts, hmount, managed, cancelled, requests, process>>

PeerAnswers(h) ==
  /\ hstate[h] = "blocked"
  /\ hstate' = [hstate EXCEPT ![h] = "running"]
  /\ UNCHANGED <<rows, mounts, hmount, managed, cancelled, requests, process>>

\* Mutant: a cancelled streamMount returns without recording it.
Return_Silent(h) ==
  /\ hstate[h] = "running"
  /\ IF h \in cancelled THEN UNCHANGED <<status, stale>> ELSE WriteStatus(hmount[h], "error")
  /\ hstate' = [hstate EXCEPT ![h] = "returned"]
  /\ UNCHANGED <<row, mounts, hmount, managed, cancelled, requests, process>>

\* streamMount returns: "disconnected" when it saw ctx cancelled, "error" when
\* it has no ffmpeg, no queue or no songs (whether or not ctx is cancelled).
Return(h) ==
  /\ hstate[h] = "running"
  /\ \E s \in IF h \in cancelled THEN {"disconnected", "error"} ELSE {"error"} :
       WriteStatus(hmount[h], s)
  /\ hstate' = [hstate EXCEPT ![h] = "returned"]
  /\ UNCHANGED <<row, mounts, hmount, managed, cancelled, requests, process>>

\* The deferred delete runs before the deferred close.
Unregister(h) ==
  /\ hstate[h] = "returned"
  /\ mounts' = [mounts EXCEPT ![hmount[h]] = None]
  /\ hstate' = [hstate EXCEPT ![h] = "removed"]
  /\ UNCHANGED <<rows, hmount, managed, cancelled, requests, process>>

CloseDone(h) ==
  /\ hstate[h] = "removed"
  /\ hstate' = [hstate EXCEPT ![h] = "closed"]
  /\ hmount' = [hmount EXCEPT ![h] = None]
  /\ managed' = managed \ {h}
  /\ cancelled' = cancelled \ {h}
  /\ UNCHANGED <<rows, mounts, requests, process>>

-----------------------------------------------------------------------------
(* The process.  Manager.Start runs before the listener, so nothing but the *)
(* goroutines it launches interleaves with it: one step.                    *)

Boot ==
  /\ phase \in {"down", "exited"}
  /\ \E ms \in SUBSET {m \in Mounts : row[m] = "enabled"} :   \* others failed to start
       \E f \in [ms -> Handles] :
         /\ \A a, b \in ms : f[a] = f[b] => a = b
         /\ mounts' = [m \in Mounts |-> IF m \in ms THEN f[m] ELSE None]
         /\ hstate' = [h \in Handles |-> IF \E m \in ms : f[m] = h THEN "running"
                                                                  ELSE "unused"]
         /\ hmount' = [h \in Handles |-> IF \E m \in ms : f[m] = h
                                           THEN CHOOSE m \in ms : f[m] = h ELSE None]
         /\ managed' = {f[m] : m \in ms}
  /\ cancelled' = {}
  /\ phase' = "up"
  /\ stale' = {m \in Mounts : status[m] \in OnAir}
  /\ UNCHANGED <<row, status, requests, stopSet, stopping>>

\* What dies with the process.
Vanish ==
  /\ mounts' = [m \in Mounts |-> None]
  /\ hstate' = [h \in Handles |-> "unused"]
  /\ hmount' = [h \in Handles |-> None]
  /\ managed' = {}
  /\ cancelled' = {}
  /\ pc' = [r \in Requests |-> "idle"]
  /\ target' = [r \in Requests |-> None]
  /\ flag' = [r \in Requests |-> FALSE]
  /\ waiting' = [r \in Requests |-> None]
  /\ stopSet' = {}
  /\ stopping' = None
  /\ UNCHANGED rows

Sigterm ==
  /\ phase = "up"
  /\ phase' = "draining"
  /\ UNCHANGED <<rows, mounts, handles, requests, stopSet, stopping>>

\* http.Shutdown returned nil: no handler is running.  Then Stop: cancelAll.
Drained ==
  /\ phase = "draining"
  /\ \A r \in Requests : pc[r] = "idle"
  /\ phase' = "snapshot"
  /\ Cancel(managed)
  /\ UNCHANGED <<rows, mounts, hstate, hmount, managed, requests, stopSet, stopping>>

\* http.Shutdown ran out of its 30 seconds: Start returns, Stop is never called.
DrainTimeout ==
  /\ "timeout" \in Faults
  /\ phase = "draining"
  /\ \E r \in Requests : pc[r] # "idle"
  /\ phase' = "down"
  /\ Vanish

\* Mutant: Stop also collects the mounts that have no handle.
StopSnapshot_All ==
  /\ phase = "snapshot"
  /\ phase' = "stopping"
  /\ stopSet' = {mounts[m] : m \in Mounts}
  /\ UNCHANGED <<rows, mounts, handles, requests, stopping>>

StopSnapshot ==
  /\ phase = "snapshot"
  /\ phase' = "stopping"
  /\ stopSet' = {mounts[m] : m \in Mounts} \ {None}
  /\ UNCHANGED <<rows, mounts, handles, requests, stopping>>

\* Mutant: Stop relies on cancelAll and does not cancel each handle.
StopNext_NoCancel(h) ==
  /\ phase = "stopping"
  /\ stopping = None
  /\ h \in stopSet
  /\ stopping' = h
  /\ UNCHANGED <<rows, mounts, handles, requests, phase, stopSet>>

StopNext(h) ==
  /\ phase = "stopping"
  /\ stopping = None
  /\ h \in stopSet
  /\ stopping' = h
  /\ Cancel({h})
  /\ UNCHANGED <<rows, mounts, hstate, hmount, managed, requests, phase, stopSet>>

\* Mutant: Stop does not wait for doneCh.
StopJoin_NoWait ==
  /\ phase = "stopping"
  /\ stopping # None
  /\ stopSet' = stopSet \ {stopping}
  /\ stopping' = None
  /\ UNCHANGED <<rows, mounts, handles, requests, phase>>

StopJoin ==
  /\ phase = "stopping"
  /\ stopping # None
  /\ hstate[stopping] = "closed"
  /\ stopSet' = stopSet \ {stopping}
  /\ stopping' = None
  /\ UNCHANGED <<rows, mounts, handles, requests, phase>>

\* Stop returned and the process ends; its handles end with it.
Exit ==
  /\ phase = "stopping"
  /\ stopSet = {}
  /\ phase' = "exited"
  /\ UNCHANGED <<rows, mounts, handles, requests, stopSet, stopping>>

Crash ==
  /\ "crash" \in Faults
  /\ phase \notin {"down", "exited"}
  /\ phase' = "down"
  /\ Vanish

-----------------------------------------------------------------------------
Handler(r) ==
  \/ \E m \in Mounts : StartRead(r, m) \/ StopRead(r, m)
  \/ \E m \in Mounts, e \in BOOLEAN : UpdateRead(r, m, e)
  \/ UpdateWrite(r) \/ StartWrite(r) \/ StartCall(r)
  \/ StopWrite(r) \/ StopLookup(r) \/ StopCancel(r) \/ StopWait(r)
  \/ StoreError(r)

Goroutine(h) ==
  \/ \E s \in Statuses : Report(h, s)
  \/ Block(h) \/ PeerAnswers(h) \/ Return(h) \/ Unregister(h) \/ CloseDone(h)

Shutdown ==
  \/ Sigterm \/ Drained \/ DrainTimeout \/ StopSnapshot
  \/ \E h \in Handles : StopNext(h)
  \/ StopJoin \/ Exit

Next ==
  \/ \E m \in Mounts, e \in BOOLEAN : CreateIcecastMount(m, e)
  \/ \E m \in Mounts : DeleteIcecastMount(m)
  \/ \E s \in Servers : DeleteIcecastServer(s)
  \/ \E r \in Requests : Handler(r)
  \/ \E h \in Handles : Goroutine(h)
  \/ Boot \/ Crash \/ Shutdown

Spec == Init /\ [][Next]_vars

-----------------------------------------------------------------------------
(* Safety.                                                                 *)

Streaming(h) == hstate[h] \in {"running", "blocked"}   \* inside streamMount

\* At no time do two goroutines serve one mount, whatever handlers, goroutines
\* and the process do in between ("if the mount is already streaming this is a
\* no-op", StartMount): two sources on one mount point would cut each other off.
AtMostOneStream ==
  \A g, h \in Handles : hstate[g] \in Live /\ hstate[h] \in Live
                         /\ hmount[g] = hmount[h] => g = h

\* The registry is exact: a mount is registered from StartMount until its own
\* goroutine leaves, with its own handle, so that no late deferred delete can
\* drop the handle of a newer stream and make it unstoppable.
RegistryExact ==
  \A m \in Mounts, h \in Handles :
    mounts[m] = h <=> hstate[h] \in Live /\ hmount[h] = m

\* While the process runs, a status that says a mount is on air is true: its
\* goroutine is inside streamMount.  Needs every exit path to write a final
\* status and no goroutine to write after a later one has begun.  Of the rows a
\* crash or a lost write left behind it says that the next write mends them.
StatusTruth ==
  \A m \in Mounts \ stale : phase # "down" /\ Exists(m) /\ status[m] \in OnAir =>
    \E h \in Handles : Streaming(h) /\ hmount[h] = m

\* Start, stop and the row agree once no request is in flight: what streams is
\* enabled, so a restart brings back what is on air and nothing else.
StreamingIsEnabled ==
  (\A r \in Requests : pc[r] = "idle") =>
    \A h \in Handles : Streaming(h) => row[hmount[h]] = "enabled"

\* After an orderly shutdown no stream is left and every row says so, but for
\* those an earlier crash or a lost write left behind.
CleanExit ==
  phase = "exited" =>
    /\ \A h \in Handles : hstate[h] \notin Live
    /\ \A m \in Mounts \ stale : Exists(m) => status[m] \notin OnAir

-----------------------------------------------------------------------------
\* Handles inside streamMount are the sources on air.
Sources == {<<hmount[h], h>> : h \in {g \in Handles : Streaming(g)}}

Promise == INSTANCE ExclusiveStreams WITH
  streams <- Sources, shown <- status, Final <- {"disconnected", "error"}

\* The manager keeps its promise: one source per mount, and only that source
\* reports for it, through every restart, failure and race of requests.
PromiseKept == Promise!Spec

\* Why AtMostOneStream holds: the registry is exact, and nothing refers to
\* a mount or a handle that is not there.
RefsBound ==
  /\ \A h \in Handles : hstate[h] \in Live \cup {"removed"} => hmount[h] \in Mounts
  /\ \A r \in Requests :
       /\ pc[r] # "idle" => target[r] \in Mounts
       /\ pc[r] \in {"stop.cancel", "stop.wait"} => waiting[r] \in Handles

\* Why no stream outlives the process that launched it: at most the goroutines
\* Stop has yet to join are left while it runs, and no request is.
ShutdownOrder ==
  /\ phase \notin {"up", "draining"} => \A r \in Requests : pc[r] = "idle"
  /\ phase = "stopping" => \A h \in Handles : hstate[h] \in Live => h \in stopSet
  /\ phase \in {"down", "exited"} => \A h \in Handles : hstate[h] \notin Live

\* Why StatusTruth holds from a mount's first moment on.
UnbornQuiet == \A m \in Mounts : row[m] = "unborn" => status[m] = "disconnected"

IInv == TypeOK /\ RegistryExact /\ RefsBound /\ ShutdownOrder

-----------------------------------------------------------------------------
(* Liveness.  Handlers, deferred functions and the shutdown sequence are     *)
(* straight-line code.  A cancelled streamMount tests its context in every   *)
(* iteration, so it cannot keep coming back from the network without ending: *)
(* strong fairness (MountStream checks it).  The peer's fairness is separate. *)

HandlerFairness ==
  \A r \in Requests :
    WF_vars(UpdateWrite(r) \/ StartWrite(r) \/ StartCall(r)
            \/ StopWrite(r) \/ StopLookup(r) \/ StopCancel(r) \/ StopWait(r))

GoroutineFairness ==
  \A h \in Handles :
    /\ SF_vars(h \in cancelled /\ Return(h))
    /\ WF_vars(Unregister(h) \/ CloseDone(h))

ShutdownFairness ==
  /\ WF_vars(Drained) /\ WF_vars(StopSnapshot)
  /\ WF_vars(\E h \in Handles : StopNext(h))
  /\ WF_vars(StopJoin) /\ WF_vars(Exit)

PeerFairness == \A h \in Handles : WF_vars(PeerAnswers(h))

FairSpec == Spec /\ HandlerFairness /\ GoroutineFairness /\ ShutdownFairness
                 /\ PeerFairness

\* StopIcecastMount answers: the goroutine it waits for always closes doneCh,
\* also when it has ended on its own meanwhile or another request stops it too.
StopReturns ==
  \A r \in Requests : pc[r] = "stop.wait" ~> pc[r] = "idle"

\* SIGTERM ends the process, also with handlers waiting for streams and with
\* streams that cancelAll does not reach (StartMount under context.Background).
ShutdownEnds == phase = "draining" ~> phase \in {"exited", "down"}
=============================================================================
