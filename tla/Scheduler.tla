----------------------------- MODULE Scheduler -----------------------------
(***************************************************************************)
(* The job scheduler (service/scheduler/scheduler.go): main registers the  *)
(* jobs, a goroutine catches up what is due, checks once a minute what has *)
(* become due, and runs every job in a goroutine of its own.  Everything   *)
(* is in memory, so an exit forgets it.                                    *)
(*                                                                         *)
(* Time is counted in minutes until a job's nextRun; what a job does is    *)
(* left to the module that extends this one.                               *)
(***************************************************************************)
EXTENDS Naturals, FiniteSets

CONSTANTS
  Jobs,
  Interval,     \* minutes between the end of a run and the next
  FirstRun,     \* minutes from registration to RunAt, 0 for a zero RunAt
  MaxRestarts   \* bound on the exits of the process

ASSUME IntervalAssumption == Interval \in [Jobs -> Nat \ {0}]
ASSUME FirstRunAssumption == FirstRun \in [Jobs -> Nat]
ASSUME MaxRestartsAssumption == MaxRestarts \in Nat

VARIABLES
  phase,     \* of the scheduler's goroutine
  due,       \* minutes to nextRun, 0 once it has passed
  running,   \* the flag of the entry
  active,    \* goroutines in the job's Fn, two at most here
  ticking,   \* the ticker has fired and tick has not run yet
  restarts   \* number of exits so far

schedulerVars == <<phase, due, running, active, ticking, restarts>>

SchedulerTypeOK ==
  /\ phase \in {"down", "registered", "caughtUp", "looping", "cancelled"}
  /\ due \in [Jobs -> Nat]
  /\ running \in [Jobs -> BOOLEAN]
  /\ active \in [Jobs -> SUBSET {1, 2}]
  /\ ticking \in BOOLEAN /\ restarts \in 0 .. MaxRestarts

SchedulerInit ==
  /\ phase = "down"
  /\ due = FirstRun /\ running = [j \in Jobs |-> FALSE]
  /\ active = [j \in Jobs |-> {}]
  /\ ticking = FALSE /\ restarts = 0

\* main registers every job before it starts the scheduler
Register ==
  /\ phase = "down" /\ phase' = "registered"
  /\ due' = FirstRun /\ running' = [j \in Jobs |-> FALSE]
  /\ UNCHANGED <<active, ticking, restarts>>

\* go captured.Fn(ctx), with the flag set under the lock before
Launch(js) ==
  /\ running' = [j \in Jobs |-> running[j] \/ j \in js]
  /\ active'  = [j \in Jobs |->
                   IF j \in js /\ active[j] # {1, 2}
                   THEN active[j] \cup {CHOOSE n \in {1, 2} : n \notin active[j]}
                   ELSE active[j]]

\* Mutant: the flag is not set.
catchUp_Unmarked ==
  /\ phase = "registered" /\ phase' = "caughtUp"
  /\ active' = [j \in Jobs |-> IF due[j] = 0 THEN active[j] \cup {1} ELSE active[j]]
  /\ UNCHANGED <<running, due, ticking, restarts>>

\* nothing registered in this process is due for as long as catchUpWindow
catchUp ==
  /\ phase = "registered" /\ phase' = "caughtUp"
  /\ Launch({j \in Jobs : due[j] = 0})
  /\ UNCHANGED <<due, ticking, restarts>>

Due == {j \in Jobs : ~running[j] /\ due[j] = 0}

\* Mutant: no job while another runs.
tick_OneAtATime ==
  /\ phase = "caughtUp" \/ (phase = "looping" /\ ticking)
  /\ phase' = "looping" /\ ticking' = FALSE
  /\ Launch(IF \E j \in Jobs : running[j] THEN {} ELSE Due)
  /\ UNCHANGED <<due, restarts>>

tick ==
  /\ phase = "caughtUp" \/ (phase = "looping" /\ ticking)
  /\ phase' = "looping" /\ ticking' = FALSE
  /\ Launch(Due)
  /\ UNCHANGED <<due, restarts>>

Minute ==
  /\ phase = "looping" /\ ~ticking
  /\ ticking' = TRUE
  /\ due' = [j \in Jobs |-> IF due[j] > 0 THEN due[j] - 1 ELSE 0]
  /\ UNCHANGED <<phase, running, active, restarts>>

\* Fn returns: the next run is counted from now
Returned(j, n) ==
  /\ n \in active[j]
  /\ active'  = [active EXCEPT ![j] = @ \ {n}]
  /\ due'     = [due EXCEPT ![j] = Interval[j]]
  /\ running' = [running EXCEPT ![j] = FALSE]
  /\ UNCHANGED <<phase, ticking, restarts>>

\* the context of the process is cancelled: the loop ends, jobs go on until exit
Cancelled ==
  /\ phase \in {"caughtUp", "looping"}
  /\ restarts < MaxRestarts
  /\ phase' = "cancelled"
  /\ UNCHANGED <<due, running, active, ticking, restarts>>

\* main returns, or the process dies: nobody waits for the jobs
Exit ==
  /\ phase # "down" /\ restarts < MaxRestarts
  /\ phase' = "down" /\ restarts' = restarts + 1
  /\ active' = [j \in Jobs |-> {}]
  /\ ticking' = FALSE
  /\ UNCHANGED <<due, running>>

Scheduling == Register \/ catchUp \/ tick \/ Minute \/ Cancelled

\* The catch-up at the start and the check once a minute never run a job
\* beside itself, whatever the job takes and whenever it returns.
NeverTwice == \A j \in Jobs : Cardinality(active[j]) <= 1
=============================================================================
