------------------------ MODULE ScrobbleRetry_proofs ------------------------
(***************************************************************************)
(* For any jobs, entries, services, batches and bounds: no job runs beside *)
(* itself, and a scrobble leaves the queue only once its service has        *)
(* recorded it or it is stale, and is recorded twice only for a reason.     *)
(***************************************************************************)
EXTENDS ScrobbleRetry, FiniteSetTheorems, TLAPS

\* A job runs in one goroutine at most, and then its flag is set.
SchedulerInv ==
  /\ \A j \in Jobs : active[j] \in {{}, {1}, {2}}
  /\ \A j \in Jobs : active[j] # {} => running[j]
  /\ phase \in {"down", "registered"} => \A j \in Jobs : active[j] = {}

\* What a drain goes through is what its place in DrainQueue says.
DrainInv ==
  \A n \in {1, 2} :
    /\ drain[n].pc = "begin" => drain[n] = NoDrain
    /\ drain[n].pc \in {"submit", "settle"} <=> drain[n].todo # <<>>

\* The entries before a drain are still queued, each once, with an attempt left.
BatchInv ==
  \A n \in {1, 2} :
    /\ IsInjective(drain[n].todo)
    /\ \A i \in DOMAIN drain[n].todo :
         drain[n].todo[i] \in queue /\ attempts[drain[n].todo[i]] < MaxAttempts

\* The service has accepted an entry and the drain is about to delete it.
Accepted(n, e) == drain[n].pc = "settle" /\ drain[n].ok /\ Head(drain[n].todo) = e

FateOf(e) ==
  /\ e \in queue <=> fate[e] = "queued"
  /\ fate[e] = "new" => copies[e] = 0 /\ slips[e] = 0
  /\ fate[e] = "delivered" => copies[e] > 0
  /\ fate[e] = "dropped" => Stale(e)
  /\ copies[e] <= 1 + slips[e]
  /\ fate[e] = "queued" /\ (\A n \in {1, 2} : ~Accepted(n, e)) => copies[e] <= slips[e]
  /\ \A n \in {1, 2} : Accepted(n, e) => copies[e] > 0
FateInv == \A e \in Entries : FateOf(e)

IInv == TypeOK /\ SchedulerInv /\ DrainInv /\ BatchInv /\ FateInv

-----------------------------------------------------------------------------
\* Goroutines are started for jobs that have none.
LEMMA LaunchFacts ==
  ASSUME SchedulerInv, active \in [Jobs -> SUBSET {1, 2}], running \in [Jobs -> BOOLEAN],
         NEW js \in SUBSET Jobs, \A j \in js : active[j] = {}, Launch(js)
  PROVE  /\ \A j \in Jobs : active'[j] \in {{}, {1}, {2}}
         /\ \A j \in Jobs : active'[j] # {} => running'[j]
         /\ \A j \in Jobs : active[j] \subseteq active'[j]
         /\ active' \in [Jobs -> SUBSET {1, 2}] /\ running' \in [Jobs -> BOOLEAN]
<1> DEFINE free(j) == CHOOSE n \in {1, 2} : n \notin active[j]
<1>1. \A j \in js : free(j) \in {1, 2}
  <2>1. \A j \in js : \E n \in {1, 2} : n \notin active[j]
    OBVIOUS
  <2>2. QED
    BY <2>1
<1>2. \A j \in js : active'[j] = {free(j)} /\ running'[j]
  BY DEF Launch
<1>3. \A j \in Jobs \ js : active'[j] = active[j] /\ (running'[j] <=> running[j])
  BY DEF Launch
<1> HIDE DEF free
<1>4. \A j \in js : active'[j] \in {{1}, {2}}
  BY <1>1, <1>2
<1>5. \A j \in Jobs : active'[j] \in {{}, {1}, {2}}
  BY <1>3, <1>4 DEF SchedulerInv
<1>6. active' \in [Jobs -> SUBSET {1, 2}] /\ running' \in [Jobs -> BOOLEAN]
  <2>1. DOMAIN active' = Jobs /\ active' = [j \in Jobs |-> active'[j]]
    BY DEF Launch
  <2>2. \A j \in Jobs : active'[j] \in SUBSET {1, 2}
    BY <1>5
  <2>3. running' \in [Jobs -> BOOLEAN]
    BY DEF Launch
  <2>4. QED
    BY <2>1, <2>2, <2>3
<1>7. QED
  BY <1>2, <1>3, <1>5, <1>6 DEF SchedulerInv

\* The scheduler keeps a job to one goroutine whatever it does and whatever its
\* jobs do.
LEMMA SchedulerStep ==
  ASSUME SchedulerTypeOK, SchedulerInv,
         Scheduling \/ Exit \/ (\E j \in Jobs, n \in {1, 2} : Returned(j, n)) \/ UNCHANGED schedulerVars
  PROVE  SchedulerTypeOK' /\ SchedulerInv'
<1> USE DEF SchedulerTypeOK
<1>1. CASE Register
  BY <1>1, FirstRunAssumption DEF Register, SchedulerInv
<1>2. CASE catchUp
  <2>1. PICK js \in SUBSET Jobs : Launch(js)
    BY <1>2 DEF catchUp
  <2>2. \A j \in js : active[j] = {}
    BY <1>2 DEF catchUp, SchedulerInv
  <2>3. QED
    BY <1>2, <2>1, <2>2, LaunchFacts DEF catchUp, SchedulerInv
<1>3. CASE tick
  <2>1. Due \in SUBSET Jobs /\ \A j \in Due : active[j] = {}
    BY DEF Due, SchedulerInv
  <2>2. QED
    BY <1>3, <2>1, LaunchFacts DEF tick, SchedulerInv
<1>4. CASE Minute
  BY <1>4 DEF Minute, SchedulerInv
<1>5. CASE Cancelled
  BY <1>5 DEF Cancelled, SchedulerInv
<1>6. CASE Exit
  <2>1. restarts' \in 0 .. MaxRestarts
    BY <1>6, MaxRestartsAssumption DEF Exit
  <2>2. \A j \in Jobs : active'[j] = {}
    BY <1>6 DEF Exit
  <2>3. SchedulerTypeOK'
    BY <1>6, <2>1 DEF Exit
  <2>4. QED
    BY <1>6, <2>2, <2>3 DEF Exit, SchedulerInv
<1>7. ASSUME NEW j \in Jobs, NEW n \in {1, 2}, Returned(j, n)
      PROVE  SchedulerTypeOK' /\ SchedulerInv'
  <2>1. active'[j] = {} /\ \A i \in Jobs : i # j => active'[i] = active[i]
    BY <1>7 DEF Returned, SchedulerInv
  <2>2. SchedulerInv'
    BY <1>7, <2>1 DEF Returned, SchedulerInv
  <2>3. SchedulerTypeOK'
    BY <1>7, IntervalAssumption DEF Returned
  <2>4. QED
    BY <2>2, <2>3
<1>8. CASE UNCHANGED schedulerVars
  BY <1>8 DEF schedulerVars, SchedulerInv
<1>9. QED
  BY <1>1, <1>2, <1>3, <1>4, <1>5, <1>6, <1>7, <1>8 DEF Scheduling

\* What the scheduler does by itself ends nobody's goroutine.
LEMMA SchedulingKeeps ==
  ASSUME SchedulerTypeOK, SchedulerInv, Scheduling
  PROVE  \A j \in Jobs : active[j] \subseteq active'[j]
<1> USE DEF SchedulerTypeOK
<1>1. CASE catchUp
  <2>1. PICK js \in SUBSET Jobs : Launch(js)
    BY <1>1 DEF catchUp
  <2>2. \A j \in js : active[j] = {}
    BY <1>1 DEF catchUp, SchedulerInv
  <2>3. QED
    BY <2>1, <2>2, LaunchFacts
<1>2. CASE tick
  <2>1. Due \in SUBSET Jobs /\ \A j \in Due : active[j] = {}
    BY DEF Due, SchedulerInv
  <2>2. QED
    BY <1>2, <2>1, LaunchFacts DEF tick
<1>3. CASE Register \/ Minute \/ Cancelled
  BY <1>3 DEF Register, Minute, Cancelled
<1>4. QED
  BY <1>1, <1>2, <1>3 DEF Scheduling

\* Two goroutines are never in the retry job.
LEMMA OneDrain ==
  ASSUME TypeOK, SchedulerInv, NEW n \in {1, 2}, n \in active[Retry]
  PROVE  \A m \in {1, 2} : m # n => drain[m] = NoDrain
<1>1. active[Retry] \in {{}, {1}, {2}}
  BY RetryAssumption DEF SchedulerInv
<1>2. \A m \in {1, 2} : m # n => m \notin active[Retry]
  BY <1>1
<1>3. QED
  BY <1>2 DEF TypeOK

\* The steps of a drain.
LEMMA OnwardFacts ==
  ASSUME drain \in [{1, 2} -> Drains], NEW n \in {1, 2}, NEW svcs \in SUBSET Services,
         NEW todo \in Seq(Entries), Onward(n, svcs, todo)
  PROVE  /\ drain' \in [{1, 2} -> Drains]
         /\ drain'[n].pc = IF todo = <<>> THEN "service" ELSE "submit"
         /\ drain'[n].svcs = svcs /\ drain'[n].todo = todo
         /\ \A m \in {1, 2} : m # n => drain'[m] = drain[m]
BY DEF Onward, Drains

\* The rest of a batch.
LEMMA RestFacts ==
  ASSUME NEW b \in Seq(Entries), b # <<>>, IsInjective(b)
  PROVE  /\ Head(b) \in Entries /\ Head(b) = b[1] /\ 1 \in DOMAIN b
         /\ Tail(b) \in Seq(Entries) /\ Len(Tail(b)) <= Len(b)
         /\ IsInjective(Tail(b))
         /\ \A i \in DOMAIN Tail(b) : i + 1 \in DOMAIN b /\ Tail(b)[i] = b[i+1] /\ Tail(b)[i] # Head(b)
<1>1. PICK n \in Nat \ {0} : n = Len(b) /\ DOMAIN b = 1..n
  BY DEF IsInjective
<1>2. /\ Head(b) \in Entries /\ Head(b) = b[1] /\ 1 \in DOMAIN b
      /\ Tail(b) \in Seq(Entries) /\ Len(Tail(b)) = n - 1 /\ DOMAIN Tail(b) = 1..n-1
      /\ \A i \in 1..n-1 : i + 1 \in 1..n /\ Tail(b)[i] = b[i+1]
  BY <1>1
<1>3. IsInjective(Tail(b))
  BY <1>1, <1>2 DEF IsInjective
<1>4. \A i \in 1..n-1 : b[i+1] # b[1]
  BY <1>1 DEF IsInjective
<1>5. QED
  BY <1>1, <1>2, <1>3, <1>4

\* A batch holds pending entries, each once.
LEMMA OldestFacts ==
  ASSUME NEW pending \in SUBSET Entries, NEW b \in Oldest(pending)
  PROVE  /\ b \in Seq(Entries) /\ Len(b) <= Batch /\ IsInjective(b)
         /\ \A i \in DOMAIN b : b[i] \in pending
<1>1. IsInjective(b) /\ b \in SeqOf(pending, Batch)
  BY DEF Oldest
<1>2. PICK m \in 0..Batch : b \in [1..m -> pending]
  BY <1>1 DEF SeqOf
<1>3. QED
  BY <1>1, <1>2, BoundsAssumption

\* The scheduler's part of every step.
LEMMA SchedulerPart == IInv /\ [Next]_vars => SchedulerTypeOK' /\ SchedulerInv'
<1> SUFFICES ASSUME IInv, [Next]_vars PROVE SchedulerTypeOK' /\ SchedulerInv'
  OBVIOUS
<1>1. \A n \in {1, 2} : DrainQueue(n) => Returned(Retry, n) \/ UNCHANGED schedulerVars
  BY DEF DrainQueue, ListAllEnabledServices, ListServicesFails, ListPendingByService, Submit,
         DeleteQueueEntry, IncrementAttempts, SettleFails, PurgeStaleQueue, PurgeFails
<1>2. \/ Scheduling \/ Exit \/ (\E j \in Jobs, n \in {1, 2} : Returned(j, n))
      \/ UNCHANGED schedulerVars
  BY <1>1, RetryAssumption DEF Next, ExitInDrain, OtherJob, Scrobble, FourteenDays, SetService, vars
<1>3. QED
  BY <1>2, SchedulerStep DEF IInv, TypeOK

\* The part of the type invariant that is about the drains.
DrainTypeOK ==
  /\ drain \in [{1, 2} -> Drains]
  /\ \A n \in {1, 2} : Len(drain[n].todo) <= Batch /\ (drain[n] # NoDrain => n \in active[Retry])

\* A goroutine that is not draining.
LEMMA NoDrainFacts ==
  /\ NoDrain \in Drains /\ NoDrain.pc = "begin" /\ NoDrain.todo = <<>> /\ Len(NoDrain.todo) <= Batch
<1>1. <<>> \in Seq(Entries) /\ Len(<<>>) <= Batch
  BY BoundsAssumption
<1>2. QED
  BY <1>1 DEF NoDrain, Drains

\* A drain goes on with a batch of entries that are pending.
LEMMA ListedFacts ==
  ASSUME TypeOK, NEW n \in {1, 2}, ListPendingByService(n)
  PROVE  \E s \in drain[n].svcs, todo \in Seq(Entries) :
           /\ Onward(n, drain[n].svcs \ {s}, todo) /\ Len(todo) <= Batch /\ IsInjective(todo)
           /\ \A i \in DOMAIN todo : todo[i] \in queue /\ attempts[todo[i]] < MaxAttempts
<1>1. <<>> \in Seq(Entries) /\ Len(<<>>) <= Batch /\ IsInjective(<<>>) /\ DOMAIN <<>> = {}
  BY BoundsAssumption DEF IsInjective
<1>2. PICK s \in drain[n].svcs, sameDay \in SUBSET {e \in Entries : old[e]} :
        \/ \E batch \in Oldest(Pending(s, sameDay)) : Onward(n, drain[n].svcs \ {s}, batch)
        \/ Onward(n, drain[n].svcs \ {s}, <<>>)
  BY DEF ListPendingByService
<1>3. Pending(s, sameDay) \in SUBSET Entries
  BY DEF Pending, TypeOK
<1>4. CASE Onward(n, drain[n].svcs \ {s}, <<>>)
  BY <1>1, <1>4
<1>5. ASSUME NEW batch \in Oldest(Pending(s, sameDay)), Onward(n, drain[n].svcs \ {s}, batch)
      PROVE  \E todo \in Seq(Entries) :
               /\ Onward(n, drain[n].svcs \ {s}, todo) /\ Len(todo) <= Batch /\ IsInjective(todo)
               /\ \A i \in DOMAIN todo : todo[i] \in queue /\ attempts[todo[i]] < MaxAttempts
  <2>1. /\ batch \in Seq(Entries) /\ Len(batch) <= Batch /\ IsInjective(batch)
        /\ \A i \in DOMAIN batch : batch[i] \in Pending(s, sameDay)
    BY <1>3, OldestFacts
  <2>2. QED
    BY <1>5, <2>1 DEF Pending
<1>6. QED
  BY <1>2, <1>4, <1>5

\* A drain that goes on is one that runs.
LEMMA OnwardStep ==
  ASSUME TypeOK, DrainInv, NEW n \in {1, 2}, NEW svcs \in SUBSET Services,
         NEW todo \in Seq(Entries), Len(todo) <= Batch, Onward(n, svcs, todo),
         n \in active[Retry], active' = active
  PROVE  DrainTypeOK' /\ DrainInv'
<1>1. /\ drain' \in [{1, 2} -> Drains]
      /\ drain'[n].pc = IF todo = <<>> THEN "service" ELSE "submit"
      /\ drain'[n].todo = todo
      /\ \A m \in {1, 2} : m # n => drain'[m] = drain[m]
  BY OnwardFacts DEF TypeOK
<1>2. DrainTypeOK'
  BY <1>1 DEF TypeOK, DrainTypeOK
<1>3. /\ drain'[n].pc # "begin"
      /\ drain'[n].pc \in {"submit", "settle"} <=> drain'[n].todo # <<>>
  BY <1>1
<1>4. DrainInv'
  BY <1>1, <1>3 DEF DrainInv
<1>5. QED
  BY <1>2, <1>4

\* The answer of the service is noted.
LEMMA SubmitFacts ==
  ASSUME drain \in [{1, 2} -> Drains], NEW n \in {1, 2}, NEW ok \in BOOLEAN,
         drain' = [drain EXCEPT ![n].pc = "settle", ![n].ok = ok]
  PROVE  /\ drain' \in [{1, 2} -> Drains]
         /\ drain'[n].pc = "settle" /\ drain'[n].ok = ok
         /\ drain'[n].todo = drain[n].todo
         /\ \A m \in {1, 2} : m # n => drain'[m] = drain[m]
<1> DEFINE d == [drain[n] EXCEPT !.pc = "settle", !.ok = ok]
<1>1. drain[n] \in Drains
  OBVIOUS
<1>2. d \in Drains /\ d.pc = "settle" /\ d.ok = ok /\ d.todo = drain[n].todo
  BY <1>1 DEF Drains
<1>3. drain' = [drain EXCEPT ![n] = d]
  OBVIOUS
<1> HIDE DEF d
<1>4. QED
  BY <1>2, <1>3

\* A drain goes through the services and their batches as DrainQueue does.
LEMMA DrainStep == IInv /\ [Next]_vars => DrainTypeOK' /\ DrainInv'
<1> SUFFICES ASSUME IInv, [Next]_vars PROVE DrainTypeOK' /\ DrainInv'
  OBVIOUS
<1> USE DEF IInv
<1>1. CASE Scheduling /\ UNCHANGED <<tableVars, drain, history>>
  <2>1. drain' = drain /\ active[Retry] \subseteq active'[Retry]
    BY <1>1, SchedulingKeeps, RetryAssumption DEF TypeOK
  <2>2. QED
    BY <2>1 DEF TypeOK, DrainTypeOK, DrainInv
<1>2. CASE ExitInDrain
  <2>1. drain' = [n \in {1, 2} |-> NoDrain]
    BY <1>2 DEF ExitInDrain
  <2>2. QED
    BY <2>1, NoDrainFacts DEF DrainTypeOK, DrainInv
<1>3. ASSUME NEW j \in Jobs, OtherJob(j), UNCHANGED <<tableVars, drain, history>>
      PROVE  DrainTypeOK' /\ DrainInv'
  <2>1. drain' = drain /\ active[Retry] \subseteq active'[Retry]
    BY <1>3, RetryAssumption DEF OtherJob, Returned, TypeOK, SchedulerTypeOK
  <2>2. QED
    BY <2>1 DEF TypeOK, DrainTypeOK, DrainInv
<1>4. ASSUME NEW n \in {1, 2}, ListAllEnabledServices(n)
      PROVE  DrainTypeOK' /\ DrainInv'
  <2>1. PICK svcs \in SUBSET Services, todo \in Seq(Entries) :
          Onward(n, svcs, todo) /\ Len(todo) <= Batch
    <3>1. <<>> \in Seq(Entries) /\ Len(<<>>) <= Batch
      BY BoundsAssumption
    <3>2. QED
      BY <1>4, <3>1 DEF ListAllEnabledServices, TypeOK
  <2>2. n \in active[Retry] /\ active' = active
    BY <1>4 DEF ListAllEnabledServices, At, schedulerVars
  <2>3. QED
    BY <2>1, <2>2, OnwardStep
<1>5. ASSUME NEW n \in {1, 2}, ListServicesFails(n)
      PROVE  DrainTypeOK' /\ DrainInv'
  <2>1. drain'[n] = NoDrain /\ drain' \in [{1, 2} -> Drains]
        /\ \A m \in {1, 2} : m # n => drain'[m] = drain[m]
    BY <1>5, NoDrainFacts DEF ListServicesFails, TypeOK, At, DrainInv
  <2>2. n \in active[Retry]
    BY <1>5 DEF ListServicesFails, Returned
  <2>3. \A m \in {1, 2} : m # n => drain[m] = NoDrain
    BY <2>2, OneDrain
  <2>4. QED
    BY <2>1, <2>3, NoDrainFacts DEF DrainTypeOK, DrainInv
<1>6. ASSUME NEW n \in {1, 2}, ListPendingByService(n)
      PROVE  DrainTypeOK' /\ DrainInv'
  <2>1. PICK svcs \in SUBSET Services, todo \in Seq(Entries) :
          Onward(n, svcs, todo) /\ Len(todo) <= Batch
    <3>1. PICK s \in drain[n].svcs, todo \in Seq(Entries) :
            Onward(n, drain[n].svcs \ {s}, todo) /\ Len(todo) <= Batch
      BY <1>6, ListedFacts
    <3>2. drain[n].svcs \ {s} \in SUBSET Services
      BY DEF TypeOK, Drains
    <3>3. QED
      BY <3>1, <3>2
  <2>2. n \in active[Retry] /\ active' = active
    BY <1>6 DEF ListPendingByService, At, schedulerVars
  <2>3. QED
    BY <2>1, <2>2, OnwardStep
<1>7. ASSUME NEW n \in {1, 2}, Submit(n)
      PROVE  DrainTypeOK' /\ DrainInv'
  <2>1. PICK ok \in BOOLEAN : drain' = [drain EXCEPT ![n].pc = "settle", ![n].ok = ok]
    BY <1>7 DEF Submit
  <2>2. /\ drain' \in [{1, 2} -> Drains]
        /\ drain'[n].pc = "settle" /\ drain'[n].todo = drain[n].todo
        /\ \A m \in {1, 2} : m # n => drain'[m] = drain[m]
    BY <2>1, SubmitFacts DEF TypeOK
  <2>3. n \in active[Retry] /\ active' = active /\ drain[n].pc = "submit"
    BY <1>7 DEF Submit, At, schedulerVars
  <2>4. QED
    BY <2>2, <2>3 DEF TypeOK, DrainTypeOK, DrainInv
<1>8. ASSUME NEW n \in {1, 2}, DeleteQueueEntry(n)
      PROVE  DrainTypeOK' /\ DrainInv'
  <2>1. PICK svcs \in SUBSET Services, todo \in Seq(Entries) :
          Onward(n, svcs, todo) /\ Len(todo) <= Batch
    <3>1. drain[n].todo \in Seq(Entries) /\ drain[n].todo # <<>> /\ Len(drain[n].todo) <= Batch
           /\ drain[n].svcs \subseteq Services
      BY <1>8 DEF DeleteQueueEntry, At, TypeOK, DrainInv, Drains
    <3>2. Tail(drain[n].todo) \in Seq(Entries) /\ Len(Tail(drain[n].todo)) <= Batch
      BY <3>1, BoundsAssumption
    <3>3. QED
      BY <1>8, <3>1, <3>2 DEF DeleteQueueEntry
  <2>2. n \in active[Retry] /\ active' = active
    BY <1>8 DEF DeleteQueueEntry, At, schedulerVars
  <2>3. QED
    BY <2>1, <2>2, OnwardStep
<1>9. ASSUME NEW n \in {1, 2}, IncrementAttempts(n)
      PROVE  DrainTypeOK' /\ DrainInv'
  <2>1. PICK svcs \in SUBSET Services, todo \in Seq(Entries) :
          Onward(n, svcs, todo) /\ Len(todo) <= Batch
    <3>1. drain[n].todo \in Seq(Entries) /\ drain[n].todo # <<>> /\ Len(drain[n].todo) <= Batch
           /\ drain[n].svcs \subseteq Services
      BY <1>9 DEF IncrementAttempts, At, TypeOK, DrainInv, Drains
    <3>2. Tail(drain[n].todo) \in Seq(Entries) /\ Len(Tail(drain[n].todo)) <= Batch
      BY <3>1, BoundsAssumption
    <3>3. QED
      BY <1>9, <3>1, <3>2 DEF IncrementAttempts
  <2>2. n \in active[Retry] /\ active' = active
    BY <1>9 DEF IncrementAttempts, At, schedulerVars
  <2>3. QED
    BY <2>1, <2>2, OnwardStep
<1>10. ASSUME NEW n \in {1, 2}, SettleFails(n)
      PROVE  DrainTypeOK' /\ DrainInv'
  <2>1. PICK svcs \in SUBSET Services, todo \in Seq(Entries) :
          Onward(n, svcs, todo) /\ Len(todo) <= Batch
    <3>1. drain[n].todo \in Seq(Entries) /\ drain[n].todo # <<>> /\ Len(drain[n].todo) <= Batch
           /\ drain[n].svcs \subseteq Services
      BY <1>10 DEF SettleFails, At, TypeOK, DrainInv, Drains
    <3>2. Tail(drain[n].todo) \in Seq(Entries) /\ Len(Tail(drain[n].todo)) <= Batch
      BY <3>1, BoundsAssumption
    <3>3. QED
      BY <1>10, <3>1, <3>2 DEF SettleFails
  <2>2. n \in active[Retry] /\ active' = active
    BY <1>10 DEF SettleFails, At, schedulerVars
  <2>3. QED
    BY <2>1, <2>2, OnwardStep
<1>11. ASSUME NEW n \in {1, 2}, PurgeStaleQueue(n)
      PROVE  DrainTypeOK' /\ DrainInv'
  <2>1. drain'[n] = NoDrain /\ drain' \in [{1, 2} -> Drains]
        /\ \A m \in {1, 2} : m # n => drain'[m] = drain[m]
    BY <1>11, NoDrainFacts DEF PurgeStaleQueue, TypeOK
  <2>2. n \in active[Retry]
    BY <1>11 DEF PurgeStaleQueue, Returned
  <2>3. \A m \in {1, 2} : m # n => drain[m] = NoDrain
    BY <2>2, OneDrain
  <2>4. QED
    BY <2>1, <2>3, NoDrainFacts DEF DrainTypeOK, DrainInv
<1>12. ASSUME NEW n \in {1, 2}, PurgeFails(n)
      PROVE  DrainTypeOK' /\ DrainInv'
  <2>1. drain'[n] = NoDrain /\ drain' \in [{1, 2} -> Drains]
        /\ \A m \in {1, 2} : m # n => drain'[m] = drain[m]
    BY <1>12, NoDrainFacts DEF PurgeFails, TypeOK
  <2>2. n \in active[Retry]
    BY <1>12 DEF PurgeFails, Returned
  <2>3. \A m \in {1, 2} : m # n => drain[m] = NoDrain
    BY <2>2, OneDrain
  <2>4. QED
    BY <2>1, <2>3, NoDrainFacts DEF DrainTypeOK, DrainInv
<1>13. ASSUME NEW e \in Entries, Scrobble(e)
      PROVE  DrainTypeOK' /\ DrainInv'
  <2>1. drain' = drain /\ active[Retry] \subseteq active'[Retry]
    BY <1>13 DEF Scrobble, schedulerVars
  <2>2. QED
    BY <2>1 DEF TypeOK, DrainTypeOK, DrainInv
<1>14. ASSUME NEW e \in Entries, FourteenDays(e)
      PROVE  DrainTypeOK' /\ DrainInv'
  <2>1. drain' = drain /\ active[Retry] \subseteq active'[Retry]
    BY <1>14 DEF FourteenDays, schedulerVars
  <2>2. QED
    BY <2>1 DEF TypeOK, DrainTypeOK, DrainInv
<1>15. ASSUME NEW s \in Services, SetService(s)
      PROVE  DrainTypeOK' /\ DrainInv'
  <2>1. drain' = drain /\ active[Retry] \subseteq active'[Retry]
    BY <1>15 DEF SetService, schedulerVars
  <2>2. QED
    BY <2>1 DEF TypeOK, DrainTypeOK, DrainInv
<1>16. CASE UNCHANGED vars
  <2>1. drain' = drain /\ active[Retry] \subseteq active'[Retry]
    BY <1>16 DEF vars, schedulerVars
  <2>2. QED
    BY <2>1 DEF TypeOK, DrainTypeOK, DrainInv
<1>17. QED
  BY <1>1, <1>2, <1>3, <1>4, <1>5, <1>6, <1>7, <1>8, <1>9, <1>10, <1>11, <1>12, <1>13, <1>14, <1>15, <1>16 DEF Next, DrainQueue

\* The entry that a drain is about to submit or to settle.
LEMMA HeadFacts ==
  ASSUME IInv, NEW n \in {1, 2}, At(n, "submit") \/ At(n, "settle")
  PROVE  /\ n \in active[Retry]
         /\ \A m \in {1, 2} : m # n => drain[m] = NoDrain
         /\ drain[n].svcs \in SUBSET Services /\ drain[n].ok \in BOOLEAN
         /\ Head(drain[n].todo) \in Entries /\ Head(drain[n].todo) \in queue
         /\ fate[Head(drain[n].todo)] = "queued"
         /\ attempts[Head(drain[n].todo)] < MaxAttempts
         /\ Tail(drain[n].todo) \in Seq(Entries) /\ IsInjective(Tail(drain[n].todo))
         /\ \A i \in DOMAIN Tail(drain[n].todo) :
              /\ Tail(drain[n].todo)[i] # Head(drain[n].todo)
              /\ Tail(drain[n].todo)[i] \in Entries /\ Tail(drain[n].todo)[i] \in queue
              /\ attempts[Tail(drain[n].todo)[i]] < MaxAttempts
<1> DEFINE b == drain[n].todo
<1>1. n \in active[Retry] /\ b # <<>>
  BY DEF At, IInv, DrainInv
<1>2. \A m \in {1, 2} : m # n => drain[m] = NoDrain
  BY <1>1, OneDrain DEF IInv
<1>3. /\ b \in Seq(Entries) /\ drain[n].svcs \in SUBSET Services /\ drain[n].ok \in BOOLEAN
  BY DEF IInv, TypeOK, Drains
<1>4. /\ IsInjective(b)
      /\ \A i \in DOMAIN b : b[i] \in queue /\ attempts[b[i]] < MaxAttempts
  BY DEF IInv, BatchInv
<1> HIDE DEF b
<1>5. /\ Head(b) \in Entries /\ Head(b) = b[1] /\ 1 \in DOMAIN b
      /\ Tail(b) \in Seq(Entries) /\ IsInjective(Tail(b))
      /\ \A i \in DOMAIN Tail(b) : i + 1 \in DOMAIN b /\ Tail(b)[i] = b[i+1] /\ Tail(b)[i] # Head(b)
  BY <1>1, <1>3, <1>4, RestFacts
<1>6. Head(b) \in queue /\ attempts[Head(b)] < MaxAttempts /\ fate[Head(b)] = "queued"
  BY <1>4, <1>5 DEF IInv, FateInv, FateOf
<1>7. \A i \in DOMAIN Tail(b) :
        /\ Tail(b)[i] # Head(b) /\ Tail(b)[i] \in Entries /\ Tail(b)[i] \in queue
        /\ attempts[Tail(b)[i]] < MaxAttempts
  BY <1>4, <1>5 DEF IInv, TypeOK
<1>8. QED
  BY <1>1, <1>2, <1>3, <1>5, <1>6, <1>7 DEF b

\* A drain goes on with a batch that is fit.
LEMMA BatchOnward ==
  ASSUME IInv, NEW n \in {1, 2}, NEW svcs \in SUBSET Services, NEW todo \in Seq(Entries),
         Onward(n, svcs, todo), n \in active[Retry], IsInjective(todo),
         \A i \in DOMAIN todo : todo[i] \in queue' /\ attempts'[todo[i]] < MaxAttempts
  PROVE  BatchInv'
<1>1. drain'[n].todo = todo /\ \A m \in {1, 2} : m # n => drain'[m] = drain[m]
  BY OnwardFacts DEF IInv, TypeOK
<1>2. \A m \in {1, 2} : m # n => drain'[m].todo = <<>>
  BY <1>1, OneDrain, NoDrainFacts DEF IInv
<1>3. IsInjective(<<>>) /\ DOMAIN <<>> = {}
  BY DEF IsInjective
<1>4. QED
  BY <1>1, <1>2, <1>3 DEF BatchInv

\* Without a drain there is no batch.
LEMMA NoBatch == (\A n \in {1, 2} : drain'[n] = NoDrain) => BatchInv'
<1>1. IsInjective(<<>>) /\ DOMAIN <<>> = {}
  BY DEF IsInjective
<1>2. QED
  BY <1>1, NoDrainFacts DEF BatchInv

\* The entries of a batch stay queued until it is their turn.
LEMMA BatchStep == IInv /\ [Next]_vars => BatchInv'
<1> SUFFICES ASSUME IInv, [Next]_vars PROVE BatchInv'
  OBVIOUS
<1> USE DEF IInv
<1>1. CASE Scheduling /\ UNCHANGED <<tableVars, drain, history>>
  <2>1. drain' = drain /\ queue \subseteq queue' /\ attempts' = attempts
    BY <1>1 DEF tableVars, rows
  <2>2. QED
    BY <2>1 DEF BatchInv
<1>2. CASE ExitInDrain
  <2>1. \A n \in {1, 2} : drain'[n] = NoDrain
    BY <1>2 DEF ExitInDrain
  <2>2. QED
    BY <2>1, NoBatch
<1>3. ASSUME NEW j \in Jobs, OtherJob(j), UNCHANGED <<tableVars, drain, history>>
      PROVE  BatchInv'
  <2>1. drain' = drain /\ queue \subseteq queue' /\ attempts' = attempts
    BY <1>3 DEF tableVars, rows
  <2>2. QED
    BY <2>1 DEF BatchInv
<1>4. ASSUME NEW n \in {1, 2}, ListAllEnabledServices(n)
      PROVE  BatchInv'
  <2>1. <<>> \in Seq(Entries) /\ IsInjective(<<>>) /\ DOMAIN <<>> = {}
    BY DEF IsInjective
  <2>2. Onward(n, enabled, <<>>) /\ n \in active[Retry] /\ enabled \in SUBSET Services
    BY <1>4 DEF ListAllEnabledServices, At, TypeOK
  <2>3. QED
    BY <2>1, <2>2, BatchOnward
<1>5. ASSUME NEW n \in {1, 2}, ListServicesFails(n)
      PROVE  BatchInv'
  <2>1. n \in active[Retry] /\ \A m \in {1, 2} : drain'[m] = IF m = n THEN NoDrain ELSE drain[m]
    BY <1>5 DEF ListServicesFails, Returned, TypeOK, At, DrainInv
  <2>2. \A m \in {1, 2} : drain'[m] = NoDrain
    BY <2>1, OneDrain
  <2>3. QED
    BY <2>2, NoBatch
<1>6. ASSUME NEW n \in {1, 2}, ListPendingByService(n)
      PROVE  BatchInv'
  <2>1. PICK s \in drain[n].svcs, todo \in Seq(Entries) :
          /\ Onward(n, drain[n].svcs \ {s}, todo) /\ IsInjective(todo)
          /\ \A i \in DOMAIN todo : todo[i] \in queue /\ attempts[todo[i]] < MaxAttempts
    BY <1>6, ListedFacts
  <2>2. n \in active[Retry] /\ drain[n].svcs \ {s} \in SUBSET Services
        /\ queue' = queue /\ attempts' = attempts
    BY <1>6 DEF ListPendingByService, At, TypeOK, Drains, tableVars, rows
  <2>3. QED
    BY <2>1, <2>2, BatchOnward
<1>7. ASSUME NEW n \in {1, 2}, Submit(n)
      PROVE  BatchInv'
  <2>1. PICK ok \in BOOLEAN : drain' = [drain EXCEPT ![n].pc = "settle", ![n].ok = ok]
    BY <1>7 DEF Submit
  <2>2. \A m \in {1, 2} : drain'[m].todo = drain[m].todo
    BY <2>1, SubmitFacts DEF TypeOK
  <2>3. queue' = queue /\ attempts' = attempts
    BY <1>7 DEF Submit, tableVars, rows
  <2>4. QED
    BY <2>2, <2>3 DEF BatchInv
<1>8. ASSUME NEW n \in {1, 2}, DeleteQueueEntry(n)
      PROVE  BatchInv'
  <2>1. Onward(n, drain[n].svcs, Tail(drain[n].todo)) /\ At(n, "settle")
    BY <1>8 DEF DeleteQueueEntry
  <2>2. \A i \in DOMAIN Tail(drain[n].todo) :
          /\ Tail(drain[n].todo)[i] \in queue'
          /\ attempts'[Tail(drain[n].todo)[i]] < MaxAttempts
    <3>1. \A e \in Entries : e \in queue /\ attempts[e] < MaxAttempts /\ e # Head(drain[n].todo)
            => e \in queue' /\ attempts'[e] < MaxAttempts
      BY <1>8 DEF DeleteQueueEntry, Delete, tableVars, rows, TypeOK
    <3>2. QED
      BY <2>1, <3>1, HeadFacts
  <2>3. QED
    BY <2>1, <2>2, HeadFacts, BatchOnward
<1>9. ASSUME NEW n \in {1, 2}, IncrementAttempts(n)
      PROVE  BatchInv'
  <2>1. Onward(n, drain[n].svcs, Tail(drain[n].todo)) /\ At(n, "settle")
    BY <1>9 DEF IncrementAttempts
  <2>2. \A i \in DOMAIN Tail(drain[n].todo) :
          /\ Tail(drain[n].todo)[i] \in queue'
          /\ attempts'[Tail(drain[n].todo)[i]] < MaxAttempts
    <3>1. \A e \in Entries : e \in queue /\ attempts[e] < MaxAttempts /\ e # Head(drain[n].todo)
            => e \in queue' /\ attempts'[e] < MaxAttempts
      BY <1>9 DEF IncrementAttempts, Delete, tableVars, rows, TypeOK
    <3>2. QED
      BY <2>1, <3>1, HeadFacts
  <2>3. QED
    BY <2>1, <2>2, HeadFacts, BatchOnward
<1>10. ASSUME NEW n \in {1, 2}, SettleFails(n)
      PROVE  BatchInv'
  <2>1. Onward(n, drain[n].svcs, Tail(drain[n].todo)) /\ At(n, "settle")
    BY <1>10 DEF SettleFails
  <2>2. \A i \in DOMAIN Tail(drain[n].todo) :
          /\ Tail(drain[n].todo)[i] \in queue'
          /\ attempts'[Tail(drain[n].todo)[i]] < MaxAttempts
    <3>1. \A e \in Entries : e \in queue /\ attempts[e] < MaxAttempts /\ e # Head(drain[n].todo)
            => e \in queue' /\ attempts'[e] < MaxAttempts
      BY <1>10 DEF SettleFails, Delete, tableVars, rows, TypeOK
    <3>2. QED
      BY <2>1, <3>1, HeadFacts
  <2>3. QED
    BY <2>1, <2>2, HeadFacts, BatchOnward
<1>11. ASSUME NEW n \in {1, 2}, PurgeStaleQueue(n)
      PROVE  BatchInv'
  <2>1. n \in active[Retry] /\ \A m \in {1, 2} : drain'[m] = IF m = n THEN NoDrain ELSE drain[m]
    BY <1>11 DEF PurgeStaleQueue, Returned, TypeOK
  <2>2. \A m \in {1, 2} : drain'[m] = NoDrain
    BY <2>1, OneDrain
  <2>3. QED
    BY <2>2, NoBatch
<1>12. ASSUME NEW n \in {1, 2}, PurgeFails(n)
      PROVE  BatchInv'
  <2>1. n \in active[Retry] /\ \A m \in {1, 2} : drain'[m] = IF m = n THEN NoDrain ELSE drain[m]
    BY <1>12 DEF PurgeFails, Returned, TypeOK
  <2>2. \A m \in {1, 2} : drain'[m] = NoDrain
    BY <2>1, OneDrain
  <2>3. QED
    BY <2>2, NoBatch
<1>13. ASSUME NEW e \in Entries, Scrobble(e)
      PROVE  BatchInv'
  <2>1. drain' = drain /\ queue \subseteq queue' /\ attempts' = attempts
    BY <1>13 DEF Scrobble, tableVars, rows
  <2>2. QED
    BY <2>1 DEF BatchInv
<1>14. ASSUME NEW e \in Entries, FourteenDays(e)
      PROVE  BatchInv'
  <2>1. drain' = drain /\ queue \subseteq queue' /\ attempts' = attempts
    BY <1>14 DEF FourteenDays, tableVars, rows
  <2>2. QED
    BY <2>1 DEF BatchInv
<1>15. ASSUME NEW s \in Services, SetService(s)
      PROVE  BatchInv'
  <2>1. drain' = drain /\ queue \subseteq queue' /\ attempts' = attempts
    BY <1>15 DEF SetService, tableVars, rows
  <2>2. QED
    BY <2>1 DEF BatchInv
<1>16. CASE UNCHANGED vars
  <2>1. drain' = drain /\ queue \subseteq queue' /\ attempts' = attempts
    BY <1>16 DEF vars, tableVars, rows
  <2>2. QED
    BY <2>1 DEF BatchInv
<1>17. QED
  BY <1>1, <1>2, <1>3, <1>4, <1>5, <1>6, <1>7, <1>8, <1>9, <1>10, <1>11, <1>12, <1>13, <1>14, <1>15, <1>16 DEF Next, DrainQueue

\* The part of the type invariant that is about the table and its history.
TableTypeOK ==
  /\ queue \subseteq Entries /\ before \subseteq queue \X queue
  /\ attempts \in [Entries -> 0 .. MaxAttempts]
  /\ old \in [Entries -> BOOLEAN] /\ enabled \subseteq Services
  /\ fate \in [Entries -> {"new", "queued", "delivered", "dropped", "lost"}]
  /\ copies \in [Entries -> Nat] /\ slips \in [Entries -> Nat]

\* Rows leave the table with their place in its order.
LEMMA DeleteFacts ==
  ASSUME before \subseteq queue \X queue, NEW es, Delete(es)
  PROVE  queue' = queue \ es /\ before' \subseteq queue' \X queue'
BY DEF Delete

\* A submission is recorded once, twice is for the history to explain.
LEMMA SubmittedFacts ==
  ASSUME TypeOK, NEW e \in Entries, NEW ok \in BOOLEAN, Submitted(e, ok)
  PROVE  /\ copies' \in [Entries -> Nat] /\ slips' \in [Entries -> Nat]
         /\ \A x \in Entries : x # e => copies'[x] = copies[x] /\ slips'[x] = slips[x]
         /\ copies'[e] - slips'[e] = copies[e] - slips[e] + (IF ok THEN 1 ELSE 0)
         /\ copies'[e] >= copies[e] /\ (ok => copies'[e] > 0)
<1>1. copies \in [Entries -> Nat] /\ slips \in [Entries -> Nat]
  BY DEF TypeOK
<1>2. CASE ok /\ copies' = [copies EXCEPT ![e] = @ + 1] /\ UNCHANGED slips
  BY <1>1, <1>2
<1>3. CASE ~ok /\ UNCHANGED <<copies, slips>>
  BY <1>1, <1>3
<1>4. CASE ~ok /\ copies' = [copies EXCEPT ![e] = @ + 1] /\ slips' = [slips EXCEPT ![e] = @ + 1]
  BY <1>1, <1>4
<1>5. QED
  BY <1>2, <1>3, <1>4 DEF Submitted, Slip

\* The entry whose deletion an exit prevented is the one that one drain, and no
\* other, was about to delete.
LEMMA ExitSlips ==
  ASSUME IInv, NEW e \in Entries,
         NEW S, S = {n \in {1, 2} : At(n, "settle") /\ drain[n].ok /\ Head(drain[n].todo) = e}
  PROVE  /\ Cardinality(S) \in {0, 1}
         /\ Cardinality(S) = 0 => \A n \in {1, 2} : ~Accepted(n, e)
<1>1. \A n \in {1, 2} : Accepted(n, e) => At(n, "settle")
  BY NoDrainFacts DEF Accepted, At, IInv, TypeOK
<1>2. \A n \in S : S = {n}
  BY OneDrain, NoDrainFacts DEF At, IInv
<1>3. CASE S = {}
  BY <1>1, <1>3, FS_EmptySet DEF Accepted
<1>4. CASE S # {}
  <2>1. PICK n \in S : S = {n}
    BY <1>2, <1>4
  <2>2. Cardinality(S) = 1
    BY <2>1, FS_Singleton
  <2>3. QED
    BY <2>2
<1>5. QED
  BY <1>3, <1>4

\* The table and its history keep their types.
LEMMA TableStep == IInv /\ [Next]_vars => TableTypeOK'
<1> SUFFICES ASSUME IInv, [Next]_vars PROVE TableTypeOK'
  OBVIOUS
<1> USE DEF IInv
<1>1. CASE Scheduling /\ UNCHANGED <<tableVars, drain, history>>
  BY <1>1 DEF TypeOK, TableTypeOK, tableVars, rows, history
<1>2. CASE ExitInDrain
  <2>1. \A e \in Entries : slips'[e] \in Nat
    <3>1. TAKE e \in Entries
    <3> DEFINE S == {n \in {1, 2} : At(n, "settle") /\ drain[n].ok /\ Head(drain[n].todo) = e}
    <3>2. slips'[e] = slips[e] + Cardinality(S)
      BY <1>2 DEF ExitInDrain
    <3> HIDE DEF S
    <3>3. Cardinality(S) \in {0, 1}
      BY ExitSlips DEF S
    <3>4. QED
      BY <3>2, <3>3 DEF TypeOK
  <2>2. slips' \in [Entries -> Nat]
    BY <1>2, <2>1 DEF ExitInDrain
  <2>3. QED
    BY <1>2, <2>2 DEF ExitInDrain, TypeOK, TableTypeOK, tableVars, rows
<1>3. ASSUME NEW j \in Jobs, OtherJob(j), UNCHANGED <<tableVars, drain, history>>
      PROVE  TableTypeOK'
  BY <1>3 DEF TypeOK, TableTypeOK, tableVars, rows, history
<1>4. ASSUME NEW n \in {1, 2}, ListAllEnabledServices(n)
      PROVE  TableTypeOK'
  BY <1>4 DEF ListAllEnabledServices, TypeOK, TableTypeOK, tableVars, rows, history
<1>5. ASSUME NEW n \in {1, 2}, ListServicesFails(n)
      PROVE  TableTypeOK'
  BY <1>5 DEF ListServicesFails, TypeOK, TableTypeOK, tableVars, rows, history
<1>6. ASSUME NEW n \in {1, 2}, ListPendingByService(n)
      PROVE  TableTypeOK'
  BY <1>6 DEF ListPendingByService, TypeOK, TableTypeOK, tableVars, rows, history
<1>7. ASSUME NEW n \in {1, 2}, Submit(n)
      PROVE  TableTypeOK'
  <2>1. Head(drain[n].todo) \in Entries
    BY <1>7, HeadFacts DEF Submit
  <2>2. copies' \in [Entries -> Nat] /\ slips' \in [Entries -> Nat]
    BY <1>7, <2>1, SubmittedFacts DEF Submit
  <2>3. QED
    BY <1>7, <2>2 DEF Submit, TypeOK, TableTypeOK, tableVars, rows
<1>8. ASSUME NEW n \in {1, 2}, DeleteQueueEntry(n)
      PROVE  TableTypeOK'
  <2>1. Head(drain[n].todo) \in Entries
    BY <1>8, HeadFacts DEF DeleteQueueEntry
  <2>2. queue' \subseteq Entries /\ before' \subseteq queue' \X queue'
    BY <1>8, DeleteFacts DEF DeleteQueueEntry, TypeOK
  <2>3. fate' \in [Entries -> {"new", "queued", "delivered", "dropped", "lost"}]
    BY <1>8 DEF DeleteQueueEntry, TypeOK
  <2>4. QED
    BY <1>8, <2>2, <2>3 DEF DeleteQueueEntry, TypeOK, TableTypeOK
<1>9. ASSUME NEW n \in {1, 2}, IncrementAttempts(n)
      PROVE  TableTypeOK'
  <2>1. Head(drain[n].todo) \in Entries /\ attempts[Head(drain[n].todo)] < MaxAttempts
    BY <1>9, HeadFacts DEF IncrementAttempts
  <2>2. attempts' \in [Entries -> 0 .. MaxAttempts]
    BY <1>9, <2>1, BoundsAssumption DEF IncrementAttempts, TypeOK
  <2>3. QED
    BY <1>9, <2>2 DEF IncrementAttempts, TypeOK, TableTypeOK, rows, history
<1>10. ASSUME NEW n \in {1, 2}, SettleFails(n)
      PROVE  TableTypeOK'
  <2>1. Head(drain[n].todo) \in Entries
    BY <1>10, HeadFacts DEF SettleFails
  <2>2. slips' \in [Entries -> Nat]
    <3>1. slips' = slips \/ slips' = [slips EXCEPT ![Head(drain[n].todo)] = @ + 1]
      BY <1>10 DEF SettleFails, Slip
    <3>2. slips \in [Entries -> Nat]
      BY DEF TypeOK
    <3>3. QED
      BY <2>1, <3>1, <3>2
  <2>3. QED
    BY <1>10, <2>2 DEF SettleFails, TypeOK, TableTypeOK, tableVars, rows
<1>11. ASSUME NEW n \in {1, 2}, PurgeStaleQueue(n)
      PROVE  TableTypeOK'
  <2>2. queue' \subseteq Entries /\ before' \subseteq queue' \X queue'
    BY <1>11, DeleteFacts DEF PurgeStaleQueue, TypeOK
  <2>3. fate' \in [Entries -> {"new", "queued", "delivered", "dropped", "lost"}]
    BY <1>11 DEF PurgeStaleQueue, TypeOK
  <2>4. QED
    BY <1>11, <2>2, <2>3 DEF PurgeStaleQueue, TypeOK, TableTypeOK
<1>12. ASSUME NEW n \in {1, 2}, PurgeFails(n)
      PROVE  TableTypeOK'
  BY <1>12 DEF PurgeFails, TypeOK, TableTypeOK, tableVars, rows, history
<1>13. ASSUME NEW e \in Entries, Scrobble(e)
      PROVE  TableTypeOK'
  <2>1. copies' \in [Entries -> Nat] /\ slips' \in [Entries -> Nat]
    BY <1>13, SubmittedFacts DEF Scrobble
  <2>2. fate' \in [Entries -> {"new", "queued", "delivered", "dropped", "lost"}]
    BY <1>13 DEF Scrobble, TypeOK
  <2>3. queue' \subseteq Entries /\ before' \subseteq queue' \X queue'
    BY <1>13 DEF Scrobble, TypeOK, rows
  <2>4. QED
    BY <1>13, <2>1, <2>2, <2>3 DEF Scrobble, TypeOK, TableTypeOK
<1>14. ASSUME NEW e \in Entries, FourteenDays(e)
      PROVE  TableTypeOK'
  <2>1. old' \in [Entries -> BOOLEAN]
    BY <1>14 DEF FourteenDays, TypeOK
  <2>2. QED
    BY <1>14, <2>1 DEF FourteenDays, TypeOK, TableTypeOK, rows, history
<1>15. ASSUME NEW s \in Services, SetService(s)
      PROVE  TableTypeOK'
  BY <1>15 DEF SetService, TypeOK, TableTypeOK, tableVars, rows, history
<1>16. CASE UNCHANGED vars
  BY <1>16 DEF vars, TypeOK, TableTypeOK, tableVars, rows, history
<1>17. QED
  BY <1>1, <1>2, <1>3, <1>4, <1>5, <1>6, <1>7, <1>8, <1>9, <1>10, <1>11, <1>12, <1>13, <1>14, <1>15, <1>16 DEF Next, DrainQueue

\* An entry that a drain is about to delete is queued, and no other drain is there.
LEMMA AcceptedFacts ==
  ASSUME IInv, NEW n \in {1, 2}, NEW e, Accepted(n, e)
  PROVE  /\ At(n, "settle") /\ e \in Entries /\ e \in queue /\ fate[e] = "queued"
         /\ \A m \in {1, 2} : m # n => ~Accepted(m, e)
<1>1. drain[n] # NoDrain
  BY NoDrainFacts DEF Accepted
<1>2. At(n, "settle")
  BY <1>1 DEF Accepted, At, IInv, TypeOK
<1>3. QED
  BY <1>2, HeadFacts, NoDrainFacts DEF Accepted

\* An entry that a step does not touch keeps its fate.
LEMMA FateKept ==
  ASSUME NEW e \in Entries, FateOf(e),
         fate'[e] = fate[e], copies'[e] = copies[e], slips'[e] = slips[e],
         e \in queue' <=> e \in queue, Stale(e) => Stale(e)',
         \A n \in {1, 2} : Accepted(n, e)' <=> Accepted(n, e)
  PROVE  FateOf(e)'
BY DEF FateOf

\* A drain that goes on is not about to delete anything.
LEMMA OnwardAccepts ==
  ASSUME IInv, NEW n \in {1, 2}, NEW svcs \in SUBSET Services, NEW todo \in Seq(Entries),
         Onward(n, svcs, todo)
  PROVE  \A e : ~Accepted(n, e)' /\ \A m \in {1, 2} : m # n => (Accepted(m, e)' <=> Accepted(m, e))
BY OnwardFacts DEF IInv, TypeOK, Accepted

\* Every step leaves each entry with a fate that its history explains.
LEMMA FateStep == IInv /\ [Next]_vars => FateInv'
<1> SUFFICES ASSUME IInv, [Next]_vars PROVE FateInv'
  OBVIOUS
<1> USE DEF IInv
<1>1. CASE Scheduling /\ UNCHANGED <<tableVars, drain, history>>
  <2>1. UNCHANGED <<fate, copies, slips, queue, attempts, old, drain>>
    BY <1>1 DEF tableVars, rows, history
  <2>2. \A e \in Entries : FateOf(e)'
    BY <2>1, FateKept DEF FateInv, Stale, Accepted
  <2>3. QED
    BY <2>2 DEF FateInv
<1>2. CASE ExitInDrain
  <2>1. UNCHANGED <<queue, attempts, old, fate, copies>> /\ \A m \in {1, 2} : drain'[m] = NoDrain
    BY <1>2 DEF ExitInDrain, tableVars, rows
  <2>2. \A m \in {1, 2} : \A x : ~Accepted(m, x)'
    BY <2>1, NoDrainFacts DEF Accepted
  <2>3. ASSUME NEW e \in Entries
        PROVE  FateOf(e)'
    <3> DEFINE S == {n \in {1, 2} : At(n, "settle") /\ drain[n].ok /\ Head(drain[n].todo) = e}
    <3>1. slips'[e] = slips[e] + Cardinality(S)
      BY <1>2 DEF ExitInDrain
    <3> HIDE DEF S
    <3>2. Cardinality(S) \in {0, 1} /\ (Cardinality(S) = 0 => \A n \in {1, 2} : ~Accepted(n, e))
      BY ExitSlips DEF S
    <3>3. copies[e] \in Nat /\ slips[e] \in Nat /\ copies[e] <= 1 + slips[e]
      BY DEF TypeOK, FateInv, FateOf
    <3>4. Cardinality(S) = 0 /\ fate[e] = "queued" => copies[e] <= slips[e]
      BY <3>2 DEF FateInv, FateOf
    <3>5. copies[e] <= 1 + slips'[e] /\ (fate[e] = "queued" => copies[e] <= slips'[e])
      BY <3>1, <3>2, <3>3, <3>4
    <3>6. fate[e] # "new" \/ Cardinality(S) = 0
      <4>1. \A n \in S : At(n, "settle") /\ Head(drain[n].todo) = e
        BY DEF S
      <4>2. \A n \in S : n \in {1, 2} /\ fate[e] = "queued"
        <5>1. S \subseteq {1, 2}
          BY DEF S
        <5>2. QED
          BY <4>1, <5>1, HeadFacts
      <4>3. S = {} => Cardinality(S) = 0
        BY FS_EmptySet
      <4>4. QED
        BY <4>2, <4>3
    <3>7. Stale(e)' <=> Stale(e)
      BY <2>1 DEF Stale
    <3>8. QED
      BY <2>1, <2>2, <3>1, <3>3, <3>5, <3>6, <3>7 DEF FateInv, FateOf
  <2>4. QED
    BY <2>3 DEF FateInv
<1>3. ASSUME NEW j \in Jobs, OtherJob(j), UNCHANGED <<tableVars, drain, history>>
      PROVE  FateInv'
  <2>1. UNCHANGED <<fate, copies, slips, queue, attempts, old, drain>>
    BY <1>3 DEF tableVars, rows, history
  <2>2. \A e \in Entries : FateOf(e)'
    BY <2>1, FateKept DEF FateInv, Stale, Accepted
  <2>3. QED
    BY <2>2 DEF FateInv
<1>4. ASSUME NEW n \in {1, 2}, ListAllEnabledServices(n)
      PROVE  FateInv'
  <2>1. PICK svcs \in SUBSET Services, todo \in Seq(Entries) : Onward(n, svcs, todo)
    <3>1. <<>> \in Seq(Entries)
      OBVIOUS
    <3>2. QED
      BY <1>4, <3>1 DEF ListAllEnabledServices, TypeOK
  <2>2. \A m \in {1, 2}, e \in Entries : Accepted(m, e)' <=> Accepted(m, e)
    BY <1>4, <2>1, OnwardAccepts DEF ListAllEnabledServices, At, Accepted
  <2>3. UNCHANGED <<fate, copies, slips, queue, attempts, old>>
    BY <1>4 DEF ListAllEnabledServices, tableVars, rows, history
  <2>4. \A e \in Entries : FateOf(e)'
    BY <2>2, <2>3, FateKept DEF FateInv, Stale
  <2>5. QED
    BY <2>4 DEF FateInv
<1>5. ASSUME NEW n \in {1, 2}, ListServicesFails(n)
      PROVE  FateInv'
  <2>1. UNCHANGED <<fate, copies, slips, queue, attempts, old, drain>>
    BY <1>5 DEF ListServicesFails, tableVars, rows, history
  <2>2. \A e \in Entries : FateOf(e)'
    BY <2>1, FateKept DEF FateInv, Stale, Accepted
  <2>3. QED
    BY <2>2 DEF FateInv
<1>6. ASSUME NEW n \in {1, 2}, ListPendingByService(n)
      PROVE  FateInv'
  <2>1. PICK svcs \in SUBSET Services, todo \in Seq(Entries) : Onward(n, svcs, todo)
    <3>1. drain[n].svcs \in SUBSET Services
      BY DEF TypeOK, Drains
    <3>2. QED
      BY <1>6, <3>1, ListedFacts
  <2>2. \A m \in {1, 2}, e \in Entries : Accepted(m, e)' <=> Accepted(m, e)
    BY <1>6, <2>1, OnwardAccepts DEF ListPendingByService, At, Accepted
  <2>3. UNCHANGED <<fate, copies, slips, queue, attempts, old>>
    BY <1>6 DEF ListPendingByService, tableVars, rows, history
  <2>4. \A e \in Entries : FateOf(e)'
    BY <2>2, <2>3, FateKept DEF FateInv, Stale
  <2>5. QED
    BY <2>4 DEF FateInv
<1>7. ASSUME NEW n \in {1, 2}, Submit(n)
      PROVE  FateInv'
  <2>0. PICK e \in Entries : e = Head(drain[n].todo)
    BY <1>7, HeadFacts DEF Submit
  <2>1. /\ At(n, "submit") /\ e \in Entries /\ e \in queue /\ fate[e] = "queued"
        /\ \A m \in {1, 2} : m # n => drain[m] = NoDrain
    BY <1>7, <2>0, HeadFacts DEF Submit
  <2>2. PICK ok \in BOOLEAN : /\ Submitted(e, ok)
                             /\ drain' = [drain EXCEPT ![n].pc = "settle", ![n].ok = ok]
    BY <1>7, <2>0 DEF Submit
  <2>3. UNCHANGED <<queue, attempts, old, fate>>
    BY <1>7 DEF Submit, tableVars, rows
  <2>4. \A m \in {1, 2} : \A x : ~Accepted(m, x)
    BY <2>1, NoDrainFacts DEF Accepted, At
  <2>5. /\ drain'[n].pc = "settle" /\ drain'[n].ok = ok /\ Head(drain'[n].todo) = e
        /\ \A m \in {1, 2} : m # n => drain'[m] = NoDrain
    BY <2>0, <2>1, <2>2, SubmitFacts DEF TypeOK
  <2>6. \A m \in {1, 2} : \A x : Accepted(m, x)' <=> m = n /\ x = e /\ ok
    BY <2>5, NoDrainFacts DEF Accepted
  <2>7. FateOf(e)'
    <3>1. copies[e] <= slips[e] /\ copies[e] \in Nat /\ slips[e] \in Nat
      BY <2>1, <2>4 DEF TypeOK, FateInv, FateOf
    <3>2. /\ copies'[e] \in Nat /\ slips'[e] \in Nat
          /\ copies'[e] - slips'[e] = copies[e] - slips[e] + (IF ok THEN 1 ELSE 0)
          /\ ok => copies'[e] > 0
      BY <2>1, <2>2, SubmittedFacts
    <3>3. copies'[e] <= 1 + slips'[e] /\ (~ok => copies'[e] <= slips'[e])
      BY <3>1, <3>2
    <3>4. QED
      BY <2>1, <2>3, <2>6, <3>2, <3>3 DEF FateOf
  <2>8. ASSUME NEW x \in Entries, x # e
        PROVE  FateOf(x)'
    <3>1. copies'[x] = copies[x] /\ slips'[x] = slips[x]
      BY <2>1, <2>2, <2>8, SubmittedFacts
    <3>2. Stale(x)' <=> Stale(x)
      BY <2>3 DEF Stale
    <3>3. QED
      BY <2>3, <2>4, <2>6, <2>8, <3>1, <3>2, FateKept DEF FateInv
  <2>9. QED
    BY <2>7, <2>8 DEF FateInv
<1>8. ASSUME NEW n \in {1, 2}, DeleteQueueEntry(n)
      PROVE  FateInv'
  <2>0. PICK e \in Entries : e = Head(drain[n].todo)
    BY <1>8, HeadFacts DEF DeleteQueueEntry
  <2>1. /\ At(n, "settle") /\ e \in Entries /\ e \in queue /\ fate[e] = "queued"
        /\ \A m \in {1, 2} : m # n => drain[m] = NoDrain
        /\ Onward(n, drain[n].svcs, Tail(drain[n].todo))
        /\ drain[n].svcs \in SUBSET Services /\ Tail(drain[n].todo) \in Seq(Entries)
    BY <1>8, <2>0, HeadFacts DEF DeleteQueueEntry
  <2>2. \A x : x # e => ~Accepted(n, x)
    BY <2>0 DEF Accepted
  <2>3. Accepted(n, e) <=> drain[n].ok
    BY <2>0, <2>1 DEF Accepted, At
  <2>4. \A m \in {1, 2} : \A x : m # n => ~Accepted(m, x)
    BY <2>1, NoDrainFacts DEF Accepted
  <2>5. \A m \in {1, 2} : \A x : ~Accepted(m, x)'
    BY <2>1, <2>4, OnwardAccepts
  <2>6. /\ queue' = queue \ {e} /\ fate' = [fate EXCEPT ![e] = "delivered"]
        /\ UNCHANGED <<copies, slips, attempts, old>> /\ drain[n].ok
    BY <2>0, <1>8 DEF DeleteQueueEntry, Delete
  <2>7. FateOf(e)'
    <3>1. fate'[e] = "delivered" /\ e \notin queue'
      BY <2>1, <2>6 DEF TypeOK
    <3>2. copies[e] > 0 /\ copies[e] <= 1 + slips[e]
      BY <2>1, <2>3, <2>6 DEF FateInv, FateOf
    <3>3. QED
      BY <2>5, <2>6, <3>1, <3>2 DEF FateOf
  <2>8. ASSUME NEW x \in Entries, x # e
        PROVE  FateOf(x)'
    <3>1. fate'[x] = fate[x] /\ (x \in queue' <=> x \in queue)
      BY <2>6, <2>8 DEF TypeOK
    <3>2. Stale(x)' <=> Stale(x)
      BY <2>6 DEF Stale
    <3>3. \A m \in {1, 2} : Accepted(m, x)' <=> Accepted(m, x)
      BY <2>2, <2>4, <2>5, <2>8
    <3>4. QED
      BY <2>6, <3>1, <3>2, <3>3, FateKept DEF FateInv
  <2>9. QED
    BY <2>7, <2>8 DEF FateInv
<1>9. ASSUME NEW n \in {1, 2}, IncrementAttempts(n)
      PROVE  FateInv'
  <2>0. PICK e \in Entries : e = Head(drain[n].todo)
    BY <1>9, HeadFacts DEF IncrementAttempts
  <2>1. /\ At(n, "settle") /\ e \in Entries /\ e \in queue /\ fate[e] = "queued"
        /\ \A m \in {1, 2} : m # n => drain[m] = NoDrain
        /\ Onward(n, drain[n].svcs, Tail(drain[n].todo))
        /\ drain[n].svcs \in SUBSET Services /\ Tail(drain[n].todo) \in Seq(Entries)
    BY <1>9, <2>0, HeadFacts DEF IncrementAttempts
  <2>2. \A x : x # e => ~Accepted(n, x)
    BY <2>0 DEF Accepted
  <2>3. Accepted(n, e) <=> drain[n].ok
    BY <2>0, <2>1 DEF Accepted, At
  <2>4. \A m \in {1, 2} : \A x : m # n => ~Accepted(m, x)
    BY <2>1, NoDrainFacts DEF Accepted
  <2>5. \A m \in {1, 2} : \A x : ~Accepted(m, x)'
    BY <2>1, <2>4, OnwardAccepts
  <2>6. /\ attempts' = [attempts EXCEPT ![e] = @ + 1] /\ ~drain[n].ok
        /\ UNCHANGED <<queue, old, fate, copies, slips>>
    BY <2>0, <1>9 DEF IncrementAttempts, rows, history
  <2>7. \A x \in Entries : Stale(x) => Stale(x)'
    <3>1. \A x \in Entries : attempts[x] \in Nat /\ attempts'[x] \in {attempts[x], attempts[x] + 1}
      BY <2>1, <2>6, BoundsAssumption DEF TypeOK
    <3>2. QED
      BY <2>6, <3>1, BoundsAssumption DEF Stale
  <2>8. \A m \in {1, 2}, x \in Entries : Accepted(m, x)' <=> Accepted(m, x)
    BY <2>2, <2>3, <2>4, <2>5, <2>6
  <2>9. \A x \in Entries : FateOf(x)'
    BY <2>6, <2>7, <2>8, FateKept DEF FateInv
  <2>10. QED
    BY <2>9 DEF FateInv
<1>10. ASSUME NEW n \in {1, 2}, SettleFails(n)
      PROVE  FateInv'
  <2>0. PICK e \in Entries : e = Head(drain[n].todo)
    BY <1>10, HeadFacts DEF SettleFails
  <2>1. /\ At(n, "settle") /\ e \in Entries /\ e \in queue /\ fate[e] = "queued"
        /\ \A m \in {1, 2} : m # n => drain[m] = NoDrain
        /\ Onward(n, drain[n].svcs, Tail(drain[n].todo))
        /\ drain[n].svcs \in SUBSET Services /\ Tail(drain[n].todo) \in Seq(Entries)
    BY <1>10, <2>0, HeadFacts DEF SettleFails
  <2>2. \A x : x # e => ~Accepted(n, x)
    BY <2>0 DEF Accepted
  <2>3. Accepted(n, e) <=> drain[n].ok
    BY <2>0, <2>1 DEF Accepted, At
  <2>4. \A m \in {1, 2} : \A x : m # n => ~Accepted(m, x)
    BY <2>1, NoDrainFacts DEF Accepted
  <2>5. \A m \in {1, 2} : \A x : ~Accepted(m, x)'
    BY <2>1, <2>4, OnwardAccepts
  <2>6. /\ UNCHANGED <<queue, attempts, old, fate, copies>>
        /\ slips' = IF drain[n].ok THEN [slips EXCEPT ![e] = @ + 1] ELSE slips
    BY <2>0, <1>10 DEF SettleFails, Slip, tableVars, rows
  <2>7. FateOf(e)'
    <3>1. slips[e] \in Nat /\ copies[e] \in Nat /\ copies[e] <= 1 + slips[e]
      BY <2>1 DEF TypeOK, FateInv, FateOf
    <3>2. slips'[e] = IF drain[n].ok THEN slips[e] + 1 ELSE slips[e]
      BY <2>1, <2>6 DEF TypeOK
    <3>3. ~drain[n].ok => copies[e] <= slips[e]
      BY <2>1, <2>3, <2>4 DEF FateInv, FateOf
    <3>4. copies'[e] <= slips'[e] /\ copies'[e] <= 1 + slips'[e]
      BY <2>6, <3>1, <3>2, <3>3
    <3>5. QED
      BY <2>1, <2>5, <2>6, <3>4 DEF FateInv, FateOf
  <2>8. ASSUME NEW x \in Entries, x # e
        PROVE  FateOf(x)'
    <3>1. slips'[x] = slips[x]
      BY <2>6, <2>8 DEF TypeOK
    <3>2. Stale(x)' <=> Stale(x)
      BY <2>6 DEF Stale
    <3>3. \A m \in {1, 2} : Accepted(m, x)' <=> Accepted(m, x)
      BY <2>2, <2>4, <2>5, <2>8
    <3>4. QED
      BY <2>6, <3>1, <3>2, <3>3, FateKept DEF FateInv
  <2>9. QED
    BY <2>7, <2>8 DEF FateInv
<1>11. ASSUME NEW n \in {1, 2}, PurgeStaleQueue(n)
      PROVE  FateInv'
  <2>1. /\ queue' = queue \ {e \in queue : Stale(e)}
        /\ fate' = [e \in Entries |-> IF fate[e] = "queued" /\ Stale(e) THEN "dropped" ELSE fate[e]]
        /\ UNCHANGED <<attempts, old, copies, slips>>
        /\ At(n, "service") /\ n \in active[Retry]
    BY <1>11 DEF PurgeStaleQueue, Delete, At
  <2>2. \A m \in {1, 2} : drain'[m] = NoDrain
    BY <1>11, <2>1, OneDrain DEF PurgeStaleQueue, TypeOK
  <2>3. \A m \in {1, 2} : \A x : ~Accepted(m, x)'
    BY <2>2, NoDrainFacts DEF Accepted
  <2>4. \A m \in {1, 2} : \A x : ~Accepted(m, x)
    BY <2>1, OneDrain, NoDrainFacts DEF Accepted, At
  <2>5. ASSUME NEW e \in Entries
        PROVE  FateOf(e)'
    <3>1. Stale(e)' <=> Stale(e)
      BY <2>1 DEF Stale
    <3>2. FateOf(e)
      BY DEF FateInv
    <3>3. CASE fate[e] = "queued" /\ Stale(e)
      <4>1. fate'[e] = "dropped" /\ e \notin queue'
        BY <2>1, <3>3
      <4>2. QED
        BY <2>1, <2>3, <3>1, <3>2, <3>3, <4>1 DEF FateOf
    <3>4. CASE ~(fate[e] = "queued" /\ Stale(e))
      <4>1. fate'[e] = fate[e] /\ (e \in queue' <=> e \in queue)
        BY <2>1, <3>2, <3>4 DEF FateOf
      <4>2. QED
        BY <2>1, <2>3, <2>4, <3>1, <3>2, <4>1, FateKept
    <3>5. QED
      BY <3>3, <3>4
  <2>6. QED
    BY <2>5 DEF FateInv
<1>12. ASSUME NEW n \in {1, 2}, PurgeFails(n)
      PROVE  FateInv'
  <2>1. UNCHANGED <<fate, copies, slips, queue, attempts, old>>
        /\ drain'[n] = NoDrain /\ At(n, "service")
        /\ \A m \in {1, 2} : m # n => drain'[m] = drain[m]
    BY <1>12 DEF PurgeFails, tableVars, rows, history, TypeOK
  <2>2. \A m \in {1, 2}, x \in Entries : Accepted(m, x)' <=> Accepted(m, x)
    BY <2>1, NoDrainFacts DEF Accepted, At
  <2>3. \A x \in Entries : FateOf(x)'
    BY <2>1, <2>2, FateKept DEF FateInv, Stale
  <2>4. QED
    BY <2>3 DEF FateInv
<1>13. ASSUME NEW e \in Entries, Scrobble(e)
      PROVE  FateInv'
  <2>1. fate[e] = "new" /\ UNCHANGED <<attempts, old, drain>>
    BY <1>13 DEF Scrobble
  <2>2. \A m \in {1, 2} : \A x : Accepted(m, x)' <=> Accepted(m, x)
    BY <2>1 DEF Accepted
  <2>3. \A m \in {1, 2} : ~Accepted(m, e)
    BY <2>1, AcceptedFacts
  <2>4. PICK ok \in BOOLEAN : /\ Submitted(e, ok)
                             /\ \/ ok /\ fate' = [fate EXCEPT ![e] = "delivered"] /\ queue' = queue
                                \/ ~ok /\ fate' = [fate EXCEPT ![e] = "queued"] /\ queue' = queue \cup {e}
                                \/ ~ok /\ fate' = [fate EXCEPT ![e] = "lost"] /\ queue' = queue
    BY <1>13 DEF Scrobble, rows
  <2>5. FateOf(e)'
    <3>1. copies[e] = 0 /\ slips[e] = 0 /\ e \notin queue
      BY <2>1 DEF FateInv, FateOf
    <3>2. /\ copies'[e] \in Nat /\ slips'[e] \in Nat
          /\ copies'[e] - slips'[e] = copies[e] - slips[e] + (IF ok THEN 1 ELSE 0)
          /\ ok => copies'[e] > 0
      BY <2>4, SubmittedFacts
    <3>3. copies'[e] <= 1 + slips'[e] /\ (~ok => copies'[e] <= slips'[e])
      BY <3>1, <3>2
    <3>4. \/ ok /\ fate'[e] = "delivered" /\ e \notin queue'
          \/ ~ok /\ fate'[e] = "queued" /\ e \in queue'
          \/ ~ok /\ fate'[e] = "lost" /\ e \notin queue'
      BY <2>4, <3>1 DEF TypeOK
    <3>5. QED
      BY <2>2, <2>3, <3>2, <3>3, <3>4 DEF FateOf
  <2>6. ASSUME NEW x \in Entries, x # e
        PROVE  FateOf(x)'
    <3>1. copies'[x] = copies[x] /\ slips'[x] = slips[x]
      BY <2>4, <2>6, SubmittedFacts
    <3>2. fate'[x] = fate[x] /\ (x \in queue' <=> x \in queue)
      BY <2>4, <2>6 DEF TypeOK
    <3>3. Stale(x)' <=> Stale(x)
      BY <2>1 DEF Stale
    <3>4. QED
      BY <2>2, <3>1, <3>2, <3>3, FateKept DEF FateInv
  <2>7. QED
    BY <2>5, <2>6 DEF FateInv
<1>14. ASSUME NEW e \in Entries, FourteenDays(e)
      PROVE  FateInv'
  <2>1. UNCHANGED <<fate, copies, slips, queue, attempts, drain>>
    BY <1>14 DEF FourteenDays, rows, history
  <2>2. \A x \in Entries : old[x] => old'[x]
    BY <1>14 DEF FourteenDays, TypeOK
  <2>3. \A x \in Entries : FateOf(x)'
    BY <2>1, <2>2, FateKept DEF FateInv, Stale, Accepted
  <2>4. QED
    BY <2>3 DEF FateInv
<1>15. ASSUME NEW s \in Services, SetService(s)
      PROVE  FateInv'
  <2>1. UNCHANGED <<fate, copies, slips, queue, attempts, old, drain>>
    BY <1>15 DEF SetService, rows, history
  <2>2. \A e \in Entries : FateOf(e)'
    BY <2>1, FateKept DEF FateInv, Stale, Accepted
  <2>3. QED
    BY <2>2 DEF FateInv
<1>16. CASE UNCHANGED vars
  <2>1. UNCHANGED <<fate, copies, slips, queue, attempts, old, drain>>
    BY <1>16 DEF vars, tableVars, rows, history
  <2>2. \A e \in Entries : FateOf(e)'
    BY <2>1, FateKept DEF FateInv, Stale, Accepted
  <2>3. QED
    BY <2>2 DEF FateInv
<1>17. QED
  BY <1>1, <1>2, <1>3, <1>4, <1>5, <1>6, <1>7, <1>8, <1>9, <1>10, <1>11, <1>12, <1>13, <1>14, <1>15, <1>16 DEF Next, DrainQueue

\* Nothing has been played and no job has been started.
LEMMA InitInv == Init => IInv
<1> SUFFICES ASSUME Init PROVE IInv
  OBVIOUS
<1> USE DEF Init
<1>1. SchedulerTypeOK /\ SchedulerInv
  <2>1. due \in [Jobs -> Nat] /\ restarts \in 0 .. MaxRestarts
    BY FirstRunAssumption, MaxRestartsAssumption DEF SchedulerInit
  <2>2. active \in [Jobs -> SUBSET {1, 2}] /\ running \in [Jobs -> BOOLEAN]
    BY DEF SchedulerInit
  <2>3. phase = "down" /\ ticking = FALSE /\ \A j \in Jobs : active[j] = {}
    BY DEF SchedulerInit
  <2>4. SchedulerTypeOK
    BY <2>1, <2>2, <2>3 DEF SchedulerTypeOK
  <2>5. QED
    BY <2>3, <2>4 DEF SchedulerInv
<1>2. drain \in [{1, 2} -> Drains] /\ \A n \in {1, 2} : drain[n] = NoDrain
  BY NoDrainFacts
<1>3. TableTypeOK
  BY BoundsAssumption DEF TableTypeOK
<1>4. TypeOK
  BY <1>1, <1>2, <1>3, NoDrainFacts DEF TypeOK, TableTypeOK
<1>5. DrainInv
  BY <1>2, NoDrainFacts DEF DrainInv
<1>6. BatchInv
  <2>1. IsInjective(<<>>) /\ DOMAIN <<>> = {}
    BY DEF IsInjective
  <2>2. QED
    BY <1>2, <2>1, NoDrainFacts DEF BatchInv
<1>7. FateInv
  BY <1>2, NoDrainFacts DEF FateInv, FateOf, Accepted
<1>8. QED
  BY <1>1, <1>4, <1>5, <1>6, <1>7 DEF IInv

\* The inductive invariant of the scheduler and the queue.
THEOREM QueueInvariant == Spec => []IInv
<1>1. Init => IInv
  BY InitInv
<1>2. IInv /\ [Next]_vars => IInv'
  <2> SUFFICES ASSUME IInv, [Next]_vars PROVE IInv'
    OBVIOUS
  <2>1. SchedulerTypeOK' /\ SchedulerInv'
    BY SchedulerPart
  <2>2. DrainTypeOK' /\ DrainInv' /\ BatchInv'
    BY DrainStep, BatchStep
  <2>3. TableTypeOK' /\ FateInv'
    BY TableStep, FateStep
  <2>4. TypeOK'
    BY <2>1, <2>2, <2>3 DEF TypeOK, DrainTypeOK, TableTypeOK
  <2>5. QED
    BY <2>1, <2>2, <2>3, <2>4 DEF IInv
<1>3. QED
  BY <1>1, <1>2, PTL DEF Spec

\* The scheduler, the table and its drains keep to their types; in particular an
\* entry is never tried more often than MaxAttempts.
THEOREM TypeCorrect == Spec => []TypeOK
<1>1. IInv => TypeOK
  BY DEF IInv
<1>2. QED
  BY <1>1, QueueInvariant, PTL

\* No job is run beside itself, by the catch-up or by the check once a minute
\* (Scheduler.catchUp, Scheduler.tick).
THEOREM NeverTwiceAlways == Spec => []NeverTwice
<1>1. Cardinality({}) = 0 /\ Cardinality({1}) = 1 /\ Cardinality({2}) = 1
  BY FS_EmptySet, FS_Singleton
<1>2. IInv => NeverTwice
  <2> SUFFICES ASSUME IInv, NEW j \in Jobs PROVE Cardinality(active[j]) <= 1
    BY DEF NeverTwice
  <2>1. active[j] = {} \/ active[j] = {1} \/ active[j] = {2}
    BY DEF IInv, SchedulerInv
  <2>2. CASE active[j] = {}
    BY <1>1, <2>2
  <2>3. CASE active[j] = {1}
    BY <1>1, <2>3
  <2>4. CASE active[j] = {2}
    BY <1>1, <2>4
  <2>5. QED
    BY <2>1, <2>2, <2>3, <2>4
<1>3. QED
  BY <1>2, QueueInvariant, PTL

\* A scrobble leaves the queue when it is recorded or stale, and is recorded again
\* only when the program could not know (Service.Scrobble, Service.DrainQueue).
THEOREM DeliveryKeptAlways == Spec => []DeliveryKept
<1>1. IInv => DeliveryKept
  BY DEF IInv, FateInv, FateOf, DeliveryKept
<1>2. QED
  BY <1>1, QueueInvariant, PTL
=============================================================================
