--------------------------- MODULE ScrobbleRetry ---------------------------
(***************************************************************************)
(* The retry queue of scrobbles (service/scrobble/scrobble.go over the     *)
(* scrobble_queue table of store/scrobble_store.go) under the scheduler    *)
(* that drains it: a scrobble that cannot be submitted to a service is     *)
(* queued for it, drains submit what is queued batch by batch and purge    *)
(* what is too old or was tried too often.                                 *)
(*                                                                         *)
(* Submissions can be accepted, refused, or accepted with the answer lost; *)
(* every store call can fail; the process can exit between any two steps.  *)
(* An entry stands for one play and one service.                           *)
(***************************************************************************)
EXTENDS Scheduler, SequencesExt

CONSTANTS
  Entries, Services,
  ServiceOf,    \* the service of each entry
  Batch,        \* entries a drain takes per service (50 or 1000)
  MaxAttempts,  \* 50
  Retry,        \* the scrobble_retry job
  MaxSlips      \* bound on lost answers and failed deletes, per entry

ASSUME ServiceOfAssumption == ServiceOf \in [Entries -> Services]
ASSUME RetryAssumption == Retry \in Jobs
ASSUME BoundsAssumption ==
  Batch \in Nat \ {0} /\ MaxAttempts \in Nat \ {0} /\ MaxSlips \in Nat

VARIABLES
  queue,     \* rows of scrobble_queue
  before,    \* their order by queued_at: pairs of an earlier and a later one
  attempts,
  old,       \* queued_at is more than 14 days ago
  enabled,   \* services enabled and verified
  drain,     \* per goroutine: what DrainQueue is about to do
  fate,      \* history: where an entry is or how it ended
  copies,    \* history: how often its service recorded it
  slips      \* history: how often the program could not know that it did

rows      == <<queue, before>>
tableVars == <<rows, attempts, old, enabled>>
history   == <<fate, copies, slips>>
vars == <<schedulerVars, tableVars, drain, history>>

NoDrain == [pc |-> "begin", svcs |-> {}, todo |-> <<>>, ok |-> FALSE]

Drains  == [pc : {"begin", "service", "submit", "settle"}, svcs : SUBSET Services,
            todo : Seq(Entries), ok : BOOLEAN]

TypeOK ==
  /\ SchedulerTypeOK
  /\ queue \subseteq Entries /\ before \subseteq queue \X queue
  /\ attempts \in [Entries -> 0 .. MaxAttempts]
  /\ old \in [Entries -> BOOLEAN] /\ enabled \subseteq Services
  /\ drain \in [{1, 2} -> Drains]
  /\ \A n \in {1, 2} : /\ Len(drain[n].todo) <= Batch
                       /\ drain[n] # NoDrain => n \in active[Retry]
  /\ fate \in [Entries -> {"new", "queued", "delivered", "dropped", "lost"}]
  /\ copies \in [Entries -> Nat] /\ slips \in [Entries -> Nat]

Init ==
  /\ SchedulerInit
  /\ queue = {} /\ before = {} /\ attempts = [e \in Entries |-> 0]
  /\ old = [e \in Entries |-> FALSE] /\ enabled \in SUBSET Services
  /\ drain = [n \in {1, 2} |-> NoDrain]
  /\ fate = [e \in Entries |-> "new"]
  /\ copies = [e \in Entries |-> 0] /\ slips = [e \in Entries |-> 0]

-----------------------------------------------------------------------------
(* Submissions and the world around                                         *)

\* the context of the jobs still lets calls through
Up == phase \notin {"down", "cancelled"}

Delete(es) ==
  /\ queue' = queue \ es
  /\ before' = {p \in before : p[1] \notin es /\ p[2] \notin es}

Slip(e) == slips' = [slips EXCEPT ![e] = @ + 1]

\* scrobbleLastFM and scrobbleListenBrainz: ok tells the caller, the service may
\* have recorded a scrobble whose answer is lost
Submitted(e, ok) ==
  \/ /\ ok
     /\ copies' = [copies EXCEPT ![e] = @ + 1] /\ UNCHANGED slips
  \/ ~ok /\ UNCHANGED <<copies, slips>>
  \/ /\ ~ok /\ slips[e] < MaxSlips
     /\ copies' = [copies EXCEPT ![e] = @ + 1] /\ Slip(e)

\* a play, for a service that is enabled then; when neither the submission nor
\* the queueing succeeds only the log tells
Scrobble(e) ==
  /\ phase # "down" /\ fate[e] = "new" /\ ServiceOf[e] \in enabled
  /\ \/ /\ Submitted(e, TRUE)
        /\ fate' = [fate EXCEPT ![e] = "delivered"]
        /\ UNCHANGED rows
     \/ /\ Submitted(e, FALSE)
        /\ \/ /\ queue' = queue \cup {e} /\ before' = before \cup (queue \X {e})
              /\ fate' = [fate EXCEPT ![e] = "queued"]
           \/ /\ fate' = [fate EXCEPT ![e] = "lost"]
              /\ UNCHANGED rows
  /\ UNCHANGED <<schedulerVars, attempts, old, enabled, drain>>

SetService(s) ==
  /\ enabled' = IF s \in enabled THEN enabled \ {s} ELSE enabled \cup {s}
  /\ UNCHANGED <<schedulerVars, rows, attempts, old, drain, history>>

FourteenDays(e) ==
  /\ fate[e] = "queued" /\ ~old[e]
  /\ old' = [old EXCEPT ![e] = TRUE]
  /\ UNCHANGED <<schedulerVars, rows, attempts, enabled, drain, history>>

-----------------------------------------------------------------------------
(* DrainQueue, in the goroutine n of the job                                *)

At(n, pc) == n \in active[Retry] /\ drain[n].pc = pc

\* on to the next entry of the batch, or the next service
Onward(n, svcs, todo) ==
  drain' = [drain EXCEPT ![n] = [pc |-> IF todo = <<>> THEN "service" ELSE "submit",
                                 svcs |-> svcs, todo |-> todo, ok |-> FALSE]]

ListAllEnabledServices(n) ==
  /\ At(n, "begin") /\ Up
  /\ Onward(n, enabled, <<>>)
  /\ UNCHANGED <<schedulerVars, tableVars, history>>

\* without the services the drain ends, and purges nothing
ListServicesFails(n) ==
  /\ At(n, "begin")
  /\ Returned(Retry, n)
  /\ UNCHANGED <<tableVars, drain, history>>

\* Mutant: the number of attempts is not looked at.
Pending_AnyAttempts(s, sameDay) ==
  {e \in queue : ServiceOf[e] = s /\ (old[e] => e \in sameDay)}

\* queued_at ("...T...") and datetime('now', '-14 days') ("... ...") are compared
\* as text, so an entry is still pending for the rest of its last day
Pending(s, sameDay) ==
  {e \in queue : ServiceOf[e] = s /\ attempts[e] < MaxAttempts /\ (old[e] => e \in sameDay)}

\* ORDER BY queued_at LIMIT Batch
Oldest(pending) ==
  {b \in SeqOf(pending, Batch) :
     /\ IsInjective(b)
     /\ \A i, j \in DOMAIN b : i < j => <<b[i], b[j]>> \in before
     /\ \A i \in DOMAIN b, e \in pending \ Range(b) : <<b[i], e>> \in before
     /\ Len(b) = Batch \/ Range(b) = pending}

\* the services come in an order that does not matter
ListPendingByService(n) ==
  /\ At(n, "service")
  /\ \E s \in drain[n].svcs, sameDay \in SUBSET {e \in Entries : old[e]} :
       \/ Up /\ \E batch \in Oldest(Pending(s, sameDay)) :
                  Onward(n, drain[n].svcs \ {s}, batch)
       \/ Onward(n, drain[n].svcs \ {s}, <<>>)   \* the query fails
  /\ UNCHANGED <<schedulerVars, tableVars, history>>

Submit(n) ==
  /\ At(n, "submit")
  /\ \E ok \in BOOLEAN :
       /\ ok => Up
       /\ Submitted(Head(drain[n].todo), ok)
       /\ drain' = [drain EXCEPT ![n].pc = "settle", ![n].ok = ok]
  /\ UNCHANGED <<schedulerVars, tableVars, fate>>

\* Mutant: deleted whatever the service said.
DeleteQueueEntry_AnyAnswer(n) ==
  LET e == Head(drain[n].todo) IN
  /\ At(n, "settle") /\ Up
  /\ Delete({e})
  /\ fate'  = [fate EXCEPT ![e] = "delivered"]
  /\ Onward(n, drain[n].svcs, Tail(drain[n].todo))
  /\ UNCHANGED <<schedulerVars, attempts, old, enabled, copies, slips>>

DeleteQueueEntry(n) ==
  LET e == Head(drain[n].todo) IN
  /\ At(n, "settle") /\ drain[n].ok /\ Up
  /\ Delete({e})
  /\ fate'  = [fate EXCEPT ![e] = "delivered"]
  /\ Onward(n, drain[n].svcs, Tail(drain[n].todo))
  /\ UNCHANGED <<schedulerVars, attempts, old, enabled, copies, slips>>

IncrementAttempts(n) ==
  LET e == Head(drain[n].todo) IN
  /\ At(n, "settle") /\ ~drain[n].ok /\ Up
  /\ attempts' = [attempts EXCEPT ![e] = @ + 1]
  /\ Onward(n, drain[n].svcs, Tail(drain[n].todo))
  /\ UNCHANGED <<schedulerVars, rows, old, enabled, history>>

\* the delete or the update fails: logged, and the entry stays as it is
SettleFails(n) ==
  LET e == Head(drain[n].todo) IN
  /\ At(n, "settle")
  /\ IF drain[n].ok THEN slips[e] < MaxSlips /\ Slip(e) ELSE UNCHANGED slips
  /\ Onward(n, drain[n].svcs, Tail(drain[n].todo))
  /\ UNCHANGED <<schedulerVars, tableVars, fate, copies>>

Stale(e) == attempts[e] >= MaxAttempts \/ old[e]

PurgeStaleQueue(n) ==
  /\ At(n, "service") /\ drain[n].svcs = {} /\ Up
  /\ Delete({e \in queue : Stale(e)})
  /\ fate'  = [e \in Entries |-> IF fate[e] = "queued" /\ Stale(e) THEN "dropped" ELSE fate[e]]
  /\ Returned(Retry, n)
  /\ drain' = [drain EXCEPT ![n] = NoDrain]
  /\ UNCHANGED <<attempts, old, enabled, copies, slips>>

PurgeFails(n) ==
  /\ At(n, "service") /\ drain[n].svcs = {}
  /\ Returned(Retry, n)
  /\ drain' = [drain EXCEPT ![n] = NoDrain]
  /\ UNCHANGED <<tableVars, history>>

DrainQueue(n) ==
  \/ ListAllEnabledServices(n) \/ ListServicesFails(n) \/ ListPendingByService(n)
  \/ Submit(n) \/ DeleteQueueEntry(n) \/ IncrementAttempts(n) \/ SettleFails(n)
  \/ PurgeStaleQueue(n) \/ PurgeFails(n)

\* an exit after the service has recorded an entry and before it is deleted
ExitInDrain ==
  /\ Exit
  /\ drain' = [n \in {1, 2} |-> NoDrain]
  /\ slips' = [e \in Entries |-> slips[e] +
       Cardinality({n \in {1, 2} : At(n, "settle") /\ drain[n].ok /\ Head(drain[n].todo) = e})]
  /\ UNCHANGED <<tableVars, fate, copies>>

OtherJob(j) == j # Retry /\ \E n \in {1, 2} : Returned(j, n)

Next ==
  \/ Scheduling /\ UNCHANGED <<tableVars, drain, history>>
  \/ ExitInDrain
  \/ \E j \in Jobs : OtherJob(j) /\ UNCHANGED <<tableVars, drain, history>>
  \/ \E n \in {1, 2} : DrainQueue(n)
  \/ \E e \in Entries : Scrobble(e) \/ FourteenDays(e)
  \/ \E s \in Services : SetService(s)

\* The goroutines get on: store calls return and a submission has a timeout of 30
\* seconds.  A query or a purge that is repeated for ever does not fail for ever.
\* Other jobs may hang, services may refuse for ever, nobody has to play a song.
Fairness ==
  /\ WF_vars((Register \/ catchUp \/ tick \/ Minute) /\ UNCHANGED <<tableVars, drain, history>>)
  /\ WF_vars(phase = "cancelled" /\ ExitInDrain)
  /\ WF_vars(\E n \in {1, 2} : DrainQueue(n))
  /\ SF_vars(\E n \in {1, 2} : ListAllEnabledServices(n))
  /\ SF_vars(\E n \in {1, 2} : PurgeStaleQueue(n))
  /\ \A e \in Entries : WF_vars(FourteenDays(e))

Spec == Init /\ [][Next]_vars /\ Fairness

-----------------------------------------------------------------------------
(* Properties                                                               *)

\* An entry leaves the queue once its service has recorded it, or after 14 days or
\* 50 attempts ("dropped after 14 days or 50 attempts"); and its service gets it
\* again only for a reason the program cannot see: an answer that was lost, a
\* delete that failed, or an exit before the delete.
DeliveryKept ==
  \A e \in Entries :
    /\ (fate[e] \in {"delivered", "dropped"} /\ ~Stale(e)) => copies[e] > 0
    /\ copies[e] <= 1 + slips[e]

\* A queued scrobble does not stay for ever, even when its service refuses it or is
\* switched off, other entries stand before it, and other jobs hang.
EveryEntryLeaves == \A e \in Entries : fate[e] = "queued" ~> fate[e] # "queued"
=============================================================================
