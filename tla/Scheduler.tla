----------------------------- MODULE Scheduler -----------------------------
(***************************************************************************)
(* The spawn scheduler (internal/scheduler): worker goroutines take jobs   *)
(* from the queue under per-session, per-agent and global limits and run   *)
(* them; failed jobs come back after a delay; resource errors shrink an    *)
(* agent's cap and pause the whole queue for a while.                      *)
(*                                                                         *)
(* Each step is what one goroutine does under one lock, or under several   *)
(* with nothing in between that another goroutine can tell apart.  One     *)
(* simplification: TryDequeue lists the queue and removes its choice under *)
(* two holds of the queue's lock, and TakeJob is both; a choice cancelled  *)
(* in between only sends the worker away without a job (queue.go:491).     *)
(* Time is abstracted to the firing of timers.  AgentCaps.Acquire, SetCap  *)
(* and the resets, which nothing in the program calls, are left out: so    *)
(* there are no waiters to notify.                                         *)
(***************************************************************************)
EXTENDS JobQueue

CONSTANTS
    Workers,         \* the worker goroutines
    AgentTypes,      \* agent types with a cap; "" stands for none
    CapOf,           \* their AgentCapConfig
    GlobalMax,       \* AgentCapsConfig.GlobalMax, 0 for no limit
    MaxPerSession,   \* FairSchedulerConfig.MaxPerSession, 0 for no limit
    MaxPerBatch,     \* FairSchedulerConfig.MaxPerBatch, 0 for no limit
    BackoffRetries,  \* BackoffConfig.MaxRetries
    FailureThreshold,\* BackoffConfig.ConsecutiveFailuresThreshold
    MaxCompleted,    \* Config.MaxCompleted
    Outcomes,        \* what an executor may return: "ok", "error", "resource"
    Calls            \* the calls clients make beside Submit

ASSUME SchedulerAssumption ==
    /\ IsFiniteSet(Workers) /\ IsFiniteSet(AgentTypes) /\ "" \notin AgentTypes
    /\ \A j \in Jobs : Agent(j) \in AgentTypes \cup {""}
    /\ \A a \in AgentTypes :
         /\ CapOf[a].max \in Nat \ {0} /\ CapOf[a].initial \in 1 .. CapOf[a].max
         /\ CapOf[a].reduction \in Nat /\ {CapOf[a].ramp, CapOf[a].cooldown} \subseteq BOOLEAN
    /\ {GlobalMax, MaxPerSession, MaxPerBatch, BackoffRetries, MaxCompleted} \subseteq Nat
    /\ FailureThreshold \in Nat \ {0}
    /\ Outcomes \subseteq {"ok", "error", "resource"}
    /\ Calls \subseteq {"pause", "cancel", "cancelSession", "cancelBatch", "stop", "restart"}

VARIABLES
    queue,      \* the job queue
    job,        \* job[j]: its status, retries, whether its context is cancelled, reports
    fair,       \* FairScheduler.running: jobs counted as running per session
    ac,         \* AgentCaps: slots taken, effective caps, cooldowns
    bo,         \* BackoffController: failures in a row, global backoff, its timers
    running,    \* Scheduler.running
    completed,  \* Scheduler.completed
    retrying,   \* jobs whose retry timer is set
    worker,     \* worker[w]: where the goroutine is, its job, what is left to scan
    life        \* what Start and Stop have done; whether paused, and by whom last

schedVars == <<queue, job, fair, ac, bo, running, completed, retrying, worker, life>>

Sessions == {Session(j) : j \in Jobs}
Idling == [at |-> "idle", job |-> "", rest |-> <<>>, result |-> ""]

-----------------------------------------------------------------------------
(* Per-agent caps (caps.go).                                               *)

SlotsTaken == Cardinality(UNION {{a} \X (1 .. ac.slots[a]) : a \in AgentTypes})

(* The cap after updateRampUp: once the first instance has started it may  *)
(* have grown by any number of steps.                                      *)
RampedCaps(a) ==
    {ac.cap[a]} \cup IF CapOf[a].ramp /\ a \in ac.begun THEN ac.cap[a] .. CapOf[a].max ELSE {}

AtCapacity(a, cap) == ac.slots[a] >= cap \/ (GlobalMax > 0 /\ SlotsTaken >= GlobalMax)

(* AgentCaps.TryAcquire, and its failure.  A job without type needs none.  *)
CapAcquire(a) ==
    IF a = "" THEN UNCHANGED ac
    ELSE \E cap \in RampedCaps(a) :
           /\ ~AtCapacity(a, cap)
           /\ ac' = [ac EXCEPT !.cap[a] = cap, !.slots[a] = @ + 1, !.begun = @ \cup {a}]

CapMiss(a) ==
    /\ a # ""
    /\ \E cap \in RampedCaps(a) : AtCapacity(a, cap) /\ ac' = [ac EXCEPT !.cap[a] = cap]

SlotReleased(caps, a) ==
    IF a = "" \/ caps.slots[a] = 0 THEN caps ELSE [caps EXCEPT !.slots[a] = @ - 1]

Larger(x, y) == IF x > y THEN x ELSE y

(* RecordFailure: the cap shrinks, but not below 1, until a timer fires.   *)
FailureRecorded(caps, a) ==
    IF a = "" \/ ~CapOf[a].cooldown THEN caps
    ELSE [caps EXCEPT !.cap[a] = IF @ > 1 THEN Larger(@ - CapOf[a].reduction, 1) ELSE @,
                      !.cooling = @ \cup {a}, !.aged = @ \ {a}, !.recoveries[a] = @ + 1]

(* RecordSuccess during a cooldown dates it back, so the next timer ends it. *)
SuccessRecorded(caps, a) ==
    IF a \in caps.cooling THEN [caps EXCEPT !.aged = @ \cup {a}] ELSE caps

(* recoverFromCooldown: an earlier timer finds the cooldown too young.     *)
CooldownTimer(a) ==
    /\ ac.recoveries[a] > 0
    /\ LET fired == [ac EXCEPT !.recoveries[a] = @ - 1]
           over == [fired EXCEPT !.cooling = @ \ {a}, !.aged = @ \ {a}]
       IN  \/ /\ a \notin ac.cooling \/ (ac.recoveries[a] > 1 /\ a \notin ac.aged)
              /\ ac' = fired
           \/ /\ a \in ac.cooling
              /\ IF CapOf[a].ramp
                 THEN \E cap \in RampedCaps(a) : ac' = [over EXCEPT !.cap[a] = cap]
                 ELSE ac' = [over EXCEPT !.cap[a] = CapOf[a].max]
    /\ UNCHANGED <<queue, job, fair, bo, running, completed, retrying, worker, life>>

-----------------------------------------------------------------------------
(* Backoff (backoff.go): failures in a row pause the queue.                *)

QueueResumed(l) == [l EXCEPT !.paused = FALSE]

(* recordSuccess: ends a global backoff, and the pause with it.            *)
BackoffReset ==
    /\ bo' = [bo EXCEPT !.failures = 0, !.active = FALSE]
    /\ life' = IF bo.active THEN QueueResumed(life) ELSE life

(* JobFails of a retryable error: from the threshold on the scheduler   *)
(* is paused, and a goroutine sleeps until the backoff ends.  A job with   *)
(* no retries left starts no backoff.                                      *)
BackoffError(j) ==
    LET failures == IF bo.failures < FailureThreshold THEN bo.failures + 1 ELSE bo.failures
        begins == /\ job[j].retries < BackoffRetries
                  /\ failures >= FailureThreshold /\ ~bo.active
    IN  /\ bo' = [failures |-> failures, active |-> bo.active \/ begins,
                  timers |-> IF begins THEN bo.timers + 1 ELSE bo.timers]
        /\ life' = IF begins THEN [life EXCEPT !.paused = TRUE] ELSE life

(* endGlobalBackoff.                                                       *)
BackoffTimer ==
    /\ bo.timers > 0
    /\ bo' = [bo EXCEPT !.timers = @ - 1, !.active = FALSE]
    /\ life' = IF bo.active THEN QueueResumed(life) ELSE life
    /\ UNCHANGED <<queue, job, fair, ac, running, completed, retrying, worker>>

-----------------------------------------------------------------------------
(* Workers (scheduler.go).                                                 *)

EndedStatus == {"completed", "failed", "cancelled"}

WorkerAt(w, place) == worker[w].at = place
WorkerGoto(w, place) == worker' = [worker EXCEPT ![w].at = place]
WorkerHolds(w, j, place) ==
    worker' = [worker EXCEPT ![w] = [at |-> place, job |-> j, rest |-> <<>>, result |-> ""]]
WorkerDone(w) == worker' = [worker EXCEPT ![w] = Idling]

JobMarked(status, j) == [job EXCEPT ![j].status = status]

(* A notification or the tick of 100ms wakes a worker; it looks at the     *)
(* context and the pause flag before every job.                            *)
Poll(w) ==
    /\ WorkerAt(w, "idle") /\ ~life.ctxDone /\ ~life.paused
    /\ WorkerGoto(w, "take")
    /\ UNCHANGED <<queue, job, fair, ac, bo, running, completed, retrying, life>>

WorkerExit(w) ==
    /\ WorkerAt(w, "idle") /\ life.ctxDone
    /\ WorkerGoto(w, "gone")
    /\ UNCHANGED <<queue, job, fair, ac, bo, running, completed, retrying, life>>

(* FairScheduler.TryDequeue takes the first job in the slice whose session *)
(* and batch are below their limits.                                       *)
RunningQueued(b) ==
    Cardinality({k \in ToSet(queue.heap) : Batch(k) = b /\ job[k].status = "running"})

Eligible(j) ==
    /\ MaxPerSession > 0 => fair[Session(j)] < MaxPerSession
    /\ MaxPerBatch > 0 /\ Batch(j) # "" => RunningQueued(Batch(j)) < MaxPerBatch

(* Without a session limit nothing reads the counts; they are left alone.  *)
CountedIn(j) ==
    IF MaxPerSession = 0 THEN fair ELSE [fair EXCEPT ![Session(j)] = @ + 1]

CountedOut(j) ==
    IF MaxPerSession = 0 THEN fair
    ELSE [fair EXCEPT ![Session(j)] = IF @ > 0 THEN @ - 1 ELSE 0]

Candidates == SelectSeq(queue.heap, Eligible)

(* The first candidate is gone from the index: it blocks what is behind it. *)
Ghost == Candidates # <<>> /\ Head(Candidates) \notin queue.byID

TakeNothing(w) ==
    /\ WorkerAt(w, "take")
    /\ Candidates = <<>> \/ Ghost
    /\ WorkerDone(w)
    /\ UNCHANGED <<queue, job, fair, ac, bo, running, completed, retrying, life>>

TakeJob(w) ==
    /\ WorkerAt(w, "take")
    /\ Candidates # <<>> /\ ~Ghost
    /\ LET j == Head(Candidates) IN
         /\ queue' = RemoveJob(queue, j)
         /\ fair' = CountedIn(j)
         /\ WorkerHolds(w, j, "admit")
    /\ UNCHANGED <<job, ac, bo, running, completed, retrying, life>>

AdmitJob(w) ==
    /\ WorkerAt(w, "admit")
    /\ CapAcquire(Agent(worker[w].job))
    /\ WorkerGoto(w, "limit")
    /\ UNCHANGED <<queue, job, fair, bo, running, completed, retrying, life>>

AdmitMiss(w) ==
    /\ WorkerAt(w, "admit")
    /\ CapMiss(Agent(worker[w].job))
    /\ WorkerGoto(w, "requeue")
    /\ UNCHANGED <<queue, job, fair, bo, running, completed, retrying, life>>

(* Back into the queue, still counted as running for its session; then     *)
(* findJobWithAvailableCap goes through a copy of the slice.               *)
Requeue(w) ==
    /\ WorkerAt(w, "requeue")
    /\ queue' = Enqueue(queue, worker[w].job)
    /\ worker' = [worker EXCEPT ![w] = [Idling EXCEPT !.at = "scan", !.rest = queue'.heap]]
    /\ UNCHANGED <<job, fair, ac, bo, running, completed, retrying, life>>

ScanEnd(w) ==
    /\ WorkerAt(w, "scan") /\ worker[w].rest = <<>>
    /\ WorkerDone(w)
    /\ UNCHANGED <<queue, job, fair, ac, bo, running, completed, retrying, life>>

ScanMiss(w) ==
    /\ WorkerAt(w, "scan") /\ worker[w].rest # <<>>
    /\ CapMiss(Agent(Head(worker[w].rest)))
    /\ worker' = [worker EXCEPT ![w].rest = Tail(@)]
    /\ UNCHANGED <<queue, job, fair, bo, running, completed, retrying, life>>

ScanAcquire(w) ==
    /\ WorkerAt(w, "scan") /\ worker[w].rest # <<>>
    /\ CapAcquire(Agent(Head(worker[w].rest)))
    /\ worker' = [worker EXCEPT ![w].at = "claim", ![w].job = Head(worker[w].rest),
                                ![w].rest = Tail(@)]
    /\ UNCHANGED <<queue, job, fair, bo, running, completed, retrying, life>>

(* Variant: the job found is run even if the queue no longer has it.       *)
ScanClaim_Unchecked(w) ==
    /\ WorkerAt(w, "claim")
    /\ queue' = RemoveJob(queue, worker[w].job)
    /\ WorkerHolds(w, worker[w].job, "limit")
    /\ UNCHANGED <<job, fair, ac, bo, running, completed, retrying, life>>

(* The job found may have left the queue since the copy was made.  One     *)
(* that is taken here is not counted for its session.                      *)
ScanClaim(w) ==
    /\ WorkerAt(w, "claim")
    /\ LET j == worker[w].job IN
         IF j \in queue.byID
         THEN /\ queue' = RemoveJob(queue, j)
              /\ WorkerHolds(w, j, "limit")
              /\ UNCHANGED ac
         ELSE /\ ac' = SlotReleased(ac, Agent(j))
              /\ worker' = [worker EXCEPT ![w].at = "scan", ![w].job = ""]
              /\ UNCHANGED queue
    /\ UNCHANGED <<job, fair, bo, running, completed, retrying, life>>

(* The two rate limiters let the job through sooner or later; once the     *)
(* context is done they may also refuse, and the job goes back.            *)
StartJob(w) ==
    /\ WorkerAt(w, "limit")
    /\ job' = JobMarked("running", worker[w].job)
    /\ running' = running \cup {worker[w].job}
    /\ WorkerGoto(w, "run")
    /\ UNCHANGED <<queue, fair, ac, bo, completed, retrying, life>>

LimitRefuses(w) ==
    /\ WorkerAt(w, "limit") /\ life.ctxDone
    /\ ac' = SlotReleased(ac, Agent(worker[w].job))
    /\ queue' = Enqueue(queue, worker[w].job)
    /\ WorkerDone(w)
    /\ UNCHANGED <<job, fair, bo, running, completed, retrying, life>>

(* The executor returns; the job leaves the running map and MarkComplete   *)
(* counts it out of its session.                                           *)
ExecutorReturns(w) ==
    /\ WorkerAt(w, "run")
    /\ \E result \in Outcomes : worker' = [worker EXCEPT ![w].at = "ran", ![w].result = result]
    /\ running' = running \ {worker[w].job}
    /\ fair' = CountedOut(worker[w].job)
    /\ UNCHANGED <<queue, job, ac, bo, completed, retrying, life>>

JobSucceeds(w) ==
    /\ WorkerAt(w, "ran") /\ worker[w].result = "ok"
    /\ job' = JobMarked("completed", worker[w].job)
    /\ BackoffReset
    /\ ac' = SlotReleased(SuccessRecorded(ac, Agent(worker[w].job)), Agent(worker[w].job))
    /\ WorkerGoto(w, "report")
    /\ UNCHANGED <<queue, fair, running, completed, retrying>>

IsCancelled(j) == job[j].cancelled \/ job[j].status = "cancelled"

JobCancelled(w) ==
    /\ WorkerAt(w, "ran") /\ worker[w].result # "ok" /\ IsCancelled(worker[w].job)
    /\ job' = JobMarked("cancelled", worker[w].job)
    /\ ac' = SlotReleased(ac, Agent(worker[w].job))
    /\ WorkerGoto(w, "report")
    /\ UNCHANGED <<queue, fair, bo, running, completed, retrying, life>>

(* handleJobError: an error that is no resource error resets the backoff.  *)
JobFails(w) ==
    /\ WorkerAt(w, "ran") /\ worker[w].result # "ok" /\ ~IsCancelled(worker[w].job)
    /\ LET j == worker[w].job
           resource == worker[w].result = "resource"
           recorded == IF resource THEN FailureRecorded(ac, Agent(j)) ELSE ac
           mayRetry == /\ resource => job[j].retries < BackoffRetries
                       /\ job[j].retries < JobSpec[j].maxRetries
       IN  /\ IF resource THEN BackoffError(j) ELSE BackoffReset
           /\ ac' = SlotReleased(recorded, Agent(j))
           /\ IF mayRetry
              THEN /\ job' = [job EXCEPT ![j].retries = @ + 1, ![j].status = "retrying"]
                   /\ retrying' = retrying \cup {j}
                   /\ WorkerDone(w)
              ELSE /\ job' = JobMarked("failed", j)
                   /\ WorkerGoto(w, "report")
                   /\ UNCHANGED retrying
    /\ UNCHANGED <<queue, fair, running, completed>>

Trimmed(s) == IF Len(s) > MaxCompleted THEN SubSeq(s, Len(s) - MaxCompleted + 1, Len(s)) ELSE s

(* addToCompleted and the job's callback.                                  *)
ReportJob(w) ==
    /\ WorkerAt(w, "report")
    /\ completed' = Trimmed(Append(completed, worker[w].job))
    /\ job' = [job EXCEPT ![worker[w].job].reports = @ + 1]
    /\ WorkerDone(w)
    /\ UNCHANGED <<queue, fair, ac, bo, running, retrying, life>>

(* Variant: the job is pending again and in no queue.                      *)
RetryTimer_NotQueued(j) ==
    /\ j \in retrying
    /\ retrying' = retrying \ {j}
    /\ job' = JobMarked("pending", j)
    /\ UNCHANGED <<queue, fair, ac, bo, running, completed, worker, life>>

(* The retry timer makes the job pending whatever became of it meanwhile.  *)
RetryTimer(j) ==
    /\ j \in retrying
    /\ retrying' = retrying \ {j}
    /\ job' = JobMarked("pending", j)
    /\ queue' = Enqueue(queue, j)
    /\ UNCHANGED <<fair, ac, bo, running, completed, worker, life>>

-----------------------------------------------------------------------------
(* Clients.                                                                *)

(* Submit is refused until Start and after Stop; MaxRetries 0 has become   *)
(* the default.  A batch is the submission of its jobs one after another.  *)
Submit(j) ==
    /\ life.started /\ job[j].status = "new"
    /\ job' = JobMarked("pending", j)
    /\ queue' = Enqueue(queue, j)
    /\ UNCHANGED <<fair, ac, bo, running, completed, retrying, worker, life>>

(* SpawnJob.Cancel: a pending job is cancelled at once, a running one when *)
(* its executor notices the context.                                       *)
CancelledJobs(S) ==
    [j \in Jobs |->
       IF j \notin S THEN job[j]
       ELSE [job[j] EXCEPT !.cancelled = TRUE,
                           !.status = IF @ = "pending" THEN "cancelled" ELSE @]]

(* Scheduler.Cancel finds a job in the queue or in the running map: one in *)
(* a retry delay, or in the hands of a worker before it runs, is missed.   *)
Cancel(j) ==
    /\ "cancel" \in Calls
    /\ j \in queue.byID \cup running
    /\ queue' = RemoveJob(queue, j)
    /\ job' = CancelledJobs({j})
    /\ UNCHANGED <<fair, ac, bo, running, completed, retrying, worker, life>>

CancelMany(S) ==
    /\ (ToSet(queue.heap) \cup running) \cap S # {}
    /\ queue' = RemoveAll(queue, S)
    /\ job' = CancelledJobs((ToSet(queue.heap) \cup running) \cap S)
    /\ UNCHANGED <<fair, ac, bo, running, completed, retrying, worker, life>>

CancelSession(s) == "cancelSession" \in Calls /\ CancelMany({j \in Jobs : Session(j) = s})

CancelBatch(b) ==
    "cancelBatch" \in Calls /\ b # "" /\ CancelMany({j \in Jobs : Batch(j) = b})

Pause ==
    /\ "pause" \in Calls
    /\ life' = [life EXCEPT !.paused = TRUE, !.held = TRUE]
    /\ UNCHANGED <<queue, job, fair, ac, bo, running, completed, retrying, worker>>

Resume ==
    /\ "pause" \in Calls
    /\ life' = [life EXCEPT !.paused = FALSE, !.held = FALSE]
    /\ UNCHANGED <<queue, job, fair, ac, bo, running, completed, retrying, worker>>

AllGone == \A w \in Workers : WorkerAt(w, "gone")

(* Start launches the workers.  After a Stop it succeeds again, but the    *)
(* context stays cancelled: the workers leave at once.                     *)
StartScheduler ==
    /\ ~life.started
    /\ life.ctxDone => "restart" \in Calls
    /\ life' = [life EXCEPT !.started = TRUE]
    /\ worker' = [w \in Workers |-> Idling]
    /\ UNCHANGED <<queue, job, fair, ac, bo, running, completed, retrying>>

Stop ==
    /\ "stop" \in Calls
    /\ life.started /\ ~life.ctxDone
    /\ life' = [life EXCEPT !.ctxDone = TRUE]
    /\ UNCHANGED <<queue, job, fair, ac, bo, running, completed, retrying, worker>>

(* Stop returns when every worker has left.                                *)
Stopped ==
    /\ life.ctxDone /\ life.started /\ AllGone
    /\ life' = [life EXCEPT !.started = FALSE]
    /\ UNCHANGED <<queue, job, fair, ac, bo, running, completed, retrying, worker>>

-----------------------------------------------------------------------------

SchedInit ==
    /\ queue = EmptyQueue
    /\ job = [j \in Jobs |-> [status |-> "new", retries |-> 0, cancelled |-> FALSE, reports |-> 0]]
    /\ fair = [s \in Sessions |-> 0]
    /\ ac = [slots |-> [a \in AgentTypes |-> 0],
             cap |-> [a \in AgentTypes |-> IF CapOf[a].ramp THEN CapOf[a].initial ELSE CapOf[a].max],
             begun |-> {}, cooling |-> {}, aged |-> {},
             recoveries |-> [a \in AgentTypes |-> 0]]
    /\ bo = [failures |-> 0, active |-> FALSE, timers |-> 0]
    /\ running = {} /\ completed = <<>> /\ retrying = {}
    /\ worker = [w \in Workers |-> [Idling EXCEPT !.at = "gone"]]
    /\ life = [started |-> FALSE, ctxDone |-> FALSE, paused |-> FALSE, held |-> FALSE]

WorkerStep(w) ==
    \/ Poll(w) \/ WorkerExit(w) \/ TakeNothing(w) \/ TakeJob(w)
    \/ AdmitJob(w) \/ AdmitMiss(w) \/ Requeue(w)
    \/ ScanEnd(w) \/ ScanMiss(w) \/ ScanAcquire(w) \/ ScanClaim(w)
    \/ StartJob(w) \/ LimitRefuses(w) \/ ExecutorReturns(w)
    \/ JobSucceeds(w) \/ JobCancelled(w) \/ JobFails(w) \/ ReportJob(w)

Timers ==
    \/ BackoffTimer
    \/ \E j \in Jobs : RetryTimer(j)
    \/ \E a \in AgentTypes : CooldownTimer(a)

Clients ==
    \/ \E j \in Jobs : Submit(j) \/ Cancel(j)
    \/ \E s \in Sessions : CancelSession(s)
    \/ \E b \in {Batch(j) : j \in Jobs} : CancelBatch(b)
    \/ Pause \/ Resume \/ StartScheduler \/ Stop \/ Stopped

SchedNext == (\E w \in Workers : WorkerStep(w)) \/ Timers \/ Clients

SchedSpec == SchedInit /\ [][SchedNext]_schedVars

(* Goroutines are scheduled, timers fire, executors return, and a limiter  *)
(* that refills lets a waiter through.  No client is obliged to call.      *)
SchedFairSpec ==
    /\ SchedSpec
    /\ \A w \in Workers : WF_schedVars(WorkerStep(w))
    /\ WF_schedVars(BackoffTimer)
    /\ \A j \in Jobs : WF_schedVars(RetryTimer(j))
    /\ \A a \in AgentTypes : WF_schedVars(CooldownTimer(a))

-----------------------------------------------------------------------------
(* Invariants.                                                             *)

Places == {"gone", "idle", "take", "admit", "requeue", "scan", "claim", "limit",
           "run", "ran", "report"}

SchedTypeOK ==
    /\ queue.heap \in Seq(Jobs) /\ queue.byID \subseteq Jobs
    /\ job \in [Jobs -> [status : EndedStatus \cup {"new", "pending", "running", "retrying"},
                         retries : Nat, cancelled : BOOLEAN, reports : Nat]]
    /\ fair \in [Sessions -> Nat]
    /\ ac.slots \in [AgentTypes -> Nat] /\ ac.cap \in [AgentTypes -> Nat \ {0}]
    /\ ac.aged \subseteq ac.cooling /\ ac.cooling \subseteq AgentTypes
    /\ bo.failures \in 0 .. FailureThreshold /\ bo.timers \in Nat
    /\ running \cup retrying \subseteq Jobs
    /\ Len(completed) <= MaxCompleted
    /\ \A w \in Workers : worker[w].at \in Places /\ worker[w].rest \in Seq(Jobs)

(* The jobs a worker holds: taken from the queue and neither put back nor  *)
(* reported.  A claim only has a slot reserved.                            *)
InHand(w) == worker[w].at \in {"admit", "requeue", "limit", "run", "ran"}
HasSlot(w) == worker[w].at \in {"claim", "limit", "run", "ran"}

(* A job is in one place at most, whatever cancels, retries and scans    *)
(* race for it: the queue, one worker's hands, a retry delay or its end.   *)
OnePlace ==
    /\ \A v, w \in Workers : InHand(v) /\ InHand(w) /\ v # w => worker[v].job # worker[w].job
    /\ \A w \in Workers : InHand(w) => worker[w].job \notin queue.byID \cup retrying
    /\ queue.byID \cap retrying = {}
    /\ \A j \in queue.byID \cup retrying : job[j].status \notin EndedStatus \cup {"new"}

(* Every slot counted for an agent is one that a worker holds: none leaks  *)
(* on a miss, a cancel, a lost claim, a retry or a stop.                   *)
SlotsExact ==
    \A a \in AgentTypes :
      ac.slots[a] = Cardinality({w \in Workers : HasSlot(w) /\ Agent(worker[w].job) = a})

(* The number of instances never passes the configured cap or the global   *)
(* one, through ramp-up, cooldown and recovery; and a cap never falls to 0.*)
CapsHold ==
    /\ GlobalMax > 0 => SlotsTaken <= GlobalMax
    /\ \A a \in AgentTypes : ac.slots[a] <= CapOf[a].max /\ ac.cap[a] \in 1 .. CapOf[a].max

(* A pause nobody asked for belongs to a backoff whose timer still runs.   *)
PauseExplained == life.paused => life.held \/ (bo.active /\ bo.timers > 0)

(* A job that ended is not brought back, and its callback runs at most once. *)
EndsOnce ==
    [][ \A j \in Jobs :
          /\ job[j].status \in EndedStatus => job'[j].status = job[j].status
          /\ job'[j].reports <= 1 ]_schedVars

(* No job is doubled or counted twice: it is in one place, its slot        *)
(* is held by the worker that has it, the caps hold meanwhile, and its end  *)
(* is final.                                                                *)
JobsAccounted == [](SchedTypeOK /\ OnePlace /\ SlotsExact /\ CapsHold /\ PauseExplained) /\ EndsOnce

(* A job that went back into the queue on a cap miss stays counted for its *)
(* session (scheduler.go:477-485).  When such counts alone reach the limit *)
(* nobody is left whose MarkComplete would lower them.                     *)
CountStuck(s) ==
    /\ MaxPerSession > 0 /\ fair[s] >= MaxPerSession
    /\ \A w \in Workers : InHand(w) => Session(worker[w].job) # s

(* Unless stopped, or paused by a client for good, the scheduler brings    *)
(* every job it accepted to an end, if the count of its session does not   *)
(* stay stuck (CountsRunning is why that is needed).  It does while fewer  *)
(* than six jobs are queued when a session or a batch is cancelled: see    *)
(* SliceIsIndexed.                                                         *)
JobsEnd ==
    ([]~life.ctxDone /\ <>[]~life.held) =>
      \A j \in Jobs :
        <>[]~CountStuck(Session(j)) =>
          (job[j].status = "pending" ~> job[j].status \in EndedStatus)

-----------------------------------------------------------------------------
(* Three statements of the code that it does not keep.                     *)

(* queue.go:425: "running tracks currently running jobs by session".  A    *)
(* cap miss leaves the session counted for a job that is queued again;     *)
(* with the default limit of three, three misses close the session.        *)
CountsRunning ==
    \A s \in Sessions :
      fair[s] <= Cardinality({w \in Workers : InHand(w) /\ Session(worker[w].job) = s})

(* queue.go:420: "maxPerSession limits jobs that can run per session at    *)
(* once".                                                                  *)
SessionLimitHolds ==
    MaxPerSession > 0 =>
      \A s \in Sessions : Cardinality({j \in running : Session(j) = s}) <= MaxPerSession

(* queue.go:338, of CancelSession: "Remove in reverse order to maintain    *)
(* indices".  The element that takes a removed place may rise to a noted   *)
(* one, and is removed in place of the job noted there: then it waits in   *)
(* the index for ever, and the cancelled job blocks what is behind it.     *)
SliceIsIndexed == queue.byID = ToSet(queue.heap)

=============================================================================
