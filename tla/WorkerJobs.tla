------------------------------ MODULE WorkerJobs ------------------------------
(***************************************************************************)
(* The PostgreSQL job queue: worker_jobs with the guarded functions        *)
(* claim_worker_job (migration 0001), complete_worker_job and              *)
(* fail_worker_job (migration 0002), called by worker processes that may   *)
(* be slow, die, or outlive their lease.  Rows are locked for the length   *)
(* of a call (FOR UPDATE SKIP LOCKED in the claim), so a call is one step. *)
(*                                                                         *)
(* Time is what the queue can tell of it: a lease is live or expired, a    *)
(* retry is due or not.  The order of the claim (available_at, created_at) *)
(* is abstracted to any eligible row, which SKIP LOCKED allows anyway.     *)
(***************************************************************************)
EXTENDS JobStates

CONSTANTS Job,      \* rows of worker_jobs
          NoJob

ASSUME QueueAssumption == NoJob \notin Job

VARIABLES job,      \* job[j]: status, attempts and locked_by of row j
          lease,    \* lease[j]: "none" when not RUNNING, else "live" or "expired"
          due,      \* the jobs whose available_at has passed
          held,     \* held[w]: the job worker w is busy with, and the attempt
          runs      \* history: how often work on j was started

vars == <<job, lease, due, held, runs>>

Idle == [job |-> NoJob, attempt |-> 0]

TypeOK ==
    /\ job \in [Job -> JobState]
    /\ lease \in [Job -> {"none", "live", "expired"}]
    /\ due \subseteq Job
    /\ held \in [Worker -> [job : Job \cup {NoJob}, attempt : 0..MaxAttempts]]
    /\ runs \in [Job -> Nat]

Init ==
    /\ job = [j \in Job |-> NewJob]
    /\ lease = [j \in Job |-> "none"]
    /\ due = Job
    /\ held = [w \in Worker |-> Idle]
    /\ runs = [j \in Job |-> 0]

-----------------------------------------------------------------------------
\* Waiting for a worker: never run, to be retried, or run by a worker whose
\* lease is over.
Claimable(j) ==
    \/ job[j].status \in {"PENDING", "RETRY"}
    \/ job[j].status = "RUNNING" /\ lease[j] = "expired"

\* The first UPDATE of the claim: spent jobs become dead letters.
Spent == {j \in Job : job[j].attempts >= MaxAttempts /\ Claimable(j)}

Eligible == {j \in due : job[j].attempts < MaxAttempts /\ Claimable(j)}

Swept(j) == [job[j] EXCEPT !.status = "DEAD_LETTERED", !.locked_by = NoWorker]

\* Only jobs that were never handed out or given back are claimed.
claim_idle_jobs_only(w) ==
    /\ held[w] = Idle
    /\ \E j \in due :
          /\ CanClaim(job[j])
          /\ job' = [job EXCEPT ![j] = claim(@, w)]
          /\ lease' = [lease EXCEPT ![j] = "live"]
          /\ held' = [held EXCEPT ![w] = [job |-> j, attempt |-> job[j].attempts + 1]]
          /\ runs' = [runs EXCEPT ![j] = @ + 1]
    /\ UNCHANGED due

\* A claim without the sweep and the budget check.
claim_over_budget(w) ==
    /\ held[w] = Idle
    /\ \E j \in due :
          /\ Claimable(j)
          /\ job' = [job EXCEPT ![j] = claim(@, w)]
          /\ lease' = [lease EXCEPT ![j] = "live"]
          /\ held' = [held EXCEPT ![w] = [job |-> j, attempt |-> job[j].attempts + 1]]
          /\ runs' = [runs EXCEPT ![j] = @ + 1]
    /\ UNCHANGED due

\* claim_worker_job: sweep the spent jobs, then take one eligible job, or
\* return nothing when there is none.
claim_worker_job(w) ==
    /\ held[w] = Idle
    /\ UNCHANGED due
    /\ \/ \E j \in Eligible :
            /\ job' = [i \in Job |-> IF i \in Spent THEN Swept(i)
                                     ELSE IF i = j THEN claim(job[i], w) ELSE job[i]]
            /\ lease' = [i \in Job |-> IF i \in Spent THEN "none"
                                       ELSE IF i = j THEN "live" ELSE lease[i]]
            /\ held' = [held EXCEPT ![w] = [job |-> j, attempt |-> job[j].attempts + 1]]
            /\ runs' = [runs EXCEPT ![j] = @ + 1]
       \/ /\ Eligible = {}
          /\ job' = [i \in Job |-> IF i \in Spent THEN Swept(i) ELSE job[i]]
          /\ lease' = [i \in Job |-> IF i \in Spent THEN "none" ELSE lease[i]]
          /\ UNCHANGED <<held, runs>>

\* The owner test without the owner.
HoldsAnyLock(w) == held[w] # Idle /\ job[held[w].job].status = "RUNNING"

\* "job is RUNNING under worker w"; the lease itself is not consulted.
HoldsLock(w) ==
    /\ held[w] # Idle
    /\ job[held[w].job].status = "RUNNING"
    /\ job[held[w].job].locked_by = w

Release(w) == held' = [held EXCEPT ![w] = Idle]

complete_worker_job(w) ==
    LET j == held[w].job IN
    /\ HoldsLock(w)
    /\ job' = [job EXCEPT ![j] = succeed(@)]
    /\ lease' = [lease EXCEPT ![j] = "none"]
    /\ Release(w)
    /\ UNCHANGED <<due, runs>>

\* Every retryable failure goes back to the queue.
fail_without_budget(w, retryable, delayed) ==
    LET j == held[w].job IN
    /\ HoldsLock(w)
    /\ job' = [job EXCEPT ![j] = [@ EXCEPT !.status = "RETRY", !.locked_by = NoWorker]]
    /\ lease' = [lease EXCEPT ![j] = "none"]
    /\ Release(w)
    /\ UNCHANGED <<due, runs>>

\* A retry with a delay is not due yet.
fail_worker_job(w, retryable, delayed) ==
    LET j == held[w].job IN
    /\ HoldsLock(w)
    /\ job' = [job EXCEPT ![j] = fail(@, retryable)]
    /\ lease' = [lease EXCEPT ![j] = "none"]
    /\ due' = IF job'[j].status = "RETRY" /\ delayed THEN due \ {j} ELSE due
    /\ Release(w)
    /\ UNCHANGED runs

\* The call of a worker that lost its job raises; or the worker dies without
\* a call.  Either way it is free to poll again (after a restart).
LoseJob(w) ==
    /\ held[w] # Idle
    /\ Release(w)
    /\ UNCHANGED <<job, lease, due, runs>>

-----------------------------------------------------------------------------
\* Time passes.
LeaseExpires(j) ==
    /\ lease[j] = "live"
    /\ lease' = [lease EXCEPT ![j] = "expired"]
    /\ UNCHANGED <<job, due, held, runs>>

BecomesDue(j) ==
    /\ j \notin due
    /\ due' = due \cup {j}
    /\ UNCHANGED <<job, lease, held, runs>>

WorkerEnds(w) ==
    \/ complete_worker_job(w)
    \/ \E retryable, delayed \in BOOLEAN : fail_worker_job(w, retryable, delayed)
    \/ LoseJob(w)

Next ==
    \/ \E w \in Worker : claim_worker_job(w) \/ WorkerEnds(w)
    \/ \E j \in Job : LeaseExpires(j) \/ BecomesDue(j)

\* Clocks advance, some worker keeps polling, and no worker is busy for ever:
\* it finishes, fails or dies.  That its work succeeds is not assumed.
Fairness ==
    /\ WF_vars(\E w \in Worker : claim_worker_job(w))
    /\ \A w \in Worker : WF_vars(WorkerEnds(w))
    /\ \A j \in Job : WF_vars(LeaseExpires(j)) /\ WF_vars(BecomesDue(j))

Spec == Init /\ [][Next]_vars

FairSpec == Spec /\ Fairness

-----------------------------------------------------------------------------
(* Properties                                                              *)

\* Work on a job is started at most MaxAttempts times, however leases expire
\* and workers die, and the row counts every start.
WithinBudget ==
    \A j \in Job : runs[j] = job[j].attempts /\ runs[j] <= MaxAttempts

\* Only the worker of the latest attempt settles a job: one whose lease
\* expired and was claimed by another can no longer complete or fail it.
LatestAttemptSettles ==
    [][\A w \in Worker : complete_worker_job(w)
          \/ (\E retryable, delayed \in BOOLEAN : fail_worker_job(w, retryable, delayed))
         => held[w].attempt = job[held[w].job].attempts]_vars

\* Each row moves as the reference model in jobs.py allows: by one of its
\* calls, or by a lease recovery and a claim in one step.
FollowsReferenceModel ==
    [][\A j \in Job : job'[j] # job[j] =>
         \/ job'[j] \in JobSteps(job[j])
         \/ /\ job[j].status = "RUNNING" /\ lease[j] = "expired"
            /\ job'[j] \in JobSteps(recover_expired_lease(job[j]))]_vars

\* Every job ends, completed or as a dead letter.
EveryJobEnds ==
    \A j \in Job : <>(job[j].status \in {"COMPLETED", "DEAD_LETTERED"})
=============================================================================
