--------------------------- MODULE WorkerJobsProofs ---------------------------
(***************************************************************************)
(* The job queue for any number of jobs, workers and attempts: the retry   *)
(* budget holds, only the latest attempt settles a job, and every row      *)
(* moves as the reference model of jobs.py allows.                         *)
(***************************************************************************)
EXTENDS WorkerJobs, TLAPS

\* A job that waits for its next attempt has one left.
WaitingHasBudget ==
    \A j \in Job : job[j].status \in {"PENDING", "RETRY"}
                      => job[j].attempts < MaxAttempts

\* A worker is busy with a job of the queue, and if the row still names that
\* worker, with the attempt that the row counts.
OwnerIsLatest ==
    \A w \in Worker :
        held[w] # Idle =>
            /\ held[w].job \in Job
            /\ job[held[w].job].locked_by = w
                  => held[w].attempt = job[held[w].job].attempts

QueueInv ==
    /\ TypeOK
    /\ WithinBudget
    /\ WaitingHasBudget
    /\ OwnerIsLatest

-----------------------------------------------------------------------------
(* The transitions of one row.                                             *)

\* The reference model's calls keep a row well typed.
LEMMA JobStateType ==
    ASSUME NEW j \in JobState
    PROVE  /\ \A w \in Worker : j.attempts < MaxAttempts => claim(j, w) \in JobState
           /\ succeed(j) \in JobState
           /\ \A retryable \in BOOLEAN : fail(j, retryable) \in JobState
<1>1. MaxAttempts \in Nat /\ j.attempts \in 0..MaxAttempts
  BY JobAssumption DEF JobState
<1>2. ASSUME NEW w \in Worker, j.attempts < MaxAttempts PROVE claim(j, w) \in JobState
  <2>1. j.attempts + 1 \in 0..MaxAttempts
    BY <1>1, <1>2
  <2> QED
    BY <2>1 DEF claim, JobState, JobStatus
<1>3. succeed(j) \in JobState
  BY DEF succeed, JobState, JobStatus
<1>4. ASSUME NEW retryable \in BOOLEAN PROVE fail(j, retryable) \in JobState
  BY DEF fail, JobState, JobStatus
<1> QED
  BY <1>2, <1>3, <1>4

\* What a claim does to row i: the sweep, the claim itself, or nothing.
SweptRow(i) ==
    /\ i \in Spent
    /\ job'[i] = Swept(i)

ClaimedRow(w, i) ==
    /\ i \in Eligible
    /\ job'[i] = claim(job[i], w)
    /\ held' = [held EXCEPT ![w] = [job |-> i, attempt |-> job[i].attempts + 1]]
    /\ runs' = [runs EXCEPT ![i] = runs[i] + 1]

\* A claim hands out one job or none, and sweeps the others.
LEMMA ClaimShape ==
    ASSUME TypeOK, NEW w \in Worker, claim_worker_job(w)
    PROVE  /\ held[w] = Idle /\ due' = due
           /\ DOMAIN job' = Job /\ DOMAIN lease' = Job
           /\ job' = [i \in Job |-> job'[i]] /\ lease' = [i \in Job |-> lease'[i]]
           /\ \A i \in Job : lease'[i] \in {"none", "live", lease[i]}
           /\ \/ \E j \in Job :
                   /\ ClaimedRow(w, j)
                   /\ \A i \in Job : i # j => SweptRow(i) \/ job'[i] = job[i]
              \/ /\ UNCHANGED <<held, runs>>
                 /\ \A i \in Job : SweptRow(i) \/ job'[i] = job[i]
<1>1. MaxAttempts \in Nat /\ \A i \in Job : job[i].attempts \in Nat
  BY JobAssumption DEF TypeOK, JobState
<1>2. Eligible \subseteq Job /\ Spent \cap Eligible = {}
  BY <1>1 DEF Eligible, Spent, TypeOK
<1>3. ASSUME NEW j \in Eligible,
             job' = [i \in Job |-> IF i \in Spent THEN Swept(i)
                                    ELSE IF i = j THEN claim(job[i], w) ELSE job[i]],
             held' = [held EXCEPT ![w] = [job |-> j, attempt |-> job[j].attempts + 1]],
             runs' = [runs EXCEPT ![j] = @ + 1]
      PROVE  /\ j \in Job /\ ClaimedRow(w, j)
             /\ \A i \in Job : i # j => SweptRow(i) \/ job'[i] = job[i]
  BY <1>2, <1>3 DEF ClaimedRow, SweptRow
<1>4. ASSUME job' = [i \in Job |-> IF i \in Spent THEN Swept(i) ELSE job[i]]
      PROVE  \A i \in Job : SweptRow(i) \/ job'[i] = job[i]
  BY <1>4 DEF SweptRow
<1> QED
  BY <1>3, <1>4 DEF claim_worker_job

\* The row of a spent job is the one the reference model would leave.
LEMMA SweptIsFailed ==
    ASSUME QueueInv, NEW i \in Spent
    PROVE  /\ i \in Job /\ job[i].status = "RUNNING" /\ lease[i] = "expired"
           /\ Swept(i) = fail(job[i], TRUE)
           /\ Swept(i) \in JobState
           /\ Swept(i).status = "DEAD_LETTERED" /\ Swept(i).locked_by = NoWorker
           /\ Swept(i).attempts = job[i].attempts
<1>1. i \in Job /\ job[i].attempts >= MaxAttempts /\ Claimable(i)
  BY DEF Spent
<1>2. job[i] \in JobState /\ job[i].attempts \in Nat /\ MaxAttempts \in Nat
  BY <1>1, JobAssumption DEF QueueInv, TypeOK, JobState
<1>3. job[i].status \notin {"PENDING", "RETRY"}
  BY <1>1, <1>2 DEF QueueInv, WaitingHasBudget
<1>4. Swept(i) = fail(job[i], TRUE)
  <2>1. ~(job[i].attempts < MaxAttempts)
    BY <1>1, <1>2
  <2>2. (IF TRUE /\ job[i].attempts < MaxAttempts THEN "RETRY" ELSE "DEAD_LETTERED")
           = "DEAD_LETTERED"
    BY <2>1
  <2> QED
    BY <2>2 DEF Swept, fail
<1>5. Swept(i) \in JobState
  BY <1>2, <1>4, JobStateType
<1> QED
  BY <1>1, <1>2, <1>3, <1>4, <1>5 DEF Claimable, Swept, JobState

\* What a worker that still owns its job makes of the row: the result of a call
\* of the reference model.
LEMMA SettleShape ==
    ASSUME QueueInv, NEW w \in Worker,
           \/ complete_worker_job(w)
           \/ \E retryable, delayed \in BOOLEAN : fail_worker_job(w, retryable, delayed)
    PROVE  LET j == held[w].job IN
           /\ j \in Job /\ held[w] # Idle
           /\ job[j].status = "RUNNING" /\ job[j].locked_by = w
           /\ held[w].attempt = job[j].attempts
           /\ job' = [job EXCEPT ![j] = job'[j]]
           /\ job'[j] \in {succeed(job[j]), fail(job[j], TRUE), fail(job[j], FALSE)}
           /\ lease' = [lease EXCEPT ![j] = "none"]
           /\ due' \subseteq due
           /\ held' = [held EXCEPT ![w] = Idle]
           /\ runs' = runs
<1> DEFINE j == held[w].job
<1>1. HoldsLock(w) /\ Release(w) /\ runs' = runs
      /\ lease' = [lease EXCEPT ![j] = "none"] /\ due' \subseteq due
  BY DEF complete_worker_job, fail_worker_job
<1>2. /\ j \in Job /\ held[w] # Idle
      /\ job[j].status = "RUNNING" /\ job[j].locked_by = w
      /\ held[w].attempt = job[j].attempts
  BY <1>1 DEF HoldsLock, QueueInv, OwnerIsLatest
<1>3. PICK r \in {succeed(job[j]), fail(job[j], TRUE), fail(job[j], FALSE)} :
         job' = [job EXCEPT ![j] = r]
  BY DEF complete_worker_job, fail_worker_job
<1>4. job'[j] = r
  BY <1>2, <1>3 DEF QueueInv, TypeOK
<1> QED
  BY <1>1, <1>2, <1>3, <1>4 DEF Release

-----------------------------------------------------------------------------
(* The invariant is inductive.                                             *)

LEMMA ClaimInv ==
    ASSUME QueueInv, NEW w \in Worker, claim_worker_job(w)
    PROVE  QueueInv'
<1> USE DEF QueueInv
<1>1. /\ held[w] = Idle /\ due' = due
      /\ DOMAIN job' = Job /\ DOMAIN lease' = Job
      /\ job' = [i \in Job |-> job'[i]] /\ lease' = [i \in Job |-> lease'[i]]
      /\ \A i \in Job : lease'[i] \in {"none", "live", lease[i]}
      /\ \/ \E j \in Job :
              /\ ClaimedRow(w, j)
              /\ \A i \in Job : i # j => SweptRow(i) \/ job'[i] = job[i]
         \/ /\ UNCHANGED <<held, runs>>
            /\ \A i \in Job : SweptRow(i) \/ job'[i] = job[i]
  BY ClaimShape
<1>2. MaxAttempts \in Nat /\ NoWorker \notin Worker
  BY JobAssumption
<1>3. \A i \in Job : /\ job[i] \in JobState /\ job[i].attempts \in 0..MaxAttempts
                     /\ runs[i] = job[i].attempts
  BY DEF TypeOK, JobState, WithinBudget
<1>4. ASSUME NEW i \in Job, SweptRow(i)
      PROVE  /\ job'[i] \in JobState /\ job'[i].attempts = job[i].attempts
             /\ job'[i].status = "DEAD_LETTERED" /\ job'[i].locked_by = NoWorker
  BY <1>4, SweptIsFailed DEF SweptRow
<1>5. ASSUME NEW i \in Job, ClaimedRow(w, i)
      PROVE  /\ job'[i] \in JobState /\ job'[i].attempts = job[i].attempts + 1
             /\ job[i].attempts < MaxAttempts
             /\ job'[i].attempts \in 0..MaxAttempts
             /\ job'[i].status = "RUNNING" /\ job'[i].locked_by = w
  <2>1. job[i].attempts < MaxAttempts /\ job'[i] = claim(job[i], w)
    BY <1>5 DEF ClaimedRow, Eligible
  <2>2. claim(job[i], w) \in JobState
    BY <1>3, <2>1, JobStateType
  <2> QED
    BY <1>2, <1>3, <2>1, <2>2 DEF claim
<1>6. lease' \in [Job -> {"none", "live", "expired"}] /\ due' \subseteq Job
  BY <1>1 DEF TypeOK
<1>7. ASSUME NEW j \in Job, ClaimedRow(w, j),
             \A i \in Job : i # j => SweptRow(i) \/ job'[i] = job[i]
      PROVE  QueueInv'
  <2>1. \A i \in Job : job'[i] \in JobState
    BY <1>3, <1>4, <1>5, <1>7
  <2>2. \A i \in Job : i # j => job'[i].attempts = job[i].attempts
    BY <1>4, <1>7
  <2>3. /\ held' = [held EXCEPT ![w] = [job |-> j, attempt |-> job[j].attempts + 1]]
        /\ runs' = [runs EXCEPT ![j] = runs[j] + 1]
    BY <1>7 DEF ClaimedRow
  <2>4. job[j].attempts + 1 \in 0..MaxAttempts /\ job'[j].attempts = job[j].attempts + 1
    BY <1>5, <1>7
  <2>5. TypeOK'
    BY <1>1, <1>3, <1>6, <2>1, <2>3, <2>4 DEF TypeOK
  <2>6. WithinBudget'
    BY <1>2, <1>3, <2>2, <2>3, <2>4 DEF WithinBudget, TypeOK
  <2>7. WaitingHasBudget'
    BY <1>4, <1>5, <1>7 DEF WaitingHasBudget
  <2>8. OwnerIsLatest'
    <3> SUFFICES ASSUME NEW u \in Worker, held'[u] # Idle
                 PROVE  /\ held'[u].job \in Job
                        /\ job'[held'[u].job].locked_by = u
                              => held'[u].attempt = job'[held'[u].job].attempts
      BY DEF OwnerIsLatest
    <3>1. CASE u = w
      BY <2>3, <2>4, <3>1 DEF TypeOK
    <3>2. CASE u # w
      <4>1. held'[u] = held[u] /\ held[u].job \in Job
        BY <2>3, <3>2 DEF TypeOK, OwnerIsLatest
      <4>2. job'[held[u].job].locked_by = u
               => held[u].job # j /\ job'[held[u].job] = job[held[u].job]
        BY <1>2, <1>4, <1>5, <1>7, <3>2, <4>1
      <4> QED
        BY <4>1, <4>2 DEF OwnerIsLatest
    <3> QED
      BY <3>1, <3>2
  <2> QED
    BY <2>5, <2>6, <2>7, <2>8
<1>8. ASSUME UNCHANGED <<held, runs>>, \A i \in Job : SweptRow(i) \/ job'[i] = job[i]
      PROVE  QueueInv'
  <2>1. \A i \in Job : job'[i] \in JobState /\ job'[i].attempts = job[i].attempts
    BY <1>3, <1>4, <1>8
  <2>2. TypeOK'
    BY <1>1, <1>6, <1>8, <2>1 DEF TypeOK
  <2>3. WithinBudget' /\ WaitingHasBudget'
    BY <1>4, <1>8, <2>1 DEF WithinBudget, WaitingHasBudget
  <2>4. OwnerIsLatest'
    BY <1>2, <1>4, <1>8, <2>1 DEF OwnerIsLatest
  <2> QED
    BY <2>2, <2>3, <2>4
<1> QED
  BY <1>1, <1>7, <1>8

LEMMA SettleInv ==
    ASSUME QueueInv, NEW w \in Worker,
           \/ complete_worker_job(w)
           \/ \E retryable, delayed \in BOOLEAN : fail_worker_job(w, retryable, delayed)
    PROVE  QueueInv'
<1> USE DEF QueueInv
<1> DEFINE j == held[w].job
<1>1. /\ j \in Job /\ held[w] # Idle
      /\ job[j].status = "RUNNING"
      /\ job' = [job EXCEPT ![j] = job'[j]]
      /\ job'[j] \in {succeed(job[j]), fail(job[j], TRUE), fail(job[j], FALSE)}
      /\ lease' = [lease EXCEPT ![j] = "none"]
      /\ due' \subseteq due
      /\ held' = [held EXCEPT ![w] = Idle]
      /\ runs' = runs
  BY SettleShape
<1> HIDE DEF j
<1>2. job[j] \in JobState /\ NoWorker \notin Worker
  BY <1>1, JobAssumption DEF TypeOK
<1>3. /\ job'[j] \in JobState /\ job'[j].locked_by = NoWorker
      /\ job'[j].attempts = job[j].attempts
      /\ job'[j].status \in {"PENDING", "RETRY"} => job[j].attempts < MaxAttempts
  <2>1. job'[j] \in JobState
    BY <1>1, <1>2, JobStateType
  <2>2. CASE job'[j] = succeed(job[j])
    BY <1>2, <2>1, <2>2 DEF succeed, JobState
  <2>3. CASE \E retryable \in BOOLEAN : job'[j] = fail(job[j], retryable)
    BY <1>2, <2>1, <2>3 DEF fail, JobState
  <2> QED
    BY <1>1, <2>1, <2>2, <2>3
<1>4. \A i \in Job : i # j => job'[i] = job[i]
  BY <1>1 DEF TypeOK
<1>5. Idle \in [job : Job \cup {NoJob}, attempt : 0..MaxAttempts]
  BY JobAssumption DEF Idle
<1>6. TypeOK'
  BY <1>1, <1>3, <1>5 DEF TypeOK
<1>7. WithinBudget' /\ WaitingHasBudget'
  BY <1>1, <1>3, <1>4 DEF WithinBudget, WaitingHasBudget
<1>8. OwnerIsLatest'
  <2> SUFFICES ASSUME NEW u \in Worker, held'[u] # Idle
               PROVE  /\ held'[u].job \in Job
                      /\ job'[held'[u].job].locked_by = u
                            => held'[u].attempt = job'[held'[u].job].attempts
    BY DEF OwnerIsLatest
  <2>1. u # w /\ held'[u] = held[u]
    BY <1>1 DEF TypeOK
  <2> QED
    BY <1>2, <1>3, <1>4, <2>1 DEF OwnerIsLatest
<1> QED
  BY <1>6, <1>7, <1>8

LEMMA LoseJobInv ==
    ASSUME QueueInv, NEW w \in Worker, LoseJob(w)
    PROVE  QueueInv'
<1>1. Idle \in [job : Job \cup {NoJob}, attempt : 0..MaxAttempts]
  BY JobAssumption DEF Idle
<1>2. UNCHANGED <<job, lease, due, runs>> /\ held' = [held EXCEPT ![w] = Idle]
  BY DEF LoseJob, Release
<1>3. TypeOK'
  BY <1>1, <1>2 DEF QueueInv, TypeOK
<1>4. \A u \in Worker : held'[u] # Idle => held'[u] = held[u]
  BY <1>2 DEF QueueInv, TypeOK
<1> QED
  BY <1>2, <1>3, <1>4 DEF QueueInv, WithinBudget, WaitingHasBudget, OwnerIsLatest

LEMMA TimeInv ==
    ASSUME QueueInv, NEW j \in Job, LeaseExpires(j) \/ BecomesDue(j)
    PROVE  QueueInv'
<1>1. TypeOK'
  BY DEF QueueInv, TypeOK, LeaseExpires, BecomesDue
<1>2. UNCHANGED <<job, held, runs>>
  BY DEF LeaseExpires, BecomesDue
<1> QED
  BY <1>1, <1>2 DEF QueueInv, WithinBudget, WaitingHasBudget, OwnerIsLatest

LEMMA InitQueueInv == Init => QueueInv
<1> SUFFICES ASSUME Init PROVE QueueInv
  OBVIOUS
<1>1. MaxAttempts \in Nat /\ 0 < MaxAttempts /\ 0 \in 0..MaxAttempts
  BY JobAssumption
<1>2. NewJob \in JobState /\ NewJob.attempts = 0
      /\ Idle \in [job : Job \cup {NoJob}, attempt : 0..MaxAttempts]
  BY <1>1 DEF NewJob, JobState, JobStatus, Idle
<1>3. TypeOK
  BY <1>2 DEF Init, TypeOK
<1> QED
  BY <1>1, <1>2, <1>3 DEF Init, QueueInv, WithinBudget, WaitingHasBudget, OwnerIsLatest

LEMMA StepQueueInv == QueueInv /\ [Next]_vars => QueueInv'
<1> SUFFICES ASSUME QueueInv, [Next]_vars PROVE QueueInv'
  OBVIOUS
<1>1. CASE UNCHANGED vars
  BY <1>1 DEF vars, QueueInv, TypeOK, WithinBudget, WaitingHasBudget, OwnerIsLatest
<1>2. CASE Next
  BY <1>2, ClaimInv, SettleInv, LoseJobInv, TimeInv DEF Next, WorkerEnds
<1> QED
  BY <1>1, <1>2

\* The inductive invariant holds of every reachable queue.
THEOREM QueueInvariance == Spec => []QueueInv
<1> QED
  BY InitQueueInv, StepQueueInv, PTL DEF Spec

-----------------------------------------------------------------------------
(* The results.                                                            *)

\* Type correctness of the queue.
THEOREM QueueTypeCorrect == Spec => []TypeOK
<1>1. QueueInv => TypeOK
  BY DEF QueueInv
<1> QED
  BY <1>1, QueueInvariance, PTL

\* Work on a job is never started more than MaxAttempts times, and every start
\* is counted in its row.
THEOREM BudgetsHold == Spec => []WithinBudget
<1>1. QueueInv => WithinBudget
  BY DEF QueueInv
<1> QED
  BY <1>1, QueueInvariance, PTL

\* A worker whose lease has gone to another attempt never settles the job.
THEOREM OnlyLatestAttemptsSettle == Spec => LatestAttemptSettles
<1> DEFINE A == \A w \in Worker : complete_worker_job(w)
                  \/ (\E retryable, delayed \in BOOLEAN :
                         fail_worker_job(w, retryable, delayed))
                 => held[w].attempt = job[held[w].job].attempts
<1>1. QueueInv => A
  BY SettleShape
<1>2. QueueInv /\ [Next]_vars => [A]_vars
  BY <1>1
<1>3. []QueueInv /\ [][Next]_vars => [][A]_vars
  BY <1>2, PTL
<1>4. Spec => [][A]_vars
  BY <1>3, QueueInvariance, PTL DEF Spec
<1> QED
  BY <1>4 DEF LatestAttemptSettles

\* Every row of the table moves as the reference model in jobs.py allows; the
\* claim's sweep is the failure of the model, its takeover of an expired lease
\* is a recovery and a claim.
THEOREM QueueFollowsReferenceModel == Spec => FollowsReferenceModel
<1> DEFINE A == \A j \in Job : job'[j] # job[j] =>
                   \/ job'[j] \in JobSteps(job[j])
                   \/ /\ job[j].status = "RUNNING" /\ lease[j] = "expired"
                      /\ job'[j] \in JobSteps(recover_expired_lease(job[j]))
<1>1. ASSUME QueueInv, NEW j \in Job, SweptRow(j) PROVE job'[j] \in JobSteps(job[j])
  BY <1>1, SweptIsFailed DEF SweptRow, JobSteps
<1>2. ASSUME QueueInv, NEW w \in Worker, NEW j \in Job, ClaimedRow(w, j)
      PROVE  \/ job'[j] \in JobSteps(job[j])
             \/ /\ job[j].status = "RUNNING" /\ lease[j] = "expired"
                /\ job'[j] \in JobSteps(recover_expired_lease(job[j]))
  <2>1. /\ job'[j] = claim(job[j], w) /\ Claimable(j)
        /\ job[j].attempts < MaxAttempts
    BY <1>2 DEF ClaimedRow, Eligible
  <2>2. CASE job[j].status \in {"PENDING", "RETRY"}
    BY <2>1, <2>2 DEF JobSteps, CanClaim
  <2>3. CASE job[j].status = "RUNNING" /\ lease[j] = "expired"
    <3> DEFINE r == recover_expired_lease(job[j])
    <3>1. r = [job[j] EXCEPT !.status = "RETRY", !.locked_by = NoWorker]
      BY <2>1 DEF recover_expired_lease, fail
    <3>2. job[j] \in JobState
      BY <1>2 DEF QueueInv, TypeOK
    <3>3. CanClaim(r) /\ r.attempts = job[j].attempts
      BY <2>1, <3>1, <3>2 DEF CanClaim, JobState
    <3>4. claim(r, w) = claim(job[j], w)
      BY <3>3 DEF claim
    <3>5. claim(r, w) \in JobSteps(r)
      BY <3>3 DEF JobSteps
    <3> QED
      BY <2>1, <2>3, <3>4, <3>5
  <2> QED
    BY <2>1, <2>2, <2>3 DEF Claimable
<1>3. ASSUME QueueInv, NEW w \in Worker, claim_worker_job(w) PROVE A
  <2>1. TypeOK
    BY <1>3 DEF QueueInv
  <2>2. \/ \E j \in Job :
              /\ ClaimedRow(w, j)
              /\ \A i \in Job : i # j => SweptRow(i) \/ job'[i] = job[i]
        \/ \A i \in Job : SweptRow(i) \/ job'[i] = job[i]
    BY <1>3, <2>1, ClaimShape
  <2> QED
    BY <1>1, <1>2, <1>3, <2>2
<1>4. ASSUME QueueInv, NEW w \in Worker,
             \/ complete_worker_job(w)
             \/ \E retryable, delayed \in BOOLEAN : fail_worker_job(w, retryable, delayed)
      PROVE  A
  <2> DEFINE h == held[w].job
  <2>1. /\ h \in Job /\ job[h].status = "RUNNING"
        /\ job' = [job EXCEPT ![h] = job'[h]]
        /\ job'[h] \in {succeed(job[h]), fail(job[h], TRUE), fail(job[h], FALSE)}
    BY <1>4, SettleShape
  <2>2. job'[h] \in JobSteps(job[h])
    BY <2>1 DEF JobSteps
  <2>3. \A j \in Job : j # h => job'[j] = job[j]
    BY <1>4, <2>1 DEF QueueInv, TypeOK
  <2> QED
    BY <2>2, <2>3
<1>5. ASSUME UNCHANGED job PROVE A
  BY <1>5
<1>6. QueueInv /\ [Next]_vars => [A]_vars
  BY <1>3, <1>4, <1>5 DEF Next, WorkerEnds, LoseJob, LeaseExpires, BecomesDue
<1>7. []QueueInv /\ [][Next]_vars => [][A]_vars
  BY <1>6, PTL
<1>8. Spec => [][A]_vars
  BY <1>7, QueueInvariance, PTL DEF Spec
<1> QED
  BY <1>8 DEF FollowsReferenceModel

\* What a row has left: two moves for each attempt of its budget, one for the
\* end of the attempt that runs, none once it has ended.
MovesLeft(r) ==
    IF r.status \in {"COMPLETED", "DEAD_LETTERED"} THEN 0
    ELSE 2 * (MaxAttempts - r.attempts) + (IF r.status = "RUNNING" THEN 1 ELSE 0)

\* A call of the reference model uses up what the row has left.
LEMMA StepsRunDown ==
    ASSUME NEW r \in JobState, NEW n \in JobSteps(r)
    PROVE  /\ n \in JobState
           /\ MovesLeft(n) \in Nat /\ MovesLeft(r) \in Nat
           /\ MovesLeft(n) < MovesLeft(r)
<1>1. /\ MaxAttempts \in Nat /\ r.attempts \in 0..MaxAttempts
      /\ r.status \in JobStatus
  BY JobAssumption DEF JobState
<1>2. ASSUME NEW w \in Worker, CanClaim(r), n = claim(r, w)
      PROVE  /\ n \in JobState /\ n.status = "RUNNING" /\ n.attempts = r.attempts + 1
             /\ r.status \in {"PENDING", "RETRY"} /\ n.attempts \in 0..MaxAttempts
  BY <1>1, <1>2, JobStateType DEF CanClaim, claim
<1>3. ASSUME r.status = "RUNNING", n \in {succeed(r), fail(r, TRUE), fail(r, FALSE)}
      PROVE  /\ n \in JobState /\ n.attempts = r.attempts
             /\ \/ n.status \in {"COMPLETED", "DEAD_LETTERED"}
                \/ n.status = "RETRY" /\ r.attempts < MaxAttempts
  <2>1. CASE n = succeed(r)
    BY <2>1, JobStateType DEF succeed, JobState
  <2>2. ASSUME NEW retryable \in BOOLEAN, n = fail(r, retryable)
        PROVE  /\ n \in JobState /\ n.attempts = r.attempts
               /\ \/ n.status = "DEAD_LETTERED"
                  \/ n.status = "RETRY" /\ r.attempts < MaxAttempts
    <3>1. n \in JobState
      BY <2>2, JobStateType
    <3>2. n = [status |-> n.status, attempts |-> r.attempts, locked_by |-> NoWorker]
          /\ n.status = IF retryable /\ r.attempts < MaxAttempts
                        THEN "RETRY" ELSE "DEAD_LETTERED"
      BY <2>2 DEF fail, JobState
    <3> QED
      BY <3>1, <3>2
  <2> QED
    BY <1>3, <2>1, <2>2
<1>4. \/ \E w \in Worker : CanClaim(r) /\ n = claim(r, w)
      \/ r.status = "RUNNING" /\ n \in {succeed(r), fail(r, TRUE), fail(r, FALSE)}
  BY DEF JobSteps
<1>5. CASE \E w \in Worker : CanClaim(r) /\ n = claim(r, w)
  BY <1>1, <1>2, <1>5 DEF MovesLeft
<1>6. CASE r.status = "RUNNING" /\ n \in {succeed(r), fail(r, TRUE), fail(r, FALSE)}
  <2>1. n \in JobState /\ n.attempts = r.attempts /\ r.status = "RUNNING"
    BY <1>3, <1>6
  <2>2. CASE n.status \in {"COMPLETED", "DEAD_LETTERED"}
    BY <1>1, <2>1, <2>2 DEF MovesLeft
  <2>3. CASE n.status = "RETRY" /\ r.attempts < MaxAttempts
    BY <1>1, <2>1, <2>3 DEF MovesLeft
  <2> QED
    BY <1>3, <1>6, <2>2, <2>3
<1> QED
  BY <1>4, <1>5, <1>6

\* No job goes round for ever: whatever moves a row, a claim, a settlement, a
\* lease that is taken over or a sweep, leaves it fewer moves, so that a row
\* changes at most 2 * MaxAttempts times and only polling and the clock are left
\* for EveryJobEnds to assume.
THEOREM JobsRunDown ==
    Spec => [][\A j \in Job : job'[j] # job[j] => MovesLeft(job'[j]) < MovesLeft(job[j])]_vars
<1> DEFINE F == \A j \in Job : job'[j] # job[j] =>
                   \/ job'[j] \in JobSteps(job[j])
                   \/ /\ job[j].status = "RUNNING" /\ lease[j] = "expired"
                      /\ job'[j] \in JobSteps(recover_expired_lease(job[j]))
           A == \A j \in Job : job'[j] # job[j] => MovesLeft(job'[j]) < MovesLeft(job[j])
<1>1. ASSUME QueueInv, F PROVE A
  <2> SUFFICES ASSUME NEW j \in Job, job'[j] # job[j]
               PROVE  MovesLeft(job'[j]) < MovesLeft(job[j])
    OBVIOUS
  <2>1. job[j] \in JobState
    BY <1>1 DEF QueueInv, TypeOK
  <2>2. CASE job'[j] \in JobSteps(job[j])
    BY <2>1, <2>2, StepsRunDown
  <2>3. CASE job[j].status = "RUNNING" /\ job'[j] \in JobSteps(recover_expired_lease(job[j]))
    <3>1. recover_expired_lease(job[j]) \in JobSteps(job[j])
      BY <2>3 DEF JobSteps, recover_expired_lease
    <3>2. recover_expired_lease(job[j]) \in JobState
          /\ MovesLeft(recover_expired_lease(job[j])) < MovesLeft(job[j])
          /\ MovesLeft(recover_expired_lease(job[j])) \in Nat /\ MovesLeft(job[j]) \in Nat
      BY <2>1, <3>1, StepsRunDown
    <3>3. MovesLeft(job'[j]) < MovesLeft(recover_expired_lease(job[j]))
          /\ MovesLeft(job'[j]) \in Nat
      BY <2>3, <3>2, StepsRunDown
    <3> QED
      BY <3>2, <3>3
  <2> QED
    BY <1>1, <2>2, <2>3
<1>2. QueueInv /\ [F]_vars => [A]_vars
  BY <1>1
<1>3. []QueueInv /\ [][F]_vars => [][A]_vars
  BY <1>2, PTL
<1>4. Spec => [][F]_vars
  BY QueueFollowsReferenceModel DEF FollowsReferenceModel
<1> QED
  BY <1>3, <1>4, QueueInvariance, PTL
=============================================================================
