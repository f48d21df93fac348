------------------------------ MODULE JobStates ------------------------------
(***************************************************************************)
(* jobs.py: the reference state model of one job, as functions from a job  *)
(* state to the next.  Each raises outside its guard, which the guards     *)
(* CanX state.                                                             *)
(***************************************************************************)
EXTENDS Naturals

CONSTANTS Worker,       \* worker ids
          MaxAttempts,  \* max_attempts, the retry budget of a job
          NoWorker

ASSUME JobAssumption ==
    /\ MaxAttempts \in Nat \ {0}
    /\ NoWorker \notin Worker

JobStatus == {"PENDING", "RUNNING", "RETRY", "COMPLETED", "DEAD_LETTERED"}

JobState == [status : JobStatus, attempts : 0..MaxAttempts,
             locked_by : Worker \cup {NoWorker}]

NewJob == [status |-> "PENDING", attempts |-> 0, locked_by |-> NoWorker]

CanClaim(j) == j.status \in {"PENDING", "RETRY"} /\ j.attempts < MaxAttempts

claim(j, w) == [status |-> "RUNNING", attempts |-> j.attempts + 1, locked_by |-> w]

succeed(j) == [j EXCEPT !.status = "COMPLETED", !.locked_by = NoWorker]

\* A job leaves RUNNING for another try while its budget lasts.
fail(j, retryable) ==
    [j EXCEPT !.status = IF retryable /\ j.attempts < MaxAttempts
                         THEN "RETRY" ELSE "DEAD_LETTERED",
              !.locked_by = NoWorker]

recover_expired_lease(j) == fail(j, TRUE)

\* The states one call of the model reaches from j.
JobSteps(j) ==
    {claim(j, w) : w \in {u \in Worker : CanClaim(j)}}
        \cup {n \in {succeed(j), fail(j, TRUE), fail(j, FALSE)} : j.status = "RUNNING"}
=============================================================================
