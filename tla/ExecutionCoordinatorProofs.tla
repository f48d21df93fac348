---------------------- MODULE ExecutionCoordinatorProofs ----------------------
(***************************************************************************)
(* The coordinator for any number of processes, operations, keys, effects  *)
(* and bindings: it uses the journal as JournalSpec allows, dispatches a   *)
(* handler at most once, leaves a trace of every dispatch, verifies only   *)
(* what was observed, and records outcomes only of what was verified.      *)
(***************************************************************************)
EXTENDS ExecutionCoordinator, EffectJournalProofs

(* The inductive invariant.  First what holds of the call that process p   *)
(* is in.                                                                  *)

\* Past prepare() it has an operation with a row.
WorksOnKnown(p) ==
    pc[p] \notin {"idle", "checked"} => op[p] \in Op /\ Known(op[p])

\* What it is about to prepare has passed the checks of execute().
Requested(p) ==
    pc[p] = "checked" => /\ req[p] \in Request
                         /\ req[p].effect \in BoundEffect
                         /\ AuthorizedSideEffect(req[p].effect)

\* Before it invokes the handler it has appended ATTEMPTED.
HoldsAttempt(p) ==
    pc[p] = "attempted" => /\ events[op[p]] # <<>>
                           /\ events[op[p]][1].state = "ATTEMPTED"
                           /\ dispatched[op[p]] = 0

\* A FAILED readback that it applies has missed the effect, and a VERIFIED one
\* shows the effect of its own operation, put there by a handler.
HoldsReadback(p) ==
    /\ pc[p] \in {"apply", "outcome", "compare"} => rb[p] \in Readback
    /\ pc[p] = "apply" =>
          /\ rb[p].disposition = "FAILED" => rb[p].observed = Blank /\ rb[p].missed
          /\ rb[p].disposition = "VERIFIED" =>
                /\ rb[p].observed \in Observation
                /\ rb[p].observed.effect = EffectOf(op[p])
                /\ dispatched[rb[p].observed.op] > 0

\* To recover or record an outcome it has a verified operation, and to record
\* it, the very state that was verified.
WorksOnVerified(p) ==
    pc[p] \in {"reobserve", "compare", "outcome"} =>
        /\ events[op[p]] # <<>>
        /\ state(op[p]) = "VERIFIED"
        /\ pc[p] = "outcome" => rb[p].observed = LatestEvent(op[p]).digest

CallInv(p) ==
    /\ WorksOnKnown(p)
    /\ Requested(p)
    /\ HoldsAttempt(p)
    /\ HoldsReadback(p)
    /\ WorksOnVerified(p)

\* Two processes never hold the right to dispatch one operation.
SoleAttempt ==
    \A p, q \in Proc :
        pc[p] = "attempted" /\ pc[q] = "attempted" /\ op[p] = op[q] => p = q

\* Everything in the journal has passed the checks of execute().
Admitted ==
    \A o \in Op : Known(o) =>
        EffectOf(o) \in BoundEffect /\ AuthorizedSideEffect(EffectOf(o))

\* Only a handler puts anything at a target.
TargetWasDispatched ==
    \A t \in Target : target[t] # Blank => dispatched[target[t].op] > 0

IInv ==
    /\ JournalInv
    /\ TypeOK
    /\ \A p \in Proc : CallInv(p)
    /\ SoleAttempt
    /\ Admitted
    /\ TargetWasDispatched
    /\ AtMostOnceDispatch
    /\ DispatchIsJournalled
    /\ VerifiedWasObserved

-----------------------------------------------------------------------------
(* The coordinator calls the journal as any client may.                    *)

\* A recorded effect names a target, and a binding whose reference is evidence.
LEMMA EffectParts ==
    ASSUME JournalTypeOK, NEW o \in Op, Known(o)
    PROVE  /\ EffectOf(o) \in Effect
           /\ EffectOf(o).target \in Target
           /\ EffectOf(o).binding \in Evidence
  BY CoordinatorAssumption DEF JournalTypeOK, Known, Intent, EffectOf

LEMMA CoordinatorUsesJournal ==
    ASSUME IInv, [Next]_vars
    PROVE  [JournalNext]_journalVars
<1> USE DEF IInv, CallInv
<1>1. ASSUME NEW p \in Proc, Prepare(p) PROVE [JournalNext]_journalVars
  <2>1. req[p].key \in Key /\ req[p].effect \in Effect
    BY <1>1 DEF Prepare, At, Requested, Request
  <2> QED
    BY <1>1, <2>1 DEF Prepare, JournalNext
<1>2. ASSUME NEW p \in Proc, Attempt(p) PROVE [JournalNext]_journalVars
  <2>1. op[p] \in Op /\ Known(op[p])
    BY <1>2 DEF Attempt, At, WorksOnKnown
  <2>2. EffectOf(op[p]).binding \in Evidence
    BY <2>1, EffectParts DEF TypeOK
  <2> QED
    BY <1>2, <2>1, <2>2 DEF Attempt, JournalNext
<1>3. ASSUME NEW p \in Proc, MarkAmbiguous(p) PROVE [JournalNext]_journalVars
  <2>1. op[p] \in Op
    BY <1>3 DEF MarkAmbiguous, At, WorksOnKnown
  <2> QED
    BY <1>3, <2>1 DEF MarkAmbiguous, OwnEvidence, JournalNext
<1>4. ASSUME NEW p \in Proc, ApplyReadback(p) PROVE [JournalNext]_journalVars
  <2>1. op[p] \in Op /\ rb[p] \in Readback
    BY <1>4 DEF ApplyReadback, At, WorksOnKnown, HoldsReadback
  <2>2. /\ rb[p].disposition \in {"VERIFIED", "FAILED"}
        /\ rb[p].evidence \in Evidence
        /\ rb[p].observed \in Observation \cup {Blank}
    BY <2>1 DEF Readback, OwnEvidence
  <2>3. rb[p].disposition = "FAILED" => rb[p].observed = Blank
    BY <1>4 DEF ApplyReadback, At, HoldsReadback
  <2> QED
    BY <1>4, <2>1, <2>2, <2>3 DEF ApplyReadback, JournalNext
<1>5. ASSUME NEW p \in Proc, RecordOutcome(p) PROVE [JournalNext]_journalVars
  <2> DEFINE r == [effect |-> EffectOf(op[p]), evidence |-> rb[p].evidence,
                   report |-> rb[p].report]
  <2>1. op[p] \in Op /\ Known(op[p]) /\ rb[p] \in Readback
    BY <1>5 DEF RecordOutcome, At, WorksOnKnown, HoldsReadback
  <2>2. r \in Outcome
    BY <2>1, EffectParts DEF TypeOK, Readback, OwnEvidence, Outcome
  <2> QED
    BY <1>5, <2>1, <2>2 DEF RecordOutcome, JournalNext
<1>6. ASSUME NEW p \in Proc, ProcStep(p) PROVE [JournalNext]_journalVars
  BY <1>1, <1>2, <1>3, <1>4, <1>5, <1>6 DEF ProcStep, BeginExecute, InvokeHandler,
     ReadbackAfterExecute, BeginReconcile, ReadbackForReconcile, CheckBeforeMark,
     BeginRecoverOutcome, ReadbackForRecovery, CompareWithVerification, Crash
<1> QED
  BY <1>6 DEF Next, LoseBinding,
     ClearTarget, RestoreEffect, vars

-----------------------------------------------------------------------------
(* What a step of process p leaves alone.                                  *)

\* The locals of every other process.
OthersAlone(p) ==
    \A q \in Proc \ {p} : /\ pc'[q] = pc[q] /\ req'[q] = req[q]
                          /\ op'[q] = op[q] /\ rb'[q] = rb[q]

\* The dispatch counters, but for the one dispatch p has the right to.
DispatchesOwn(p) ==
    \A o \in Op : \/ dispatched'[o] = dispatched[o]
                  \/ /\ pc[p] = "attempted" /\ op[p] = o
                     /\ dispatched'[o] = dispatched[o] + 1

LEMMA StepFrame ==
    ASSUME TypeOK, NEW p \in Proc, ProcStep(p)
    PROVE  OthersAlone(p) /\ DispatchesOwn(p)
<1> USE DEF TypeOK, OthersAlone, DispatchesOwn, Goto, Leave, At, TakeAnswer, worldVars
<1>1. ASSUME NEW k \in Key, NEW e \in Effect, BeginExecute(p, k, e)
      PROVE  OthersAlone(p) /\ DispatchesOwn(p)
  BY <1>1 DEF BeginExecute
<1>2. CASE Prepare(p)
  BY <1>2 DEF Prepare
<1>3. CASE Attempt(p)
  BY <1>3 DEF Attempt
<1>4. CASE InvokeHandler(p)
  BY <1>4 DEF InvokeHandler
<1>5. CASE MarkAmbiguous(p)
  BY <1>5 DEF MarkAmbiguous
<1>6. CASE ReadbackAfterExecute(p)
  BY <1>6 DEF ReadbackAfterExecute
<1>7. ASSUME NEW o \in Op, BeginReconcile(p, o) \/ BeginRecoverOutcome(p, o)
      PROVE  OthersAlone(p) /\ DispatchesOwn(p)
  BY <1>7 DEF BeginReconcile, BeginRecoverOutcome
<1>8. CASE ReadbackForReconcile(p)
  BY <1>8 DEF ReadbackForReconcile
<1>9. CASE CheckBeforeMark(p)
  BY <1>9 DEF CheckBeforeMark
<1>10. CASE ApplyReadback(p)
  BY <1>10 DEF ApplyReadback
<1>11. CASE RecordOutcome(p)
  BY <1>11 DEF RecordOutcome
<1>12. CASE ReadbackForRecovery(p)
  BY <1>12 DEF ReadbackForRecovery
<1>13. CASE CompareWithVerification(p)
  <2>1. CASE UNCHANGED <<req, op>> /\ Goto(p, "outcome")
              /\ rb' = [rb EXCEPT ![p].evidence = LatestEvent(op[p]).evidence]
    BY <1>13, <2>1 DEF CompareWithVerification
  <2>2. CASE Leave(p)
    BY <1>13, <2>2 DEF CompareWithVerification
  <2> QED
    BY <1>13, <2>1, <2>2 DEF CompareWithVerification
<1>14. CASE Crash(p)
  BY <1>14 DEF Crash
<1> QED
  BY <1>1, <1>2, <1>3, <1>4, <1>5, <1>6, <1>7, <1>8, <1>9, <1>10, <1>11, <1>12,
     <1>13, <1>14 DEF ProcStep

\* A call keeps its invariant while others, or the environment, take steps.
LEMMA OthersKeepCallInv ==
    ASSUME IInv, [JournalNext]_journalVars, NEW q \in Proc,
           pc'[q] = pc[q], req'[q] = req[q], op'[q] = op[q], rb'[q] = rb[q],
           \A o \in Op : dispatched'[o] \in Nat /\ dispatched'[o] >= dispatched[o],
           pc[q] = "attempted" => dispatched'[op[q]] = dispatched[op[q]]
    PROVE  CallInv(q)'
<1> USE DEF IInv, CallInv
<1>1. WorksOnKnown(q)'
  BY JournalGrows DEF WorksOnKnown
<1>2. Requested(q)'
  BY DEF Requested, AuthorizedSideEffect
<1>3. HoldsAttempt(q)'
  BY JournalGrows DEF HoldsAttempt, WorksOnKnown
<1>4. HoldsReadback(q)'
  <2>1. pc[q] = "apply" => op[q] \in Op /\ EffectOf(op[q])' = EffectOf(op[q])
    BY JournalGrows DEF WorksOnKnown, EffectOf
  <2>2. \A d \in Observation : dispatched[d.op] > 0 => dispatched'[d.op] > 0
    BY DEF Observation, TypeOK
  <2> QED
    BY <2>1, <2>2 DEF HoldsReadback
<1>5. WorksOnVerified(q)'
  <2> SUFFICES ASSUME pc[q] \in {"reobserve", "compare", "outcome"}
               PROVE  /\ events'[op[q]] # <<>>
                      /\ state(op[q])' = "VERIFIED"
                      /\ pc[q] = "outcome" =>
                            rb[q].observed = LatestEvent(op[q])'.digest
    BY DEF WorksOnVerified
  <2>1. op[q] \in Op /\ events[op[q]] # <<>> /\ Terminal(op[q])
    BY DEF WorksOnKnown, WorksOnVerified, Terminal
  <2>2. events'[op[q]] = events[op[q]]
    BY <2>1, JournalGrows
  <2> QED
    BY <2>1, <2>2 DEF WorksOnVerified, state, LatestEvent
<1> QED
  BY <1>1, <1>2, <1>3, <1>4, <1>5

-----------------------------------------------------------------------------
(* What a step of process p establishes for its own call.                  *)

\* A call that is over satisfies its invariant.
LEMMA IdleCallInv == ASSUME NEW p \in Proc, pc'[p] = "idle" PROVE CallInv(p)'
  BY DEF CallInv, WorksOnKnown, Requested, HoldsAttempt, HoldsReadback, WorksOnVerified

LEMMA LeaveIsIdle ==
    ASSUME TypeOK, NEW p \in Proc, Leave(p)
    PROVE  pc'[p] = "idle"
  BY DEF Leave, Goto, TypeOK

\* A successful prepare returns an operation with a row of the effect asked for.
LEMMA PreparedIsKnown ==
    ASSUME JournalTypeOK, NEW o \in Op, NEW k \in Key, NEW e \in Effect,
           prepare_effect_operation(o, k, e)
    PROVE  /\ Known(o)' /\ EffectOf(o)' = e
           /\ \A q \in Op : q # o => intent'[q] = intent[q]
<1>1. [key |-> k, effect |-> e] \in Intent
  BY DEF Intent
<1> QED
  BY <1>1, JournalAssumption DEF prepare_effect_operation, Holder, Known, EffectOf,
     JournalTypeOK, journalVars

LEMMA OwnCallInv ==
    ASSUME IInv, NEW p \in Proc, ProcStep(p), [JournalNext]_journalVars
    PROVE  CallInv(p)'
<1> USE DEF IInv, At
<1>1. /\ CallInv(p)
      /\ pc \in [Proc -> Label] /\ op \in [Proc -> Op \cup {NoOp}]
      /\ req \in [Proc -> Request \cup {NoRequest}]
      /\ rb \in [Proc -> Readback \cup {NoReadback}]
  BY DEF TypeOK
<1>2. CASE pc'[p] = "idle"
  BY <1>2, IdleCallInv
<1>3. ASSUME NEW k \in Key, NEW e \in Effect, BeginExecute(p, k, e)
      PROVE  CallInv(p)'
  <2>1. pc'[p] = "checked" /\ req'[p] = [key |-> k, effect |-> e]
    BY <1>1, <1>3 DEF BeginExecute, Goto
  <2>2. Requested(p)'
    BY <1>3, <2>1 DEF BeginExecute, Requested, Request, AuthorizedSideEffect
  <2> QED
    BY <2>1, <2>2 DEF CallInv, WorksOnKnown, HoldsAttempt, HoldsReadback, WorksOnVerified
<1>4. CASE Prepare(p)
  <2>1. CASE Leave(p)
    BY <2>1, <1>2, LeaveIsIdle
  <2>2. ASSUME NEW o \in Op,
               prepare_effect_operation(o, req[p].key, req[p].effect),
               Goto(p, "prepared"), op' = [op EXCEPT ![p] = o]
        PROVE  CallInv(p)'
    <3>1. req[p].key \in Key /\ req[p].effect \in Effect
      BY <1>1, <1>4 DEF Prepare, CallInv, Requested, Request
    <3>2. pc'[p] = "prepared" /\ op'[p] = o /\ Known(o)'
      BY <1>1, <2>2, <3>1, PreparedIsKnown DEF Goto, TypeOK
    <3> QED
      BY <3>2 DEF CallInv, WorksOnKnown, Requested, HoldsAttempt, HoldsReadback,
         WorksOnVerified, Known
  <2> QED
    BY <1>4, <2>1, <2>2 DEF Prepare
<1>5. CASE Attempt(p)
  <2>1. CASE Leave(p)
    BY <2>1, <1>2, LeaveIsIdle
  <2> DEFINE v == EffectOf(op[p]).binding
  <2>2. CASE record_effect_attempt(op[p], v) /\ Goto(p, "attempted")
             /\ UNCHANGED <<req, op, rb>>
    <3>1. pc'[p] = "attempted" /\ op'[p] = op[p] /\ op[p] \in Op /\ Known(op[p])'
      BY <1>1, <1>5, <2>2 DEF Attempt, Goto, CallInv, WorksOnKnown,
         record_effect_attempt, Known
    <3>2. /\ events[op[p]] = <<>>
          /\ events'[op[p]] = Append(<<>>, [state |-> "ATTEMPTED", evidence |-> v,
                                            digest |-> Blank])
      BY <2>2, <3>1 DEF record_effect_attempt, AppendEvent, TypeOK, JournalTypeOK
    <3>3. events'[op[p]] # <<>> /\ events'[op[p]][1].state = "ATTEMPTED"
      BY <3>2
    <3>4. dispatched'[op[p]] = 0
      BY <1>5, <3>1, <3>2 DEF Attempt, worldVars, TypeOK, DispatchIsJournalled
    <3> QED
      BY <3>1, <3>3, <3>4 DEF CallInv, WorksOnKnown, Requested, HoldsAttempt,
         HoldsReadback, WorksOnVerified, Known
  <2> QED
    BY <1>5, <2>1, <2>2 DEF Attempt
<1>6. CASE InvokeHandler(p)
  <2>1. pc'[p] \in {"handled", "mark"} /\ op'[p] = op[p] /\ op[p] \in Op
        /\ Known(op[p])'
    BY <1>1, <1>6 DEF InvokeHandler, Goto, CallInv, WorksOnKnown, Known, journalVars
  <2> QED
    BY <2>1 DEF CallInv, WorksOnKnown, Requested, HoldsAttempt, HoldsReadback,
       WorksOnVerified, Known
<1>7. ASSUME MarkAmbiguous(p) \/ RecordOutcome(p) \/ Crash(p) PROVE CallInv(p)'
  BY <1>7, <1>2, LeaveIsIdle DEF MarkAmbiguous, RecordOutcome, Crash
<1>8. ASSUME TakeAnswer(p), op[p] \in Op, Known(op[p]),
             UNCHANGED <<worldVars, journalVars>>
      PROVE  CallInv(p)'
  <2>1. CASE Goto(p, "checkmark") /\ UNCHANGED <<req, op, rb>>
    BY <1>1, <1>8, <2>1 DEF Goto, CallInv, WorksOnKnown, Requested, HoldsAttempt,
       HoldsReadback, WorksOnVerified, Known, journalVars
  <2>2. ASSUME NEW r \in Readback,
               AdapterAnswer(EffectOf(op[p]), r),
               r.missed = ~InPlace(EffectOf(op[p])),
               rb' = [rb EXCEPT ![p] = r],
               Goto(p, "apply"),
               UNCHANGED <<req, op>>
        PROVE  CallInv(p)'
    <3>1. pc'[p] = "apply" /\ rb'[p] = r /\ op'[p] = op[p]
      BY <1>1, <2>2 DEF Goto
    <3>2. EffectOf(op[p]) \in Effect /\ EffectOf(op[p]).target \in Target
      BY <1>8, EffectParts DEF TypeOK
    <3>3. ASSUME r.disposition = "VERIFIED"
          PROVE  /\ r.observed \in Observation
                 /\ r.observed.effect = EffectOf(op[p])
                 /\ dispatched[r.observed.op] > 0
      BY <2>2, <3>2, <3>3 DEF AdapterAnswer, InPlace, TargetWasDispatched, TypeOK
    <3>4. r.disposition = "FAILED" => r.observed = Blank /\ r.missed
      BY <2>2 DEF AdapterAnswer
    <3>5. HoldsReadback(p)'
      BY <1>8, <3>1, <3>3, <3>4 DEF HoldsReadback, EffectOf, worldVars, journalVars
    <3> QED
      BY <1>8, <3>1, <3>5 DEF CallInv, WorksOnKnown, Requested, HoldsAttempt,
         WorksOnVerified, Known, journalVars
  <2> QED
    BY <1>8, <2>1, <2>2 DEF TakeAnswer
<1>9. ASSUME ReadbackAfterExecute(p) \/ ReadbackForReconcile(p) PROVE CallInv(p)'
  <2>1. op[p] \in Op /\ Known(op[p]) /\ UNCHANGED <<worldVars, journalVars>>
    BY <1>1, <1>9 DEF ReadbackAfterExecute, ReadbackForReconcile, CallInv, WorksOnKnown
  <2>2. CASE TakeAnswer(p)
    BY <2>1, <2>2, <1>8
  <2>3. CASE (Goto(p, "mark") \/ Goto(p, "checkmark")) /\ UNCHANGED <<req, op, rb>>
    BY <1>1, <2>1, <2>3 DEF Goto, CallInv, WorksOnKnown, Requested, HoldsAttempt,
       HoldsReadback, WorksOnVerified, Known, journalVars
  <2> QED
    BY <1>9, <2>2, <2>3 DEF ReadbackAfterExecute, ReadbackForReconcile
<1>10. ASSUME NEW o \in Op, BeginReconcile(p, o) PROVE CallInv(p)'
  <2>1. pc'[p] = "observe" /\ op'[p] = o /\ Known(o)'
    BY <1>1, <1>10 DEF BeginReconcile, Goto, Known, journalVars
  <2> QED
    BY <2>1 DEF CallInv, WorksOnKnown, Requested, HoldsAttempt, HoldsReadback,
       WorksOnVerified, Known
<1>11. CASE CheckBeforeMark(p)
  <2>1. CASE Leave(p)
    BY <2>1, <1>2, LeaveIsIdle
  <2>2. CASE Goto(p, "mark") /\ UNCHANGED <<req, op, rb>>
    <3>1. pc'[p] = "mark" /\ op'[p] = op[p] /\ op[p] \in Op /\ Known(op[p])'
      BY <1>1, <1>11, <2>2 DEF CheckBeforeMark, Goto, CallInv, WorksOnKnown, Known,
         journalVars
    <3> QED
      BY <3>1 DEF CallInv, WorksOnKnown, Requested, HoldsAttempt, HoldsReadback,
         WorksOnVerified, Known
  <2> QED
    BY <1>11, <2>1, <2>2 DEF CheckBeforeMark
<1>12. CASE ApplyReadback(p)
  <2>1. CASE Leave(p)
    BY <2>1, <1>2, LeaveIsIdle
  <2>2. CASE /\ reconcile_effect_operation(op[p], rb[p].disposition,
                                           rb[p].evidence, rb[p].observed)
             /\ rb[p].disposition = "VERIFIED"
             /\ Goto(p, "outcome")
             /\ UNCHANGED <<req, op, rb>>
    <3>1. /\ pc[p] = "apply" /\ op[p] \in Op /\ Known(op[p]) /\ rb[p] \in Readback
          /\ rb[p].observed \in Observation
      BY <1>1, <1>12, <2>2 DEF ApplyReadback, CallInv, WorksOnKnown, HoldsReadback
    <3>2. pc'[p] = "outcome" /\ op'[p] = op[p] /\ rb'[p] = rb[p] /\ Known(op[p])'
      BY <1>1, <2>2, <3>1 DEF Goto, reconcile_effect_operation, Known
    <3> PICK o \in Op : o = op[p]
      BY <3>1
    <3>3. AppendEvent(o, "VERIFIED", rb[p].evidence, rb[p].observed)
      BY <2>2 DEF reconcile_effect_operation
    <3>4. "VERIFIED" \in EventState /\ rb[p].evidence \in Evidence
      BY <3>1 DEF EventState, Readback, OwnEvidence
    <3>5. /\ events'[o] # <<>>
          /\ state(o)' = "VERIFIED"
          /\ LatestEvent(o)' = [state |-> "VERIFIED", evidence |-> rb[p].evidence,
                                digest |-> rb[p].observed]
      BY <3>1, <3>3, <3>4, AppendedIsLatest DEF TypeOK
    <3>6. /\ WorksOnKnown(p)' /\ Requested(p)' /\ HoldsAttempt(p)' /\ HoldsReadback(p)'
      BY <3>1, <3>2 DEF WorksOnKnown, Requested, HoldsAttempt, HoldsReadback, Known
    <3>7. WorksOnVerified(p)'
      BY <3>1, <3>2, <3>5 DEF WorksOnVerified, state, LatestEvent
    <3> QED
      BY <3>6, <3>7 DEF CallInv
  <2> QED
    BY <1>12, <2>1, <2>2 DEF ApplyReadback
<1>13. ASSUME NEW o \in Op, BeginRecoverOutcome(p, o) PROVE CallInv(p)'
  <2>1. /\ pc'[p] = "reobserve" /\ op'[p] = o /\ Known(o)'
        /\ state(o)' = "VERIFIED" /\ events'[o] # <<>>
    BY <1>1, <1>13 DEF BeginRecoverOutcome, Goto, Known, journalVars, state, LatestEvent
  <2> QED
    BY <2>1 DEF CallInv, WorksOnKnown, Requested, HoldsAttempt, HoldsReadback,
       WorksOnVerified, Known, state, LatestEvent
<1>14. CASE ReadbackForRecovery(p)
  <2>1. CASE Leave(p)
    BY <2>1, <1>2, LeaveIsIdle
  <2>2. ASSUME NEW r \in Readback, rb' = [rb EXCEPT ![p] = r],
               Goto(p, "compare"), UNCHANGED <<req, op>>
        PROVE  CallInv(p)'
    <3>1. /\ pc[p] = "reobserve" /\ op[p] \in Op /\ Known(op[p])
          /\ UNCHANGED journalVars
      BY <1>1, <1>14 DEF ReadbackForRecovery, CallInv, WorksOnKnown
    <3>2. events[op[p]] # <<>> /\ state(op[p]) = "VERIFIED"
      BY <1>1, <3>1 DEF CallInv, WorksOnVerified
    <3>3. pc'[p] = "compare" /\ op'[p] = op[p] /\ rb'[p] = r
      BY <1>1, <2>2 DEF Goto
    <3> QED
      BY <3>1, <3>2, <3>3 DEF CallInv, WorksOnKnown, Requested, HoldsAttempt,
         HoldsReadback, WorksOnVerified, Known, journalVars, state, LatestEvent
  <2> QED
    BY <1>14, <2>1, <2>2 DEF ReadbackForRecovery
<1>15. CASE CompareWithVerification(p)
  <2> DEFINE v == LatestEvent(op[p])
  <2>1. CASE Leave(p)
    BY <2>1, <1>2, LeaveIsIdle
  <2>2. CASE /\ v.digest = rb[p].observed
             /\ rb' = [rb EXCEPT ![p] = [rb[p] EXCEPT !.evidence = v.evidence]]
             /\ Goto(p, "outcome")
             /\ UNCHANGED <<req, op>>
    <3>1. /\ pc[p] = "compare" /\ op[p] \in Op /\ Known(op[p]) /\ rb[p] \in Readback
          /\ UNCHANGED journalVars
      BY <1>1, <1>15 DEF CompareWithVerification, CallInv, WorksOnKnown, HoldsReadback
    <3>2. events[op[p]] # <<>> /\ state(op[p]) = "VERIFIED"
      BY <1>1, <3>1 DEF CallInv, WorksOnVerified
    <3>3. v.evidence \in OwnEvidence
      BY <1>1, <3>1, <3>2 DEF VerifiedWasObserved
    <3> DEFINE r == [rb[p] EXCEPT !.evidence = v.evidence]
    <3>4. r \in Readback /\ r.observed = rb[p].observed
      BY <3>1, <3>3 DEF Readback
    <3>5. pc'[p] = "outcome" /\ op'[p] = op[p] /\ rb'[p] = r
      BY <1>1, <2>2 DEF Goto
    <3> HIDE DEF r
    <3>6. WorksOnKnown(p)' /\ Requested(p)' /\ HoldsAttempt(p)' /\ HoldsReadback(p)'
      BY <3>1, <3>4, <3>5 DEF WorksOnKnown, Requested, HoldsAttempt, HoldsReadback,
         Known, journalVars
    <3>7. WorksOnVerified(p)'
      BY <2>2, <3>1, <3>2, <3>4, <3>5 DEF WorksOnVerified, journalVars, state, LatestEvent
    <3> QED
      BY <3>6, <3>7 DEF CallInv
  <2> QED
    BY <1>15, <2>1, <2>2 DEF CompareWithVerification
<1> QED
  BY <1>3, <1>4, <1>5, <1>6, <1>7, <1>9, <1>10, <1>11, <1>12, <1>13, <1>14, <1>15
     DEF ProcStep

-----------------------------------------------------------------------------
(* What every step preserves globally.                                     *)

LEMMA LeaveTypeOK ==
    ASSUME TypeOK, NEW p \in Proc, Leave(p)
    PROVE  /\ pc' \in [Proc -> Label]
           /\ req' \in [Proc -> Request \cup {NoRequest}]
           /\ op' \in [Proc -> Op \cup {NoOp}]
           /\ rb' \in [Proc -> Readback \cup {NoReadback}]
  BY DEF Leave, Goto, TypeOK, Label

LEMMA TakeAnswerTypeOK ==
    ASSUME TypeOK, NEW p \in Proc, TakeAnswer(p)
    PROVE  /\ pc' \in [Proc -> Label]
           /\ UNCHANGED <<req, op>>
           /\ rb' \in [Proc -> Readback \cup {NoReadback}]
  BY DEF TakeAnswer, Goto, TypeOK, Label

\* The effect of a recorded operation fits its target.
LEMMA WithEffectIsTarget ==
    ASSUME JournalTypeOK, target \in [Target -> Observation \cup {Blank}],
           NEW o \in Op, Known(o)
    PROVE  /\ WithEffectOf(o) \in [Target -> Observation \cup {Blank}]
           /\ \A t \in Target : WithEffectOf(o)[t] = target[t] \/ WithEffectOf(o)[t].op = o
<1>1. [op |-> o, effect |-> EffectOf(o)] \in Observation
  BY EffectParts DEF Observation
<1> QED
  BY <1>1 DEF WithEffectOf

LEMMA StepTypeOK ==
    ASSUME IInv, [Next]_vars, JournalTypeOK'
    PROVE  TypeOK'
<1> USE DEF IInv, Label
<1> DEFINE Locals == /\ pc \in [Proc -> Label]
                     /\ req \in [Proc -> Request \cup {NoRequest}]
                     /\ op \in [Proc -> Op \cup {NoOp}]
                     /\ rb \in [Proc -> Readback \cup {NoReadback}]
           World == /\ current \subseteq Binding
                    /\ target \in [Target -> Observation \cup {Blank}]
                    /\ dispatched \in [Op -> Nat]
<1>1. Locals /\ World
  BY DEF TypeOK
<1>2. ASSUME NEW p \in Proc, ProcStep(p) PROVE Locals'
  <2>1. ASSUME NEW k \in Key, NEW e \in Effect, BeginExecute(p, k, e) PROVE Locals'
    BY <1>1, <2>1 DEF BeginExecute, Goto, Request
  <2>2. CASE Prepare(p)
    BY <1>1, <2>2, LeaveTypeOK DEF Prepare, Goto
  <2>3. CASE Attempt(p)
    BY <1>1, <2>3, LeaveTypeOK DEF Attempt, Goto
  <2>4. CASE InvokeHandler(p)
    BY <1>1, <2>4 DEF InvokeHandler, Goto
  <2>5. ASSUME MarkAmbiguous(p) \/ RecordOutcome(p) \/ Crash(p) PROVE Locals'
    BY <1>1, <2>5, LeaveTypeOK DEF MarkAmbiguous, RecordOutcome, Crash
  <2>6. ASSUME ReadbackAfterExecute(p) \/ ReadbackForReconcile(p) PROVE Locals'
    BY <1>1, <2>6, TakeAnswerTypeOK DEF ReadbackAfterExecute, ReadbackForReconcile, Goto
  <2>7. ASSUME NEW o \in Op, BeginReconcile(p, o) \/ BeginRecoverOutcome(p, o)
        PROVE  Locals'
    BY <1>1, <2>7 DEF BeginReconcile, BeginRecoverOutcome, Goto
  <2>8. CASE CheckBeforeMark(p)
    BY <1>1, <2>8, LeaveTypeOK DEF CheckBeforeMark, Goto
  <2>9. CASE ApplyReadback(p)
    BY <1>1, <2>9, LeaveTypeOK DEF ApplyReadback, Goto
  <2>10. CASE ReadbackForRecovery(p)
    BY <1>1, <2>10, LeaveTypeOK DEF ReadbackForRecovery, Goto
  <2>11. CASE CompareWithVerification(p)
    <3>1. CASE Leave(p)
      BY <3>1, LeaveTypeOK
    <3>2. CASE /\ UNCHANGED <<req, op>> /\ Goto(p, "outcome")
               /\ rb' = [rb EXCEPT ![p] =
                           [rb[p] EXCEPT !.evidence = LatestEvent(op[p]).evidence]]
      <4>1. CallInv(p)' /\ pc'[p] = "outcome"
        BY <1>1, <1>2, <3>2, OwnCallInv, CoordinatorUsesJournal DEF Goto, Next
      <4>2. rb'[p] \in Readback
        BY <4>1 DEF CallInv, HoldsReadback
      <4> QED
        BY <1>1, <3>2, <4>2 DEF Goto
    <3> QED
      BY <2>11, <3>1, <3>2 DEF CompareWithVerification
  <2> QED
    BY <1>2, <2>1, <2>2, <2>3, <2>4, <2>5, <2>6, <2>7, <2>8, <2>9, <2>10, <2>11
       DEF ProcStep
<1>3. ASSUME NEW p \in Proc, InvokeHandler(p) PROVE World'
  <2>1. op[p] \in Op /\ Known(op[p])
    BY <1>3 DEF InvokeHandler, At, CallInv, WorksOnKnown
  <2>2. WithEffectOf(op[p]) \in [Target -> Observation \cup {Blank}]
    BY <1>1, <2>1, WithEffectIsTarget DEF TypeOK
  <2>4. dispatched' \in [Op -> Nat]
    BY <1>1, <1>3, <2>1 DEF InvokeHandler
  <2>5. target' \in [Target -> Observation \cup {Blank}]
    BY <1>1, <1>3, <2>2 DEF InvokeHandler
  <2> QED
    BY <1>1, <1>3, <2>4, <2>5 DEF InvokeHandler
<1>4. ASSUME NEW p \in Proc, ProcStep(p), ~InvokeHandler(p) PROVE World'
  BY <1>1, <1>4 DEF ProcStep, BeginExecute, Prepare, Attempt, MarkAmbiguous,
     ReadbackAfterExecute, BeginReconcile, ReadbackForReconcile, CheckBeforeMark,
     ApplyReadback, RecordOutcome, BeginRecoverOutcome, ReadbackForRecovery,
     CompareWithVerification, Crash, worldVars
<1>5. ASSUME NEW b \in Binding, LoseBinding(b) PROVE Locals' /\ World'
  BY <1>1, <1>5 DEF LoseBinding, localVars
<1>6. ASSUME NEW t \in Target, ClearTarget(t) PROVE Locals' /\ World'
  BY <1>1, <1>6 DEF ClearTarget, localVars
<1>8. ASSUME NEW o \in Op, RestoreEffect(o) PROVE Locals' /\ World'
  <2>1. Known(o)
    BY <1>8 DEF RestoreEffect, DispatchIsJournalled
  <2>2. WithEffectOf(o) \in [Target -> Observation \cup {Blank}]
    BY <1>1, <2>1, WithEffectIsTarget DEF TypeOK
  <2> QED
    BY <1>1, <1>8, <2>2 DEF RestoreEffect, localVars
<1>7. ASSUME UNCHANGED vars PROVE Locals' /\ World'
  BY <1>1, <1>7 DEF vars, localVars, worldVars
<1> QED
  BY <1>2, <1>3, <1>4, <1>5, <1>6, <1>7, <1>8 DEF Next, TypeOK

\* The right to dispatch comes from the first event of an operation only.
LEMMA OnlyAttemptGrants ==
    ASSUME TypeOK, NEW p \in Proc, ProcStep(p), pc'[p] = "attempted"
    PROVE  /\ op'[p] = op[p] /\ events[op[p]] = <<>>
           /\ pc[p] = "prepared"
<1> USE DEF TypeOK, Goto, Leave, At
<1>1. CASE Attempt(p)
  BY <1>1 DEF Attempt, record_effect_attempt
<1>2. CASE Prepare(p)
  BY <1>2 DEF Prepare
<1>3. ASSUME NEW k \in Key, NEW e \in Effect, BeginExecute(p, k, e) PROVE FALSE
  BY <1>3 DEF BeginExecute
<1>4. ASSUME NEW o \in Op, BeginReconcile(p, o) \/ BeginRecoverOutcome(p, o) PROVE FALSE
  BY <1>4 DEF BeginReconcile, BeginRecoverOutcome
<1>5. ASSUME InvokeHandler(p) \/ MarkAmbiguous(p) \/ RecordOutcome(p) \/ Crash(p)
             \/ CheckBeforeMark(p) \/ ApplyReadback(p)
      PROVE  FALSE
  BY <1>5 DEF InvokeHandler, MarkAmbiguous, RecordOutcome, Crash, CheckBeforeMark,
     ApplyReadback
<1>6. ASSUME ReadbackAfterExecute(p) \/ ReadbackForReconcile(p) \/ ReadbackForRecovery(p)
      PROVE  FALSE
  BY <1>6 DEF ReadbackAfterExecute, ReadbackForReconcile, ReadbackForRecovery, TakeAnswer
<1>7. ASSUME CompareWithVerification(p) PROVE FALSE
  <2>1. Goto(p, "outcome") \/ Goto(p, "idle")
    BY <1>7 DEF CompareWithVerification
  <2> QED
    BY <2>1
<1> QED
  BY <1>1, <1>2, <1>3, <1>4, <1>5, <1>6, <1>7 DEF ProcStep

LEMMA StepSoleAttempt ==
    ASSUME IInv, NEW p \in Proc, ProcStep(p)
    PROVE  SoleAttempt'
<1> USE DEF IInv
<1>1. OthersAlone(p)
  BY StepFrame
<1>2. ASSUME NEW q \in Proc, q # p, pc'[p] = "attempted", pc'[q] = "attempted"
      PROVE  op'[p] # op'[q]
  <2>1. op'[p] = op[p] /\ events[op[p]] = <<>>
    BY <1>2, OnlyAttemptGrants
  <2>2. op'[q] = op[q] /\ pc[q] = "attempted"
    BY <1>1, <1>2 DEF OthersAlone
  <2>3. events[op[q]] # <<>>
    BY <2>2 DEF CallInv, HoldsAttempt
  <2> QED
    BY <2>1, <2>2, <2>3
<1> QED
  BY <1>1, <1>2 DEF SoleAttempt, OthersAlone

\* Only prepare() adds a row, and only for a request that passed the checks.
LEMMA StepAdmitted ==
    ASSUME IInv, [Next]_vars, [JournalNext]_journalVars
    PROVE  Admitted'
<1> USE DEF IInv
<1> SUFFICES ASSUME NEW o \in Op, Known(o)'
             PROVE  EffectOf(o)' \in BoundEffect /\ AuthorizedSideEffect(EffectOf(o)')
  BY DEF Admitted
<1>1. CASE Known(o)
  BY <1>1, JournalGrows DEF Admitted, EffectOf
<1>2. CASE ~Known(o)
  <2>1. PICK p \in Proc : Prepare(p)
    <3>1. intent' # intent
      BY <1>2 DEF Known
    <3> QED
      BY <3>1 DEF Next, vars, ProcStep, BeginExecute, Attempt, InvokeHandler,
         MarkAmbiguous, ReadbackAfterExecute, BeginReconcile, ReadbackForReconcile,
         CheckBeforeMark, ApplyReadback, RecordOutcome, BeginRecoverOutcome,
         ReadbackForRecovery, CompareWithVerification, Crash, LoseBinding,
     ClearTarget, RestoreEffect, journalVars, record_effect_attempt, reconcile_effect_operation,
         record_verified_outcome_observation
  <2>2. /\ req[p].key \in Key /\ req[p].effect \in Effect
        /\ req[p].effect \in BoundEffect /\ AuthorizedSideEffect(req[p].effect)
    BY <2>1 DEF Prepare, At, CallInv, Requested, Request
  <2>3. PICK q \in Op : prepare_effect_operation(q, req[p].key, req[p].effect)
    BY <1>2, <2>1 DEF Prepare, Known, journalVars
  <2>4. /\ EffectOf(q)' = req[p].effect
        /\ \A r \in Op : r # q => intent'[r] = intent[r]
    BY <2>2, <2>3, PreparedIsKnown DEF TypeOK
  <2>5. q = o
    BY <1>2, <2>4 DEF Known
  <2> QED
    BY <2>2, <2>4, <2>5
<1> QED
  BY <1>1, <1>2

LEMMA StepTargetWasDispatched ==
    ASSUME IInv, [Next]_vars, TypeOK'
    PROVE  TargetWasDispatched'
<1> USE DEF IInv
<1>1. ASSUME NEW p \in Proc, InvokeHandler(p) PROVE TargetWasDispatched'
  <2>1. op[p] \in Op /\ Known(op[p])
    BY <1>1 DEF InvokeHandler, At, CallInv, WorksOnKnown
  <2>2. dispatched' = [dispatched EXCEPT ![op[p]] = dispatched[op[p]] + 1]
    BY <1>1 DEF InvokeHandler
  <2>3. \A o \in Op : dispatched[o] \in Nat /\ dispatched'[o] >= dispatched[o]
    BY <2>1, <2>2 DEF TypeOK
  <2>4. dispatched'[op[p]] > 0
    BY <2>1, <2>2 DEF TypeOK
  <2>5. \A t \in Target : \/ target'[t] = target[t]
                          \/ target'[t].op = op[p]
    BY <1>1, <2>1, WithEffectIsTarget DEF InvokeHandler, TypeOK
  <2>6. \A t \in Target : target[t] # Blank => target[t].op \in Op
    BY DEF TypeOK, Observation
  <2> QED
    BY <2>3, <2>4, <2>5, <2>6 DEF TargetWasDispatched, TypeOK
<1>2. ASSUME NEW p \in Proc, ProcStep(p), ~InvokeHandler(p)
      PROVE  UNCHANGED <<target, dispatched>>
  BY <1>2 DEF ProcStep, BeginExecute, Prepare, Attempt, MarkAmbiguous,
     ReadbackAfterExecute, BeginReconcile, ReadbackForReconcile, CheckBeforeMark,
     ApplyReadback, RecordOutcome, BeginRecoverOutcome, ReadbackForRecovery,
     CompareWithVerification, Crash, worldVars
<1>3. ASSUME NEW t \in Target, ClearTarget(t) PROVE TargetWasDispatched'
  BY <1>3 DEF ClearTarget, TargetWasDispatched, TypeOK
<1>4. ASSUME NEW o \in Op, RestoreEffect(o) PROVE TargetWasDispatched'
  <2>1. dispatched' = dispatched /\ dispatched[o] > 0
    BY <1>4 DEF RestoreEffect
  <2>2. \A t \in Target : target'[t] = target[t] \/ target'[t].op = o
    BY <1>4, WithEffectIsTarget DEF RestoreEffect, DispatchIsJournalled, TypeOK
  <2> QED
    BY <2>1, <2>2 DEF TargetWasDispatched
<1> QED
  BY <1>1, <1>2, <1>3, <1>4 DEF Next, LoseBinding, vars, worldVars, TargetWasDispatched

\* No step but a dispatch of one's own changes a counter.
LEMMA EnvironmentDispatchesNothing ==
    ASSUME [Next]_vars, ~\E p \in Proc : ProcStep(p)
    PROVE  /\ UNCHANGED <<localVars, journalVars, dispatched>>
  BY DEF Next, LoseBinding,
     ClearTarget, RestoreEffect, vars, worldVars

LEMMA StepDispatchIsJournalled ==
    ASSUME IInv, [Next]_vars, [JournalNext]_journalVars, Admitted'
    PROVE  DispatchIsJournalled'
<1> USE DEF IInv
<1> SUFFICES ASSUME NEW o \in Op, dispatched'[o] > 0
             PROVE  /\ Known(o)' /\ events'[o] # <<>>
                    /\ events'[o][1].state = "ATTEMPTED"
                    /\ EffectOf(o)'.binding \in Protected
                          => EffectOf(o)'.authority # Blank
  BY DEF DispatchIsJournalled
<1>1. Known(o) /\ events[o] # <<>> /\ events[o][1].state = "ATTEMPTED"
  <2>1. CASE dispatched[o] > 0
    BY <2>1 DEF DispatchIsJournalled
  <2>2. ASSUME NEW p \in Proc, pc[p] = "attempted", op[p] = o
        PROVE  Known(o) /\ events[o] # <<>> /\ events[o][1].state = "ATTEMPTED"
    BY <2>2 DEF CallInv, WorksOnKnown, HoldsAttempt
  <2> QED
    BY <2>1, <2>2, StepFrame, EnvironmentDispatchesNothing DEF DispatchesOwn
<1>2. Known(o)' /\ events'[o] # <<>> /\ events'[o][1] = events[o][1]
  BY <1>1, JournalGrows
<1> QED
  BY <1>1, <1>2 DEF Admitted, AuthorizedSideEffect

LEMMA StepAtMostOnceDispatch ==
    ASSUME IInv, [Next]_vars, DispatchIsJournalled', KeyIdentifiesOneOperation'
    PROVE  AtMostOnceDispatch'
<1> USE DEF IInv
<1>1. \A o \in Op : dispatched[o] \in Nat /\ dispatched[o] <= 1
  BY DEF TypeOK, AtMostOnceDispatch
<1>2. ASSUME NEW o \in Op PROVE dispatched'[o] <= 1
  <2>1. ASSUME NEW p \in Proc, ProcStep(p) PROVE dispatched'[o] <= 1
    <3>1. \/ dispatched'[o] = dispatched[o]
          \/ /\ pc[p] = "attempted" /\ op[p] = o
             /\ dispatched'[o] = dispatched[o] + 1
      BY <2>1, StepFrame DEF DispatchesOwn
    <3>2. pc[p] = "attempted" => dispatched[op[p]] = 0
      BY DEF CallInv, HoldsAttempt
    <3> QED
      BY <1>1, <3>1, <3>2
  <2> QED
    BY <1>1, <2>1, EnvironmentDispatchesNothing
<1>3. \A o1, o2 \in Op :
         dispatched'[o1] > 0 /\ dispatched'[o2] > 0
           /\ intent'[o1].key = intent'[o2].key => o1 = o2
  BY DEF DispatchIsJournalled, KeyIdentifiesOneOperation
<1> QED
  BY <1>2, <1>3 DEF AtMostOnceDispatch

\* A VERIFIED or FAILED event is appended by a readback that is applied, and by
\* nothing else.
LEMMA OnlyApplySettles ==
    ASSUME IInv, [Next]_vars, NEW o \in Op, events'[o] # events[o],
           state(o)' \in {"VERIFIED", "FAILED"}
    PROVE  \E p \in Proc :
              /\ ApplyReadback(p) /\ op[p] = o
              /\ rb[p].disposition = state(o)'
              /\ LatestEvent(o)'.digest = rb[p].observed
              /\ LatestEvent(o)'.evidence = rb[p].evidence
<1> USE DEF IInv
<1>1. PICK p \in Proc : Attempt(p) \/ MarkAmbiguous(p) \/ ApplyReadback(p)
  BY DEF Next, vars, ProcStep, BeginExecute, InvokeHandler, Prepare,
     ReadbackAfterExecute, BeginReconcile, ReadbackForReconcile, CheckBeforeMark,
     RecordOutcome, BeginRecoverOutcome, ReadbackForRecovery,
     CompareWithVerification, Crash, LoseBinding,
     ClearTarget, RestoreEffect, journalVars,
     prepare_effect_operation, record_verified_outcome_observation
<1>2. op[p] \in Op
  BY <1>1 DEF Attempt, MarkAmbiguous, ApplyReadback, At, CallInv, WorksOnKnown
<1>3. ASSUME NEW q \in Op, NEW s \in EventState, NEW v \in Evidence \cup {Blank},
             NEW d \in Observation \cup {Blank}, AppendEvent(q, s, v, d)
      PROVE  /\ q = o /\ s = state(o)'
             /\ LatestEvent(o)'.digest = d /\ LatestEvent(o)'.evidence = v
  <2>0. /\ events' = [events EXCEPT ![q] = events'[q]] /\ state(q)' = s
        /\ LatestEvent(q)' = [state |-> s, evidence |-> v, digest |-> d]
    <3>1. JournalTypeOK
      BY DEF TypeOK
    <3> QED
      BY <1>3, <3>1, AppendedIsLatest
  <2>1. events' = [events EXCEPT ![q] = events'[q]] /\ state(q)' = s
        /\ LatestEvent(q)'.digest = d /\ LatestEvent(q)'.evidence = v
    BY <2>0
  <2>2. q = o
    BY <2>1 DEF TypeOK, JournalTypeOK
  <2> QED
    BY <2>1, <2>2
<1>4. ~Attempt(p)
  <2> SUFFICES ASSUME Attempt(p) PROVE FALSE
    OBVIOUS
  <2>1. AppendEvent(op[p], "ATTEMPTED", EffectOf(op[p]).binding, Blank)
    BY DEF Attempt, record_effect_attempt, journalVars
  <2>2. EffectOf(op[p]).binding \in Evidence
    BY <1>2, EffectParts DEF Attempt, At, CallInv, WorksOnKnown, TypeOK
  <2> QED
    BY <1>2, <1>3, <2>1, <2>2 DEF EventState
<1>5. ~MarkAmbiguous(p)
  <2> SUFFICES ASSUME MarkAmbiguous(p) PROVE FALSE
    OBVIOUS
  <2>1. PICK v \in Evidence : AppendEvent(op[p], "AMBIGUOUS", v, Blank)
    BY DEF MarkAmbiguous, OwnEvidence, reconcile_effect_operation, journalVars
  <2> QED
    BY <1>2, <1>3, <2>1 DEF EventState
<1>6. ApplyReadback(p)
  BY <1>1, <1>4, <1>5
<1>7. rb[p] \in Readback /\ rb[p].disposition \in EventState
  BY <1>6 DEF ApplyReadback, At, CallInv, HoldsReadback, Readback, EventState
<1>8. AppendEvent(op[p], rb[p].disposition, rb[p].evidence, rb[p].observed)
  BY <1>6 DEF ApplyReadback, reconcile_effect_operation, journalVars
<1>9. op[p] = o /\ rb[p].disposition = state(o)'
      /\ LatestEvent(o)'.digest = rb[p].observed
      /\ LatestEvent(o)'.evidence = rb[p].evidence
  BY <1>2, <1>3, <1>7, <1>8 DEF Readback, OwnEvidence
<1> QED
  BY <1>6, <1>9

LEMMA StepVerifiedWasObserved ==
    ASSUME IInv, [Next]_vars, [JournalNext]_journalVars, TypeOK'
    PROVE  VerifiedWasObserved'
<1> USE DEF IInv
<1> SUFFICES ASSUME NEW o \in Op, events'[o] # <<>>, state(o)' = "VERIFIED"
             PROVE  /\ LatestEvent(o)'.evidence \in OwnEvidence
                    /\ LatestEvent(o)'.digest # Blank
                    /\ LatestEvent(o)'.digest.effect = EffectOf(o)'
                    /\ dispatched'[LatestEvent(o)'.digest.op] > 0
  BY DEF VerifiedWasObserved
<1>1. \A q \in Op : dispatched'[q] \in Nat /\ dispatched'[q] >= dispatched[q]
  BY StepFrame, EnvironmentDispatchesNothing DEF DispatchesOwn, TypeOK
<1>2. CASE events'[o] = events[o]
  <2>1. state(o) = "VERIFIED" /\ LatestEvent(o)' = LatestEvent(o)
    BY <1>2 DEF state, LatestEvent
  <2>2. LatestEvent(o).digest \in Observation
    BY <1>2, <2>1, LatestIsLogged DEF VerifiedWasObserved, TypeOK, Event
  <2>3. EffectOf(o)' = EffectOf(o)
    BY <1>2, JournalGrows DEF EffectOf, JournalInv, EventsOfKnown
  <2>4. LatestEvent(o).digest.op \in Op
    BY <2>2 DEF Observation
  <2>5. /\ LatestEvent(o).evidence \in OwnEvidence
        /\ LatestEvent(o).digest.effect = EffectOf(o)
        /\ dispatched[LatestEvent(o).digest.op] > 0
    BY <1>2, <2>1 DEF VerifiedWasObserved
  <2>6. LatestEvent(o).digest # Blank
    BY <2>2, JournalAssumption
  <2>7. dispatched'[LatestEvent(o).digest.op] > 0
    BY <1>1, <2>4, <2>5 DEF TypeOK
  <2> QED
    BY <2>1, <2>3, <2>5, <2>6, <2>7
<1>3. CASE events'[o] # events[o]
  <2>1. PICK p \in Proc :
              /\ ApplyReadback(p) /\ op[p] = o
              /\ rb[p].disposition = "VERIFIED"
              /\ LatestEvent(o)'.digest = rb[p].observed
              /\ LatestEvent(o)'.evidence = rb[p].evidence
    BY <1>3, OnlyApplySettles
  <2>2. /\ rb[p].observed \in Observation
        /\ rb[p].evidence \in OwnEvidence
        /\ rb[p].observed.effect = EffectOf(o)
        /\ dispatched[rb[p].observed.op] > 0
        /\ Known(o)
    BY <2>1 DEF ApplyReadback, At, CallInv, HoldsReadback, WorksOnKnown, Readback
  <2>3. EffectOf(o)' = EffectOf(o)
    BY <2>2, JournalGrows DEF EffectOf
  <2>4. rb[p].observed.op \in Op /\ rb[p].observed # Blank
    BY <2>2, JournalAssumption DEF Observation
  <2>5. dispatched'[rb[p].observed.op] > 0
    BY <1>1, <2>2, <2>4 DEF TypeOK
  <2> QED
    BY <2>1, <2>2, <2>3, <2>4, <2>5
<1> QED
  BY <1>2, <1>3

-----------------------------------------------------------------------------
(* The invariant is inductive.                                             *)

LEMMA InitIInv == Init => IInv
<1> SUFFICES ASSUME Init PROVE IInv
  OBVIOUS
<1>1. JournalInv
  BY JournalInitInv DEF Init
<1>2. TypeOK
  BY <1>1 DEF Init, TypeOK, Label, JournalInv
<1>3. ASSUME NEW p \in Proc PROVE CallInv(p) /\ pc[p] = "idle"
  BY DEF Init, CallInv, WorksOnKnown, Requested, HoldsAttempt, HoldsReadback,
     WorksOnVerified
<1>4. \A o \in Op : dispatched[o] = 0 /\ ~Known(o) /\ events[o] = <<>>
  BY DEF Init, JournalInit, Known
<1>5. TargetWasDispatched
  BY DEF Init, TargetWasDispatched
<1>6. Admitted /\ AtMostOnceDispatch /\ DispatchIsJournalled /\ VerifiedWasObserved
  BY <1>4 DEF Admitted, AtMostOnceDispatch, DispatchIsJournalled, VerifiedWasObserved
<1> QED
  BY <1>1, <1>2, <1>3, <1>5, <1>6 DEF IInv, SoleAttempt

LEMMA StepIInv == IInv /\ [Next]_vars => IInv'
<1> SUFFICES ASSUME IInv, [Next]_vars PROVE IInv'
  OBVIOUS
<1>1. [JournalNext]_journalVars
  BY CoordinatorUsesJournal
<1>2. JournalInv'
  BY <1>1, JournalStepInv DEF IInv
<1>3. TypeOK'
  BY <1>2, StepTypeOK DEF JournalInv
<1>4. Admitted'
  BY <1>1, StepAdmitted
<1>5. DispatchIsJournalled'
  BY <1>1, <1>4, StepDispatchIsJournalled
<1>6. AtMostOnceDispatch'
  BY <1>2, <1>5, StepAtMostOnceDispatch DEF JournalInv
<1>7. TargetWasDispatched' /\ VerifiedWasObserved'
  BY <1>1, <1>3, StepTargetWasDispatched, StepVerifiedWasObserved
<1>8. \A o \in Op : dispatched[o] \in Nat /\ dispatched'[o] \in Nat
  BY <1>3 DEF IInv, TypeOK
<1>9. ASSUME NEW p \in Proc, ProcStep(p)
      PROVE  SoleAttempt' /\ \A q \in Proc : CallInv(q)'
  <2>1. OthersAlone(p) /\ DispatchesOwn(p)
    BY <1>9, StepFrame DEF IInv
  <2>2. ASSUME NEW q \in Proc, q # p PROVE CallInv(q)'
    <3>1. pc'[q] = pc[q] /\ req'[q] = req[q] /\ op'[q] = op[q] /\ rb'[q] = rb[q]
      BY <2>1, <2>2 DEF OthersAlone
    <3>2. \A o \in Op : dispatched'[o] >= dispatched[o]
      BY <1>8, <2>1 DEF DispatchesOwn
    <3>3. pc[q] = "attempted" => dispatched'[op[q]] = dispatched[op[q]]
      BY <2>1, <2>2 DEF DispatchesOwn, IInv, SoleAttempt, CallInv, WorksOnKnown
    <3> QED
      BY <1>1, <1>8, <3>1, <3>2, <3>3, OthersKeepCallInv
  <2>3. CallInv(p)'
    BY <1>1, <1>9, OwnCallInv
  <2> QED
    BY <1>9, <2>2, <2>3, StepSoleAttempt
<1>10. ASSUME ~\E p \in Proc : ProcStep(p)
       PROVE  SoleAttempt' /\ \A q \in Proc : CallInv(q)'
  <2>1. UNCHANGED <<localVars, dispatched>>
    BY <1>10, EnvironmentDispatchesNothing
  <2>2. pc' = pc /\ req' = req /\ op' = op /\ rb' = rb /\ dispatched' = dispatched
    BY <2>1 DEF localVars
  <2>3. ASSUME NEW q \in Proc PROVE CallInv(q)'
    BY <1>1, <1>8, <2>2, OthersKeepCallInv
  <2>4. SoleAttempt'
    BY <2>2 DEF IInv, SoleAttempt
  <2> QED
    BY <2>3, <2>4
<1> QED
  BY <1>2, <1>3, <1>4, <1>5, <1>6, <1>7, <1>9, <1>10 DEF IInv

\* The inductive invariant holds of every reachable state.
THEOREM Invariance == Spec => []IInv
<1> QED
  BY InitIInv, StepIInv, PTL DEF Spec

-----------------------------------------------------------------------------
(* The results.                                                            *)

\* Type correctness of the coordinator.
THEOREM TypeCorrect == Spec => []TypeOK
<1>1. IInv => TypeOK
  BY DEF IInv
<1> QED
  BY <1>1, Invariance, PTL

\* No handler is dispatched twice for an operation or an idempotency key,
\* whatever processes retry, crash or recover.
THEOREM DispatchedAtMostOnce == Spec => []AtMostOnceDispatch
<1>1. IInv => AtMostOnceDispatch
  BY DEF IInv
<1> QED
  BY <1>1, Invariance, PTL

\* Every dispatch is preceded by its durable ATTEMPTED event.
THEOREM DispatchesAreJournalled == Spec => []DispatchIsJournalled
<1>1. IInv => DispatchIsJournalled
  BY DEF IInv
<1> QED
  BY <1>1, Invariance, PTL

\* VERIFIED always rests on an observation of the operation's own effect.
THEOREM VerificationsWereObserved == Spec => []VerifiedWasObserved
<1>1. IInv => VerifiedWasObserved
  BY DEF IInv
<1> QED
  BY <1>1, Invariance, PTL

\* The coordinator is a client of the journal: every theorem about JournalSpec
\* holds while it runs.
THEOREM CoordinatorImplementsJournal == Spec => JournalSpec
<1>1. Init => JournalInit
  BY DEF Init
<1>2. IInv /\ [Next]_vars => [JournalNext]_journalVars
  BY CoordinatorUsesJournal
<1> QED
  BY <1>1, <1>2, Invariance, PTL DEF Spec, JournalSpec

\* An outcome is recorded only by a call that has observed exactly the state
\* the VERIFIED event recorded.
THEOREM OutcomesComeFromVerifiedState == Spec => OutcomeFromVerifiedState
<1> DEFINE A == \A o \in Op : outcome'[o] # outcome[o] =>
                   \E p \in Proc :
                      At(p, "outcome") /\ op[p] = o
                        /\ rb[p].observed = LatestEvent(o).digest
<1>1. ASSUME IInv, Next PROVE A
  <2> SUFFICES ASSUME NEW o \in Op, outcome'[o] # outcome[o]
               PROVE  \E p \in Proc :
                         At(p, "outcome") /\ op[p] = o
                           /\ rb[p].observed = LatestEvent(o).digest
    OBVIOUS
  <2>1. PICK p \in Proc : RecordOutcome(p)
    BY <1>1 DEF Next, ProcStep, BeginExecute, InvokeHandler, Prepare, Attempt,
       MarkAmbiguous, ApplyReadback, ReadbackAfterExecute, BeginReconcile,
       ReadbackForReconcile, CheckBeforeMark, BeginRecoverOutcome,
       ReadbackForRecovery, CompareWithVerification, Crash, LoseBinding,
     ClearTarget, RestoreEffect, journalVars, prepare_effect_operation, record_effect_attempt,
       reconcile_effect_operation
  <2>2. At(p, "outcome") /\ op[p] \in Op
    BY <1>1, <2>1 DEF RecordOutcome, At, IInv, CallInv, WorksOnKnown
  <2>3. op[p] = o
    BY <1>1, <2>1, <2>2 DEF RecordOutcome, record_verified_outcome_observation,
       journalVars, IInv, TypeOK, JournalTypeOK
  <2>4. rb[p].observed = LatestEvent(o).digest
    BY <1>1, <2>2, <2>3 DEF At, IInv, CallInv, WorksOnVerified
  <2> QED
    BY <2>2, <2>3, <2>4
<1>2. IInv /\ [Next]_vars => [A]_vars
  BY <1>1
<1>3. []IInv /\ [][Next]_vars => [][A]_vars
  BY <1>2, PTL
<1>4. Spec => [][A]_vars
  BY <1>3, Invariance, PTL DEF Spec
<1> QED
  BY <1>4 DEF OutcomeFromVerifiedState

-----------------------------------------------------------------------------
(* A lost binding drains.                                                  *)

\* The steps by which a call comes nearer to its handler, and what they keep.
LEMMA TowardsHandler ==
    ASSUME TypeOK, NEW p \in Proc, ProcStep(p),
           pc'[p] \in {"checked", "prepared", "attempted"}
    PROVE  \/ /\ pc'[p] = "checked"
              /\ \E k \in Key, e \in Effect : BeginExecute(p, k, e)
           \/ /\ pc'[p] = "prepared" /\ pc[p] = "checked"
              /\ Prepare(p) /\ req'[p] = req[p]
           \/ /\ pc'[p] = "attempted" /\ pc[p] = "prepared"
              /\ Attempt(p) /\ req'[p] = req[p] /\ op'[p] = op[p]
<1> USE DEF TypeOK, Goto, Leave, At
<1>1. CASE Attempt(p)
  BY <1>1 DEF Attempt
<1>2. CASE Prepare(p)
  BY <1>2 DEF Prepare
<1>3. ASSUME NEW k \in Key, NEW e \in Effect, BeginExecute(p, k, e)
      PROVE  pc'[p] = "checked"
  BY <1>3 DEF BeginExecute
<1>4. ASSUME NEW o \in Op, BeginReconcile(p, o) \/ BeginRecoverOutcome(p, o) PROVE FALSE
  BY <1>4 DEF BeginReconcile, BeginRecoverOutcome
<1>5. ASSUME InvokeHandler(p) \/ MarkAmbiguous(p) \/ RecordOutcome(p) \/ Crash(p)
             \/ CheckBeforeMark(p) \/ ApplyReadback(p)
      PROVE  FALSE
  BY <1>5 DEF InvokeHandler, MarkAmbiguous, RecordOutcome, Crash, CheckBeforeMark,
     ApplyReadback
<1>6. ASSUME ReadbackAfterExecute(p) \/ ReadbackForReconcile(p) \/ ReadbackForRecovery(p)
      PROVE  FALSE
  BY <1>6 DEF ReadbackAfterExecute, ReadbackForReconcile, ReadbackForRecovery, TakeAnswer
<1>7. ASSUME CompareWithVerification(p) PROVE FALSE
  <2>1. Goto(p, "outcome") \/ Goto(p, "idle")
    BY <1>7 DEF CompareWithVerification
  <2> QED
    BY <2>1
<1> QED
  BY <1>1, <1>2, <1>3, <1>4, <1>5, <1>6, <1>7 DEF ProcStep

\* The operation that a call is about to dispatch is the one it asked for.
RequestIsPrepared ==
    \A p \in Proc : pc[p] \in {"prepared", "attempted"} => intent[op[p]] = req[p]

LEMMA StepRequestIsPrepared ==
    IInv /\ RequestIsPrepared /\ [Next]_vars => RequestIsPrepared'
<1> SUFFICES ASSUME IInv, RequestIsPrepared, [Next]_vars,
                    NEW q \in Proc, pc'[q] \in {"prepared", "attempted"}
             PROVE  intent'[op'[q]] = req'[q]
  BY DEF RequestIsPrepared
<1> USE DEF IInv
<1>1. [JournalNext]_journalVars
  BY CoordinatorUsesJournal
<1>2. ASSUME pc[q] \in {"prepared", "attempted"}, op'[q] = op[q], req'[q] = req[q]
      PROVE  intent'[op'[q]] = req'[q]
  <2>1. op[q] \in Op /\ Known(op[q]) /\ intent[op[q]] = req[q]
    BY <1>2 DEF CallInv, WorksOnKnown, RequestIsPrepared
  <2> QED
    BY <1>1, <1>2, <2>1, JournalGrows
<1>3. ASSUME UNCHANGED localVars PROVE intent'[op'[q]] = req'[q]
  BY <1>2, <1>3 DEF localVars
<1>4. ASSUME NEW p \in Proc, ProcStep(p), p # q PROVE intent'[op'[q]] = req'[q]
  BY <1>2, <1>4, StepFrame DEF OthersAlone
<1>5. ASSUME ProcStep(q) PROVE intent'[op'[q]] = req'[q]
  <2>1. CASE Attempt(q) /\ pc[q] = "prepared" /\ req'[q] = req[q] /\ op'[q] = op[q]
    BY <1>2, <2>1
  <2>2. CASE Prepare(q) /\ pc[q] = "checked" /\ pc'[q] = "prepared" /\ req'[q] = req[q]
    <3>1. PICK o \in Op : /\ prepare_effect_operation(o, req[q].key, req[q].effect)
                          /\ op' = [op EXCEPT ![q] = o]
      BY <2>2 DEF Prepare, Leave, Goto, TypeOK
    <3>2. op'[q] = o
      BY <3>1 DEF TypeOK
    <3>3. req[q] \in Request /\ req[q] = [key |-> req[q].key, effect |-> req[q].effect]
      BY <2>2 DEF CallInv, Requested, Request
    <3>4. intent'[o] = [key |-> req[q].key, effect |-> req[q].effect]
      <4>1. CASE o \in Holder(req[q].key) /\ intent[o].effect = req[q].effect /\ UNCHANGED intent
        <5>1. intent[o] \in Intent /\ intent[o].key = req[q].key
          BY <4>1 DEF Holder, Known, TypeOK, JournalTypeOK
        <5> QED
          BY <4>1, <5>1 DEF Intent
      <4>2. CASE intent' = [intent EXCEPT ![o] = [key |-> req[q].key, effect |-> req[q].effect]]
        BY <4>2 DEF TypeOK, JournalTypeOK
      <4> QED
        BY <3>1, <4>1, <4>2 DEF prepare_effect_operation, journalVars
    <3> QED
      BY <2>2, <3>2, <3>3, <3>4
  <2> QED
    BY <1>5, <2>1, <2>2, TowardsHandler
<1> QED
  BY <1>3, <1>4, <1>5, EnvironmentDispatchesNothing

LEMMA RequestStaysPrepared == Spec => []RequestIsPrepared
<1>1. Init => RequestIsPrepared
  BY DEF Init, RequestIsPrepared
<1> QED
  BY <1>1, StepRequestIsPrepared, Invariance, PTL DEF Spec

\* Only the calls that had passed the currentness check before a binding was
\* lost can still dispatch under it, each of them once.
THEOREM LostBindingsDrain == Spec => LostBindingDrains
<1> DEFINE A == \A b \in Binding \ current :
                  /\ InFlight(b)' \subseteq InFlight(b)
                  /\ \A o \in Op :
                       dispatched'[o] > dispatched[o] /\ EffectOf(o).binding = b
                         => InFlight(b)' # InFlight(b)
<1>1. ASSUME IInv, RequestIsPrepared, Next PROVE A
  <2> SUFFICES ASSUME NEW b \in Binding \ current
               PROVE  /\ InFlight(b)' \subseteq InFlight(b)
                      /\ \A o \in Op :
                           dispatched'[o] > dispatched[o] /\ EffectOf(o).binding = b
                             => InFlight(b)' # InFlight(b)
    OBVIOUS
  <2>0. TypeOK /\ [Next]_vars /\ \A o \in Op : dispatched[o] \in Nat
    BY <1>1 DEF IInv, TypeOK
  <2>1. CASE ~\E p \in Proc : ProcStep(p)
    <3>1. UNCHANGED <<pc, req, dispatched>>
      BY <2>0, <2>1, EnvironmentDispatchesNothing DEF localVars
    <3>2. InFlight(b)' = InFlight(b)
      BY <3>1 DEF InFlight
    <3> QED
      BY <2>0, <3>1, <3>2
  <2>2. ASSUME NEW p \in Proc, ProcStep(p)
        PROVE  /\ InFlight(b)' \subseteq InFlight(b)
               /\ \A o \in Op :
                    dispatched'[o] > dispatched[o] /\ EffectOf(o).binding = b
                      => InFlight(b)' # InFlight(b)
    <3>1. OthersAlone(p) /\ DispatchesOwn(p)
      BY <2>0, <2>2, StepFrame
    <3>2. p \in InFlight(b)' => p \in InFlight(b)
      <4>1. ASSUME NEW k \in Key, NEW e \in Effect, BeginExecute(p, k, e)
            PROVE  p \notin InFlight(b)'
        <5>1. req'[p] = [key |-> k, effect |-> e] /\ e.binding \in current
          BY <2>0, <4>1 DEF BeginExecute, TypeOK
        <5> QED
          BY <5>1 DEF InFlight
      <4> QED
        BY <2>0, <2>2, <4>1, TowardsHandler DEF InFlight
    <3>3. \A q \in Proc : q # p => (q \in InFlight(b)' <=> q \in InFlight(b))
      BY <3>1 DEF InFlight, OthersAlone
    <3>4. InFlight(b)' \subseteq InFlight(b)
      BY <3>2, <3>3 DEF InFlight
    <3>5. ASSUME NEW o \in Op, dispatched'[o] > dispatched[o], EffectOf(o).binding = b
          PROVE  InFlight(b)' # InFlight(b)
      <4>1. pc[p] = "attempted" /\ op[p] = o /\ dispatched'[o] # dispatched[o]
        BY <2>0, <3>1, <3>5 DEF DispatchesOwn
      <4>2. req[p].effect = EffectOf(o)
        BY <1>1, <4>1 DEF RequestIsPrepared, EffectOf
      <4>3. p \in InFlight(b)
        BY <3>5, <4>1, <4>2 DEF InFlight
      <4>4. p \notin InFlight(b)'
        <5>1. ~Attempt(p) /\ ~Prepare(p) /\ ~\E k \in Key, e \in Effect : BeginExecute(p, k, e)
          BY <4>1 DEF Attempt, Prepare, BeginExecute, At
        <5> QED
          BY <2>0, <2>2, <5>1, TowardsHandler DEF InFlight
      <4> QED
        BY <4>3, <4>4
    <3> QED
      BY <3>4, <3>5
  <2> QED
    BY <2>1, <2>2
<1>2. IInv /\ RequestIsPrepared /\ [Next]_vars => [A]_vars
  BY <1>1
<1>3. []IInv /\ []RequestIsPrepared /\ [][Next]_vars => [][A]_vars
  BY <1>2, PTL
<1>4. Spec => [][A]_vars
  BY <1>3, Invariance, RequestStaysPrepared, PTL DEF Spec
<1> QED
  BY <1>4 DEF LostBindingDrains


-----------------------------------------------------------------------------
(* FAILED is what a readback has seen.                                     *)

\* For any number of processes: an operation becomes FAILED only by the answer of
\* a readback that has looked while the effect was not in place.
THEOREM FailuresWereMissed == Spec => FailedWasMissed
<1> DEFINE A == \A o \in Op : events'[o] # events[o] /\ state(o)' = "FAILED" =>
                   \E p \in Proc : op[p] = o /\ rb[p] # NoReadback /\ rb[p].missed
<1>1. ASSUME IInv, [Next]_vars PROVE A
  <2> SUFFICES ASSUME NEW o \in Op, events'[o] # events[o], state(o)' = "FAILED"
               PROVE  \E p \in Proc : op[p] = o /\ rb[p] # NoReadback /\ rb[p].missed
    OBVIOUS
  <2>1. PICK p \in Proc : /\ ApplyReadback(p) /\ op[p] = o
                          /\ rb[p].disposition = "FAILED"
    BY <1>1, OnlyApplySettles
  <2>2. rb[p] \in Readback /\ rb[p].missed
    BY <1>1, <2>1 DEF ApplyReadback, At, IInv, CallInv, HoldsReadback
  <2> QED
    BY <2>1, <2>2, CoordinatorAssumption
<1>2. IInv /\ [Next]_vars => [A]_vars
  BY <1>1
<1>3. []IInv /\ [][Next]_vars => [][A]_vars
  BY <1>2, PTL
<1>4. Spec => [][A]_vars
  BY <1>3, Invariance, PTL DEF Spec
<1> QED
  BY <1>4 DEF FailedWasMissed
=================================================================================
