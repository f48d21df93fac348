------------------------- MODULE ExecutionCoordinator -------------------------
(***************************************************************************)
(* ExecutionCoordinator (execution.py) over the durable journal: processes *)
(* that concurrently run execute(), reconcile() and recover_outcome(),     *)
(* that may die between any two calls, while bindings are revoked and      *)
(* targets change under them.                                              *)
(*                                                                         *)
(* A step ends at each call that leaves the process: a journal             *)
(* transaction, the handler, the readback.  Everything between two such    *)
(* calls only touches local variables.                                     *)
(***************************************************************************)
EXTENDS EffectJournal

CONSTANTS Proc,        \* threads or processes sharing the journal
          Binding,     \* injection bindings
          Target,      \* effect targets
          Payload,     \* context and effect payload
          Protected,   \* bindings whose injector is a PROTECTED_EFFECT
          NoOp, NoRequest, NoReadback

\* An execute() call: its key and the effect identity it asks for.
Request == [key : Key, effect : Effect]

\* Evidence references: `binding:<id>`, here the binding, goes with an attempt;
\* a readback or an exception is recorded under a reference of its own.
OwnEvidence == Evidence \ Binding

\* A decisive answer, and as history whether the effect was missing when it was
\* given.  An ambiguous one has nothing but its evidence, which goes to the mark.
Readback == [disposition : {"VERIFIED", "FAILED"},
             observed    : Observation \cup {Blank},
             evidence    : OwnEvidence,
             report      : Report,
             missed      : BOOLEAN]

ASSUME CoordinatorAssumption ==
    /\ Effect \subseteq [target : Target, binding : Binding, payload : Payload,
                         authority : Evidence \cup {Blank}]
    /\ Protected \subseteq Binding
    /\ Binding \subseteq Evidence
    /\ NoOp \notin Op
    /\ NoRequest \notin Request
    /\ NoReadback \notin Readback

VARIABLES pc,          \* pc[p]: the next call process p makes
          req,         \* req[p]: the arguments of its execute() call
          op,          \* op[p]: the operation it works on
          rb,          \* rb[p]: the readback it has in hand
          current,     \* the bindings active_injection_bindings shows
          target,      \* target[t]: what readback would observe at t
          dispatched   \* history: handler invocations per operation

localVars == <<pc, req, op, rb>>
worldVars == <<current, target, dispatched>>
vars == <<journalVars, localVars, worldVars>>

Label == {"idle", "checked", "prepared", "attempted", "handled", "mark",
          "observe", "checkmark", "apply", "outcome", "reobserve", "compare"}

TypeOK ==
    /\ JournalTypeOK
    /\ pc \in [Proc -> Label]
    /\ req \in [Proc -> Request \cup {NoRequest}]
    /\ op \in [Proc -> Op \cup {NoOp}]
    /\ rb \in [Proc -> Readback \cup {NoReadback}]
    /\ current \subseteq Binding
    /\ target \in [Target -> Observation \cup {Blank}]
    /\ dispatched \in [Op -> Nat]

Init ==
    /\ JournalInit
    /\ pc = [p \in Proc |-> "idle"]
    /\ req = [p \in Proc |-> NoRequest]
    /\ op = [p \in Proc |-> NoOp]
    /\ rb = [p \in Proc |-> NoReadback]
    /\ current = Binding
    /\ target = [t \in Target |-> Blank]
    /\ dispatched = [o \in Op |-> 0]

-----------------------------------------------------------------------------
(* Local control.                                                          *)

At(p, l) == pc[p] = l

Goto(p, l) == pc' = [pc EXCEPT ![p] = l]

\* The call returns or raises, or its process dies: the locals are gone.
Leave(p) ==
    /\ Goto(p, "idle")
    /\ req' = [req EXCEPT ![p] = NoRequest]
    /\ op' = [op EXCEPT ![p] = NoOp]
    /\ rb' = [rb EXCEPT ![p] = NoReadback]

EffectOf(o) == intent[o].effect

\* What readback would observe once the effect of operation o is at its target.
WithEffectOf(o) ==
    [target EXCEPT ![EffectOf(o).target] = [op |-> o, effect |-> EffectOf(o)]]

InPlace(e) == target[e.target] # Blank /\ target[e.target].effect = e

-----------------------------------------------------------------------------
(* execute()                                                               *)

\* A protected effect that nobody had to authorize.
AuthorizedIfAsked(e) == e.authority # Blank => e.binding \in Protected

\* _authorize_side_effect: a reference for protected injectors, None for the
\* others.
AuthorizedSideEffect(e) ==
    e.binding \in Protected <=> e.authority # Blank

\* execute() without the currentness validator.
BeginExecuteUnchecked(p, k, e) ==
    /\ At(p, "idle")
    /\ e \in BoundEffect
    /\ AuthorizedSideEffect(e)
    /\ Goto(p, "checked")
    /\ req' = [req EXCEPT ![p] = [key |-> k, effect |-> e]]
    /\ UNCHANGED <<op, rb, worldVars, journalVars>>

\* resolve_binding has chosen e.binding; it is executable, current in the
\* database at this moment, its injector registered, its effect authorized.
BeginExecute(p, k, e) ==
    /\ At(p, "idle")
    /\ e \in BoundEffect
    /\ e.binding \in current
    /\ AuthorizedSideEffect(e)
    /\ Goto(p, "checked")
    /\ req' = [req EXCEPT ![p] = [key |-> k, effect |-> e]]
    /\ UNCHANGED <<op, rb, worldVars, journalVars>>

\* The key already stands for another effect: IdempotencyCollisionError.
Collides(k, e) == \E o \in Holder(k) : EffectOf(o) # e

Prepare(p) ==
    /\ At(p, "checked")
    /\ UNCHANGED worldVars
    /\ \/ \E o \in Op :
            /\ prepare_effect_operation(o, req[p].key, req[p].effect)
            /\ Goto(p, "prepared")
            /\ op' = [op EXCEPT ![p] = o]
            /\ UNCHANGED <<req, rb>>
       \/ /\ Collides(req[p].key, req[p].effect)
          /\ Leave(p)
          /\ UNCHANGED journalVars

\* The handler invoked with no ATTEMPTED event behind it.
AttemptUnrecorded(p) ==
    /\ At(p, "prepared")
    /\ Goto(p, "attempted")
    /\ UNCHANGED <<worldVars, req, op, rb, journalVars>>

\* attempt(): the one process that appends ATTEMPTED goes on, others raise.
Attempt(p) ==
    /\ At(p, "prepared")
    /\ UNCHANGED worldVars
    /\ \/ /\ record_effect_attempt(op[p], EffectOf(op[p]).binding)
          /\ Goto(p, "attempted")
          /\ UNCHANGED <<req, op, rb>>
       \/ /\ events[op[p]] # <<>>
          /\ Leave(p)
          /\ UNCHANGED journalVars

\* The handler runs.  The effect lands or not, and the handler returns a
\* mapping ("handled") or raises or returns something else ("mark"): the
\* four combinations are independent, which is why readback decides.
InvokeHandler(p) ==
    /\ At(p, "attempted")
    /\ dispatched' = [dispatched EXCEPT ![op[p]] = @ + 1]
    /\ \/ target' = WithEffectOf(op[p])
       \/ UNCHANGED target
    /\ \/ Goto(p, "handled")
       \/ Goto(p, "mark")
    /\ UNCHANGED <<req, op, rb, current, journalVars>>

\* An exception taken for a failure of the effect.
MarkFailed(p) ==
    /\ At(p, "mark")
    /\ \E v \in OwnEvidence :
          reconcile_effect_operation(op[p], "FAILED", v, Blank)
    /\ Leave(p)
    /\ UNCHANGED worldVars

\* mark_ambiguous() on the way out of an exception; it may itself raise.
MarkAmbiguous(p) ==
    /\ At(p, "mark")
    /\ \/ \E v \in OwnEvidence :
             reconcile_effect_operation(op[p], "AMBIGUOUS", v, Blank)
       \/ state(op[p]) # "ATTEMPTED" /\ UNCHANGED journalVars
    /\ Leave(p)
    /\ UNCHANGED worldVars

-----------------------------------------------------------------------------
(* Readback and reconciliation                                             *)

\* A handler's return taken as proof that the effect is in place.
TrustingAnswer(e, r) ==
    /\ r.disposition = "VERIFIED" => r.observed # Blank /\ r.observed.effect = e
    /\ r.disposition # "VERIFIED" => r.observed = Blank

\* What a truthful adapter may decide for effect e: VERIFIED only with the
\* effect in place, FAILED only without it.
AdapterAnswer(e, r) ==
    /\ r.disposition = "VERIFIED" => InPlace(e) /\ r.observed = target[e.target]
    /\ r.disposition = "FAILED" => ~InPlace(e)
    /\ r.disposition # "VERIFIED" => r.observed = Blank

\* An answer of the readback callable, and where the call continues: a decisive
\* one is applied; AMBIGUOUS, which the adapter may always say, is checked
\* against the state first.
TakeAnswer(p) ==
    /\ \/ /\ \E r \in Readback :
               /\ AdapterAnswer(EffectOf(op[p]), r)
               /\ r.missed = ~InPlace(EffectOf(op[p]))
               /\ rb' = [rb EXCEPT ![p] = r]
          /\ Goto(p, "apply")
       \/ Goto(p, "checkmark") /\ UNCHANGED rb
    /\ UNCHANGED <<req, op>>

\* In execute(): an exception or an invalid answer marks the operation.
ReadbackAfterExecute(p) ==
    /\ At(p, "handled")
    /\ TakeAnswer(p) \/ (Goto(p, "mark") /\ UNCHANGED <<req, op, rb>>)
    /\ UNCHANGED <<worldVars, journalVars>>

\* reconcile(operation_id) of any recorded operation, whatever its state.
BeginReconcile(p, o) ==
    /\ At(p, "idle")
    /\ Known(o)
    /\ EffectOf(o) \in BoundEffect
    /\ Goto(p, "observe")
    /\ op' = [op EXCEPT ![p] = o]
    /\ UNCHANGED <<req, rb, worldVars, journalVars>>

\* In reconcile(): an exception marks the operation only if still ATTEMPTED.
ReadbackForReconcile(p) ==
    /\ At(p, "observe")
    /\ TakeAnswer(p) \/ (Goto(p, "checkmark") /\ UNCHANGED <<req, op, rb>>)
    /\ UNCHANGED <<worldVars, journalVars>>

\* state() is read in a transaction of its own; mark_ambiguous() follows.
CheckBeforeMark(p) ==
    /\ At(p, "checkmark")
    /\ \/ /\ state(op[p]) = "ATTEMPTED"
          /\ Goto(p, "mark")
          /\ UNCHANGED <<req, op, rb>>
       \/ state(op[p]) # "ATTEMPTED" /\ Leave(p)
    /\ UNCHANGED <<worldVars, journalVars>>

\* A reconciliation written without looking at the state under the lock.
ApplyUnguarded(p) ==
    LET r == rb[p] IN
    /\ At(p, "apply")
    /\ AppendEvent(op[p], r.disposition, r.evidence, r.observed)
    /\ Leave(p)
    /\ UNCHANGED <<worldVars, intent, outcome>>

\* _apply_readback for FAILED and VERIFIED.  A journal that refuses raises.
ApplyReadback(p) ==
    LET r == rb[p] IN
    /\ At(p, "apply")
    /\ UNCHANGED worldVars
    /\ \/ /\ reconcile_effect_operation(op[p], r.disposition, r.evidence, r.observed)
          /\ \/ r.disposition = "FAILED" /\ Leave(p)
             \/ /\ r.disposition = "VERIFIED"
                /\ Goto(p, "outcome")
                /\ UNCHANGED <<req, op, rb>>
       \/ /\ state(op[p]) \notin Reconcilable
          /\ Leave(p)
          /\ UNCHANGED journalVars

\* _build_observation and _record_outcome, a second transaction.
RecordOutcome(p) ==
    LET r == [effect |-> EffectOf(op[p]), evidence |-> rb[p].evidence,
              report |-> rb[p].report]
    IN
    /\ At(p, "outcome")
    /\ \/ record_verified_outcome_observation(op[p], r)
       \/ outcome[op[p]] \notin {NoOutcome, r} /\ UNCHANGED journalVars
    /\ Leave(p)
    /\ UNCHANGED worldVars

-----------------------------------------------------------------------------
(* recover_outcome()                                                       *)

BeginRecoverOutcome(p, o) ==
    /\ At(p, "idle")
    /\ Known(o)
    /\ state(o) = "VERIFIED"
    /\ EffectOf(o) \in BoundEffect
    /\ Goto(p, "reobserve")
    /\ op' = [op EXCEPT ![p] = o]
    /\ UNCHANGED <<req, rb, worldVars, journalVars>>

\* Anything but a VERIFIED answer raises, an exception included.
ReadbackForRecovery(p) ==
    /\ At(p, "reobserve")
    /\ \/ \E r \in Readback :
            /\ AdapterAnswer(EffectOf(op[p]), r)
            /\ r.missed = ~InPlace(EffectOf(op[p]))
            /\ r.disposition = "VERIFIED"
            /\ rb' = [rb EXCEPT ![p] = r]
            /\ Goto(p, "compare")
            /\ UNCHANGED <<req, op>>
       \/ Leave(p)
    /\ UNCHANGED <<worldVars, journalVars>>

\* The evidence of the first event instead of the VERIFIED one.
CompareWithFirstEvent(p) ==
    /\ At(p, "compare")
    /\ rb' = [rb EXCEPT ![p].evidence = events[op[p]][1].evidence]
    /\ Goto(p, "outcome")
    /\ UNCHANGED <<req, op, worldVars, journalVars>>

\* A VERIFIED answer accepted although the target has changed since.
CompareNothing(p) ==
    /\ At(p, "compare")
    /\ rb' = [rb EXCEPT ![p].evidence = LatestEvent(op[p]).evidence]
    /\ Goto(p, "outcome")
    /\ UNCHANGED <<req, op, worldVars, journalVars>>

\* The observed state must still be the one of the VERIFIED event, whose
\* evidence the observation then carries.
CompareWithVerification(p) ==
    LET v == LatestEvent(op[p]) IN
    /\ At(p, "compare")
    /\ \/ /\ v.digest = rb[p].observed
          /\ rb' = [rb EXCEPT ![p].evidence = v.evidence]
          /\ Goto(p, "outcome")
          /\ UNCHANGED <<req, op>>
       \/ v.digest # rb[p].observed /\ Leave(p)
    /\ UNCHANGED <<worldVars, journalVars>>

-----------------------------------------------------------------------------
(* The environment                                                         *)

\* A process dies, or loses its connection and raises, between two calls.
Crash(p) ==
    /\ ~At(p, "idle")
    /\ Leave(p)
    /\ UNCHANGED <<worldVars, journalVars>>

\* Revocation, supersession, restriction or expiry takes the binding out of
\* the view for good.
LoseBinding(b) ==
    /\ b \in current
    /\ current' = current \ {b}
    /\ UNCHANGED <<target, dispatched, localVars, journalVars>>

\* What is at the target is removed: by a rollback to no earlier effect, or by
\* someone outside.
ClearTarget(t) ==
    /\ target[t] # Blank
    /\ target' = [target EXCEPT ![t] = Blank]
    /\ UNCHANGED <<current, dispatched, localVars, journalVars>>

\* The effect of a dispatched operation, settled or not, comes to its target
\* outside any call: rollback() restores the one before, which an operation had
\* put there, and a handler that raised or timed out may finish late.
RestoreEffect(o) ==
    /\ dispatched[o] > 0
    /\ target' = WithEffectOf(o)
    /\ UNCHANGED <<current, dispatched, localVars, journalVars>>

ProcStep(p) ==
    \/ \E k \in Key, e \in Effect : BeginExecute(p, k, e)
    \/ Prepare(p)
    \/ Attempt(p)
    \/ InvokeHandler(p)
    \/ MarkAmbiguous(p)
    \/ ReadbackAfterExecute(p)
    \/ \E o \in Op : BeginReconcile(p, o)
    \/ ReadbackForReconcile(p)
    \/ CheckBeforeMark(p)
    \/ ApplyReadback(p)
    \/ RecordOutcome(p)
    \/ \E o \in Op : BeginRecoverOutcome(p, o)
    \/ ReadbackForRecovery(p)
    \/ CompareWithVerification(p)
    \/ Crash(p)

Next ==
    \/ \E p \in Proc : ProcStep(p)
    \/ \E b \in Binding : LoseBinding(b)
    \/ \E t \in Target : ClearTarget(t)
    \/ \E o \in Op : RestoreEffect(o)

Spec == Init /\ [][Next]_vars

-----------------------------------------------------------------------------
(* Properties                                                              *)

\* Across every process, crash, retry and recovery, an idempotency key
\* dispatches a handler at most once: not twice for one operation, and not
\* once each for two operations ("ATTEMPTED/AMBIGUOUS cannot be blindly
\* redispatched").
AtMostOnceDispatch ==
    /\ \A o \in Op : dispatched[o] <= 1
    /\ \A o1, o2 \in Op :
         /\ dispatched[o1] > 0 /\ dispatched[o2] > 0
         /\ intent[o1].key = intent[o2].key
         => o1 = o2

\* A handler that has run left a durable trace before it ran: a crash at any
\* point leaves the operation in the recovery inventory or settled, never
\* looking as if nothing had been attempted; and a protected effect carries
\* its authority reference in that trace.
DispatchIsJournalled ==
    \A o \in Op : dispatched[o] > 0 =>
        /\ Known(o)
        /\ events[o] # <<>>
        /\ events[o][1].state = "ATTEMPTED"
        /\ EffectOf(o).binding \in Protected => EffectOf(o).authority # Blank

\* VERIFIED rests on observed target state: the digest recorded with it is
\* of this operation's effect, put there by an operation whose handler ran, and
\* the evidence is a readback's.  Neither a handler's return nor a recovery can
\* produce it otherwise.
VerifiedWasObserved ==
    \A o \in Op : events[o] # <<>> /\ state(o) = "VERIFIED" =>
        LET v == LatestEvent(o) IN
        /\ v.evidence \in OwnEvidence
        /\ v.digest # Blank
        /\ v.digest.effect = EffectOf(o)
        /\ dispatched[v.digest.op] > 0

\* An outcome becomes durable only through a call that has itself observed
\* the target in exactly the state the VERIFIED event recorded, also when the
\* process that verified died and another one recovers the gap.
OutcomeFromVerifiedState ==
    [][\A o \in Op : outcome'[o] # outcome[o] =>
         \E p \in Proc :
            At(p, "outcome") /\ op[p] = o
              /\ rb[p].observed = LatestEvent(o).digest]_vars

\* FAILED is final and opens the way for a new operation, so it is never a guess:
\* a readback has looked while the effect was not there.  An exception, a return
\* value or a crash never makes an operation FAILED, whoever reconciles it.
\* (It says nothing of later: the effect may land, or be restored, afterwards.)
FailedWasMissed ==
    [][\A o \in Op : events'[o] # events[o] /\ state(o)' = "FAILED" =>
         \E p \in Proc : op[p] = o /\ rb[p] # NoReadback /\ rb[p].missed]_vars

\* The execute() calls under binding b that have yet to invoke their handler.
InFlight(b) ==
    {p \in Proc : pc[p] \in {"checked", "prepared", "attempted"}
                    /\ req[p].effect.binding = b}

\* A lost binding drains: no call joins the ones in flight under it, and each
\* handler still dispatched under it uses one of them up.  Revocation thus
\* stops all but the calls that had passed the currentness check before it.
LostBindingDrains ==
    [][\A b \in Binding \ current :
         /\ InFlight(b)' \subseteq InFlight(b)
         /\ \A o \in Op :
              dispatched'[o] > dispatched[o] /\ EffectOf(o).binding = b
                => InFlight(b)' # InFlight(b)]_vars

\* PREPARED -> ATTEMPTED -> VERIFIED | FAILED: nothing is settled that was
\* not attempted.
AttemptPrecedesResolution ==
    \A o \in Op : events[o] # <<>> => events[o][1].state = "ATTEMPTED"

\* "Revocation, expiry, or supersession blocks new attempts."
AttemptUnderCurrentBinding ==
    [][\A o \in Op :
         events[o] = <<>> /\ events'[o] # <<>> /\ events'[o][1].state = "ATTEMPTED"
           => EffectOf(o).binding \in current]_vars
=============================================================================
