---------------------------- MODULE EffectJournal ----------------------------
(***************************************************************************)
(* The effect-operation journal with its outcome table: the tables         *)
(* effect_operations, effect_operation_events and outcome_observations and *)
(* the four guarded functions the runtime role may call on them            *)
(* (migrations 0004 and 0006), which PostgresExecutionStore wraps one      *)
(* transaction per call; and OperationJournal, the in-memory journal with  *)
(* the same operations (operations.py).                                    *)
(*                                                                         *)
(* Each function is one atomic step: it locks the operation row before it  *)
(* reads the event log (FOR UPDATE), or relies on a unique index and       *)
(* re-reads the winner's row when it loses the race, so under READ         *)
(* COMMITTED it behaves as if it ran alone at its commit.                  *)
(*                                                                         *)
(* The two journals differ in one place only, the states in which a        *)
(* reconciliation is accepted; that is the constant Reconcilable.          *)
(***************************************************************************)
EXTENDS Naturals, Sequences

CONSTANTS Op,            \* operation ids (uuid4, never reused)
          Key,           \* idempotency keys
          Effect,        \* effect identities: target, kind and payload, which
                         \*   effect_digest covers (operation id and key do not)
          BoundEffect,   \* the effects whose payload names an existing binding
                         \*   with a pinned adapter version
          Evidence,      \* non-blank evidence references
          Report,        \* failure_occurred/prevented/regression of a readback
          Reconcilable,  \* the states reconcile accepts VERIFIED or FAILED from
          NoIntent, NoOutcome, Blank

\* What an adapter observed at a target; its digest stands for it.
Observation == [op : Op, effect : Effect]

Intent == [key : Key, effect : Effect]

EventState == {"ATTEMPTED", "AMBIGUOUS", "VERIFIED", "FAILED"}

Event == [state    : EventState,
          evidence : Evidence \cup {Blank},
          digest   : Observation \cup {Blank}]

Outcome == [effect : Effect, evidence : Evidence, report : Report]

ASSUME JournalAssumption ==
    /\ BoundEffect \subseteq Effect
    /\ Reconcilable \subseteq {"PREPARED", "ATTEMPTED", "AMBIGUOUS"}
    /\ NoIntent \notin Intent
    /\ NoOutcome \notin Outcome
    /\ Blank \notin Evidence
    /\ Blank \notin Observation

VARIABLES intent,   \* effect_operations: intent[o] is o's row, or NoIntent
          events,   \* effect_operation_events: events[o] in insertion order
          outcome   \* outcome_observations: outcome[o] is o's row, or NoOutcome

journalVars == <<intent, events, outcome>>

JournalTypeOK ==
    /\ intent \in [Op -> Intent \cup {NoIntent}]
    /\ events \in [Op -> Seq(Event)]
    /\ outcome \in [Op -> Outcome \cup {NoOutcome}]

JournalInit ==
    /\ intent = [o \in Op |-> NoIntent]
    /\ events = [o \in Op |-> <<>>]
    /\ outcome = [o \in Op |-> NoOutcome]

-----------------------------------------------------------------------------
(* Reading the journal.                                                    *)

Known(o) == intent[o] # NoIntent

\* The latest event decides; no event at all means PREPARED.
LatestEvent(o) == events[o][Len(events[o])]

state(o) == IF events[o] = <<>> THEN "PREPARED" ELSE LatestEvent(o).state

\* The row, if any, that the unique idempotency key identifies.
Holder(k) == {o \in Op : Known(o) /\ intent[o].key = k}

\* The inventories the recovery runbook starts from.
recoverable_operations ==
    {o \in Op : Known(o) /\ state(o) \in {"PREPARED", "ATTEMPTED", "AMBIGUOUS"}}

verified_outcome_gaps ==
    {o \in Op : Known(o) /\ state(o) = "VERIFIED" /\ outcome[o] = NoOutcome}

\* Where each journal accepts a reconciliation.  The SQL guard
\*     IF current_state NOT IN ('ATTEMPTED', 'AMBIGUOUS') THEN RAISE
\* is NULL, hence not taken, when there is no event: PREPARED passes it.
InMemoryReconcilable == {"ATTEMPTED", "AMBIGUOUS"}
PostgresReconcilable == {"PREPARED", "ATTEMPTED", "AMBIGUOUS"}

-----------------------------------------------------------------------------
(* The guarded functions.  A call that raises changes nothing, so it is    *)
(* the absence of a step.                                                  *)

\* No reuse check: every prepare inserts a row of its own.
prepare_without_key_lookup(o, k, e) ==
    /\ intent[o] = NoIntent
    /\ intent' = [intent EXCEPT ![o] = [key |-> k, effect |-> e]]
    /\ UNCHANGED <<events, outcome>>

\* A prepare that also logs its own state as an event.
prepare_with_event(o, k, e) ==
    /\ Holder(k) = {}
    /\ intent[o] = NoIntent
    /\ intent' = [intent EXCEPT ![o] = [key |-> k, effect |-> e]]
    /\ events' = [events EXCEPT ![o] =
                     <<[state |-> "PREPARED", evidence |-> Blank, digest |-> Blank]>>]
    /\ UNCHANGED outcome

\* Returns operation o: the existing holder of the key when the effect is
\* the same one, otherwise a fresh row.  Another effect under the key raises.
prepare_effect_operation(o, k, e) ==
    \/ /\ o \in Holder(k)
       /\ intent[o].effect = e
       /\ UNCHANGED journalVars
    \/ /\ Holder(k) = {}
       /\ intent[o] = NoIntent
       /\ intent' = [intent EXCEPT ![o] = [key |-> k, effect |-> e]]
       /\ UNCHANGED <<events, outcome>>

\* _append and the INSERT INTO effect_operation_events.
AppendEvent(o, s, v, d) ==
    events' = [events EXCEPT
                 ![o] = Append(@, [state |-> s, evidence |-> v, digest |-> d])]

\* An attempt accepted after an unresolved one.
attempt_again(o, v) ==
    /\ Known(o)
    /\ state(o) \in {"PREPARED", "AMBIGUOUS"}
    /\ AppendEvent(o, "ATTEMPTED", v, Blank)
    /\ UNCHANGED <<intent, outcome>>

\* The single attempt: only an operation without any event.
record_effect_attempt(o, v) ==
    /\ Known(o)
    /\ events[o] = <<>>
    /\ AppendEvent(o, "ATTEMPTED", v, Blank)
    /\ UNCHANGED <<intent, outcome>>

\* A reconciliation that forgets the source state.
reconcile_from_any_state(o, result, v, d) ==
    /\ Known(o)
    /\ v # Blank
    /\ result = "VERIFIED" => d # Blank
    /\ AppendEvent(o, result, v, d)
    /\ UNCHANGED <<intent, outcome>>

\* mark_ambiguous (result "AMBIGUOUS") and reconcile ("VERIFIED", "FAILED").
reconcile_effect_operation(o, result, v, d) ==
    /\ Known(o)
    /\ v # Blank
    /\ \/ result = "AMBIGUOUS" /\ state(o) = "ATTEMPTED"
       \/ /\ result \in {"VERIFIED", "FAILED"}
          /\ state(o) \in Reconcilable
          /\ result = "VERIFIED" => d # Blank
    /\ AppendEvent(o, result, v, d)
    /\ UNCHANGED <<intent, outcome>>

\* An observation accepted without comparing its evidence with the event's.
record_outcome_unmatched(o, r) ==
    /\ Known(o)
    /\ state(o) = "VERIFIED"
    /\ r.effect = intent[o].effect
    /\ outcome[o] = NoOutcome
    /\ outcome' = [outcome EXCEPT ![o] = r]
    /\ UNCHANGED <<intent, events>>

\* The latest observation replaces an earlier one.
record_outcome_latest_wins(o, r) ==
    /\ Known(o)
    /\ state(o) = "VERIFIED"
    /\ r.effect = intent[o].effect
    /\ r.evidence = LatestEvent(o).evidence
    /\ outcome' = [outcome EXCEPT ![o] = r]
    /\ UNCHANGED <<intent, events>>

\* An observation for a verified operation whose effect, lineage and evidence
\* it repeats exactly.  Recording it again is a no-op if nothing differs.
record_verified_outcome_observation(o, r) ==
    /\ Known(o)
    /\ state(o) = "VERIFIED"
    /\ r.effect = intent[o].effect
    /\ r.evidence = LatestEvent(o).evidence
    /\ r.effect \in BoundEffect
    /\ outcome[o] \in {NoOutcome, r}
    /\ outcome' = [outcome EXCEPT ![o] = r]
    /\ UNCHANGED <<intent, events>>

-----------------------------------------------------------------------------
(* The journal under an arbitrary client, which may call any function with *)
(* any argument in any order.  A readback digest accompanies VERIFIED      *)
(* only, as in both journals' mark_ambiguous and reconcile(verified=False) *)
(* callers.                                                                *)

JournalNext ==
    \E o \in Op :
        \/ \E k \in Key, e \in Effect : prepare_effect_operation(o, k, e)
        \/ \E v \in Evidence \cup {Blank} : record_effect_attempt(o, v)
        \/ \E v \in Evidence \cup {Blank} :
              \/ \E result \in {"AMBIGUOUS", "FAILED"} :
                     reconcile_effect_operation(o, result, v, Blank)
              \/ \E d \in Observation \cup {Blank} :
                     reconcile_effect_operation(o, "VERIFIED", v, d)
        \/ \E r \in Outcome : record_verified_outcome_observation(o, r)

JournalSpec == JournalInit /\ [][JournalNext]_journalVars

-----------------------------------------------------------------------------
(* Properties.                                                             *)

Terminal(o) == state(o) \in {"VERIFIED", "FAILED"}

\* An idempotency key never stands for two operations, whatever the order
\* in which clients race to prepare it (UNIQUE idempotency_key and the
\* comparison in prepare_effect_operation).
KeyIdentifiesOneOperation ==
    \A o1, o2 \in Op :
        Known(o1) /\ Known(o2) /\ intent[o1].key = intent[o2].key => o1 = o2

\* The log of an operation has at most one ATTEMPTED event and ends at the
\* first terminal one: no interleaving of reconciliations can reopen or
\* re-decide a settled operation.
LogSettlesOnce ==
    \A o \in Op : \A i, j \in 1..Len(events[o]) :
        i < j => /\ events[o][i].state \notin {"VERIFIED", "FAILED"}
                 /\ events[o][j].state # "ATTEMPTED"

\* A recorded outcome is backed by the operation's own terminal VERIFIED
\* event, its effect and that event's evidence, now and for ever after: an
\* outcome is only ever evidence for the exact operation it names.
OutcomeHasProvenance ==
    \A o \in Op : outcome[o] # NoOutcome =>
        /\ Known(o) /\ state(o) = "VERIFIED"
        /\ outcome[o].effect = intent[o].effect
        /\ outcome[o].evidence = LatestEvent(o).evidence
        /\ LatestEvent(o).digest # Blank

\* Events and outcomes are append-only evidence: a step extends one log by
\* at most one event and never rewrites an intent or an outcome.
AppendOnly ==
    [][/\ \A o \in Op : Known(o) => intent'[o] = intent[o]
       /\ \A o \in Op : outcome[o] # NoOutcome => outcome'[o] = outcome[o]
       /\ \A o \in Op : \/ events'[o] = events[o]
                        \/ /\ ~Terminal(o)
                           /\ Len(events'[o]) = Len(events[o]) + 1
                           /\ SubSeq(events'[o], 1, Len(events[o])) = events[o]
      ]_journalVars

\* The journal as the documented lifecycle sees it.
Lifecycle == INSTANCE EffectLifecycle WITH
    status   <- [o \in Op |-> IF Known(o) THEN state(o) ELSE "ABSENT"],
    observed <- {o \in Op : outcome[o] # NoOutcome}

\* The journal implements the documented lifecycle.
ImplementsLifecycle == Lifecycle!LifecycleSpec
=============================================================================
