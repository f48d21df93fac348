# A formal model of F.U.C.K.U.P.

TLA+ modules, TLC runs and TLAPS proofs about the parts of this repository that
carry its authority and execution logic: which correction may act, how an
external effect is dispatched once and verified by readback, how a later session
takes up a verified correction, how incidents are recorded, and how background
jobs are retried. Paths below are relative to the repository root
(`src/fuckup_protocol/...`, `migrations/...`, `docs/...`).

## 1. Inventory of the system

| Component | Code | State it keeps | Operations |
|---|---|---|---|
| Effect-operation journal | `operations.py`, `migrations/0004` | `effect_operations` (one row per idempotency key), `effect_operation_events` (append-only log) | `prepare`, `attempt`, `mark_ambiguous`, `reconcile` |
| Durable store, outcome evidence | `postgres_execution.py`, `migrations/0006` | `outcome_observations`, one row per operation | one transaction per call; `record_outcome`; inventories `recoverable_operations`, `verified_outcome_gaps` |
| Execution coordinator | `execution.py` | none of its own: local variables of a call | `execute`, `reconcile`, `recover_outcome` |
| Reference file injector | `reference_adapter.py` | `versions/`, `operations/`, `current.json` of a target | `execute`, `readback`, `rollback` |
| Worker jobs | `jobs.py`, `migrations/0001`, `0002` | `worker_jobs` | claim, complete, fail; lease expiry by the clock |
| Correction authority | `migrations/0001`, `0003`, `0005` | corrections, revisions, qualifications, promotions and their authorizations, bindings, outbox | insert a revision (which may supersede), qualify, authorize and promote, bind, restrict, revoke |
| In-memory ledger | `ledger.py` | the same lifecycle as dictionaries, incidents and occurrences | submit, append, revise, qualify, promote, revoke |
| Events and occurrences | `migrations/0001`, `0004` | `events`, `incident_occurrences` | `record_event_idempotent`, `record_incident_occurrence` |
| Session preflight | `session_preflight.py` | none | reads bindings, correction, operation, outcome; checks currentness again |
| Decisions | `bindings.py`, `policy.py`, `validation.py`, `authorization.py`, `ambiguity.py`, `effectiveness.py` | none | pure functions |
| Boundary records | `events.py`, `fingerprint.py`, `provenance.py`, `models.py`, `plugins.py`, `driftguard_consumer.py` | none (the registry is filled at start-up) | validation, digests |
| Role configuration | `configure_fuckup_*` in the migrations | grants | run once by an administrator |

How they interact. A client calls `ExecutionCoordinator.execute` with bindings
read from the view `active_injection_bindings`. The coordinator asks the
database whether the chosen binding is current, and the authorizer for a
reference if the injector is protected. It then runs separate transactions of
the store, calls the injector's handler and its readback callable, and writes
what the readback said. Meanwhile other processes do the same with other or the
same keys, an authorizer revokes, supersedes or restricts bindings, and someone
may change a target. After a crash a process reads the recovery inventories and
calls `reconcile` or `recover_outcome`. Corrections become bindings through
separate calls of the runtime and the authorizer role. A new session reads all
of this back (`session_preflight.py`), puts the correction into a prompt and asks
once more, just before it sends the prompt, whether the correction governs. The
in-memory ledger states the semantics of incidents, events and promotions that
the SQL functions are to have.

What is hard here, and what the properties are for (every hazard, with its
line, is in `PROJECT.json`):

- a crash, a retry or a second process between any two transactions of a call;
- two transactions racing for one key, one operation, one job, one correction;
- state that was read in one transaction and used in the next (currentness, the
  previous pointer of the file injector, the lease of a job);
- effects that landed although their handler raised, and the other way round;
  effects that land late or come back by a rollback;
- authority withdrawn in any order of revocation, supersession, revision,
  restriction and expiry;
- budgets and leases at their limit;
- many reads, each in a transaction of its own, taken for one state of the world;
- an authorization or a qualification used after what it was given for changed.

## 2. Modules

| Module | Models | How state and actions correspond to the code |
|---|---|---|
| `EffectLifecycle` | the promise `PREPARED -> ATTEMPTED -> VERIFIED, FAILED or AMBIGUOUS` about one operation | abstract: a status per operation and the set of operations with an outcome |
| `EffectJournal` | both journals and the outcome table | `intent`, `events`, `outcome` are the three tables; the actions have the names of the SQL functions of migrations 0004 and 0006, each one atomic because it locks the operation's row or falls back on a unique index |
| `ExecutionCoordinator` | `execution.py` over that journal | `pc`, `req`, `op`, `rb` are the locals of a call in each process; a step ends at each call that leaves the process; `current`, `target`, `dispatched` are the world |
| `ReferenceFileInjector` | `reference_adapter.py` at one target | one variable per kind of file, one step per file access |
| `JobStates` | `jobs.py` | its functions, as functions from a job to a job |
| `WorkerJobs` | `worker_jobs` and its three functions | a row is a `JobState`; the lease and `available_at` are abstracted to live or expired, due or not |
| `BindingView` | what the authority tables promise about `active_injection_bindings` | abstract: a binding is absent, live or dark, in that order only |
| `CorrectionAuthority` | the authority tables, their triggers and the authorizer's functions | a variable per table or column; a trigger is part of the action whose statement fires it |
| `BindingResolution` | `bindings.py` | the filters of `resolve_binding` as operators, and `Governs`, what they are to find |
| `SessionPreflight` | `session_preflight.py` over the journal and the view | `pc`, `chosen`, `context`, `about`, `seen` are the locals of one session; a step is one read with the comparisons after it; the other clients of journal, view and file are `Environment` |
| `IncidentLog` | the incident half of `ledger.py` | abstract: one step per operation of `InMemoryLedger` |
| `IncidentIntake` | `record_incident_occurrence` and `record_event_idempotent` | the tables as committed, and for each session the statement it is at, the row it is to insert and the locks it holds |
| `PromotionGate` | `validation.py`, `policy.py`, `authorization.py` | operators with the names of the functions |
| `CorrectionLedger` | the correction half of `ledger.py` and its caller | a variable per dictionary, one action per method, and the authorization the caller holds |
| `...Proofs` | theorems | section 5 |
| `MC...` | instances for TLC | constants and symmetry; `MCLedger` also puts two modules into one run, and `MCSessionPreflight` also fills a table of bindings row by row |

`ExecutionCoordinator` EXTENDS `EffectJournal` and calls its actions; that this
is all it does to the journal is checked (`JournalSpec` as a property) and
proved. `EffectJournal` instantiates `EffectLifecycle`. `WorkerJobs` EXTENDS
`JobStates` and takes its transitions from it where the SQL agrees;
`FollowsReferenceModel` says that it agrees everywhere. `ReferenceFileInjector`
and `CorrectionAuthority` stand alone; the coordinator sees the first only as
`AdapterAnswer`, `InvokeHandler`, `ClearTarget` and `RestoreEffect`, the second
only as the set `current`.
`CorrectionAuthority` implements `BindingView` (`ImplementsBindingView`), and
`SessionPreflight` EXTENDS that view, `EffectJournal` and `BindingResolution`:
what it relies on about bindings, that they never return, is what the tables
were checked to give. `IncidentIntake` implements `IncidentLog`
(`ImplementsIncidentLog`). `CorrectionLedger` EXTENDS `PromotionGate`.

Definitions whose comment describes a mistake (`prepare_without_key_lookup`,
`MarkFailed`, `HoldsAnyLock`, ...) are variants of the definition that follows
or precedes them. No specification uses them; each shows that some property can
fail.

### Abstractions

- A digest stands for what it covers. An `Effect` is target, binding, context
  and payload, and the authority reference: the content of `effect_digest`. Two
  effects are the same exactly if their digests are (SHA-256 is taken as
  injective).
- `BoundEffect` are the effects that name an existing, versioned binding, which
  is what `record_verified_outcome_observation` compares with the tables.
- A call that raises in the database changes nothing, so it is not a step; where
  the caller goes on after it (as in `Attempt`, `Prepare`, `ApplyReadback`) the
  coordinator's action has a disjunct for it.
- A handler's effect, its result and its exception are independent, and its
  effect may also land later, settled or not (`RestoreEffect`): nothing is
  assumed of handlers. Readback is truthful about what is in place at that
  moment but may always say AMBIGUOUS or raise: this is the contract of an
  adapter. Between any two calls a target may lose its effect or get back that of
  any dispatched operation, which is more than `ReferenceFileInjector.rollback`
  does to it (`ClearTarget`, `RestoreEffect`).
- Evidence references are kept apart as far as the code does: an attempt is
  recorded under `binding:<id>`, here the binding, a readback or an exception
  under a reference of its own (`OwnEvidence`).
- The client of the journal alone may pass any evidence. `FAILED` and `AMBIGUOUS` carry no
  readback digest, as in every caller of `reconcile` and `mark_ambiguous`.
- Root causes, policy decisions, priorities and rollback conditions are inputs
  that allow or refuse one call; the models contain the calls that are allowed.
- A binding is unique by the selector digest its caller passes, which need not be
  the digest of its selector (`0001:136`). Its expiry is compared with `now()`, the
  start of a transaction that may have waited for locks, so it can be expired when
  it is created.
- In `SessionPreflight` the payload of a correction stands for its instruction
  and message; wording and JSON are left out. A read that raises or a comparison
  that fails ends the attempt (`GiveUp`, `Withhold`). The dispatch check resolves in
  whatever context the host passes it, which need not be the preflight's.
- A digest of a payload is the payload, in the ledger too. An incident is its
  pair of fingerprint and version, inserted at some instant that may be later than
  the observations reported afterwards (`first`).
- `CorrectionLedger` keeps only authorizations that allow: `promote` rejects
  another at its first line. What an authorization was given for (`claims`) is
  history; the ledger itself keeps only the decision.

## 3. Runs

All finish within about two and a half minutes with two workers. Deadlock checking is off
where the system may stop: when every operation is settled and no id is left,
every job has ended, or every revision is used up.

| Run | Question | Bounds |
|---|---|---|
| `EffectJournal` | Does the journal hold up against any client? Types, unique keys, one settlement per log, provenance of outcomes, append-only, implementation of the lifecycle | 2 operations, 2 keys, 2 effects, 2 evidence references, 2 reports; in-memory journal |
| `Coordinator` | Can crashes, races, revocation, late handlers and rollbacks dispatch twice, dispatch without a trace and its authority reference, settle or observe without a readback of the right state, or use a lost binding? | 2 processes, 2 operations, 2 keys, 1 target, a protected and an unprotected binding of which only the first is lost; PostgreSQL journal |
| `LifecycleOrder` (violated) | Is nothing settled that was not attempted? | 2 processes, 1 payload |
| `RevocationRace` (violated) | Does revocation block new attempts? | 2 processes |
| `Injector` | Can a crash or another caller leave a pointer that leads nowhere, or a readback that mixes two operations? | 2 processes, 3 operations of which 2 have the same effect |
| `InjectorRollback` (violated) | Does a rollback restore the prior pointer only if nothing newer is current? | 1 process |
| `InjectorVersions` (violated) | Are version files immutable? | 1 process, 3 operations of which 2 have the same effect |
| `WorkerJobs` | Do leases, retries and dead workers respect the budget, keep late workers out, follow `jobs.py`, and let every job end? | 2 workers, 2 jobs, 3 attempts |
| `Authority` | Is everything the view shows authorized, does authority once gone stay away, is supersession a chain, and does the outbox tell which revisions are active? | 3 corrections of 2 revisions, 4 revisions in all, 1 binding, 2 nested selectors, 2 instants |
| `AuthorityTerminal` (violated) | Do SUPERSEDED and REVOKED stay? | 2 corrections |
| `SessionPreflight` | Is a correction that was pieced together from nine reads one that was in force, does it stay on record, and is nothing sent that did not govern? Does `resolve_binding` find the binding that goes before all others, and none if there is none? | 3 bindings, 2 contexts, 2 effects, 2 operations on 1 key, 1 target; every table of up to 3 rows: 2 corrections, 2 revisions, 2 priorities, 3 selectors, active or not, in every context of 2 labels |
| `Ledger` | Have concurrent reports the effect of the in-memory ledger's operations, and does the ledger promote only what is qualified and authorized? | 3 sessions, 1 incident, 3 occurrences, 2 events, 1 key; 1 correction of 2 revisions, 2 qualifications, 5 suites, 2 promotions |

Why the bounds are enough to meet the interesting cases. Two processes and two
keys give every race for one key, one operation and one target; a third process
adds no new pair of racing steps, and the theorems do not bound them. A log is
at most three events long, by `LogSettlesOnce`, so nothing is cut off. The two
effects of `Coordinator` on one target overwrite each other between a readback and
its use; a third one, protected and without authority, must not get in. That its
unprotected binding is never lost (the constraint `OnlyProtectedLost`) halves the
run; losing a binding is the same step for both, and `RevocationRace` loses an
unprotected one. In `EffectJournal` two reports make a second outcome of an
operation collide with the first. One binding suffices for the view because its condition looks at one
binding; two labels are needed for a selector that is strictly narrower than
its scope, two instants for an expiry. Three corrections are needed for a
supersession cycle that is not just a pair; with four revisions in all one of
them can be revised while the chain is built. Of the three bindings of a
session two are for one revision of one correction and carry the same payload,
one with the higher priority, so that an operation of the other binding, or for
the other context, looks right but for its identity; the third, of another
correction and another injector, ties with the first where both match. Three sessions let one wait for a lock while two others pass, and two
contents make events under one key collide or agree. Two revisions with two
payloads include a revision back to the payload before; the suites pass twice,
lack a kind, contain an unknown kind, and fail. `MaxRevision`, `MaxSubjects`,
`MaxTime`, `MaxAttempts` (a column of the table), `MaxOccurrences`, `MaxEvents`,
`MaxPromotions`, `OnlyProtectedLost` and the sets of ids are the only bounds.

`Ledger` checks two modules that share no state and no call: a behaviour of
`MCLedger` keeps to the half its first step is in, because an interleaving of
the two would show nothing that each alone does not. `SessionPreflight` likewise
either has sessions or fills a table of bindings for `ResolutionIsDetermined`.

Symmetry is used on processes, ids and keys, which the code only compares, and
never in the run with a liveness property.

Fairness is assumed in `WorkerJobs` only (`Fairness`): clocks advance, some
worker keeps polling (`claim_worker_job` is called in a loop), and a worker does
not stay busy for ever: it completes, fails, or dies. That its work ever
succeeds, or that it reports at all, is not assumed; expired leases and the
budget have to bring every job to its end. Weak fairness is enough because each
of these stays enabled until taken. No fairness is assumed of the coordinator:
recovery starts when an operator starts it.

## 4. Where the code and its documents disagree

1. `migrations/0004_execution_integrity.sql:220`. The guard `current_state NOT
   IN ('ATTEMPTED', 'AMBIGUOUS')` is NULL for an operation without events, so a
   PREPARED operation can be settled by `reconcile`, which the in-memory journal
   and the documented lifecycle (`README.md:27`) exclude. `LifecycleOrder`. All
   other properties are checked and proved with this behaviour included: a
   settled operation can then not be attempted, so nothing is dispatched twice.
2. `execution.py:123`. Currentness is checked before, not with, the attempt
   (`docs/operations/RECOVERY_RUNBOOK.md:29`). `RevocationRace`; what holds
   instead is `LostBindingDrains`.
3. `reference_adapter.py:199`. A rollback compares effect digests and so undoes
   a newer operation with the same effect (`RECOVERY_RUNBOOK.md:33`).
   `InjectorRollback`.
4. `reference_adapter.py:100`. Version files are named by the effect digest, so a
   new operation with an effect published before rewrites the file of the earlier
   one (`RECOVERY_RUNBOOK.md:33`: "writes immutable versions"). `InjectorVersions`.
   If the new operation dies before it has written `current.json`, or is rolled
   back later, the pointer names one operation and the version file the other, and
   readback answers AMBIGUOUS (`version-identity-mismatch`) from then on.
5. `migrations/0001_core.sql:371` and `498`. A supersession overwrites REVOKED
   and a revocation overwrites SUPERSEDED, both without successor in
   `state.py:79`. `AuthorityTerminal`; no binding returns (`ImplementsBindingView`).

Limits of properties that hold. `FailedWasMissed` says that a readback has looked
and missed the effect, not that the effect stays away: if a second process
reconciles while a handler still runs, or if a rollback restores what an
operation had put there, an operation that is FAILED has its effect in place, and
nothing in the code notices. `PointersResolve` says that a pointer leads to its
receipt and to a version file with its effect, not that the file is the one its
operation wrote (disagreement 4). `ImplementsBindingView`
includes the passage of time. `SentGoverned` is about the second read of the dispatch
check, and says nothing of bindings created after the first: between the check and
the request a revocation can still come, as the docstring at
`session_preflight.py:251` says. `ImplementsIncidentLog` leaves the
time an incident was last seen to `SummaryTellsOccurrences`, because the two
differ there: the in-memory ledger takes the time of the last report
(`ledger.py:160`), the database the latest of all (`0004:80`). In the database an
incident may exist before its first occurrence, with a count of one. The
in-memory ledger binds an authorization to an equal report only, so one may be
used again, also after its promotion was revoked; the database has one promotion
for a revision (`0001:122`). `VerifiedWasObserved` says that the observed
effect is the operation's own, not that this operation put it there: another
operation with an equal effect may have.

## 5. Proofs

`tlapm` checks every step; nothing is assumed but the named assumptions that the
modules make of their constants, and TLC evaluates those in the runs: null values
are not members of the sets they extend (`JournalAssumption`,
`CoordinatorAssumption`, `PreflightAssumption`, `JobAssumption`,
`QueueAssumption`, `AuthorityAssumption`, `InjectorAssumption`), an effect names
its parts, bindings are evidence references, every operation has a digest, every correction an incident, bounds
are natural numbers (`IntakeAssumption` and others), and the corrections are
finitely many. Otherwise ids, keys, effects, payloads and processes may be any
sets, also infinite ones. `Reconcilable` is any subset of PREPARED, ATTEMPTED,
AMBIGUOUS, so the theorems hold of both journals.

Every invariance proof has the same shape: the inductive invariant is the
conjunction of the checked properties with what they need (TLC checked each
strengthening on the run's instance first), one lemma for the initial states,
one per conjunct or per action for the steps, and the properties follow.

`EffectJournalProofs`. The invariant `JournalInv` is inductive:
`JournalTypeOK`, `KeyIdentifiesOneOperation`, `LogSettlesOnce` and
`OutcomeHasProvenance`, strengthened by `EventsOfKnown` (only a prepared
operation has a log: without it a fresh row could inherit events) and
`VerifiedIsEvidenced` (a VERIFIED event carries a digest and evidence: without it the
provenance of an outcome would not follow from the state that admits it). Each
guarded function preserves it in a lemma of its own; from it follow

- `JournalTypeCorrect`, `KeysAreUnique`, `LogsSettleOnce`,
  `OutcomesHaveProvenance` for the properties of those names,
- `JournalIsAppendOnly` (an action property),
- `InMemoryImplementsLifecycle`: if PREPARED is not reconcilable, each step of
  the journal is a step of `EffectLifecycle` or leaves its variables alone.

`ExecutionCoordinatorProofs`. The invariant `IInv` joins `JournalInv` and
`TypeOK` with what each program counter promises (`CallInv`: from "prepared" on
the process works on a known operation; at "attempted" it alone holds the
attempt and nothing was dispatched yet; at "apply" and "outcome" its readback is
of the operation's effect; ...), with `SoleAttempt` (two processes never hold
the attempt of one operation), `Admitted` (every recorded effect passed the
authorization check) and `TargetWasDispatched` (what is at a target was put
there by a dispatched operation). At-most-once dispatch is not inductive without
`SoleAttempt` and the part of `CallInv` about "attempted": the count of
dispatches alone does not say who may add to it. From `IInv` follow

- `TypeCorrect`, `DispatchedAtMostOnce`, `DispatchesAreJournalled`,
  `VerificationsWereObserved`,
- `OutcomesComeFromVerifiedState` (an action property),
- `LostBindingsDrain` (an action property). It needs one more invariant,
  `RequestIsPrepared`: the row of the operation a call is about to dispatch is
  the request the call began with. Without it a call let in under one binding
  might dispatch an operation of another, and a lost binding would not drain,
- `FailuresWereMissed` (an action property): at "apply" a readback that says FAILED
  has missed the effect, and no other step of a call makes an operation FAILED,
- `CoordinatorImplementsJournal`: the coordinator implements `JournalSpec`, so
  every theorem about the journal holds under it.

`BindingResolutionProofs`. For rows of any number and under any indices:
`ResolvedGoverns` (what `resolve_binding` returns goes before every other
binding that matches), `GovernorIsResolved` (if there is such a binding it is
returned, neither overlooked nor reported as a conflict) and, from the two,
`OrderIsIrrelevant`. They rest on `FinalistsShareScores`: who passes the filters
for priority and specificity has both in common with every other that does.
The run `SessionPreflight` checks the same on its tables (`ResolutionIsDetermined`).

`SessionPreflightProofs` extends the two modules before it. Besides `JournalInv`,
`PreflightInv` says why nine reads in nine transactions amount to one look:
what was read of the journal stays (`ReadsStand`, by the lemma `RecordStays`
from the journal's append-only logs), a binding once seen in the view is there
or never again (`ChosenWasBound`), therefore one that is still there at the last
read was there at the readback (`ForceStands`), and one that goes before every
other when the dispatch check begins does so until it ends, but for those created
meanwhile (`DispatchStands`, from `ResolvedGoverns`). From it follow
`PreparedCorrectionsWereInForce`, `PreparedCorrectionsAreOnRecord` and
`SentCorrectionsGoverned`. The environment takes any journal step and any step of
`BindingView`, so the theorems hold with whatever the coordinator and the
authority tables do.

`CorrectionAuthorityProofs`. `AuthorityInv` joins the checked invariants with
`PromotedIsQualified`, `BoundIsPromoted`, `SupersededIsTerminal` (a superseded
revision's correction is SUPERSEDED or REVOKED, which is why nothing superseded
is in the view) and `OutboxTellsPromotions` (without it a replay of the outbox
says nothing of the revisions it does not mention). `AuthorityImplementsBindingView`
is the refinement: a binding that is created enters the view, and every other
step, a statement or an instant that passes, takes a set of bindings out of it
or leaves it alone (`OthersDarken`). `SupersessionsFormChains` needs what the
recursive query of the cycle check returns, for every number of corrections:
`Chain` is written as a recursive function, and what it computes is proved by
the least counterexample (`LeastNat`, from the library's well-founded order of
the naturals), in the lemmas from `ReachExists` to `ChainIsClosure`: `Chain(c)` is
the least set with `c` that is closed under supersession.

`ReferenceFileInjectorProofs`. `InjectorInv` says what each call has done when it
is at its next file access (`CallsProgress`), that an operation is executed by
one call at a time (`OneExecutor`: the coordinator dispatches it once), and that
every pointer that is stored or that a call has read resolves (`AllResolve`):
`PointersResolve` is about `current` and the pointers in the receipts, but an
execution stores a pointer, and a rollback restores one, that it has read earlier. `ReadbackIsAtomic` is the half of `VerifiedReadIsAtomic` that holds
between the two reads of a readback.

`WorkerJobsProofs`. `QueueInv` adds to `WithinBudget` that a waiting job has an
attempt left (`WaitingHasBudget`: otherwise a claim could pass the budget) and
that a worker the row still names is busy with the attempt the row counts
(`OwnerIsLatest`: what the runtime's check of the owner stands on). From it
follow `BudgetsHold` and the action properties `OnlyLatestAttemptsSettle` and
`QueueFollowsReferenceModel`, and from the last of them `JobsRunDown`: every
change of a row leaves it fewer moves (`MovesLeft`), at most `2 * MaxAttempts` in
all, which is what `EveryJobEnds` needs besides fairness.

`LedgerProofs` has both halves of the ledger. For corrections, the invariant
`LedgerInv` joins the checked properties with `QualificationsHaveSubjects` (a
recorded result is of a revision that exists and has its payload) and
`AuthorizationIsSound` (the claims of the authorization that is held are enough
for the revision its report names). The second is what makes the soundness of
promotions inductive: the authorization is older than the promotion, and only
the equality of reports that `promote` asks for ties them together. From it
follow `LedgerTypeCorrect`, `PromotionsAreQualified` and
`StrictPromotionsAreSound`, from no assumption on the constants.

For intake, `IntakeInv` states what the locks and the unique indexes are for:
between two statements of a call its row lock keeps the ordinal it has read the
next one (`CallsInOrder`, `OneHolder`), a draft keeps its key free until its
commit (`OneDraft`), committed rows obey the unique index and the foreign key
(`RowsFit`), and the row's time is the latest (`LastIsLatest`). From it follow
`SummariesTellOccurrences`, `ReportsAreNeverRefused`, `AnswersStayHonest` and the
refinement `IntakeImplementsIncidentLog`: the insertion of an incident, the
commit of an occurrence and the commit of an event are steps of the reference
ledger, and every other statement is none. `PayloadsAreContents` (the payloads of
the reference ledger are the contents of the rows at their ordinals) carries the
refinement mapping.

Only model-checked: `EveryJobEnds`, because liveness under fairness is out of the
proof system's reach. `ResolutionIsDetermined` is about the tables of its run; the
theorems about `resolve_binding` are about every table. Every other property of a passing run is the statement of a
theorem. The runs that expect a violation state what the code does not do.

## 6. Not modelled

- `ambiguity.py`, `experiment.py`, `effectiveness.py`: arithmetic over lists,
  without state.
- `driftguard_consumer.py`, `events.py`, `fingerprint.py`, `provenance.py`,
  `models.py`: validation and encoding of one value.
- `plugins.py`: a registry filled at start-up; the models suppose that the exact
  injector is registered. `session_preflight_cli.py`: argument handling.
- Role configuration: the models take for granted what it establishes, that the
  tables change through the guarded functions only.
- Deadlocks inside the database (a revocation and a supersession lock the same
  rows in different orders): PostgreSQL aborts one transaction, which is then no
  step.
- Two worker processes that share a worker id: the calls carry no attempt
  number that could tell them apart.

## 7. Plan

Done: `EffectLifecycle`, `EffectJournal`, `ExecutionCoordinator` and their
proofs, because dispatch and verification are what the rest exists for;
`ReferenceFileInjector`, `WorkerJobs`, `CorrectionAuthority`; then
`BindingView`, `BindingResolution`, `SessionPreflight`, `IncidentLog`,
`IncidentIntake`, `PromotionGate`, `CorrectionLedger`; then the proofs about each
of them.

Next: the composition as theorems, that what the coordinator and the authority
tables do is what the environment of `SessionPreflight` may do.
