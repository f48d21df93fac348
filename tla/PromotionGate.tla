----------------------------- MODULE PromotionGate -----------------------------
(***************************************************************************)
(* Who may promote a correction: the canonical validation of a             *)
(* qualification (validation.py), the strict promotion policy (policy.py)  *)
(* and the authorization that binds a decision to the report it was made   *)
(* on (authorization.py).  All of it is computed from its arguments.       *)
(*                                                                         *)
(* A digest is told apart as its payload is, so the payload stands for it; *)
(* the names of tests, the reasons of a decision and the text of a scope   *)
(* or a rollback condition are left out, their absence is not.             *)
(***************************************************************************)
EXTENDS Naturals

CONSTANTS Correction, Payload,
          Suite   \* runs of a validation suite: records [version, tests]

\* TestKind; any other string is the kind of an unknown test.
TestKind == {"MFT", "INV", "DIR", "CONTRAST", "TRANSFER", "RETAIN", "ANTI_TRIGGER"}

DEFAULT_REQUIRED_KINDS == {"MFT", "CONTRAST", "TRANSFER", "RETAIN", "ANTI_TRIGGER"}

CorrectionRevision == [correction : Correction, revision : Nat \ {0},
                       payload : Payload, reversible : BOOLEAN]

QualificationResult == [correction : Correction, revision : Nat \ {0},
                        payload : Payload, suite : Suite]

\* What root-cause analysis and the operator claim about the correction.
Grounds == [supported : BOOLEAN, ambiguous : BOOLEAN, acknowledged : BOOLEAN]

\* Whether there is a non-empty activation scope, and a rollback condition.
Terms == [scope : BOOLEAN, rollback : BOOLEAN]

\* QualificationResult.matches; ValidationReport.matches_correction.
matches(q, c) ==
    /\ q.correction = c.correction
    /\ q.revision = c.revision
    /\ q.payload = c.payload

\* The tests alone, whatever they were run on.
evaluate_tests_only(c, q) ==
    LET known  == {t \in q.suite.tests : t.kind \in TestKind}
        failed == {t \in known : ~t.passed}
    IN [correction |-> q.correction, revision |-> q.revision, payload |-> q.payload,
        version |-> q.suite.version, current |-> matches(q, c),
        missing |-> {}, failed |-> failed, unknown |-> {},
        passed |-> matches(q, c) /\ failed = {}]

\* ValidationReport.evaluate, with the required kinds it is always given: the
\* report is about the revision that the qualification names.
evaluate(c, q) ==
    LET known   == {t \in q.suite.tests : t.kind \in TestKind}
        unknown == q.suite.tests \ known
        failed  == {t \in known : ~t.passed}
        missing == DEFAULT_REQUIRED_KINDS \ {t.kind : t \in known}
    IN [correction |-> q.correction, revision |-> q.revision, payload |-> q.payload,
        version |-> q.suite.version, current |-> matches(q, c),
        missing |-> missing, failed |-> failed, unknown |-> unknown,
        passed |-> matches(q, c) /\ missing = {} /\ failed = {} /\ unknown = {}]

\* StrictPromotionPolicy.evaluate: there is no reason to refuse.
StrictPromotionPolicy(c, report, grounds, terms) ==
    /\ matches(report, c)
    /\ ~grounds.ambiguous
    /\ grounds.supported
    /\ report.current
    /\ report.passed
    /\ terms.scope /\ terms.rollback
    /\ c.reversible \/ grounds.acknowledged

\* PromotionAuthorization.__post_init__: an allowing one has its terms.
WellFormed(terms) == terms.scope /\ terms.rollback
=============================================================================
