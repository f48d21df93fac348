------------------------------- MODULE MCLedger -------------------------------
(***************************************************************************)
(* The two halves of the ledger in one run.  They share no state and no    *)
(* call, so an interleaving of the two shows nothing that each of them     *)
(* alone does not: a behaviour of LedgerSpec keeps to the half that its    *)
(* first step is in.                                                       *)
(***************************************************************************)
EXTENDS IncidentIntake, CorrectionLedger, TLC

CONSTANTS s1, s2, s3, x1, x2, y1, y2, q1, q2

Passing == {[kind |-> k, passed |-> TRUE] : k \in DEFAULT_REQUIRED_KINDS}

\* Two runs that pass, one that leaves out a required kind, one with a test of
\* an unknown kind, and one with a failed test of a kind that is not required.
Suites == {[version |-> 1, tests |-> Passing],
           [version |-> 2, tests |-> Passing],
           [version |-> 1, tests |-> {t \in Passing : t.kind # "CONTRAST"}],
           [version |-> 1, tests |-> Passing \cup {[kind |-> "OTHER", passed |-> TRUE]}],
           [version |-> 1, tests |-> Passing \cup {[kind |-> "DIR", passed |-> FALSE]}]}

LedgerInit == IntakeInit /\ CorrectionInit

LedgerNext ==
    \/ CorrectionInit /\ IntakeNext /\ UNCHANGED correctionVars
    \/ IntakeInit /\ CorrectionNext /\ UNCHANGED intakeVars

LedgerSpec == LedgerInit /\ [][LedgerNext]_<<intakeVars, correctionVars>>

MCSymmetry == UNION {Permutations(S) : S \in {Proc, Content, Payload, QualificationId}}
=============================================================================
