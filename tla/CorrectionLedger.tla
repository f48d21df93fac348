---------------------------- MODULE CorrectionLedger ----------------------------
(***************************************************************************)
(* The correction half of InMemoryLedger (ledger.py) and its caller: a     *)
(* correction is revised while qualifications of its revisions are         *)
(* recorded, and an authorization that was given earlier is used, again,   *)
(* or too late.  Every call is one step: the ledger has no concurrency.    *)
(*                                                                         *)
(* The incident of a correction, the ids that the ledger makes up, and the *)
(* times of promotions are left out.                                       *)
(***************************************************************************)
EXTENDS PromotionGate, Sequences, FiniteSets

CONSTANTS QualificationId,
          MaxRevision,   \* bound: revisions of a correction
          MaxPromotions, \* bound: promotions
          None           \* no qualification, no authorization

VARIABLES corrections,    \* corrections[c]: the revisions of family c
          qualifications, \* qualifications[q]: the result recorded as q, or None
          promotions,     \* the promotions, in the order they were made
          authorization   \* the PromotionAuthorization the caller holds, or None

correctionVars == <<corrections, qualifications, promotions, authorization>>

\* Revision n of c as the CorrectionRevision that create and revise return.
RevisionOf(c, n) ==
    [correction |-> c, revision |-> n, payload |-> corrections[c][n].payload,
     reversible |-> corrections[c][n].reversible]

Revisions == UNION {{RevisionOf(c, n) : n \in 1..Len(corrections[c])} : c \in Correction}

Recorded == {q \in QualificationId : qualifications[q] # None}

\* What an authorization was given for: the grounds that the strict policy
\* decided on, None for a policy of the caller's.  This is history: the program
\* keeps only the decision.
Claims == Grounds \cup {None}

PromotionRecord == [correction : Correction, revision : Nat \ {0},
                    qualification : QualificationId, claims : Claims,
                    revoked : BOOLEAN]

CorrectionTypeOK ==
    /\ corrections \in [Correction -> Seq([payload : Payload, reversible : BOOLEAN])]
    /\ qualifications \in [QualificationId -> QualificationResult \cup {None}]
    /\ promotions \in Seq(PromotionRecord)
    /\ \A n \in 1..Len(promotions) :
          /\ promotions[n].qualification \in Recorded
          /\ promotions[n].revision <= Len(corrections[promotions[n].correction])
    /\ authorization # None => authorization.claims \in Claims

CorrectionInit ==
    /\ corrections = [c \in Correction |-> <<>>]
    /\ qualifications = [q \in QualificationId |-> None]
    /\ promotions = <<>>
    /\ authorization = None

-----------------------------------------------------------------------------
\* A new family takes the place of one with its name.
create_correction_again(c, x, rev) ==
    /\ corrections' = [corrections EXCEPT ![c] = <<[payload |-> x, reversible |-> rev]>>]
    /\ UNCHANGED <<qualifications, promotions, authorization>>

\* A correction begins with its first revision, of an incident that exists.
create_correction(c, x, rev) ==
    /\ corrections[c] = <<>>
    /\ corrections' = [corrections EXCEPT ![c] = <<[payload |-> x, reversible |-> rev]>>]
    /\ UNCHANGED <<qualifications, promotions, authorization>>

\* rev is None for the default, the reversibility of the current revision.
revise_correction(c, x, rev) ==
    /\ corrections[c] # <<>>
    /\ Len(corrections[c]) < MaxRevision
    /\ LET current == corrections[c][Len(corrections[c])] IN
       corrections' = [corrections EXCEPT ![c] = Append(@,
           [payload |-> x, reversible |-> IF rev = None THEN current.reversible ELSE rev])]
    /\ UNCHANGED <<qualifications, promotions, authorization>>

\* A second result under an id in use takes the place of the first.
record_qualification_again(q, result) ==
    /\ \E c \in Revisions : matches(result, c)
    /\ qualifications' = [qualifications EXCEPT ![q] = result]
    /\ UNCHANGED <<corrections, promotions, authorization>>

\* An id is used once, for a result with the digest of the revision it names,
\* current or not.
record_qualification(q, result) ==
    /\ qualifications[q] = None
    /\ \E c \in Revisions : matches(result, c)
    /\ qualifications' = [qualifications EXCEPT ![q] = result]
    /\ UNCHANGED <<corrections, promotions, authorization>>

\* authorize_promotion, called with any revision and any recorded result:
\* either may be an old one.  The strict policy decides on the claims made; a
\* policy of the caller's (claims = None) may allow anything.  Only an allowing
\* authorization is worth holding: promote rejects another before it looks at
\* anything else.
authorize_promotion(c, q, terms, claims) ==
    /\ q \in Recorded
    /\ WellFormed(terms)
    /\ LET report == evaluate(c, qualifications[q]) IN
       /\ claims # None => StrictPromotionPolicy(c, report, claims, terms)
       /\ authorization' = [validation |-> report, claims |-> claims]
    /\ UNCHANGED <<corrections, qualifications, promotions>>

MakePromotion(c, n, q) ==
    /\ Len(promotions) < MaxPromotions
    /\ promotions' = Append(promotions,
          [correction |-> c, revision |-> n, qualification |-> q,
           claims |-> authorization.claims, revoked |-> FALSE])
    /\ UNCHANGED <<corrections, qualifications, authorization>>

\* The authorization is asked only whether it allows a promotion.
promote_with_any_authorization(c, n, q) ==
    /\ authorization # None /\ q \in Recorded
    /\ n > 0 /\ n = Len(corrections[c])
    /\ matches(qualifications[q], RevisionOf(c, n))
    /\ evaluate(RevisionOf(c, n), qualifications[q]).passed
    /\ MakePromotion(c, n, q)

\* Only the current revision, with a qualification of it that passes, and under
\* an authorization of that same result; the authorization has its terms (see
\* WellFormed) and may be used again.
promote(c, n, q) ==
    /\ authorization # None /\ q \in Recorded
    /\ n > 0 /\ n = Len(corrections[c])
    /\ matches(qualifications[q], RevisionOf(c, n))
    /\ LET canonical == evaluate(RevisionOf(c, n), qualifications[q]) IN
       /\ canonical.passed
       /\ authorization.validation = canonical
    /\ MakePromotion(c, n, q)

\* A promotion that is revoked already is returned as it is.
revoke(n) ==
    /\ n \in 1..Len(promotions)
    /\ promotions' = [promotions EXCEPT ![n].revoked = TRUE]
    /\ UNCHANGED <<corrections, qualifications, authorization>>

CorrectionNext ==
    \/ \E c \in Correction, x \in Payload, rev \in BOOLEAN : create_correction(c, x, rev)
    \/ \E c \in Correction, x \in Payload, rev \in BOOLEAN \cup {None} :
          revise_correction(c, x, rev)
    \/ \E q \in QualificationId, c \in Revisions, x \in Payload, s \in Suite :
          record_qualification(q, [correction |-> c.correction, revision |-> c.revision,
                                   payload |-> x, suite |-> s])
    \/ \E c \in Revisions, q \in QualificationId, terms \in Terms, claims \in Claims :
          authorize_promotion(c, q, terms, claims)
    \/ \E c \in Correction, n \in 1..MaxRevision, q \in QualificationId : promote(c, n, q)
    \/ \E n \in 1..MaxPromotions : revoke(n)

CorrectionSpec == CorrectionInit /\ [][CorrectionNext]_correctionVars

-----------------------------------------------------------------------------
(* Properties                                                              *)

\* Whatever was revised, recorded or authorized before and after it, every
\* promotion rests on a recorded qualification of exactly the revision and
\* payload it promotes, in which each required kind of test was run, and no
\* test failed or was of a kind nobody knows: an equal payload of an earlier
\* revision does not do.
PromotionIsQualified ==
    \A n \in 1..Len(promotions) :
        LET p == promotions[n]
            q == qualifications[p.qualification]
        IN /\ q.correction = p.correction /\ q.revision = p.revision
           /\ q.payload = corrections[p.correction][p.revision].payload
           /\ \A k \in DEFAULT_REQUIRED_KINDS : \E t \in q.suite.tests : t.kind = k
           /\ \A t \in q.suite.tests : t.kind \in TestKind /\ t.passed

\* What was promoted on the strict policy's word had a supported, unambiguous
\* root cause, and an acknowledgement if the promoted revision cannot be undone:
\* an authorization that needed none, because it was given for a revision that
\* can be undone, does not carry a revision that cannot.
StrictPromotionIsSound ==
    \A n \in 1..Len(promotions) :
        LET p == promotions[n] IN
        p.claims # None =>
            /\ p.claims.supported /\ ~p.claims.ambiguous
            /\ \/ corrections[p.correction][p.revision].reversible
               \/ p.claims.acknowledged
=============================================================================
