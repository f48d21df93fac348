------------------------------ MODULE LedgerProofs ------------------------------
(***************************************************************************)
(* The two halves of the ledger, for any incidents, corrections, payloads  *)
(* and sessions, and without a bound on what is recorded.  They share      *)
(* nothing, and neither do their proofs.                                   *)
(*                                                                         *)
(* Corrections: the ledger promotes what is qualified and authorized.      *)
(*                                                                         *)
(* Intake: the locks and unique indexes order the transactions, so the     *)
(* tables tell the truth, the answers are honest, and every transaction    *)
(* has the effect of one operation of the reference ledger.                *)
(***************************************************************************)
EXTENDS IncidentIntake, CorrectionLedger, FiniteSetTheorems, SequenceTheorems, TLAPS

-----------------------------------------------------------------------------
(* Corrections.                                                            *)

\* A report is about the revision its qualification names, and passes only with
\* every required kind and without a failed or an unknown test.
LEMMA ReportOfQualification ==
    ASSUME NEW c, NEW q
    PROVE  LET report == evaluate(c, q) IN
           /\ report.correction = q.correction
           /\ report.revision = q.revision
           /\ report.payload = q.payload
           /\ report.passed =>
                 /\ \A k \in DEFAULT_REQUIRED_KINDS : \E t \in q.suite.tests : t.kind = k
                 /\ \A t \in q.suite.tests : t.kind \in TestKind /\ t.passed
<1> DEFINE known   == {t \in q.suite.tests : t.kind \in TestKind}
           unknown == q.suite.tests \ known
           failed  == {t \in known : ~t.passed}
           missing == DEFAULT_REQUIRED_KINDS \ {t.kind : t \in known}
<1>1. evaluate(c, q) =
         [correction |-> q.correction, revision |-> q.revision, payload |-> q.payload,
          version |-> q.suite.version, current |-> matches(q, c),
          missing |-> missing, failed |-> failed, unknown |-> unknown,
          passed |-> matches(q, c) /\ missing = {} /\ failed = {} /\ unknown = {}]
  BY DEF evaluate
<1>2. missing = {} => \A k \in DEFAULT_REQUIRED_KINDS : \E t \in q.suite.tests : t.kind = k
  OBVIOUS
<1>3. failed = {} /\ unknown = {} => \A t \in q.suite.tests : t.kind \in TestKind /\ t.passed
  OBVIOUS
<1> HIDE DEF known, unknown, failed, missing
<1>4. /\ evaluate(c, q).correction = q.correction
      /\ evaluate(c, q).revision = q.revision
      /\ evaluate(c, q).payload = q.payload
  BY <1>1
<1>5. evaluate(c, q).passed = (matches(q, c) /\ missing = {} /\ failed = {} /\ unknown = {})
  BY <1>1
<1>6. evaluate(c, q).passed => missing = {} /\ failed = {} /\ unknown = {}
  BY <1>5, Zenon
<1> QED
  BY <1>2, <1>3, <1>4, <1>6

\* A claim that was enough for the strict policy is enough for revision n of c.
Sufficient(claims, c, n) ==
    claims # None =>
        /\ claims.supported /\ ~claims.ambiguous
        /\ corrections[c][n].reversible \/ claims.acknowledged

\* The authorization is about a revision that exists, and its claims are enough
\* for that one: with the equality of reports that promote asks for, this is why
\* a promotion made later is sound.
AuthorizationIsSound ==
    authorization # None =>
        /\ authorization.validation.correction \in Correction
        /\ authorization.validation.revision \in
              1..Len(corrections[authorization.validation.correction])
        /\ Sufficient(authorization.claims, authorization.validation.correction,
                      authorization.validation.revision)

\* A recorded qualification is of a revision that exists.
QualificationsHaveSubjects ==
    \A q \in Recorded :
        /\ qualifications[q].correction \in Correction
        /\ qualifications[q].revision \in 1..Len(corrections[qualifications[q].correction])
        /\ qualifications[q].payload =
              corrections[qualifications[q].correction][qualifications[q].revision].payload

LedgerInv ==
    /\ CorrectionTypeOK
    /\ QualificationsHaveSubjects
    /\ AuthorizationIsSound
    /\ PromotionIsQualified
    /\ StrictPromotionIsSound

LEMMA InitEstablishesLedgerInv == CorrectionInit => LedgerInv
<1> SUFFICES ASSUME CorrectionInit PROVE LedgerInv
  OBVIOUS
<1>1. CorrectionTypeOK
  BY DEF CorrectionInit, CorrectionTypeOK
<1>2. QualificationsHaveSubjects /\ AuthorizationIsSound
  BY DEF CorrectionInit, QualificationsHaveSubjects, AuthorizationIsSound, Recorded
<1>3. PromotionIsQualified /\ StrictPromotionIsSound
  BY DEF CorrectionInit, PromotionIsQualified, StrictPromotionIsSound
<1> QED
  BY <1>1, <1>2, <1>3 DEF LedgerInv

-----------------------------------------------------------------------------
\* Families only grow, so what is true of a revision stays true of it.
LEMMA GrowingFamiliesPreserveLedgerInv ==
    ASSUME LedgerInv,
           corrections' \in [Correction -> Seq([payload : Payload, reversible : BOOLEAN])],
           \A c \in Correction :
              /\ Len(corrections[c]) <= Len(corrections'[c])
              /\ \A n \in 1..Len(corrections[c]) : corrections'[c][n] = corrections[c][n],
           UNCHANGED <<qualifications, promotions, authorization>>
    PROVE  LedgerInv'
<1> USE DEF LedgerInv
<1>1. Recorded' = Recorded
  BY DEF Recorded
<1>2. \A c \in Correction : Len(corrections[c]) \in Nat /\ Len(corrections'[c]) \in Nat
  BY DEF CorrectionTypeOK
<1>3. \A n \in 1..Len(promotions) :
         /\ promotions[n].correction \in Correction
         /\ promotions[n].revision \in 1..Len(corrections[promotions[n].correction])
  <2> TAKE n \in 1..Len(promotions)
  <2>1. promotions[n] \in PromotionRecord
        /\ promotions[n].revision <= Len(corrections[promotions[n].correction])
    BY DEF CorrectionTypeOK
  <2> QED
    BY <1>2, <2>1 DEF PromotionRecord
<1>4. CorrectionTypeOK'
  <2>1. \A n \in 1..Len(promotions) :
           promotions[n].revision <= Len(corrections'[promotions[n].correction])
    BY <1>2, <1>3
  <2> QED
    BY <1>1, <2>1 DEF CorrectionTypeOK
<1>5. QualificationsHaveSubjects'
  <2> SUFFICES ASSUME NEW q \in Recorded
               PROVE  /\ qualifications[q].correction \in Correction
                      /\ qualifications[q].revision \in
                            1..Len(corrections'[qualifications[q].correction])
                      /\ qualifications[q].payload =
                            corrections'[qualifications[q].correction]
                                        [qualifications[q].revision].payload
    BY <1>1 DEF QualificationsHaveSubjects
  <2> QED
    BY <1>2 DEF QualificationsHaveSubjects
<1>6. AuthorizationIsSound'
  BY <1>2 DEF AuthorizationIsSound, Sufficient
<1>7. PromotionIsQualified'
  BY <1>3 DEF PromotionIsQualified
<1>8. StrictPromotionIsSound'
  BY <1>3 DEF StrictPromotionIsSound
<1> QED
  BY <1>4, <1>5, <1>6, <1>7, <1>8

LEMMA CreatePreservesLedgerInv ==
    ASSUME LedgerInv, NEW c \in Correction, NEW x \in Payload, NEW rev \in BOOLEAN,
           create_correction(c, x, rev)
    PROVE  LedgerInv'
<1>1. corrections \in [Correction -> Seq([payload : Payload, reversible : BOOLEAN])]
  BY DEF LedgerInv, CorrectionTypeOK
<1> DEFINE Row == [payload : Payload, reversible : BOOLEAN]
           row == [payload |-> x, reversible |-> rev]
<1>2. corrections' \in [Correction -> Seq(Row)]
  <2>1. row \in Row /\ corrections' = [corrections EXCEPT ![c] = <<row>>]
    BY DEF create_correction
  <2> HIDE DEF Row, row
  <2>2. <<row>> \in Seq(Row)
    BY <2>1
  <2> QED
    BY <1>1, <2>1, <2>2 DEF Row
<1>3. \A d \in Correction :
         /\ Len(corrections[d]) <= Len(corrections'[d])
         /\ \A n \in 1..Len(corrections[d]) : corrections'[d][n] = corrections[d][n]
  BY <1>1, <1>2 DEF create_correction
<1> QED
  BY <1>2, <1>3, GrowingFamiliesPreserveLedgerInv DEF create_correction

LEMMA RevisePreservesLedgerInv ==
    ASSUME LedgerInv, NEW c \in Correction, NEW x \in Payload,
           NEW rev \in BOOLEAN \cup {None}, revise_correction(c, x, rev)
    PROVE  LedgerInv'
<1> DEFINE Row == [payload : Payload, reversible : BOOLEAN]
           row == [payload |-> x, reversible |-> IF rev = None
                     THEN corrections[c][Len(corrections[c])].reversible ELSE rev]
<1>1. corrections \in [Correction -> Seq(Row)]
  BY DEF LedgerInv, CorrectionTypeOK
<1>2. row \in Row
  <2>1. corrections[c] \in Seq(Row) /\ corrections[c] # <<>>
    BY <1>1 DEF revise_correction
  <2>2. corrections[c][Len(corrections[c])] \in Row
    <3> HIDE DEF Row
    <3> QED
      BY <2>1
  <2> QED
    BY <2>2
<1>3. corrections' = [corrections EXCEPT ![c] = Append(corrections[c], row)]
  BY DEF revise_correction
<1> HIDE DEF row, Row
<1>4. corrections' \in [Correction -> Seq(Row)]
  BY <1>1, <1>2, <1>3
<1>5. \A d \in Correction :
         /\ Len(corrections[d]) <= Len(corrections'[d])
         /\ \A n \in 1..Len(corrections[d]) : corrections'[d][n] = corrections[d][n]
  BY <1>1, <1>2, <1>3
<1>6. corrections' \in [Correction -> Seq([payload : Payload, reversible : BOOLEAN])]
  BY <1>4 DEF Row
<1> QED
  BY <1>5, <1>6, GrowingFamiliesPreserveLedgerInv DEF revise_correction

\* A revision of the ledger's, as a caller gets hold of it.
LEMMA RevisionsExist ==
    ASSUME LedgerInv, NEW r \in Revisions
    PROVE  /\ r.correction \in Correction
           /\ r.revision \in 1..Len(corrections[r.correction])
           /\ r.payload = corrections[r.correction][r.revision].payload
           /\ r.reversible = corrections[r.correction][r.revision].reversible
           /\ r.payload \in Payload
<1>1. PICK c \in Correction : \E n \in 1..Len(corrections[c]) : r = RevisionOf(c, n)
  BY DEF Revisions
<1>2. PICK n \in 1..Len(corrections[c]) : r = RevisionOf(c, n)
  BY <1>1
<1>3. corrections[c][n] \in [payload : Payload, reversible : BOOLEAN]
  <2> DEFINE Row == [payload : Payload, reversible : BOOLEAN]
  <2>1. corrections[c] \in Seq(Row)
    BY DEF LedgerInv, CorrectionTypeOK
  <2> HIDE DEF Row
  <2>2. corrections[c][n] \in Row
    BY <2>1
  <2> QED
    BY <2>2 DEF Row
<1> QED
  BY <1>2, <1>3 DEF RevisionOf

LEMMA QualifyPreservesLedgerInv ==
    ASSUME LedgerInv, NEW q \in QualificationId, NEW r \in Revisions, NEW s \in Suite,
           NEW result, result = [correction |-> r.correction, revision |-> r.revision,
                                 payload |-> result.payload, suite |-> s],
           record_qualification(q, result)
    PROVE  LedgerInv'
<1>1. PICK d \in Revisions : matches(result, d)
  BY DEF record_qualification
<1>2. /\ result.correction \in Correction
      /\ result.revision \in 1..Len(corrections[result.correction])
      /\ result.payload = corrections[result.correction][result.revision].payload
      /\ result.payload \in Payload
  BY <1>1, RevisionsExist DEF matches
<1>3. corrections \in [Correction -> Seq([payload : Payload, reversible : BOOLEAN])]
  BY DEF LedgerInv, CorrectionTypeOK
<1>4. result.revision \in Nat \ {0}
  BY <1>2, <1>3
<1>5. result = [correction |-> result.correction, revision |-> result.revision,
                payload |-> result.payload, suite |-> s]
  <2>1. result.correction = r.correction /\ result.revision = r.revision
    OBVIOUS
  <2> QED
    BY <2>1
<1>6. result \in QualificationResult
  BY <1>2, <1>4, <1>5 DEF QualificationResult
<1>7. /\ qualifications[q] = None /\ qualifications' = [qualifications EXCEPT ![q] = result]
      /\ UNCHANGED <<corrections, promotions, authorization>>
  BY DEF record_qualification
<1>8. qualifications \in [QualificationId -> QualificationResult \cup {None}]
  BY DEF LedgerInv, CorrectionTypeOK
<1>9. /\ \A p \in Recorded : p # q /\ qualifications'[p] = qualifications[p]
      /\ Recorded \subseteq Recorded'
      /\ Recorded' \subseteq Recorded \cup {q}
  BY <1>7, <1>8 DEF Recorded
<1>10. CorrectionTypeOK'
  <2>1. qualifications' \in [QualificationId -> QualificationResult \cup {None}]
    BY <1>6, <1>7, <1>8
  <2> QED
    BY <2>1, <1>7, <1>9 DEF LedgerInv, CorrectionTypeOK
<1>11. QualificationsHaveSubjects'
  <2> SUFFICES ASSUME NEW p \in Recorded'
               PROVE  /\ qualifications'[p].correction \in Correction
                      /\ qualifications'[p].revision \in
                            1..Len(corrections[qualifications'[p].correction])
                      /\ qualifications'[p].payload =
                            corrections[qualifications'[p].correction]
                                       [qualifications'[p].revision].payload
    BY <1>7 DEF QualificationsHaveSubjects
  <2>1. CASE p \in Recorded
    BY <1>9, <2>1 DEF LedgerInv, QualificationsHaveSubjects
  <2>2. CASE p = q
    BY <1>2, <1>7, <1>8, <2>2
  <2> QED
    BY <1>9, <2>1, <2>2
<1>12. AuthorizationIsSound'
  BY <1>7 DEF LedgerInv, AuthorizationIsSound, Sufficient
<1>13. PromotionIsQualified'
  <2>1. \A n \in 1..Len(promotions) :
           qualifications'[promotions[n].qualification] =
              qualifications[promotions[n].qualification]
    BY <1>9 DEF LedgerInv, CorrectionTypeOK
  <2> QED
    BY <1>7, <2>1 DEF LedgerInv, PromotionIsQualified
<1>14. StrictPromotionIsSound'
  BY <1>7 DEF LedgerInv, StrictPromotionIsSound
<1> QED
  BY <1>10, <1>11, <1>12, <1>13, <1>14 DEF LedgerInv

LEMMA AuthorizePreservesLedgerInv ==
    ASSUME LedgerInv, NEW r \in Revisions, NEW q \in QualificationId,
           NEW terms \in Terms, NEW claims \in Claims,
           authorize_promotion(r, q, terms, claims)
    PROVE  LedgerInv'
<1> DEFINE report == evaluate(r, qualifications[q])
<1>1. /\ q \in Recorded
      /\ claims # None => StrictPromotionPolicy(r, report, claims, terms)
      /\ authorization' = [validation |-> report, claims |-> claims]
      /\ UNCHANGED <<corrections, qualifications, promotions>>
  BY DEF authorize_promotion
<1>2. /\ report.correction = qualifications[q].correction
      /\ report.revision = qualifications[q].revision
  BY ReportOfQualification
<1>3. /\ report.correction \in Correction
      /\ report.revision \in 1..Len(corrections[report.correction])
  BY <1>1, <1>2 DEF LedgerInv, QualificationsHaveSubjects
<1> HIDE DEF report
<1>4. Sufficient(claims, report.correction, report.revision)
  BY <1>1, RevisionsExist DEF Sufficient, StrictPromotionPolicy, matches
<1>5. AuthorizationIsSound'
  BY <1>1, <1>3, <1>4 DEF AuthorizationIsSound, Sufficient
<1>6. Recorded' = Recorded
  BY <1>1 DEF Recorded
<1>7. CorrectionTypeOK'
  BY <1>1, <1>6 DEF LedgerInv, CorrectionTypeOK
<1>8. /\ QualificationsHaveSubjects' /\ PromotionIsQualified' /\ StrictPromotionIsSound'
  BY <1>1, <1>6 DEF LedgerInv, QualificationsHaveSubjects, PromotionIsQualified,
                    StrictPromotionIsSound
<1> QED
  BY <1>5, <1>7, <1>8 DEF LedgerInv

LEMMA PromotePreservesLedgerInv ==
    ASSUME LedgerInv, NEW c \in Correction, NEW n, NEW q \in QualificationId,
           promote(c, n, q)
    PROVE  LedgerInv'
<1> DEFINE result == qualifications[q]
           canonical == evaluate(RevisionOf(c, n), result)
           new == [correction |-> c, revision |-> n, qualification |-> q,
                   claims |-> authorization.claims, revoked |-> FALSE]
<1>1. /\ authorization # None /\ q \in Recorded
      /\ n > 0 /\ n = Len(corrections[c])
      /\ matches(result, RevisionOf(c, n))
      /\ canonical.passed /\ authorization.validation = canonical
      /\ promotions' = Append(promotions, new)
      /\ UNCHANGED <<corrections, qualifications, authorization>>
  BY DEF promote, MakePromotion
<1>2. n \in Nat \ {0} /\ n \in 1..Len(corrections[c])
  BY <1>1 DEF LedgerInv, CorrectionTypeOK
<1>3. /\ result.correction = c /\ result.revision = n
      /\ result.payload = corrections[c][n].payload
  BY <1>1 DEF matches, RevisionOf
<1>4. /\ canonical.correction = c /\ canonical.revision = n
      /\ \A k \in DEFAULT_REQUIRED_KINDS : \E t \in result.suite.tests : t.kind = k
      /\ \A t \in result.suite.tests : t.kind \in TestKind /\ t.passed
  BY <1>1, <1>3, ReportOfQualification
<1>5. authorization.claims \in Claims /\ Sufficient(authorization.claims, c, n)
  BY <1>1, <1>4 DEF LedgerInv, CorrectionTypeOK, AuthorizationIsSound
<1> HIDE DEF canonical
<1>6. new \in PromotionRecord
  BY <1>2, <1>5 DEF PromotionRecord
<1>7. promotions \in Seq(PromotionRecord)
  BY DEF LedgerInv, CorrectionTypeOK
<1>8. /\ promotions' \in Seq(PromotionRecord)
      /\ Len(promotions') = Len(promotions) + 1 /\ Len(promotions) \in Nat
      /\ \A m \in 1..Len(promotions) : promotions'[m] = promotions[m]
      /\ promotions'[Len(promotions) + 1] = new
  <2> HIDE DEF new
  <2> QED
    BY <1>1, <1>6, <1>7
<1>9. \A m \in 1..Len(promotions') : m \in 1..Len(promotions) \/ promotions'[m] = new
  BY <1>8
<1>10. Recorded' = Recorded
  BY <1>1 DEF Recorded
<1>11. CorrectionTypeOK'
  <2>1. \A m \in 1..Len(promotions') :
           /\ promotions'[m].qualification \in Recorded
           /\ promotions'[m].revision <= Len(corrections[promotions'[m].correction])
    <3> TAKE m \in 1..Len(promotions')
    <3>1. CASE m \in 1..Len(promotions)
      BY <1>8, <3>1 DEF LedgerInv, CorrectionTypeOK
    <3>2. CASE promotions'[m] = new
      BY <1>1, <1>2, <3>2
    <3> QED
      BY <1>9, <3>1, <3>2
  <2> QED
    BY <1>1, <1>8, <1>10, <2>1 DEF LedgerInv, CorrectionTypeOK
<1>12. PromotionIsQualified'
  <2> SUFFICES ASSUME NEW m \in 1..Len(promotions')
               PROVE  LET p == promotions'[m]
                          r == qualifications[p.qualification]
                      IN /\ r.correction = p.correction /\ r.revision = p.revision
                         /\ r.payload = corrections[p.correction][p.revision].payload
                         /\ \A k \in DEFAULT_REQUIRED_KINDS :
                               \E t \in r.suite.tests : t.kind = k
                         /\ \A t \in r.suite.tests : t.kind \in TestKind /\ t.passed
    BY <1>1 DEF PromotionIsQualified
  <2>1. CASE m \in 1..Len(promotions)
    BY <1>8, <2>1 DEF LedgerInv, PromotionIsQualified
  <2>2. CASE promotions'[m] = new
    BY <1>3, <1>4, <2>2
  <2> QED
    BY <1>9, <2>1, <2>2
<1>13. StrictPromotionIsSound'
  <2> SUFFICES ASSUME NEW m \in 1..Len(promotions')
               PROVE  Sufficient(promotions'[m].claims, promotions'[m].correction,
                                 promotions'[m].revision)
    BY <1>1 DEF StrictPromotionIsSound, Sufficient
  <2>1. CASE m \in 1..Len(promotions)
    BY <1>8, <2>1 DEF LedgerInv, StrictPromotionIsSound, Sufficient
  <2>2. CASE promotions'[m] = new
    BY <1>5, <2>2
  <2> QED
    BY <1>9, <2>1, <2>2
<1>14. QualificationsHaveSubjects' /\ AuthorizationIsSound'
  BY <1>1, <1>10 DEF LedgerInv, QualificationsHaveSubjects, AuthorizationIsSound, Sufficient
<1> QED
  BY <1>11, <1>12, <1>13, <1>14 DEF LedgerInv

\* One element of a sequence is replaced.
LEMMA ReplacedElement ==
    ASSUME NEW S, NEW s \in Seq(S), NEW i \in 1..Len(s), NEW e \in S,
           NEW t, t = [s EXCEPT ![i] = e]
    PROVE  /\ t \in Seq(S)
           /\ Len(t) = Len(s)
           /\ \A m \in 1..Len(s) : t[m] = IF m = i THEN e ELSE s[m]
BY ExceptSeq

LEMMA RevokePreservesLedgerInv ==
    ASSUME LedgerInv, NEW n, revoke(n)
    PROVE  LedgerInv'
<1>1. /\ n \in 1..Len(promotions)
      /\ promotions' = [promotions EXCEPT ![n].revoked = TRUE]
      /\ UNCHANGED <<corrections, qualifications, authorization>>
  BY DEF revoke
<1>2. promotions \in Seq(PromotionRecord)
  BY DEF LedgerInv, CorrectionTypeOK
<1>3. /\ promotions' \in Seq(PromotionRecord)
      /\ Len(promotions') = Len(promotions)
      /\ \A m \in 1..Len(promotions) :
            /\ promotions'[m].correction = promotions[m].correction
            /\ promotions'[m].revision = promotions[m].revision
            /\ promotions'[m].qualification = promotions[m].qualification
            /\ promotions'[m].claims = promotions[m].claims
  <2> DEFINE changed == [promotions[n] EXCEPT !.revoked = TRUE]
  <2>1. promotions[n] \in PromotionRecord
    BY <1>1, <1>2
  <2>2. /\ changed \in PromotionRecord
        /\ changed.correction = promotions[n].correction
        /\ changed.revision = promotions[n].revision
        /\ changed.qualification = promotions[n].qualification
        /\ changed.claims = promotions[n].claims
    BY <2>1 DEF PromotionRecord
  <2>3. promotions' = [promotions EXCEPT ![n] = changed]
    BY <1>1, Zenon
  <2> HIDE DEF changed
  <2>4. /\ promotions' \in Seq(PromotionRecord)
        /\ Len(promotions') = Len(promotions)
        /\ \A m \in 1..Len(promotions) :
              promotions'[m] = IF m = n THEN changed ELSE promotions[m]
    <3>1. n \in 1..Len(promotions) /\ changed \in PromotionRecord
      BY <1>1, <2>2
    <3> QED
      BY <1>2, <2>3, <3>1, ReplacedElement
  <2> QED
    BY <2>2, <2>4
<1>4. Recorded' = Recorded
  BY <1>1 DEF Recorded
<1>5. CorrectionTypeOK'
  <2>1. \A m \in 1..Len(promotions') :
           /\ promotions'[m].qualification \in Recorded
           /\ promotions'[m].revision <= Len(corrections[promotions'[m].correction])
    BY <1>3 DEF LedgerInv, CorrectionTypeOK
  <2> QED
    BY <1>1, <1>3, <1>4, <2>1 DEF LedgerInv, CorrectionTypeOK
<1>6. PromotionIsQualified'
  BY <1>1, <1>3 DEF LedgerInv, PromotionIsQualified
<1>7. StrictPromotionIsSound'
  BY <1>1, <1>3 DEF LedgerInv, StrictPromotionIsSound
<1>8. QualificationsHaveSubjects' /\ AuthorizationIsSound'
  BY <1>1, <1>4 DEF LedgerInv, QualificationsHaveSubjects, AuthorizationIsSound, Sufficient
<1> QED
  BY <1>5, <1>6, <1>7, <1>8 DEF LedgerInv

-----------------------------------------------------------------------------
LEMMA NextPreservesLedgerInv ==
    LedgerInv /\ [CorrectionNext]_correctionVars => LedgerInv'
<1> SUFFICES ASSUME LedgerInv, [CorrectionNext]_correctionVars PROVE LedgerInv'
  OBVIOUS
<1>1. ASSUME NEW c \in Correction, NEW x \in Payload, NEW rev \in BOOLEAN,
             create_correction(c, x, rev)
      PROVE  LedgerInv'
  BY <1>1, CreatePreservesLedgerInv
<1>2. ASSUME NEW c \in Correction, NEW x \in Payload, NEW rev \in BOOLEAN \cup {None},
             revise_correction(c, x, rev)
      PROVE  LedgerInv'
  BY <1>2, RevisePreservesLedgerInv
<1>3. ASSUME NEW q \in QualificationId, NEW r \in Revisions, NEW x \in Payload,
             NEW s \in Suite,
             record_qualification(q, [correction |-> r.correction, revision |-> r.revision,
                                      payload |-> x, suite |-> s])
      PROVE  LedgerInv'
  <2> DEFINE result == [correction |-> r.correction, revision |-> r.revision,
                        payload |-> x, suite |-> s]
  <2>1. result = [correction |-> r.correction, revision |-> r.revision,
                  payload |-> result.payload, suite |-> s]
    OBVIOUS
  <2>2. record_qualification(q, result)
    BY <1>3
  <2> HIDE DEF result
  <2> QED
    BY <2>1, <2>2, QualifyPreservesLedgerInv
<1>4. ASSUME NEW r \in Revisions, NEW q \in QualificationId, NEW terms \in Terms,
             NEW claims \in Claims, authorize_promotion(r, q, terms, claims)
      PROVE  LedgerInv'
  BY <1>4, AuthorizePreservesLedgerInv
<1>5. ASSUME NEW c \in Correction, NEW n \in 1..MaxRevision, NEW q \in QualificationId,
             promote(c, n, q)
      PROVE  LedgerInv'
  BY <1>5, PromotePreservesLedgerInv
<1>6. ASSUME NEW n \in 1..MaxPromotions, revoke(n) PROVE LedgerInv'
  BY <1>6, RevokePreservesLedgerInv
<1>7. ASSUME UNCHANGED correctionVars PROVE LedgerInv'
  <2>1. corrections' = corrections /\ UNCHANGED <<qualifications, promotions, authorization>>
    BY <1>7 DEF correctionVars
  <2>2. corrections \in [Correction -> Seq([payload : Payload, reversible : BOOLEAN])]
    BY DEF LedgerInv, CorrectionTypeOK
  <2>3. \A c \in Correction : Len(corrections[c]) <= Len(corrections'[c])
    BY <2>1, <2>2
  <2> QED
    BY <2>1, <2>2, <2>3, GrowingFamiliesPreserveLedgerInv
<1> QED
  BY <1>1, <1>2, <1>3, <1>4, <1>5, <1>6, <1>7 DEF CorrectionNext

LEMMA LedgerInvAlways == CorrectionSpec => []LedgerInv
<1> QED
  BY InitEstablishesLedgerInv, NextPreservesLedgerInv, PTL DEF CorrectionSpec

\* The ledger's dictionaries stay well typed, for any callers.
THEOREM LedgerTypeCorrect == CorrectionSpec => []CorrectionTypeOK
<1>1. LedgerInv => CorrectionTypeOK
  BY DEF LedgerInv
<1> QED
  BY <1>1, LedgerInvAlways, PTL

\* However often a correction is revised and an authorization used, every
\* promotion rests on a passing qualification of exactly what it promotes.
THEOREM PromotionsAreQualified == CorrectionSpec => []PromotionIsQualified
<1>1. LedgerInv => PromotionIsQualified
  BY DEF LedgerInv
<1> QED
  BY <1>1, LedgerInvAlways, PTL

\* The strict policy's word is never stretched to a revision it was not given for.
THEOREM StrictPromotionsAreSound == CorrectionSpec => []StrictPromotionIsSound
<1>1. LedgerInv => StrictPromotionIsSound
  BY DEF LedgerInv
<1> QED
  BY <1>1, LedgerInvAlways, PTL

-----------------------------------------------------------------------------
(* Incident intake.                                                        *)

OccurrenceArg == [incident : Incident, ordinal : Nat, content : Content, time : 0..MaxTime]

\* A call of record_incident_occurrence that holds the lock on its incident,
\* one that has read its ordinal, and a call of record_event_idempotent.
Recording(p) == pc[p] \in {"ordinal", "insert", "summary", "commit"}
Numbered(p) == pc[p] \in {"insert", "summary", "commit"}
Asking(p) == pc[p] \in {"event", "draft", "reread", "answered", "refused"}

\* What a call has read and holds by the time of its next statement.
InOrder(p) ==
    /\ Recording(p) => /\ arg[p] \in OccurrenceArg
                       /\ Exists(arg[p].incident)
                       /\ p \in locked[arg[p].incident]
    /\ Numbered(p) => arg[p].ordinal = Cardinality(RowsOf(arg[p].incident)) + 1
    /\ Asking(p) => /\ arg[p] \in EventRow /\ arg[p].key # NoKey
                    /\ Exists(arg[p].effect.incident)
    /\ At(p, "reread") => Holding(arg[p].key) # {}
    /\ At(p, "draft") => Holding(arg[p].key) = {}

CallsInOrder == \A p \in Proc : InOrder(p)

\* The row lock and the unique index on the key exclude each other's users.
OneHolder == \A i \in Incident : \A p, q \in locked[i] : p = q

OneDraft ==
    \A p, q \in Proc : At(p, "draft") /\ At(q, "draft") /\ arg[p].key = arg[q].key => p = q

\* The unique index on (incident_id, ordinal), and the foreign key.
RowsFit ==
    /\ IsFiniteSet(rows)
    /\ \A r \in rows : Exists(r.incident)
    /\ \A r, s \in rows : SameOrdinal(r, s) => r = s

\* An incident was last seen when the latest of its occurrences was observed, or
\* when it was inserted.
LastIsLatest ==
    \A i \in Incident : Exists(i) =>
        /\ summary[i].last \in {summary[i].first} \cup {r.time : r \in RowsOf(i)}
        /\ summary[i].first <= summary[i].last
        /\ \A r \in RowsOf(i) : r.time <= summary[i].last

IntakeInv ==
    /\ IntakeTypeOK
    /\ CallsInOrder
    /\ OneHolder
    /\ OneDraft
    /\ RowsFit
    /\ LastIsLatest
    /\ SummaryTellsOccurrences
    /\ NoReportIsRefused
    /\ AnswersAreHonest

-----------------------------------------------------------------------------
\* A greatest element is the maximum.
LEMMA MaxIs ==
    ASSUME NEW S, S \subseteq Nat, NEW m \in S, \A n \in S : n <= m
    PROVE  Max(S) = m
<1>1. \A y \in S : m >= y
  OBVIOUS
<1>2. ASSUME NEW x \in S, \A y \in S : x >= y PROVE x = m
  <2>1. x >= m /\ x <= m /\ x \in Nat /\ m \in Nat
    BY <1>2
  <2> QED BY <2>1
<1> QED
  BY <1>1, <1>2 DEF Max

LEMMA IntakeStepFacts ==
    ASSUME IntakeTypeOK, NEW p \in Proc, NEW l, NEW a, Step(p, l, a)
    PROVE  /\ pc'[p] = l /\ arg'[p] = a
           /\ \A q \in Proc : q # p => pc'[q] = pc[q] /\ arg'[q] = arg[q]
BY DEF IntakeTypeOK, Step

\* The rows of an incident are finitely many, and how many they are.
LEMMA RowsCounted ==
    ASSUME RowsFit, NEW i
    PROVE  IsFiniteSet(RowsOf(i)) /\ Cardinality(RowsOf(i)) \in Nat
<1>1. RowsOf(i) \subseteq rows
  BY DEF RowsOf
<1> QED
  BY <1>1, FS_Subset, FS_CardinalityType DEF RowsFit

\* max(ordinal) + 1 is the number after those that are there.
LEMMA NextOrdinal ==
    ASSUME RowsFit, SummaryTellsOccurrences, NEW i \in Incident, Exists(i)
    PROVE  Max({0} \cup {r.ordinal : r \in RowsOf(i)}) = Cardinality(RowsOf(i))
<1> DEFINE n == Cardinality(RowsOf(i))
<1>1. n \in Nat
  BY RowsCounted
<1>2. {r.ordinal : r \in RowsOf(i)} = 1..n
  BY DEF SummaryTellsOccurrences
<1> HIDE DEF n
<1>3. {0} \cup (1..n) \subseteq Nat /\ n \in {0} \cup (1..n)
         /\ \A m \in {0} \cup (1..n) : m <= n
  BY <1>1
<1>4. Max({0} \cup (1..n)) = n
  BY <1>3, MaxIs
<1> QED
  BY <1>2, <1>4 DEF n

\* What the commit of an occurrence makes visible.
LEMMA CommitFacts ==
    ASSUME IntakeInv, NEW p \in Proc, commit_occurrence(p)
    PROVE  /\ arg[p] \in Occurrence /\ arg[p] \notin rows
           /\ rows' = rows \cup {arg[p]}
           /\ Exists(arg[p].incident)
           /\ arg[p].ordinal = Cardinality(RowsOf(arg[p].incident)) + 1
           /\ \A i \in Incident :
                 RowsOf(i)' = IF i = arg[p].incident THEN RowsOf(i) \cup {arg[p]} ELSE RowsOf(i)
           /\ \A i \in Incident :
                 Cardinality(RowsOf(i)') = IF i = arg[p].incident
                                           THEN Cardinality(RowsOf(i)) + 1
                                           ELSE Cardinality(RowsOf(i))
           /\ \A i \in Incident : i # arg[p].incident => summary'[i] = summary[i]
           /\ summary'[arg[p].incident].count = arg[p].ordinal
           /\ summary'[arg[p].incident].first = summary[arg[p].incident].first
           /\ summary'[arg[p].incident].last =
                 IF arg[p].time <= summary[arg[p].incident].last
                 THEN summary[arg[p].incident].last ELSE arg[p].time
<1> DEFINE i0 == arg[p].incident
           n == Cardinality(RowsOf(i0))
<1>1. /\ arg[p] \in OccurrenceArg /\ Exists(i0) /\ arg[p].ordinal = n + 1
      /\ rows' = rows \cup {arg[p]}
      /\ summary' = [summary EXCEPT ![i0].count = arg[p].ordinal,
                                    ![i0].last = Max({@, arg[p].time})]
  BY DEF IntakeInv, CallsInOrder, InOrder, Recording, Numbered, At, commit_occurrence
<1>2. i0 \in Incident /\ n \in Nat /\ arg[p].time \in 0..MaxTime /\ IsFiniteSet(RowsOf(i0))
  BY <1>1, RowsCounted DEF OccurrenceArg, IntakeInv
<1>3. {r.ordinal : r \in RowsOf(i0)} = 1..n
  BY <1>1, <1>2 DEF IntakeInv, SummaryTellsOccurrences
<1>4. arg[p] \in Occurrence
  <2> HIDE DEF n
  <2> QED
    BY <1>1, <1>2 DEF OccurrenceArg, Occurrence
<1>5. arg[p] \notin RowsOf(i0)
  <2>1. ASSUME arg[p] \in RowsOf(i0) PROVE FALSE
    <3>1. n + 1 \in 1..n
      BY <1>1, <1>3, <2>1
    <3> HIDE DEF n
    <3> QED
      BY <1>2, <3>1
  <2> QED
    BY <2>1
<1>6. arg[p] \notin rows
  BY <1>5 DEF RowsOf
<1>7. \A i \in Incident :
         RowsOf(i)' = IF i = i0 THEN RowsOf(i) \cup {arg[p]} ELSE RowsOf(i)
  BY <1>1 DEF RowsOf
<1>8. Cardinality(RowsOf(i0) \cup {arg[p]}) = n + 1
  BY <1>2, <1>5, FS_AddElement
<1>9. \A i \in Incident : Cardinality(RowsOf(i)') =
         IF i = i0 THEN Cardinality(RowsOf(i)) + 1 ELSE Cardinality(RowsOf(i))
  BY <1>7, <1>8
<1>10. summary[i0].last \in Nat /\ arg[p].time \in Nat
  BY <1>2, IntakeAssumption DEF IntakeInv, IntakeTypeOK
<1>11. summary'[i0].count = arg[p].ordinal /\ summary'[i0].first = summary[i0].first
         /\ summary'[i0].last = Max({summary[i0].last, arg[p].time})
         /\ \A i \in Incident : i # i0 => summary'[i] = summary[i]
  BY <1>1, <1>2 DEF IntakeInv, IntakeTypeOK
<1>12. Max({summary[i0].last, arg[p].time}) =
         IF arg[p].time <= summary[i0].last THEN summary[i0].last ELSE arg[p].time
  <2> DEFINE a == summary[i0].last
             b == arg[p].time
             S == {a, b}
  <2>1. a \in Nat /\ b \in Nat
    BY <1>10
  <2> HIDE DEF a, b
  <2>2. CASE b <= a
    <3>1. S \subseteq Nat /\ a \in S /\ \A y \in S : y <= a
      BY <2>1, <2>2
    <3>2. Max(S) = a
      BY <3>1, MaxIs
    <3> QED BY <2>2, <3>2 DEF a, b
  <2>3. CASE ~(b <= a)
    <3>1. S \subseteq Nat /\ b \in S /\ \A y \in S : y <= b
      BY <2>1, <2>3
    <3>2. Max(S) = b
      BY <3>1, MaxIs
    <3> QED BY <2>3, <3>2 DEF a, b
  <2> QED
    BY <2>2, <2>3
<1> QED
  BY <1>1, <1>4, <1>6, <1>7, <1>9, <1>11, <1>12

\* No incident goes away.
LEMMA ExistsStays ==
    ASSUME IntakeInv, [IntakeNext]_intakeVars, NEW i \in Incident, Exists(i)
    PROVE  Exists(i)'
<1>1. ASSUME UNCHANGED summary PROVE Exists(i)'
  BY <1>1 DEF Exists
<1>2. ASSUME NEW j \in Incident, NEW t \in 0..MaxTime, insert_incident(j, t) PROVE Exists(i)'
  <2>1. summary'[i] = summary[i]
    BY <1>2 DEF insert_incident, IntakeInv, IntakeTypeOK
  <2> QED
    BY <2>1 DEF Exists
<1>3. ASSUME NEW p \in Proc, commit_occurrence(p) PROVE Exists(i)'
  <2>1. CASE i = arg[p].incident
    <3>1. summary'[i].count \in Nat /\ summary'[i].count # 0
      BY <1>3, <2>1, CommitFacts DEF Occurrence
    <3> QED
      BY <3>1 DEF Exists, Absent
  <2>2. CASE i # arg[p].incident
    BY <1>3, <2>2, CommitFacts DEF Exists
  <2> QED
    BY <2>1, <2>2
<1> QED
  BY <1>1, <1>2, <1>3
     DEF IntakeNext, lock_incident, next_ordinal, insert_occurrence, update_summary,
         record_event, insert_event, commit_event, reread_event, Rollback, tables, intakeVars

\* An event that is appended stays where it is.
LEMMA AppendFacts ==
    ASSUME IntakeTypeOK, NEW a \in EventRow, eventRows' = Append(eventRows, a)
    PROVE  /\ Len(eventRows) \in Nat /\ Len(eventRows') = Len(eventRows) + 1
           /\ \A n \in 1..Len(eventRows) : eventRows'[n] = eventRows[n]
           /\ eventRows'[Len(eventRows) + 1] = a
           /\ eventRows' \in Seq(EventRow)
           /\ \A k : Holding(k)' = Holding(k) \cup
                        (IF a.key = k THEN {Len(eventRows) + 1} ELSE {})
<1>1. /\ Len(eventRows) \in Nat /\ Len(eventRows') = Len(eventRows) + 1
      /\ \A n \in 1..Len(eventRows) : eventRows'[n] = eventRows[n]
      /\ eventRows'[Len(eventRows) + 1] = a
      /\ eventRows' \in Seq(EventRow)
  BY DEF IntakeTypeOK
<1>2. 1..Len(eventRows') = (1..Len(eventRows)) \cup {Len(eventRows) + 1}
  BY <1>1
<1> QED
  BY <1>1, <1>2 DEF Holding

\* What a call appends to the events is a row.
LEMMA EventsAppended ==
    ASSUME IntakeInv, [IntakeNext]_intakeVars
    PROVE  \/ UNCHANGED eventRows
           \/ \E a \in EventRow :
                 /\ eventRows' = Append(eventRows, a)
                 /\ Exists(a.effect.incident)
                 /\ \/ a.key = NoKey
                    \/ \E p \in Proc : commit_event(p) /\ a = arg[p]
<1> DEFINE G == \/ UNCHANGED eventRows
                \/ \E a \in EventRow :
                      /\ eventRows' = Append(eventRows, a)
                      /\ Exists(a.effect.incident)
                      /\ \/ a.key = NoKey
                         \/ \E p \in Proc : commit_event(p) /\ a = arg[p]
<1>1. ASSUME NEW p \in Proc, NEW k \in Key \cup {NoKey}, NEW e \in EventEffect,
             record_event(p, k, e)
      PROVE  G
  <2> DEFINE a == [key |-> k, effect |-> e]
  <2>1. a \in EventRow /\ a.key = k /\ a.effect = e
    BY DEF EventRow
  <2>2. UNCHANGED eventRows \/ (k = NoKey /\ eventRows' = Append(eventRows, a))
    BY <1>1 DEF record_event
  <2>3. Exists(e.incident)
    BY <1>1 DEF record_event
  <2> HIDE DEF a
  <2> QED
    BY <2>1, <2>2, <2>3
<1>2. ASSUME NEW p \in Proc, commit_event(p) PROVE G
  <2>1. arg[p] \in EventRow /\ Exists(arg[p].effect.incident)
           /\ eventRows' = Append(eventRows, arg[p])
    BY <1>2 DEF commit_event, At, IntakeInv, CallsInOrder, InOrder, Asking
  <2> QED
    BY <1>2, <2>1
<1>3. ASSUME UNCHANGED eventRows PROVE G
  BY <1>3
<1> HIDE DEF G
<1>4. G
  BY <1>1, <1>2, <1>3
     DEF IntakeNext, insert_incident, lock_incident, next_ordinal, insert_occurrence,
         update_summary, commit_occurrence, insert_event, reread_event, Rollback,
         tables, intakeVars
<1> QED
  BY <1>4 DEF G

LEMMA EventsStay ==
    ASSUME IntakeInv, [IntakeNext]_intakeVars, NEW k, NEW n \in Holding(k)
    PROVE  n \in Holding(k)' /\ eventRows'[n] = eventRows[n]
<1>1. CASE UNCHANGED eventRows
  BY <1>1 DEF Holding
<1>2. ASSUME NEW a \in EventRow, eventRows' = Append(eventRows, a)
      PROVE  n \in Holding(k)' /\ eventRows'[n] = eventRows[n]
  <2>1. n \in 1..Len(eventRows)
    BY DEF Holding
  <2> QED
    BY <1>2, <2>1, AppendFacts DEF IntakeInv
<1> QED
  BY <1>1, <1>2, EventsAppended

LEMMA InitIntakeInv == IntakeInit => IntakeInv
<1> SUFFICES ASSUME IntakeInit PROVE IntakeInv
  OBVIOUS
<1>1. \A i \in Incident : RowsOf(i) = {} /\ ~Exists(i)
  BY DEF IntakeInit, RowsOf, Exists
<1>2. IntakeTypeOK
  <2>1. <<>> \in Seq(EventRow)
    BY EmptySeq
  <2>2. Cardinality({}) <= 1
    BY FS_EmptySet
  <2>3. Absent \in [count : Nat, first : 0..MaxTime, last : 0..MaxTime]
    BY IntakeAssumption DEF Absent
  <2> QED
    BY <2>1, <2>2, <2>3 DEF IntakeInit, IntakeTypeOK, Ended
<1>3. CallsInOrder
  BY DEF IntakeInit, CallsInOrder, InOrder, Recording, Numbered, Asking, At
<1>4. OneHolder /\ OneDraft /\ NoReportIsRefused /\ AnswersAreHonest
  BY DEF IntakeInit, OneHolder, OneDraft, NoReportIsRefused, AnswersAreHonest, At
<1>5. RowsFit /\ LastIsLatest /\ SummaryTellsOccurrences
  BY <1>1, FS_EmptySet DEF IntakeInit, RowsFit, LastIsLatest, SummaryTellsOccurrences
<1> QED
  BY <1>2, <1>3, <1>4, <1>5 DEF IntakeInv

\* A lock is taken when it is free, or again by the call that has it.
LEMMA StepOneHolder ==
    ASSUME IntakeInv, [IntakeNext]_intakeVars
    PROVE  OneHolder'
<1> DEFINE G == \A i \in Incident :
                   locked'[i] \subseteq locked[i] \/ \E p \in Proc : locked'[i] = {p}
<1>1. ASSUME NEW p \in Proc, locked' = Unlocked(p) PROVE G
  BY <1>1 DEF Unlocked
<1>2. ASSUME NEW p \in Proc, NEW i \in Incident, locked' = [locked EXCEPT ![i] = {p}]
      PROVE  G
  BY <1>2 DEF IntakeInv, IntakeTypeOK
<1>3. ASSUME UNCHANGED locked PROVE G
  BY <1>3
<1>4. ASSUME NEW p \in Proc, update_summary(p) PROVE G
  <2>1. arg[p].incident \in Incident
    BY <1>4 DEF update_summary, At, IntakeInv, CallsInOrder, InOrder, Recording, OccurrenceArg
  <2> HIDE DEF G
  <2> QED
    BY <1>2, <1>4, <2>1 DEF update_summary
<1>5. G
  <2> HIDE DEF G
  <2> QED
    BY <1>1, <1>2, <1>3, <1>4
       DEF IntakeNext, insert_incident, lock_incident, next_ordinal, insert_occurrence,
           commit_occurrence, record_event, insert_event, commit_event, reread_event,
           Rollback, intakeVars
<1> QED
  BY <1>5 DEF OneHolder, IntakeInv

LEMMA AtMostOne ==
    ASSUME NEW L, \A p, q \in L : p = q
    PROVE  Cardinality(L) <= 1
<1>1. CASE L = {}
  BY <1>1, FS_EmptySet
<1>2. CASE L # {}
  <2>1. PICK p : p \in L
    BY <1>2
  <2>2. L = {p}
    BY <2>1
  <2>3. Cardinality({p}) = 1
    BY FS_Singleton
  <2> QED
    BY <2>2, <2>3
<1> QED
  BY <1>1, <1>2

LEMMA StepIntakeTyped ==
    ASSUME IntakeInv, [IntakeNext]_intakeVars
    PROVE  IntakeTypeOK'
<1> DEFINE Labels == Ended \cup {"ordinal", "insert", "summary", "commit",
                                 "event", "draft", "reread"}
           Args == {Nothing} \cup EventRow \cup [incident : Incident, ordinal : Nat,
                                                 content : Content, time : 0..MaxTime]
\* The calls.
<1>1. ASSUME NEW p \in Proc, NEW l \in Labels, NEW a \in Args, Step(p, l, a)
      PROVE  pc' \in [Proc -> Labels] /\ arg' \in [Proc -> Args]
  BY <1>1 DEF Step, IntakeInv, IntakeTypeOK
<1>2. \A p \in Proc : arg[p] \in Args
  BY DEF IntakeInv, IntakeTypeOK
<1>3. ASSUME NEW a \in EventRow PROVE a \in Args
  OBVIOUS
<1>4. ASSUME NEW p \in Proc, next_ordinal(p)
      PROVE  \E a \in Args : Step(p, "insert", a)
  <2>1. arg[p] \in OccurrenceArg /\ Exists(arg[p].incident)
    BY <1>4 DEF next_ordinal, At, IntakeInv, CallsInOrder, InOrder, Recording
  <2>2. Max({0} \cup {r.ordinal : r \in RowsOf(arg[p].incident)}) \in Nat
    BY <2>1, NextOrdinal, RowsCounted DEF IntakeInv, OccurrenceArg
  <2>3. \A m \in Nat : [arg[p] EXCEPT !.ordinal = m + 1] \in OccurrenceArg
    BY <2>1 DEF OccurrenceArg
  <2>4. \A a \in OccurrenceArg : a \in Args
    BY DEF OccurrenceArg
  <2> QED
    BY <1>4, <2>2, <2>3, <2>4 DEF next_ordinal
<1>5. ASSUME NEW p \in Proc, NEW i \in Incident, NEW x \in Content, NEW t \in 0..MaxTime,
             lock_incident(p, i, x, t)
      PROVE  \E a \in Args : Step(p, "ordinal", a)
  <2>1. [incident |-> i, ordinal |-> 0, content |-> x, time |-> t] \in Args
    OBVIOUS
  <2> QED
    BY <1>5, <2>1 DEF lock_incident
<1>6. ASSUME NEW p \in Proc, NEW a \in Args, Compare(p, a)
      PROVE  Step(p, "answered", a) \/ Step(p, "refused", a)
  BY <1>6 DEF Compare
<1>7. ASSUME NEW p \in Proc, NEW k \in Key \cup {NoKey}, NEW e \in EventEffect,
             record_event(p, k, e)
      PROVE  \E l \in Labels, a \in Args : Step(p, l, a)
  <2>1. [key |-> k, effect |-> e] \in Args
    BY DEF EventRow
  <2>2. {"idle", "event", "answered", "refused"} \subseteq Labels
    BY DEF Ended
  <2>3. Nothing \in Args
    OBVIOUS
  <2> HIDE DEF Labels, Args
  <2>4. \/ Step(p, "idle", Nothing)
        \/ Step(p, "event", [key |-> k, effect |-> e])
        \/ Compare(p, [key |-> k, effect |-> e])
    BY <1>7 DEF record_event
  <2> QED
    BY <1>6, <2>1, <2>2, <2>3, <2>4
<1>8. Nothing \in Args /\ Ended \subseteq Labels
         /\ {"ordinal", "insert", "summary", "commit", "event", "draft", "reread",
             "idle", "recorded", "conflict", "answered", "refused"} \subseteq Labels
  BY DEF Ended
<1>9. pc' \in [Proc -> Labels] /\ arg' \in [Proc -> Args]
  <2>1. ASSUME UNCHANGED <<pc, arg>>
        PROVE  pc' \in [Proc -> Labels] /\ arg' \in [Proc -> Args]
    BY <2>1 DEF IntakeInv, IntakeTypeOK
  <2> HIDE DEF Labels, Args
  <2>2. ASSUME NEW p \in Proc, insert_occurrence(p) \/ update_summary(p)
                 \/ commit_occurrence(p) \/ insert_event(p) \/ commit_event(p)
                 \/ reread_event(p) \/ Rollback(p)
        PROVE  \E l \in Labels, a \in Args : Step(p, l, a)
    BY <1>2, <1>6, <1>8, <2>2
       DEF insert_occurrence, update_summary, commit_occurrence, insert_event, commit_event,
           reread_event, Rollback
  <2> QED
    BY <1>1, <1>4, <1>5, <1>7, <1>8, <2>1, <2>2
       DEF IntakeNext, insert_incident, intakeVars
\* The tables and the locks.
<1>10. eventRows' \in Seq(EventRow)
  BY EventsAppended, AppendFacts DEF IntakeInv, IntakeTypeOK
<1>11. rows' \subseteq Occurrence
  <2>1. rows \subseteq Occurrence
    BY DEF IntakeInv, IntakeTypeOK
  <2>2. ASSUME NEW p \in Proc, commit_occurrence(p) PROVE rows' \subseteq Occurrence
    BY <2>1, <2>2, CommitFacts
  <2>3. ASSUME UNCHANGED rows PROVE rows' \subseteq Occurrence
    BY <2>1, <2>3
  <2> QED
    BY <2>2, <2>3
       DEF IntakeNext, insert_incident, lock_incident, next_ordinal, insert_occurrence,
           update_summary, record_event, insert_event, commit_event, reread_event, Rollback,
           tables, intakeVars
<1>12. summary' \in [Incident -> [count : Nat, first : 0..MaxTime, last : 0..MaxTime]]
  <2>1. summary \in [Incident -> [count : Nat, first : 0..MaxTime, last : 0..MaxTime]]
    BY DEF IntakeInv, IntakeTypeOK
  <2>2. ASSUME NEW i \in Incident, NEW t \in 0..MaxTime, insert_incident(i, t)
        PROVE  summary' \in [Incident -> [count : Nat, first : 0..MaxTime, last : 0..MaxTime]]
    BY <2>1, <2>2, IntakeAssumption DEF insert_incident
  <2>3. ASSUME NEW p \in Proc, commit_occurrence(p)
        PROVE  summary' \in [Incident -> [count : Nat, first : 0..MaxTime, last : 0..MaxTime]]
    <3>1. arg[p] \in Occurrence
      BY <2>3, CommitFacts
    <3>2. /\ summary[arg[p].incident].last \in 0..MaxTime
          /\ summary[arg[p].incident].first \in 0..MaxTime
      BY <2>1, <3>1 DEF Occurrence
    <3> DEFINE i == arg[p].incident
               t == IF arg[p].time <= summary[i].last THEN summary[i].last ELSE arg[p].time
               new == [[summary[i] EXCEPT !.count = arg[p].ordinal] EXCEPT !.last = t]
    <3>3. arg[p].ordinal \in Nat /\ t \in 0..MaxTime /\ i \in Incident
      BY <3>1, <3>2 DEF Occurrence
    <3>4. summary[i] \in [count : Nat, first : 0..MaxTime, last : 0..MaxTime]
      BY <2>1, <3>3
    <3>5. new \in [count : Nat, first : 0..MaxTime, last : 0..MaxTime]
      BY <3>3, <3>4
    <3>6. summary'[i].last = t
      BY <2>3, CommitFacts
    <3>7. \E u : summary' = [summary EXCEPT ![i].count = arg[p].ordinal, ![i].last = u]
      BY <2>3 DEF commit_occurrence
    <3>8. PICK u : summary' = [summary EXCEPT ![i].count = arg[p].ordinal, ![i].last = u]
      BY <3>7
    <3>9. u = t
      BY <2>1, <3>3, <3>4, <3>6, <3>8
    <3> QED
      BY <2>1, <3>3, <3>4, <3>5, <3>8, <3>9
  <2>4. ASSUME UNCHANGED summary
        PROVE  summary' \in [Incident -> [count : Nat, first : 0..MaxTime, last : 0..MaxTime]]
    BY <2>1, <2>4
  <2> QED
    BY <2>2, <2>3, <2>4
       DEF IntakeNext, lock_incident, next_ordinal, insert_occurrence,
           update_summary, record_event, insert_event, commit_event, reread_event, Rollback,
           tables, intakeVars
<1>13. locked' \in [Incident -> SUBSET Proc]
  <2>1. locked \in [Incident -> SUBSET Proc]
    BY DEF IntakeInv, IntakeTypeOK
  <2>2. ASSUME NEW p \in Proc, locked' = Unlocked(p) PROVE locked' \in [Incident -> SUBSET Proc]
    BY <2>1, <2>2 DEF Unlocked
  <2>3. ASSUME NEW p \in Proc, NEW i, locked' = [locked EXCEPT ![i] = {p}]
        PROVE  locked' \in [Incident -> SUBSET Proc]
    BY <2>1, <2>3
  <2>4. ASSUME UNCHANGED locked PROVE locked' \in [Incident -> SUBSET Proc]
    BY <2>1, <2>4
  <2> QED
    BY <2>2, <2>3, <2>4
       DEF IntakeNext, insert_incident, lock_incident, next_ordinal, insert_occurrence,
           update_summary, commit_occurrence, record_event, insert_event, commit_event,
           reread_event, Rollback, intakeVars
<1>14. \A i \in Incident : Cardinality(locked'[i]) <= 1
  BY StepOneHolder, AtMostOne DEF OneHolder
<1> QED
  BY <1>9, <1>10, <1>11, <1>12, <1>13, <1>14 DEF IntakeTypeOK

\* Nothing moves under a call that holds its lock and takes no step.
LEMMA LockHolds ==
    ASSUME IntakeInv, [IntakeNext]_intakeVars, NEW q \in Proc, Recording(q),
           pc'[q] = pc[q], NEW i \in Incident, q \in locked[i], arg[q].incident = i
    PROVE  q \in locked'[i] /\ RowsOf(i)' = RowsOf(i)
<1>1. locked \in [Incident -> SUBSET Proc] /\ \A p \in locked[i] : p = q
  BY DEF IntakeInv, IntakeTypeOK, OneHolder
<1>2. ASSUME NEW p \in Proc, NEW j \in Incident, NEW x \in Content, NEW t \in 0..MaxTime,
             lock_incident(p, j, x, t)
      PROVE  q \in locked'[i]
  BY <1>1, <1>2 DEF lock_incident
<1>3. ASSUME NEW p \in Proc, update_summary(p) PROVE q \in locked'[i]
  <2>1. p # q
    BY <1>3, IntakeStepFacts DEF update_summary, At, IntakeInv
  <2>2. arg[p].incident \in Incident
    BY <1>3 DEF update_summary, At, IntakeInv, CallsInOrder, InOrder, Recording, OccurrenceArg
  <2>3. arg[p].incident # i
    BY <1>3, <2>1 DEF update_summary
  <2> QED
    BY <1>1, <1>3, <2>2, <2>3 DEF update_summary
<1>4. ASSUME NEW p \in Proc, NEW l, Step(p, l, Nothing), pc[p] # l, locked' = Unlocked(p)
      PROVE  q \in locked'[i]
  <2>1. p # q
    BY <1>4, IntakeStepFacts DEF IntakeInv
  <2> QED
    BY <1>4, <2>1 DEF Unlocked
<1>5. ASSUME NEW p \in Proc, insert_occurrence(p) PROVE q \in locked'[i]
  BY <1>4, <1>5 DEF insert_occurrence, At
<1>6. ASSUME NEW p \in Proc, Rollback(p) PROVE q \in locked'[i]
  BY <1>4, <1>6 DEF Rollback, Ended
<1>7. ASSUME NEW p \in Proc, commit_occurrence(p) PROVE q \in locked'[i] /\ RowsOf(i)' = RowsOf(i)
  <2>1. q \in locked'[i]
    BY <1>4, <1>7 DEF commit_occurrence, At
  <2>2. p # q
    BY <1>7, IntakeStepFacts DEF commit_occurrence, At, IntakeInv
  <2>3. p \in locked[arg[p].incident]
    BY <1>7 DEF commit_occurrence, At, IntakeInv, CallsInOrder, InOrder, Recording
  <2>4. arg[p].incident # i
    BY <1>1, <2>2, <2>3
  <2> QED
    BY <1>7, <2>1, <2>4, CommitFacts
<1>8. ASSUME UNCHANGED rows PROVE RowsOf(i)' = RowsOf(i)
  BY <1>8 DEF RowsOf
<1>9. ASSUME UNCHANGED locked PROVE q \in locked'[i]
  BY <1>9
<1>10. q \in locked'[i]
  BY <1>2, <1>3, <1>5, <1>6, <1>7, <1>9
     DEF IntakeNext, insert_incident, next_ordinal, record_event, insert_event, commit_event,
         reread_event, intakeVars
<1>11. RowsOf(i)' = RowsOf(i)
  BY <1>7, <1>8
     DEF IntakeNext, insert_incident, lock_incident, next_ordinal, insert_occurrence,
         update_summary, record_event, insert_event, commit_event, reread_event, Rollback,
         tables, intakeVars
<1> QED
  BY <1>10, <1>11

\* Nobody commits the key of a draft but its own call.
LEMMA DraftHolds ==
    ASSUME IntakeInv, [IntakeNext]_intakeVars, NEW q \in Proc, At(q, "draft"), pc'[q] = pc[q]
    PROVE  \A k : k = arg[q].key => Holding(k)' = {}
<1>1. arg[q].key # NoKey /\ Holding(arg[q].key) = {}
  BY DEF IntakeInv, CallsInOrder, InOrder, Asking, At
<1>2. ASSUME NEW a \in EventRow, eventRows' = Append(eventRows, a), NEW k, k = arg[q].key,
             \/ a.key = NoKey
             \/ \E p \in Proc : commit_event(p) /\ a = arg[p]
      PROVE  Holding(k)' = {}
  <2>1. a.key # k
    <3>1. ASSUME NEW p \in Proc, commit_event(p), a = arg[p] PROVE a.key # k
      <4>1. p # q
        BY <3>1, IntakeStepFacts DEF commit_event, At, IntakeInv
      <4> QED
        BY <1>2, <3>1, <4>1 DEF commit_event, IntakeInv, OneDraft
    <3> QED
      BY <1>1, <1>2, <3>1
  <2> QED
    BY <1>1, <1>2, <2>1, AppendFacts DEF IntakeInv
<1>3. ASSUME UNCHANGED eventRows PROVE \A k : Holding(k)' = Holding(k)
  BY <1>3 DEF Holding
<1> QED
  BY <1>1, <1>2, <1>3, EventsAppended

\* A call that takes no step keeps what it has read and holds.
LEMMA OthersInOrder ==
    ASSUME IntakeInv, [IntakeNext]_intakeVars, NEW q \in Proc,
           pc'[q] = pc[q], arg'[q] = arg[q]
    PROVE  InOrder(q)'
<1>1. InOrder(q)
  BY DEF IntakeInv, CallsInOrder
<1>2. ASSUME Recording(q)
      PROVE  /\ arg'[q] \in OccurrenceArg
             /\ Exists(arg[q].incident)'
             /\ q \in locked'[arg'[q].incident]
             /\ Numbered(q) => arg'[q].ordinal = Cardinality(RowsOf(arg[q].incident)') + 1
  <2>1. PICK i : i = arg[q].incident
    OBVIOUS
  <2>2. i \in Incident /\ Exists(i) /\ q \in locked[i] /\ arg[q] \in OccurrenceArg
    BY <1>1, <1>2, <2>1 DEF InOrder, OccurrenceArg
  <2>3. Exists(i)' /\ q \in locked'[i] /\ RowsOf(i)' = RowsOf(i)
    BY <1>2, <2>1, <2>2, ExistsStays, LockHolds
  <2>4. Numbered(q) => arg[q].ordinal = Cardinality(RowsOf(i)) + 1
    BY <1>1, <2>1 DEF InOrder
  <2> QED
    BY <2>1, <2>2, <2>3, <2>4 DEF Exists, RowsOf
<1>3. ASSUME Asking(q)
      PROVE  arg'[q] \in EventRow /\ arg'[q].key # NoKey /\ Exists(arg[q].effect.incident)'
  <2>1. PICK i : i = arg[q].effect.incident
    OBVIOUS
  <2>2. arg[q] \in EventRow /\ arg[q].key # NoKey /\ i \in Incident /\ Exists(i)
    BY <1>1, <1>3, <2>1 DEF InOrder, EventRow, EventEffect
  <2>3. Exists(i)'
    BY <2>2, ExistsStays
  <2> QED
    BY <2>1, <2>2, <2>3 DEF Exists
<1>4. At(q, "reread") => Holding(arg[q].key)' # {}
  <2>1. PICK k : k = arg[q].key
    OBVIOUS
  <2>2. At(q, "reread") => Holding(k) # {}
    BY <1>1, <2>1 DEF InOrder
  <2>3. At(q, "reread") => Holding(k)' # {}
    BY <2>2, EventsStay
  <2> QED
    BY <2>1, <2>3 DEF Holding
<1>5. At(q, "draft") => Holding(arg[q].key)' = {}
  <2>1. PICK k : k = arg[q].key
    OBVIOUS
  <2>2. At(q, "draft") => Holding(k)' = {}
    BY <2>1, DraftHolds
  <2> QED
    BY <2>1, <2>2 DEF Holding
<1> QED
  BY <1>2, <1>3, <1>4, <1>5 DEF InOrder, Recording, Numbered, Asking, At

\* A call that has just taken a step.
LEMMA MovedInOrder ==
    ASSUME IntakeInv, [IntakeNext]_intakeVars, NEW p \in Proc,
           pc'[p] # pc[p] \/ arg'[p] # arg[p]
    PROVE  InOrder(p)'
<1> USE DEF InOrder, Recording, Numbered, Asking, At
<1>0. IntakeTypeOK /\ InOrder(p) /\ locked \in [Incident -> SUBSET Proc]
  BY DEF IntakeInv, CallsInOrder, IntakeTypeOK
<1>1. ASSUME NEW q, NEW l, NEW a, q \in Proc, Step(q, l, a)
      PROVE  q = p /\ pc'[p] = l /\ arg'[p] = a
  BY <1>0, <1>1, IntakeStepFacts
<1>2. ASSUME pc'[p] \in Ended \ {"answered", "refused"} PROVE InOrder(p)'
  BY <1>2 DEF Ended
<1>3. ASSUME NEW i \in Incident, NEW x \in Content, NEW t \in 0..MaxTime,
             lock_incident(p, i, x, t)
      PROVE  InOrder(p)'
  <2> DEFINE a == [incident |-> i, ordinal |-> 0, content |-> x, time |-> t]
  <2>1. a \in OccurrenceArg /\ a.incident = i
    BY DEF OccurrenceArg
  <2>2. pc'[p] = "ordinal" /\ arg'[p] = a
    BY <1>1, <1>3 DEF lock_incident
  <2>3. summary'[i] # Absent /\ locked'[i] = {p}
    BY <1>0, <1>3 DEF lock_incident, Exists, tables
  <2> HIDE DEF a
  <2> QED
    BY <2>1, <2>2, <2>3 DEF Exists, Absent
<1>4. ASSUME next_ordinal(p) PROVE InOrder(p)'
  <2> DEFINE a == [arg[p] EXCEPT !.ordinal =
                     Max({0} \cup {r.ordinal : r \in RowsOf(arg[p].incident)}) + 1]
  <2>1. /\ arg[p] \in OccurrenceArg /\ arg[p].incident \in Incident
        /\ Exists(arg[p].incident) /\ p \in locked[arg[p].incident]
    BY <1>0, <1>4 DEF next_ordinal, OccurrenceArg
  <2>2. Max({0} \cup {r.ordinal : r \in RowsOf(arg[p].incident)})
           = Cardinality(RowsOf(arg[p].incident))
           /\ Cardinality(RowsOf(arg[p].incident)) \in Nat
    BY <2>1, NextOrdinal, RowsCounted DEF IntakeInv
  <2>3. /\ a \in OccurrenceArg /\ a.incident = arg[p].incident
        /\ a.ordinal = Cardinality(RowsOf(arg[p].incident)) + 1
    BY <2>1, <2>2 DEF OccurrenceArg
  <2>4. pc'[p] = "insert" /\ arg'[p] = a /\ UNCHANGED <<tables, locked>>
    BY <1>1, <1>4 DEF next_ordinal
  <2> HIDE DEF a
  <2> QED
    BY <2>1, <2>3, <2>4 DEF Exists, Absent, RowsOf, tables
<1>5. ASSUME insert_occurrence(p) PROVE InOrder(p)'
  <2>1. CASE pc'[p] = "conflict"
    BY <1>2, <2>1 DEF Ended
  <2>2. CASE pc'[p] # "conflict"
    <3>1. /\ pc[p] = "insert" /\ pc'[p] = "summary" /\ arg'[p] = arg[p]
          /\ UNCHANGED <<tables, locked>>
      BY <1>1, <1>5, <2>2 DEF insert_occurrence
    <3> QED
      BY <1>0, <3>1 DEF Exists, Absent, RowsOf, tables
  <2> QED
    BY <2>1, <2>2
<1>6. ASSUME update_summary(p) PROVE InOrder(p)'
  <2>1. /\ pc[p] = "summary" /\ pc'[p] = "commit" /\ arg'[p] = arg[p] /\ UNCHANGED tables
        /\ locked' = [locked EXCEPT ![arg[p].incident] = {p}]
    BY <1>1, <1>6 DEF update_summary
  <2>2. arg[p].incident \in Incident
    BY <1>0, <2>1 DEF OccurrenceArg
  <2>3. locked'[arg[p].incident] = {p}
    BY <1>0, <2>1, <2>2
  <2> QED
    BY <1>0, <2>1, <2>3 DEF Exists, Absent, RowsOf, tables
<1>7. ASSUME commit_occurrence(p) \/ Rollback(p) PROVE InOrder(p)'
  <2>1. pc'[p] \in {"recorded", "idle"}
    BY <1>1, <1>7 DEF commit_occurrence, Rollback
  <2> QED
    BY <1>2, <2>1 DEF Ended
<1>8. ASSUME NEW a, Compare(p, a), a \in EventRow, a.key # NoKey, Exists(a.effect.incident),
             UNCHANGED summary
      PROVE  InOrder(p)'
  <2>1. pc'[p] \in {"answered", "refused"} /\ arg'[p] = a
    BY <1>1, <1>8 DEF Compare
  <2>2. Exists(arg[p].effect.incident)'
    BY <1>8, <2>1 DEF Exists
  <2> QED
    BY <1>8, <2>1, <2>2
<1>9. ASSUME NEW k \in Key \cup {NoKey}, NEW e \in EventEffect, record_event(p, k, e)
      PROVE  InOrder(p)'
  <2> DEFINE a == [key |-> k, effect |-> e]
  <2>1. a \in EventRow /\ a.key = k /\ a.effect = e
    BY DEF EventRow
  <2>2. Exists(e.incident) /\ UNCHANGED summary
    BY <1>9 DEF record_event
  <2>3. \/ Step(p, "idle", Nothing)
        \/ k # NoKey /\ Step(p, "event", a)
        \/ k # NoKey /\ Compare(p, a)
    BY <1>9 DEF record_event
  <2> HIDE DEF a
  <2>4. CASE Step(p, "idle", Nothing)
    BY <1>1, <1>2, <2>4 DEF Ended
  <2>5. CASE k # NoKey /\ Step(p, "event", a)
    <3>1. pc'[p] = "event" /\ arg'[p] = a
      BY <1>1, <2>5
    <3>2. Exists(arg[p].effect.incident)'
      BY <2>1, <2>2, <3>1 DEF Exists
    <3> QED
      BY <2>1, <2>5, <3>1, <3>2
  <2>6. CASE k # NoKey /\ Compare(p, a)
    BY <1>8, <2>1, <2>2, <2>6
  <2> QED
    BY <2>3, <2>4, <2>5, <2>6
<1>10. ASSUME insert_event(p) PROVE InOrder(p)'
  <2>1. /\ pc[p] = "event" /\ arg'[p] = arg[p] /\ UNCHANGED <<summary, eventRows>>
        /\ \/ Holding(arg[p].key) # {} /\ pc'[p] = "reread"
           \/ Holding(arg[p].key) = {} /\ pc'[p] = "draft"
    BY <1>1, <1>10 DEF insert_event, tables
  <2> QED
    BY <1>0, <2>1 DEF Exists, Holding
<1>11. ASSUME commit_event(p) PROVE InOrder(p)'
  <2>1. pc[p] = "draft" /\ arg'[p] = arg[p] /\ UNCHANGED summary /\ pc'[p] = "answered"
    BY <1>1, <1>11 DEF commit_event
  <2> QED
    BY <1>0, <2>1 DEF Exists
<1>12. ASSUME reread_event(p) PROVE InOrder(p)'
  BY <1>0, <1>8, <1>12 DEF reread_event, tables
<1> QED
  <2>1. ASSUME UNCHANGED <<pc, arg>> PROVE FALSE
    BY <2>1
  <2>2. PICK q \in Proc :
           \/ \E i \in Incident, x \in Content, t \in 0..MaxTime : lock_incident(q, i, x, t)
           \/ next_ordinal(q) \/ insert_occurrence(q) \/ update_summary(q)
           \/ commit_occurrence(q)
           \/ \E k \in Key \cup {NoKey}, e \in EventEffect : record_event(q, k, e)
           \/ insert_event(q) \/ commit_event(q) \/ reread_event(q)
           \/ Rollback(q)
    BY <2>1 DEF IntakeNext, insert_incident, intakeVars
  <2>3. \E l, a : Step(q, l, a)
    BY <2>2 DEF lock_incident, next_ordinal, insert_occurrence, update_summary,
       commit_occurrence, record_event, insert_event, commit_event, reread_event, Rollback,
       Compare
  <2>4. q = p
    BY <1>1, <2>3
  <2> QED
    BY <1>3, <1>4, <1>5, <1>6, <1>7, <1>9, <1>10, <1>11, <1>12, <2>2, <2>4

LEMMA StepCallsInOrder ==
    ASSUME IntakeInv, [IntakeNext]_intakeVars
    PROVE  CallsInOrder'
BY OthersInOrder, MovedInOrder DEF CallsInOrder

\* A draft is made only if no other session holds one for its key.
LEMMA StepOneDraft ==
    ASSUME IntakeInv, [IntakeNext]_intakeVars
    PROVE  OneDraft'
<1>0. IntakeTypeOK /\ OneDraft
  BY DEF IntakeInv
<1>1. ASSUME NEW p \in Proc, NEW l, NEW a, Step(p, l, a), l # "draft"
      PROVE  OneDraft'
  BY <1>0, <1>1, IntakeStepFacts DEF OneDraft, At
<1>2. ASSUME UNCHANGED <<pc, arg>> PROVE OneDraft'
  BY <1>0, <1>2 DEF OneDraft, At
<1>3. ASSUME NEW p \in Proc, insert_event(p) PROVE OneDraft'
  <2>1. CASE Step(p, "reread", arg[p])
    BY <1>1, <2>1
  <2>2. CASE Step(p, "draft", arg[p])
              /\ \A q \in Proc : At(q, "draft") => arg[q].key # arg[p].key
    BY <1>0, <2>2, IntakeStepFacts DEF OneDraft, At
  <2> QED
    BY <1>3, <2>1, <2>2 DEF insert_event
<1>4. ASSUME NEW p \in Proc, NEW a, Compare(p, a) PROVE OneDraft'
  BY <1>1, <1>4 DEF Compare
<1> QED
  BY <1>1, <1>2, <1>3, <1>4
     DEF IntakeNext, insert_incident, lock_incident, next_ordinal, insert_occurrence,
         update_summary, commit_occurrence, record_event, commit_event, reread_event,
         Rollback, intakeVars

LEMMA StepRowsFit ==
    ASSUME IntakeInv, [IntakeNext]_intakeVars
    PROVE  RowsFit'
<1>0. IntakeTypeOK /\ RowsFit /\ SummaryTellsOccurrences
  BY DEF IntakeInv
<1>1. ASSUME NEW r \in rows PROVE Exists(r.incident)'
  <2>1. r.incident \in Incident /\ Exists(r.incident)
    BY <1>0 DEF IntakeTypeOK, Occurrence, RowsFit
  <2>2. PICK i : i = r.incident
    OBVIOUS
  <2>3. Exists(i)'
    BY <2>1, <2>2, ExistsStays
  <2> QED
    BY <2>2, <2>3
<1>2. ASSUME UNCHANGED rows PROVE RowsFit'
  <2>1. \A r \in rows' : Exists(r.incident)'
    BY <1>1, <1>2
  <2> QED
    BY <1>0, <1>2, <2>1 DEF RowsFit, SameOrdinal
<1>3. ASSUME NEW p \in Proc, commit_occurrence(p) PROVE RowsFit'
  <2>1. PICK a : a = arg[p]
    OBVIOUS
  <2>2. /\ a \in Occurrence /\ a \notin rows /\ rows' = rows \cup {a} /\ Exists(a.incident)
        /\ a.ordinal = Cardinality(RowsOf(a.incident)) + 1
    BY <1>3, <2>1, CommitFacts
  <2>3. IsFiniteSet(rows')
    BY <1>0, <2>2, FS_AddElement DEF RowsFit
  <2>4. Exists(a.incident)'
    BY <2>2, ExistsStays DEF Occurrence
  <2>5. \A r \in rows' : Exists(r.incident)'
    BY <1>1, <2>2, <2>4
  <2>6. \A r \in rows : ~SameOrdinal(r, a)
    <3>1. ASSUME NEW r \in rows, SameOrdinal(r, a) PROVE FALSE
      <4>1. r \in RowsOf(a.incident) /\ r.ordinal = Cardinality(RowsOf(a.incident)) + 1
        BY <2>2, <3>1 DEF SameOrdinal, RowsOf
      <4>2. r.ordinal \in 1..Cardinality(RowsOf(a.incident))
        BY <1>0, <2>2, <4>1 DEF SummaryTellsOccurrences, Occurrence
      <4>3. Cardinality(RowsOf(a.incident)) \in Nat
        BY <1>0, RowsCounted
      <4> QED
        BY <4>1, <4>2, <4>3
    <3> QED
      BY <3>1
  <2>7. \A r, s \in rows' : SameOrdinal(r, s) => r = s
    BY <1>0, <2>2, <2>6 DEF RowsFit, SameOrdinal
  <2> QED
    BY <2>3, <2>5, <2>7 DEF RowsFit, SameOrdinal
<1> QED
  BY <1>2, <1>3
     DEF IntakeNext, insert_incident, lock_incident, next_ordinal, insert_occurrence,
         update_summary, record_event, insert_event, commit_event, reread_event, Rollback,
         tables, intakeVars

\* The latest observation stays the latest, in whatever order reports commit.
LEMMA StepLastIsLatest ==
    ASSUME IntakeInv, [IntakeNext]_intakeVars
    PROVE  LastIsLatest'
<1> SUFFICES ASSUME NEW i \in Incident, Exists(i)'
             PROVE  /\ summary'[i].last \in {summary'[i].first} \cup {r.time : r \in RowsOf(i)'}
                    /\ summary'[i].first <= summary'[i].last
                    /\ \A r \in RowsOf(i)' : r.time <= summary'[i].last
  BY DEF LastIsLatest
<1> DEFINE G == /\ summary'[i].last \in {summary'[i].first} \cup {r.time : r \in RowsOf(i)'}
                /\ summary'[i].first <= summary'[i].last
                /\ \A r \in RowsOf(i)' : r.time <= summary'[i].last
<1>0. IntakeTypeOK /\ RowsFit /\ LastIsLatest
  BY DEF IntakeInv
<1>1. ASSUME RowsOf(i)' = RowsOf(i), summary'[i] = summary[i] PROVE G
  <2>1. Exists(i)
    BY <1>1 DEF Exists
  <2> QED
    BY <1>0, <1>1, <2>1 DEF LastIsLatest
<1>2. ASSUME NEW j \in Incident, NEW t \in 0..MaxTime, insert_incident(j, t) PROVE G
  <2>1. RowsOf(i)' = RowsOf(i)
    BY <1>2 DEF insert_incident, RowsOf
  <2>2. CASE i = j
    <3>1. RowsOf(i) = {}
      BY <1>0, <1>2, <2>2 DEF insert_incident, RowsFit, RowsOf
    <3>2. summary'[i].last = t /\ summary'[i].first = t /\ t \in Nat
      BY <1>0, <1>2, <2>2 DEF insert_incident, IntakeTypeOK
    <3> QED
      BY <2>1, <3>1, <3>2
  <2>3. CASE i # j
    <3>1. summary'[i] = summary[i]
      BY <1>0, <1>2, <2>3 DEF insert_incident, IntakeTypeOK
    <3> HIDE DEF G
    <3> QED
      BY <1>1, <2>1, <3>1
  <2> QED
    BY <2>2, <2>3
<1>3. ASSUME NEW p \in Proc, commit_occurrence(p) PROVE G
  <2>1. CASE i = arg[p].incident
    <3>1. PICK a : a = arg[p]
      OBVIOUS
    <3>2. /\ a \in Occurrence /\ RowsOf(i)' = RowsOf(i) \cup {a} /\ Exists(i)
          /\ summary'[i].last = IF a.time <= summary[i].last THEN summary[i].last ELSE a.time
          /\ summary'[i].first = summary[i].first
      BY <1>3, <2>1, <3>1, CommitFacts
    <3>3. a.time \in Nat /\ summary[i].last \in Nat /\ summary[i].first \in Nat
      BY <1>0, <3>2, IntakeAssumption DEF Occurrence, IntakeTypeOK
    <3>4. /\ summary[i].first <= summary[i].last
          /\ summary[i].last \in {summary[i].first} \cup {r.time : r \in RowsOf(i)}
          /\ \A r \in RowsOf(i) : r.time <= summary[i].last /\ r.time \in Nat
      BY <1>0, <3>2, IntakeAssumption DEF LastIsLatest, RowsOf, IntakeTypeOK, Occurrence
    <3>5. \A r \in RowsOf(i) \cup {a} : r.time <= summary'[i].last
      BY <3>2, <3>3, <3>4
    <3>6. summary'[i].first <= summary'[i].last
      BY <3>2, <3>3, <3>4
    <3>7. summary'[i].last \in {summary'[i].first} \cup {r.time : r \in RowsOf(i)'}
      BY <3>2, <3>4
    <3> QED
      BY <3>2, <3>5, <3>6, <3>7
  <2>2. CASE i # arg[p].incident
    <3>1. RowsOf(i)' = RowsOf(i) /\ summary'[i] = summary[i]
      BY <1>3, <2>2, CommitFacts
    <3> HIDE DEF G
    <3> QED
      BY <1>1, <3>1
  <2> QED
    BY <2>1, <2>2
<1>4. ASSUME UNCHANGED <<summary, rows>> PROVE G
  <2>1. RowsOf(i)' = RowsOf(i) /\ summary'[i] = summary[i]
    BY <1>4 DEF RowsOf
  <2> HIDE DEF G
  <2> QED
    BY <1>1, <2>1
<1> HIDE DEF G
<1>5. G
  BY <1>2, <1>3, <1>4
     DEF IntakeNext, lock_incident, next_ordinal, insert_occurrence,
         update_summary, record_event, insert_event, commit_event, reread_event, Rollback,
         tables, intakeVars
<1> QED
  BY <1>5 DEF G

LEMMA StepSummaryTells ==
    ASSUME IntakeInv, [IntakeNext]_intakeVars
    PROVE  SummaryTellsOccurrences'
<1> SUFFICES ASSUME NEW i \in Incident, Exists(i)'
             PROVE  LET n == Cardinality(RowsOf(i)') IN
                    /\ {r.ordinal : r \in RowsOf(i)'} = 1..n
                    /\ summary'[i].count = Max({1, n})
                    /\ summary'[i].last =
                          Max({summary'[i].first} \cup {r.time : r \in RowsOf(i)'})
  BY DEF SummaryTellsOccurrences
<1>0. IntakeTypeOK /\ RowsFit /\ SummaryTellsOccurrences
  BY DEF IntakeInv
<1>1. IntakeTypeOK' /\ RowsFit' /\ LastIsLatest'
  BY StepIntakeTyped, StepRowsFit, StepLastIsLatest
<1> DEFINE n == Cardinality(RowsOf(i)')
           G == /\ {r.ordinal : r \in RowsOf(i)'} = 1..n
                /\ summary'[i].count = Max({1, n})
\* When it was last seen.
<1>2. summary'[i].last = Max({summary'[i].first} \cup {r.time : r \in RowsOf(i)'})
  <2> DEFINE T == {summary'[i].first} \cup {r.time : r \in RowsOf(i)'}
  <2>1. T \subseteq Nat
    BY <1>1, IntakeAssumption DEF IntakeTypeOK, Occurrence, RowsOf
  <2>2. summary'[i].last \in T
    BY <1>1 DEF LastIsLatest
  <2>3. \A r \in RowsOf(i)' : r.time <= summary'[i].last
    BY <1>1 DEF LastIsLatest
  <2>4. summary'[i].first <= summary'[i].last
    BY <1>1, <2>1 DEF LastIsLatest, IntakeTypeOK
  <2>5. \A t \in T : t <= summary'[i].last
    BY <2>3, <2>4
  <2> HIDE DEF T
  <2>6. Max(T) = summary'[i].last
    BY <2>1, <2>2, <2>5, MaxIs
  <2> QED
    BY <2>6 DEF T
\* How many there are.
<1>3. ASSUME NEW m \in Nat PROVE Max({1, m}) = IF m = 0 THEN 1 ELSE m
  <2>1. CASE m = 0
    <3>1. {1, m} \subseteq Nat /\ 1 \in {1, m} /\ \A y \in {1, m} : y <= 1
      BY <2>1
    <3>2. Max({1, m}) = 1
      BY <3>1, MaxIs
    <3> QED
      BY <2>1, <3>2
  <2>2. CASE m # 0
    <3>1. {1, m} \subseteq Nat /\ m \in {1, m} /\ \A y \in {1, m} : y <= m
      BY <2>2
    <3>2. Max({1, m}) = m
      BY <3>1, MaxIs
    <3> QED
      BY <2>2, <3>2
  <2> QED
    BY <2>1, <2>2
<1>4. ASSUME RowsOf(i)' = RowsOf(i), summary'[i] = summary[i] PROVE G
  <2>1. Exists(i)
    BY <1>4 DEF Exists
  <2>2. /\ {r.ordinal : r \in RowsOf(i)} = 1..Cardinality(RowsOf(i))
        /\ summary[i].count = Max({1, Cardinality(RowsOf(i))})
    <3> HIDE DEF G, n
    <3> QED
      BY <1>0, <2>1 DEF SummaryTellsOccurrences
  <2>4. summary[i].count = Max({1, Cardinality(RowsOf(i))})
    BY <2>2
  <2>3. {r.ordinal : r \in RowsOf(i)'} = {r.ordinal : r \in RowsOf(i)}
    BY <1>4
  <2> QED
    BY <1>4, <2>2, <2>3, <2>4
<1>5. ASSUME NEW j \in Incident, NEW t \in 0..MaxTime, insert_incident(j, t) PROVE G
  <2>1. RowsOf(i)' = RowsOf(i)
    BY <1>5 DEF insert_incident, RowsOf
  <2>2. CASE i = j
    <3>1. RowsOf(i) = {}
      BY <1>0, <1>5, <2>2 DEF insert_incident, RowsFit, RowsOf
    <3>2. summary'[i].count = 1
      BY <1>0, <1>5, <2>2 DEF insert_incident, IntakeTypeOK
    <3>3. n = 0
      BY <2>1, <3>1, FS_EmptySet
    <3>4. {r.ordinal : r \in RowsOf(i)'} = {}
      BY <2>1, <3>1
    <3> HIDE DEF n
    <3> QED
      BY <1>3, <3>2, <3>3, <3>4
  <2>3. CASE i # j
    <3>1. summary'[i] = summary[i]
      BY <1>0, <1>5, <2>3 DEF insert_incident, IntakeTypeOK
    <3> HIDE DEF G
    <3> QED
      BY <1>4, <2>1, <3>1
  <2> QED
    BY <2>2, <2>3
<1>6. ASSUME NEW p \in Proc, commit_occurrence(p) PROVE G
  <2>1. CASE i = arg[p].incident
    <3>1. PICK a : a = arg[p]
      OBVIOUS
    <3> DEFINE k == Cardinality(RowsOf(i))
    <3>2. /\ RowsOf(i)' = RowsOf(i) \cup {a} /\ Exists(i)
          /\ n = k + 1
          /\ a.ordinal = k + 1
          /\ summary'[i].count = a.ordinal
      BY <1>6, <2>1, <3>1, CommitFacts
    <3>3. {r.ordinal : r \in RowsOf(i)} = 1..k /\ k \in Nat
      BY <1>0, <3>2, RowsCounted DEF SummaryTellsOccurrences
    <3>4. {r.ordinal : r \in RowsOf(i)'} = (1..k) \cup {k + 1}
      <4>1. {r.ordinal : r \in RowsOf(i) \cup {a}} = {r.ordinal : r \in RowsOf(i)} \cup {a.ordinal}
        OBVIOUS
      <4> QED
        BY <3>2, <3>3, <4>1
    <3> HIDE DEF k, n
    <3>5. (1..k) \cup {k + 1} = 1..n
      BY <3>2, <3>3
    <3>6. summary'[i].count = Max({1, n})
      BY <1>3, <3>2, <3>3
    <3> QED
      BY <3>4, <3>5, <3>6
  <2>2. CASE i # arg[p].incident
    <3>1. RowsOf(i)' = RowsOf(i) /\ summary'[i] = summary[i]
      BY <1>6, <2>2, CommitFacts
    <3> HIDE DEF G
    <3> QED
      BY <1>4, <3>1
  <2> QED
    BY <2>1, <2>2
<1>7. ASSUME UNCHANGED <<summary, rows>> PROVE G
  <2>1. RowsOf(i)' = RowsOf(i) /\ summary'[i] = summary[i]
    BY <1>7 DEF RowsOf
  <2> HIDE DEF G
  <2> QED
    BY <1>4, <2>1
<1>8. G
  <2> HIDE DEF G
  <2> QED
    BY <1>5, <1>6, <1>7
       DEF IntakeNext, lock_incident, next_ordinal, insert_occurrence,
           update_summary, record_event, insert_event, commit_event, reread_event, Rollback,
           tables, intakeVars
<1> QED
  BY <1>2, <1>8

\* The ordinal was read under the lock, so no committed row has it.
LEMMA StepNoReportIsRefused ==
    ASSUME IntakeInv, [IntakeNext]_intakeVars
    PROVE  NoReportIsRefused'
<1>0. IntakeTypeOK /\ RowsFit /\ SummaryTellsOccurrences /\ NoReportIsRefused
  BY DEF IntakeInv
<1>1. ASSUME NEW p \in Proc, NEW l, NEW a, Step(p, l, a), l # "conflict"
      PROVE  NoReportIsRefused'
  BY <1>0, <1>1, IntakeStepFacts DEF NoReportIsRefused, At
<1>2. ASSUME NEW p \in Proc, insert_occurrence(p) PROVE Step(p, "summary", arg[p])
  <2> DEFINE i == arg[p].incident
  <2>1. /\ arg[p] \in OccurrenceArg /\ Exists(i)
        /\ arg[p].ordinal = Cardinality(RowsOf(i)) + 1
    BY <1>2 DEF insert_occurrence, At, IntakeInv, CallsInOrder, InOrder, Recording, Numbered
  <2>2. {r.ordinal : r \in RowsOf(i)} = 1..Cardinality(RowsOf(i))
           /\ Cardinality(RowsOf(i)) \in Nat
    BY <1>0, <2>1, RowsCounted DEF SummaryTellsOccurrences, OccurrenceArg
  <2>3. ASSUME NEW r \in rows, SameOrdinal(r, arg[p]) PROVE FALSE
    <3>1. r \in RowsOf(i) /\ r.ordinal = Cardinality(RowsOf(i)) + 1
      BY <2>1, <2>3 DEF SameOrdinal, RowsOf
    <3>2. r.ordinal \in 1..Cardinality(RowsOf(i))
      BY <2>2, <3>1
    <3> QED
      BY <2>2, <3>1, <3>2
  <2> QED
    BY <1>2, <2>3 DEF insert_occurrence
<1>3. ASSUME UNCHANGED pc PROVE NoReportIsRefused'
  BY <1>0, <1>3 DEF NoReportIsRefused, At
<1>4. ASSUME NEW p \in Proc, NEW a, Compare(p, a) PROVE NoReportIsRefused'
  BY <1>1, <1>4 DEF Compare
<1> QED
  BY <1>1, <1>2, <1>3, <1>4
     DEF IntakeNext, insert_incident, lock_incident, next_ordinal,
         update_summary, commit_occurrence, record_event, insert_event, commit_event,
         reread_event, Rollback, intakeVars

LEMMA StepAnswersAreHonest ==
    ASSUME IntakeInv, [IntakeNext]_intakeVars
    PROVE  AnswersAreHonest'
<1> DEFINE Held(k) == {n \in 1..Len(eventRows') : eventRows'[n].key = k}
           Honest(l, a) ==
              /\ l = "answered" => \E n \in Held(a.key) : eventRows'[n].effect = a.effect
              /\ l = "refused" => \E n \in Held(a.key) : eventRows'[n].effect # a.effect
<1>0. IntakeTypeOK /\ CallsInOrder /\ AnswersAreHonest
  BY DEF IntakeInv
<1>1. ASSUME NEW q \in Proc, pc'[q] = pc[q], arg'[q] = arg[q] PROVE Honest(pc'[q], arg'[q])
  <2>1. PICK k, e : k = arg[q].key /\ e = arg[q].effect
    OBVIOUS
  <2>2. /\ pc[q] = "answered" => \E n \in Holding(k) : eventRows[n].effect = e
        /\ pc[q] = "refused" => \E n \in Holding(k) : eventRows[n].effect # e
    BY <1>0, <2>1 DEF AnswersAreHonest, At
  <2>3. \A n \in Holding(k) : n \in Held(k) /\ eventRows'[n] = eventRows[n]
    BY EventsStay DEF Holding
  <2> HIDE DEF Held
  <2>4. /\ pc[q] = "answered" => \E n \in Held(k) : eventRows'[n].effect = e
        /\ pc[q] = "refused" => \E n \in Held(k) : eventRows'[n].effect # e
    BY <2>2, <2>3
  <2> QED
    BY <1>1, <2>1, <2>4
<1>2. ASSUME NEW p \in Proc, NEW l, NEW a, Step(p, l, a), Honest(l, a)
      PROVE  \A q \in Proc : Honest(pc'[q], arg'[q])
  <2>1. pc'[p] = l /\ arg'[p] = a /\ \A q \in Proc : q # p => pc'[q] = pc[q] /\ arg'[q] = arg[q]
    BY <1>0, <1>2, IntakeStepFacts
  <2>2. ASSUME NEW q \in Proc PROVE Honest(pc'[q], arg'[q])
    <3> HIDE DEF Honest
    <3> QED
      BY <1>1, <1>2, <2>1
  <2> HIDE DEF Honest
  <2> QED
    BY <2>2
<1>3. ASSUME NEW p \in Proc, NEW l, NEW a, Step(p, l, a), l \notin {"answered", "refused"}
      PROVE  \A q \in Proc : Honest(pc'[q], arg'[q])
  <2>1. Honest(l, a)
    BY <1>3
  <2> HIDE DEF Honest
  <2> QED
    BY <1>2, <1>3, <2>1
<1>4. ASSUME NEW p \in Proc, NEW a, Compare(p, a), Holding(a.key) # {}, UNCHANGED eventRows
      PROVE  \A q \in Proc : Honest(pc'[q], arg'[q])
  <2> DEFINE n == CHOOSE n \in Holding(a.key) : TRUE
             l == IF eventRows[n].effect = a.effect THEN "answered" ELSE "refused"
  <2>1. n \in Holding(a.key)
    BY <1>4
  <2>2. Step(p, l, a)
    BY <1>4 DEF Compare
  <2>3. n \in Held(a.key) /\ eventRows'[n] = eventRows[n]
    BY <1>4, <2>1 DEF Holding
  <2>4. Honest(l, a)
    <3> HIDE DEF n, Held
    <3> QED
      BY <2>3
  <2> HIDE DEF Honest, l
  <2> QED
    BY <1>2, <2>2, <2>4
<1>5. ASSUME NEW p \in Proc, commit_event(p) PROVE \A q \in Proc : Honest(pc'[q], arg'[q])
  <2>1. PICK a : a = arg[p]
    OBVIOUS
  <2>2. a \in EventRow /\ eventRows' = Append(eventRows, a) /\ Step(p, "answered", a)
    BY <1>0, <1>5, <2>1 DEF commit_event, At, CallsInOrder, InOrder, Asking
  <2>3. Len(eventRows) + 1 \in Held(a.key) /\ eventRows'[Len(eventRows) + 1] = a
    BY <1>0, <2>2, AppendFacts DEF Holding
  <2>4. Honest("answered", a)
    BY <2>3
  <2> HIDE DEF Honest
  <2> QED
    BY <1>2, <2>2, <2>4
<1>6. ASSUME NEW p \in Proc, NEW k \in Key \cup {NoKey}, NEW e \in EventEffect,
             record_event(p, k, e)
      PROVE  \A q \in Proc : Honest(pc'[q], arg'[q])
  <2> DEFINE a == [key |-> k, effect |-> e]
  <2>1. \/ Step(p, "idle", Nothing)
        \/ Step(p, "event", a)
        \/ Holding(k) # {} /\ Compare(p, a) /\ UNCHANGED eventRows
    BY <1>6 DEF record_event
  <2>2. a.key = k
    OBVIOUS
  <2> HIDE DEF Honest, a
  <2> QED
    BY <1>3, <1>4, <2>1, <2>2
<1>7. ASSUME NEW p \in Proc, reread_event(p) PROVE \A q \in Proc : Honest(pc'[q], arg'[q])
  <2>1. Holding(arg[p].key) # {} /\ Compare(p, arg[p]) /\ UNCHANGED eventRows
    BY <1>0, <1>7 DEF reread_event, CallsInOrder, InOrder, tables
  <2> HIDE DEF Honest
  <2> QED
    BY <1>4, <2>1
<1>8. ASSUME UNCHANGED <<pc, arg>> PROVE \A q \in Proc : Honest(pc'[q], arg'[q])
  <2> HIDE DEF Honest
  <2> QED
    BY <1>1, <1>8
<1>9. \A q \in Proc : Honest(pc'[q], arg'[q])
  <2> DEFINE G == \A q \in Proc : Honest(pc'[q], arg'[q])
  <2> HIDE DEF Honest
  <2>1. ASSUME NEW p \in Proc,
               \/ \E i \in Incident, x \in Content, t \in 0..MaxTime : lock_incident(p, i, x, t)
               \/ next_ordinal(p) \/ insert_occurrence(p) \/ update_summary(p)
               \/ commit_occurrence(p) \/ insert_event(p) \/ Rollback(p)
        PROVE  G
    <3> DEFINE Moves(l) == \E a : Step(p, l, a)
    <3>1. \/ Moves("ordinal") \/ Moves("insert") \/ Moves("conflict") \/ Moves("summary")
          \/ Moves("commit") \/ Moves("recorded") \/ Moves("reread") \/ Moves("draft")
          \/ Moves("idle")
      BY <2>1 DEF lock_incident, next_ordinal, insert_occurrence, update_summary,
                  commit_occurrence, insert_event, Rollback
    <3>2. ASSUME NEW l, Moves(l), l \notin {"answered", "refused"} PROVE G
      BY <1>3, <3>2
    <3> HIDE DEF Moves, G
    <3> QED
      BY <3>1, <3>2
  <2>2. ASSUME UNCHANGED <<pc, arg>> PROVE G
    BY <1>8, <2>2
  <2>3. ASSUME NEW p \in Proc,
               \/ \E k \in Key \cup {NoKey}, e \in EventEffect : record_event(p, k, e)
               \/ commit_event(p) \/ reread_event(p)
        PROVE  G
    BY <1>5, <1>6, <1>7, <2>3
  <2> HIDE DEF G
  <2>4. G
    BY <2>1, <2>2, <2>3 DEF IntakeNext, insert_incident, intakeVars
  <2> QED
    BY <2>4 DEF G
<1> QED
  BY <1>9 DEF AnswersAreHonest, At, Holding

LEMMA StepIntakeInv == IntakeInv /\ [IntakeNext]_intakeVars => IntakeInv'
<1> SUFFICES ASSUME IntakeInv, [IntakeNext]_intakeVars PROVE IntakeInv'
  OBVIOUS
<1>1. IntakeTypeOK' /\ CallsInOrder' /\ OneHolder' /\ OneDraft'
  BY StepIntakeTyped, StepCallsInOrder, StepOneHolder, StepOneDraft
<1>2. RowsFit' /\ LastIsLatest' /\ SummaryTellsOccurrences'
  BY StepRowsFit, StepLastIsLatest, StepSummaryTells
<1>3. NoReportIsRefused' /\ AnswersAreHonest'
  BY StepNoReportIsRefused, StepAnswersAreHonest
<1> QED
  BY <1>1, <1>2, <1>3 DEF IntakeInv
\* However sessions overlap and die, the invariant stands.
THEOREM IntakeInvariance == IntakeSpec => []IntakeInv
BY InitIntakeInv, StepIntakeInv, PTL DEF IntakeSpec

\* The tables, the sessions and the locks keep their types.
THEOREM IntakeTypeCorrect == IntakeSpec => []IntakeTypeOK
<1>1. IntakeInv => IntakeTypeOK
  BY DEF IntakeInv
<1> QED
  BY <1>1, IntakeInvariance, PTL

\* The occurrences of an incident are numbered without a gap, and its row tells
\* how many there are and when the latest was observed.
THEOREM SummariesTellOccurrences == IntakeSpec => []SummaryTellsOccurrences
<1>1. IntakeInv => SummaryTellsOccurrences
  BY DEF IntakeInv
<1> QED
  BY <1>1, IntakeInvariance, PTL

\* No report is refused because another came at the same time.
THEOREM ReportsAreNeverRefused == IntakeSpec => []NoReportIsRefused
<1>1. IntakeInv => NoReportIsRefused
  BY DEF IntakeInv
<1> QED
  BY <1>1, IntakeInvariance, PTL

\* The loser of a race for a key is told whether the winner's event is its own.
THEOREM AnswersStayHonest == IntakeSpec => []AnswersAreHonest
<1>1. IntakeInv => AnswersAreHonest
  BY DEF IntakeInv
<1> QED
  BY <1>1, IntakeInvariance, PTL

-----------------------------------------------------------------------------
(* The tables implement the reference ledger.                              *)

\* The payloads of an incident are the contents of its rows, at their ordinals.
PayloadsAreContents ==
    \A i \in Incident :
        /\ Payloads[i] \in Seq(Content)
        /\ Len(Payloads[i]) = Cardinality(RowsOf(i))
        /\ \A r \in RowsOf(i) : /\ r.ordinal \in 1..Len(Payloads[i])
                                /\ Payloads[i][r.ordinal] = r.content
        /\ \A n \in 1..Len(Payloads[i]) : \E r \in RowsOf(i) : r.ordinal = n

LEMMA PayloadsFit == IntakeInv => PayloadsAreContents
<1> SUFFICES ASSUME IntakeInv, NEW i \in Incident
             PROVE  /\ Payloads[i] \in Seq(Content)
                    /\ Len(Payloads[i]) = Cardinality(RowsOf(i))
                    /\ \A r \in RowsOf(i) : /\ r.ordinal \in 1..Len(Payloads[i])
                                            /\ Payloads[i][r.ordinal] = r.content
                    /\ \A n \in 1..Len(Payloads[i]) : \E r \in RowsOf(i) : r.ordinal = n
  BY DEF PayloadsAreContents
<1> DEFINE k == Cardinality(RowsOf(i))
           row(n) == CHOOSE r \in RowsOf(i) : r.ordinal = n
<1>0. IntakeTypeOK /\ RowsFit /\ SummaryTellsOccurrences
  BY DEF IntakeInv
<1>1. k \in Nat
  BY <1>0, RowsCounted
<1>2. {r.ordinal : r \in RowsOf(i)} = 1..k
  <2>1. CASE Exists(i)
    BY <1>0, <2>1 DEF SummaryTellsOccurrences
  <2>2. CASE ~Exists(i)
    <3>1. RowsOf(i) = {}
      BY <1>0, <2>2 DEF RowsFit, RowsOf
    <3>2. k = 0
      BY <3>1, FS_EmptySet
    <3>3. {r.ordinal : r \in RowsOf(i)} = {}
      BY <3>1
    <3> HIDE DEF k
    <3> QED
      BY <3>2, <3>3
  <2> QED
    BY <2>1, <2>2
<1>3. Payloads[i] = [n \in 1..k |-> row(n).content]
  BY DEF Payloads
<1> HIDE DEF k
<1>4. \A n \in 1..k : row(n) \in RowsOf(i) /\ row(n).ordinal = n
  BY <1>2
<1> HIDE DEF row
<1>5. \A n \in 1..k : row(n).content \in Content
  BY <1>0, <1>4 DEF IntakeTypeOK, Occurrence, RowsOf
<1>6. Payloads[i] \in Seq(Content) /\ Len(Payloads[i]) = k
  BY <1>1, <1>3, <1>5
<1>7. ASSUME NEW r \in RowsOf(i)
      PROVE  r.ordinal \in 1..k /\ Payloads[i][r.ordinal] = r.content
  <2>1. r.ordinal \in 1..k
    BY <1>2
  <2>2. row(r.ordinal) = r
    BY <1>0, <1>4, <2>1 DEF RowsFit, SameOrdinal, RowsOf
  <2> QED
    BY <1>3, <2>1, <2>2
<1>8. \A n \in 1..k : \E r \in RowsOf(i) : r.ordinal = n
  BY <1>4
<1> QED
  BY <1>6, <1>7, <1>8 DEF k

\* An incident whose rows stay keeps its payloads.
LEMMA PayloadsStay ==
    ASSUME NEW i \in Incident, RowsOf(i)' = RowsOf(i)
    PROVE  Payloads'[i] = Payloads[i]
<1> DEFINE Of(S) == [n \in 1..Cardinality(S) |-> (CHOOSE r \in S : r.ordinal = n).content]
<1>1. Payloads[i] = Of(RowsOf(i)) /\ Payloads'[i] = Of(RowsOf(i)')
  BY DEF Payloads
<1> HIDE DEF Of
<1> QED
  BY <1>1

\* A transaction that commits an occurrence appends its payload.
LEMMA CommitSubmits ==
    ASSUME IntakeInv, [IntakeNext]_intakeVars, NEW p \in Proc, commit_occurrence(p)
    PROVE  Log!LogNext
<1>1. PayloadsAreContents /\ PayloadsAreContents'
  BY PayloadsFit, StepIntakeInv, PTL
<1>2. PICK i, x, a : i = arg[p].incident /\ x = arg[p].content /\ a = arg[p]
  OBVIOUS
<1>3. i \in Incident /\ x \in Content /\ a.incident = i /\ a.content = x /\ Exists(i)
  BY <1>2, CommitFacts DEF Occurrence
<1>4. PICK k : k = Cardinality(RowsOf(i))
  OBVIOUS
<1>5. k \in Nat
  BY <1>4, RowsCounted DEF IntakeInv
<1>6. /\ \A j \in Incident : RowsOf(j)' = IF j = i THEN RowsOf(j) \cup {a} ELSE RowsOf(j)
      /\ \A j \in Incident : j # i => summary'[j] = summary[j]
      /\ a.ordinal = k + 1 /\ Cardinality(RowsOf(i)') = k + 1
      /\ summary'[i].count = k + 1
  BY <1>2, <1>3, <1>4, CommitFacts
<1>7. Payloads'[i] = Append(Payloads[i], x)
  <2>1. PICK s, t : s = Payloads[i] /\ t = Payloads'[i]
    OBVIOUS
  <2>2. /\ s \in Seq(Content) /\ Len(s) = k
        /\ t \in Seq(Content) /\ Len(t) = k + 1
    BY <1>1, <1>3, <1>4, <1>6, <2>1 DEF PayloadsAreContents
  <2>3. /\ \A n \in 1..k : \E r \in RowsOf(i) : r.ordinal = n /\ s[n] = r.content
        /\ \A r \in RowsOf(i)' : t[r.ordinal] = r.content
    BY <1>1, <1>3, <2>1, <2>2 DEF PayloadsAreContents
  <2>4. RowsOf(i)' = RowsOf(i) \cup {a}
    BY <1>3, <1>6
  <2>5. \A n \in 1..k : t[n] = s[n]
    BY <2>3, <2>4
  <2>6. t[k + 1] = x
    BY <1>3, <1>6, <2>3, <2>4
  <2> QED
    BY <1>3, <1>5, <2>1, <2>2, <2>5, <2>6
<1>8. \A j \in Incident : j # i => Payloads'[j] = Payloads[j]
  BY <1>6, PayloadsStay
<1>9. Payloads' = [Payloads EXCEPT ![i] = Append(@, x)]
  BY <1>3, <1>7, <1>8 DEF Payloads
<1>10. Opened' = Opened \cup {i}
  BY <1>3, <1>5, <1>6 DEF Opened, Exists, Absent
<1>11. UNCHANGED eventRows
  BY DEF commit_occurrence
<1> QED
  BY <1>3, <1>9, <1>10, <1>11 DEF Log!LogNext, Log!submit_incident

\* An incident that is inserted is opened.
LEMMA InsertOpens ==
    ASSUME IntakeInv, NEW i \in Incident, NEW t \in 0..MaxTime, insert_incident(i, t)
    PROVE  Log!LogNext
<1>1. IntakeTypeOK /\ i \notin Opened
  BY DEF IntakeInv, Opened, insert_incident
<1>2. Opened' = Opened \cup {i}
  BY <1>1 DEF insert_incident, Opened, Exists, Absent, IntakeTypeOK
<1>3. Payloads' = Payloads
  <2>1. \A j \in Incident : Payloads'[j] = Payloads[j]
    BY PayloadsStay DEF insert_incident, RowsOf
  <2> QED
    BY <2>1 DEF Payloads
<1> QED
  BY <1>1, <1>2, <1>3 DEF insert_incident, Log!LogNext, Log!open_incident

\* A call that touches neither table of occurrences appends an event or nothing,
\* and no key twice: a draft keeps its key free until the commit.
LEMMA OthersAppend ==
    ASSUME IntakeInv, [IntakeNext]_intakeVars, UNCHANGED <<summary, rows>>
    PROVE  [Log!LogNext]_<<Opened, Payloads, eventRows>>
<1>1. Opened' = Opened
  BY DEF Opened, Exists
<1>2. Payloads' = Payloads
  <2>1. \A j \in Incident : Payloads'[j] = Payloads[j]
    BY PayloadsStay DEF RowsOf
  <2> QED
    BY <2>1 DEF Payloads
<1>3. CASE UNCHANGED eventRows
  BY <1>1, <1>2, <1>3
<1>4. ASSUME NEW a \in EventRow, eventRows' = Append(eventRows, a),
             Exists(a.effect.incident),
             a.key = NoKey \/ \E p \in Proc : commit_event(p) /\ a = arg[p]
      PROVE  Log!LogNext
  <2>1. PICK k, e : k = a.key /\ e = a.effect
    OBVIOUS
  <2>2. k \in Key \cup {NoKey} /\ e \in Log!EventEffect /\ e.incident \in Opened
        /\ a = [key |-> k, effect |-> e]
    BY <1>4, <2>1 DEF EventRow, EventEffect, Log!EventEffect, Opened
  <2>3. k # NoKey => \A n \in 1..Len(eventRows) : eventRows[n].key # k
    BY <1>4, <2>1 DEF IntakeInv, CallsInOrder, InOrder, commit_event, At, Holding
  <2>4. Log!append_event(e, k)
    BY <1>1, <1>2, <1>4, <2>2, <2>3 DEF Log!append_event
  <2> QED
    BY <2>2, <2>4 DEF Log!LogNext
<1> QED
  BY <1>3, <1>4, EventsAppended

\* The concurrent transactions implement the reference ledger: whatever the
\* interleaving, each has the effect of one of its operations, when it commits.
THEOREM IntakeImplementsIncidentLog == IntakeSpec => ImplementsIncidentLog
<1>1. IntakeInit => Log!LogInit
  <2> SUFFICES ASSUME IntakeInit PROVE Log!LogInit
    OBVIOUS
  <2>1. Opened = {} /\ eventRows = <<>>
    BY DEF IntakeInit, Opened, Exists
  <2>2. ASSUME NEW i \in Incident PROVE Payloads[i] = <<>>
    <3>1. PayloadsAreContents
      BY PayloadsFit, InitIntakeInv
    <3>2. RowsOf(i) = {}
      BY DEF IntakeInit, RowsOf
    <3>3. Payloads[i] \in Seq(Content) /\ Len(Payloads[i]) = 0
      BY <3>1, <3>2, FS_EmptySet DEF PayloadsAreContents
    <3> QED
      BY <3>3
  <2>3. Payloads = [i \in Incident |-> <<>>]
    BY <2>2 DEF Payloads
  <2> QED
    BY <2>1, <2>3 DEF Log!LogInit
<1>2. IntakeInv /\ [IntakeNext]_intakeVars => [Log!LogNext]_<<Opened, Payloads, eventRows>>
  <2> SUFFICES ASSUME IntakeInv, [IntakeNext]_intakeVars
               PROVE  [Log!LogNext]_<<Opened, Payloads, eventRows>>
    OBVIOUS
  <2>1. \/ \E i \in Incident, t \in 0..MaxTime : insert_incident(i, t)
        \/ \E p \in Proc : commit_occurrence(p)
        \/ UNCHANGED <<summary, rows>>
    BY DEF IntakeNext, lock_incident, next_ordinal, insert_occurrence, update_summary,
           record_event, insert_event, commit_event, reread_event, Rollback,
           tables, intakeVars
  <2> QED
    BY <2>1, InsertOpens, CommitSubmits, OthersAppend
<1> QED
  BY <1>1, <1>2, IntakeInvariance, PTL
     DEF IntakeSpec, ImplementsIncidentLog, Log!LogSpec, Log!logVars
=================================================================================
