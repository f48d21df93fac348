SPECIFICATION LedgerSpec
CONSTANTS
  s1 = s1
  s2 = s2
  s3 = s3
  x1 = x1
  x2 = x2
  y1 = y1
  y2 = y2
  q1 = q1
  q2 = q2
  Proc = {s1, s2, s3}
  Incident = {i1}
  Content = {x1, x2}
  Key = {k1}
  NoKey = NoKey
  MaxTime = 1
  MaxOccurrences = 3
  MaxEvents = 2
  Nothing = Nothing
  Correction = {c1}
  Payload = {y1, y2}
  QualificationId = {q1, q2}
  Suite <- Suites
  MaxRevision = 2
  MaxPromotions = 2
  None = None
INVARIANTS IntakeTypeOK SummaryTellsOccurrences NoReportIsRefused AnswersAreHonest CorrectionTypeOK PromotionIsQualified StrictPromotionIsSound
PROPERTY ImplementsIncidentLog
SYMMETRY MCSymmetry
CHECK_DEADLOCK FALSE
