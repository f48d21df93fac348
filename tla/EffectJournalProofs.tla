------------------------- MODULE EffectJournalProofs -------------------------
(***************************************************************************)
(* What both journals guarantee to every client, for any sets of           *)
(* operations, keys, effects and evidence: an inductive invariant of       *)
(* JournalSpec and the properties that follow from it.                     *)
(***************************************************************************)
EXTENDS EffectJournal, TLAPS, SequenceTheorems

\* Only operations with a row have events.
EventsOfKnown == \A o \in Op : events[o] # <<>> => Known(o)

\* A VERIFIED event carries evidence and an observed digest.
VerifiedIsEvidenced ==
    \A o \in Op : \A i \in 1..Len(events[o]) :
        events[o][i].state = "VERIFIED" =>
            events[o][i].evidence # Blank /\ events[o][i].digest # Blank

\* The inductive invariant: the four invariants of the runs, with what their
\* proofs need of unknown operations and of VERIFIED events.
JournalInv ==
    /\ JournalTypeOK
    /\ EventsOfKnown
    /\ VerifiedIsEvidenced
    /\ KeyIdentifiesOneOperation
    /\ LogSettlesOnce
    /\ OutcomeHasProvenance

-----------------------------------------------------------------------------
(* The three ways a call can change the journal.                           *)

\* A row for a fresh operation under a free key.
Prepares(o, k, e) ==
    /\ o \in Op /\ k \in Key /\ e \in Effect
    /\ Holder(k) = {}
    /\ intent[o] = NoIntent
    /\ intent' = [intent EXCEPT ![o] = [key |-> k, effect |-> e]]
    /\ UNCHANGED <<events, outcome>>

\* One event at the end of one log that is not settled.
Appends(o, x) ==
    /\ o \in Op /\ x \in Event
    /\ Known(o)
    /\ x.state = "ATTEMPTED" => events[o] = <<>>
    /\ x.state = "AMBIGUOUS" => state(o) = "ATTEMPTED"
    /\ x.state \in {"VERIFIED", "FAILED"} => state(o) \in Reconcilable
    /\ events[o] # <<>> => ~Terminal(o)
    /\ x.state = "VERIFIED" => x.evidence # Blank /\ x.digest # Blank
    /\ events' = [events EXCEPT ![o] = Append(@, x)]
    /\ UNCHANGED <<intent, outcome>>

\* The outcome of a verified operation.
Records(o, r) ==
    /\ o \in Op /\ r \in Outcome
    /\ Known(o)
    /\ state(o) = "VERIFIED"
    /\ r.effect = intent[o].effect
    /\ r.evidence = LatestEvent(o).evidence
    /\ outcome[o] \in {NoOutcome, r}
    /\ outcome' = [outcome EXCEPT ![o] = r]
    /\ UNCHANGED <<intent, events>>

\* Every call of JournalNext is one of the three, or changes nothing.
LEMMA JournalStepShape ==
    ASSUME JournalTypeOK, JournalNext
    PROVE  \/ \E o \in Op, k \in Key, e \in Effect : Prepares(o, k, e)
           \/ \E o \in Op, x \in Event : Appends(o, x)
           \/ \E o \in Op, r \in Outcome : Records(o, r)
           \/ UNCHANGED journalVars
<1>1. ASSUME NEW o \in Op, NEW k \in Key, NEW e \in Effect,
             prepare_effect_operation(o, k, e)
      PROVE  Prepares(o, k, e) \/ UNCHANGED journalVars
  BY <1>1 DEF prepare_effect_operation, Prepares
<1>2. ASSUME NEW o \in Op, NEW v \in Evidence \cup {Blank},
             record_effect_attempt(o, v)
      PROVE  \E x \in Event : Appends(o, x)
  <2> DEFINE x == [state |-> "ATTEMPTED", evidence |-> v, digest |-> Blank]
  <2>1. x \in Event
    BY DEF Event, EventState
  <2>2. Appends(o, x)
    BY <1>2, <2>1 DEF record_effect_attempt, Appends, AppendEvent
  <2> QED BY <2>1, <2>2
<1>3. ASSUME NEW o \in Op, NEW v \in Evidence \cup {Blank},
             NEW result \in {"AMBIGUOUS", "VERIFIED", "FAILED"},
             NEW d \in Observation \cup {Blank},
             reconcile_effect_operation(o, result, v, d)
      PROVE  \E x \in Event : Appends(o, x)
  <2> DEFINE x == [state |-> result, evidence |-> v, digest |-> d]
  <2>1. x \in Event
    BY DEF Event, EventState
  <2>2. events[o] # <<>> => ~Terminal(o)
    BY <1>3, JournalAssumption DEF reconcile_effect_operation, Terminal
  <2>3. Appends(o, x)
    BY <1>3, <2>1, <2>2 DEF reconcile_effect_operation, Appends, AppendEvent
  <2> QED BY <2>1, <2>3
<1>4. ASSUME NEW o \in Op, NEW r \in Outcome,
             record_verified_outcome_observation(o, r)
      PROVE  Records(o, r)
  BY <1>4 DEF record_verified_outcome_observation, Records
<1> QED
  <2>1. PICK o \in Op :
        \/ \E k \in Key, e \in Effect : prepare_effect_operation(o, k, e)
        \/ \E v \in Evidence \cup {Blank} : record_effect_attempt(o, v)
        \/ \E v \in Evidence \cup {Blank} :
              \/ \E result \in {"AMBIGUOUS", "FAILED"} :
                     reconcile_effect_operation(o, result, v, Blank)
              \/ \E d \in Observation \cup {Blank} :
                     reconcile_effect_operation(o, "VERIFIED", v, d)
        \/ \E r \in Outcome : record_verified_outcome_observation(o, r)
    BY DEF JournalNext
  <2>2. CASE \E k \in Key, e \in Effect : prepare_effect_operation(o, k, e)
    BY <2>2, <1>1
  <2>3. CASE \E v \in Evidence \cup {Blank} : record_effect_attempt(o, v)
    BY <2>3, <1>2
  <2>4. CASE \E v \in Evidence \cup {Blank}, result \in {"AMBIGUOUS", "FAILED"} :
                reconcile_effect_operation(o, result, v, Blank)
    BY <2>4, <1>3
  <2>5. CASE \E v \in Evidence \cup {Blank}, d \in Observation \cup {Blank} :
                reconcile_effect_operation(o, "VERIFIED", v, d)
    BY <2>5, <1>3
  <2>6. CASE \E r \in Outcome : record_verified_outcome_observation(o, r)
    BY <2>6, <1>4
  <2> QED BY <2>1, <2>2, <2>3, <2>4, <2>5, <2>6

-----------------------------------------------------------------------------
\* What is appended, read back.
LEMMA AppendedLog ==
    ASSUME JournalTypeOK, NEW o \in Op, NEW x \in Event, Appends(o, x)
    PROVE  /\ events' \in [Op -> Seq(Event)]
           /\ \A p \in Op : p # o => events'[p] = events[p]
           /\ events'[o] # <<>>
           /\ Len(events[o]) \in Nat
           /\ Len(events'[o]) = Len(events[o]) + 1
           /\ \A i \in 1..Len(events[o]) : events'[o][i] = events[o][i]
           /\ events'[o][Len(events'[o])] = x
<1>1. events[o] \in Seq(Event) /\ events' = [events EXCEPT ![o] = Append(events[o], x)]
  BY DEF JournalTypeOK, Appends
<1>2. events'[o] = Append(events[o], x)
  BY <1>1 DEF JournalTypeOK
<1>3. Len(events[o]) \in Nat
  BY <1>1, LenProperties
<1>4. /\ Append(events[o], x) \in Seq(Event)
      /\ Append(events[o], x) # <<>>
      /\ Len(Append(events[o], x)) = Len(events[o]) + 1
      /\ \A i \in 1..Len(events[o]) : Append(events[o], x)[i] = events[o][i]
      /\ Append(events[o], x)[Len(events[o]) + 1] = x
  BY <1>1, AppendProperties
<1> QED
  BY <1>1, <1>2, <1>3, <1>4 DEF JournalTypeOK

\* An appended event becomes the latest one.
LEMMA AppendedIsLatest ==
    ASSUME JournalTypeOK, NEW o \in Op, NEW s \in EventState,
           NEW v \in Evidence \cup {Blank}, NEW d \in Observation \cup {Blank},
           AppendEvent(o, s, v, d)
    PROVE  /\ events'[o] # <<>>
           /\ state(o)' = s
           /\ LatestEvent(o)' = [state |-> s, evidence |-> v, digest |-> d]
           /\ events' = [events EXCEPT ![o] = events'[o]]
           /\ events[o] = <<>> => events'[o][1].state = s
           /\ events[o] # <<>> => events'[o][1] = events[o][1]
<1> DEFINE x == [state |-> s, evidence |-> v, digest |-> d]
<1>1. x \in Event
  BY DEF Event
<1>2. events[o] \in Seq(Event) /\ events'[o] = Append(events[o], x)
  BY DEF JournalTypeOK, AppendEvent
<1>3. /\ Append(events[o], x) # <<>>
      /\ Len(Append(events[o], x)) = Len(events[o]) + 1
      /\ \A i \in 1..Len(events[o]) : Append(events[o], x)[i] = events[o][i]
      /\ Append(events[o], x)[Len(events[o]) + 1] = x
  BY <1>1, <1>2, AppendProperties
<1>4. events[o] # <<>> => 1 \in 1..Len(events[o])
  BY <1>2, EmptySeq
<1>5. events[o] = <<>> => Len(events[o]) = 0
  BY EmptySeq
<1>6. events' = [events EXCEPT ![o] = events'[o]]
  BY <1>2 DEF JournalTypeOK, AppendEvent
<1> QED
  BY <1>2, <1>3, <1>4, <1>5, <1>6 DEF state, LatestEvent

\* The state of an operation with a log is the one of an event in it.
LEMMA LatestIsLogged ==
    ASSUME JournalTypeOK, NEW o \in Op, events[o] # <<>>
    PROVE  /\ Len(events[o]) \in 1..Len(events[o])
           /\ Len(events[o]) \in Nat \ {0}
           /\ LatestEvent(o) \in Event
           /\ state(o) = LatestEvent(o).state
<1>1. events[o] \in Seq(Event)
  BY DEF JournalTypeOK
<1>2. Len(events[o]) \in Nat \ {0}
  BY <1>1, EmptySeq
<1>3. Len(events[o]) \in 1..Len(events[o])
  BY <1>2
<1>4. events[o][Len(events[o])] \in Event
  BY <1>1, <1>3, ElementOfSeq
<1> QED
  BY <1>2, <1>3, <1>4 DEF LatestEvent, state

-----------------------------------------------------------------------------
(* The invariant is inductive.                                             *)

LEMMA JournalInitInv == JournalInit => JournalInv
<1> SUFFICES ASSUME JournalInit PROVE JournalInv
  OBVIOUS
<1>1. \A o \in Op : intent[o] = NoIntent /\ events[o] = <<>> /\ outcome[o] = NoOutcome
  BY DEF JournalInit
<1>2. <<>> \in Seq(Event) /\ Len(<<>>) = 0
  BY EmptySeq
<1>3. JournalTypeOK
  BY <1>2 DEF JournalInit, JournalTypeOK
<1>4. EventsOfKnown /\ KeyIdentifiesOneOperation /\ OutcomeHasProvenance
  BY <1>1 DEF EventsOfKnown, KeyIdentifiesOneOperation, OutcomeHasProvenance, Known
<1>5. VerifiedIsEvidenced /\ LogSettlesOnce
  BY <1>1, <1>2 DEF VerifiedIsEvidenced, LogSettlesOnce
<1> QED
  BY <1>3, <1>4, <1>5 DEF JournalInv

LEMMA PreparesInv ==
    ASSUME JournalInv, NEW o \in Op, NEW k \in Key, NEW e \in Effect,
           Prepares(o, k, e)
    PROVE  JournalInv'
<1> USE DEF JournalInv
<1>1. /\ intent' = [intent EXCEPT ![o] = [key |-> k, effect |-> e]]
      /\ intent[o] = NoIntent /\ Holder(k) = {}
      /\ UNCHANGED <<events, outcome>>
  BY DEF Prepares
<1>2. [key |-> k, effect |-> e] \in Intent
  BY DEF Intent
<1>3. JournalTypeOK'
  BY <1>1, <1>2 DEF JournalTypeOK
<1>4. \A p \in Op : /\ Known(p)' <=> Known(p) \/ p = o
                    /\ p # o => intent'[p] = intent[p]
  BY <1>1, <1>2, JournalAssumption DEF JournalTypeOK, Known
<1>5. EventsOfKnown' /\ VerifiedIsEvidenced' /\ LogSettlesOnce'
  BY <1>1, <1>4 DEF EventsOfKnown, VerifiedIsEvidenced, LogSettlesOnce
<1>6. KeyIdentifiesOneOperation'
  <2>1. intent'[o].key = k
    BY <1>1 DEF JournalTypeOK
  <2>2. \A p \in Op : Known(p) => intent[p].key # k
    BY <1>1 DEF Holder
  <2> QED
    BY <1>4, <2>1, <2>2 DEF KeyIdentifiesOneOperation
<1>7. OutcomeHasProvenance'
  <2> SUFFICES ASSUME NEW p \in Op, outcome'[p] # NoOutcome
               PROVE  /\ Known(p)' /\ state(p)' = "VERIFIED"
                      /\ outcome'[p].effect = intent'[p].effect
                      /\ outcome'[p].evidence = LatestEvent(p)'.evidence
                      /\ LatestEvent(p)'.digest # Blank
    BY DEF OutcomeHasProvenance
  <2>1. outcome[p] # NoOutcome
    BY <1>1
  <2>2. p # o
    BY <1>1, <2>1 DEF OutcomeHasProvenance, Known
  <2> QED
    BY <1>1, <1>4, <2>1, <2>2 DEF OutcomeHasProvenance, state, LatestEvent
<1> QED
  BY <1>3, <1>5, <1>6, <1>7

LEMMA AppendsInv ==
    ASSUME JournalInv, NEW o \in Op, NEW x \in Event, Appends(o, x)
    PROVE  JournalInv'
<1> USE DEF JournalInv
<1>1. /\ UNCHANGED <<intent, outcome>>
      /\ Known(o)
      /\ x.state = "ATTEMPTED" => events[o] = <<>>
      /\ events[o] # <<>> => ~Terminal(o)
      /\ x.state = "VERIFIED" => x.evidence # Blank /\ x.digest # Blank
  BY DEF Appends
<1>2. /\ events' \in [Op -> Seq(Event)]
      /\ \A p \in Op : p # o => events'[p] = events[p]
      /\ events'[o] # <<>>
      /\ Len(events[o]) \in Nat
      /\ Len(events'[o]) = Len(events[o]) + 1
      /\ \A i \in 1..Len(events[o]) : events'[o][i] = events[o][i]
      /\ events'[o][Len(events'[o])] = x
  BY AppendedLog
<1>3. JournalTypeOK'
  BY <1>1, <1>2 DEF JournalTypeOK
<1>4. EventsOfKnown' /\ KeyIdentifiesOneOperation'
  BY <1>1, <1>2 DEF EventsOfKnown, KeyIdentifiesOneOperation, Known
<1>5. VerifiedIsEvidenced'
  <2> SUFFICES ASSUME NEW p \in Op, NEW i \in 1..Len(events'[p]),
                      events'[p][i].state = "VERIFIED"
               PROVE  events'[p][i].evidence # Blank /\ events'[p][i].digest # Blank
    BY DEF VerifiedIsEvidenced
  <2>1. CASE p # o
    BY <2>1, <1>2 DEF VerifiedIsEvidenced
  <2>2. CASE p = o /\ i = Len(events'[o])
    BY <2>2, <1>1, <1>2
  <2>3. CASE p = o /\ i # Len(events'[o])
    <3>1. i \in 1..Len(events[o])
      BY <2>3, <1>2
    <3> QED
      BY <2>3, <3>1, <1>2 DEF VerifiedIsEvidenced
  <2> QED
    BY <2>1, <2>2, <2>3
<1>6. LogSettlesOnce'
  <2> SUFFICES ASSUME NEW p \in Op, NEW i \in 1..Len(events'[p]),
                      NEW j \in 1..Len(events'[p]), i < j
               PROVE  /\ events'[p][i].state \notin {"VERIFIED", "FAILED"}
                      /\ events'[p][j].state # "ATTEMPTED"
    BY DEF LogSettlesOnce
  <2>1. CASE p # o
    BY <2>1, <1>2 DEF LogSettlesOnce
  <2>2. CASE p = o /\ j # Len(events'[o])
    <3>1. i \in 1..Len(events[o]) /\ j \in 1..Len(events[o])
      BY <2>2, <1>2
    <3> QED
      BY <2>2, <3>1, <1>2 DEF LogSettlesOnce
  <2>3. CASE p = o /\ j = Len(events'[o])
    <3>1. i \in 1..Len(events[o]) /\ Len(events[o]) # 0
      BY <2>3, <1>2
    <3>2. events[o] # <<>>
      BY <3>1, EmptySeq
    <3>3. Len(events[o]) \in 1..Len(events[o]) /\ state(o) = LatestEvent(o).state
      BY <3>2, LatestIsLogged
    <3>4. events[o][Len(events[o])].state \notin {"VERIFIED", "FAILED"}
      BY <1>1, <3>2, <3>3 DEF Terminal, LatestEvent
    <3>5. events[o][i].state \notin {"VERIFIED", "FAILED"}
      BY <1>2, <3>1, <3>3, <3>4 DEF LogSettlesOnce
    <3> QED
      BY <1>1, <1>2, <2>3, <3>1, <3>2, <3>5
  <2> QED
    BY <2>1, <2>2, <2>3
<1>7. OutcomeHasProvenance'
  <2> SUFFICES ASSUME NEW p \in Op, outcome'[p] # NoOutcome
               PROVE  /\ Known(p)' /\ state(p)' = "VERIFIED"
                      /\ outcome'[p].effect = intent'[p].effect
                      /\ outcome'[p].evidence = LatestEvent(p)'.evidence
                      /\ LatestEvent(p)'.digest # Blank
    BY DEF OutcomeHasProvenance
  <2>1. outcome[p] # NoOutcome /\ state(p) = "VERIFIED"
    BY <1>1 DEF OutcomeHasProvenance
  <2>2. p # o
    BY <1>1, <2>1 DEF Terminal, state
  <2> QED
    BY <1>1, <1>2, <2>1, <2>2 DEF OutcomeHasProvenance, state, LatestEvent, Known
<1> QED
  BY <1>3, <1>4, <1>5, <1>6, <1>7

LEMMA RecordsInv ==
    ASSUME JournalInv, NEW o \in Op, NEW r \in Outcome, Records(o, r)
    PROVE  JournalInv'
<1> USE DEF JournalInv
<1>1. /\ UNCHANGED <<intent, events>>
      /\ outcome' = [outcome EXCEPT ![o] = r]
      /\ Known(o) /\ state(o) = "VERIFIED"
      /\ r.effect = intent[o].effect
      /\ r.evidence = LatestEvent(o).evidence
  BY DEF Records
<1>2. JournalTypeOK'
  BY <1>1 DEF JournalTypeOK
<1>3. /\ EventsOfKnown' /\ VerifiedIsEvidenced' /\ KeyIdentifiesOneOperation'
      /\ LogSettlesOnce'
  BY <1>1 DEF EventsOfKnown, VerifiedIsEvidenced, KeyIdentifiesOneOperation,
              LogSettlesOnce, Known
<1>4. LatestEvent(o).digest # Blank
  <2>1. events[o] # <<>>
    BY <1>1 DEF state
  <2>2. Len(events[o]) \in 1..Len(events[o]) /\ state(o) = LatestEvent(o).state
    BY <2>1, LatestIsLogged
  <2> QED
    BY <1>1, <2>2 DEF VerifiedIsEvidenced, LatestEvent
<1>5. \A p \in Op : outcome'[p] = IF p = o THEN r ELSE outcome[p]
  BY <1>1 DEF JournalTypeOK
<1>6. OutcomeHasProvenance'
  BY <1>1, <1>4, <1>5 DEF OutcomeHasProvenance, state, LatestEvent, Known
<1> QED
  BY <1>2, <1>3, <1>6

LEMMA JournalStepInv == JournalInv /\ [JournalNext]_journalVars => JournalInv'
<1> SUFFICES ASSUME JournalInv, [JournalNext]_journalVars PROVE JournalInv'
  OBVIOUS
<1>1. CASE JournalNext
  <2>1. \/ \E o \in Op, k \in Key, e \in Effect : Prepares(o, k, e)
        \/ \E o \in Op, x \in Event : Appends(o, x)
        \/ \E o \in Op, r \in Outcome : Records(o, r)
        \/ UNCHANGED journalVars
    BY <1>1, JournalStepShape DEF JournalInv
  <2>2. CASE UNCHANGED journalVars
    BY <2>2 DEF journalVars, JournalInv, JournalTypeOK, EventsOfKnown,
       VerifiedIsEvidenced, KeyIdentifiesOneOperation, LogSettlesOnce,
       OutcomeHasProvenance, Known, state, LatestEvent
  <2> QED
    BY <2>1, <2>2, PreparesInv, AppendsInv, RecordsInv
<1>2. CASE UNCHANGED journalVars
  BY <1>2 DEF journalVars, JournalInv, JournalTypeOK, EventsOfKnown,
     VerifiedIsEvidenced, KeyIdentifiesOneOperation, LogSettlesOnce,
     OutcomeHasProvenance, Known, state, LatestEvent
<1> QED
  BY <1>1, <1>2

\* Every reachable journal satisfies the inductive invariant, whatever
\* sequence of calls the clients make.
THEOREM JournalInvariance == JournalSpec => []JournalInv
<1>1. JournalInit => JournalInv
  BY JournalInitInv
<1>2. JournalInv /\ [JournalNext]_journalVars => JournalInv'
  BY JournalStepInv
<1> QED
  BY <1>1, <1>2, PTL DEF JournalSpec

-----------------------------------------------------------------------------
\* Type correctness of the journal.
THEOREM JournalTypeCorrect == JournalSpec => []JournalTypeOK
<1>1. JournalInv => JournalTypeOK
  BY DEF JournalInv
<1> QED
  BY <1>1, JournalInvariance, PTL

\* No race of prepare_effect_operation calls gives a key two operations.
THEOREM KeysAreUnique == JournalSpec => []KeyIdentifiesOneOperation
<1>1. JournalInv => KeyIdentifiesOneOperation
  BY DEF JournalInv
<1> QED
  BY <1>1, JournalInvariance, PTL

\* No race of reconciliations reopens or re-decides a settled operation.
THEOREM LogsSettleOnce == JournalSpec => []LogSettlesOnce
<1>1. JournalInv => LogSettlesOnce
  BY DEF JournalInv
<1> QED
  BY <1>1, JournalInvariance, PTL

\* Every durable outcome is backed by its operation's own VERIFIED event.
THEOREM OutcomesHaveProvenance == JournalSpec => []OutcomeHasProvenance
<1>1. JournalInv => OutcomeHasProvenance
  BY DEF JournalInv
<1> QED
  BY <1>1, JournalInvariance, PTL

\* Intents and outcomes are never rewritten, logs only grow, by one event,
\* and only while they are not settled.
THEOREM JournalIsAppendOnly == JournalSpec => AppendOnly
<1> DEFINE A == /\ \A o \in Op : Known(o) => intent'[o] = intent[o]
                /\ \A o \in Op : outcome[o] # NoOutcome => outcome'[o] = outcome[o]
                /\ \A o \in Op : \/ events'[o] = events[o]
                                 \/ /\ ~Terminal(o)
                                    /\ Len(events'[o]) = Len(events[o]) + 1
                                    /\ SubSeq(events'[o], 1, Len(events[o])) = events[o]
<1>1. ASSUME JournalInv, JournalNext PROVE A \/ UNCHANGED journalVars
  <2>1. ASSUME NEW o \in Op, NEW k \in Key, NEW e \in Effect, Prepares(o, k, e)
        PROVE  A
    BY <1>1, <2>1 DEF Prepares, Known, JournalInv, JournalTypeOK
  <2>2. ASSUME NEW o \in Op, NEW x \in Event, Appends(o, x) PROVE A
    <3>1. JournalTypeOK
      BY <1>1 DEF JournalInv
    <3>2. UNCHANGED <<intent, outcome>> /\ (events[o] # <<>> => ~Terminal(o))
      BY <2>2 DEF Appends
    <3>3. /\ events' \in [Op -> Seq(Event)]
          /\ \A p \in Op : p # o => events'[p] = events[p]
          /\ Len(events[o]) \in Nat
          /\ Len(events'[o]) = Len(events[o]) + 1
          /\ \A i \in 1..Len(events[o]) : events'[o][i] = events[o][i]
      BY <2>2, <3>1, AppendedLog
    <3>4. ~Terminal(o)
      BY <3>2 DEF Terminal, state
    <3>5. events[o] \in Seq(Event)
      BY <3>1 DEF JournalTypeOK
    <3>6. \A i \in 1..Len(events[o]) : events'[o][i] \in Event
      BY <3>3, <3>5, ElementOfSeq
    <3>7. /\ SubSeq(events'[o], 1, Len(events[o])) \in Seq(Event)
          /\ Len(SubSeq(events'[o], 1, Len(events[o]))) = Len(events[o])
          /\ \A i \in 1..Len(events[o]) :
                SubSeq(events'[o], 1, Len(events[o]))[i] = events'[o][i]
      <4>1. /\ SubSeq(events'[o], 1, Len(events[o])) \in Seq(Event)
            /\ Len(SubSeq(events'[o], 1, Len(events[o]))) =
                  IF 1 <= Len(events[o]) THEN Len(events[o]) - 1 + 1 ELSE 0
            /\ \A i \in 1..Len(events[o]) - 1 + 1 :
                  SubSeq(events'[o], 1, Len(events[o]))[i] = events'[o][1 + i - 1]
        BY <3>3, <3>6, SubSeqProperties
      <4> QED
        BY <3>3, <4>1
    <3>8. SubSeq(events'[o], 1, Len(events[o])) = events[o]
      BY <3>3, <3>5, <3>7, SeqEqual
    <3> QED
      BY <3>2, <3>3, <3>4, <3>8
  <2>3. ASSUME NEW o \in Op, NEW r \in Outcome, Records(o, r) PROVE A
    BY <1>1, <2>3 DEF Records, JournalInv, JournalTypeOK
  <2> QED
    BY <1>1, <2>1, <2>2, <2>3, JournalStepShape DEF JournalInv
<1>2. JournalInv /\ [JournalNext]_journalVars => [A]_journalVars
  BY <1>1
<1>3. []JournalInv /\ [][JournalNext]_journalVars => [][A]_journalVars
  BY <1>2, PTL
<1>4. JournalSpec => [][A]_journalVars
  BY <1>3, JournalInvariance, PTL DEF JournalSpec
<1> QED
  BY <1>4 DEF AppendOnly

-----------------------------------------------------------------------------
\* What no call of any client undoes: rows, first events and settled logs.
LEMMA JournalGrows ==
    ASSUME JournalInv, [JournalNext]_journalVars, NEW o \in Op
    PROVE  /\ Known(o) => Known(o)' /\ intent'[o] = intent[o]
           /\ events[o] # <<>> => events'[o] # <<>> /\ events'[o][1] = events[o][1]
           /\ Terminal(o) => events'[o] = events[o]
<1> USE DEF JournalInv
<1>1. ASSUME NEW q \in Op, NEW k \in Key, NEW e \in Effect, Prepares(q, k, e)
      PROVE  /\ Known(o) => Known(o)' /\ intent'[o] = intent[o]
             /\ events' = events
  BY <1>1 DEF Prepares, Known, JournalTypeOK
<1>2. ASSUME NEW q \in Op, NEW x \in Event, Appends(q, x)
      PROVE  /\ intent' = intent
             /\ events[o] # <<>> => events'[o] # <<>> /\ events'[o][1] = events[o][1]
             /\ Terminal(o) => events'[o] = events[o]
  <2>1. /\ \A p \in Op : p # q => events'[p] = events[p]
        /\ events'[q] # <<>>
        /\ \A i \in 1..Len(events[q]) : events'[q][i] = events[q][i]
    BY <1>2, AppendedLog
  <2>2. events[q] # <<>> => 1 \in 1..Len(events[q])
    BY LatestIsLogged
  <2>3. ~Terminal(q)
    BY <1>2 DEF Appends, Terminal, state
  <2> QED
    BY <1>2, <2>1, <2>2, <2>3 DEF Appends
<1>3. ASSUME NEW q \in Op, NEW r \in Outcome, Records(q, r)
      PROVE  UNCHANGED <<intent, events>>
  BY <1>3 DEF Records
<1>4. ASSUME UNCHANGED journalVars PROVE UNCHANGED <<intent, events>>
  BY <1>4 DEF journalVars
<1> QED
  <2>1. \/ \E q \in Op, k \in Key, e \in Effect : Prepares(q, k, e)
        \/ \E q \in Op, x \in Event : Appends(q, x)
        \/ \E q \in Op, r \in Outcome : Records(q, r)
        \/ UNCHANGED journalVars
    BY JournalStepShape
  <2> QED
    BY <2>1, <1>1, <1>2, <1>3, <1>4 DEF Known

-----------------------------------------------------------------------------
(* Refinement of the documented lifecycle.                                 *)

LEMMA LifecycleStep ==
    ASSUME Reconcilable \subseteq InMemoryReconcilable, JournalInv, JournalNext
    PROVE  Lifecycle!LifecycleNext \/ UNCHANGED Lifecycle!lifecycleVars
<1> DEFINE st == [o \in Op |-> IF Known(o) THEN state(o) ELSE "ABSENT"]
           ob == {o \in Op : outcome[o] # NoOutcome}
<1> USE DEF JournalInv
<1>1. ASSUME NEW o \in Op, NEW k \in Key, NEW e \in Effect, Prepares(o, k, e)
      PROVE  Lifecycle!Advance(o)
  <2>1. ob' = ob
    BY <1>1 DEF Prepares
  <2>2. st[o] = "ABSENT"
    BY <1>1 DEF Prepares, Known
  <2>3. events[o] = <<>> /\ events' = events
    BY <1>1 DEF Prepares, EventsOfKnown, Known
  <2>4. /\ intent' = [intent EXCEPT ![o] = [key |-> k, effect |-> e]]
        /\ [key |-> k, effect |-> e] # NoIntent
    BY <1>1, JournalAssumption DEF Prepares, Intent
  <2>5. st' = [st EXCEPT ![o] = "PREPARED"]
    BY <2>3, <2>4 DEF JournalTypeOK, Known, state, LatestEvent
  <2> QED
    BY <2>1, <2>2, <2>5 DEF Lifecycle!Advance, Lifecycle!LifecycleEdge,
       Lifecycle!LifecycleState
<1>2. ASSUME NEW o \in Op, NEW x \in Event, Appends(o, x)
      PROVE  Lifecycle!Advance(o)
  <2>1. ob' = ob /\ intent' = intent /\ Known(o)
    BY <1>2 DEF Appends
  <2>2. /\ events' \in [Op -> Seq(Event)]
        /\ \A p \in Op : p # o => events'[p] = events[p]
        /\ events'[o] # <<>>
        /\ events'[o][Len(events'[o])] = x
    BY <1>2, AppendedLog
  <2>3. st' = [st EXCEPT ![o] = x.state]
    BY <2>1, <2>2 DEF Known, state, LatestEvent
  <2>4. st[o] = state(o)
    BY <2>1
  <2>5. x.state \in EventState
    BY DEF Event
  <2>6. <<state(o), x.state>> \in Lifecycle!LifecycleEdge
    BY <1>2, <2>5 DEF Appends, EventState, InMemoryReconcilable, state,
       Lifecycle!LifecycleEdge
  <2>7. x.state \in Lifecycle!LifecycleState
    BY <2>5 DEF EventState, Lifecycle!LifecycleState
  <2> QED
    BY <2>1, <2>3, <2>4, <2>6, <2>7 DEF Lifecycle!Advance
<1>3. ASSUME NEW o \in Op, NEW r \in Outcome, Records(o, r)
      PROVE  Lifecycle!Observe(o) \/ UNCHANGED Lifecycle!lifecycleVars
  <2>1. st' = st /\ st[o] = "VERIFIED"
    BY <1>3 DEF Records, Known, state, LatestEvent
  <2>2. /\ outcome' = [outcome EXCEPT ![o] = r]
        /\ r # NoOutcome /\ outcome[o] \in {NoOutcome, r}
    BY <1>3, JournalAssumption DEF Records
  <2>3. ob' = ob \cup {o}
    BY <2>2 DEF JournalTypeOK
  <2>4. o \in ob => ob' = ob
    BY <2>3
  <2> QED
    BY <2>1, <2>3, <2>4 DEF Lifecycle!Observe, Lifecycle!lifecycleVars
<1>4. CASE UNCHANGED journalVars
  BY <1>4 DEF journalVars, Lifecycle!lifecycleVars, Known, state, LatestEvent
<1> QED
  BY <1>1, <1>2, <1>3, <1>4, JournalStepShape DEF Lifecycle!LifecycleNext

\* A journal that reconciles only what was attempted, as OperationJournal
\* does, implements PREPARED -> ATTEMPTED -> VERIFIED | FAILED | AMBIGUOUS.
THEOREM InMemoryImplementsLifecycle ==
    ASSUME Reconcilable \subseteq InMemoryReconcilable
    PROVE  JournalSpec => ImplementsLifecycle
<1>1. JournalInit => Lifecycle!LifecycleInit
  BY DEF JournalInit, Lifecycle!LifecycleInit, Known
<1>2. JournalInv /\ [JournalNext]_journalVars
         => [Lifecycle!LifecycleNext]_Lifecycle!lifecycleVars
  <2>1. ASSUME UNCHANGED journalVars PROVE UNCHANGED Lifecycle!lifecycleVars
    BY <2>1 DEF journalVars, Lifecycle!lifecycleVars, Known, state, LatestEvent
  <2> QED
    BY <2>1, LifecycleStep
<1> QED
  BY <1>1, <1>2, JournalInvariance, PTL
     DEF JournalSpec, ImplementsLifecycle, Lifecycle!LifecycleSpec
=============================================================================
