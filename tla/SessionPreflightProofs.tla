------------------------- MODULE SessionPreflightProofs -------------------------
(***************************************************************************)
(* What a session may rely on after its preflight, for any number of       *)
(* bindings, operations and contexts, and whatever everybody else does     *)
(* between its reads.                                                      *)
(***************************************************************************)
EXTENDS SessionPreflight, EffectJournalProofs, BindingResolutionProofs

\* The labels from which on each read of the preflight is behind the session.
SeenFrom == {"state", "readback", "events", "outcome", "recheck"} \cup Ready

VerifiedFrom == SeenFrom \ {"state"}

DigestFrom == {"outcome", "recheck"} \cup Ready

OutcomeFrom == {"recheck"} \cup Ready

\* What the session has read is still so: rows, settled logs and outcomes stay.
ReadsStand ==
    /\ pc \in SeenFrom => Known(about) /\ seen = intent[about].effect
    /\ pc \in VerifiedFrom => /\ state(about) = "VERIFIED"
                              /\ IsExactEffect(seen, chosen, context)
    /\ pc \in DigestFrom =>
          LatestEvent(about).digest = [op |-> about, effect |-> seen]
    /\ pc \in OutcomeFrom => /\ outcome[about] # NoOutcome
                             /\ outcome[about].effect = seen

\* The binding of a session was in the view once, so it is there or never again.
ChosenWasBound == pc # "idle" => standing[chosen] # "absent"

\* A binding still in the view after the readback was in the view at it.
ForceStands ==
    /\ pc \in {"events", "outcome", "recheck"} /\ IsLive(chosen) => inForce
    /\ PreparedWasInForce

\* Between the two reads of the dispatch check: of the bindings that existed when
\* it began, none that may be in the view goes before the one to be sent.
DispatchStands ==
    pc = "dispatch" =>
        /\ matches(row[chosen], asked.context)
        /\ \A b \in Binding \ asked.unborn :
              /\ standing[b] # "absent"
              /\ b # chosen /\ standing[b] = "live" /\ matches(row[b], asked.context)
                    => Beats(row[chosen], row[b])

PreflightInv ==
    /\ JournalInv
    /\ TypeOK
    /\ ReadsStand
    /\ ChosenWasBound
    /\ ForceStands
    /\ DispatchStands

-----------------------------------------------------------------------------
(* What others do to the journal, the view and the file.                   *)

\* A row, a settled log and an outcome outlast every call of every client.
LEMMA RecordStays ==
    ASSUME JournalInv, [JournalNext]_journalVars, NEW o \in Op, Known(o)
    PROVE  /\ Known(o)' /\ intent'[o] = intent[o]
           /\ state(o) = "VERIFIED" => /\ state(o)' = "VERIFIED"
                                       /\ LatestEvent(o)' = LatestEvent(o)
           /\ outcome[o] # NoOutcome => outcome'[o] = outcome[o]
<1>1. Known(o)' /\ intent'[o] = intent[o] /\ (Terminal(o) => events'[o] = events[o])
  BY JournalGrows
<1>2. ASSUME outcome[o] # NoOutcome PROVE outcome'[o] = outcome[o]
  <2>1. ASSUME NEW q \in Op, NEW r \in Outcome, Records(q, r)
        PROVE  outcome'[o] = outcome[o]
    BY <1>2, <2>1 DEF Records, JournalInv, JournalTypeOK
  <2>2. ASSUME NEW q \in Op, NEW k \in Key, NEW e \in Effect, Prepares(q, k, e)
        PROVE  outcome' = outcome
    BY <2>2 DEF Prepares
  <2>3. ASSUME NEW q \in Op, NEW x \in Event, Appends(q, x)
        PROVE  outcome' = outcome
    BY <2>3 DEF Appends
  <2>4. CASE UNCHANGED journalVars
    BY <2>4 DEF journalVars
  <2> QED
    BY <2>1, <2>2, <2>3, <2>4, JournalStepShape DEF JournalInv
<1> QED
  BY <1>1, <1>2 DEF Terminal, state, LatestEvent

\* A client call of the environment is a call of the journal.
LEMMA UseJournalIsClient ==
    ASSUME JournalInv, NEW o \in Op, UseJournal(o)
    PROVE  JournalNext
<1>1. Blank \in Evidence \cup {Blank}
  OBVIOUS
<1>2. ASSUME Known(o) PROVE evidenceOf[intent[o].effect] \in Evidence \cup {Blank}
  BY <1>2, PreflightAssumption DEF Known, JournalInv, JournalTypeOK, Intent
<1>3. CASE \E k \in Key, e \in Effect : prepare_effect_operation(o, k, e)
  BY <1>3 DEF JournalNext
<1>4. CASE record_effect_attempt(o, Blank)
  BY <1>1, <1>4 DEF JournalNext
<1>5. ASSUME NEW result \in {"AMBIGUOUS", "FAILED"}, Known(o),
             reconcile_effect_operation(o, result, evidenceOf[intent[o].effect], Blank)
      PROVE  JournalNext
  BY <1>2, <1>5 DEF JournalNext
<1>6. CASE \E v \in Evidence, d \in Observation :
              reconcile_effect_operation(o, "VERIFIED", v, d)
  BY <1>6 DEF JournalNext
<1>7. CASE \E r \in Outcome : record_verified_outcome_observation(o, r)
  BY <1>7 DEF JournalNext
<1> QED
  BY <1>3, <1>4, <1>5, <1>6, <1>7 DEF UseJournal

\* No step makes an absent binding of a live or dark one, or revives a dark one.
LEMMA StandingNeverReturns ==
    ASSUME standing \in [Binding -> {"absent", "live", "dark"}], BindingViewNext,
           NEW b \in Binding, standing[b] # "absent"
    PROVE  /\ standing' \in [Binding -> {"absent", "live", "dark"}]
           /\ standing'[b] # "absent"
           /\ IsLive(b)' => IsLive(b)
<1>1. ASSUME NEW a \in Binding, Bind(a)
      PROVE  /\ standing' \in [Binding -> {"absent", "live", "dark"}]
             /\ standing'[b] = standing[b]
  BY <1>1 DEF Bind
<1>2. ASSUME NEW S \in SUBSET Live, Darken(S)
      PROVE  /\ standing' \in [Binding -> {"absent", "live", "dark"}]
             /\ standing'[b] \in {standing[b], "dark"}
  BY <1>2 DEF Darken
<1> QED
  BY <1>1, <1>2 DEF BindingViewNext, IsLive, Live

\* What others do leaves the session's inputs and what it holds alone.
LEMMA EnvironmentStep ==
    ASSUME PreflightInv, Environment
    PROVE  /\ [JournalNext]_journalVars
           /\ UNCHANGED <<session, history>>
           /\ standing' \in [Binding -> {"absent", "live", "dark"}]
           /\ file' \in File \cup {NoFile}
           /\ \A b \in Binding : standing[b] # "absent" =>
                 standing'[b] # "absent" /\ (IsLive(b)' => IsLive(b))
<1> USE DEF PreflightInv, TypeOK
<1>1. ASSUME NEW o \in Op, UseJournal(o), UNCHANGED <<standing, file, session, history>>
      PROVE  JournalNext
  BY <1>1, UseJournalIsClient
<1>2. CASE \E o \in Op : UseJournal(o) /\ UNCHANGED <<standing, file, session, history>>
  BY <1>1, <1>2 DEF IsLive, Live
<1>3. CASE BindingViewNext /\ UNCHANGED <<journalVars, file, session, history>>
  <2>1. standing' \in [Binding -> {"absent", "live", "dark"}]
    BY <1>3 DEF BindingViewNext, Bind, Darken
  <2> QED
    BY <1>3, <2>1, StandingNeverReturns
<1>4. CASE ChangeFile /\ UNCHANGED <<journalVars, standing, session, history>>
  BY <1>4 DEF ChangeFile, IsLive, Live
<1> QED
  BY <1>2, <1>3, <1>4 DEF Environment

LEMMA EnvironmentInv ==
    ASSUME PreflightInv, Environment
    PROVE  PreflightInv'
<1>1. /\ [JournalNext]_journalVars
      /\ UNCHANGED <<session, history>>
      /\ standing' \in [Binding -> {"absent", "live", "dark"}]
      /\ file' \in File \cup {NoFile}
      /\ \A b \in Binding : standing[b] # "absent" =>
            standing'[b] # "absent" /\ (IsLive(b)' => IsLive(b))
  BY EnvironmentStep
<1>2. UNCHANGED <<pc, chosen, context, about, seen, inForce, asked>>
  BY <1>1 DEF session, history
<1>3. JournalInv'
  BY <1>1, JournalStepInv DEF PreflightInv
<1>4. TypeOK'
  BY <1>1, <1>2, <1>3 DEF PreflightInv, TypeOK, JournalInv
<1>5. ReadsStand'
  <2>1. SeenFrom \cap {"idle"} = {} /\ VerifiedFrom \subseteq SeenFrom
        /\ DigestFrom \subseteq VerifiedFrom /\ OutcomeFrom \subseteq DigestFrom
    BY DEF SeenFrom, VerifiedFrom, DigestFrom, OutcomeFrom, Ready
  <2>2. pc \in SeenFrom => about \in Op
    BY <2>1 DEF PreflightInv, TypeOK
  <2>3. pc \in SeenFrom => /\ Known(about) /\ Known(about)'
                           /\ intent'[about] = intent[about]
                           /\ state(about) = "VERIFIED" =>
                                 /\ state(about)' = "VERIFIED"
                                 /\ LatestEvent(about)' = LatestEvent(about)
                           /\ outcome[about] # NoOutcome =>
                                 outcome'[about] = outcome[about]
    <3>1. JournalInv /\ (pc \in SeenFrom => Known(about))
      BY DEF PreflightInv, ReadsStand
    <3> QED
      BY <1>1, <1>2, <2>2, <3>1, RecordStays DEF Known, state, LatestEvent
  <2> QED
    BY <1>2, <2>1, <2>3 DEF PreflightInv, ReadsStand, IsExactEffect, Known, state, LatestEvent
<1>6. pc # "idle" => chosen \in Binding /\ standing[chosen] # "absent"
  BY DEF PreflightInv, TypeOK, ChosenWasBound
<1>7. ChosenWasBound'
  BY <1>1, <1>2, <1>6 DEF ChosenWasBound
<1>8. ForceStands'
  BY <1>1, <1>2, <1>6 DEF PreflightInv, ForceStands, PreparedWasInForce, IsLive, Live
<1>9. DispatchStands'
  BY <1>1, <1>2 DEF PreflightInv, TypeOK, DispatchStands, IsLive, Live
<1> QED
  BY <1>3, <1>4, <1>5, <1>7, <1>8, <1>9 DEF PreflightInv

-----------------------------------------------------------------------------
(* What a resolution over the view returns.                                *)

LEMMA ViewType ==
    /\ Live \subseteq Binding
    /\ InView \in [Live -> InjectionBinding]
    /\ Nobody \notin Live /\ Undecided \notin Live
<1>1. Live \subseteq Binding
  BY DEF Live
<1> QED
  BY <1>1, PreflightAssumption DEF InView

\* A binding that is resolved is in the view.
LEMMA ResolvedIsLive ==
    ASSUME NEW c, NEW b \in Binding, resolve_binding(InView, c) = b
    PROVE  b \in Live
<1> DEFINE F == Narrowest(InView, Highest(InView, Candidates(InView, c)))
           W == Newest(InView, F)
<1>1. b # Nobody /\ b # Undecided
  BY PreflightAssumption
<1>2. W = {b}
  BY <1>1 DEF resolve_binding
<1>3. W \subseteq F
  BY DEF Newest, Greatest
<1>4. F \subseteq Candidates(InView, c)
  BY DEF Narrowest, Highest, Greatest
<1>5. Candidates(InView, c) \subseteq Live
  BY DEF Candidates, InView
<1> QED
  BY <1>2, <1>3, <1>4, <1>5

\* resolve_binding over the view and the order of the bindings agree.
LEMMA ResolutionOverView ==
    ASSUME NEW c, NEW b \in Binding
    PROVE  resolve_binding(InView, c) = b <=> Governs(InView, c, b)
<1>1. ASSUME resolve_binding(InView, c) = b PROVE Governs(InView, c, b)
  <2>1. b \in Live
    BY <1>1, ResolvedIsLive
  <2> QED
    BY <1>1, <2>1, ViewType, ResolvedGoverns
<1>2. ASSUME Governs(InView, c, b) PROVE resolve_binding(InView, c) = b
  <2>1. b \in Live
    BY <1>2 DEF Governs, Candidates, InView
  <2> QED
    BY <1>2, <2>1, ViewType, GovernorIsResolved
<1> QED
  BY <1>1, <1>2

-----------------------------------------------------------------------------
(* The reads of the preflight.                                             *)

\* A read leaves the journal, the view and the file alone.
LEMMA ReadFrame ==
    ASSUME PreflightInv, NEW l, Reads(l)
    PROVE  /\ JournalInv' /\ JournalTypeOK'
           /\ UNCHANGED <<intent, events, outcome, standing, file>>
           /\ pc' = l
           /\ \A o : /\ Known(o)' <=> Known(o)
                     /\ state(o)' = state(o)
                     /\ LatestEvent(o)' = LatestEvent(o)
           /\ Live' = Live
<1>1. UNCHANGED journalVars /\ UNCHANGED <<standing, file>> /\ pc' = l
  BY DEF Reads
<1>2. JournalInv'
  BY <1>1, JournalStepInv DEF PreflightInv
<1> QED
  BY <1>1, <1>2 DEF JournalInv, journalVars, Known, state, LatestEvent, Live

LEMMA ResolveInv ==
    ASSUME PreflightInv, NEW o \in Op, NEW c \in Context, Resolve(o, c)
    PROVE  PreflightInv'
<1>1. /\ chosen' \in Pinned /\ chosen' = resolve_binding(InView, c)
      /\ context' = c /\ about' = o /\ seen' = seen /\ UNCHANGED history
      /\ Reads("current")
  BY DEF Resolve
<1>2. chosen' \in Binding
  BY <1>1, PreflightAssumption
<1>3. chosen' \in Live
  BY <1>1, <1>2, ResolvedIsLive
<1>4. /\ JournalInv' /\ JournalTypeOK' /\ UNCHANGED <<standing, file>>
      /\ pc' = "current"
  BY <1>1, ReadFrame
<1>5. TypeOK'
  BY <1>1, <1>2, <1>4 DEF PreflightInv, TypeOK, history, Loading
<1>6. ChosenWasBound'
  BY <1>3, <1>4 DEF ChosenWasBound, Live
<1>7. ReadsStand' /\ ForceStands' /\ DispatchStands'
  BY <1>4 DEF ReadsStand, ForceStands, DispatchStands, PreparedWasInForce,
     SeenFrom, VerifiedFrom, DigestFrom, OutcomeFrom, Ready
<1> QED
  BY <1>4, <1>5, <1>6, <1>7 DEF PreflightInv

\* The reads up to the recorded effect: nothing but the label moves, or the row
\* of the operation is taken in.
LEMMA EarlyReadsInv ==
    ASSUME PreflightInv, CheckCurrent \/ ReadCorrection \/ ReadIntent \/ ReadState
    PROVE  PreflightInv'
<1> USE DEF PreflightInv
<1> DEFINE l == pc'
<1>1. /\ Reads(l) /\ l \in {"correction", "intent", "state", "readback"}
      /\ pc # "idle" /\ UNCHANGED <<chosen, context, about, inForce, asked>>
  BY DEF CheckCurrent, ReadCorrection, ReadIntent, ReadState, Reads, At, history
<1>2. /\ JournalInv' /\ JournalTypeOK'
      /\ UNCHANGED <<intent, events, outcome, standing, file>>
      /\ \A o : /\ Known(o)' <=> Known(o)
                /\ state(o)' = state(o)
                /\ LatestEvent(o)' = LatestEvent(o)
  BY <1>1, ReadFrame
<1>3. seen' \in Effect \cup {NoEffect}
  <2>1. CASE ReadIntent
    BY <2>1 DEF ReadIntent, At, TypeOK, JournalTypeOK, Known, Intent
  <2>2. CASE CheckCurrent \/ ReadCorrection \/ ReadState
    BY <2>2 DEF CheckCurrent, ReadCorrection, ReadState, TypeOK
  <2> QED
    BY <2>1, <2>2
<1>4. TypeOK'
  BY <1>1, <1>2, <1>3 DEF TypeOK, Loading
<1>5. l \in SeenFrom => Known(about) /\ seen' = intent[about].effect
  <2>1. CASE ReadIntent
    BY <2>1 DEF ReadIntent
  <2>2. CASE ReadState
    BY <2>2 DEF ReadState, At, ReadsStand, SeenFrom
  <2>3. CASE CheckCurrent \/ ReadCorrection
    BY <2>3 DEF CheckCurrent, ReadCorrection, Reads, SeenFrom, Ready
  <2> QED
    BY <2>1, <2>2, <2>3
<1>6. l \in VerifiedFrom => /\ state(about) = "VERIFIED"
                            /\ IsExactEffect(seen', chosen, context)
  <2>1. CASE ReadState
    BY <2>1 DEF ReadState
  <2>2. CASE CheckCurrent \/ ReadCorrection \/ ReadIntent
    BY <2>2 DEF CheckCurrent, ReadCorrection, ReadIntent, Reads, SeenFrom,
       VerifiedFrom, Ready
  <2> QED
    BY <2>1, <2>2
<1>7. l \notin DigestFrom /\ l \notin OutcomeFrom
  BY <1>1 DEF DigestFrom, OutcomeFrom, Ready
<1>8. ReadsStand'
  BY <1>1, <1>2, <1>5, <1>6, <1>7 DEF ReadsStand, IsExactEffect
<1>9. ChosenWasBound' /\ ForceStands' /\ DispatchStands'
  BY <1>1, <1>2 DEF ChosenWasBound, ForceStands, DispatchStands,
     PreparedWasInForce, Ready
<1> QED
  BY <1>2, <1>4, <1>8, <1>9

\* The only VERIFIED event of a verified operation is the latest one.
LEMMA OnlyVerifiedIsLatest ==
    ASSUME JournalTypeOK, NEW o \in Op, state(o) = "VERIFIED",
           NEW i \in 1..Len(events[o]),
           \A j \in 1..Len(events[o]) : events[o][j].state = "VERIFIED" <=> j = i
    PROVE  events[o][i] = LatestEvent(o)
<1>1. events[o] # <<>>
  BY DEF state
<1>2. Len(events[o]) \in 1..Len(events[o]) /\ LatestEvent(o).state = "VERIFIED"
  BY <1>1, LatestIsLogged
<1> QED
  BY <1>2 DEF LatestEvent

\* The reads from the readback on: what each compares stands from then on.
LEMMA LateReadsInv ==
    ASSUME PreflightInv, ReadBack \/ ReadEvents \/ ReadOutcome \/ Recheck
    PROVE  PreflightInv'
<1> USE DEF PreflightInv
<1> DEFINE l == pc'
<1>1. /\ Reads(l) /\ l \in {"events", "outcome", "recheck", "prepared"}
      /\ pc \in {"readback", "events", "outcome", "recheck"}
      /\ UNCHANGED <<chosen, context, about, seen, asked>>
  BY DEF ReadBack, ReadEvents, ReadOutcome, Recheck, Reads, At, history
<1>2. /\ JournalInv' /\ JournalTypeOK'
      /\ UNCHANGED <<intent, events, outcome, standing, file>>
      /\ \A o : /\ Known(o)' <=> Known(o)
                /\ state(o)' = state(o)
                /\ LatestEvent(o)' = LatestEvent(o)
      /\ Live' = Live
  BY <1>1, ReadFrame
<1>3. inForce' \in BOOLEAN
  BY DEF ReadBack, ReadEvents, ReadOutcome, Recheck, history, TypeOK, IsLive
<1>4. TypeOK'
  BY <1>1, <1>2, <1>3 DEF TypeOK, Loading, Ready
<1>5. /\ about \in Op /\ Known(about) /\ seen = intent[about].effect
      /\ state(about) = "VERIFIED" /\ IsExactEffect(seen, chosen, context)
  BY <1>1 DEF ReadsStand, SeenFrom, VerifiedFrom, Ready, TypeOK
<1>6. l \in DigestFrom => LatestEvent(about).digest = [op |-> about, effect |-> seen]
  <2>1. CASE ReadEvents
    <3>1. PICK i \in 1..Len(events[about]) :
             /\ \A j \in 1..Len(events[about]) :
                   events[about][j].state = "VERIFIED" <=> j = i
             /\ events[about][i].digest = [op |-> about, effect |-> seen]
      BY <2>1 DEF ReadEvents
    <3> QED
      BY <1>5, <3>1, OnlyVerifiedIsLatest DEF TypeOK
  <2>2. CASE ReadOutcome \/ Recheck
    BY <2>2 DEF ReadOutcome, Recheck, At, ReadsStand, DigestFrom
  <2>3. CASE ReadBack
    BY <2>3 DEF ReadBack, Reads, DigestFrom, Ready
  <2> QED
    BY <2>1, <2>2, <2>3
<1>7. l \in OutcomeFrom => outcome[about] # NoOutcome /\ outcome[about].effect = seen
  <2>1. CASE ReadOutcome
    BY <2>1 DEF ReadOutcome
  <2>2. CASE Recheck
    BY <2>2 DEF Recheck, At, ReadsStand, OutcomeFrom
  <2>3. CASE ReadBack \/ ReadEvents
    BY <2>3 DEF ReadBack, ReadEvents, Reads, OutcomeFrom, Ready
  <2> QED
    BY <2>1, <2>2, <2>3
<1>8. ReadsStand'
  BY <1>1, <1>2, <1>5, <1>6, <1>7 DEF ReadsStand, IsExactEffect
<1>9. ForceStands'
  <2>1. CASE ReadBack
    <3>1. inForce' = IsLive(chosen) /\ l = "events"
      BY <1>5, <2>1 DEF ReadBack, Reads, IsLive
    <3> QED
      BY <1>1, <1>2, <3>1 DEF ForceStands, PreparedWasInForce, Ready, IsLive
  <2>2. CASE ReadEvents \/ ReadOutcome
    BY <1>1, <1>2, <2>2 DEF ReadEvents, ReadOutcome, Reads, At, history, ForceStands,
       PreparedWasInForce, Ready, IsLive
  <2>3. CASE Recheck
    BY <1>1, <1>2, <2>3 DEF Recheck, Reads, At, history, ForceStands,
       PreparedWasInForce, IsLive
  <2> QED
    BY <2>1, <2>2, <2>3
<1>10. ChosenWasBound' /\ DispatchStands'
  BY <1>1, <1>2 DEF ChosenWasBound, DispatchStands
<1> QED
  BY <1>2, <1>4, <1>8, <1>9, <1>10

-----------------------------------------------------------------------------
(* The host, and the end of a session.                                     *)

\* The binding a context resolves to goes before the others in the view.
LEMMA ResolvedBeats ==
    ASSUME NEW c, NEW b \in Binding, resolve_binding(InView, c) = b
    PROVE  /\ b \in Live /\ matches(row[b], c)
           /\ \A a \in Live \ {b} : matches(row[a], c) => Beats(row[b], row[a])
<1>1. Governs(InView, c, b) /\ b \in Live
  BY ResolutionOverView, ResolvedIsLive
<1>2. \A a \in Live : InView[a] = row[a] /\ (a \in Candidates(InView, c) <=> matches(row[a], c))
  BY DEF InView, Candidates
<1> QED
  BY <1>1, <1>2 DEF Governs

LEMMA HostInv ==
    ASSUME PreflightInv,
           \/ \E copies \in [Role -> 0..2] : VerifyMaterialized(copies)
           \/ \E c \in Context : ResolveAgain(c)
           \/ Dispatch \/ Withhold
    PROVE  PreflightInv'
<1> USE DEF PreflightInv
<1> DEFINE l == pc'
<1>1. /\ Reads(l) /\ l \in Ready /\ pc \in Ready
      /\ UNCHANGED <<chosen, context, about, seen, inForce>>
  BY DEF VerifyMaterialized, ResolveAgain, Dispatch, Withhold, Reads, At, Ready, history
<1>2. /\ JournalInv' /\ JournalTypeOK'
      /\ UNCHANGED <<intent, events, outcome, standing, file>>
      /\ \A o : /\ Known(o)' <=> Known(o)
                /\ state(o)' = state(o)
                /\ LatestEvent(o)' = LatestEvent(o)
  BY <1>1, ReadFrame
<1>3. DispatchStands' /\ asked' \in [context : Context \cup {{}}, unborn : SUBSET Binding]
  <2>1. ASSUME NEW c \in Context, ResolveAgain(c)
        PROVE  /\ DispatchStands'
               /\ asked' \in [context : Context \cup {{}}, unborn : SUBSET Binding]
    <3>1. chosen \in Binding /\ resolve_binding(InView, c) = chosen
      BY <2>1 DEF ResolveAgain, At, TypeOK
    <3>2. asked' = [context |-> c, unborn |-> {b \in Binding : standing[b] = "absent"}]
      BY <2>1 DEF ResolveAgain, BeginDispatch
    <3>3. /\ matches(row[chosen], c)
          /\ \A a \in Live \ {chosen} : matches(row[a], c) => Beats(row[chosen], row[a])
      BY <3>1, ResolvedBeats
    <3> QED
      BY <1>1, <1>2, <3>2, <3>3 DEF DispatchStands, Live
  <2>2. CASE Dispatch \/ Withhold
    BY <2>2 DEF Dispatch, Withhold, Reads, NotAsked, DispatchStands
  <2>3. CASE \E copies \in [Role -> 0..2] : VerifyMaterialized(copies)
    BY <2>3 DEF VerifyMaterialized, Reads, history, DispatchStands, TypeOK
  <2> QED
    BY <2>1, <2>2, <2>3
<1>4. pc # "idle" /\ l # "idle" /\ ~(l \in Loading)
  BY <1>1 DEF Ready, Loading
<1>5. TypeOK'
  BY <1>1, <1>2, <1>3, <1>4 DEF TypeOK
<1>6. ReadsStand'
  BY <1>1, <1>2 DEF ReadsStand, IsExactEffect, SeenFrom, VerifiedFrom, DigestFrom,
     OutcomeFrom, Ready
<1>7. ForceStands' /\ ChosenWasBound'
  BY <1>1, <1>2, <1>4 DEF ForceStands, PreparedWasInForce, ChosenWasBound, Ready
<1> QED
  BY <1>2, <1>3, <1>5, <1>6, <1>7

LEMMA LeaveInv ==
    ASSUME PreflightInv, GiveUp \/ EndSession
    PROVE  PreflightInv'
<1>1. /\ Reads("idle")
      /\ chosen' = Nobody /\ context' = {} /\ about' = Blank /\ seen' = NoEffect
      /\ inForce' = FALSE /\ asked' = NotAsked
  BY DEF GiveUp, EndSession
<1>2. JournalInv' /\ JournalTypeOK' /\ UNCHANGED <<standing, file>> /\ pc' = "idle"
  BY <1>1, ReadFrame
<1>3. TypeOK'
  BY <1>1, <1>2 DEF PreflightInv, TypeOK, NotAsked
<1> QED
  BY <1>2, <1>3 DEF PreflightInv, ReadsStand, ChosenWasBound, ForceStands,
     DispatchStands, PreparedWasInForce, SeenFrom, VerifiedFrom, DigestFrom,
     OutcomeFrom, Ready

-----------------------------------------------------------------------------
LEMMA InitPreflightInv == Init => PreflightInv
<1> SUFFICES ASSUME Init PROVE PreflightInv
  OBVIOUS
<1>1. JournalInv /\ JournalTypeOK
  BY JournalInitInv DEF Init, JournalInv
<1>2. pc = "idle" /\ TypeOK
  BY <1>1 DEF Init, Idle, BindingViewInit, TypeOK, NotAsked
<1> QED
  BY <1>1, <1>2 DEF PreflightInv, ReadsStand, ChosenWasBound, ForceStands,
     DispatchStands, PreparedWasInForce, SeenFrom, VerifiedFrom, DigestFrom,
     OutcomeFrom, Ready

LEMMA StepPreflightInv == PreflightInv /\ [Next]_vars => PreflightInv'
<1> SUFFICES ASSUME PreflightInv, [Next]_vars PROVE PreflightInv'
  OBVIOUS
<1>1. CASE SessionNext
  BY <1>1, ResolveInv, EarlyReadsInv, LateReadsInv, HostInv, LeaveInv DEF SessionNext
<1>2. CASE Environment
  BY <1>2, EnvironmentInv
<1>3. CASE UNCHANGED vars
  <2>1. /\ UNCHANGED <<intent, events, outcome, standing, file>>
        /\ UNCHANGED <<pc, chosen, context, about, seen, inForce, asked>>
    BY <1>3 DEF vars, session, history, journalVars
  <2>2. JournalInv' /\ TypeOK'
    <3>1. JournalInv'
      BY <2>1, JournalStepInv DEF journalVars, PreflightInv
    <3> QED
      BY <2>1, <3>1 DEF PreflightInv, JournalInv, TypeOK
  <2>3. ReadsStand'
    BY <2>1 DEF PreflightInv, ReadsStand, IsExactEffect, Known, state, LatestEvent
  <2>4. ChosenWasBound' /\ ForceStands' /\ DispatchStands'
    BY <2>1 DEF PreflightInv, ChosenWasBound, ForceStands, DispatchStands,
       PreparedWasInForce, IsLive, Live
  <2> QED
    BY <2>2, <2>3, <2>4 DEF PreflightInv
<1> QED
  BY <1>1, <1>2, <1>3 DEF Next

\* The inductive invariant holds whenever others use the journal, the view and
\* the file between the reads of the session.
THEOREM PreflightInvariance == Spec => []PreflightInv
<1> QED
  BY InitPreflightInv, StepPreflightInv, PTL DEF Spec

-----------------------------------------------------------------------------
(* The results.                                                            *)

\* Type correctness of the session and of what it reads.
THEOREM PreflightTypeCorrect == Spec => []TypeOK
<1>1. PreflightInv => TypeOK
  BY DEF PreflightInv
<1> QED
  BY <1>1, PreflightInvariance, PTL

\* The nine reads of a prepared correction amount to one look at its binding,
\* its operation and its file.
THEOREM PreparedCorrectionsWereInForce == Spec => []PreparedWasInForce
<1>1. PreflightInv => PreparedWasInForce
  BY DEF PreflightInv, ForceStands
<1> QED
  BY <1>1, PreflightInvariance, PTL

\* What a prepared correction rests on is durable and stays so.
THEOREM PreparedCorrectionsAreOnRecord == Spec => []PreparedIsOnRecord
<1>1. PreflightInv => PreparedIsOnRecord
  BY DEF PreflightInv, ReadsStand, PreparedIsOnRecord, SeenFrom, VerifiedFrom,
     DigestFrom, OutcomeFrom, Ready
<1> QED
  BY <1>1, PreflightInvariance, PTL

\* What is sent is in the view and goes before all that was there when its dispatch
\* check began, whatever entered and left the view between the two reads.
THEOREM SentCorrectionsGoverned == Spec => SentGoverned
<1> DEFINE C == Candidates(InView, asked.context)
           Governing == /\ chosen \in C
                        /\ \A b \in C \ (asked.unborn \cup {chosen}) :
                              Beats(row[chosen], row[b])
<1>1. ASSUME PreflightInv, [Next]_vars, pc # "sent", pc' = "sent" PROVE Governing
  <2>1. Dispatch
    BY <1>1 DEF Next, SessionNext, Environment, Resolve, CheckCurrent, ReadCorrection,
       ReadIntent, ReadState, ReadBack, ReadEvents, ReadOutcome, Recheck, GiveUp,
       VerifyMaterialized, ResolveAgain, Withhold, EndSession, Reads, session, vars
  <2>2. pc = "dispatch" /\ chosen \in Live
    BY <2>1 DEF Dispatch, At, IsLive
  <2>3. \A b \in Live : b \in Binding /\ standing[b] = "live"
    BY DEF Live
  <2>4. \A b : b \in C <=> b \in Live /\ matches(row[b], asked.context)
    BY DEF Candidates, InView
  <2> QED
    BY <1>1, <2>2, <2>3, <2>4 DEF PreflightInv, DispatchStands
<1> HIDE DEF Governing
<1>2. PreflightInv /\ [Next]_vars => [pc # "sent" /\ pc' = "sent" => Governing]_vars
  BY <1>1
<1>3. [][pc # "sent" /\ pc' = "sent" => Governing]_vars => SentGoverned
  BY DEF SentGoverned, Governing
<1> QED
  BY <1>2, <1>3, PreflightInvariance, PTL DEF Spec
=============================================================================
