---------------------------- MODULE SessionPreflight ----------------------------
(***************************************************************************)
(* The session preflight (session_preflight.py): a new session recovers a  *)
(* correction from durable state, the host puts it into a prompt and, just *)
(* before it sends the prompt, asks whether the correction still governs.  *)
(*                                                                         *)
(* The preflight only reads, but it reads nine times: every call of the    *)
(* store is a transaction of its own, and the readback looks at the file   *)
(* system.  Between two reads other clients use the journal, bindings      *)
(* enter and leave the view, and the file changes.  A step of the session  *)
(* is one read with the comparisons made before the next one; a comparison *)
(* that fails raises.                                                      *)
(*                                                                         *)
(* The authority tables are the abstract view of BindingView, which        *)
(* CorrectionAuthority implements.  Bindings without an adapter version    *)
(* are invisible to the store and are left out.                            *)
(***************************************************************************)
EXTENDS EffectJournal, BindingView, BindingResolution

CONSTANTS Target,      \* injector targets
          Payload,     \* correction payloads
          Context,     \* the contexts sessions start in: sets of labels
          row,         \* row[b]: binding b as the view returns it
          Pinned,      \* the bindings of the injector and version the host pins
          payloadOf,   \* payloadOf[b]: the payload of the revision b is for
          evidenceOf,  \* evidenceOf[e]: the evidence a VERIFIED readback of e has
          pinnedTarget,
          NoFile, NoEffect

\* What the pointer and its version file show, read as one (the reader's
\* identity checks are in ReferenceFileInjector); somebody may have edited the
\* payload alone.
File == [shows : Observation, payload : Payload]

ASSUME PreflightAssumption ==
    /\ Effect \subseteq [target : Target, binding : Binding,
                         context : Context, payload : Payload]
    /\ row \in [Binding -> InjectionBinding]
    /\ Pinned \subseteq Binding
    /\ payloadOf \in [Binding -> Payload]
    /\ evidenceOf \in [Effect -> Evidence]
    /\ Nobody \notin Binding /\ Undecided \notin Binding
    /\ NoFile \notin File
    /\ NoEffect \notin Effect

VARIABLES file,      \* what the pinned target holds
          pc,        \* what the session does next
          chosen,    \* the binding it resolved, or Nobody
          context,   \* the session's context
          about,     \* the operation it was told to look at
          seen,      \* the effect in the row of that operation, once read
          inForce,   \* history: at the readback the binding was in the view, the
                     \*   operation VERIFIED and the file showed its effect
          asked      \* history: the context the dispatch check is about, and the
                     \*   bindings that did not exist when it began

session == <<pc, chosen, context, about, seen>>
history == <<inForce, asked>>
vars == <<journalVars, standing, file, session, history>>

Loading == {"current", "correction", "intent", "state", "readback", "events",
            "outcome", "recheck"}

Ready == {"prepared", "materialized", "dispatch", "sent"}

NotAsked == [context |-> {}, unborn |-> {}]

TypeOK ==
    /\ JournalTypeOK
    /\ standing \in [Binding -> {"absent", "live", "dark"}]
    /\ file \in File \cup {NoFile}
    /\ pc \in {"idle"} \cup Loading \cup Ready
    /\ chosen \in Binding \cup {Nobody}
    /\ context \in Context \cup {{}}
    /\ about \in Op \cup {Blank}
    /\ seen \in Effect \cup {NoEffect}
    /\ inForce \in BOOLEAN
    /\ asked \in [context : Context \cup {{}}, unborn : SUBSET Binding]
    /\ pc # "idle" => chosen \in Binding /\ context \in Context /\ about \in Op

Idle ==
    /\ pc = "idle" /\ chosen = Nobody /\ context = {} /\ about = Blank
    /\ seen = NoEffect

Init ==
    /\ JournalInit
    /\ BindingViewInit
    /\ file = NoFile
    /\ Idle
    /\ inForce = FALSE /\ asked = NotAsked

-----------------------------------------------------------------------------
At(l) == pc = l

\* A read that ends before l, and leaves everything but the session alone.
Reads(l) ==
    /\ pc' = l
    /\ UNCHANGED <<journalVars, standing, file>>

IsLive(b) == b \in Live

\* bindings_for_context.
InView == [b \in Live |-> row[b]]

\* A resolution used without asking whether there is one.
resolve_unchecked(o, c) ==
    /\ At("idle")
    /\ chosen' = resolve_binding(InView, c)
    /\ context' = c /\ about' = o
    /\ Reads("current")
    /\ UNCHANGED <<seen, history>>

\* resolve_binding over bindings_for_context, with the checks that the binding
\* is executable by the pinned injector.
Resolve(o, c) ==
    /\ At("idle")
    /\ LET b == resolve_binding(InView, c) IN
       /\ b \in Pinned
       /\ chosen' = b
    /\ context' = c /\ about' = o
    /\ Reads("current")
    /\ UNCHANGED <<seen, history>>

\* binding_is_current.
CheckCurrent ==
    /\ At("current")
    /\ IsLive(chosen)
    /\ Reads("correction")
    /\ UNCHANGED <<chosen, context, about, seen, history>>

\* correction_for_active_binding; the revision is immutable, so its payload is
\* payloadOf[chosen] from here on.
ReadCorrection ==
    /\ At("correction")
    /\ IsLive(chosen)
    /\ Reads("intent")
    /\ UNCHANGED <<chosen, context, about, seen, history>>

\* intent().
ReadIntent ==
    /\ At("intent")
    /\ Known(about)
    /\ intent[about].effect.target = pinnedTarget
    /\ seen' = intent[about].effect
    /\ Reads("state")
    /\ UNCHANGED <<chosen, context, about, history>>

\* The recorded effect is the correction's, under this binding and context.
IsExactEffect(e, b, c) ==
    e.binding = b /\ e.context = c /\ e.payload = payloadOf[b]

\* A recorded effect accepted in any context of its binding.
exact_in_any_context ==
    /\ At("state")
    /\ state(about) = "VERIFIED"
    /\ seen.binding = chosen /\ seen.payload = payloadOf[chosen]
    /\ Reads("readback")
    /\ UNCHANGED <<chosen, context, about, seen, history>>

\* state(), then the comparison of the recorded effect.
ReadState ==
    /\ At("state")
    /\ state(about) = "VERIFIED"
    /\ IsExactEffect(seen, chosen, context)
    /\ Reads("readback")
    /\ UNCHANGED <<chosen, context, about, seen, history>>

\* The file shows the effect of operation o, published by o itself.
ShowsOperation(o, e) ==
    /\ file # NoFile
    /\ file.shows = [op |-> o, effect |-> e]
    /\ file.payload = payloadOf[chosen]

\* readback(), which compares the digest, then the operation id and payload.
ReadBack ==
    /\ At("readback")
    /\ ShowsOperation(about, seen)
    /\ inForce' = (IsLive(chosen) /\ state(about) = "VERIFIED")
    /\ Reads("events")
    /\ UNCHANGED <<chosen, context, about, seen, asked>>

\* events() searched for a VERIFIED event only.
any_verified_event ==
    /\ At("events")
    /\ \E i \in 1..Len(events[about]) : events[about][i].state = "VERIFIED"
    /\ Reads("outcome")
    /\ UNCHANGED <<chosen, context, about, seen, history>>

\* events(): exactly one VERIFIED event, and it is the observation just made.
ReadEvents ==
    /\ At("events")
    /\ \E i \in 1..Len(events[about]) :
         /\ \A j \in 1..Len(events[about]) :
               events[about][j].state = "VERIFIED" <=> j = i
         /\ events[about][i].digest = [op |-> about, effect |-> seen]
         /\ events[about][i].evidence = evidenceOf[seen]
    /\ Reads("outcome")
    /\ UNCHANGED <<chosen, context, about, seen, history>>

\* outcome_for_operation().
ReadOutcome ==
    /\ At("outcome")
    /\ outcome[about] # NoOutcome
    /\ outcome[about].effect = seen
    /\ outcome[about].evidence = evidenceOf[seen]
    /\ Reads("recheck")
    /\ UNCHANGED <<chosen, context, about, seen, history>>

\* No second look at the view.
return_without_recheck ==
    /\ At("recheck")
    /\ Reads("prepared")
    /\ UNCHANGED <<chosen, context, about, seen, history>>

\* binding_is_current again; the preflight returns.
Recheck ==
    /\ At("recheck")
    /\ IsLive(chosen)
    /\ Reads("prepared")
    /\ UNCHANGED <<chosen, context, about, seen, history>>

\* SessionPreflightError, KeyError or PermissionError while loading.
GiveUp ==
    /\ pc \in Loading
    /\ chosen' = Nobody /\ context' = {} /\ about' = Blank /\ seen' = NoEffect
    /\ inForce' = FALSE /\ asked' = NotAsked
    /\ Reads("idle")

-----------------------------------------------------------------------------
(* The host.                                                               *)

Role == {"system", "developer", "user"}

\* verify_materialized_prompt, on a request with so many copies of the message
\* under each role; a prepared correction may be used for several requests.
VerifyMaterialized(copies) ==
    /\ pc \in {"prepared", "sent"}
    /\ copies["system"] + copies["developer"] = 1
    /\ Reads("materialized")
    /\ UNCHANGED <<chosen, context, about, seen, history>>

\* What the dispatch check starts from.
BeginDispatch(c) ==
    asked' = [context |-> c, unborn |-> {b \in Binding : standing[b] = "absent"}]

\* A dispatch check content with any binding that governs now.
accept_any_governor(c) ==
    /\ At("materialized")
    /\ resolve_binding(InView, c) \in Binding
    /\ BeginDispatch(c)
    /\ Reads("dispatch")
    /\ UNCHANGED <<chosen, context, about, seen, inForce>>

\* verify_dispatch_currentness, first read: the same binding is resolved again,
\* in the context the host names now.  (The code compares after the second read,
\* which can only raise as well.)
ResolveAgain(c) ==
    /\ At("materialized")
    /\ resolve_binding(InView, c) = chosen
    /\ BeginDispatch(c)
    /\ Reads("dispatch")
    /\ UNCHANGED <<chosen, context, about, seen, inForce>>

\* verify_dispatch_currentness, second read; the host sends the request.
Dispatch ==
    /\ At("dispatch")
    /\ IsLive(chosen)
    /\ asked' = NotAsked
    /\ Reads("sent")
    /\ UNCHANGED <<chosen, context, about, seen, inForce>>

\* The dispatch check raises; the host still holds the prepared correction.
Withhold ==
    /\ pc \in {"materialized", "dispatch"}
    /\ asked' = NotAsked
    /\ Reads("prepared")
    /\ UNCHANGED <<chosen, context, about, seen, inForce>>

\* The session is over.
EndSession ==
    /\ pc \in {"prepared", "sent"}
    /\ chosen' = Nobody /\ context' = {} /\ about' = Blank /\ seen' = NoEffect
    /\ inForce' = FALSE /\ asked' = NotAsked
    /\ Reads("idle")

SessionNext ==
    \/ \E o \in Op, c \in Context : Resolve(o, c)
    \/ CheckCurrent \/ ReadCorrection \/ ReadIntent \/ ReadState \/ ReadBack
    \/ ReadEvents \/ ReadOutcome \/ Recheck \/ GiveUp
    \/ \E copies \in [Role -> 0..2] : VerifyMaterialized(copies)
    \/ \E c \in Context : ResolveAgain(c)
    \/ Dispatch \/ Withhold \/ EndSession

-----------------------------------------------------------------------------
(* Everybody else.                                                         *)

\* Other clients of the journal.  The evidence of an attempt or of a failed or
\* ambiguous readback is nothing the preflight looks at.
UseJournal(o) ==
    \/ \E k \in Key, e \in Effect : prepare_effect_operation(o, k, e)
    \/ record_effect_attempt(o, Blank)
    \/ \E result \in {"AMBIGUOUS", "FAILED"} :
          /\ Known(o)
          /\ reconcile_effect_operation(o, result, evidenceOf[intent[o].effect], Blank)
    \/ \E v \in Evidence, d \in Observation :
          reconcile_effect_operation(o, "VERIFIED", v, d)
    \/ \E r \in Outcome : record_verified_outcome_observation(o, r)

\* The target is published to, rolled back, edited or removed.
ChangeFile ==
    \E f \in File \cup {NoFile} : f # file /\ file' = f

Environment ==
    \/ \E o \in Op : UseJournal(o) /\ UNCHANGED <<standing, file, session, history>>
    \/ BindingViewNext /\ UNCHANGED <<journalVars, file, session, history>>
    \/ ChangeFile /\ UNCHANGED <<journalVars, standing, session, history>>

Next == SessionNext \/ Environment

Spec == Init /\ [][Next]_vars

-----------------------------------------------------------------------------
(* Properties                                                              *)

\* Although it is pieced together from nine reads, a prepared correction was in
\* force at one instant: its binding was in the view while its operation was
\* VERIFIED and the file showed the effect.  Bindings never return to the view
\* and VERIFIED is final, so the second currentness check is enough.
PreparedWasInForce == pc \in Ready => inForce

\* A correction a session holds stays on record, however old the session: its
\* operation is VERIFIED by the observation of the exact effect for this
\* binding and context, and the outcome of that very effect is durable.
PreparedIsOnRecord ==
    pc \in Ready =>
        /\ Known(about) /\ state(about) = "VERIFIED"
        /\ IsExactEffect(intent[about].effect, chosen, context)
        /\ LatestEvent(about).digest = [op |-> about, effect |-> intent[about].effect]
        /\ outcome[about] # NoOutcome
        /\ outcome[about].effect = intent[about].effect

\* What is sent is in the view at that moment and governs the context the host
\* asked about: it goes before every other binding there that matches, but for
\* those created after the dispatch check had begun.  The two reads of the check
\* are transactions of their own, so this needs that bindings never return.
SentGoverned ==
    [][pc # "sent" /\ pc' = "sent" =>
         LET C == Candidates(InView, asked.context) IN
         /\ chosen \in C
         /\ \A b \in C \ (asked.unborn \cup {chosen}) : Beats(row[chosen], row[b])]_vars
=============================================================================
