-------------------------- MODULE CorrectionAuthority --------------------------
(***************************************************************************)
(* Which correction governs, and through which bindings: the tables        *)
(* corrections, correction_revisions, qualifications, promotions (with     *)
(* promotion_authorizations), injection_bindings and outbox, the triggers  *)
(* on them (migration 0001, 0003) and the authorizer's functions           *)
(* (migrations 0003, 0005).                                                *)
(*                                                                         *)
(* Every operation locks the correction row, or the promotion row and then *)
(* the correction row, before it decides (FOR UPDATE), and its triggers    *)
(* run in the same transaction; so an operation is one step.  One that     *)
(* raises, or loses a deadlock, changes nothing and is no step.            *)
(*                                                                         *)
(* A revision's digest is a function of (correction, revision), so that    *)
(* pair, a subject, also stands for exact_subject_digest; and a revision   *)
(* has at most one promotion (UNIQUE), so the subject also stands for the  *)
(* promotion id.                                                           *)
(***************************************************************************)
EXTENDS Naturals, FiniteSets

CONSTANTS Correction,    \* correction ids
          Incident,
          incidentOf,    \* incidentOf[c]: the incident c belongs to
          MaxRevision,   \* bound: revisions per correction
          MaxSubjects,   \* bound: revisions of all corrections together
          Irreversible,  \* the subjects whose revision has reversible = false
          Binding,       \* binding ids
          Adapter,       \* adapter names
          Digest,        \* selector digests, which the caller supplies
          Selector,      \* the selectors and scopes in use: sets of the
                         \*   key/value pairs they require; more are narrower
          MaxTime,       \* bound: the last instant of the clock
          NoSubject, NoPromotion, NoBinding

Subject == Correction \X (1..MaxRevision)

\* expires_at; NULL is Never, later than the clock ever shows.
Never == MaxTime + 1
Instant == 0..Never

Promotion == [scope : Selector \ {{}}, revoked : BOOLEAN]

BindingRow == [subject : Subject, adapter : Adapter, selector : Selector \ {{}},
               digest : Digest, expires : Instant, active : BOOLEAN]

ASSUME AuthorityAssumption ==
    /\ IsFiniteSet(Correction)
    /\ incidentOf \in [Correction -> Incident]
    /\ MaxRevision \in Nat /\ MaxSubjects \in Nat /\ MaxTime \in Nat
    /\ Irreversible \subseteq Subject
    /\ NoSubject \notin Subject
    /\ NoPromotion \notin Promotion
    /\ NoBinding \notin BindingRow

VARIABLES revision,    \* corrections.current_revision; 0 before the first one
          status,      \* corrections.status
          supersedes,  \* supersedes[s]: the subject that revision s replaces
          qualified,   \* the subjects with PASS qualification evidence
          promotion,   \* promotion[s]: the promotion of s, or NoPromotion
          binding,     \* binding[b]: its row, or NoBinding
          outbox,      \* the outbox rows, by idempotency key
          now

vars == <<revision, status, supersedes, qualified, promotion, binding, outbox, now>>

\* The statuses the functions below give a correction; the CHECK allows more.
CorrectionStatus == {"CORRECTION_PROPOSED", "ACTIVE", "SUPERSEDED", "REVOKED"}

OutboxKey == {"superseded", "promoted", "revoked"} \X Subject

TypeOK ==
    /\ revision \in [Correction -> 0..MaxRevision]
    /\ status \in [Correction -> CorrectionStatus]
    /\ supersedes \in [Subject -> Subject \cup {NoSubject}]
    /\ qualified \subseteq Subject
    /\ promotion \in [Subject -> Promotion \cup {NoPromotion}]
    /\ binding \in [Binding -> BindingRow \cup {NoBinding}]
    /\ outbox \subseteq OutboxKey
    /\ now \in 0..MaxTime

Init ==
    /\ revision = [c \in Correction |-> 0]
    /\ status = [c \in Correction |-> "CORRECTION_PROPOSED"]
    /\ supersedes = [s \in Subject |-> NoSubject]
    /\ qualified = {}
    /\ promotion = [s \in Subject |-> NoPromotion]
    /\ binding = [b \in Binding |-> NoBinding]
    /\ outbox = {}
    /\ now = 0

-----------------------------------------------------------------------------
Current(c) == <<c, revision[c]>>

IsCurrent(s) == s[2] = revision[s[1]]

Exists(s) == s[2] <= revision[s[1]]

\* Whether n, the next revision of a correction, is within the bounds.
Mintable(n) == n \in Subject /\ Cardinality({s \in Subject : Exists(s)}) < MaxSubjects

Terminal(c) == status[c] \in {"SUPERSEDED", "REVOKED", "REJECTED"}

\* The corrections that the current revisions of those in S supersede.
SupersededBy(S) ==
    {d \in Correction : \E e \in S : /\ revision[e] > 0
                                     /\ supersedes[Current(e)] # NoSubject
                                     /\ supersedes[Current(e)][1] = d}

\* The corrections superseded from c on, along current revisions: the
\* recursive query of the cycle check.
Chain(c) ==
    LET reach[n \in 0..Cardinality(Correction)] ==
            IF n = 0 THEN {c} ELSE reach[n - 1] \cup SupersededBy(reach[n - 1])
    IN reach[Cardinality(Correction)]

Promoted(s) == promotion[s] # NoPromotion

Deactivated(row) == [row EXCEPT !.active = FALSE]

\* The bindings table with those of subject s deactivated.
WithoutBindingsOf(s) ==
    [b \in Binding |-> IF binding[b] # NoBinding /\ binding[b].subject = s
                       THEN Deactivated(binding[b]) ELSE binding[b]]

selector_valid(sel) == sel # {}

selector_within_scope(sel, scope) ==
    selector_valid(sel) /\ selector_valid(scope) /\ scope \subseteq sel

\* The view active_injection_bindings.
Effective(b) ==
    /\ binding[b] # NoBinding
    /\ LET row == binding[b] IN
       /\ row.active
       /\ ~promotion[row.subject].revoked
       /\ row.expires > now
       /\ IsCurrent(row.subject)
       /\ status[row.subject[1]] = "ACTIVE"

-----------------------------------------------------------------------------
(* INSERT INTO correction_revisions, with its two triggers.                *)

\* A superseded correction whose bindings go, while its status stays.
insert_revision_keeping_status(c, s) ==
    LET n == <<c, revision[c] + 1>> IN
    /\ Mintable(n)
    /\ ~Terminal(c)
    /\ s # NoSubject => /\ s[1] # c /\ incidentOf[s[1]] = incidentOf[c]
                        /\ IsCurrent(s) /\ c \notin Chain(s[1])
                        /\ <<"superseded", s>> \notin outbox
    /\ revision' = [revision EXCEPT ![c] = @ + 1]
    /\ supersedes' = [supersedes EXCEPT ![n] = s]
    /\ status' = [status EXCEPT ![c] = "CORRECTION_PROPOSED"]
    /\ binding' = WithoutBindingsOf(s)
    /\ outbox' = outbox \cup (IF s = NoSubject THEN {} ELSE {<<"superseded", s>>})
    /\ UNCHANGED <<qualified, promotion, now>>

\* A supersession recorded without the unique outbox key.
insert_revision_superseding_again(c, s) ==
    LET n == <<c, revision[c] + 1>> IN
    /\ Mintable(n)
    /\ ~Terminal(c)
    /\ s # NoSubject => /\ s[1] # c /\ incidentOf[s[1]] = incidentOf[c]
                        /\ IsCurrent(s) /\ c \notin Chain(s[1])
    /\ revision' = [revision EXCEPT ![c] = @ + 1]
    /\ supersedes' = [supersedes EXCEPT ![n] = s]
    /\ status' = [d \in Correction |->
                    IF d = c THEN "CORRECTION_PROPOSED"
                    ELSE IF s # NoSubject /\ d = s[1] THEN "SUPERSEDED" ELSE status[d]]
    /\ binding' = WithoutBindingsOf(s)
    /\ outbox' = outbox \cup (IF s = NoSubject THEN {} ELSE {<<"superseded", s>>})
    /\ UNCHANGED <<qualified, promotion, now>>

\* What a supersession of s by c is refused for; the outbox row it writes has
\* a unique key, so a subject is superseded once.
MaySupersede(c, s) ==
    /\ s[1] # c
    /\ incidentOf[s[1]] = incidentOf[c]
    /\ IsCurrent(s)
    /\ c \notin Chain(s[1])
    /\ <<"superseded", s>> \notin outbox

\* The next revision of c, which may supersede s (or NoSubject).
insert_correction_revision(c, s) ==
    LET n == <<c, revision[c] + 1>> IN
    /\ Mintable(n)
    /\ ~Terminal(c)
    /\ revision' = [revision EXCEPT ![c] = @ + 1]
    /\ supersedes' = [supersedes EXCEPT ![n] = s]
    /\ \/ /\ s = NoSubject
          /\ status' = [status EXCEPT ![c] = "CORRECTION_PROPOSED"]
          /\ UNCHANGED <<binding, outbox>>
       \/ /\ s # NoSubject
          /\ MaySupersede(c, s)
          /\ status' = [status EXCEPT ![c] = "CORRECTION_PROPOSED",
                                      ![s[1]] = "SUPERSEDED"]
          /\ binding' = WithoutBindingsOf(s)
          /\ outbox' = outbox \cup {<<"superseded", s>>}
    /\ UNCHANGED <<qualified, promotion, now>>

\* PASS evidence for any existing revision.  FAIL evidence changes nothing:
\* no later decision looks at it.
qualify(s) ==
    /\ Exists(s)
    /\ s \notin qualified
    /\ qualified' = qualified \cup {s}
    /\ UNCHANGED <<revision, status, supersedes, promotion, binding, outbox, now>>

\* Any object accepted as an activation scope.
authorize_any_scope(s, scope, acknowledged) ==
    /\ IsCurrent(s)
    /\ ~Terminal(s[1])
    /\ s \in qualified
    /\ ~Promoted(s)
    /\ promotion' = [promotion EXCEPT ![s] = [scope |-> scope, revoked |-> FALSE]]
    /\ status' = [status EXCEPT ![s[1]] = "ACTIVE"]
    /\ outbox' = outbox \cup {<<"promoted", s>>}
    /\ UNCHANGED <<revision, supersedes, qualified, binding, now>>

\* authorize_and_promote: the authorization artifact and the promotion it
\* allows, in one transaction, with the promotion triggers.
authorize_and_promote(s, scope, acknowledged) ==
    /\ selector_valid(scope)
    /\ IsCurrent(s)
    /\ ~Terminal(s[1])
    /\ s \in Irreversible => acknowledged
    /\ s \in qualified
    /\ ~Promoted(s)
    /\ promotion' = [promotion EXCEPT ![s] = [scope |-> scope, revoked |-> FALSE]]
    /\ status' = [status EXCEPT ![s[1]] = "ACTIVE"]
    /\ outbox' = outbox \cup {<<"promoted", s>>}
    /\ UNCHANGED <<revision, supersedes, qualified, binding, now>>

\* create_authorized_binding, and create_versioned_authorized_binding, which
\* adds the adapter version to the row it creates.  Unique is the digest the
\* caller gives, whatever the selector; and the expiry is compared with now(),
\* the start of a transaction that may have waited for the locks since.
create_authorized_binding(b, s, a, sel, d, t) ==
    /\ binding[b] = NoBinding
    /\ Promoted(s)
    /\ ~promotion[s].revoked
    /\ status[s[1]] = "ACTIVE"
    /\ IsCurrent(s)
    /\ selector_within_scope(sel, promotion[s].scope)
    /\ \E began \in 0..now : t > began
    /\ ~\E o \in Binding : /\ binding[o] # NoBinding
                           /\ binding[o].subject = s
                           /\ binding[o].adapter = a
                           /\ binding[o].digest = d
    /\ binding' = [binding EXCEPT ![b] =
                     [subject |-> s, adapter |-> a, selector |-> sel, digest |-> d,
                      expires |-> t, active |-> TRUE]]
    /\ UNCHANGED <<revision, status, supersedes, qualified, promotion, outbox, now>>

\* A restriction to any expiry.
restrict_to_any_expiry(b, deactivate, t) ==
    /\ binding[b] # NoBinding
    /\ deactivate \/ t # Never
    /\ binding' = [binding EXCEPT ![b].active = @ /\ ~deactivate,
                                  ![b].expires = IF t = Never THEN @ ELSE t]
    /\ UNCHANGED <<revision, status, supersedes, qualified, promotion, outbox, now>>

\* restrict_injection_binding: deactivate, or move the expiry earlier, or
\* both; t = Never stands for no new expiry.
restrict_injection_binding(b, deactivate, t) ==
    /\ binding[b] # NoBinding
    /\ deactivate \/ t # Never
    /\ t # Never => t <= binding[b].expires
    /\ binding' = [binding EXCEPT ![b].active = @ /\ ~deactivate,
                                  ![b].expires = IF t = Never THEN @ ELSE t]
    /\ UNCHANGED <<revision, status, supersedes, qualified, promotion, outbox, now>>

\* A revocation that takes the correction down whatever its revision.
revoke_whole_correction(s) ==
    /\ binding' = WithoutBindingsOf(s)
    /\ status' = [status EXCEPT ![s[1]] = "REVOKED"]
    /\ outbox' = outbox \cup {<<"revoked", s>>}

\* The trigger: the correction is revoked with its current promotion only.
promotion_revocation_effects(s) ==
    /\ binding' = WithoutBindingsOf(s)
    /\ status' = IF IsCurrent(s) THEN [status EXCEPT ![s[1]] = "REVOKED"] ELSE status
    /\ outbox' = outbox \cup {<<"revoked", s>>}

revoke_authorized_promotion(s) ==
    /\ Promoted(s)
    /\ ~promotion[s].revoked
    /\ promotion' = [promotion EXCEPT ![s].revoked = TRUE]
    /\ promotion_revocation_effects(s)
    /\ UNCHANGED <<revision, supersedes, qualified, now>>

Tick ==
    /\ now < MaxTime
    /\ now' = now + 1
    /\ UNCHANGED <<revision, status, supersedes, qualified, promotion, binding, outbox>>

Next ==
    \/ \E c \in Correction, s \in Subject \cup {NoSubject} :
          insert_correction_revision(c, s)
    \/ \E s \in Subject :
          \/ qualify(s)
          \/ \E scope \in Selector, ack \in BOOLEAN :
                authorize_and_promote(s, scope, ack)
          \/ \E b \in Binding, a \in Adapter, sel \in Selector, d \in Digest,
                t \in Instant : create_authorized_binding(b, s, a, sel, d, t)
          \/ revoke_authorized_promotion(s)
    \/ \E b \in Binding, deactivate \in BOOLEAN, t \in Instant :
          restrict_injection_binding(b, deactivate, t)
    \/ Tick

Spec == Init /\ [][Next]_vars

-----------------------------------------------------------------------------
(* Properties                                                              *)

\* What the runtime may execute under is what was authorized: a binding in
\* the view belongs to a subject with PASS evidence, selects no more than its
\* authorized scope, and belongs to a subject that nothing has superseded,
\* although evidence, promotion, binding and supersession are separate calls.
EffectiveIsAuthorized ==
    \A b \in Binding : Effective(b) =>
        LET s == binding[b].subject IN
        /\ s \in qualified
        /\ promotion[s].scope \subseteq binding[b].selector
        /\ \A r \in Subject : supersedes[r] # s

\* The tables as the runtime sees them: bindings that enter the view and leave
\* it for good.
Standing ==
    [b \in Binding |-> IF binding[b] = NoBinding THEN "absent"
                       ELSE IF Effective(b) THEN "live" ELSE "dark"]

View == INSTANCE BindingView WITH standing <- Standing

\* The authority tables implement the view: every statement, and every instant
\* that passes, shows there as one binding that enters, several that leave, or
\* nothing.  So authority never comes back: a binding that was revoked,
\* superseded, revised over, restricted or expired never enters it again.
ImplementsBindingView == View!BindingViewSpec

\* Supersession is a chain: a subject is replaced by at most one other, and
\* no correction replaces itself through others.
SupersessionIsChain ==
    /\ \A r, s \in Subject :
          supersedes[r] = supersedes[s] /\ supersedes[r] # NoSubject => r = s
    /\ \A c \in Correction : revision[c] > 0 /\ supersedes[Current(c)] # NoSubject
          => c \notin Chain(supersedes[Current(c)][1])

\* The outbox tells the whole story: a consumer that replays its rows alone
\* agrees with the database about which current revisions are active.
Replayed ==
    {s \in Subject : /\ <<"promoted", s>> \in outbox
                     /\ <<"revoked", s>> \notin outbox
                     /\ <<"superseded", s>> \notin outbox}

OutboxTellsWhatIsActive ==
    \A s \in Subject :
        IsCurrent(s) => (s \in Replayed <=> status[s[1]] = "ACTIVE")

\* SUPERSEDED and REVOKED are terminal (state.py allows no transition out).
TerminalStatusStays ==
    [][\A c \in Correction : Terminal(c) => status'[c] = status[c]]_vars
=============================================================================
