------------------------------ MODULE IncidentLog ------------------------------
(***************************************************************************)
(* The incident half of InMemoryLedger (ledger.py), the reference          *)
(* semantics of incident intake: every submission leaves an occurrence of  *)
(* its own in the incident it collapses into, and an idempotency key       *)
(* stands for one event.  Every operation is one step.                     *)
(*                                                                         *)
(* An incident is identified by fingerprint and version; two submissions   *)
(* with the same pair are of the same incident.                            *)
(***************************************************************************)
EXTENDS Naturals, Sequences

CONSTANTS Incident,    \* incidents, by fingerprint and version
          Content,     \* payloads of occurrences and events
          Key,         \* idempotency keys
          NoKey        \* an event without one

\* What effect_digest covers (the event type is part of the content).
EventEffect == [incident : Incident, content : Content]

VARIABLES known,       \* the incidents that exist
          occurrences, \* occurrences[i]: payloads in the order of the ordinals
          eventLog     \* events in the order they were appended

logVars == <<known, occurrences, eventLog>>

LogInit ==
    /\ known = {}
    /\ occurrences = [i \in Incident |-> <<>>]
    /\ eventLog = <<>>

\* An incident without an occurrence yet: the INSERT INTO incidents of the
\* database, which submit_incident never leaves behind.
open_incident(i) ==
    /\ i \notin known
    /\ known' = known \cup {i}
    /\ UNCHANGED <<occurrences, eventLog>>

\* submit_incident and _record_occurrence; occurrence_count is the length.
submit_incident(i, x) ==
    /\ known' = known \cup {i}
    /\ occurrences' = [occurrences EXCEPT ![i] = Append(@, x)]
    /\ UNCHANGED eventLog

\* append_event when it appends: a key in use, for the same effect or another
\* one, changes nothing.
append_event(e, k) ==
    /\ e.incident \in known
    /\ k # NoKey => \A n \in 1..Len(eventLog) : eventLog[n].key # k
    /\ eventLog' = Append(eventLog, [key |-> k, effect |-> e])
    /\ UNCHANGED <<known, occurrences>>

LogNext ==
    \/ \E i \in Incident : open_incident(i)
    \/ \E i \in Incident, x \in Content : submit_incident(i, x)
    \/ \E e \in EventEffect, k \in Key \cup {NoKey} : append_event(e, k)

LogSpec == LogInit /\ [][LogNext]_logVars
=============================================================================
