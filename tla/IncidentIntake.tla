---------------------------- MODULE IncidentIntake ----------------------------
(***************************************************************************)
(* Incident intake in the database, statement by statement: concurrent     *)
(* calls of record_incident_occurrence (migration 0004) and                *)
(* record_event_idempotent (0001), each a transaction under READ           *)
(* COMMITTED.  A statement sees what was committed before it; a lock and   *)
(* a unique index make it wait for the transaction that is in its way; a   *)
(* transaction may end at any point without a trace.  The wait of an event *)
(* for the lock on its incident (its foreign key) changes no answer and is *)
(* left out.                                                               *)
(***************************************************************************)
EXTENDS Naturals, Sequences, FiniteSetsExt

CONSTANTS Proc,            \* concurrent database sessions
          Incident, Content, Key, NoKey,
          MaxTime,         \* bound: observation times
          MaxOccurrences,  \* bound: occurrence rows
          MaxEvents,       \* bound: event rows
          Nothing          \* no argument

ASSUME IntakeAssumption == MaxTime \in Nat

EventEffect == [incident : Incident, content : Content]

Occurrence == [incident : Incident, ordinal : Nat \ {0}, content : Content,
               time : 0..MaxTime]

EventRow == [key : Key \cup {NoKey}, effect : EventEffect]

VARIABLES summary,   \* summary[i]: the row of incident i with its times
                     \*   first and last seen, or absent
          rows,      \* incident_occurrences, committed
          eventRows, \* events, committed, in commit order
          pc,        \* pc[p]: the next statement of p's call, or its answer
          arg,       \* arg[p]: the row that p's call is to insert
          locked     \* locked[i]: the sessions that hold the lock on row i

tables == <<summary, rows, eventRows>>
intakeVars == <<tables, pc, arg, locked>>

Absent == [count |-> 0, first |-> 0, last |-> 0]

RowsOf(i) == {r \in rows : r.incident = i}

Exists(i) == summary[i] # Absent

Ended == {"idle", "recorded", "conflict", "answered", "refused"}

IntakeTypeOK ==
    /\ summary \in [Incident -> [count : Nat, first : 0..MaxTime, last : 0..MaxTime]]
    /\ rows \subseteq Occurrence
    /\ eventRows \in Seq(EventRow)
    /\ pc \in [Proc -> Ended \cup {"ordinal", "insert", "summary", "commit",
                                   "event", "draft", "reread"}]
    /\ arg \in [Proc -> {Nothing} \cup EventRow
                          \cup [incident : Incident, ordinal : Nat,
                                content : Content, time : 0..MaxTime]]
    /\ locked \in [Incident -> SUBSET Proc]
    /\ \A i \in Incident : Cardinality(locked[i]) <= 1

IntakeInit ==
    /\ summary = [i \in Incident |-> Absent]
    /\ rows = {}
    /\ eventRows = <<>>
    /\ pc = [p \in Proc |-> "idle"]
    /\ arg = [p \in Proc |-> Nothing]
    /\ locked = [i \in Incident |-> {}]

-----------------------------------------------------------------------------
Step(p, l, a) ==
    /\ pc' = [pc EXCEPT ![p] = l]
    /\ arg' = [arg EXCEPT ![p] = a]

At(p, l) == pc[p] = l

Unlocked(p) == [i \in Incident |-> locked[i] \ {p}]

\* INSERT INTO incidents, by the columns the runtime role may give; the rest
\* are the defaults: a count of one, and the time t of the insertion.
insert_incident(i, t) ==
    /\ ~Exists(i)
    /\ summary' = [summary EXCEPT ![i] = [count |-> 1, first |-> t, last |-> t]]
    /\ UNCHANGED <<rows, eventRows, pc, arg, locked>>

-----------------------------------------------------------------------------
(* record_incident_occurrence.                                             *)

\* No lock: the incident is only looked up.
look_up_incident(p, i, x, t) ==
    /\ pc[p] \in Ended
    /\ Exists(i)
    /\ Cardinality(rows) < MaxOccurrences
    /\ Step(p, "ordinal", [incident |-> i, ordinal |-> 0, content |-> x, time |-> t])
    /\ UNCHANGED <<tables, locked>>

\* A lock that others may share: FOR SHARE.
share_incident(p, i, x, t) ==
    /\ pc[p] \in Ended
    /\ Exists(i)
    /\ Cardinality(rows) < MaxOccurrences
    /\ locked' = [locked EXCEPT ![i] = @ \cup {p}]
    /\ Step(p, "ordinal", [incident |-> i, ordinal |-> 0, content |-> x, time |-> t])
    /\ UNCHANGED tables

\* SELECT ... FROM incidents FOR UPDATE.
lock_incident(p, i, x, t) ==
    /\ pc[p] \in Ended
    /\ Exists(i)
    /\ Cardinality(rows) < MaxOccurrences
    /\ locked[i] = {}
    /\ locked' = [locked EXCEPT ![i] = {p}]
    /\ Step(p, "ordinal", [incident |-> i, ordinal |-> 0, content |-> x, time |-> t])
    /\ UNCHANGED tables

\* SELECT max(ordinal) + 1.
next_ordinal(p) ==
    /\ At(p, "ordinal")
    /\ LET i == arg[p].incident IN
       Step(p, "insert", [arg[p] EXCEPT !.ordinal =
                            Max({0} \cup {r.ordinal : r \in RowsOf(i)}) + 1])
    /\ UNCHANGED <<tables, locked>>

SameOrdinal(r, s) == r.incident = s.incident /\ r.ordinal = s.ordinal

\* INSERT INTO incident_occurrences, under UNIQUE (incident_id, ordinal).
insert_occurrence(p) ==
    /\ At(p, "insert")
    /\ \/ /\ \E r \in rows : SameOrdinal(r, arg[p])
          /\ Step(p, "conflict", Nothing)
          /\ locked' = Unlocked(p)
       \/ /\ ~\E r \in rows : SameOrdinal(r, arg[p])
          /\ \A q \in Proc : pc[q] \in {"summary", "commit"} => ~SameOrdinal(arg[q], arg[p])
          /\ Step(p, "summary", arg[p])
          /\ UNCHANGED locked
    /\ UNCHANGED tables

\* UPDATE incidents, which takes the row lock if it is not held yet.
update_summary(p) ==
    /\ At(p, "summary")
    /\ locked[arg[p].incident] \subseteq {p}
    /\ locked' = [locked EXCEPT ![arg[p].incident] = {p}]
    /\ Step(p, "commit", arg[p])
    /\ UNCHANGED tables

\* The last report decides when the incident was last seen.
commit_last_reported(p) ==
    /\ At(p, "commit")
    /\ rows' = rows \cup {arg[p]}
    /\ summary' = [summary EXCEPT ![arg[p].incident].count = arg[p].ordinal,
                                  ![arg[p].incident].last = arg[p].time]
    /\ locked' = Unlocked(p)
    /\ Step(p, "recorded", Nothing)
    /\ UNCHANGED eventRows

\* The end of the transaction: its row and its update become visible.
commit_occurrence(p) ==
    /\ At(p, "commit")
    /\ rows' = rows \cup {arg[p]}
    /\ summary' = [summary EXCEPT ![arg[p].incident].count = arg[p].ordinal,
                                  ![arg[p].incident].last = Max({@, arg[p].time})]
    /\ locked' = Unlocked(p)
    /\ Step(p, "recorded", Nothing)
    /\ UNCHANGED eventRows

-----------------------------------------------------------------------------
(* record_event_idempotent.                                                *)

Holding(k) == {n \in 1..Len(eventRows) : eventRows[n].key = k}

\* The comparison with the row that holds the key: return it or raise.
Compare(p, a) ==
    LET n == CHOOSE n \in Holding(a.key) : TRUE IN
    Step(p, IF eventRows[n].effect = a.effect THEN "answered" ELSE "refused", a)

\* An event without a key is inserted and that is all; one with a key is
\* looked up first (SELECT ... FOR SHARE).
record_event(p, k, e) ==
    /\ pc[p] \in Ended
    /\ Exists(e.incident)
    /\ Len(eventRows) < MaxEvents
    /\ LET a == [key |-> k, effect |-> e] IN
       \/ /\ k = NoKey
          /\ eventRows' = Append(eventRows, a)
          /\ Step(p, "idle", Nothing)
       \/ /\ k # NoKey /\ Holding(k) = {}
          /\ Step(p, "event", a)
          /\ UNCHANGED eventRows
       \/ /\ k # NoKey /\ Holding(k) # {}
          /\ Compare(p, a)
          /\ UNCHANGED eventRows
    /\ UNCHANGED <<summary, rows, locked>>

\* Without the unique index: the key was free when it was looked up.
insert_event_unindexed(p) ==
    /\ At(p, "event")
    /\ Step(p, "draft", arg[p])
    /\ UNCHANGED <<tables, locked>>

\* INSERT INTO events under the unique index on the key: wait for another
\* session that has inserted the key, fail if one has committed it.
insert_event(p) ==
    /\ At(p, "event")
    /\ \/ Holding(arg[p].key) # {} /\ Step(p, "reread", arg[p])
       \/ /\ Holding(arg[p].key) = {}
          /\ \A q \in Proc : At(q, "draft") => arg[q].key # arg[p].key
          /\ Step(p, "draft", arg[p])
    /\ UNCHANGED <<tables, locked>>

commit_event(p) ==
    /\ At(p, "draft")
    /\ eventRows' = Append(eventRows, arg[p])
    /\ Step(p, "answered", arg[p])
    /\ UNCHANGED <<summary, rows, locked>>

\* The loser of the race answers with the winner's row as it is.
reread_without_comparison(p) ==
    /\ At(p, "reread")
    /\ Step(p, "answered", arg[p])
    /\ UNCHANGED <<tables, locked>>

\* EXCEPTION WHEN unique_violation: the winner's row is read and compared.
reread_event(p) ==
    /\ At(p, "reread")
    /\ Compare(p, arg[p])
    /\ UNCHANGED <<tables, locked>>

\* The session dies or its transaction is aborted: nothing of it remains.
Rollback(p) ==
    /\ pc[p] \notin Ended
    /\ Step(p, "idle", Nothing)
    /\ locked' = Unlocked(p)
    /\ UNCHANGED tables

IntakeNext ==
    \/ \E i \in Incident, t \in 0..MaxTime : insert_incident(i, t)
    \/ \E p \in Proc :
        \/ \E i \in Incident, x \in Content, t \in 0..MaxTime : lock_incident(p, i, x, t)
        \/ next_ordinal(p) \/ insert_occurrence(p) \/ update_summary(p)
        \/ commit_occurrence(p)
        \/ \E k \in Key \cup {NoKey}, e \in EventEffect : record_event(p, k, e)
        \/ insert_event(p) \/ commit_event(p) \/ reread_event(p)
        \/ Rollback(p)

IntakeSpec == IntakeInit /\ [][IntakeNext]_intakeVars

-----------------------------------------------------------------------------
(* Properties                                                              *)

\* However calls overlap and die, the occurrences of an incident are numbered
\* without a gap, and its row tells how many there are and when the latest
\* observation was made, also if reports arrive late; or when the row itself was
\* inserted, if that is later than all of them.
SummaryTellsOccurrences ==
    \A i \in Incident : Exists(i) =>
        LET n == Cardinality(RowsOf(i)) IN
        /\ {r.ordinal : r \in RowsOf(i)} = 1..n
        /\ summary[i].count = Max({1, n})
        /\ summary[i].last = Max({summary[i].first} \cup {r.time : r \in RowsOf(i)})

\* The lock on the incident comes before the ordinal is read, so a report is
\* never refused because somebody else reported at the same time.
NoReportIsRefused == \A p \in Proc : ~At(p, "conflict")

\* Whoever loses the race for a key is told the truth: a call is answered only
\* if the key's event is the one it asked for, and refused only if it is not.
AnswersAreHonest ==
    \A p \in Proc :
        /\ At(p, "answered") => \E n \in Holding(arg[p].key) :
                                   eventRows[n].effect = arg[p].effect
        /\ At(p, "refused") => \E n \in Holding(arg[p].key) :
                                   eventRows[n].effect # arg[p].effect

\* The tables as the reference ledger would hold them.
Opened == {i \in Incident : Exists(i)}

Payloads ==
    [i \in Incident |->
       [n \in 1..Cardinality(RowsOf(i)) |->
          (CHOOSE r \in RowsOf(i) : r.ordinal = n).content]]

Log == INSTANCE IncidentLog WITH
    known <- Opened, occurrences <- Payloads, eventLog <- eventRows

\* The concurrent transactions have no effect but that of the reference
\* ledger's operations, one at a time, each at its commit.
ImplementsIncidentLog == Log!LogSpec
=============================================================================
