------------------------ MODULE ReferenceFileInjector ------------------------
(***************************************************************************)
(* ReferenceFileInjector (reference_adapter.py) at one target directory:   *)
(*   versions/<digest>.json, operations/<operation id>.json, current.json. *)
(* Each file is replaced atomically; execute() replaces three of them and  *)
(* rollback() reads two before it replaces one, with no lock, so other     *)
(* calls and crashes may come between.                                     *)
(*                                                                         *)
(* An operation id determines the effect digest (execute() refuses an id   *)
(* reused for another one), so a pointer or a version record is the id of  *)
(* the operation that wrote it.                                            *)
(***************************************************************************)
EXTENDS Naturals

CONSTANTS Proc,      \* concurrent callers of the injector
          Op,        \* operation ids
          Digest,    \* effect digests
          digestOf,  \* digestOf[o]: the effect digest of operation o
          NoOp       \* an absent file, or null

ASSUME InjectorAssumption ==
    /\ digestOf \in [Op -> Digest]
    /\ NoOp \notin Op

Pointer == Op \cup {NoOp}

NoReceipt == [written |-> FALSE, previous |-> NoOp]

VARIABLES version,   \* version[d]: operation recorded in versions/<d>.json
          receipt,   \* receipt[o]: operations/<o>.json, with previous_current
          current,   \* operation named by current.json
          pc,        \* pc[p]: the next file access of p's call, or its answer
          arg,       \* arg[p]: the operation p's call is about
          seen,      \* seen[p]: the current pointer p has read
          before,    \* history: what the pointer was when o became current
          undone,    \* history: operations rolled back
          intact     \* history: when p's readback read the pointer, was the
                     \*   version file the one its operation had written?

files == <<version, receipt, current>>
locals == <<pc, arg, seen>>
history == <<before, undone, intact>>
vars == <<files, locals, history>>

TypeOK ==
    /\ version \in [Digest -> Pointer]
    /\ receipt \in [Op -> [written : BOOLEAN, previous : Pointer]]
    /\ current \in Pointer
    /\ pc \in [Proc -> {"idle", "version", "receipt", "current", "check",
                        "VERIFIED", "FAILED", "AMBIGUOUS", "restore"}]
    /\ arg \in [Proc -> Pointer]
    /\ seen \in [Proc -> Pointer]
    /\ before \in [Op -> Pointer]
    /\ undone \subseteq Op
    /\ intact \in [Proc -> BOOLEAN]

Init ==
    /\ version = [d \in Digest |-> NoOp]
    /\ receipt = [o \in Op |-> NoReceipt]
    /\ current = NoOp
    /\ pc = [p \in Proc |-> "idle"]
    /\ arg = [p \in Proc |-> NoOp]
    /\ seen = [p \in Proc |-> NoOp]
    /\ before = [o \in Op |-> NoOp]
    /\ undone = {}
    /\ intact = [p \in Proc |-> FALSE]

-----------------------------------------------------------------------------
At(p, l) == pc[p] = l

Call(p, l, o, c) ==
    /\ pc' = [pc EXCEPT ![p] = l]
    /\ arg' = [arg EXCEPT ![p] = o]
    /\ seen' = [seen EXCEPT ![p] = c]

Return(p) == Call(p, "idle", NoOp, NoOp)

\* current.json names an effect with the digest of operation o.
ShowsEffectOf(o) == current # NoOp /\ digestOf[current] = digestOf[o]

Executing(p) == pc[p] \in {"version", "receipt", "current"}

\* execute(), no receipt yet: the pointer is read before anything is written.
\* With a receipt the call writes nothing, replay or error.  No two calls
\* execute one operation at once: the coordinator dispatches it once.
BeginExecute(p, o) ==
    /\ At(p, "idle")
    /\ ~\E q \in Proc : Executing(q) /\ arg[q] = o
    /\ ~receipt[o].written
    /\ Call(p, "version", o, current)
    /\ UNCHANGED <<files, history>>

WriteVersion(p) ==
    /\ At(p, "version")
    /\ version' = [version EXCEPT ![digestOf[arg[p]]] = arg[p]]
    /\ Call(p, "receipt", arg[p], seen[p])
    /\ UNCHANGED <<receipt, current, history>>

\* The pointer moved before the receipt that allows to undo it exists.
WriteCurrentFirst(p) ==
    /\ At(p, "receipt")
    /\ current' = arg[p]
    /\ before' = [before EXCEPT ![arg[p]] = current]
    /\ Return(p)
    /\ UNCHANGED <<version, receipt, undone, intact>>

\* A receipt that keeps the digest of the previous effect, not the pointer.
WriteReceiptDigest(p) ==
    /\ At(p, "receipt")
    /\ receipt' = [receipt EXCEPT
                     ![arg[p]] = [written |-> TRUE,
                                  previous |-> IF seen[p] = NoOp THEN NoOp
                                               ELSE digestOf[seen[p]]]]
    /\ Call(p, "current", arg[p], seen[p])
    /\ UNCHANGED <<version, current, history>>

WriteReceipt(p) ==
    /\ At(p, "receipt")
    /\ receipt' = [receipt EXCEPT
                     ![arg[p]] = [written |-> TRUE, previous |-> seen[p]]]
    /\ Call(p, "current", arg[p], seen[p])
    /\ UNCHANGED <<version, current, history>>

WriteCurrent(p) ==
    /\ At(p, "current")
    /\ current' = arg[p]
    /\ before' = [before EXCEPT ![arg[p]] = current]
    /\ Return(p)
    /\ UNCHANGED <<version, receipt, undone, intact>>

-----------------------------------------------------------------------------
\* readback() by digest: a missing or different pointer is FAILED, otherwise
\* the version file is opened next.
BeginReadback(p, o) ==
    /\ At(p, "idle")
    /\ Call(p, IF ShowsEffectOf(o) THEN "check" ELSE "FAILED", o, current)
    /\ intact' = [intact EXCEPT
                    ![p] = current # NoOp /\ version[digestOf[current]] = current]
    /\ UNCHANGED <<files, before, undone>>

\* A readback that settles for an existing version file.
AcceptAnyVersion(p) ==
    /\ At(p, "check")
    /\ Call(p, "VERIFIED", arg[p], seen[p])
    /\ UNCHANGED <<files, history>>

\* The version file must be the one the pointer's operation wrote.
CheckVersion(p) ==
    /\ At(p, "check")
    /\ Call(p, IF version[digestOf[seen[p]]] = seen[p]
               THEN "VERIFIED" ELSE "AMBIGUOUS", arg[p], seen[p])
    /\ UNCHANGED <<files, history>>

\* The caller takes the answer.
EndReadback(p) ==
    /\ pc[p] \in {"VERIFIED", "FAILED", "AMBIGUOUS"}
    /\ Return(p)
    /\ UNCHANGED <<files, history>>

\* rollback(): refused unless the pointer shows an effect of the same digest.
BeginRollback(p, o) ==
    /\ At(p, "idle")
    /\ receipt[o].written
    /\ ShowsEffectOf(o)
    /\ Call(p, "restore", o, current)
    /\ UNCHANGED <<files, history>>

\* unlink when there was no previous pointer, otherwise write it back.
Restore(p) ==
    /\ At(p, "restore")
    /\ current' = receipt[arg[p]].previous
    /\ undone' = undone \cup {arg[p]}
    /\ Return(p)
    /\ UNCHANGED <<version, receipt, before, intact>>

\* The process dies; the files stay as they are.
Crash(p) ==
    /\ ~At(p, "idle")
    /\ Return(p)
    /\ UNCHANGED <<files, history>>

Next ==
    \E p \in Proc :
        \/ \E o \in Op :
              BeginExecute(p, o) \/ BeginReadback(p, o) \/ BeginRollback(p, o)
        \/ WriteVersion(p)
        \/ WriteReceipt(p)
        \/ WriteCurrent(p)
        \/ CheckVersion(p)
        \/ EndReadback(p)
        \/ Restore(p)
        \/ Crash(p)

Spec == Init /\ [][Next]_vars

-----------------------------------------------------------------------------
(* Properties                                                              *)

\* Whatever crashes and interleavings: the pointer, and every pointer a
\* receipt would restore, leads to a version file with its effect and to the
\* receipt that undoes its operation.  So readback finds no version missing or of
\* another effect.  It may find one that another operation with the same effect
\* wrote, and then answers AMBIGUOUS: VersionsAreImmutable is about that.
PointersResolve ==
    LET Reachable == {current} \cup {receipt[o].previous : o \in Op} IN
    \A o \in Reachable \ {NoOp} :
        /\ receipt[o].written
        /\ version[digestOf[o]] # NoOp
        /\ digestOf[version[digestOf[o]]] = digestOf[o]

\* A VERIFIED readback amounts to one look at the target although it reads
\* two files that others replace meanwhile: already when it read the pointer,
\* the version file was the one the pointer's operation had written.
VerifiedReadIsAtomic ==
    \A p \in Proc : At(p, "VERIFIED") => intact[p]

\* "writes immutable versions and operation receipts": the version file of an
\* operation with a receipt stays the one it wrote, so that the pointer of a
\* completed operation can be verified whatever later calls do or leave undone.
VersionsAreImmutable ==
    [][\A o \in Op : receipt[o].written /\ version[digestOf[o]] = o
                      => version'[digestOf[o]] = o]_vars

\* "can restore the immediately prior pointer when no newer effect supersedes
\* it": only the operation that is current is rolled back, and what it had
\* replaced is current again.
RollbackRestoresPrior ==
    [][\A o \in undone' \ undone : current = o /\ current' = before[o]]_vars
=============================================================================
