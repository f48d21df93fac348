---------------------- MODULE ReferenceFileInjectorProofs ----------------------
(***************************************************************************)
(* The target directory of ReferenceFileInjector for any number of callers *)
(* and operations: every pointer resolves, and a verified readback is one  *)
(* look at the target.                                                     *)
(***************************************************************************)
EXTENDS ReferenceFileInjector, TLAPS

\* The receipt of o exists, and so does a version file for its digest.
Resolves(o) == receipt[o].written /\ version[digestOf[o]] # NoOp

\* versions/<d>.json records an operation with digest d.
VersionsMatch ==
    \A d \in Digest : version[d] # NoOp => digestOf[version[d]] = d

\* What each call has done by the time it is at its next file access.
CallsProgress ==
    \A p \in Proc :
        /\ ~At(p, "idle") => arg[p] \in Op
        /\ pc[p] \in {"version", "receipt"} => ~receipt[arg[p]].written
        /\ pc[p] \in {"receipt", "current"} => version[digestOf[arg[p]]] # NoOp
        /\ pc[p] \in {"current", "restore"} => receipt[arg[p]].written
        /\ At(p, "check") => seen[p] # NoOp

\* An operation is executed by one call at a time.
OneExecutor ==
    \A p, q \in Proc : Executing(p) /\ Executing(q) /\ arg[p] = arg[q] => p = q

\* Every pointer a call has read, and every one it could read, resolves.
AllResolve ==
    /\ current # NoOp => Resolves(current)
    /\ \A o \in Op : receipt[o].previous # NoOp => Resolves(receipt[o].previous)
    /\ \A p \in Proc : seen[p] # NoOp => Resolves(seen[p])

\* While a readback is between its two reads, the version file becomes that of
\* the pointer's operation only if it was that when the pointer was read.
ReadbackIsAtomic ==
    \A p \in Proc :
        At(p, "check") /\ version[digestOf[seen[p]]] = seen[p] => intact[p]

InjectorInv ==
    /\ TypeOK
    /\ VersionsMatch
    /\ CallsProgress
    /\ OneExecutor
    /\ AllResolve
    /\ ReadbackIsAtomic
    /\ VerifiedReadIsAtomic

-----------------------------------------------------------------------------
(* What a step does to a call and to the files.                            *)

LEMMA CallFacts ==
    ASSUME TypeOK, NEW p \in Proc, NEW l, NEW o, NEW c, Call(p, l, o, c)
    PROVE  /\ pc'[p] = l /\ arg'[p] = o /\ seen'[p] = c
           /\ \A q \in Proc : q # p => pc'[q] = pc[q] /\ arg'[q] = arg[q] /\ seen'[q] = seen[q]
BY DEF Call, TypeOK

\* The argument of a call that runs is an operation.
LEMMA ArgIsOp ==
    ASSUME TypeOK, CallsProgress, NEW p \in Proc, ~At(p, "idle")
    PROVE  /\ arg[p] \in Op /\ digestOf[arg[p]] \in Digest
           /\ arg[p] # NoOp
BY InjectorAssumption DEF CallsProgress

LEMMA InitInjectorInv == Init => InjectorInv
<1> SUFFICES ASSUME Init PROVE InjectorInv
  OBVIOUS
<1>1. TypeOK
  BY DEF Init, TypeOK, Pointer, NoReceipt
<1>2. VersionsMatch /\ CallsProgress /\ OneExecutor
  BY DEF Init, VersionsMatch, CallsProgress, OneExecutor, Executing, At
<1>3. AllResolve /\ ReadbackIsAtomic /\ VerifiedReadIsAtomic
  BY DEF Init, AllResolve, NoReceipt, ReadbackIsAtomic, VerifiedReadIsAtomic, At
<1> QED
  BY <1>1, <1>2, <1>3 DEF InjectorInv

LEMMA StepTyped == TypeOK /\ CallsProgress /\ [Next]_vars => TypeOK'
<1> SUFFICES ASSUME TypeOK, CallsProgress, [Next]_vars PROVE TypeOK'
  OBVIOUS
<1> DEFINE Labels == {"idle", "version", "receipt", "current", "check",
                      "VERIFIED", "FAILED", "AMBIGUOUS", "restore"}
<1>1. ASSUME NEW p \in Proc, NEW l \in Labels, NEW o \in Pointer, NEW c \in Pointer,
             Call(p, l, o, c)
      PROVE  /\ pc' \in [Proc -> Labels]
             /\ arg' \in [Proc -> Pointer] /\ seen' \in [Proc -> Pointer]
  BY <1>1 DEF Call, TypeOK
<1>2. ASSUME NEW p \in Proc PROVE seen[p] \in Pointer /\ arg[p] \in Pointer /\ NoOp \in Pointer
  BY <1>2 DEF TypeOK, Pointer
<1>3. \A o \in Op : o \in Pointer
  BY DEF Pointer
<1> HIDE DEF Labels
<1>4. {"idle", "version", "receipt", "current", "check",
       "VERIFIED", "FAILED", "AMBIGUOUS", "restore"} \subseteq Labels
  BY DEF Labels
<1>a. /\ version \in [Digest -> Pointer] /\ receipt \in [Op -> [written : BOOLEAN, previous : Pointer]]
      /\ current \in Pointer /\ before \in [Op -> Pointer]
      /\ undone \subseteq Op /\ intact \in [Proc -> BOOLEAN]
  BY DEF TypeOK
<1>b. ASSUME /\ version' \in [Digest -> Pointer]
             /\ receipt' \in [Op -> [written : BOOLEAN, previous : Pointer]]
             /\ current' \in Pointer /\ before' \in [Op -> Pointer]
             /\ undone' \subseteq Op /\ intact' \in [Proc -> BOOLEAN],
             pc' \in [Proc -> Labels], arg' \in [Proc -> Pointer], seen' \in [Proc -> Pointer]
      PROVE  TypeOK'
  BY <1>b DEF TypeOK, Labels
<1>5. ASSUME NEW p \in Proc, NEW o \in Op, BeginExecute(p, o) PROVE TypeOK'
  <2>1. Call(p, "version", o, current)
    BY <1>5 DEF BeginExecute
  <2> QED
    BY <1>1, <1>3, <1>4, <1>5, <1>a, <1>b, <2>1 DEF BeginExecute, files, history
<1>6. ASSUME NEW p \in Proc, NEW o \in Op, BeginReadback(p, o) PROVE TypeOK'
  <2>1. Call(p, IF ShowsEffectOf(o) THEN "check" ELSE "FAILED", o, current)
    BY <1>6 DEF BeginReadback
  <2>2. intact' \in [Proc -> BOOLEAN]
    BY <1>6, <1>a DEF BeginReadback
  <2> QED
    BY <1>1, <1>3, <1>4, <1>6, <1>a, <1>b, <2>1, <2>2 DEF BeginReadback, files
<1>7. ASSUME NEW p \in Proc, NEW o \in Op, BeginRollback(p, o) PROVE TypeOK'
  <2>1. Call(p, "restore", o, current)
    BY <1>7 DEF BeginRollback
  <2> QED
    BY <1>1, <1>3, <1>4, <1>7, <1>a, <1>b, <2>1 DEF BeginRollback, files, history
<1>8. ASSUME NEW p \in Proc, WriteVersion(p) PROVE TypeOK'
  <2>1. Call(p, "receipt", arg[p], seen[p]) /\ version' \in [Digest -> Pointer]
    BY <1>2, <1>8, <1>a DEF WriteVersion
  <2> QED
    BY <1>1, <1>2, <1>4, <1>8, <1>a, <1>b, <2>1 DEF WriteVersion, history
<1>9. ASSUME NEW p \in Proc, WriteReceipt(p) PROVE TypeOK'
  <2>1. Call(p, "current", arg[p], seen[p])
           /\ receipt' \in [Op -> [written : BOOLEAN, previous : Pointer]]
    BY <1>2, <1>9, <1>a DEF WriteReceipt
  <2> QED
    BY <1>1, <1>2, <1>4, <1>9, <1>a, <1>b, <2>1 DEF WriteReceipt, history
<1>10. ASSUME NEW p \in Proc, WriteCurrent(p) PROVE TypeOK'
  <2>1. Call(p, "idle", NoOp, NoOp) /\ current' = arg[p] /\ before' \in [Op -> Pointer]
    BY <1>10, <1>a DEF WriteCurrent, Return
  <2> QED
    BY <1>1, <1>2, <1>4, <1>10, <1>a, <1>b, <2>1 DEF WriteCurrent
<1>11. ASSUME NEW p \in Proc, CheckVersion(p) PROVE TypeOK'
  <2>1. Call(p, IF version[digestOf[seen[p]]] = seen[p]
                THEN "VERIFIED" ELSE "AMBIGUOUS", arg[p], seen[p])
    BY <1>11 DEF CheckVersion
  <2> QED
    BY <1>1, <1>2, <1>4, <1>11, <1>a, <1>b, <2>1 DEF CheckVersion, files, history
<1>12. ASSUME NEW p \in Proc, Return(p), UNCHANGED <<files, history>> PROVE TypeOK'
  BY <1>1, <1>2, <1>4, <1>12, <1>a, <1>b DEF Return, files, history
<1>13. ASSUME NEW p \in Proc, Restore(p) PROVE TypeOK'
  <2>1. Call(p, "idle", NoOp, NoOp) /\ arg[p] \in Op
    BY <1>13, ArgIsOp DEF Restore, Return, At
  <2>2. current' \in Pointer /\ undone' \subseteq Op
    BY <1>13, <1>a, <2>1 DEF Restore
  <2> QED
    BY <1>1, <1>2, <1>4, <1>13, <1>a, <1>b, <2>1, <2>2 DEF Restore
<1>14. ASSUME UNCHANGED vars PROVE TypeOK'
  BY <1>14 DEF vars, files, locals, history, TypeOK
<1> QED
  BY <1>5, <1>6, <1>7, <1>8, <1>9, <1>10, <1>11, <1>12, <1>13, <1>14
     DEF Next, EndReadback, Crash

\* No file a pointer needs goes away, and version files stay with their digest.
LEMMA FilesGrow ==
    ASSUME TypeOK, CallsProgress, [Next]_vars
    PROVE  /\ \A o \in Op : receipt[o].written => receipt'[o].written
           /\ \A d \in Digest : version[d] # NoOp => version'[d] # NoOp
           /\ VersionsMatch => VersionsMatch'
<1>1. ASSUME UNCHANGED <<version, receipt>>
      PROVE  /\ \A o \in Op : receipt[o].written => receipt'[o].written
             /\ \A d \in Digest : version[d] # NoOp => version'[d] # NoOp
             /\ VersionsMatch => VersionsMatch'
  BY <1>1 DEF VersionsMatch
<1>2. ASSUME NEW p \in Proc, WriteVersion(p)
      PROVE  /\ \A o \in Op : receipt[o].written => receipt'[o].written
             /\ \A d \in Digest : version[d] # NoOp => version'[d] # NoOp
             /\ VersionsMatch => VersionsMatch'
  <2>1. /\ arg[p] \in Op /\ digestOf[arg[p]] \in Digest /\ arg[p] # NoOp
        /\ UNCHANGED receipt
    BY <1>2, ArgIsOp DEF WriteVersion, At
  <2>2. \A d \in Digest : version'[d] = IF d = digestOf[arg[p]] THEN arg[p] ELSE version[d]
    BY <1>2 DEF WriteVersion, TypeOK
  <2> QED
    BY <2>1, <2>2 DEF VersionsMatch
<1>3. ASSUME NEW p \in Proc, WriteReceipt(p)
      PROVE  /\ \A o \in Op : receipt[o].written => receipt'[o].written
             /\ \A d \in Digest : version[d] # NoOp => version'[d] # NoOp
             /\ VersionsMatch => VersionsMatch'
  <2>1. arg[p] \in Op /\ UNCHANGED version
    BY <1>3, ArgIsOp DEF WriteReceipt, At
  <2>2. \A o \in Op : receipt'[o] = IF o = arg[p]
                                    THEN [written |-> TRUE, previous |-> seen[p]]
                                    ELSE receipt[o]
    BY <1>3 DEF WriteReceipt, TypeOK
  <2> QED
    BY <2>1, <2>2 DEF VersionsMatch
<1> QED
  BY <1>1, <1>2, <1>3
     DEF Next, BeginExecute, BeginReadback, BeginRollback, WriteCurrent, CheckVersion,
         EndReadback, Restore, Crash, vars, files

-----------------------------------------------------------------------------
(* Each clause of the invariant is kept by each action.                    *)

LEMMA StepOneExecutor ==
    ASSUME TypeOK, OneExecutor, [Next]_vars
    PROVE  OneExecutor'
<1> USE DEF OneExecutor, Executing, At
\* A call that goes on keeps its operation; one that starts is alone.
<1>1. ASSUME NEW p \in Proc, NEW l, NEW c, Call(p, l, arg[p], c), Executing(p)
      PROVE  OneExecutor'
  BY <1>1, CallFacts
<1>2. ASSUME NEW p \in Proc, NEW l, NEW o, NEW c, Call(p, l, o, c),
             l \notin {"version", "receipt", "current"}
      PROVE  OneExecutor'
  BY <1>2, CallFacts
<1>3. ASSUME NEW p \in Proc, NEW o \in Op, BeginExecute(p, o) PROVE OneExecutor'
  <2>1. Call(p, "version", o, current) /\ ~\E q \in Proc : Executing(q) /\ arg[q] = o
    BY <1>3 DEF BeginExecute
  <2> QED
    BY <2>1, CallFacts
<1>4. ASSUME NEW p \in Proc, NEW o \in Op, BeginReadback(p, o) \/ BeginRollback(p, o)
      PROVE  OneExecutor'
  <2>1. Call(p, "check", o, current) \/ Call(p, "FAILED", o, current)
           \/ Call(p, "restore", o, current)
    BY <1>4 DEF BeginReadback, BeginRollback
  <2> QED
    BY <1>2, <2>1
<1>5. ASSUME NEW p \in Proc, WriteVersion(p) \/ WriteReceipt(p) PROVE OneExecutor'
  BY <1>1, <1>5 DEF WriteVersion, WriteReceipt
<1>6. ASSUME NEW p \in Proc, CheckVersion(p) PROVE OneExecutor'
  <2>1. Call(p, "VERIFIED", arg[p], seen[p]) \/ Call(p, "AMBIGUOUS", arg[p], seen[p])
    BY <1>6 DEF CheckVersion
  <2> QED
    BY <1>2, <2>1
<1>7. ASSUME NEW p \in Proc, Return(p) PROVE OneExecutor'
  BY <1>2, <1>7 DEF Return
<1>8. ASSUME UNCHANGED vars PROVE OneExecutor'
  BY <1>8 DEF vars, locals
<1> QED
  BY <1>3, <1>4, <1>5, <1>6, <1>7, <1>8
     DEF Next, WriteCurrent, EndReadback, Restore, Crash

\* Only the call that executes an operation writes its receipt.
LEMMA ReceiptOfOthers ==
    ASSUME TypeOK, CallsProgress, OneExecutor, [Next]_vars,
           NEW q \in Proc, pc[q] \in {"version", "receipt"},
           pc'[q] \in {"version", "receipt"}, arg'[q] = arg[q]
    PROVE  ~receipt'[arg[q]].written
<1>1. arg[q] \in Op /\ ~receipt[arg[q]].written
  BY ArgIsOp DEF CallsProgress, At
<1>2. ASSUME NEW p \in Proc, WriteReceipt(p) PROVE ~receipt'[arg[q]].written
  <2>1. p # q
    BY <1>2, CallFacts DEF WriteReceipt
  <2>2. arg[p] # arg[q]
    BY <1>2, <2>1 DEF WriteReceipt, OneExecutor, Executing, At
  <2> QED
    BY <1>1, <1>2, <2>2 DEF WriteReceipt, TypeOK
<1>3. ASSUME UNCHANGED receipt PROVE ~receipt'[arg[q]].written
  BY <1>1, <1>3
<1> QED
  BY <1>2, <1>3
     DEF Next, BeginExecute, BeginReadback, BeginRollback, WriteVersion, WriteCurrent,
         CheckVersion, EndReadback, Restore, Crash, vars, files

LEMMA StepCallsProgress ==
    ASSUME TypeOK, CallsProgress, OneExecutor, [Next]_vars
    PROVE  CallsProgress'
<1> DEFINE Good(q) ==
              /\ pc'[q] # "idle" => arg'[q] \in Op
              /\ pc'[q] \in {"version", "receipt"} => ~receipt'[arg'[q]].written
              /\ pc'[q] \in {"receipt", "current"} => version'[digestOf[arg'[q]]] # NoOp
              /\ pc'[q] \in {"current", "restore"} => receipt'[arg'[q]].written
              /\ pc'[q] = "check" => seen'[q] # NoOp
\* A call that takes no step keeps what it has done.
<1>1. ASSUME NEW q \in Proc, pc'[q] = pc[q], arg'[q] = arg[q], seen'[q] = seen[q]
      PROVE  Good(q)
  <2>1. CASE pc[q] = "idle"
    BY <1>1, <2>1
  <2>2. CASE pc[q] # "idle"
    <3>1. arg[q] \in Op /\ digestOf[arg[q]] \in Digest
      BY <2>2, ArgIsOp DEF At
    <3>2. pc[q] \in {"version", "receipt"} => ~receipt'[arg[q]].written
      BY <1>1, ReceiptOfOthers
    <3>3. /\ pc[q] \in {"receipt", "current"} => version'[digestOf[arg[q]]] # NoOp
          /\ pc[q] \in {"current", "restore"} => receipt'[arg[q]].written
      BY <3>1, FilesGrow DEF CallsProgress
    <3>4. pc[q] = "check" => seen[q] # NoOp
      BY DEF CallsProgress, At
    <3> QED
      BY <1>1, <2>2, <3>1, <3>2, <3>3, <3>4
  <2> QED
    BY <2>1, <2>2
<1>2. ASSUME NEW p \in Proc, NEW l, NEW o, NEW c, Call(p, l, o, c), Good(p)
      PROVE  \A q \in Proc : Good(q)
  <2>1. ASSUME NEW q \in Proc, q # p PROVE Good(q)
    <3>1. pc'[q] = pc[q] /\ arg'[q] = arg[q] /\ seen'[q] = seen[q]
      BY <1>2, <2>1, CallFacts
    <3> HIDE DEF Good
    <3> QED
      BY <1>1, <3>1
  <2> HIDE DEF Good
  <2> QED
    BY <1>2, <2>1
<1>3. ASSUME NEW p \in Proc, NEW o \in Op, BeginExecute(p, o) PROVE \A q \in Proc : Good(q)
  <2>1. Call(p, "version", o, current)
    BY <1>3 DEF BeginExecute
  <2>2. Good(p)
    BY <1>3, <2>1, CallFacts DEF BeginExecute, files
  <2> HIDE DEF Good
  <2> QED
    BY <1>2, <2>1, <2>2
<1>4. ASSUME NEW p \in Proc, NEW o \in Op, BeginReadback(p, o) PROVE \A q \in Proc : Good(q)
  <2>1. Call(p, IF ShowsEffectOf(o) THEN "check" ELSE "FAILED", o, current)
    BY <1>4 DEF BeginReadback
  <2>2. Good(p)
    BY <2>1, CallFacts DEF ShowsEffectOf
  <2> HIDE DEF Good
  <2> QED
    BY <1>2, <2>1, <2>2
<1>5. ASSUME NEW p \in Proc, NEW o \in Op, BeginRollback(p, o) PROVE \A q \in Proc : Good(q)
  <2>1. Call(p, "restore", o, current)
    BY <1>5 DEF BeginRollback
  <2>2. Good(p)
    BY <1>5, <2>1, CallFacts DEF BeginRollback, files
  <2> HIDE DEF Good
  <2> QED
    BY <1>2, <2>1, <2>2
<1>6. ASSUME NEW p \in Proc, WriteVersion(p) PROVE \A q \in Proc : Good(q)
  <2>1. /\ Call(p, "receipt", arg[p], seen[p]) /\ pc[p] = "version" /\ UNCHANGED receipt
        /\ version' = [version EXCEPT ![digestOf[arg[p]]] = arg[p]]
    BY <1>6 DEF WriteVersion, At
  <2>2. arg[p] \in Op /\ digestOf[arg[p]] \in Digest /\ arg[p] # NoOp
           /\ ~receipt[arg[p]].written
    BY <2>1, ArgIsOp DEF CallsProgress, At
  <2>3. version'[digestOf[arg[p]]] = arg[p]
    BY <2>1, <2>2 DEF TypeOK
  <2>4. Good(p)
    BY <2>1, <2>2, <2>3, CallFacts
  <2> HIDE DEF Good
  <2> QED
    BY <1>2, <2>1, <2>4
<1>7. ASSUME NEW p \in Proc, WriteReceipt(p) PROVE \A q \in Proc : Good(q)
  <2>1. /\ Call(p, "current", arg[p], seen[p]) /\ pc[p] = "receipt" /\ UNCHANGED version
        /\ receipt' = [receipt EXCEPT ![arg[p]] = [written |-> TRUE, previous |-> seen[p]]]
    BY <1>7 DEF WriteReceipt, At
  <2>2. arg[p] \in Op /\ version[digestOf[arg[p]]] # NoOp
    BY <2>1, ArgIsOp DEF CallsProgress, At
  <2>3. receipt'[arg[p]].written
    BY <2>1, <2>2 DEF TypeOK
  <2>4. Good(p)
    BY <2>1, <2>2, <2>3, CallFacts
  <2> HIDE DEF Good
  <2> QED
    BY <1>2, <2>1, <2>4
<1>8. ASSUME NEW p \in Proc, CheckVersion(p) PROVE \A q \in Proc : Good(q)
  <2>1. pc[p] = "check" /\ Call(p, IF version[digestOf[seen[p]]] = seen[p]
                                   THEN "VERIFIED" ELSE "AMBIGUOUS", arg[p], seen[p])
    BY <1>8 DEF CheckVersion, At
  <2>2. arg[p] \in Op
    BY <2>1, ArgIsOp DEF At
  <2>3. Good(p)
    BY <2>1, <2>2, CallFacts
  <2> HIDE DEF Good
  <2> QED
    BY <1>2, <2>1, <2>3
<1>9. ASSUME NEW p \in Proc, Return(p) PROVE \A q \in Proc : Good(q)
  <2>1. Good(p)
    BY <1>9, CallFacts DEF Return
  <2> HIDE DEF Good
  <2> QED
    BY <1>2, <1>9, <2>1 DEF Return
<1>10. ASSUME UNCHANGED vars PROVE \A q \in Proc : Good(q)
  BY <1>1, <1>10 DEF vars, locals
<1> HIDE DEF Good
<1>11. \A q \in Proc : Good(q)
  BY <1>3, <1>4, <1>5, <1>6, <1>7, <1>8, <1>9, <1>10
     DEF Next, WriteCurrent, EndReadback, Restore, Crash
<1> QED
  BY <1>11 DEF Good, CallsProgress, At

LEMMA ResolvesStays ==
    ASSUME TypeOK, CallsProgress, [Next]_vars, NEW o \in Op, Resolves(o)
    PROVE  receipt'[o].written /\ version'[digestOf[o]] # NoOp
BY FilesGrow, InjectorAssumption DEF Resolves

\* A pointer that is written or read was written or readable before, or is the
\* operation that has just got its version file and its receipt.
LEMMA StepAllResolve ==
    ASSUME TypeOK, CallsProgress, AllResolve, [Next]_vars
    PROVE  AllResolve'
<1> DEFINE Known(o) == o \in Pointer /\ (o # NoOp => Resolves(o))
           Kept(o) == o # NoOp => receipt'[o].written /\ version'[digestOf[o]] # NoOp
<1>1. ASSUME NEW o, Known(o) PROVE Kept(o)
  BY <1>1, ResolvesStays DEF Pointer
<1>2. /\ Known(current) /\ Known(NoOp)
      /\ \A o \in Op : Known(receipt[o].previous)
      /\ \A p \in Proc : Known(seen[p])
  BY DEF AllResolve, TypeOK, Pointer
<1>3. ASSUME NEW p \in Proc, pc[p] \in {"current", "restore"}
      PROVE  /\ arg[p] \in Op
             /\ pc[p] = "current" => Known(arg[p])
             /\ pc[p] = "restore" => Known(receipt[arg[p]].previous)
  BY <1>2, <1>3 DEF CallsProgress, Resolves, At, Pointer
<1> HIDE DEF Known, Kept
\* Whatever is a pointer after the step was known before it.
<1>4. Known(current')
  <2>1. ASSUME UNCHANGED current PROVE Known(current')
    BY <1>2, <2>1
  <2>2. ASSUME NEW p \in Proc, WriteCurrent(p) PROVE Known(current')
    BY <1>3, <2>2 DEF WriteCurrent, At
  <2>3. ASSUME NEW p \in Proc, Restore(p) PROVE Known(current')
    BY <1>3, <2>3 DEF Restore, At
  <2> QED
    BY <2>1, <2>2, <2>3
       DEF Next, BeginExecute, BeginReadback, BeginRollback, WriteVersion, WriteReceipt,
           CheckVersion, EndReadback, Crash, vars, files
<1>5. \A o \in Op : Known(receipt'[o].previous)
  <2>1. ASSUME NEW p \in Proc, WriteReceipt(p), NEW o \in Op
        PROVE  Known(receipt'[o].previous)
    <3>1. receipt'[o] = receipt[o] \/ receipt'[o].previous = seen[p]
      BY <2>1 DEF WriteReceipt, TypeOK
    <3> QED
      BY <1>2, <3>1
  <2>2. ASSUME UNCHANGED receipt PROVE \A o \in Op : Known(receipt'[o].previous)
    BY <1>2, <2>2
  <2> QED
    BY <2>1, <2>2
       DEF Next, BeginExecute, BeginReadback, BeginRollback, WriteVersion, WriteCurrent,
           CheckVersion, EndReadback, Restore, Crash, vars, files
<1>6. \A p \in Proc : Known(seen'[p])
  <2>1. ASSUME NEW p \in Proc, NEW l, NEW o, NEW c, Call(p, l, o, c), Known(c)
        PROVE  \A q \in Proc : Known(seen'[q])
    BY <1>2, <2>1, CallFacts
  <2>2. ASSUME UNCHANGED vars PROVE \A q \in Proc : Known(seen'[q])
    BY <1>2, <2>2 DEF vars, locals
  <2> QED
    BY <1>2, <2>1, <2>2
       DEF Next, BeginExecute, BeginReadback, BeginRollback, WriteVersion, WriteReceipt,
           WriteCurrent, CheckVersion, EndReadback, Restore, Crash, Return
<1>7. /\ Kept(current')
      /\ \A o \in Op : Kept(receipt'[o].previous)
      /\ \A p \in Proc : Kept(seen'[p])
  BY <1>1, <1>4, <1>5, <1>6
<1> QED
  BY <1>7 DEF Kept, AllResolve, Resolves

\* No call writes the version file of an operation that has a receipt, so a
\* version file that a readback finds right was right when it began.
LEMMA StepReadbackIsAtomic ==
    ASSUME TypeOK, CallsProgress, AllResolve, ReadbackIsAtomic, [Next]_vars
    PROVE  ReadbackIsAtomic'
<1> SUFFICES ASSUME NEW q \in Proc, pc'[q] = "check",
                    version'[digestOf[seen'[q]]] = seen'[q]
             PROVE  intact'[q]
  BY DEF ReadbackIsAtomic, At
<1>1. ASSUME NEW o \in Op, BeginReadback(q, o) PROVE intact'[q]
  <2>1. Call(q, IF ShowsEffectOf(o) THEN "check" ELSE "FAILED", o, current)
    BY <1>1 DEF BeginReadback
  <2>2. ShowsEffectOf(o) /\ seen'[q] = current
    BY <2>1, CallFacts
  <2>3. current # NoOp /\ version[digestOf[current]] = current
    BY <1>1, <2>2 DEF BeginReadback, ShowsEffectOf, files
  <2> QED
    BY <1>1, <2>3 DEF BeginReadback, TypeOK
<1>2. ASSUME ~\E o \in Op : BeginReadback(q, o) PROVE intact'[q]
  <2>1. pc[q] = "check" /\ seen'[q] = seen[q] /\ intact'[q] = intact[q]
    <3>1. ASSUME NEW p \in Proc, NEW l, NEW o, NEW c, Call(p, l, o, c),
                 l # "check" \/ p # q, UNCHANGED intact
          PROVE  pc[q] = "check" /\ seen'[q] = seen[q] /\ intact'[q] = intact[q]
      BY <3>1, CallFacts
    <3>2. ASSUME NEW p \in Proc, NEW o \in Op, BeginReadback(p, o)
          PROVE  pc[q] = "check" /\ seen'[q] = seen[q] /\ intact'[q] = intact[q]
      <4>1. p # q
        BY <1>2, <3>2
      <4> QED
        BY <3>2, <4>1, CallFacts DEF BeginReadback, TypeOK
    <3>3. ASSUME NEW p \in Proc, CheckVersion(p)
          PROVE  pc[q] = "check" /\ seen'[q] = seen[q] /\ intact'[q] = intact[q]
      <4>1. Call(p, "VERIFIED", arg[p], seen[p]) \/ Call(p, "AMBIGUOUS", arg[p], seen[p])
        BY <3>3 DEF CheckVersion
      <4> QED
        BY <3>1, <3>3, <4>1 DEF CheckVersion, history
    <3>4. ASSUME UNCHANGED vars
          PROVE  pc[q] = "check" /\ seen'[q] = seen[q] /\ intact'[q] = intact[q]
      BY <3>4 DEF vars, locals, history
    <3> QED
      BY <3>1, <3>2, <3>3, <3>4
         DEF Next, BeginExecute, BeginRollback, WriteVersion, WriteReceipt,
             WriteCurrent, EndReadback, Restore, Crash, Return, history
  <2>2. seen[q] \in Op /\ receipt[seen[q]].written /\ digestOf[seen[q]] \in Digest
    BY <2>1, InjectorAssumption DEF CallsProgress, AllResolve, Resolves, TypeOK, Pointer, At
  <2>3. ASSUME NEW p \in Proc, WriteVersion(p)
        PROVE  version[digestOf[seen[q]]] = seen[q]
    <3>1. arg[p] \in Op /\ ~receipt[arg[p]].written
      BY <2>3, ArgIsOp DEF WriteVersion, CallsProgress, At
    <3>2. arg[p] # seen[q]
      BY <2>2, <3>1
    <3>3. version'[digestOf[seen[q]]] =
             IF digestOf[seen[q]] = digestOf[arg[p]] THEN arg[p]
             ELSE version[digestOf[seen[q]]]
      BY <2>2, <2>3 DEF WriteVersion, TypeOK
    <3> QED
      BY <2>1, <3>2, <3>3
  <2>4. ASSUME UNCHANGED version PROVE version[digestOf[seen[q]]] = seen[q]
    BY <2>1, <2>4
  <2>5. version[digestOf[seen[q]]] = seen[q]
    BY <2>3, <2>4
       DEF Next, BeginExecute, BeginReadback, BeginRollback, WriteReceipt, WriteCurrent,
           CheckVersion, EndReadback, Restore, Crash, vars, files
  <2> QED
    BY <2>1, <2>5 DEF ReadbackIsAtomic, At
<1> QED
  BY <1>1, <1>2

LEMMA StepVerifiedReadIsAtomic ==
    ASSUME TypeOK, ReadbackIsAtomic, VerifiedReadIsAtomic, [Next]_vars
    PROVE  VerifiedReadIsAtomic'
<1> SUFFICES ASSUME NEW q \in Proc, pc'[q] = "VERIFIED" PROVE intact'[q]
  BY DEF VerifiedReadIsAtomic, At
<1>1. ASSUME NEW p \in Proc, NEW l, NEW o, NEW c, Call(p, l, o, c),
             l # "VERIFIED", UNCHANGED intact
      PROVE  intact'[q]
  BY <1>1, CallFacts DEF VerifiedReadIsAtomic, At
<1>2. ASSUME NEW p \in Proc, NEW o \in Op, BeginReadback(p, o) PROVE intact'[q]
  <2>1. Call(p, "check", o, current) \/ Call(p, "FAILED", o, current)
    BY <1>2 DEF BeginReadback
  <2>2. p # q /\ pc[q] = "VERIFIED"
    BY <2>1, CallFacts
  <2> QED
    BY <1>2, <2>2 DEF BeginReadback, VerifiedReadIsAtomic, TypeOK, At
<1>3. ASSUME NEW p \in Proc, CheckVersion(p) PROVE intact'[q]
  <2>1. pc[p] = "check" /\ UNCHANGED intact
        /\ Call(p, IF version[digestOf[seen[p]]] = seen[p]
                   THEN "VERIFIED" ELSE "AMBIGUOUS", arg[p], seen[p])
    BY <1>3 DEF CheckVersion, At, history
  <2>2. CASE version[digestOf[seen[p]]] = seen[p]
    <3>1. intact[p]
      BY <2>1, <2>2 DEF ReadbackIsAtomic, At
    <3> QED
      BY <2>1, <2>2, <3>1, CallFacts DEF VerifiedReadIsAtomic, At
  <2>3. CASE version[digestOf[seen[p]]] # seen[p]
    BY <1>1, <2>1, <2>3
  <2> QED
    BY <2>2, <2>3
<1>4. ASSUME UNCHANGED vars PROVE intact'[q]
  BY <1>4 DEF vars, locals, history, VerifiedReadIsAtomic, At
<1> QED
  BY <1>1, <1>2, <1>3, <1>4
     DEF Next, BeginExecute, BeginRollback, WriteVersion, WriteReceipt,
         WriteCurrent, EndReadback, Restore, Crash, Return, history

LEMMA StepInjectorInv == InjectorInv /\ [Next]_vars => InjectorInv'
<1> SUFFICES ASSUME InjectorInv, [Next]_vars PROVE InjectorInv'
  OBVIOUS
<1>1. /\ TypeOK /\ VersionsMatch /\ CallsProgress /\ OneExecutor
      /\ AllResolve /\ ReadbackIsAtomic /\ VerifiedReadIsAtomic
  BY DEF InjectorInv
<1>2. TypeOK' /\ VersionsMatch' /\ CallsProgress' /\ OneExecutor'
  BY <1>1, StepTyped, FilesGrow, StepCallsProgress, StepOneExecutor
<1>3. AllResolve' /\ ReadbackIsAtomic' /\ VerifiedReadIsAtomic'
  BY <1>1, StepAllResolve, StepReadbackIsAtomic, StepVerifiedReadIsAtomic
<1> QED
  BY <1>2, <1>3 DEF InjectorInv

-----------------------------------------------------------------------------
(* The theorems                                                            *)

\* The invariant of the target directory, whatever calls interleave and crash.
THEOREM InjectorInvariance == Spec => []InjectorInv
BY InitInjectorInv, StepInjectorInv, PTL DEF Spec

\* Every file of ReferenceFileInjector names an operation, or nothing.
THEOREM InjectorTypeCorrect == Spec => []TypeOK
<1>1. InjectorInv => TypeOK
  BY DEF InjectorInv
<1> QED
  BY <1>1, InjectorInvariance, PTL

\* current.json, and every pointer that a receipt would restore, leads to the
\* receipt of its operation and a version file with its digest, after any
\* crash between the three file replacements of execute().
THEOREM PointersAlwaysResolve == Spec => []PointersResolve
<1>1. InjectorInv => PointersResolve
  <2> SUFFICES ASSUME InjectorInv,
                      NEW o \in ({current} \cup {receipt[r].previous : r \in Op}) \ {NoOp}
               PROVE  /\ receipt[o].written
                      /\ version[digestOf[o]] # NoOp
                      /\ digestOf[version[digestOf[o]]] = digestOf[o]
    BY DEF PointersResolve
  <2>1. o \in Op /\ Resolves(o)
    BY DEF InjectorInv, AllResolve, TypeOK, Pointer
  <2>2. digestOf[o] \in Digest
    BY <2>1, InjectorAssumption
  <2> QED
    BY <2>1, <2>2 DEF InjectorInv, VersionsMatch, Resolves
<1> QED
  BY <1>1, InjectorInvariance, PTL

\* readback() reads two files while other calls replace them, and a VERIFIED
\* answer is nevertheless true of one instant.
THEOREM VerifiedReadsAreAtomic == Spec => []VerifiedReadIsAtomic
<1>1. InjectorInv => VerifiedReadIsAtomic
  BY DEF InjectorInv
<1> QED
  BY <1>1, InjectorInvariance, PTL
=============================================================================
