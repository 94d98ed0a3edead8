------------------------ MODULE RemovalWriterProofs ------------------------
(***************************************************************************)
(* What each helper of the removal journal returns, under its guard, is a  *)
(* valid record and a transition the writer accepts: one lemma per field   *)
(* list.  A record on file also keeps the marks a retry needs (RetryInv).  *)
(***************************************************************************)
EXTENDS RemovalProofs

\* What a removal on record adds to the validator: its retry marks are
\* Booleans, and a standalone boundary is verified by a completed teardown or
\* awaits a repeated one.
Retraceable(r) ==
  /\ r.operationRetry \in BOOLEAN /\ r.packageRetry \in BOOLEAN
  /\ Standalone(r) /\ r.verified # "" => r.teardownDone \/ r.operationRetry
  /\ Standalone(r) /\ r.teardownDone => r.verified # ""

\* Selections are counted by naturals.
Counted == \A S \in SUBSET Items : Cardinality(S) \in Nat

\* The cleared execution witness.
LEMMA ClearedKind == NoExecution.kind = "none"
  BY DEF NoExecution

\* A counter below its bound is advanced.
LEMMA CountUp ==
  ASSUME NEW M \in Nat, NEW a \in 0..M, a < M
  PROVE  a + 1 \in 0..M /\ a + 1 \in 1..M /\ a + 1 >= 1
  OBVIOUS

\* Zero is a count.
LEMMA ZeroCounts ==
  ASSUME NEW M \in Nat
  PROVE  0 \in 0..M
  OBVIOUS

\* The bounds are naturals.
LEMMA Bounds == MaxExecutions \in Nat /\ MaxPackages \in Nat /\ MaxRevisions \in Nat
  BY JournalBounds, Zenon

\* The reviewed request and the boundary, which most helpers leave alone.
SameRequest(r, n) ==
  /\ n.context = r.context /\ n.mode = r.mode /\ n.selected = r.selected
  /\ n.revision = r.revision /\ n.origin = r.origin /\ n.originState = r.originState
  /\ n.verified = r.verified /\ n.nativeState = r.nativeState
  /\ n.nativeRecovery = r.nativeRecovery /\ n.teardownDone = r.teardownDone
  /\ n.inventory = r.inventory

\* A helper that replaces none of these fields leaves them alone.
LEMMA RequestKept ==
  ASSUME NEW r, WellFormed(r), NEW n, NEW F, SameExcept(r, n, F),
         F \cap {"context", "mode", "selected", "revision", "origin", "originState",
                 "verified", "nativeState", "nativeRecovery", "teardownDone",
                 "inventory"} = {}
  PROVE  SameRequest(r, n)
<1> USE Zenon
<1>1. DOMAIN r = Fields
  BY DEF WellFormed
<1> QED
  BY <1>1, FieldNames DEF SameExcept, SameRequest

\* The boundary evidence stays valid when a record keeps its request, and
\* neither leaves the intent phase nor takes up a later kind of child.
LEMMA ContextKept ==
  ASSUME NEW r, Valid(r), NEW n, SameRequest(r, n),
         r.phase = "intent" => n.phase = "intent",
         n.active.kind \in {"trash", "package"} =>
           r.phase # "intent" \/ r.active.kind \in {"trash", "package"}
  PROVE  ValidContext(n)
<1>1. CASE r.context = "integrated"
  BY <1>1, Zenon DEF Valid, ValidContext, SameRequest
<1>2. CASE r.context # "integrated"
  BY <1>2, Zenon DEF Valid, ValidContext, SameRequest
<1> QED
  BY <1>1, <1>2

\* The writer accepts the record of a teardown that begins (BeginExecution).
LEMMA TeardownBeginAccepted ==
  ASSUME NEW r, WellFormed(r), Valid(r), NEW b, b # 0, Quiet(r),
         r.attempt < MaxExecutions, r.phase = "intent", NEW n,
         TeardownBeginChange(r, n, b)
  PROVE  WriteRemovalCleanup(r, n)
<1> USE ZenonT(60)
<1> SameExcept(r, n, {"attempt", "active", "operationRetry"}) /\ DOMAIN r = Fields
  BY DEF TeardownBeginChange, Kept, WellFormed
<1> SameRequest(r, n)
  BY RequestKept
<1> USE DEF SameRequest
<1> /\ n.phase = r.phase /\ n.retired = r.retired /\ n.locked = r.locked
    /\ n.moved = r.moved /\ n.outcome = r.outcome /\ n.resolution = r.resolution
    /\ n.requires = r.requires /\ n.recoveryPending = r.recoveryPending
    /\ n.packageAttempt = r.packageAttempt /\ n.bootSession = r.bootSession
    /\ n.reconciled = r.reconciled /\ n.packageRetry = r.packageRetry
    /\ n.released = r.released /\ n.finalizing = r.finalizing
  BY FieldNames DEF SameExcept
<1> n.active = [kind |-> "teardown", attempt |-> n.attempt, boot |-> b] /\ n.attempt = r.attempt + 1
  BY DEF TeardownBeginChange
<1> n.active.kind = "teardown" /\ n.active.attempt = n.attempt /\ n.active.boot = b
  <2>1. /\ [kind |-> "teardown", attempt |-> n.attempt, boot |-> b].kind = "teardown"
        /\ [kind |-> "teardown", attempt |-> n.attempt, boot |-> b].attempt = n.attempt
        /\ [kind |-> "teardown", attempt |-> n.attempt, boot |-> b].boot = b
    OBVIOUS
  <2> QED
    BY <2>1
<1> r.attempt \in 0..MaxExecutions
  BY DEF Valid, ValidShape
<1> n.attempt \in 0..MaxExecutions /\ n.attempt \in 1..MaxExecutions
  BY CountUp, Bounds
<1> ~Active(r) /\ r.resolution = "" /\ ~r.recoveryPending
  BY DEF Quiet
<1> USE DEF TeardownBeginChange
<1> ValidShape(n)
  BY DEF Valid, ValidShape
<1> ValidContext(n)
  BY ContextKept
<1> ValidActive(n)
  BY DEF Valid, ValidActive, ValidFlags, ValidPhase, Active, Kinds
<1> ValidResolution(n)
  BY DEF Valid, ValidResolution, Active
<1> ValidFlags(n)
  BY DEF Valid, ValidFlags, Active
<1> ValidSelection(n)
  BY DEF Valid, ValidSelection
<1> ValidPhase(n)
  BY DEF Valid, ValidPhase, PackageReady
<1> ValidDurableBegin(r, n)
  BY DEF Valid, ValidFlags, ValidResolution, ValidDurableBegin, Active
<1> QED
  BY DEF WriteRemovalCleanup, Valid, ValidRemovalCleanupTransition,
         ValidRemovalExecutionTransition

\* The writer accepts the record of a Trash child that begins.
LEMMA TrashBeginAccepted ==
  ASSUME NEW r, WellFormed(r), Valid(r), NEW b, b # 0, Quiet(r),
         r.attempt < MaxExecutions, ValidateExecutionSource(r, "trash"), NEW n,
         TrashBeginChange(r, n, b)
  PROVE  WriteRemovalCleanup(r, n)
<1> USE ZenonT(60)
<1> SameExcept(r, n, {"attempt", "active"}) /\ DOMAIN r = Fields
  BY DEF TrashBeginChange, Kept, WellFormed
<1> SameRequest(r, n)
  BY RequestKept
<1> USE DEF SameRequest
<1> /\ n.phase = r.phase /\ n.retired = r.retired /\ n.locked = r.locked
    /\ n.moved = r.moved /\ n.outcome = r.outcome /\ n.resolution = r.resolution
    /\ n.requires = r.requires /\ n.recoveryPending = r.recoveryPending
    /\ n.operationRetry = r.operationRetry /\ n.packageAttempt = r.packageAttempt
    /\ n.bootSession = r.bootSession /\ n.reconciled = r.reconciled
    /\ n.packageRetry = r.packageRetry /\ n.released = r.released
    /\ n.finalizing = r.finalizing
  BY FieldNames DEF SameExcept
<1> n.active = [kind |-> "trash", attempt |-> n.attempt, boot |-> b] /\ n.attempt = r.attempt + 1
  BY DEF TrashBeginChange
<1> n.active.kind = "trash" /\ n.active.attempt = n.attempt /\ n.active.boot = b
  <2>1. /\ [kind |-> "trash", attempt |-> n.attempt, boot |-> b].kind = "trash"
        /\ [kind |-> "trash", attempt |-> n.attempt, boot |-> b].attempt = n.attempt
        /\ [kind |-> "trash", attempt |-> n.attempt, boot |-> b].boot = b
    OBVIOUS
  <2> QED
    BY <2>1
<1> r.attempt \in 0..MaxExecutions
  BY DEF Valid, ValidShape
<1> n.attempt \in 0..MaxExecutions /\ n.attempt \in 1..MaxExecutions
  BY CountUp, Bounds
<1> ~Active(r) /\ r.resolution = "" /\ ~r.recoveryPending
  BY DEF Quiet
<1> /\ r.phase = "intent" /\ r.mode = "trash" /\ ~r.operationRetry
    /\ Standalone(r) => r.teardownDone /\ r.verified # ""
  BY DEF ValidateExecutionSource
<1> USE DEF TrashBeginChange
<1> ValidShape(n)
  BY DEF Valid, ValidShape
<1> ValidContext(n)
  BY DEF Valid, ValidShape, ValidContext, Standalone
<1> ValidActive(n)
  BY DEF Valid, ValidActive, ValidFlags, ValidPhase, Active, Kinds, Standalone
<1> ValidResolution(n)
  BY DEF Valid, ValidResolution, Active
<1> ValidFlags(n)
  BY DEF Valid, ValidFlags, Active
<1> ValidSelection(n)
  BY DEF Valid, ValidSelection
<1> ValidPhase(n)
  BY DEF Valid, ValidPhase, PackageReady
<1> ValidDurableBegin(r, n)
  BY DEF Valid, ValidFlags, ValidResolution, ValidDurableBegin, Active
<1> QED
  BY DEF WriteRemovalCleanup, Valid, ValidRemovalCleanupTransition,
         ValidRemovalExecutionTransition

\* The writer accepts the record of a package child that begins.
LEMMA PackageBeginAccepted ==
  ASSUME NEW r, WellFormed(r), Valid(r), NEW b, b # 0, Quiet(r),
         r.attempt < MaxExecutions, ValidateExecutionSource(r, "package"), NEW n,
         PackageArmed(r, n, b)
  PROVE  WriteRemovalCleanup(r, n)
<1> USE ZenonT(60)
<1> SameExcept(r, n, {"attempt", "active", "packageAttempt", "phase", "bootSession",
                       "reconciled", "packageRetry", "released", "finalizing"}) /\ DOMAIN r = Fields
  BY DEF PackageArmed, Kept, WellFormed
<1> SameRequest(r, n)
  BY RequestKept
<1> USE DEF SameRequest
<1> /\ n.retired = r.retired /\ n.locked = r.locked /\ n.moved = r.moved
    /\ n.outcome = r.outcome /\ n.resolution = r.resolution
    /\ n.requires = r.requires /\ n.recoveryPending = r.recoveryPending
    /\ n.operationRetry = r.operationRetry
  BY FieldNames DEF SameExcept
<1> n.active = [kind |-> "package", attempt |-> n.attempt, boot |-> b] /\ n.attempt = r.attempt + 1
  BY DEF PackageArmed
<1> n.active.kind = "package" /\ n.active.attempt = n.attempt /\ n.active.boot = b
  <2>1. /\ [kind |-> "package", attempt |-> n.attempt, boot |-> b].kind = "package"
        /\ [kind |-> "package", attempt |-> n.attempt, boot |-> b].attempt = n.attempt
        /\ [kind |-> "package", attempt |-> n.attempt, boot |-> b].boot = b
    OBVIOUS
  <2> QED
    BY <2>1
<1> r.attempt \in 0..MaxExecutions
  BY DEF Valid, ValidShape
<1> n.attempt \in 0..MaxExecutions /\ n.attempt \in 1..MaxExecutions
  BY CountUp, Bounds
<1> ~Active(r) /\ r.resolution = "" /\ ~r.recoveryPending
  BY DEF Quiet
<1> /\ r.phase \in {"pending", "verified"} /\ r.finalizing = FALSE
    /\ r.packageAttempt < MaxPackages
    /\ Standalone(r) => r.teardownDone /\ r.verified # ""
  BY DEF ValidateExecutionSource, WellFormed
<1> r.packageAttempt \in 0..MaxPackages /\ n.packageAttempt = r.packageAttempt + 1
  BY DEF Valid, ValidShape, PackageArmed
<1> n.packageAttempt \in 0..MaxPackages /\ n.packageAttempt >= 1
  BY CountUp, Bounds
<1> SameExcept(r, n, {"active", "attempt", "phase", "packageAttempt", "bootSession",
                       "reconciled", "packageRetry", "released"})
  BY DEF SameExcept, PackageArmed
<1> USE DEF PackageArmed
<1> ValidShape(n)
  BY DEF Valid, ValidShape, Phases
<1> ValidContext(n)
  BY DEF Valid, ValidShape, ValidContext, Standalone
<1> ValidActive(n)
  BY DEF Active, ValidActive, Kinds
<1> ValidResolution(n)
  BY DEF Valid, ValidResolution
<1> ValidFlags(n)
  BY DEF Valid, ValidFlags, Active
<1> ValidSelection(n)
  BY DEF Valid, ValidSelection
<1> ValidPhase(n)
  BY DEF Valid, ValidPhase, PackageReady
<1> ValidDurableBegin(r, n)
  BY DEF Valid, ValidResolution, ValidDurableBegin, Active
<1> QED
  BY DEF WriteRemovalCleanup, Valid, ValidRemovalCleanupTransition,
         ValidRemovalExecutionTransition

\* The writer accepts the end of a teardown or a Trash child (FinishExecution).
LEMMA FinishAccepted ==
  ASSUME NEW r, WellFormed(r), Valid(r), Active(r), r.resolution = "",
         r.active.kind # "package", NEW n, FinishChange(r, n)
  PROVE  WriteRemovalCleanup(r, n)
<1> USE ZenonT(60)
<1> SameExcept(r, n, {"active"}) /\ DOMAIN r = Fields
  BY DEF FinishChange, Kept, WellFormed
<1> SameRequest(r, n)
  BY RequestKept
<1> USE DEF SameRequest
<1> /\ n.phase = r.phase /\ n.retired = r.retired /\ n.locked = r.locked
    /\ n.moved = r.moved /\ n.outcome = r.outcome /\ n.attempt = r.attempt
    /\ n.resolution = r.resolution /\ n.requires = r.requires
    /\ n.recoveryPending = r.recoveryPending
    /\ n.operationRetry = r.operationRetry /\ n.packageAttempt = r.packageAttempt
    /\ n.bootSession = r.bootSession /\ n.reconciled = r.reconciled
    /\ n.packageRetry = r.packageRetry /\ n.released = r.released
    /\ n.finalizing = r.finalizing
  BY FieldNames DEF SameExcept
<1> n.active.kind = "none"
  BY ClearedKind DEF FinishChange
<1> USE DEF FinishChange
<1> ValidShape(n)
  BY DEF Valid, ValidShape
<1> ValidContext(n)
  BY ContextKept
<1> ValidActive(n)
  BY DEF Valid, ValidActive, Active, Kinds
<1> ValidResolution(n)
  BY DEF Valid, ValidResolution, Active
<1> ValidFlags(n)
  BY DEF Valid, ValidFlags, Active
<1> ValidSelection(n)
  BY DEF Valid, ValidSelection
<1> ValidPhase(n)
  BY DEF Valid, ValidPhase, PackageReady
<1> ValidDurableFinish(r, n)
  BY DEF Valid, ValidActive, ValidDurableFinish, Active, Kinds
<1> QED
  BY DEF WriteRemovalCleanup, Valid, ValidRemovalCleanupTransition,
         ValidRemovalExecutionTransition

\* The writer accepts the end of a package child that is proven.
LEMMA FinishPackageAccepted ==
  ASSUME NEW r, WellFormed(r), Valid(r), Active(r), r.resolution = "",
         r.active.kind = "package", NEW n, FinishPackageChange(r, n)
  PROVE  WriteRemovalCleanup(r, n)
<1> USE ZenonT(60)
<1> SameExcept(r, n, {"active", "phase"}) /\ DOMAIN r = Fields
  BY DEF FinishPackageChange, Kept, WellFormed
<1> SameRequest(r, n)
  BY RequestKept
<1> USE DEF SameRequest
<1> /\ n.retired = r.retired /\ n.locked = r.locked /\ n.moved = r.moved
    /\ n.outcome = r.outcome /\ n.attempt = r.attempt
    /\ n.resolution = r.resolution /\ n.requires = r.requires
    /\ n.recoveryPending = r.recoveryPending
    /\ n.operationRetry = r.operationRetry /\ n.packageAttempt = r.packageAttempt
    /\ n.bootSession = r.bootSession /\ n.reconciled = r.reconciled
    /\ n.packageRetry = r.packageRetry /\ n.released = r.released
    /\ n.finalizing = r.finalizing
  BY FieldNames DEF SameExcept
<1> n.active.kind = "none"
  BY ClearedKind DEF FinishPackageChange
<1> r.phase = "in_flight" /\ r.released = FALSE
  BY DEF Valid, ValidActive, Active, WellFormed
<1> USE DEF FinishPackageChange
<1> ValidShape(n)
  BY DEF Valid, ValidShape, Phases
<1> ValidContext(n)
  BY ContextKept
<1> ValidActive(n)
  BY DEF Valid, ValidActive, Active, Kinds
<1> ValidResolution(n)
  BY DEF Valid, ValidResolution, Active
<1> ValidFlags(n)
  BY DEF Valid, ValidFlags, Active
<1> ValidSelection(n)
  BY DEF Valid, ValidSelection
<1> ValidPhase(n)
  BY DEF Valid, ValidPhase, PackageReady
<1> ValidDurableFinish(r, n)
  BY DEF ValidDurableFinish, Active, SameExcept
<1> QED
  BY DEF WriteRemovalCleanup, Valid, ValidRemovalCleanupTransition,
         ValidRemovalExecutionTransition

\* The writer accepts the end of a package child that never started.
LEMMA UnstartedPackageAccepted ==
  ASSUME NEW r, WellFormed(r), Valid(r), Active(r), r.resolution = "",
         r.active.kind = "package", NEW n, PackageUnarmed(r, n)
  PROVE  WriteRemovalCleanup(r, n)
<1> USE ZenonT(60)
<1> SameExcept(r, n, {"active", "phase", "bootSession", "reconciled", "packageRetry"}) /\ DOMAIN r = Fields
  BY DEF PackageUnarmed, Kept, WellFormed
<1> SameRequest(r, n)
  BY RequestKept
<1> USE DEF SameRequest
<1> /\ n.retired = r.retired /\ n.locked = r.locked /\ n.moved = r.moved
    /\ n.outcome = r.outcome /\ n.attempt = r.attempt
    /\ n.resolution = r.resolution /\ n.requires = r.requires
    /\ n.recoveryPending = r.recoveryPending
    /\ n.operationRetry = r.operationRetry /\ n.packageAttempt = r.packageAttempt
    /\ n.released = r.released /\ n.finalizing = r.finalizing
  BY FieldNames DEF SameExcept
<1> n.active.kind = "none"
  BY ClearedKind DEF PackageUnarmed
<1> r.phase = "in_flight" /\ r.released = FALSE
  BY DEF Valid, ValidActive, Active, WellFormed
<1> USE DEF PackageUnarmed
<1> ValidShape(n)
  BY DEF Valid, ValidShape, Phases
<1> ValidContext(n)
  BY ContextKept
<1> ValidActive(n)
  BY DEF Valid, ValidActive, Active, Kinds
<1> ValidResolution(n)
  BY DEF Valid, ValidResolution, Active
<1> ValidFlags(n)
  BY DEF Valid, ValidFlags, Active
<1> ValidSelection(n)
  BY DEF Valid, ValidSelection
<1> ValidPhase(n)
  BY DEF Valid, ValidPhase, PackageReady
<1> ValidDurableFinish(r, n)
  BY DEF ValidDurableFinish, Active
<1> QED
  BY DEF WriteRemovalCleanup, Valid, ValidRemovalCleanupTransition,
         ValidRemovalExecutionTransition

\* The writer accepts the confirmation of a package child of an earlier boot,
\* the package absent.
LEMMA RebootAbsentAccepted ==
  ASSUME NEW r, WellFormed(r), Valid(r), Active(r), r.resolution = "",
         r.active.kind = "package", NEW n, RebootAbsentChange(r, n)
  PROVE  WriteRemovalCleanup(r, n)
<1> USE ZenonT(60)
<1> SameExcept(r, n, {"active", "phase", "reconciled", "packageRetry"}) /\ DOMAIN r = Fields
  BY DEF RebootAbsentChange, Kept, WellFormed
<1> SameRequest(r, n)
  BY RequestKept
<1> USE DEF SameRequest
<1> /\ n.retired = r.retired /\ n.locked = r.locked /\ n.moved = r.moved
    /\ n.outcome = r.outcome /\ n.attempt = r.attempt
    /\ n.resolution = r.resolution /\ n.requires = r.requires
    /\ n.recoveryPending = r.recoveryPending
    /\ n.operationRetry = r.operationRetry /\ n.packageAttempt = r.packageAttempt
    /\ n.bootSession = r.bootSession /\ n.released = r.released
    /\ n.finalizing = r.finalizing
  BY FieldNames DEF SameExcept
<1> n.active.kind = "none"
  BY ClearedKind DEF RebootAbsentChange
<1> r.phase = "in_flight" /\ r.released = FALSE
  BY DEF Valid, ValidActive, Active, WellFormed
<1> USE DEF RebootAbsentChange
<1> ValidShape(n)
  BY DEF Valid, ValidShape, Phases
<1> ValidContext(n)
  BY ContextKept
<1> ValidActive(n)
  BY DEF Valid, ValidActive, Active, Kinds
<1> ValidResolution(n)
  BY DEF Valid, ValidResolution, Active
<1> ValidFlags(n)
  BY DEF Valid, ValidFlags, Active
<1> ValidSelection(n)
  BY DEF Valid, ValidSelection
<1> ValidPhase(n)
  BY DEF Valid, ValidPhase, PackageReady
<1> ValidDurableFinish(r, n)
  BY DEF ValidDurableFinish, Active, SameExcept
<1> QED
  BY DEF WriteRemovalCleanup, Valid, ValidRemovalCleanupTransition,
         ValidRemovalExecutionTransition

\* The writer accepts the confirmation of a package child of an earlier boot,
\* the package present.
LEMMA RebootPresentAccepted ==
  ASSUME NEW r, WellFormed(r), Valid(r), Active(r), r.resolution = "",
         r.active.kind = "package", NEW n, RebootPresentChange(r, n)
  PROVE  WriteRemovalCleanup(r, n)
<1> USE ZenonT(60)
<1> SameExcept(r, n, {"active", "phase", "reconciled", "bootSession", "packageRetry"}) /\ DOMAIN r = Fields
  BY DEF RebootPresentChange, Kept, WellFormed
<1> SameRequest(r, n)
  BY RequestKept
<1> USE DEF SameRequest
<1> /\ n.retired = r.retired /\ n.locked = r.locked /\ n.moved = r.moved
    /\ n.outcome = r.outcome /\ n.attempt = r.attempt
    /\ n.resolution = r.resolution /\ n.requires = r.requires
    /\ n.recoveryPending = r.recoveryPending
    /\ n.operationRetry = r.operationRetry /\ n.packageAttempt = r.packageAttempt
    /\ n.released = r.released /\ n.finalizing = r.finalizing
  BY FieldNames DEF SameExcept
<1> n.active.kind = "none"
  BY ClearedKind DEF RebootPresentChange
<1> r.phase = "in_flight" /\ r.released = FALSE
  BY DEF Valid, ValidActive, Active, WellFormed
<1> n.bootSession # 0
  BY DEF Valid, ValidActive, Active, RebootPresentChange
<1> USE DEF RebootPresentChange
<1> ValidShape(n)
  BY DEF Valid, ValidShape, Phases
<1> ValidContext(n)
  BY ContextKept
<1> ValidActive(n)
  BY DEF Valid, ValidActive, Active, Kinds
<1> ValidResolution(n)
  BY DEF Valid, ValidResolution, Active
<1> ValidFlags(n)
  BY DEF Valid, ValidFlags, Active
<1> ValidSelection(n)
  BY DEF Valid, ValidSelection
<1> ValidPhase(n)
  BY DEF Valid, ValidPhase, PackageReady
<1> ValidDurableFinish(r, n)
  BY DEF ValidDurableFinish, Active, SameExcept
<1> QED
  BY DEF WriteRemovalCleanup, Valid, ValidRemovalCleanupTransition,
         ValidRemovalExecutionTransition

\* What a record retires is what the transition check expects.
LEMMA RetiringAgrees ==
  ASSUME NEW r, WellFormed(r), NEW n, Retiring(r, n)
  PROVE  RetiredInto(r, n)
<1>1. Retiring(r, Retire(r))
  BY RetireFields
<1>2. CASE Cardinality(r.retired \cup r.selected) > MaxRetired
  BY <1>1, <1>2, Zenon DEF Retiring, RetiredInto
<1>3. CASE ~(Cardinality(r.retired \cup r.selected) > MaxRetired)
  BY <1>1, <1>3, Zenon DEF Retiring, RetiredInto
<1> QED
  BY <1>2, <1>3

\* The retired list stays within its bound.
LEMMA RetiringBounded ==
  ASSUME NEW r, Valid(r), Counted, NEW n, Retiring(r, n)
  PROVE  /\ n.retired \subseteq Items /\ Cardinality(n.retired) <= MaxRetired
         /\ n.locked \/ r.selected \subseteq n.retired
         /\ 0 \in 0..Cardinality(r.selected)
<1>1. /\ r.selected \subseteq Items /\ r.retired \subseteq Items
      /\ Cardinality(r.retired) <= MaxRetired
  BY DEF Valid, ValidShape
<1>4. 0 \in 0..Cardinality(r.selected)
  BY <1>1 DEF Counted
<1>2. CASE /\ n.retired = r.retired \cup r.selected /\ ~(Cardinality(n.retired) > MaxRetired)
  <2>1. n.retired \subseteq Items
    BY <1>1, <1>2
  <2>2. Cardinality(n.retired) \in Nat /\ MaxRetired \in Nat
    BY <2>1, JournalBounds DEF Counted
  <2>3. Cardinality(n.retired) <= MaxRetired
    BY <1>2, <2>2
  <2> QED
    BY <1>2, <1>4, <2>1, <2>3
<1>3. CASE n.retired = r.retired /\ n.locked = TRUE
  BY <1>1, <1>3, <1>4, Zenon
<1> QED
  BY <1>2, <1>3, <1>4, Zenon DEF Retiring

\* The writer accepts the confirmation of a Trash child of an earlier boot.
LEMMA RebootTrashAccepted ==
  ASSUME NEW r, WellFormed(r), Valid(r), Counted, Active(r), r.resolution = "",
         r.active.kind = "trash", NEW n, RebootTrashChange(r, n)
  PROVE  WriteRemovalCleanup(r, n)
<1> USE ZenonT(60)
<1> SameExcept(r, n, {"active", "retired", "locked", "phase", "outcome", "moved"}) /\ DOMAIN r = Fields
  BY DEF RebootTrashChange, Kept, WellFormed
<1> SameRequest(r, n)
  BY RequestKept
<1> USE DEF SameRequest
<1> /\ n.attempt = r.attempt /\ n.resolution = r.resolution /\ n.requires = r.requires
    /\ n.recoveryPending = r.recoveryPending
    /\ n.operationRetry = r.operationRetry /\ n.packageAttempt = r.packageAttempt
    /\ n.bootSession = r.bootSession /\ n.reconciled = r.reconciled
    /\ n.packageRetry = r.packageRetry /\ n.released = r.released
    /\ n.finalizing = r.finalizing
  BY FieldNames DEF SameExcept
<1> n.active.kind = "none"
  BY ClearedKind DEF RebootTrashChange
<1> r.phase = "intent" /\ r.mode = "trash" /\ r.released = FALSE
  BY DEF Valid, ValidActive, Active, WellFormed
<1> /\ n.retired \subseteq Items /\ Cardinality(n.retired) <= MaxRetired
    /\ n.locked \/ r.selected \subseteq n.retired
    /\ 0 \in 0..Cardinality(r.selected)
  BY RetiringBounded DEF RebootTrashChange
<1> RetiredInto(r, n)
  BY RetiringAgrees DEF RebootTrashChange
<1> USE DEF RebootTrashChange
<1> ValidShape(n)
  BY DEF Valid, ValidShape, Phases
<1> ValidContext(n)
  BY DEF Valid, ValidContext, ValidActive, Standalone, ValidShape
<1> ValidActive(n)
  BY DEF ValidActive, Active
<1> ValidResolution(n)
  BY DEF Valid, ValidResolution
<1> ValidFlags(n)
  BY DEF Valid, ValidFlags, Active
<1> ValidSelection(n)
  BY DEF Valid, ValidSelection
<1> ValidPhase(n)
  BY DEF Valid, ValidActive, ValidPhase
<1> ValidDurableFinish(r, n)
  BY DEF ValidDurableFinish, Active, SameExcept
<1> QED
  BY DEF WriteRemovalCleanup, Valid, ValidRemovalCleanupTransition,
         ValidRemovalExecutionTransition

\* The writer accepts the resolution of a Trash child with an invalid receipt.
LEMMA ResolvedTrashAccepted ==
  ASSUME NEW r, WellFormed(r), Valid(r), Counted,
         r.resolution = "trash_receipt_invalid", NEW n, ResolvedTrashChange(r, n)
  PROVE  Valid(n)
<1> USE ZenonT(60)
<1> SameExcept(r, n, {"active", "resolution", "requires", "recoveryPending", "retired", "locked",
                       "phase", "outcome", "moved", "operationRetry", "packageRetry"}) /\ DOMAIN r = Fields
  BY DEF ResolvedTrashChange, Kept, WellFormed
<1> SameRequest(r, n)
  BY RequestKept
<1> USE DEF SameRequest
<1> /\ n.attempt = r.attempt /\ n.packageAttempt = r.packageAttempt
    /\ n.bootSession = r.bootSession /\ n.reconciled = r.reconciled
    /\ n.released = r.released /\ n.finalizing = r.finalizing
  BY FieldNames DEF SameExcept
<1> n.active.kind = "none"
  BY ClearedKind DEF ResolvedTrashChange
<1> Active(r) /\ r.active.kind = "trash" /\ r.finalizing = FALSE
  BY DEF Valid, ValidResolution, ValidResolutionForKind, WellFormed
<1> r.phase = "intent" /\ r.mode = "trash" /\ r.released = FALSE
  BY DEF Valid, ValidActive, Active, WellFormed
<1> /\ n.retired \subseteq Items /\ Cardinality(n.retired) <= MaxRetired
    /\ n.locked \/ r.selected \subseteq n.retired
    /\ 0 \in 0..Cardinality(r.selected)
  BY RetiringBounded DEF ResolvedTrashChange
<1> RetiredInto(r, n)
  BY RetiringAgrees DEF ResolvedTrashChange
<1> USE DEF ResolvedTrashChange
<1> ValidShape(n)
  BY DEF Valid, ValidShape, Phases
<1> ValidContext(n)
  BY DEF Valid, ValidContext, ValidActive, Standalone, ValidShape
<1> ValidActive(n)
  BY DEF ValidActive, Active
<1> ValidResolution(n)
  BY DEF ValidResolution, Active
<1> ValidFlags(n)
  BY DEF Valid, ValidFlags, Active
<1> ValidSelection(n)
  BY DEF Valid, ValidSelection
<1> ValidPhase(n)
  BY DEF Valid, ValidActive, ValidPhase
<1> QED
  BY DEF Valid

\* The writer accepts the resolution of a package child.
LEMMA ResolvedPackageAccepted ==
  ASSUME NEW r, WellFormed(r), Valid(r), r.resolution # "", r.active.kind = "package",
         NEW n, ResolvedPackageChange(r, n)
  PROVE  Valid(n)
<1> USE ZenonT(60)
<1> SameExcept(r, n, {"active", "resolution", "requires", "recoveryPending", "phase", "bootSession",
                       "reconciled", "packageRetry", "released", "finalizing"}) /\ DOMAIN r = Fields
  BY DEF ResolvedPackageChange, Kept, WellFormed
<1> SameRequest(r, n)
  BY RequestKept
<1> USE DEF SameRequest
<1> /\ n.retired = r.retired /\ n.locked = r.locked /\ n.moved = r.moved
    /\ n.outcome = r.outcome /\ n.attempt = r.attempt
    /\ n.operationRetry = r.operationRetry /\ n.packageAttempt = r.packageAttempt
  BY FieldNames DEF SameExcept
<1> n.active.kind = "none"
  BY ClearedKind DEF ResolvedPackageChange
<1> r.phase = "in_flight"
  BY DEF Valid, ValidActive
<1> USE DEF ResolvedPackageChange
<1> ValidShape(n)
  BY DEF Valid, ValidShape, Phases
<1> ValidContext(n)
  BY ContextKept
<1> ValidActive(n)
  BY DEF Valid, ValidActive, Active, Kinds
<1> ValidResolution(n)
  BY DEF ValidResolution, Active
<1> ValidFlags(n)
  BY DEF Valid, ValidFlags, Active
<1> ValidSelection(n)
  BY DEF Valid, ValidSelection
<1> ValidPhase(n)
  BY DEF Valid, ValidPhase, PackageReady
<1> QED
  BY DEF Valid

\* The writer accepts the resolution of a child that will be repeated.
LEMMA ResolvedRetryAccepted ==
  ASSUME NEW r, WellFormed(r), Valid(r), r.resolution # "", r.active.kind # "package",
         NEW n, ResolvedRetryChange(r, n)
  PROVE  Valid(n)
<1> USE ZenonT(60)
<1> SameExcept(r, n, {"active", "resolution", "requires", "recoveryPending",
                       "phase", "operationRetry", "packageRetry"}) /\ DOMAIN r = Fields
  BY DEF ResolvedRetryChange, Kept, WellFormed
<1> SameRequest(r, n)
  BY RequestKept
<1> USE DEF SameRequest
<1> /\ n.retired = r.retired /\ n.locked = r.locked /\ n.moved = r.moved
    /\ n.outcome = r.outcome /\ n.attempt = r.attempt
    /\ n.packageAttempt = r.packageAttempt /\ n.bootSession = r.bootSession
    /\ n.reconciled = r.reconciled /\ n.released = r.released
    /\ n.finalizing = r.finalizing
  BY FieldNames DEF SameExcept
<1> n.active.kind = "none"
  BY ClearedKind DEF ResolvedRetryChange
<1> Active(r) /\ r.finalizing = FALSE /\ r.released = FALSE
  BY DEF Valid, ValidResolution, WellFormed
<1> r.phase = "intent"
  BY DEF Valid, ValidActive, Kinds, Active
<1> USE DEF ResolvedRetryChange
<1> ValidShape(n)
  BY DEF Valid, ValidShape
<1> ValidContext(n)
  BY ContextKept
<1> ValidActive(n)
  BY DEF Valid, ValidActive, Active, Kinds
<1> ValidResolution(n)
  BY DEF ValidResolution, Active
<1> ValidFlags(n)
  BY DEF Valid, ValidFlags, Active
<1> ValidSelection(n)
  BY DEF Valid, ValidSelection
<1> ValidPhase(n)
  BY DEF Valid, ValidPhase, PackageReady
<1> QED
  BY DEF Valid

\* The writer accepts the mark of a stale inventory
\* (MarkRemovalDataRefreshRequired).
LEMMA RefreshAccepted ==
  ASSUME NEW r, WellFormed(r), Valid(r), Retraceable(r), Counted,
         CanMarkRemovalDataRefreshRequired(r), TornDown(r), NEW n,
         RefreshChange(r, n)
  PROVE  WriteRemovalCleanup(r, n)
<1> USE ZenonT(60)
<1> SameExcept(r, n, {"retired", "locked", "phase", "outcome"}) /\ DOMAIN r = Fields
  BY DEF RefreshChange, Kept, WellFormed
<1> SameRequest(r, n)
  BY RequestKept
<1> USE DEF SameRequest
<1> /\ n.moved = r.moved /\ n.attempt = r.attempt /\ n.active = r.active
    /\ n.resolution = r.resolution /\ n.requires = r.requires
    /\ n.recoveryPending = r.recoveryPending
    /\ n.operationRetry = r.operationRetry /\ n.packageAttempt = r.packageAttempt
    /\ n.bootSession = r.bootSession /\ n.reconciled = r.reconciled
    /\ n.packageRetry = r.packageRetry /\ n.released = r.released
    /\ n.finalizing = r.finalizing
  BY FieldNames DEF SameExcept
<1> ~Active(r) /\ r.resolution = "" /\ ~r.recoveryPending /\ r.mode = "trash"
  BY DEF CanMarkRemovalDataRefreshRequired, Quiet
<1> r.phase = "intent" \/ (r.phase = "data_outcome" /\ r.outcome # "completed")
  BY DEF CanMarkRemovalDataRefreshRequired
<1> ~r.operationRetry /\ r.packageAttempt = 0 /\ r.bootSession = 0
  BY DEF CanMarkRemovalDataRefreshRequired, Valid, ValidPhase
<1> r.active.kind = "none"
  BY DEF Active
<1> /\ n.retired \subseteq Items /\ Cardinality(n.retired) <= MaxRetired
    /\ n.locked \/ r.selected \subseteq n.retired
    /\ 0 \in 0..Cardinality(r.selected)
  BY RetiringBounded DEF RefreshChange
<1> RetiredInto(r, n)
  BY RetiringAgrees DEF RefreshChange
<1> USE DEF RefreshChange
<1> ValidShape(n)
  BY DEF Valid, ValidShape, Phases
<1> ValidContext(n)
  BY DEF Valid, ValidContext, Retraceable, Standalone, ValidShape, TornDown
<1> ValidActive(n)
  BY DEF Valid, ValidActive, Active, Kinds
<1> ValidResolution(n)
  BY DEF Valid, ValidResolution, Active
<1> ValidFlags(n)
  BY DEF Valid, ValidFlags, Active
<1> ValidSelection(n)
  BY DEF Valid, ValidSelection
<1> ValidPhase(n)
  BY DEF Valid, ValidPhase, DataOutcomes
<1> ValidPhaseEdge(r, n)
  BY DEF ValidPhaseEdge, Progress, SameExcept
<1> QED
  BY DEF WriteRemovalCleanup, Valid, ValidRemovalCleanupTransition, ValidPhaseEdge

\* The writer accepts the release of the gate after a recovery.
LEMMA RecoveryReleaseAccepted ==
  ASSUME NEW r, WellFormed(r), Valid(r), r.recoveryPending, NEW n,
         RecoveryReleaseChange(r, n)
  PROVE  WriteRemovalCleanup(r, n)
<1> USE ZenonT(60)
<1> SameExcept(r, n, {"recoveryPending"}) /\ DOMAIN r = Fields
  BY DEF RecoveryReleaseChange, Kept, WellFormed
<1> SameRequest(r, n)
  BY RequestKept
<1> USE DEF SameRequest
<1> /\ n.phase = r.phase /\ n.retired = r.retired /\ n.locked = r.locked
    /\ n.moved = r.moved /\ n.outcome = r.outcome /\ n.attempt = r.attempt
    /\ n.active = r.active /\ n.resolution = r.resolution
    /\ n.requires = r.requires /\ n.operationRetry = r.operationRetry
    /\ n.packageAttempt = r.packageAttempt /\ n.bootSession = r.bootSession
    /\ n.reconciled = r.reconciled /\ n.packageRetry = r.packageRetry
    /\ n.released = r.released /\ n.finalizing = r.finalizing
  BY FieldNames DEF SameExcept
<1> r.active.kind = "none"
  BY DEF Valid, ValidResolution, Active
<1> USE DEF RecoveryReleaseChange
<1> ValidShape(n)
  BY DEF Valid, ValidShape
<1> ValidContext(n)
  BY ContextKept
<1> ValidActive(n)
  BY DEF Valid, ValidActive, Active, Kinds
<1> ValidResolution(n)
  BY DEF Valid, ValidResolution, Active
<1> ValidFlags(n)
  BY DEF Valid, ValidFlags, Active
<1> ValidSelection(n)
  BY DEF Valid, ValidSelection
<1> ValidPhase(n)
  BY DEF Valid, ValidPhase, PackageReady
<1> r.recoveryPending /\ ~n.recoveryPending
  BY DEF Active
<1> QED
  BY DEF WriteRemovalCleanup, Valid, ValidRemovalCleanupTransition

\* Two records with the same fields are the same record.
LEMMA SameRecord ==
  ASSUME NEW r, WellFormed(r), NEW n, WellFormed(n), SameExcept(r, n, {})
  PROVE  r = n
<1>1. \A f \in Fields : r[f] = n[f]
  BY Zenon DEF SameExcept, WellFormed
<1>2. [f \in Fields |-> r[f]] = [f \in Fields |-> n[f]]
  BY <1>1, Zenon
<1> QED
  BY <1>2, Zenon DEF WellFormed

\* The writer accepts the release of the gate of a verified removal.
LEMMA VerifiedReleaseAccepted ==
  ASSUME NEW r, WellFormed(r), Valid(r), ~r.recoveryPending, ~Active(r),
         r.resolution = "", ~r.finalizing, r.phase = "verified", NEW n,
         VerifiedReleaseChange(r, n)
  PROVE  WriteRemovalCleanup(r, n)
<1> USE ZenonT(60)
<1> SameExcept(r, n, {"released"}) /\ DOMAIN r = Fields
  BY DEF VerifiedReleaseChange, Kept, WellFormed
<1> SameRequest(r, n)
  BY RequestKept
<1> USE DEF SameRequest
<1> /\ n.phase = r.phase /\ n.retired = r.retired /\ n.locked = r.locked
    /\ n.moved = r.moved /\ n.outcome = r.outcome /\ n.attempt = r.attempt
    /\ n.active = r.active /\ n.resolution = r.resolution
    /\ n.requires = r.requires /\ n.recoveryPending = r.recoveryPending
    /\ n.operationRetry = r.operationRetry /\ n.packageAttempt = r.packageAttempt
    /\ n.bootSession = r.bootSession /\ n.reconciled = r.reconciled
    /\ n.packageRetry = r.packageRetry /\ n.finalizing = r.finalizing
  BY FieldNames DEF SameExcept
<1> n.released = TRUE /\ WellFormed(n)
  BY DEF VerifiedReleaseChange, Kept
<1> r.active.kind = "none"
  BY DEF Active
<1> USE DEF VerifiedReleaseChange
<1> ValidShape(n)
  BY DEF Valid, ValidShape
<1> ValidContext(n)
  BY ContextKept
<1> ValidActive(n)
  BY DEF Valid, ValidActive, Active, Kinds
<1> ValidResolution(n)
  BY DEF Valid, ValidResolution, Active
<1> ValidFlags(n)
  BY DEF Valid, ValidFlags, Active
<1> ValidSelection(n)
  BY DEF Valid, ValidSelection
<1> ValidPhase(n)
  BY DEF Valid, ValidPhase, PackageReady
<1> \/ r = n
    \/ ~r.released /\ SameExcept(r, n, {"released", "finalizing"})
  <2>1. CASE r.released
    <3>1. SameExcept(r, n, {})
      BY <2>1 DEF SameExcept, WellFormed
    <3> QED
      BY <3>1, SameRecord
  <2>2. CASE ~r.released
    BY <2>2 DEF SameExcept
  <2> QED
    BY <2>1, <2>2
<1> QED
  BY DEF WriteRemovalCleanup, Valid, ValidRemovalCleanupTransition

\* The writer accepts the release of the gate for finalization.
LEMMA FinalizationAccepted ==
  ASSUME NEW r, WellFormed(r), Valid(r), Quiet(r), r.phase = "verified", NEW n,
         FinalizationChange(r, n)
  PROVE  WriteRemovalCleanup(r, n)
<1> USE ZenonT(60)
<1> SameExcept(r, n, {"released", "finalizing"}) /\ DOMAIN r = Fields
  BY DEF FinalizationChange, Kept, WellFormed
<1> SameRequest(r, n)
  BY RequestKept
<1> USE DEF SameRequest
<1> /\ n.phase = r.phase /\ n.retired = r.retired /\ n.locked = r.locked
    /\ n.moved = r.moved /\ n.outcome = r.outcome /\ n.attempt = r.attempt
    /\ n.active = r.active /\ n.resolution = r.resolution
    /\ n.requires = r.requires /\ n.recoveryPending = r.recoveryPending
    /\ n.operationRetry = r.operationRetry /\ n.packageAttempt = r.packageAttempt
    /\ n.bootSession = r.bootSession /\ n.reconciled = r.reconciled
    /\ n.packageRetry = r.packageRetry
  BY FieldNames DEF SameExcept
<1> n.released = TRUE /\ n.finalizing = TRUE /\ WellFormed(n)
  BY DEF FinalizationChange, Kept
<1> ~Active(r) /\ r.resolution = "" /\ ~r.recoveryPending
  BY DEF Quiet
<1> r.active.kind = "none"
  BY DEF Active
<1> r.finalizing => r.released
  BY DEF Valid, ValidFlags
<1> USE DEF FinalizationChange
<1> ValidShape(n)
  BY DEF Valid, ValidShape
<1> ValidContext(n)
  BY ContextKept
<1> ValidActive(n)
  BY DEF Valid, ValidActive, Active, Kinds
<1> ValidResolution(n)
  BY DEF Valid, ValidResolution, Active
<1> ValidFlags(n)
  BY DEF Valid, ValidFlags, Active
<1> ValidSelection(n)
  BY DEF Valid, ValidSelection
<1> ValidPhase(n)
  BY DEF Valid, ValidPhase, PackageReady
<1> \/ r = n \/ ~r.released
    \/ (r.released /\ ~r.finalizing /\ SameExcept(r, n, {"finalizing"}))
  <2>1. CASE r.finalizing
    <3>1. SameExcept(r, n, {})
      BY <2>1 DEF SameExcept, WellFormed
    <3> QED
      BY <3>1, SameRecord
  <2>2. CASE r.released /\ ~r.finalizing
    <3>1. r.released = n.released
      BY <2>2 DEF WellFormed
    <3> QED
      BY <2>2, <3>1 DEF SameExcept
  <2> QED
    BY <2>1, <2>2
<1> QED
  BY DEF WriteRemovalCleanup, Valid, ValidRemovalCleanupTransition

\* The writer accepts the confirmation of a standalone teardown of an earlier
\* boot, its boundary native.
LEMMA RebootStandaloneAccepted ==
  ASSUME NEW r, WellFormed(r), Valid(r), Standalone(r), r.phase = "intent",
         r.resolution = "", Active(r), NEW b, b # "", NEW n, RebootStandaloneChange(r, n, b)
  PROVE  Valid(n)
<1> USE ZenonT(60)
<1> SameExcept(r, n, {"active", "nativeState", "verified",
                       "nativeRecovery", "operationRetry"}) /\ DOMAIN r = Fields
  BY DEF RebootStandaloneChange, Kept, WellFormed
<1> /\ n.context = r.context /\ n.mode = r.mode /\ n.selected = r.selected
    /\ n.revision = r.revision /\ n.origin = r.origin
    /\ n.originState = r.originState /\ n.teardownDone = r.teardownDone
    /\ n.inventory = r.inventory
  BY FieldNames DEF SameExcept
<1> /\ n.phase = r.phase /\ n.retired = r.retired /\ n.locked = r.locked
    /\ n.moved = r.moved /\ n.outcome = r.outcome /\ n.attempt = r.attempt
    /\ n.resolution = r.resolution /\ n.requires = r.requires
    /\ n.recoveryPending = r.recoveryPending
    /\ n.packageAttempt = r.packageAttempt /\ n.bootSession = r.bootSession
    /\ n.reconciled = r.reconciled /\ n.packageRetry = r.packageRetry
    /\ n.released = r.released /\ n.finalizing = r.finalizing
  BY FieldNames DEF SameExcept
<1> n.active.kind = "none"
  BY ClearedKind DEF RebootStandaloneChange
<1> USE DEF RebootStandaloneChange
<1> ValidShape(n)
  BY DEF Valid, ValidShape
<1> ValidContext(n)
  BY DEF Valid, ValidContext, Standalone
<1> ValidActive(n)
  BY DEF Valid, ValidActive, Active
<1> ValidResolution(n)
  BY DEF Valid, ValidResolution, Active
<1> ValidFlags(n)
  BY DEF Valid, ValidFlags, Active, ValidActive, ValidShape
<1> ValidSelection(n)
  BY DEF Valid, ValidSelection
<1> ValidPhase(n)
  BY DEF Valid, ValidPhase, PackageReady
<1> QED
  BY DEF Valid

\* The writer accepts the mark of a native recovery.
LEMMA MarkNativeAccepted ==
  ASSUME NEW r, WellFormed(r), Valid(r), Standalone(r), NEW n, MarkNativeChange(r, n)
  PROVE  Valid(n)
<1> USE ZenonT(60)
<1> SameExcept(r, n, {"nativeRecovery"}) /\ DOMAIN r = Fields
  BY DEF MarkNativeChange, Kept, WellFormed
<1> /\ n.context = r.context /\ n.mode = r.mode /\ n.selected = r.selected
    /\ n.revision = r.revision /\ n.origin = r.origin
    /\ n.originState = r.originState /\ n.verified = r.verified
    /\ n.nativeState = r.nativeState /\ n.teardownDone = r.teardownDone
    /\ n.inventory = r.inventory
  BY FieldNames DEF SameExcept
<1> /\ n.phase = r.phase /\ n.retired = r.retired /\ n.locked = r.locked
    /\ n.moved = r.moved /\ n.outcome = r.outcome /\ n.attempt = r.attempt
    /\ n.active = r.active /\ n.resolution = r.resolution
    /\ n.requires = r.requires /\ n.recoveryPending = r.recoveryPending
    /\ n.operationRetry = r.operationRetry /\ n.packageAttempt = r.packageAttempt
    /\ n.bootSession = r.bootSession /\ n.reconciled = r.reconciled
    /\ n.packageRetry = r.packageRetry /\ n.released = r.released
    /\ n.finalizing = r.finalizing
  BY FieldNames DEF SameExcept
<1> USE DEF MarkNativeChange
<1> ValidShape(n)
  BY DEF Valid, ValidShape
<1> ValidContext(n)
  BY DEF Valid, ValidContext, Standalone
<1> ValidActive(n)
  BY DEF Valid, ValidActive, Active, Kinds
<1> ValidResolution(n)
  BY DEF Valid, ValidResolution, Active
<1> ValidFlags(n)
  BY DEF Valid, ValidFlags, Active
<1> ValidSelection(n)
  BY DEF Valid, ValidSelection
<1> ValidPhase(n)
  BY DEF Valid, ValidPhase, PackageReady
<1> QED
  BY DEF Valid

\* The writer accepts the package stage of a request whose data is settled
\* (PrepareRemovalPackageCleanup).
LEMMA PrepareAccepted ==
  ASSUME NEW r, WellFormed(r), Valid(r), Retraceable(r), CanPrepareRemovalPackageCleanup(r),
         TornDown(r), NEW n, PrepareChange(r, n)
  PROVE  WriteRemovalCleanup(r, n)
<1> USE ZenonT(60)
<1> SameExcept(r, n, {"phase", "packageRetry"}) /\ DOMAIN r = Fields
  BY DEF PrepareChange, Kept, WellFormed
<1> SameRequest(r, n)
  BY RequestKept
<1> USE DEF SameRequest
<1> /\ n.retired = r.retired /\ n.locked = r.locked /\ n.moved = r.moved
    /\ n.outcome = r.outcome /\ n.attempt = r.attempt /\ n.active = r.active
    /\ n.resolution = r.resolution /\ n.requires = r.requires
    /\ n.recoveryPending = r.recoveryPending /\ n.operationRetry = r.operationRetry
    /\ n.packageAttempt = r.packageAttempt /\ n.bootSession = r.bootSession
    /\ n.reconciled = r.reconciled /\ n.released = r.released
    /\ n.finalizing = r.finalizing
  BY FieldNames DEF SameExcept
<1> /\ ~Active(r) /\ ~r.operationRetry /\ r.resolution = "" /\ ~r.recoveryPending
    /\ \/ r.mode = "preserve" /\ r.phase = "intent"
       \/ r.mode # "preserve" /\ r.phase = "data_outcome" /\ r.outcome = "completed"
  BY DEF CanPrepareRemovalPackageCleanup, Quiet
<1> /\ r.active.kind = "none" /\ r.packageAttempt = 0 /\ r.bootSession = 0
    /\ r.packageRetry = FALSE /\ ~r.reconciled
  BY DEF Valid, ValidPhase, ValidFlags, Active, Retraceable
<1> PackageReady(r)
  BY DEF Valid, ValidPhase, ValidSelection, PackageReady
<1> USE DEF PrepareChange
<1> ValidShape(n)
  BY DEF Valid, ValidShape, Phases
<1> ValidContext(n)
  BY DEF Valid, ValidContext, Retraceable, Standalone, ValidShape, TornDown
<1> ValidActive(n)
  BY DEF Valid, ValidActive, Active, Kinds
<1> ValidResolution(n)
  BY DEF Valid, ValidResolution, Active
<1> ValidFlags(n)
  BY DEF Valid, ValidFlags, Active
<1> ValidSelection(n)
  BY DEF Valid, ValidSelection
<1> ValidPhase(n)
  BY DEF Valid, ValidPhase, PackageReady
<1> ValidPhaseEdge(r, n)
  BY DEF PackageReady, ValidPhaseEdge, Progress, SameExcept
<1> QED
  BY DEF WriteRemovalCleanup, Valid, ValidRemovalCleanupTransition, ValidPhaseEdge

\* The writer accepts the package stage after a completed outcome
\* (AdvanceRemovalDataOutcomeToPackagePending).
LEMMA AdvanceAccepted ==
  ASSUME NEW r, WellFormed(r), Valid(r), CanAdvanceRemovalDataOutcome(r), NEW n,
         AdvanceChange(r, n)
  PROVE  WriteRemovalCleanup(r, n)
<1> USE ZenonT(60)
<1> SameExcept(r, n, {"phase"}) /\ DOMAIN r = Fields
  BY DEF AdvanceChange, Kept, WellFormed
<1> SameRequest(r, n)
  BY RequestKept
<1> USE DEF SameRequest
<1> /\ n.retired = r.retired /\ n.locked = r.locked /\ n.moved = r.moved
    /\ n.outcome = r.outcome /\ n.attempt = r.attempt /\ n.active = r.active
    /\ n.resolution = r.resolution /\ n.requires = r.requires
    /\ n.recoveryPending = r.recoveryPending /\ n.operationRetry = r.operationRetry
    /\ n.packageAttempt = r.packageAttempt /\ n.bootSession = r.bootSession
    /\ n.reconciled = r.reconciled /\ n.packageRetry = r.packageRetry
    /\ n.released = r.released /\ n.finalizing = r.finalizing
  BY FieldNames DEF SameExcept
<1> /\ r.phase = "data_outcome" /\ r.outcome = "completed"
    /\ r.moved = Cardinality(r.selected)
  BY DEF CanAdvanceRemovalDataOutcome
<1> /\ r.active.kind = "none" /\ r.mode # "preserve"
    /\ r.packageAttempt = 0 /\ r.bootSession = 0
  BY DEF Valid, ValidActive, Active, Kinds, ValidSelection, ValidPhase
<1> ~r.reconciled /\ ~r.packageRetry /\ ~r.operationRetry
  BY DEF Valid, ValidFlags
<1> USE DEF AdvanceChange
<1> ValidShape(n)
  BY DEF Valid, ValidShape, Phases
<1> ValidContext(n)
  BY ContextKept
<1> ValidActive(n)
  BY DEF Valid, ValidActive, Active, Kinds
<1> ValidResolution(n)
  BY DEF Valid, ValidResolution, Active
<1> ValidFlags(n)
  BY DEF Valid, ValidFlags, Active
<1> ValidSelection(n)
  BY DEF Valid, ValidSelection
<1> ValidPhase(n)
  BY DEF Valid, ValidPhase, PackageReady
<1> ValidPhaseEdge(r, n)
  BY DEF ValidPhaseEdge, Progress, SameExcept
<1> QED
  BY DEF WriteRemovalCleanup, Valid, ValidRemovalCleanupTransition, ValidPhaseEdge

\* The validator accepts a completed standalone teardown.
LEMMA CompleteAccepted ==
  ASSUME NEW r, WellFormed(r), Valid(r), CanCompleteStandaloneTeardown(r), NEW n,
         CompleteChange(r, n), n.verified # ""
  PROVE  Valid(n)
<1> USE ZenonT(60)
<1> SameExcept(r, n, {"active", "teardownDone", "nativeState", "verified"}) /\ DOMAIN r = Fields
  BY DEF CompleteChange, Kept, WellFormed
<1> /\ n.context = r.context /\ n.mode = r.mode /\ n.selected = r.selected
    /\ n.revision = r.revision /\ n.origin = r.origin /\ n.originState = r.originState
    /\ n.nativeRecovery = r.nativeRecovery /\ n.inventory = r.inventory
  BY FieldNames DEF SameExcept
<1> /\ n.phase = r.phase /\ n.retired = r.retired /\ n.locked = r.locked
    /\ n.moved = r.moved /\ n.outcome = r.outcome /\ n.attempt = r.attempt
    /\ n.resolution = r.resolution /\ n.requires = r.requires
    /\ n.recoveryPending = r.recoveryPending /\ n.operationRetry = r.operationRetry
    /\ n.packageAttempt = r.packageAttempt /\ n.bootSession = r.bootSession
    /\ n.reconciled = r.reconciled /\ n.packageRetry = r.packageRetry
    /\ n.released = r.released /\ n.finalizing = r.finalizing
  BY FieldNames DEF SameExcept
<1> n.active.kind = "none"
  BY ClearedKind DEF CompleteChange
<1> /\ r.context = "standalone" /\ r.phase = "intent" /\ r.resolution = ""
    /\ r.active.kind = "teardown"
  BY DEF CanCompleteStandaloneTeardown, Standalone
<1> USE DEF CompleteChange
<1> ValidShape(n)
  BY DEF Valid, ValidShape
<1> ValidContext(n)
  BY DEF Valid, ValidContext
<1> ValidActive(n)
  BY DEF Valid, ValidActive, Active, Kinds
<1> ValidResolution(n)
  BY DEF Valid, ValidResolution, Active
<1> ValidFlags(n)
  BY DEF Valid, ValidFlags, Active
<1> ValidSelection(n)
  BY DEF Valid, ValidSelection
<1> ValidPhase(n)
  BY DEF Valid, ValidPhase, PackageReady
<1> QED
  BY DEF Valid

\* The validator accepts the native boundary a recovery has proved.
LEMMA RecoverBoundaryAccepted ==
  ASSUME NEW r, WellFormed(r), Valid(r), CanRecoverStandaloneTeardownBoundary(r),
         NEW b, b # "", NEW n, RecoverBoundaryChange(r, n, b)
  PROVE  Valid(n)
<1> USE ZenonT(60)
<1> SameExcept(r, n, {"nativeState", "verified", "nativeRecovery", "operationRetry"}) /\ DOMAIN r = Fields
  BY DEF RecoverBoundaryChange, Kept, WellFormed
<1> /\ n.context = r.context /\ n.mode = r.mode /\ n.selected = r.selected
    /\ n.revision = r.revision /\ n.origin = r.origin /\ n.originState = r.originState
    /\ n.teardownDone = r.teardownDone /\ n.inventory = r.inventory
  BY FieldNames DEF SameExcept
<1> /\ n.phase = r.phase /\ n.retired = r.retired /\ n.locked = r.locked
    /\ n.moved = r.moved /\ n.outcome = r.outcome /\ n.attempt = r.attempt
    /\ n.active = r.active /\ n.resolution = r.resolution /\ n.requires = r.requires
    /\ n.recoveryPending = r.recoveryPending /\ n.packageAttempt = r.packageAttempt
    /\ n.bootSession = r.bootSession /\ n.reconciled = r.reconciled
    /\ n.packageRetry = r.packageRetry /\ n.released = r.released
    /\ n.finalizing = r.finalizing
  BY FieldNames DEF SameExcept
<1> /\ r.context = "standalone" /\ r.phase = "intent" /\ ~Active(r)
  BY DEF CanRecoverStandaloneTeardownBoundary, Standalone, Quiet
<1> r.active.kind = "none"
  BY DEF Active
<1> USE DEF RecoverBoundaryChange
<1> ValidShape(n)
  BY DEF Valid, ValidShape
<1> ValidContext(n)
  BY DEF Valid, ValidContext
<1> ValidActive(n)
  BY DEF Valid, ValidActive, Active, Kinds
<1> ValidResolution(n)
  BY DEF Valid, ValidResolution, Active
<1> ValidFlags(n)
  BY DEF Valid, ValidFlags, Active
<1> ValidSelection(n)
  BY DEF Valid, ValidSelection
<1> ValidPhase(n)
  BY DEF Valid, ValidPhase, PackageReady
<1> QED
  BY DEF Valid

\* The validator accepts that a native recovery is over.
LEMMA ClearNativeAccepted ==
  ASSUME NEW r, WellFormed(r), Valid(r), Standalone(r), NEW n, ClearNativeChange(r, n)
  PROVE  Valid(n)
<1> USE ZenonT(60)
<1> SameExcept(r, n, {"nativeRecovery"}) /\ DOMAIN r = Fields
  BY DEF ClearNativeChange, Kept, WellFormed
<1> /\ n.context = r.context /\ n.mode = r.mode /\ n.selected = r.selected
    /\ n.revision = r.revision /\ n.origin = r.origin /\ n.originState = r.originState
    /\ n.verified = r.verified /\ n.nativeState = r.nativeState
    /\ n.teardownDone = r.teardownDone /\ n.inventory = r.inventory
  BY FieldNames DEF SameExcept
<1> /\ n.phase = r.phase /\ n.retired = r.retired /\ n.locked = r.locked
    /\ n.moved = r.moved /\ n.outcome = r.outcome /\ n.attempt = r.attempt
    /\ n.active = r.active /\ n.resolution = r.resolution /\ n.requires = r.requires
    /\ n.recoveryPending = r.recoveryPending /\ n.operationRetry = r.operationRetry
    /\ n.packageAttempt = r.packageAttempt /\ n.bootSession = r.bootSession
    /\ n.reconciled = r.reconciled /\ n.packageRetry = r.packageRetry
    /\ n.released = r.released /\ n.finalizing = r.finalizing
  BY FieldNames DEF SameExcept
<1> USE DEF ClearNativeChange
<1> ValidShape(n)
  BY DEF Valid, ValidShape
<1> ValidContext(n)
  BY DEF Valid, ValidContext, Standalone
<1> ValidActive(n)
  BY DEF Valid, ValidActive, Active, Kinds
<1> ValidResolution(n)
  BY DEF Valid, ValidResolution, Active
<1> ValidFlags(n)
  BY DEF Valid, ValidFlags, Active
<1> ValidSelection(n)
  BY DEF Valid, ValidSelection
<1> ValidPhase(n)
  BY DEF Valid, ValidPhase, PackageReady
<1> QED
  BY DEF Valid

\* MarkRemovalExecutionResolution.
ResolutionChange(r, n, why, req) ==
  /\ Kept(r, n, {"resolution", "requires"})
  /\ n.resolution = why /\ n.requires = req

\* The fields the helper replaces.
LEMMA ResolutionFields ==
  ASSUME NEW r, WellFormed(r), NEW why, NEW req
  PROVE  ResolutionChange(r, MarkRemovalExecutionResolution(r, why, req), why, req)
<1> USE ZenonT(60)
<1> DEFINE n == MarkRemovalExecutionResolution(r, why, req)
           F == {"resolution", "requires"}
<1>1. n = [f \in Fields |-> n[f]]
  BY DEF WellFormed, MarkRemovalExecutionResolution
<1>2. SameExcept(r, n, F)
  BY DEF WellFormed, MarkRemovalExecutionResolution, SameExcept
<1>3. n.resolution = why /\ n.requires = req
  BY FieldNames DEF WellFormed, MarkRemovalExecutionResolution
<1>4. Kept(r, n, F)
  BY <1>1, <1>2, KeptShape
<1> QED
  BY <1>3, <1>4 DEF ResolutionChange

\* RecordRemovalDataOutcome.
OutcomeChange(r, n, moved, status) ==
  /\ Kept(r, n, {"phase", "moved", "outcome"})
  /\ n.phase = "data_outcome" /\ n.moved = moved /\ n.outcome = status

\* The fields the helper replaces.
LEMMA OutcomeFields ==
  ASSUME NEW r, WellFormed(r), NEW moved, NEW status
  PROVE  OutcomeChange(r, RecordRemovalDataOutcome(r, moved, status), moved, status)
<1> USE ZenonT(60)
<1> DEFINE n == RecordRemovalDataOutcome(r, moved, status)
           F == {"phase", "moved", "outcome"}
<1>1. n = [f \in Fields |-> n[f]]
  BY DEF WellFormed, RecordRemovalDataOutcome
<1>2. SameExcept(r, n, F)
  BY DEF WellFormed, RecordRemovalDataOutcome, SameExcept
<1>3. n.phase = "data_outcome" /\ n.moved = moved /\ n.outcome = status
  BY FieldNames DEF WellFormed, RecordRemovalDataOutcome
<1>4. Kept(r, n, F)
  BY <1>1, <1>2, KeptShape
<1> QED
  BY <1>3, <1>4 DEF OutcomeChange

\* The writer accepts the mark of a resolved execution.
LEMMA ResolutionAccepted ==
  ASSUME NEW r, WellFormed(r), Valid(r), NEW why, NEW req,
         CanMarkRemovalExecutionResolution(r, why, req), NEW n,
         ResolutionChange(r, n, why, req)
  PROVE  WriteRemovalCleanup(r, n)
<1> USE ZenonT(60)
<1> SameExcept(r, n, {"resolution", "requires"}) /\ DOMAIN r = Fields
  BY DEF ResolutionChange, Kept, WellFormed
<1> SameRequest(r, n)
  BY RequestKept
<1> USE DEF SameRequest
<1> /\ n.phase = r.phase /\ n.retired = r.retired /\ n.locked = r.locked
    /\ n.moved = r.moved /\ n.outcome = r.outcome /\ n.attempt = r.attempt
    /\ n.active = r.active /\ n.recoveryPending = r.recoveryPending
    /\ n.operationRetry = r.operationRetry /\ n.packageAttempt = r.packageAttempt
    /\ n.bootSession = r.bootSession /\ n.reconciled = r.reconciled
    /\ n.packageRetry = r.packageRetry /\ n.released = r.released
    /\ n.finalizing = r.finalizing
  BY FieldNames DEF SameExcept
<1> /\ Active(r) /\ r.resolution = "" /\ ~r.recoveryPending
    /\ ValidResolutionForKind(r.active.kind, why) /\ ValidRoutingRequirement(why, req)
  BY DEF CanMarkRemovalExecutionResolution
<1> ~r.released /\ ~r.finalizing
  BY DEF Valid, ValidActive, ValidFlags
<1> why # ""
  BY DEF ValidResolutionForKind
<1> USE DEF ResolutionChange
<1> ValidShape(n)
  BY DEF Valid, ValidShape
<1> ValidContext(n)
  BY ContextKept
<1> ValidActive(n)
  BY DEF Valid, ValidActive, Active, Standalone
<1> ValidResolution(n)
  BY DEF Valid, ValidResolution, Active
<1> ValidFlags(n)
  BY DEF Valid, ValidFlags, Active
<1> ValidSelection(n)
  BY DEF Valid, ValidSelection
<1> ValidPhase(n)
  BY DEF Valid, ValidPhase, PackageReady
<1> ValidRemovalExecutionTransition(r, n)
  BY DEF ValidRemovalExecutionTransition, Active
<1> QED
  BY DEF WriteRemovalCleanup, Valid, ValidRemovalCleanupTransition

\* The writer accepts the record of an outcome.
LEMMA OutcomeAccepted ==
  ASSUME NEW r, WellFormed(r), Valid(r), Retraceable(r),
         CanRecordRemovalDataOutcome(r), r.mode = "trash", TornDown(r),
         NEW status \in DataOutcomes, NEW moved \in 0..Cardinality(r.selected),
         status = "completed" => moved = Cardinality(r.selected), NEW n,
         OutcomeChange(r, n, moved, status)
  PROVE  WriteRemovalCleanup(r, n)
<1> USE ZenonT(60)
<1> SameExcept(r, n, {"phase", "moved", "outcome"}) /\ DOMAIN r = Fields
  BY DEF OutcomeChange, Kept, WellFormed
<1> SameRequest(r, n)
  BY RequestKept
<1> USE DEF SameRequest
<1> /\ n.retired = r.retired /\ n.locked = r.locked /\ n.attempt = r.attempt
    /\ n.active = r.active /\ n.resolution = r.resolution
    /\ n.requires = r.requires /\ n.recoveryPending = r.recoveryPending
    /\ n.operationRetry = r.operationRetry /\ n.packageAttempt = r.packageAttempt
    /\ n.bootSession = r.bootSession /\ n.reconciled = r.reconciled
    /\ n.packageRetry = r.packageRetry /\ n.released = r.released
    /\ n.finalizing = r.finalizing
  BY FieldNames DEF SameExcept
<1> /\ ~Active(r) /\ r.phase = "intent" /\ ~r.operationRetry
    /\ r.resolution = "" /\ ~r.recoveryPending
  BY DEF CanRecordRemovalDataOutcome, Quiet
<1> r.active.kind = "none"
  BY DEF Active
<1> USE DEF OutcomeChange
<1> ValidShape(n)
  BY DEF Valid, ValidShape, Phases
<1> ValidContext(n)
  BY DEF Valid, ValidContext, Retraceable, Standalone, ValidShape, TornDown
<1> ValidActive(n)
  BY DEF Valid, ValidActive, Active, Kinds
<1> ValidResolution(n)
  BY DEF Valid, ValidResolution, Active
<1> ValidFlags(n)
  BY DEF Valid, ValidFlags, Active
<1> ValidSelection(n)
  BY DEF Valid, ValidSelection
<1> ValidPhase(n)
  BY DEF Valid, ValidPhase, DataOutcomes
<1> ValidPhaseEdge(r, n)
  BY DEF Valid, ValidPhase, ValidPhaseEdge, Progress, SameExcept
<1> QED
  BY DEF WriteRemovalCleanup, Valid, ValidRemovalCleanupTransition, ValidPhaseEdge

\* A request that may supersede a refused selection.
Superseding(r, q) ==
  /\ q.mode \in {"preserve", "trash"} /\ q.items \subseteq Items
  /\ q.mode = "preserve" <=> q.items = {}
  /\ r.context = "integrated" => q.inventory = NoInventory
  /\ r.context = "standalone" => ((q.mode = "preserve") <=> (q.inventory = NoInventory))
  /\ q.mode = "trash" => ~r.locked /\ r.revision < MaxRevisions /\ r.retired \cap q.items = {}

\* The next revision of a Trash selection.
LEMMA NextRevision ==
  ASSUME NEW M \in Nat, NEW a \in 1..M
  PROVE  a + 1 \in 1..(M + 1) /\ (a < M => a + 1 \in 1..M)
  OBVIOUS

\* The writer accepts the request that supersedes a refused selection.
LEMMA SupersedeAccepted ==
  ASSUME NEW r, WellFormed(r), Valid(r), Retraceable(r), Counted, NEW q,
         Superseding(r, q), Quiet(r), r.phase = "refresh", NEW n,
         SupersedeChange(r, n, q)
  PROVE  WriteRemovalCleanup(r, n)
<1> USE ZenonT(60)
<1> SameExcept(r, n, {"phase", "mode", "selected", "inventory", "revision", "moved",
                       "outcome", "packageAttempt", "operationRetry", "packageRetry"}) /\ DOMAIN r = Fields
  BY DEF SupersedeChange, Kept, WellFormed
<1> /\ n.context = r.context /\ n.origin = r.origin /\ n.originState = r.originState
    /\ n.verified = r.verified /\ n.nativeState = r.nativeState
    /\ n.nativeRecovery = r.nativeRecovery /\ n.teardownDone = r.teardownDone
  BY FieldNames DEF SameExcept
<1> /\ n.retired = r.retired /\ n.locked = r.locked /\ n.attempt = r.attempt
    /\ n.active = r.active /\ n.resolution = r.resolution
    /\ n.requires = r.requires /\ n.recoveryPending = r.recoveryPending
    /\ n.bootSession = r.bootSession /\ n.reconciled = r.reconciled
    /\ n.released = r.released /\ n.finalizing = r.finalizing
  BY FieldNames DEF SameExcept
<1> ~Active(r) /\ r.resolution = "" /\ ~r.recoveryPending
  BY DEF Quiet
<1> r.active.kind = "none"
  BY DEF Active
<1> r.mode = "trash" /\ r.operationRetry = FALSE /\ r.packageRetry = FALSE
  BY DEF Valid, ValidShape, ValidSelection, ValidFlags, Retraceable
<1> r.revision \in 1..MaxRevisions
  BY DEF Valid, ValidShape
<1> n.mode = q.mode /\ n.selected = q.items /\ n.inventory = q.inventory /\ n.revision = r.revision + 1
  BY DEF SupersedeChange
<1> n.revision \in 1..(IF n.mode = "trash" THEN MaxRevisions ELSE MaxRevisions + 1)
  BY NextRevision, Bounds DEF Superseding
<1> 0 \in 0..Cardinality(n.selected)
  BY ZeroCounts DEF Counted, Superseding
<1> 0 \in 0..MaxPackages
  BY ZeroCounts, Bounds
<1> SameExcept(r, n, {"phase", "mode", "selected", "inventory", "revision", "moved",
                       "outcome", "packageAttempt", "attempt", "active", "bootSession",
                       "reconciled"})
  BY DEF SameExcept, SupersedeChange
<1> USE DEF SupersedeChange
<1> ValidShape(n)
  BY DEF Valid, ValidShape, Phases, Superseding
<1> ValidContext(n)
  BY DEF Valid, ValidContext, Superseding, ValidShape
<1> ValidActive(n)
  BY DEF Valid, ValidActive, Active, Kinds
<1> ValidResolution(n)
  BY DEF Valid, ValidResolution, Active
<1> ValidFlags(n)
  BY DEF Valid, ValidFlags, Active, Superseding
<1> ValidSelection(n)
  BY DEF ValidSelection, Superseding
<1> ValidPhase(n)
  BY DEF Valid, ValidPhase
<1> ValidRemovalRefreshSupersession(r, n)
  BY DEF ValidRemovalRefreshSupersession, Superseding
<1> QED
  BY DEF WriteRemovalCleanup, Valid, ValidRemovalCleanupTransition

-----------------------------------------------------------------------------

(***************************************************************************)
(* The retry marks and the verified boundary (Retraceable) agree after     *)
(* every step.                                                             *)
(***************************************************************************)

\* The fields a retry depends on.
Retrace == {"context", "verified", "teardownDone", "operationRetry", "packageRetry"}

\* A helper that leaves these fields alone.
LEMMA RetraceKept ==
  ASSUME NEW r, WellFormed(r), Retraceable(r), NEW n, NEW F, Kept(r, n, F), F \cap Retrace = {}
  PROVE  Retraceable(n)
<1> USE Zenon
<1>1. /\ n.context = r.context /\ n.verified = r.verified /\ n.teardownDone = r.teardownDone
      /\ n.operationRetry = r.operationRetry /\ n.packageRetry = r.packageRetry
  BY FieldNames DEF Kept, SameExcept, WellFormed, Retrace
<1> QED
  BY <1>1 DEF Retraceable, Standalone

\* A helper that only sets or clears the mark of the package.
LEMMA RetracePackage ==
  ASSUME NEW r, WellFormed(r), Retraceable(r), NEW n, NEW F, Kept(r, n, F),
         F \cap {"context", "verified", "teardownDone", "operationRetry"} = {},
         n.packageRetry \in BOOLEAN
  PROVE  Retraceable(n)
<1> USE Zenon
<1>1. /\ n.context = r.context /\ n.verified = r.verified /\ n.teardownDone = r.teardownDone
      /\ n.operationRetry = r.operationRetry
  BY FieldNames DEF Kept, SameExcept, WellFormed
<1> QED
  BY <1>1 DEF Retraceable, Standalone

\* A helper that sets the mark of the operation, or clears it where the
\* boundary does not need it.
LEMMA RetraceOperation ==
  ASSUME NEW r, WellFormed(r), Retraceable(r), NEW n, NEW F, Kept(r, n, F),
         F \cap {"context", "verified", "teardownDone"} = {},
         n.packageRetry \in BOOLEAN, n.operationRetry \in BOOLEAN,
         n.operationRetry \/ (Standalone(r) => r.verified = "" \/ r.teardownDone)
  PROVE  Retraceable(n)
<1> USE Zenon
<1>1. n.context = r.context /\ n.verified = r.verified /\ n.teardownDone = r.teardownDone
  BY FieldNames DEF Kept, SameExcept, WellFormed
<1> QED
  BY <1>1 DEF Retraceable, Standalone

\* The end of a child.
LEMMA RetraceFinish ==
  ASSUME Journal, Retraceable(rec), NEW started \in BOOLEAN, NEW clean \in BOOLEAN,
         Finish(started, clean)
  PROVE  Retraceable(rec')
<1> USE Zenon
<1> rec' = FinishExecution(rec, started, clean) /\ WellFormed(rec)
  BY Written DEF Finish, Journal
<1>2. CASE started /\ ~clean
  BY <1>2 DEF FinishExecution
<1>3. CASE (~started \/ clean) /\ rec.active.kind # "package"
  BY <1>3, FinishFields, RetraceKept DEF FinishChange, Retrace
<1>4. CASE started /\ clean /\ rec.active.kind = "package"
  BY <1>4, FinishPackageFields, RetraceKept DEF FinishPackageChange, Retrace
<1>5. CASE ~started /\ rec.active.kind = "package"
  BY <1>5, UnstartedPackageFields, RetracePackage DEF PackageUnarmed
<1> QED
  BY <1>2, <1>3, <1>4, <1>5

\* The confirmation of a reboot.
LEMMA RetraceReboot ==
  ASSUME Journal, Retraceable(rec), NEW absent \in BOOLEAN, Active(rec),
         rec' = ReconcileActiveExecutionAfterBoot(rec, absent)
  PROVE  Retraceable(rec')
<1> USE Zenon
<1> WellFormed(rec) /\ Coherent(rec)
  BY JournalCoherent
<1>2. rec.active.kind \in Kinds
  BY DEF Coherent
<1>3. CASE rec.active.kind = "teardown"
  BY <1>3, RebootTeardownFields, RetraceKept DEF RebootTeardownChange, Retrace
<1>4. CASE rec.active.kind = "trash"
  BY <1>4, RebootTrashFields, RetraceKept DEF RebootTrashChange, Retrace
<1>5. CASE rec.active.kind = "package" /\ absent
  BY <1>5, RebootAbsentFields, RetracePackage DEF RebootAbsentChange
<1>6. CASE rec.active.kind = "package" /\ ~absent
  BY <1>6, RebootPresentFields, RetracePackage DEF RebootPresentChange
<1> QED
  BY <1>2, <1>3, <1>4, <1>5, <1>6 DEF Kinds

\* The resolution of a marked execution.
LEMMA RetraceResolved ==
  ASSUME Journal, Retraceable(rec), rec.resolution # "",
         rec' = ResolvedRemovalExecutionRecord(rec)
  PROVE  Retraceable(rec')
<1> USE Zenon
<1> WellFormed(rec) /\ Coherent(rec)
  BY JournalCoherent
<1>2. CASE rec.resolution = "trash_receipt_invalid"
  <2>1. rec.active.kind = "trash"
    BY <1>2 DEF Coherent, ValidResolutionForKind
  <2>2. Standalone(rec) => rec.teardownDone
    BY <2>1 DEF Coherent
  <2>3. ResolvedTrashChange(rec, rec')
    BY <1>2, ResolvedTrashFields
  <2> QED
    BY <2>2, <2>3, RetraceOperation DEF ResolvedTrashChange
<1>3. CASE rec.resolution # "trash_receipt_invalid" /\ rec.active.kind = "package"
  BY <1>3, ResolvedPackageFields, RetracePackage DEF ResolvedPackageChange
<1>4. CASE rec.resolution # "trash_receipt_invalid" /\ rec.active.kind # "package"
  BY <1>4, ResolvedRetryFields, RetraceOperation DEF ResolvedRetryChange
<1> QED
  BY <1>2, <1>3, <1>4

\* The empty journal and a new intent.
LEMMA RetraceFresh ==
  ASSUME NEW c, NEW req
  PROVE  Retraceable(NoRecord) /\ Retraceable(NewRemovalIntentRecord(c, req))
<1> DEFINE n == NewRemovalIntentRecord(c, req)
<1>1. /\ NoRecord.operationRetry = FALSE /\ NoRecord.packageRetry = FALSE
      /\ NoRecord.verified = "" /\ NoRecord.teardownDone = FALSE
  BY DEF NoRecord
<1>2. /\ n.operationRetry = FALSE /\ n.packageRetry = FALSE
      /\ n.verified = "" /\ n.teardownDone = FALSE
  BY DEF NewRemovalIntentRecord, NoRecord
<1> HIDE DEF n
<1>3. Retraceable(NoRecord) /\ Retraceable(n)
  BY <1>1, <1>2, Zenon DEF Retraceable
<1> QED
  BY <1>3 DEF n

\* The invocations of a command.
LEMMA RetraceInvoke ==
  ASSUME IInv, Retraceable(rec), Invoke
  PROVE  Retraceable(rec')
<1> USE Zenon
<1> WellFormed(rec) /\ Coherent(rec) /\ Journal
  BY JournalCoherent DEF IInv
<1>2. ASSUME NEW m \in Requests, Supersede(m)
      PROVE  Retraceable(rec')
  <2>1. /\ rec' = SupersedeRemovalDataRefreshRequired(rec, NewRequest(m, "native"))
        /\ rec.phase = "refresh"
    BY <1>2, Written DEF Supersede
  <2>2. Standalone(rec) => rec.teardownDone
    BY <2>1 DEF Coherent
  <2> QED
    BY <2>1, <2>2, SupersedeFields, RetraceOperation DEF SupersedeChange
<1>3. CASE ResumeIntent \/ ResumePackage \/ ResumeVerified \/ ResumeMarked \/ ModeRecover
           \/ PrepareRemovalRoutingRecovery
  <2>1. rec' = rec
    BY <1>3 DEF ResumeIntent, ResumePackage, ResumeVerified, ResumeMarked, ModeRecover,
       PrepareRemovalRoutingRecovery
  <2> QED
    BY <2>1
<1>4. CASE MarkRefresh
  <2>1. rec' = MarkRemovalDataRefreshRequired(rec)
    BY <1>4, Written DEF MarkRefresh
  <2> QED
    BY <2>1, RefreshFields, RetraceKept DEF RefreshChange, Retrace
<1>5. CASE AdvanceOutcome
  <2>1. rec' = AdvanceRemovalDataOutcomeToPackagePending(rec)
    BY <1>5, Written DEF AdvanceOutcome
  <2> QED
    BY <2>1, AdvanceFields, RetraceKept DEF AdvanceChange, Retrace
<1>6. CASE ReconcileAfterBoot \/ ReconcileStandaloneAfterBoot
  <2>1. Active(rec)
    BY <1>6 DEF ReconcileAfterBoot, ReconcileStandaloneAfterBoot, CanReconcileActiveExecution
  <2>2. CASE Write(ReconcileActiveExecutionAfterBoot(rec, VerifyAbsent))
    <3>1. rec' = ReconcileActiveExecutionAfterBoot(rec, VerifyAbsent)
      BY <2>2, Written
    <3>2. VerifyAbsent \in BOOLEAN
      BY DEF VerifyAbsent
    <3> QED
      BY <2>1, <3>1, <3>2, RetraceReboot
  <2>3. CASE /\ CanReconcileStandaloneTeardown(rec, boot)
             /\ Replace(ReconcileStandaloneTeardownAfterBoot(rec, box))
    <3> DEFINE n == ReconcileStandaloneTeardownAfterBoot(rec, box)
    <3>1. rec' = n /\ ~rec.teardownDone
      BY <2>3, Written DEF CanReconcileStandaloneTeardown
    <3>2. RebootStandaloneChange(rec, n, box)
      BY RebootStandaloneFields
    <3> HIDE DEF n
    <3>3. n.teardownDone = rec.teardownDone /\ n.packageRetry = rec.packageRetry
      BY <3>2, FieldNames DEF RebootStandaloneChange, Kept, SameExcept, WellFormed
    <3> QED
      BY <3>1, <3>2, <3>3 DEF RebootStandaloneChange, Retraceable
  <2> QED
    BY <1>6, <2>2, <2>3 DEF ReconcileAfterBoot, ReconcileStandaloneAfterBoot
<1>7. CASE ReconcileStandaloneRecovery
  <2>1. CASE rec.recoveryPending /\ Write(ReleaseRemovalRoutingGateForRecovery(rec))
    <3>1. rec' = ReleaseRemovalRoutingGateForRecovery(rec)
      BY <2>1, Written
    <3> QED
      BY <2>1, <3>1, RecoveryReleaseFields, RetraceKept DEF RecoveryReleaseChange, Retrace
  <2>2. CASE Replace(ClearStandaloneNativeRecovery(rec))
    <3>1. rec' = ClearStandaloneNativeRecovery(rec)
      BY <2>2, Written
    <3> QED
      BY <3>1, ClearNativeFields, RetraceKept DEF ClearNativeChange, Retrace
  <2>3. CASE /\ CanRecoverStandaloneTeardownBoundary(rec)
             /\ Replace(RecoverStandaloneTeardownNativeBoundary(rec, box))
    <3> DEFINE n == RecoverStandaloneTeardownNativeBoundary(rec, box)
    <3>1. rec' = n /\ ~rec.teardownDone
      BY <2>3, Written DEF CanRecoverStandaloneTeardownBoundary
    <3>2. RecoverBoundaryChange(rec, n, box)
      BY RecoverBoundaryFields
    <3> HIDE DEF n
    <3>3. n.teardownDone = rec.teardownDone /\ n.packageRetry = rec.packageRetry
      BY <3>2, FieldNames DEF RecoverBoundaryChange, Kept, SameExcept, WellFormed
    <3> QED
      BY <3>1, <3>2, <3>3 DEF RecoverBoundaryChange, Retraceable
  <2> QED
    BY <1>7, <2>1, <2>2, <2>3 DEF ReconcileStandaloneRecovery
<1>8. CASE AcknowledgeTerminal
  BY <1>8, RetraceFresh DEF AcknowledgeTerminal
<1> QED
  BY <1>2, <1>3, <1>4, <1>5, <1>6, <1>7, <1>8 DEF Invoke

\* The steps of a command.
LEMMA RetraceAdvance ==
  ASSUME IInv, Retraceable(rec), box # "", Advance
  PROVE  Retraceable(rec')
<1> USE Zenon
<1> WellFormed(rec) /\ Coherent(rec) /\ Journal
  BY JournalCoherent DEF IInv
<1>2. CASE rec' = rec
  BY <1>2
<1>3. CASE PrepareOperation
  <2>1. CASE rec' = EnsureRemovalIntent(rec, context, cmd.req)
    BY <2>1, RetraceFresh DEF EnsureRemovalIntent
  <2> QED
    BY <1>2, <1>3, <2>1, Written DEF PrepareOperation
<1>4. ASSUME NEW k \in Kinds, BeginChild(k)
      PROVE  Retraceable(rec')
  <2>1. CASE Write(BeginExecution(rec, k, boot))
    <3>1. rec' = BeginExecution(rec, k, boot)
      BY <2>1, Written
    <3>2. CASE k = "teardown"
      <4>1. rec.verified = ""
        BY <1>4, <3>2 DEF BeginChild, IInv, Stage, Preparing
      <4>2. TeardownBeginChange(rec, rec', boot)
        BY <3>1, <3>2, TeardownBeginFields
      <4>3. rec'.packageRetry = rec.packageRetry
        BY <4>2, FieldNames DEF TeardownBeginChange, Kept, SameExcept, WellFormed
      <4>4. rec'.packageRetry \in BOOLEAN
        BY <4>3 DEF Retraceable
      <4> QED
        BY <4>1, <4>2, <4>4, RetraceOperation DEF TeardownBeginChange
    <3>3. CASE k = "trash"
      BY <3>1, <3>3, TrashBeginFields, RetraceKept DEF TrashBeginChange, Retrace
    <3> QED
      BY <1>4, <3>2, <3>3 DEF BeginChild
  <2> QED
    BY <1>2, <1>4, <2>1 DEF BeginChild
<1>5. CASE PreparePackageRemoval
  <2>1. CASE Write(PrepareRemovalPackageCleanup(rec))
    <3>1. rec' = PrepareRemovalPackageCleanup(rec)
      BY <2>1, Written
    <3> QED
      BY <3>1, PrepareFields, RetracePackage DEF PrepareChange
  <2> QED
    BY <1>2, <1>5, <2>1 DEF PreparePackageRemoval
<1>6. CASE BeginPackage
  <2>1. CASE Write(BeginExecution(rec, "package", boot))
    <3>1. rec' = BeginExecution(rec, "package", boot)
      BY <2>1, Written
    <3> QED
      BY <3>1, PackageBeginFields, RetracePackage DEF PackageArmed
  <2> QED
    BY <1>2, <1>6, <2>1 DEF BeginPackage
<1>7. CASE RefuseRouting \/ LaunchChild \/ VerifyRemoved \/ EmitTerminalReceipt
           \/ ExecuteRemovalRoutingRecovery \/ HandoffProfile \/ HandoffRecord
  <2>1. rec' = rec
    BY <1>7 DEF RefuseRouting, LaunchChild, VerifyRemoved, EmitTerminalReceipt,
       ExecuteRemovalRoutingRecovery, HandoffProfile, HandoffRecord
  <2> QED
    BY <2>1
<1>8. CASE TeardownCompleted
  <2>1. CASE Finish(TRUE, TRUE)
    BY <2>1, RetraceFinish
  <2>2. CASE Replace(CompleteStandaloneTeardown(rec, box))
    <3> DEFINE n == CompleteStandaloneTeardown(rec, box)
    <3>1. rec' = n
      BY <2>2, Written
    <3>2. CompleteChange(rec, n)
      BY CompleteFields
    <3>3. n.verified = box
      BY FieldNames DEF WellFormed, CompleteStandaloneTeardown
    <3> HIDE DEF n
    <3>4. n.operationRetry = rec.operationRetry /\ n.packageRetry = rec.packageRetry
      BY <3>2, FieldNames DEF CompleteChange, Kept, SameExcept, WellFormed
    <3> QED
      BY <3>1, <3>2, <3>3, <3>4 DEF CompleteChange, Retraceable
  <2> QED
    BY <1>2, <1>8, <2>1, <2>2 DEF TeardownCompleted
<1>9. CASE TrashFinished("completed") \/ PackageFinished(TRUE)
  BY <1>9, RetraceFinish DEF TrashFinished, PackageFinished
<1>10. CASE RecordDataOutcome
  <2> DEFINE moved == Cardinality(rec.selected \ home)
  <2>1. rec' = RecordRemovalDataOutcome(rec, moved, cmd.why)
    BY <1>10, Written DEF RecordDataOutcome
  <2> HIDE DEF moved
  <2>2. OutcomeChange(rec, rec', moved, cmd.why)
    BY <2>1, OutcomeFields
  <2> QED
    BY <2>2, RetraceKept DEF OutcomeChange, Retrace
<1>11. CASE MarkDataRefresh
  <2>1. rec' = MarkRemovalDataRefreshRequired(rec)
    BY <1>11, Written DEF MarkDataRefresh
  <2> QED
    BY <2>1, RefreshFields, RetraceKept DEF RefreshChange, Retrace
<1>12. CASE RequireRoutingRecovery \/ ParkMarked
  <2>1. CASE Replace(MarkStandaloneNativeRecovery(rec))
    <3>1. rec' = MarkStandaloneNativeRecovery(rec)
      BY <2>1, Written
    <3> QED
      BY <3>1, MarkNativeFields, RetraceKept DEF MarkNativeChange, Retrace
  <2> QED
    BY <1>2, <1>12, <2>1 DEF RequireRoutingRecovery, ParkMarked
<1>13. CASE MarkResolution
  <2>1. rec' = MarkRemovalExecutionResolution(rec, cmd.why, cmd.flag)
    BY <1>13, Written DEF MarkResolution
  <2>2. ResolutionChange(rec, rec', cmd.why, cmd.flag)
    BY <2>1, ResolutionFields
  <2> QED
    BY <2>2, RetraceKept DEF ResolutionChange, Retrace
<1>14. CASE ResolveMarked
  <2>1. rec' = ResolvedRemovalExecutionRecord(rec) /\ rec.resolution # ""
    BY <1>14, Written DEF ResolveMarked, IInv, Stage, Resolving
  <2> QED
    BY <2>1, RetraceResolved
<1>15. CASE AllowFinalization
  <2>1. CASE Write(ReleaseRemovalRoutingGateForFinalization(rec))
    <3>1. rec' = ReleaseRemovalRoutingGateForFinalization(rec)
      BY <2>1, Written
    <3> QED
      BY <3>1, FinalizationFields, RetraceKept DEF FinalizationChange, Retrace
  <2> QED
    BY <1>2, <1>15, <2>1 DEF AllowFinalization
<1>16. CASE FinalizeRelay
  BY <1>2, <1>16, RetraceFresh DEF FinalizeRelay
<1>17. CASE ReleaseRecoveredRemovalRoutingToken
  <2>1. CASE Write(ReleaseRemovalRoutingGateForRecovery(rec))
    <3>1. rec' = ReleaseRemovalRoutingGateForRecovery(rec)
      BY <2>1, Written
    <3>2. CASE rec.recoveryPending
      BY <3>1, <3>2, RecoveryReleaseFields, RetraceKept DEF RecoveryReleaseChange, Retrace
    <3>3. CASE ~rec.recoveryPending
      BY <3>1, <3>3, VerifiedReleaseFields, RetraceKept DEF VerifiedReleaseChange, Retrace
    <3> QED
      BY <3>2, <3>3
  <2> QED
    BY <1>2, <1>17, <2>1 DEF ReleaseRecoveredRemovalRoutingToken
<1> QED
  BY <1>3, <1>4, <1>5, <1>6, <1>7, <1>8, <1>9, <1>10, <1>11, <1>12, <1>13, <1>14, <1>15,
     <1>16, <1>17 DEF Advance

\* Every step.
LEMMA RetraceStep ==
  ASSUME IInv, Retraceable(rec), box # "", [Next]_vars
  PROVE  Retraceable(rec')
<1> USE Zenon
<1>1. CASE Fail
  <2>1. Journal
    BY DEF IInv
  <2> QED
    BY <1>1, <2>1, RetraceFinish DEF Fail, RefuseCandidate, LaunchFailed, ChildUnproven,
       EditBoundary, HandoffRefused, OutcomeWriteFails, Crash, ChildFailed, ReceiptInvalid,
       TeardownRefused, TrashFinished, PackageFinished
<1>2. CASE Reboot \/ SwitchBackend \/ RestoreBoundary \/ StartHandoff
           \/ \E m \in Requests : StartRemoval(m)
  BY <1>2 DEF Reboot, SwitchBackend, RestoreBoundary, StartHandoff, StartRemoval
<1>3. CASE \E k \in kids : Teardown(k) \/ Trash(k) \/ Uninstall(k) \/ ChildExit(k)
  BY <1>3 DEF Teardown, Trash, Uninstall, ChildExit
<1>4. CASE UNCHANGED vars
  BY <1>4 DEF vars
<1> QED
  BY <1>1, <1>2, <1>3, <1>4, RetraceInvoke, RetraceAdvance DEF Next

-----------------------------------------------------------------------------

(***************************************************************************)
(* The helpers and the writer agree in every reachable state.              *)
(***************************************************************************)

\* The configuration is always one of its states.
LEMMA BoxStep ==
  ASSUME IInv, box # "", [Next]_vars
  PROVE  box' # ""
<1> USE Zenon
<1>1. CASE Invoke
  <2>1. box' = box
    BY <1>1 DEF Invoke, Supersede, ResumeIntent, MarkRefresh, AdvanceOutcome, ResumePackage,
       ResumeVerified, ResumeMarked, ReconcileAfterBoot, ReconcileStandaloneAfterBoot,
       ReconcileStandaloneRecovery, AcknowledgeTerminal, ModeRecover,
       PrepareRemovalRoutingRecovery
  <2> QED
    BY <2>1
<1>2. CASE Advance
  <2>1. CASE HandoffProfile
    BY <2>1 DEF HandoffProfile
  <2>2. CASE PrepareOperation \/ (\E k \in Kinds : BeginChild(k)) \/ PreparePackageRemoval
             \/ BeginPackage \/ RefuseRouting \/ LaunchChild \/ TeardownCompleted
             \/ TrashFinished("completed") \/ RecordDataOutcome \/ MarkDataRefresh
    BY <2>2 DEF PrepareOperation, BeginChild, PreparePackageRemoval, BeginPackage,
       RefuseRouting, LaunchChild, TeardownCompleted, TrashFinished, RecordDataOutcome,
       MarkDataRefresh
  <2>3. CASE PackageFinished(TRUE) \/ VerifyRemoved \/ RequireRoutingRecovery
             \/ MarkResolution \/ ParkMarked \/ ResolveMarked \/ AllowFinalization
             \/ FinalizeRelay \/ EmitTerminalReceipt \/ ExecuteRemovalRoutingRecovery
             \/ ReleaseRecoveredRemovalRoutingToken \/ HandoffRecord
    BY <2>3 DEF PackageFinished, VerifyRemoved, RequireRoutingRecovery, MarkResolution,
       ParkMarked, ResolveMarked, AllowFinalization, FinalizeRelay, EmitTerminalReceipt,
       ExecuteRemovalRoutingRecovery, ReleaseRecoveredRemovalRoutingToken, HandoffRecord
  <2> QED
    BY <1>2, <2>1, <2>2, <2>3 DEF Advance
<1>3. CASE Fail
  BY <1>3 DEF Fail, RefuseCandidate, LaunchFailed, ChildUnproven, EditBoundary,
     HandoffRefused, OutcomeWriteFails, Crash, ChildFailed, ReceiptInvalid,
     TeardownRefused, TrashFinished, PackageFinished
<1>4. CASE RestoreBoundary
  <2>1. Exists(rec) /\ ~Integrated => rec.origin # ""
    BY DEF IInv, Types, Journal, Integrated, Valid, ValidContext
  <2> QED
    BY <1>4, <2>1 DEF RestoreBoundary
<1>5. CASE Reboot \/ SwitchBackend \/ StartHandoff \/ \E m \in Requests : StartRemoval(m)
  BY <1>5 DEF Reboot, SwitchBackend, StartHandoff, StartRemoval
<1>6. CASE \E k \in kids : Teardown(k) \/ Trash(k) \/ Uninstall(k) \/ ChildExit(k)
  BY <1>6 DEF Teardown, Trash, Uninstall, ChildExit
<1>7. CASE UNCHANGED vars
  BY <1>7 DEF vars
<1> QED
  BY <1>1, <1>2, <1>3, <1>4, <1>5, <1>6, <1>7 DEF Next

-----------------------------------------------------------------------------

(***************************************************************************)
(* The coordinator reaches the data outcome and the package after the      *)
(* standalone teardown only.                                               *)
(***************************************************************************)

\* The stages behind the teardown, an interrupted one included.
BehindTeardown ==
  At("record") \/ At("refresh") \/ At("package") \/ (At("recover") /\ cmd.then = "record")

InTurn == BehindTeardown => TornDown(rec)

\* A step that neither enters such a stage nor changes the record.
LEMMA TurnKept ==
  ASSUME InTurn, rec' = rec, BehindTeardown' => BehindTeardown
  PROVE  InTurn'
  BY Zenon DEF InTurn, TornDown, Standalone

\* A step that ends outside these stages.
LEMMA TurnOutside ==
  ASSUME cmd'.pc \notin {"record", "refresh", "package", "recover"}
         \/ (cmd'.pc = "recover" /\ cmd'.then = "idle")
  PROVE  InTurn'
  BY Zenon DEF InTurn, BehindTeardown, At

\* The command goes to a stage, to the recovery mark or to its end.
LEMMA TurnMoves ==
  ASSUME IInv
  PROVE  /\ Done => cmd'.pc = "idle"
         /\ \A pc : Goto(pc) => cmd'.pc = pc
         /\ \A then : Recovering(then) => cmd'.pc = "recover" /\ cmd'.then = then
         /\ \A why, flag : Marking(why, flag) => cmd'.pc = "mark"
<1> USE Zenon
<1>1. Command
  BY DEF IInv
<1>2. Idle.pc = "idle"
  BY DEF Idle
<1>3. Done => cmd'.pc = "idle"
  BY <1>2 DEF Done
<1>4. ASSUME NEW pc, Goto(pc)
      PROVE  cmd'.pc = pc
  BY <1>1, <1>4, GotoFields
<1>5. ASSUME NEW then, Recovering(then)
      PROVE  cmd'.pc = "recover" /\ cmd'.then = then
  BY <1>1, <1>5, RecoveringFields
<1>6. ASSUME NEW why, NEW flag, Marking(why, flag)
      PROVE  cmd'.pc = "mark"
  BY <1>1, <1>6, MarkingFields
<1> QED
  BY <1>3, <1>4, <1>5, <1>6

\* A helper that leaves the context and the teardown alone.
LEMMA TornKept ==
  ASSUME NEW r, WellFormed(r), TornDown(r), NEW n, NEW F, Kept(r, n, F),
         F \cap {"context", "teardownDone"} = {}
  PROVE  TornDown(n)
<1> USE Zenon
<1>1. n.context = r.context /\ n.teardownDone = r.teardownDone
  BY FieldNames DEF Kept, SameExcept, WellFormed
<1> QED
  BY <1>1 DEF TornDown, Standalone

\* The invocations of a command end before or after these stages.
LEMMA TurnInvoke ==
  ASSUME IInv, Invoke
  PROVE  InTurn'
<1> USE Zenon
<1>1. CASE \E m \in Requests : Supersede(m)
  <2>1. cmd'.pc = "prepare"
    BY <1>1 DEF Supersede, Idle
  <2> QED
    BY <2>1, TurnOutside
<1>2. CASE ResumeIntent \/ ResumeMarked \/ PrepareRemovalRoutingRecovery
  <2>1. cmd'.pc \in {"prepare", "park", "recoverRoute"}
    BY <1>2 DEF ResumeIntent, ResumeMarked, PrepareRemovalRoutingRecovery, Idle
  <2> QED
    BY <2>1, TurnOutside
<1>5. CASE ResumePackage \/ ReconcileAfterBoot
  <2>1. \/ cmd' = Idle
        \/ cmd' = [Idle EXCEPT !.pc = "uninstall", !.req = RequestOf(rec)]
        \/ cmd' = [Idle EXCEPT !.pc = "recover", !.then = "idle"]
    BY <1>5 DEF ResumePackage, ReconcileAfterBoot
  <2>2. CASE cmd' = Idle
    BY <2>2, TurnOutside DEF Idle
  <2>3. CASE cmd' = [Idle EXCEPT !.pc = "uninstall", !.req = RequestOf(rec)]
    <3>1. cmd'.pc = "uninstall"
      BY <2>3 DEF Idle
    <3> QED
      BY <3>1, TurnOutside
  <2>4. CASE cmd' = [Idle EXCEPT !.pc = "recover", !.then = "idle"]
    <3>1. cmd'.pc = "recover" /\ cmd'.then = "idle"
      BY <2>4 DEF Idle
    <3> QED
      BY <3>1, TurnOutside
  <2> QED
    BY <2>1, <2>2, <2>3, <2>4
<1>3. CASE ResumeVerified
  <2>1. cmd'.pc \in {"idle", "release"}
    BY <1>3 DEF ResumeVerified, Idle, At
  <2> QED
    BY <2>1, TurnOutside
<1>4. CASE MarkRefresh \/ AdvanceOutcome \/ ReconcileStandaloneAfterBoot
           \/ ReconcileStandaloneRecovery \/ AcknowledgeTerminal \/ ModeRecover
  <2>1. cmd'.pc = "idle"
    BY <1>4 DEF MarkRefresh, AdvanceOutcome, ReconcileStandaloneAfterBoot,
                ReconcileStandaloneRecovery, AcknowledgeTerminal, ModeRecover, At
  <2> QED
    BY <2>1, TurnOutside
<1> QED
  BY <1>1, <1>2, <1>3, <1>4, <1>5 DEF Invoke

\* A valid Trash receipt.
LEMMA TurnTrash ==
  ASSUME IInv, NEW status, TrashFinished(status)
  PROVE  InTurn'
<1> USE Zenon
<1>1. WellFormed(rec) /\ Coherent(rec)
  BY JournalCoherent DEF IInv
<1>2. rec.active.kind = "trash" /\ rec' = FinishExecution(rec, TRUE, TRUE)
  BY Written DEF TrashFinished, Waiting, Finish
<1>3. TornDown(rec)
  BY <1>1, <1>2 DEF Coherent, TornDown
<1>4. Kept(rec, rec', {"active"})
  BY <1>1, <1>2, FinishFields DEF FinishChange
<1> QED
  BY <1>1, <1>3, <1>4, TornKept DEF InTurn

\* npm returned.
LEMMA TurnPackage ==
  ASSUME IInv, NEW succeeded, PackageFinished(succeeded)
  PROVE  InTurn'
<1> USE Zenon
<1>1. /\ cmd'.pc \in {"verify", "recover"} /\ cmd'.then = "verify"
  BY DEF PackageFinished, IInv, Command
<1> QED
  BY <1>1 DEF InTurn, BehindTeardown, At

\* The stages that lead behind the teardown, and on from there.
LEMMA TurnStages ==
  ASSUME IInv, InTurn,
         PrepareOperation \/ TeardownCompleted \/ RecordDataOutcome \/ RequireRoutingRecovery
  PROVE  InTurn'
<1> USE Zenon
<1> WellFormed(rec) /\ Coherent(rec) /\ Journal
  BY JournalCoherent DEF IInv
<1> NoRecord.verified = "" /\ NoRecord.context = ""
  BY DEF NoRecord
<1>1. CASE PrepareOperation
  <2>1. CASE rec.verified # "" /\ rec.teardownDone /\ Goto(AfterTeardown(cmd.req))
    <3>1. Exists(rec)
      BY <2>1 DEF Journal
    <3>2. rec' = rec
      BY <1>1, <3>1, Written DEF PrepareOperation, EnsureRemovalIntent
    <3> QED
      BY <2>1, <3>2 DEF InTurn, TornDown
  <2>2. CASE Goto("teardown") \/ Done \/ Recovering("idle")
    BY <2>2, TurnMoves, TurnOutside
  <2> QED
    BY <1>1, <2>1, <2>2 DEF PrepareOperation
<1>2. CASE TeardownCompleted /\ Integrated
  <2>1. Journal' /\ context' = context
    BY <1>2, TeardownCompletedStep DEF TeardownCompleted, IInv
  <2>2. TornDown(rec')
    BY <1>2, <2>1 DEF Journal, Integrated, TornDown, Standalone
  <2> QED
    BY <2>2 DEF InTurn
<1>3. CASE TeardownCompleted /\ ~Integrated
  <2>1. CASE Recovering("idle")
    BY <2>1, TurnMoves, TurnOutside
  <2>2. CASE Replace(CompleteStandaloneTeardown(rec, box))
    <3>1. rec' = CompleteStandaloneTeardown(rec, box)
      BY <2>2, Written
    <3>2. rec'.teardownDone
      BY <3>1, CompleteFields DEF CompleteChange
    <3> QED
      BY <3>2 DEF InTurn, TornDown
  <2> QED
    BY <1>3, <2>1, <2>2 DEF TeardownCompleted
<1>4. CASE RecordDataOutcome
  <2> DEFINE moved == Cardinality(rec.selected \ home)
  <2>1. rec' = RecordRemovalDataOutcome(rec, moved, cmd.why)
    BY <1>4, Written DEF RecordDataOutcome
  <2> HIDE DEF moved
  <2>2. Kept(rec, rec', {"phase", "moved", "outcome"})
    BY <2>1, OutcomeFields DEF OutcomeChange
  <2>3. TornDown(rec)
    BY <1>4 DEF RecordDataOutcome, InTurn, BehindTeardown
  <2> QED
    BY <2>2, <2>3, TornKept DEF InTurn
<1>5. CASE RequireRoutingRecovery
  <2>1. CASE cmd.then = "record"
    <3>1. TornDown(rec)
      BY <1>5, <2>1 DEF RequireRoutingRecovery, InTurn, BehindTeardown
    <3>2. CASE rec' = rec
      BY <3>1, <3>2 DEF InTurn, TornDown, Standalone
    <3>3. CASE Replace(MarkStandaloneNativeRecovery(rec))
      <4>1. rec' = MarkStandaloneNativeRecovery(rec)
        BY <3>3, Written
      <4>2. Kept(rec, rec', {"nativeRecovery"})
        BY <4>1, MarkNativeFields DEF MarkNativeChange
      <4> QED
        BY <3>1, <4>2, TornKept DEF InTurn
    <3> QED
      BY <1>5, <3>2, <3>3 DEF RequireRoutingRecovery
  <2>2. CASE cmd.then = "idle" \/ cmd.then = "verify"
    <3>1. cmd'.pc \in {"idle", "verify"}
      BY <1>5, <2>2, TurnMoves DEF RequireRoutingRecovery
    <3> QED
      BY <3>1, TurnOutside
  <2> QED
    BY <1>5, <2>1, <2>2 DEF RequireRoutingRecovery, IInv, Stage, Recording
<1> QED
  BY <1>1, <1>2, <1>3, <1>4, <1>5

\* The other stages of a command.
LEMMA TurnAdvance ==
  ASSUME IInv, InTurn, Advance
  PROVE  InTurn'
<1> USE Zenon
<1>1. CASE (\E k \in Kinds : BeginChild(k)) \/ PreparePackageRemoval \/ BeginPackage
           \/ RefuseRouting \/ LaunchChild \/ MarkDataRefresh \/ VerifyRemoved
  <2>1. \/ cmd'.pc \in {"launch", "uninstall", "mark", "wait", "idle", "release"}
        \/ cmd'.pc = "recover" /\ cmd'.then = "idle"
    BY <1>1, TurnMoves DEF BeginChild, PreparePackageRemoval, BeginPackage, RefuseRouting,
       LaunchChild, MarkDataRefresh, VerifyRemoved
  <2> QED
    BY <2>1, TurnOutside
<1>2. CASE TrashFinished("completed")
  BY <1>2, TurnTrash
<1>3. CASE PackageFinished(TRUE)
  BY <1>3, TurnPackage
<1>4. CASE MarkResolution \/ ParkMarked \/ ResolveMarked \/ AllowFinalization \/ FinalizeRelay
  <2>1. \/ cmd'.pc \in {"park", "clear", "idle", "profile", "emit", "enrollment", "journal"}
        \/ cmd'.pc = "recover" /\ cmd'.then = "idle"
    BY <1>4, TurnMoves DEF MarkResolution, ParkMarked, ResolveMarked, AllowFinalization,
       FinalizeRelay
  <2> QED
    BY <2>1, TurnOutside
<1>5. CASE EmitTerminalReceipt \/ ExecuteRemovalRoutingRecovery
           \/ ReleaseRecoveredRemovalRoutingToken \/ HandoffProfile \/ HandoffRecord
  <2>1. \/ cmd'.pc \in {"idle", "releaseGate", "enrol"}
        \/ cmd'.pc = "recover" /\ cmd'.then = "idle"
    BY <1>5, TurnMoves DEF EmitTerminalReceipt, ExecuteRemovalRoutingRecovery,
       ReleaseRecoveredRemovalRoutingToken, HandoffProfile, HandoffRecord, IInv, Command
  <2> QED
    BY <2>1, TurnOutside
<1> QED
  BY <1>1, <1>2, <1>3, <1>4, <1>5, TurnStages DEF Advance

\* Every step.
LEMMA TurnStep ==
  ASSUME IInv, InTurn, [Next]_vars
  PROVE  InTurn'
<1> USE Zenon
<1>1. CASE Fail
  <2>1. CASE EditBoundary
    BY <2>1, TurnKept DEF EditBoundary, BehindTeardown, At
  <2>2. CASE \E s \in DataOutcomes \ {"completed"} : TrashFinished(s)
    BY <2>2, TurnTrash
  <2>3. CASE PackageFinished(FALSE)
    BY <2>3, TurnPackage
  <2>4. CASE RefuseCandidate \/ LaunchFailed \/ ChildUnproven \/ TeardownRefused
             \/ (\E k \in Kinds : ChildFailed(k) \/ ReceiptInvalid(k))
             \/ OutcomeWriteFails \/ HandoffRefused \/ Crash
    <3>1. \/ cmd'.pc \in {"idle", "mark"}
          \/ cmd'.pc = "recover" /\ cmd'.then = "idle"
      BY <2>4, TurnMoves DEF RefuseCandidate, LaunchFailed, ChildUnproven, TeardownRefused,
         ChildFailed, ReceiptInvalid, OutcomeWriteFails, HandoffRefused, Crash
    <3> QED
      BY <3>1, TurnOutside
  <2> QED
    BY <1>1, <2>1, <2>2, <2>3, <2>4 DEF Fail
<1>2. CASE Reboot \/ StartHandoff \/ \E m \in Requests : StartRemoval(m)
  <2>1. cmd'.pc \in {"idle", "ocx", "prepare"}
    BY <1>2, TurnMoves DEF Reboot, StartHandoff, StartRemoval, Idle
  <2> QED
    BY <2>1, TurnOutside
<1>3. CASE SwitchBackend \/ RestoreBoundary
           \/ \E k \in kids : Teardown(k) \/ Trash(k) \/ Uninstall(k) \/ ChildExit(k)
  <2>1. rec' = rec /\ cmd' = cmd
    BY <1>3 DEF SwitchBackend, RestoreBoundary, Teardown, Trash, Uninstall, ChildExit
  <2> QED
    BY <2>1, TurnKept DEF BehindTeardown, At
<1>4. CASE UNCHANGED vars
  BY <1>4, TurnKept DEF vars, BehindTeardown, At
<1> QED
  BY <1>1, <1>2, <1>3, <1>4, TurnInvoke, TurnAdvance DEF Next

-----------------------------------------------------------------------------

\* The guards of the helpers on a record on file.
LEMMA ChildHelpers ==
  ASSUME Journal, Exists(rec), boot # 0, Counted
  PROVE  /\ \A k \in Kinds : CanBeginExecution(rec, k)
                               => WriteRemovalCleanup(rec, BeginExecution(rec, k, boot))
         /\ CanFinishExecution(rec) =>
              /\ \A started, clean \in BOOLEAN :
                   WriteRemovalCleanup(rec, FinishExecution(rec, started, clean))
              /\ \A absent \in BOOLEAN :
                   WriteRemovalCleanup(rec, ReconcileActiveExecutionAfterBoot(rec, absent))
         /\ rec.resolution # "" => WriteRemovalCleanup(rec, ResolvedRemovalExecutionRecord(rec))
<1> USE Zenon
<1> WellFormed(rec) /\ Valid(rec) /\ Coherent(rec)
  BY JournalCoherent DEF Journal
<1>2. ASSUME NEW k \in Kinds, CanBeginExecution(rec, k)
      PROVE  WriteRemovalCleanup(rec, BeginExecution(rec, k, boot))
  <2>1. Quiet(rec) /\ rec.attempt < MaxExecutions /\ ValidateExecutionSource(rec, k)
    BY <1>2 DEF CanBeginExecution
  <2>2. CASE k = "teardown"
    <3>1. rec.phase = "intent"
      BY <2>1, <2>2 DEF ValidateExecutionSource
    <3> QED
      BY <2>1, <2>2, <3>1, TeardownBeginFields, TeardownBeginAccepted
  <2>3. CASE k = "trash"
    BY <2>1, <2>3, TrashBeginFields, TrashBeginAccepted
  <2>4. CASE k = "package"
    BY <2>1, <2>4, PackageBeginFields, PackageBeginAccepted
  <2> QED
    BY <2>2, <2>3, <2>4 DEF Kinds
<1>3. ASSUME NEW started \in BOOLEAN, NEW clean \in BOOLEAN, CanFinishExecution(rec)
      PROVE  WriteRemovalCleanup(rec, FinishExecution(rec, started, clean))
  <2> Active(rec) /\ rec.resolution = ""
    BY <1>3 DEF CanFinishExecution
  <2>2. CASE started /\ ~clean
    BY <2>2 DEF FinishExecution, WriteRemovalCleanup
  <2>3. CASE (~started \/ clean) /\ rec.active.kind # "package"
    BY <2>3, FinishFields, FinishAccepted
  <2>4. CASE started /\ clean /\ rec.active.kind = "package"
    BY <2>4, FinishPackageFields, FinishPackageAccepted
  <2>5. CASE ~started /\ rec.active.kind = "package"
    BY <2>5, UnstartedPackageFields, UnstartedPackageAccepted
  <2> QED
    BY <2>2, <2>3, <2>4, <2>5
<1>4. ASSUME NEW absent \in BOOLEAN, CanFinishExecution(rec)
      PROVE  WriteRemovalCleanup(rec, ReconcileActiveExecutionAfterBoot(rec, absent))
  <2> Active(rec) /\ rec.resolution = "" /\ rec.active.kind \in Kinds
    BY <1>4 DEF CanFinishExecution, Coherent
  <2>2. CASE rec.active.kind = "teardown"
    <3>1. FinishChange(rec, ReconcileActiveExecutionAfterBoot(rec, absent))
      BY <2>2, RebootTeardownFields DEF RebootTeardownChange, FinishChange
    <3> QED
      BY <2>2, <3>1, FinishAccepted
  <2>3. CASE rec.active.kind = "trash"
    BY <2>3, RebootTrashFields, RebootTrashAccepted
  <2>4. CASE rec.active.kind = "package" /\ absent
    BY <2>4, RebootAbsentFields, RebootAbsentAccepted
  <2>5. CASE rec.active.kind = "package" /\ ~absent
    BY <2>5, RebootPresentFields, RebootPresentAccepted
  <2> QED
    BY <2>2, <2>3, <2>4, <2>5 DEF Kinds
<1>5. ASSUME rec.resolution # ""
      PROVE  WriteRemovalCleanup(rec, ResolvedRemovalExecutionRecord(rec))
  <2> DEFINE n == ResolvedRemovalExecutionRecord(rec)
  <2>1. Active(rec)
    BY <1>5 DEF Coherent
  <2> DEFINE Settled == /\ Valid(n) /\ n.active = NoExecution
                        /\ n.resolution = "" /\ n.requires = FALSE
  <2>2. ASSUME rec.resolution = "trash_receipt_invalid"
        PROVE  Settled
    <3>1. ResolvedTrashChange(rec, n)
      BY <2>2, ResolvedTrashFields
    <3> HIDE DEF n
    <3>2. Valid(n)
      BY <2>2, <3>1, ResolvedTrashAccepted
    <3> QED
      BY <3>1, <3>2 DEF ResolvedTrashChange
  <2>3. ASSUME rec.resolution # "trash_receipt_invalid", rec.active.kind = "package"
        PROVE  Settled
    <3>1. ResolvedPackageChange(rec, n)
      BY <2>3, ResolvedPackageFields
    <3> HIDE DEF n
    <3>2. Valid(n)
      BY <1>5, <2>3, <3>1, ResolvedPackageAccepted
    <3> QED
      BY <3>1, <3>2 DEF ResolvedPackageChange
  <2>4. ASSUME rec.resolution # "trash_receipt_invalid", rec.active.kind # "package"
        PROVE  Settled
    <3>1. ResolvedRetryChange(rec, n)
      BY <2>4, ResolvedRetryFields
    <3> HIDE DEF n
    <3>2. Valid(n)
      BY <1>5, <2>4, <3>1, ResolvedRetryAccepted
    <3> QED
      BY <3>1, <3>2 DEF ResolvedRetryChange
  <2>5. Settled
    BY <2>2, <2>3, <2>4
  <2>6. n = ResolvedRemovalExecutionRecord(rec)
    OBVIOUS
  <2> HIDE DEF n
  <2>7. ~Active(n)
    BY <2>5, ClearedKind DEF Active
  <2>8. ValidRemovalExecutionTransition(rec, n)
    BY <1>5, <2>1, <2>5, <2>6, <2>7 DEF ValidRemovalExecutionTransition
  <2> QED
    BY <2>5, <2>6, <2>8 DEF WriteRemovalCleanup, ValidRemovalCleanupTransition
<1> QED
  BY <1>2, <1>3, <1>4, <1>5

\* A superseding request names a selection the record admits.
LEMMA RequestSupersedes ==
  ASSUME Journal, Exists(rec), context \in {"integrated", "standalone"}, NEW m \in Requests,
         CanSupersedeRemovalDataRefresh(rec, m, home)
  PROVE  Superseding(rec, NewRequest(m, "native"))
<1> DEFINE q == NewRequest(m, "native")
<1>1. /\ m.mode \in {"preserve", "trash"} /\ m.items \subseteq Items
      /\ m.mode = "preserve" <=> m.items = {}
      /\ m.inventory = NoInventory
  <2>1. CASE m = [NoRequest EXCEPT !.mode = "preserve"]
    BY <2>1, Zenon DEF NoRequest
  <2>2. ASSUME NEW s \in (SUBSET Items) \ {{}},
               m = [NoRequest EXCEPT !.mode = "trash", !.items = s]
        PROVE  /\ m.mode \in {"preserve", "trash"} /\ m.items \subseteq Items
               /\ m.mode = "preserve" <=> m.items = {}
               /\ m.inventory = NoInventory
    <3>1. m.mode = "trash" /\ m.items = s /\ m.inventory = NoInventory
      BY <2>2, Zenon DEF NoRequest
    <3>2. s \subseteq Items /\ s # {}
      BY <2>2
    <3> QED
      BY <3>1, <3>2, Zenon
  <2> QED
    BY <2>1, <2>2, Zenon DEF Requests
<1>2. q.mode = m.mode /\ q.items = m.items
  BY Zenon DEF NewRequest, Requests, NoRequest
<1>3. Integrated => q.inventory = NoInventory
  BY <1>1, Zenon DEF NewRequest
<1>4. ~Integrated => q.inventory = IF m.mode = "trash" THEN InventoryRevision("native")
                                                       ELSE NoInventory
  BY Zenon DEF NewRequest, Requests, NoRequest
<1>5. InventoryRevision("native") # NoInventory
  BY Zenon DEF InventoryRevision, NoInventory
<1>6. m.mode = "trash" => /\ ~rec.locked /\ rec.revision < MaxRevisions
                          /\ rec.retired \cap m.items = {}
  BY Zenon DEF CanSupersedeRemovalDataRefresh
<1>7. rec.context = context /\ (rec.context = "integrated" <=> Integrated)
  BY Zenon DEF Journal, Integrated
<1> HIDE DEF q
<1>8. Superseding(rec, q)
  BY <1>1, <1>2, <1>3, <1>4, <1>5, <1>6, <1>7, Zenon DEF Superseding
<1> QED
  BY <1>8 DEF q

\* The record of every helper whose guard holds is accepted.
LEMMA AcceptedHelpers ==
  ASSUME IInv, Retraceable(rec), InTurn, Counted
  PROVE  HelpersAccepted
<1> USE Zenon
<1> SUFFICES ASSUME Exists(rec)
             PROVE  HelpersAccepted
  BY DEF HelpersAccepted
<1> WellFormed(rec) /\ Valid(rec) /\ Journal /\ context \in {"integrated", "standalone"}
  BY DEF IInv, Journal, Types
<1>2. boot # 0
  BY DEF IInv, Types
<1>3. ASSUME NEW why, NEW req, CanMarkRemovalExecutionResolution(rec, why, req)
      PROVE  WriteRemovalCleanup(rec, MarkRemovalExecutionResolution(rec, why, req))
  BY <1>3, ResolutionFields, ResolutionAccepted
<1>4. ASSUME CanRecordRemovalDataOutcome(rec), rec.mode = "trash", TornDown(rec),
             NEW status \in DataOutcomes, NEW moved \in 0..Cardinality(rec.selected),
             status = "completed" => moved = Cardinality(rec.selected)
      PROVE  WriteRemovalCleanup(rec, RecordRemovalDataOutcome(rec, moved, status))
  BY <1>4, OutcomeFields, OutcomeAccepted
<1>5. CanMarkRemovalDataRefreshRequired(rec) /\ TornDown(rec) =>
        WriteRemovalCleanup(rec, MarkRemovalDataRefreshRequired(rec))
  BY RefreshFields, RefreshAccepted
<1>11. CanPrepareRemovalPackageCleanup(rec) /\ TornDown(rec) =>
         WriteRemovalCleanup(rec, PrepareRemovalPackageCleanup(rec))
  BY PrepareFields, PrepareAccepted
<1>12. CanAdvanceRemovalDataOutcome(rec) =>
         WriteRemovalCleanup(rec, AdvanceRemovalDataOutcomeToPackagePending(rec))
  BY AdvanceFields, AdvanceAccepted
<1>6. ASSUME NEW m \in Requests, CanSupersedeRemovalDataRefresh(rec, m, home)
      PROVE  WriteRemovalCleanup(rec,
               SupersedeRemovalDataRefreshRequired(rec, NewRequest(m, "native")))
  <2>1. Superseding(rec, NewRequest(m, "native")) /\ Quiet(rec) /\ rec.phase = "refresh"
    BY <1>6, RequestSupersedes DEF CanSupersedeRemovalDataRefresh
  <2> QED
    BY <2>1, SupersedeFields, SupersedeAccepted
<1>7. CanReleaseForRecovery(rec) =>
        WriteRemovalCleanup(rec, ReleaseRemovalRoutingGateForRecovery(rec))
  <2>1. CASE rec.recoveryPending
    BY <2>1, RecoveryReleaseFields, RecoveryReleaseAccepted
  <2>2. CASE ~rec.recoveryPending
    BY <2>2, VerifiedReleaseFields, VerifiedReleaseAccepted DEF CanReleaseForRecovery
  <2> QED
    BY <2>1, <2>2
<1>8. CanReleaseForFinalization(rec) =>
        WriteRemovalCleanup(rec, ReleaseRemovalRoutingGateForFinalization(rec))
  BY FinalizationFields, FinalizationAccepted DEF CanReleaseForFinalization
<1>9. ASSUME NEW b \in Boxes, CanReconcileStandaloneTeardown(rec, boot)
      PROVE  Valid(ReconcileStandaloneTeardownAfterBoot(rec, b))
  <2>1. /\ Standalone(rec) /\ rec.phase = "intent" /\ rec.resolution = "" /\ Active(rec)
        /\ b # ""
    BY <1>9 DEF CanReconcileStandaloneTeardown, Active, Boxes
  <2> QED
    BY <2>1, RebootStandaloneFields, RebootStandaloneAccepted
<1>13. ASSUME NEW b \in Boxes, CanCompleteStandaloneTeardown(rec)
       PROVE  Valid(CompleteStandaloneTeardown(rec, b))
  <2> DEFINE n == CompleteStandaloneTeardown(rec, b)
  <2>1. CompleteChange(rec, n)
    BY CompleteFields
  <2>2. n.verified = b /\ b # ""
    BY <1>13, FieldNames DEF WellFormed, CompleteStandaloneTeardown, Boxes
  <2> HIDE DEF n
  <2>3. Valid(n)
    BY <1>13, <2>1, <2>2, CompleteAccepted
  <2> QED
    BY <2>3 DEF n
<1>14. ASSUME NEW b \in Boxes, CanRecoverStandaloneTeardownBoundary(rec)
       PROVE  Valid(RecoverStandaloneTeardownNativeBoundary(rec, b))
  <2>1. b # ""
    BY <1>14 DEF Boxes
  <2> QED
    BY <1>14, <2>1, RecoverBoundaryFields, RecoverBoundaryAccepted
<1>10. /\ CanMarkStandaloneNativeRecovery(rec) => Valid(MarkStandaloneNativeRecovery(rec))
       /\ CanClearStandaloneNativeRecovery(rec) => Valid(ClearStandaloneNativeRecovery(rec))
  BY MarkNativeFields, MarkNativeAccepted, ClearNativeFields, ClearNativeAccepted
     DEF CanMarkStandaloneNativeRecovery, CanClearStandaloneNativeRecovery
<1>15. At("record") \/ At("refresh") \/ At("package") => TornDown(rec)
  BY DEF InTurn, BehindTeardown
<1> QED
  BY <1>2, <1>3, <1>4, <1>5, <1>6, <1>7, <1>8, <1>9, <1>10, <1>11, <1>12, <1>13, <1>14, <1>15,
     ChildHelpers DEF HelpersAccepted

\* A record on file has the marks a retry needs, the configuration is always one
\* of its states, and the coordinator calls the helpers in turn.
RetryInv == Retraceable(rec) /\ box # "" /\ InTurn

\* All three hold after every step.
LEMMA RetryMarks == Spec => []RetryInv
<1>0. Idle.pc = "idle"
  BY Zenon DEF Idle
<1>1. Init => RetryInv
  BY <1>0, RetraceFresh, Zenon DEF Init, RetryInv, InTurn, BehindTeardown, At
<1>2. IInv /\ RetryInv /\ [Next]_vars => RetryInv'
  BY RetraceStep, BoxStep, TurnStep, Zenon DEF RetryInv
<1> QED
  BY <1>1, <1>2, RemovalInvariant, PTL DEF Spec

\* The library of finite sets, for one fact.
FST == INSTANCE FiniteSetTheorems

\* The subsets of a finite set of items are counted by naturals.
LEMMA ItemsCounted == Counted
<1> USE Zenon
<1>1. \A S : IsFiniteSet(S) <=> FST!IsFiniteSet(S)
  BY DEF IsFiniteSet, FST!IsFiniteSet
<1>2. \A S : Cardinality(S) = FST!Cardinality(S)
  BY DEF Cardinality, FST!Cardinality
<1> SUFFICES ASSUME NEW S \in SUBSET Items
             PROVE  Cardinality(S) \in Nat
  BY DEF Counted
<1>3. FST!IsFiniteSet(Items)
  BY <1>1, JournalBounds
<1>4. FST!IsFiniteSet(S)
  BY <1>3, FST!FS_Subset
<1>5. FST!Cardinality(S) \in Nat
  BY <1>4, FST!FS_CardinalityType
<1> QED
  BY <1>2, <1>5

\* A helper of the journal whose own guard holds computes a record that the
\* validator and the transition check accept, for every reboot, boundary, outcome
\* and superseding request (WriteRemovalCleanup against the helpers of
\* removal_journal.go and removal_execution.go).  Where a helper relies on the
\* coordinator for the standalone teardown, the coordinator has run it: no command
\* is refused by the writer halfway.
THEOREM HelpersAgree == Spec => []HelpersAccepted
<1>1. IInv /\ RetryInv => HelpersAccepted
  BY AcceptedHelpers, ItemsCounted, Zenon DEF RetryInv
<1> QED
  BY <1>1, RemovalInvariant, RetryMarks, PTL

=============================================================================
