-------------------------- MODULE RemovalJournal --------------------------
(***************************************************************************)
(* The durable journal of an OpenCodex removal: the record                 *)
(* (RemovalCleanupRecord), the validator every write passes, the           *)
(* transition check that guards a replacement, the routing gate derived    *)
(* from the record, and the helpers that compute one record from another.  *)
(* Source: client/relay/internal/handoff/removal_journal.go and            *)
(* removal_execution.go.                                                   *)
(*                                                                         *)
(* A helper is a pair: Can<Helper> is the guard the Go function tests      *)
(* before it writes, and <Helper> is the record it hands to the writer.    *)
(* Installation identity, package root, launchers and the digests are      *)
(* constants of one removal and are left out.  A boundary revision is the  *)
(* boundary it is the hash of; "" is the empty string and 0 the empty boot *)
(* session.  An item list is the set of its items: the code refuses        *)
(* duplicates.                                                             *)
(***************************************************************************)
EXTENDS Integers, FiniteSets

CONSTANTS Items,          \* data items an inventory can offer
          MaxRetired,     \* maxRemovalRetiredDataItems
          MaxExecutions,  \* maxRemovalExecutionAttempts
          MaxPackages,    \* maxRemovalPackageAttempts
          MaxRevisions    \* maxRemovalSelectionRevisions

ASSUME JournalBounds ==
  /\ IsFiniteSet(Items)
  /\ {MaxRetired, MaxExecutions, MaxPackages, MaxRevisions} \subseteq Nat \ {0}

Phases == {"intent", "data_outcome", "refresh", "pending", "in_flight", "verified"}
\* The fourth kind, a native restore, runs only for records of older releases:
\* the teardown of this one completes with the boundary verified.
Kinds == {"teardown", "trash", "package"}
DataOutcomes == {"completed", "partial", "failed", "unsupported"}
NoExecution == [kind |-> "none", attempt |-> 0, boot |-> 0]
NoInventory == [state |-> "", home |-> {}]

NoRecord ==
  [context |-> "", phase |-> "none", mode |-> "", selected |-> {}, retired |-> {},
   revision |-> 0, locked |-> FALSE, moved |-> 0, outcome |-> "", attempt |-> 0,
   active |-> NoExecution, resolution |-> "", requires |-> FALSE,
   recoveryPending |-> FALSE, operationRetry |-> FALSE, packageAttempt |-> 0,
   bootSession |-> 0, reconciled |-> FALSE, packageRetry |-> FALSE,
   released |-> FALSE, finalizing |-> FALSE, origin |-> "", originState |-> "",
   verified |-> "", nativeState |-> "", nativeRecovery |-> FALSE,
   teardownDone |-> FALSE, inventory |-> NoInventory]

Exists(r) == r.phase # "none"
Active(r) == r.active.kind # "none"
Standalone(r) == r.context = "standalone"

\* A request: the reviewed selection and, standalone, the boundary it was
\* reviewed at and the native inventory revision.
NewRemovalIntentRecord(context, req) ==
  [NoRecord EXCEPT
     !.context = context, !.phase = "intent", !.mode = req.mode,
     !.selected = req.items, !.revision = 1,
     !.origin = req.origin, !.originState = req.originState,
     !.nativeState = req.originState, !.inventory = req.inventory]

----------------------------------------------------------------------------
(* The validator. *)

ValidResolutionForKind(kind, resolution) ==
  \/ resolution = "pre_start_routing_changed" /\ kind \in Kinds
  \/ resolution = "teardown_receipt_invalid" /\ kind = "teardown"
  \/ resolution = "trash_receipt_invalid" /\ kind = "trash"

ValidRoutingRequirement(resolution, requires) ==
  resolution # "trash_receipt_invalid" => requires

ValidShape(r) ==
  /\ r.context \in {"integrated", "standalone"}
  /\ r.phase \in Phases
  /\ r.mode \in {"preserve", "trash"}
  /\ r.selected \subseteq Items /\ r.retired \subseteq Items
  /\ Cardinality(r.retired) <= MaxRetired
  /\ r.revision \in 1..(IF r.mode = "trash" THEN MaxRevisions ELSE MaxRevisions + 1)
  /\ r.moved \in 0..Cardinality(r.selected)
  /\ r.attempt \in 0..MaxExecutions
  /\ r.packageAttempt \in 0..MaxPackages

ValidContext(r) ==
  IF r.context = "integrated"
  THEN /\ {r.origin, r.originState, r.verified, r.nativeState} = {""}
       /\ r.inventory = NoInventory
       /\ ~r.nativeRecovery /\ ~r.teardownDone
  ELSE /\ r.origin # "" /\ r.originState \in {"opencodex", "native"}
       /\ r.nativeState \in {"opencodex", "native"}
       /\ (r.mode = "preserve") <=> (r.inventory = NoInventory)
       /\ r.verified # "" => r.nativeState = "native"
       /\ (~r.teardownDone /\ r.verified # "") => r.phase = "intent"
       /\ (r.phase # "intent" \/ r.active.kind \in {"trash", "package"}) => r.verified # ""
       /\ r.phase # "intent" => r.teardownDone

ValidActive(r) ==
  /\ Active(r) =>
       /\ r.active.kind \in Kinds
       /\ r.active.attempt \in 1..MaxExecutions /\ r.active.attempt = r.attempt
       /\ r.active.boot # 0 /\ ~r.released
  /\ (r.active.kind = "package") => r.packageAttempt >= 1 /\ r.bootSession = r.active.boot
  /\ (r.active.kind = "package") <=> (r.phase = "in_flight")
  /\ (r.active.kind \in {"teardown", "trash"}) =>
       r.phase = "intent" /\ r.packageAttempt = 0 /\ r.bootSession = 0 /\ ~r.reconciled
  /\ (r.active.kind = "trash") =>
       r.mode = "trash" /\ (Standalone(r) => r.teardownDone)

ValidResolution(r) ==
  /\ r.resolution = "" => ~r.requires
  /\ r.resolution # "" =>
       /\ Active(r) /\ ~r.recoveryPending /\ ~r.released /\ ~r.finalizing
       /\ ValidResolutionForKind(r.active.kind, r.resolution)
       /\ ValidRoutingRequirement(r.resolution, r.requires)
  /\ r.recoveryPending =>
       /\ ~Active(r) /\ ~r.released /\ ~r.finalizing
       /\ r.phase \in {"intent", "refresh", "pending"}

ValidFlags(r) ==
  /\ r.released => r.phase = "verified"
  /\ r.finalizing => r.released /\ ~Active(r) /\ ~r.recoveryPending
  /\ r.reconciled => r.phase = "pending"
  /\ r.operationRetry => r.phase = "intent" /\ ~Active(r)
  /\ r.packageRetry => r.phase = "pending" /\ ~r.reconciled /\ r.bootSession = 0
  /\ (r.locked /\ r.mode = "trash") => r.phase = "refresh"

ValidSelection(r) ==
  /\ IF r.phase = "refresh" THEN r.locked \/ r.selected \subseteq r.retired
                            ELSE r.selected \cap r.retired = {}
  /\ IF r.mode = "preserve"
     THEN r.selected = {} /\ r.outcome = "" /\ r.phase \notin {"data_outcome", "refresh"}
     ELSE r.selected # {}

PackageReady(r) ==
  IF r.mode = "preserve" THEN r.outcome = "" /\ r.moved = 0
                         ELSE r.outcome = "completed" /\ r.moved = Cardinality(r.selected)

ValidPhase(r) ==
  CASE r.phase = "intent" ->
         r.moved = 0 /\ r.outcome = "" /\ r.packageAttempt = 0 /\ r.bootSession = 0
    [] r.phase = "data_outcome" ->
         /\ r.outcome \in DataOutcomes /\ r.packageAttempt = 0 /\ r.bootSession = 0
         /\ r.outcome = "completed" => r.moved = Cardinality(r.selected)
    [] r.phase = "refresh" ->
         /\ r.packageAttempt = 0 /\ r.bootSession = 0
         /\ r.outcome \in (DataOutcomes \ {"completed"}) \cup {"unknown"}
         /\ r.outcome = "unknown" => r.moved = 0
    [] r.phase = "pending" ->
         PackageReady(r) /\ (r.reconciled <=> r.bootSession # 0)
    [] OTHER ->
         PackageReady(r) /\ r.packageAttempt >= 1 /\ r.bootSession # 0

Valid(r) ==
  /\ ValidShape(r) /\ ValidContext(r) /\ ValidActive(r) /\ ValidResolution(r)
  /\ ValidFlags(r) /\ ValidSelection(r) /\ ValidPhase(r)

----------------------------------------------------------------------------
(* The routing gate and the admissions read from the record. *)

RemovalRoutingGate(r) ==
  Exists(r) => ~( \/ Active(r) \/ r.resolution # "" \/ r.recoveryPending
                  \/ r.phase = "in_flight"
                  \/ r.phase = "pending" /\ r.reconciled
                  \/ r.phase = "verified" /\ ~r.released
                  \/ r.finalizing )

RemovalFinalizationAdmission(r) ==
  r.phase = "verified" /\ ~Active(r) /\ r.resolution = "" /\ ~r.recoveryPending
  /\ r.released /\ r.finalizing

RemovalPackageResumeAdmission(r) ==
  /\ ~Active(r) /\ r.resolution = "" /\ ~r.recoveryPending
  /\ \/ r.phase = "pending" /\ (r.reconciled \/ r.packageRetry)
     \/ r.phase = "verified" /\ r.released /\ ~r.finalizing

RemovalCleanupMatchesRequest(r, req) ==
  /\ r.mode = req.mode /\ r.selected = req.items
  /\ Standalone(r) => r.origin = req.origin /\ r.inventory = req.inventory

\* Mutant: a full list makes room by forgetting earlier selections.
RetireForgets(r) ==
  LET combined == r.retired \cup r.selected
  IN CASE Cardinality(combined) <= MaxRetired -> [r EXCEPT !.retired = combined]
       [] Cardinality(combined) > MaxRetired /\ Cardinality(r.selected) <= MaxRetired ->
            [r EXCEPT !.retired = r.selected]
       [] OTHER -> [r EXCEPT !.locked = TRUE]

\* Retiring a selection: its items can never be selected again.  When the
\* retired list is full no further Trash selection is ever admitted.
Retire(r) ==
  LET combined == r.retired \cup r.selected
  IN IF Cardinality(combined) > MaxRetired
     THEN [r EXCEPT !.locked = TRUE]
     ELSE [r EXCEPT !.retired = combined]

----------------------------------------------------------------------------
(* Helpers that advance the record. *)

Quiet(r) == Exists(r) /\ ~Active(r) /\ r.resolution = "" /\ ~r.recoveryPending

CanEnsureRemovalIntent(r, req) ==
  Exists(r) => Quiet(r) /\ r.phase = "intent" /\ RemovalCleanupMatchesRequest(r, req)
EnsureRemovalIntent(r, context, req) ==
  IF Exists(r) THEN r ELSE NewRemovalIntentRecord(context, req)

CanRecordRemovalDataOutcome(r) == Quiet(r) /\ r.phase = "intent" /\ ~r.operationRetry
RecordRemovalDataOutcome(r, moved, status) ==
  [r EXCEPT !.phase = "data_outcome", !.moved = moved, !.outcome = status]

CanPrepareRemovalPackageCleanup(r) ==
  /\ Quiet(r) /\ ~r.operationRetry
  /\ IF r.mode = "preserve" THEN r.phase = "intent"
                            ELSE r.phase = "data_outcome" /\ r.outcome = "completed"
PrepareRemovalPackageCleanup(r) == [r EXCEPT !.phase = "pending", !.packageRetry = FALSE]

CanAdvanceRemovalDataOutcome(r) ==
  r.phase = "data_outcome" /\ r.outcome = "completed" /\ r.moved = Cardinality(r.selected)
AdvanceRemovalDataOutcomeToPackagePending(r) == [r EXCEPT !.phase = "pending"]

CanMarkRemovalDataRefreshRequired(r) ==
  /\ Quiet(r) /\ ~r.operationRetry /\ r.mode = "trash"
  /\ r.phase = "intent" \/ (r.phase = "data_outcome" /\ r.outcome # "completed")
MarkRemovalDataRefreshRequired(r) ==
  [Retire(r) EXCEPT !.phase = "refresh",
                    !.outcome = IF r.phase = "intent" THEN "unknown" ELSE r.outcome]

\* home is what the fresh inventory lists as existing and trashable.
CanSupersedeRemovalDataRefresh(r, req, home) ==
  /\ Quiet(r) /\ r.phase = "refresh"
  /\ req.mode = "trash" => /\ req.items \subseteq home
                           /\ ~r.locked /\ r.revision < MaxRevisions
                           /\ r.retired \cap req.items = {}
SupersedeRemovalDataRefreshRequired(r, req) ==
  [r EXCEPT !.phase = "intent", !.mode = req.mode, !.selected = req.items,
            !.inventory = req.inventory, !.revision = @ + 1, !.moved = 0,
            !.outcome = "", !.packageAttempt = 0, !.operationRetry = FALSE,
            !.packageRetry = FALSE]

----------------------------------------------------------------------------
(* The execution witness: armed before a child starts, cleared by a proven *)
(* outcome, a marked resolution, or a different boot.                      *)

ValidateExecutionSource(r, kind) ==
  CASE kind = "teardown" -> r.phase = "intent"
    [] kind = "trash" ->
         /\ r.phase = "intent" /\ r.mode = "trash" /\ ~r.operationRetry
         /\ Standalone(r) => r.teardownDone /\ r.verified # ""
    [] kind = "package" ->
         /\ r.phase \in {"pending", "verified"} /\ ~r.finalizing
         /\ r.packageAttempt < MaxPackages
         /\ Standalone(r) => r.teardownDone /\ r.verified # ""

CanBeginExecution(r, kind) ==
  Quiet(r) /\ r.attempt < MaxExecutions /\ ValidateExecutionSource(r, kind)
\* Mutant: a package child is armed with its retry mark still set.
BeginKeepsRetry(r, kind, boot) ==
  LET armed == [r EXCEPT !.attempt = @ + 1,
                         !.active = [kind |-> kind, attempt |-> r.attempt + 1, boot |-> boot]]
  IN IF kind # "package" THEN [armed EXCEPT !.operationRetry = FALSE]
     ELSE [armed EXCEPT !.packageAttempt = @ + 1, !.phase = "in_flight", !.bootSession = boot,
                        !.reconciled = FALSE, !.released = FALSE, !.finalizing = FALSE]

BeginExecution(r, kind, boot) ==
  LET armed == [r EXCEPT !.attempt = @ + 1,
                         !.active = [kind |-> kind, attempt |-> r.attempt + 1, boot |-> boot]]
  IN CASE kind = "teardown" -> [armed EXCEPT !.operationRetry = FALSE]
       [] kind = "trash" -> armed
       [] kind = "package" ->
            [armed EXCEPT !.packageAttempt = @ + 1, !.phase = "in_flight",
                          !.bootSession = boot, !.reconciled = FALSE,
                          !.packageRetry = FALSE, !.released = FALSE,
                          !.finalizing = FALSE]

\* A started child whose process group is not proven gone leaves the record
\* as it is; FinishExecution is then a recommit.
CanFinishExecution(r) == Active(r) /\ r.resolution = ""
FinishExecution(r, started, cleanupVerified) ==
  LET cleared == [r EXCEPT !.active = NoExecution]
  IN IF started /\ ~cleanupVerified THEN r
     ELSE IF r.active.kind # "package" THEN cleared
     ELSE IF started THEN [cleared EXCEPT !.phase = "verified"]
     ELSE [cleared EXCEPT !.phase = "pending", !.bootSession = 0,
                          !.reconciled = FALSE, !.packageRetry = FALSE]

CanMarkRemovalExecutionResolution(r, resolution, requires) ==
  /\ Active(r) /\ r.resolution = "" /\ ~r.recoveryPending
  /\ ValidResolutionForKind(r.active.kind, resolution)
  /\ ValidRoutingRequirement(resolution, requires)
MarkRemovalExecutionResolution(r, resolution, requires) ==
  [r EXCEPT !.resolution = resolution, !.requires = requires]

ResolvedRemovalExecutionRecord(r) ==
  LET next == [r EXCEPT !.active = NoExecution, !.resolution = "", !.requires = FALSE,
                        !.recoveryPending = r.requires]
  IN CASE r.resolution = "trash_receipt_invalid" ->
            [Retire(next) EXCEPT !.phase = "refresh", !.outcome = "unknown", !.moved = 0,
                                 !.operationRetry = FALSE, !.packageRetry = FALSE]
       [] r.resolution # "trash_receipt_invalid" /\ r.active.kind = "package" ->
            [next EXCEPT !.phase = "pending", !.bootSession = 0, !.reconciled = FALSE,
                         !.packageRetry = TRUE, !.released = FALSE, !.finalizing = FALSE]
       [] OTHER ->
            [next EXCEPT !.phase = "intent", !.operationRetry = TRUE,
                         !.packageRetry = FALSE]

\* Mutant: a child of the running boot is reconciled as well.
CanReconcileAnyBoot(r, boot) == Active(r) /\ r.resolution = ""

CanReconcileActiveExecution(r, boot) ==
  Active(r) /\ r.resolution = "" /\ r.active.boot # boot
ReconcileActiveExecutionAfterBoot(r, packageAbsent) ==
  LET cleared == [r EXCEPT !.active = NoExecution]
  IN CASE r.active.kind = "teardown" -> cleared
       [] r.active.kind = "trash" ->
            [Retire(cleared) EXCEPT !.phase = "refresh", !.outcome = "unknown", !.moved = 0]
       [] r.active.kind = "package" ->
            IF packageAbsent
            THEN [cleared EXCEPT !.phase = "verified", !.reconciled = FALSE,
                                 !.packageRetry = FALSE]
            ELSE [cleared EXCEPT !.phase = "pending", !.reconciled = TRUE,
                                 !.bootSession = r.active.boot, !.packageRetry = FALSE]

----------------------------------------------------------------------------
(* Releasing the gate. *)

CanReleaseForRecovery(r) ==
  /\ Exists(r) /\ ~Active(r) /\ r.resolution = "" /\ ~r.finalizing
  /\ r.recoveryPending \/ r.phase = "verified"
ReleaseRemovalRoutingGateForRecovery(r) ==
  IF r.recoveryPending THEN [r EXCEPT !.recoveryPending = FALSE]
                       ELSE [r EXCEPT !.released = TRUE]

CanReleaseForFinalization(r) == Quiet(r) /\ r.phase = "verified"
ReleaseRemovalRoutingGateForFinalization(r) ==
  [r EXCEPT !.released = TRUE, !.finalizing = TRUE]

StandaloneTerminalRemovalReplayReady(r) ==
  Standalone(r) /\ RemovalFinalizationAdmission(r) /\ ~r.nativeRecovery

----------------------------------------------------------------------------
(* Standalone writers.  They validate the record and replace the file      *)
(* without the transition check.                                           *)

CanCompleteStandaloneTeardown(r) ==
  /\ Standalone(r) /\ r.phase = "intent" /\ r.active.kind = "teardown"
  /\ r.resolution = "" /\ ~r.teardownDone /\ ~r.nativeRecovery
CompleteStandaloneTeardown(r, revision) ==
  [r EXCEPT !.active = NoExecution, !.teardownDone = TRUE, !.nativeState = "native",
            !.verified = revision]

CanReconcileStandaloneTeardown(r, boot) ==
  /\ Standalone(r) /\ r.phase = "intent" /\ r.active.kind = "teardown"
  /\ r.resolution = "" /\ r.active.boot # boot /\ ~r.teardownDone /\ r.verified = ""
ReconcileStandaloneTeardownAfterBoot(r, revision) ==
  [r EXCEPT !.active = NoExecution, !.nativeState = "native", !.verified = revision,
            !.nativeRecovery = FALSE, !.operationRetry = TRUE]

CanRecoverStandaloneTeardownBoundary(r) ==
  /\ Standalone(r) /\ Quiet(r) /\ r.phase = "intent"
  /\ r.nativeRecovery /\ ~r.teardownDone /\ r.verified = ""
RecoverStandaloneTeardownNativeBoundary(r, revision) ==
  [r EXCEPT !.nativeState = "native", !.verified = revision, !.nativeRecovery = FALSE,
            !.operationRetry = TRUE]

CanMarkStandaloneNativeRecovery(r) == Exists(r) /\ Standalone(r)
MarkStandaloneNativeRecovery(r) == [r EXCEPT !.nativeRecovery = TRUE]

CanClearStandaloneNativeRecovery(r) == Exists(r) /\ Standalone(r) /\ ~Active(r)
ClearStandaloneNativeRecovery(r) == [r EXCEPT !.nativeRecovery = FALSE]

----------------------------------------------------------------------------
(* The transition check of WriteRemovalCleanup. *)

\* The fields a helper may have changed are copied from the later record
\* before the two are compared.
SameExcept(p, n, fields) ==
  \A f \in DOMAIN p \ fields : p[f] = n[f]

RetiredInto(p, n) == n.retired = Retire(p).retired /\ n.locked = Retire(p).locked

ValidDurableBegin(p, n) ==
  /\ ~Active(p) /\ Active(n)
  /\ n.active.attempt = p.attempt + 1 /\ n.attempt = n.active.attempt
  /\ n.active.boot # 0 /\ n.resolution = "" /\ ~n.requires
  /\ ~n.recoveryPending /\ ~n.packageRetry
  /\ CASE n.active.kind = "teardown" ->
            p.phase = "intent" /\ SameExcept(p, n, {"active", "attempt", "operationRetry"})
       [] n.active.kind = "trash" ->
            p.phase = "intent" /\ SameExcept(p, n, {"active", "attempt"})
       [] n.active.kind = "package" ->
            /\ p.phase \in {"pending", "verified"} /\ n.phase = "in_flight"
            /\ n.packageAttempt = p.packageAttempt + 1
            /\ n.bootSession = n.active.boot /\ ~n.reconciled /\ ~n.released
            /\ SameExcept(p, n, {"active", "attempt", "phase", "packageAttempt",
                 "bootSession", "reconciled", "packageRetry", "released"})

ValidDurableFinish(p, n) ==
  /\ Active(p) /\ ~Active(n) /\ n.attempt = p.attempt
  /\ CASE p.active.kind = "teardown" ->
            p.phase = "intent" /\ SameExcept(p, n, {"active"})
       [] p.active.kind = "trash" ->
            \/ SameExcept(p, n, {"active"})
            \/ /\ p.phase = "intent" /\ n.phase = "refresh"
               /\ n.outcome = "unknown" /\ n.moved = 0 /\ RetiredInto(p, n)
               /\ SameExcept(p, n, {"active", "phase", "outcome", "moved", "retired", "locked"})
       [] p.active.kind = "package" ->
            /\ p.phase = "in_flight" /\ n.phase \in {"pending", "verified"}
            /\ SameExcept(p, n, {"active", "phase", "bootSession", "reconciled",
                 "packageRetry"})

ValidRemovalExecutionTransition(p, n) ==
  \/ /\ Active(p) /\ Active(n) /\ p.resolution = "" /\ ~p.recoveryPending
     /\ ValidResolutionForKind(n.active.kind, n.resolution)
     /\ SameExcept(p, n, {"resolution", "requires"})
  \/ /\ Active(p) /\ p.resolution # "" /\ ~Active(n) /\ n.resolution = "" /\ ~n.requires
     /\ n = ResolvedRemovalExecutionRecord(p)
  \/ ValidDurableBegin(p, n)
  \/ p.resolution = "" /\ ValidDurableFinish(p, n)

ValidRemovalRefreshSupersession(p, n) ==
  /\ p.phase = "refresh" /\ n.phase = "intent"
  /\ n.revision = p.revision + 1 /\ n.moved = 0 /\ n.outcome = "" /\ n.packageAttempt = 0
  /\ p.retired \cap n.selected = {}
  /\ SameExcept(p, n, {"phase", "mode", "selected", "inventory", "revision", "moved",
       "outcome", "packageAttempt", "attempt", "active", "bootSession", "reconciled"})
  /\ n.mode = "trash" => ~p.locked /\ p.revision < MaxRevisions

Progress == {"phase", "moved", "outcome", "packageAttempt"}

ValidPhaseEdge(p, n) ==
  \/ /\ p.phase = "intent" /\ n.phase = "data_outcome" /\ p.mode = "trash"
     /\ n.packageAttempt = 0 /\ SameExcept(p, n, Progress)
  \/ /\ p.phase = "intent" /\ n.phase = "refresh" /\ p.mode = "trash"
     /\ n.outcome = "unknown" /\ n.packageAttempt = 0 /\ RetiredInto(p, n)
     /\ SameExcept(p, n, Progress \cup {"retired", "locked"})
  \/ /\ p.phase = "intent" /\ n.phase = "pending" /\ p.mode = "preserve"
     /\ n.packageAttempt = 0 /\ SameExcept(p, n, Progress)
  \/ /\ p.phase = "data_outcome" /\ n.phase = "refresh" /\ p.outcome # "completed"
     /\ n.outcome = p.outcome /\ n.moved = p.moved /\ n.packageAttempt = 0
     /\ RetiredInto(p, n) /\ SameExcept(p, n, Progress \cup {"retired", "locked"})
  \/ /\ p.phase = "data_outcome" /\ n.phase = "pending" /\ p.outcome = "completed"
     /\ n.outcome = "completed" /\ n.moved = Cardinality(n.selected)
     /\ n.packageAttempt = 0 /\ SameExcept(p, n, Progress)

ValidRemovalCleanupTransition(p, n) ==
  \/ ValidRemovalExecutionTransition(p, n)
  \/ p.recoveryPending /\ ~n.recoveryPending /\ SameExcept(p, n, {"recoveryPending"})
  \/ /\ p.phase = "verified" /\ n.phase = "verified" /\ n.released
     /\ \/ ~p.released /\ ~p.finalizing /\ SameExcept(p, n, {"released", "finalizing"})
        \/ p.released /\ ~p.finalizing /\ n.finalizing /\ SameExcept(p, n, {"finalizing"})
  \/ ValidRemovalRefreshSupersession(p, n)
  \/ ValidPhaseEdge(p, n)

WriteRemovalCleanup(p, n) ==
  Valid(n) /\ (Exists(p) => p = n \/ ValidRemovalCleanupTransition(p, n))
==========================================================================
