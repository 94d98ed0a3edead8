----------------------------- MODULE Removal -----------------------------
(***************************************************************************)
(* Removing an OpenCodex installation.  One relayctl command at a time     *)
(* (the user lifecycle lock serialises them) walks the stages of           *)
(* RemovalCoordinator: record an intent, run the teardown child, move the  *)
(* selected data items to the Trash, uninstall the package, finalise.      *)
(* Every mutating child is armed in the journal (RemovalJournal) before it *)
(* starts; the command can crash at any step and leave the child running,  *)
(* the machine can reboot, children can fail, lie or outlive their         *)
(* cleanup, and the Codex configuration can be edited behind the command.  *)
(*                                                                         *)
(* Two contexts share the coordinator.  "integrated": a relay owns the     *)
(* Codex configuration, an unproven step parks routing for recovery, and   *)
(* the relay's profile, enrolment and the journal are deleted at the end.  *)
(* "standalone": no relay is installed, the boundary is the Codex          *)
(* configuration itself, and the journal stays until the caller            *)
(* acknowledges its receipt.                                               *)
(*                                                                         *)
(* Source: internal/handoff/removal.go, npm_runner.go,                     *)
(* cmd/opencodex-relayctl/open_codex_removal.go,                           *)
(* open_codex_native_removal.go, and the handoff and recovery commands of  *)
(* main.go with internal/handoff/handoff.go and                            *)
(* internal/routing/removal_recovery_witness.go.                           *)
(* An invocation that is refused without a durable effect is not a step.   *)
(* A command that continues after a journal write with no memory but the   *)
(* journal is two invocations here: the second re-reads what the first     *)
(* would have kept.                                                        *)
(***************************************************************************)
EXTENDS RemovalJournal

CONSTANT MaxFaults  \* failures a behaviour may contain

ASSUME FaultBound == MaxFaults \in Nat

VARIABLES
  context,  \* "integrated" or "standalone"
  rec,      \* the journal record on disk
  parked,   \* routing phase recovery_required (integrated)
  local,    \* the applied backend is the local OpenCodex (integrated)
  box,      \* the Codex configuration boundary
  pkg,      \* the package on disk: "present", "partial", "absent"
  home,     \* data items still in place
  kids,     \* mutating children alive
  boot,     \* the boot session
  relay,    \* relay assets naming the installation (integrated)
  receipt,  \* the terminal record whose digest the caller holds (standalone)
  cmd,      \* the command in progress
  faults    \* failures injected so far

vars == <<context, rec, parked, local, box, pkg, home, kids, boot, relay, receipt, cmd, faults>>
world == <<context, boot, receipt, faults>>

Integrated == context = "integrated"
Boxes == IF Integrated THEN {"managed", "foreign"} ELSE {"opencodex", "native", "edited"}
StateOf(b) == IF b = "opencodex" THEN "opencodex" ELSE "native"
NoRequest == [mode |-> "", items |-> {}, origin |-> "", originState |-> "",
              inventory |-> NoInventory]
Idle == [pc |-> "idle", req |-> NoRequest, then |-> "", why |-> "", flag |-> FALSE]
RelayAssets == {"profile", "enrollment"}

At(pc) == cmd.pc = pc
Goto(pc) == cmd' = [cmd EXCEPT !.pc = pc]
Done == cmd' = Idle
Recovering(then) == cmd' = [cmd EXCEPT !.pc = "recover", !.then = then]
Write(n) == WriteRemovalCleanup(rec, n) /\ rec' = n
Replace(n) == Valid(n) /\ rec' = n
Finish(started, clean) == CanFinishExecution(rec) /\ Write(FinishExecution(rec, started, clean))
Fault == faults < MaxFaults /\ faults' = faults + 1

Init ==
  /\ context \in {"integrated", "standalone"}
  /\ rec = NoRecord /\ receipt = NoRecord
  /\ parked = FALSE /\ local = FALSE
  /\ box \in (IF Integrated THEN {"managed"} ELSE {"opencodex", "native"})
  /\ pkg = "present" /\ home = Items /\ kids = {} /\ boot = 1
  /\ relay \in (IF Integrated THEN {RelayAssets, {}} ELSE {{}})
  /\ cmd = Idle /\ faults = 0

\* The configuration is native or an exact relay profile, and agrees with
\* the applied backend.
ValidateHandoffResultOwnership == box = "managed"

\* Standalone verifyCurrent, inside a command whose owner session is open:
\* the journal's verified boundary or, before the teardown, the reviewed one.
VerifyCurrent == box = IF rec.verified # "" THEN rec.verified ELSE cmd.req.origin

VerifyRouting == IF Integrated THEN ValidateHandoffResultOwnership ELSE VerifyCurrent

\* The installed package is found, and is the recorded one.
Resolve == pkg = "present"
VerifyAbsent == pkg = "absent"

\* verifyNativeBoundary of a new process: the owner session is opened from
\* the installed package.
VerifyNativeBoundary == Resolve /\ StateOf(box) = "native"

\* The revision of an inventory taken at a native state.
InventoryRevision(nativeState) == [state |-> nativeState, home |-> home]

Requests == {[NoRequest EXCEPT !.mode = "preserve"]} \cup
            {[NoRequest EXCEPT !.mode = "trash", !.items = s] : s \in (SUBSET Items) \ {{}}}

\* The command line of a new or superseding request.  Standalone it names
\* the reviewed boundary and, for Trash, the inventory revision.
NewRequest(m, nativeState) ==
  IF Integrated THEN m
  ELSE [m EXCEPT !.origin = IF Exists(rec) THEN rec.origin ELSE box,
                 !.originState = IF Exists(rec) THEN rec.originState ELSE StateOf(box),
                 !.inventory = IF m.mode = "trash" THEN InventoryRevision(nativeState)
                                                   ELSE NoInventory]

\* The command line that matches the journal.
RequestOf(r) ==
  [mode |-> r.mode, items |-> r.selected, origin |-> r.origin,
   originState |-> r.originState, inventory |-> r.inventory]

ReconcilingGate ==
  \/ Active(rec) \/ rec.resolution # "" \/ rec.recoveryPending
  \/ rec.phase \in {"in_flight", "verified"}
  \/ rec.phase = "pending" /\ rec.reconciled

\* No relay asset may exist beside a standalone removal, and the journal is
\* fully reconciled before a command proceeds.
OpenStandaloneNativeBoundary ==
  relay = {} /\ (Exists(rec) => Quiet(rec) /\ ~rec.nativeRecovery)

OpenRemovalBoundary == ~local /\ (parked => ReconcilingGate)

Admitted == IF Integrated THEN OpenRemovalBoundary ELSE OpenStandaloneNativeBoundary

----------------------------------------------------------------------------
(* Invocations. *)

\* No journal: a Trash request is checked against a fresh inventory.
StartRemoval(m) ==
  /\ At("idle") /\ ~Exists(rec) /\ Admitted /\ Resolve
  /\ m.items \subseteq home
  /\ cmd' = [Idle EXCEPT !.pc = "prepare",
                         !.req = NewRequest(m, StateOf(box))]
  /\ UNCHANGED <<world, rec, parked, local, box, pkg, home, kids, relay>>

\* Mutant: an interrupted Trash intent is simply run again.
ResumeAnyIntent ==
  /\ At("idle") /\ Quiet(rec) /\ rec.phase = "intent" /\ Admitted
  /\ cmd' = [Idle EXCEPT !.pc = "prepare", !.req = RequestOf(rec)]
  /\ UNCHANGED <<world, rec, parked, local, box, pkg, home, kids, relay>>

\* An intent is retried by the matching request.  Integrated, an interrupted
\* Trash intent is ambiguous unless it is marked for retry; standalone, the
\* inventory must still be the reviewed one.
ResumeIntent ==
  /\ At("idle") /\ Quiet(rec) /\ rec.phase = "intent" /\ Admitted
  /\ IF Integrated THEN rec.operationRetry \/ rec.mode = "preserve"
     ELSE rec.mode = "trash" =>
            /\ Resolve /\ rec.selected \subseteq home
            /\ rec.inventory = InventoryRevision(rec.originState)
  /\ cmd' = [Idle EXCEPT !.pc = "prepare", !.req = RequestOf(rec)]
  /\ UNCHANGED <<world, rec, parked, local, box, pkg, home, kids, relay>>

\* Convert an ambiguous Trash record into one that is never replayed.
MarkRefresh ==
  /\ At("idle") /\ Admitted /\ CanMarkRemovalDataRefreshRequired(rec)
  /\ ~Integrated => rec.phase = "data_outcome"
  /\ Write(MarkRemovalDataRefreshRequired(rec))
  /\ UNCHANGED <<world, parked, local, box, pkg, home, kids, relay, cmd>>

\* A confirmed refresh replaces the selection.  The standalone command
\* compares a native inventory revision that only a Trash request carries.
Supersede(m) ==
  /\ At("idle") /\ Admitted /\ rec.phase = "refresh" /\ Resolve
  /\ Integrated => RemovalRoutingGate(rec)
  /\ ~Integrated => m.mode = "trash"
  /\ CanSupersedeRemovalDataRefresh(rec, m, home)
  /\ LET req == NewRequest(m, "native")
     IN /\ Write(SupersedeRemovalDataRefreshRequired(rec, req))
        /\ cmd' = [Idle EXCEPT !.pc = "prepare", !.req = req]
  /\ UNCHANGED <<world, parked, local, box, pkg, home, kids, relay>>

\* A completed Trash outcome found by a later invocation.  The package
\* resume that follows is refused: the record carries no retry mark.
AdvanceOutcome ==
  /\ At("idle") /\ Admitted /\ CanAdvanceRemovalDataOutcome(rec)
  /\ Write(AdvanceRemovalDataOutcomeToPackagePending(rec))
  /\ UNCHANGED <<world, parked, local, box, pkg, home, kids, relay, cmd>>

\* ResumePackageRemoval up to its durable begin.
ResumePackage ==
  /\ At("idle") /\ Admitted /\ RemovalPackageResumeAdmission(rec)
  /\ rec.phase = "verified" => ~VerifyAbsent
  /\ \/ /\ VerifyRouting /\ Resolve
        /\ cmd' = [Idle EXCEPT !.pc = "uninstall", !.req = RequestOf(rec)]
     \/ /\ ~VerifyRouting \/ (~Integrated /\ ~Resolve)
        /\ cmd' = [Idle EXCEPT !.pc = "recover", !.then = "idle"]
  /\ UNCHANGED <<world, rec, parked, local, box, pkg, home, kids, relay>>

\* The package is verified and gone: reconcileVerifiedRemovedPackage, or the
\* standalone receipt rebuilt from the journal.
ResumeVerified ==
  /\ At("idle") /\ Admitted /\ Quiet(rec) /\ rec.phase = "verified" /\ VerifyAbsent
  /\ IF Integrated /\ ~VerifyRouting
     THEN parked' = TRUE /\ UNCHANGED cmd
     ELSE cmd' = [Idle EXCEPT !.pc = "release", !.req = RequestOf(rec)] /\ UNCHANGED parked
  /\ UNCHANGED <<world, rec, local, box, pkg, home, kids, relay>>

\* Mutant: a marked resolution is cleared before its park.
ResumeMarkedUnparked ==
  /\ At("idle") /\ rec.resolution # "" /\ ~local
  /\ cmd' = [Idle EXCEPT !.pc = "clear"]
  /\ UNCHANGED <<world, rec, parked, local, box, pkg, home, kids, relay>>

\* A marked resolution is resumed at its park.
ResumeMarked ==
  /\ At("idle") /\ rec.resolution # "" /\ ~local
  /\ cmd' = [Idle EXCEPT !.pc = "park"]
  /\ UNCHANGED <<world, rec, parked, local, box, pkg, home, kids, relay>>

\* --confirm-rebooted-process-recovery, integrated.
ReconcileAfterBoot ==
  /\ At("idle") /\ Integrated /\ ~local /\ CanReconcileActiveExecution(rec, boot)
  /\ Write(ReconcileActiveExecutionAfterBoot(rec, VerifyAbsent))
  /\ cmd' = IF rec.active.kind = "teardown"
            THEN [Idle EXCEPT !.pc = "recover", !.then = "idle"] ELSE Idle
  /\ UNCHANGED <<world, parked, local, box, pkg, home, kids, relay>>

\* The same confirmation, standalone: a teardown that left the reviewed
\* origin is reconciled only against a proven native boundary.
ReconcileStandaloneAfterBoot ==
  /\ At("idle") /\ ~Integrated /\ CanReconcileActiveExecution(rec, boot)
  /\ IF rec.active.kind = "teardown" /\ box # rec.origin
     THEN /\ VerifyNativeBoundary /\ CanReconcileStandaloneTeardown(rec, boot)
          /\ Replace(ReconcileStandaloneTeardownAfterBoot(rec, box))
     ELSE Write(ReconcileActiveExecutionAfterBoot(rec, VerifyAbsent))
  /\ UNCHANGED <<world, parked, local, box, pkg, home, kids, relay, cmd>>

\* reconcileStandaloneNativeRemoval after the execution witness is clear.
ReconcileStandaloneRecovery ==
  /\ At("idle") /\ ~Integrated /\ Exists(rec) /\ ~Active(rec)
  /\ \/ rec.recoveryPending /\ Write(ReleaseRemovalRoutingGateForRecovery(rec))
     \/ /\ ~rec.recoveryPending /\ rec.nativeRecovery
        /\ \/ /\ IF rec.verified # "" THEN box = rec.verified /\ VerifyNativeBoundary
                                      ELSE box = rec.origin
              /\ CanClearStandaloneNativeRecovery(rec)
              /\ Replace(ClearStandaloneNativeRecovery(rec))
           \/ /\ rec.verified = "" /\ box # rec.origin /\ VerifyNativeBoundary
              /\ CanRecoverStandaloneTeardownBoundary(rec)
              /\ Replace(RecoverStandaloneTeardownNativeBoundary(rec, box))
  /\ UNCHANGED <<world, parked, local, box, pkg, home, kids, relay, cmd>>

----------------------------------------------------------------------------
(* RemovalCoordinator.Remove. *)

AfterTeardown(req) == IF req.mode = "trash" THEN "trash" ELSE "package"

\* Candidate checks and preflight, then the durable intent.  With a verified
\* native boundary the teardown is skipped, and refused when the record does
\* not say it completed.
PrepareOperation ==
  /\ At("prepare")
  /\ IF Resolve /\ CanEnsureRemovalIntent(rec, cmd.req)
     THEN /\ Write(EnsureRemovalIntent(rec, context, cmd.req))
          /\ IF rec.verified = "" THEN Goto("teardown")
             ELSE IF ~rec.teardownDone THEN Done
             ELSE IF ~VerifyRouting THEN Recovering("idle")
             ELSE Goto(AfterTeardown(cmd.req))
     ELSE Done /\ UNCHANGED rec
  /\ UNCHANGED <<world, parked, local, box, pkg, home, kids, relay>>

\* Boundary check and durable begin of the teardown or the Trash child.
BeginChild(kind) ==
  /\ At(kind) /\ kind \in {"teardown", "trash"}
  /\ IF kind = "trash" /\ ~Resolve THEN Done /\ UNCHANGED rec
     ELSE IF ~VerifyRouting THEN Recovering("idle") /\ UNCHANGED rec
     ELSE IF ~CanBeginExecution(rec, kind) THEN Done /\ UNCHANGED rec
     ELSE Write(BeginExecution(rec, kind, boot)) /\ Goto("launch")
  /\ UNCHANGED <<world, parked, local, box, pkg, home, kids, relay>>

\* The package stage is two writes: pending, then in flight.
PreparePackageRemoval ==
  /\ At("package")
  /\ IF ~Resolve THEN Done /\ UNCHANGED rec
     ELSE IF ~VerifyRouting THEN Recovering("idle") /\ UNCHANGED rec
     ELSE IF ~CanPrepareRemovalPackageCleanup(rec) THEN Done /\ UNCHANGED rec
     ELSE Write(PrepareRemovalPackageCleanup(rec)) /\ Goto("uninstall")
  /\ UNCHANGED <<world, parked, local, box, pkg, home, kids, relay>>

BeginPackage ==
  /\ At("uninstall")
  /\ IF CanBeginExecution(rec, "package")
     THEN Write(BeginExecution(rec, "package", boot)) /\ Goto("launch")
     ELSE Done /\ UNCHANGED rec
  /\ UNCHANGED <<world, parked, local, box, pkg, home, kids, relay>>

Marking(why, flag) == cmd' = [cmd EXCEPT !.pc = "mark", !.why = why, !.flag = flag]

\* BeforeOCXMutation or BeforeUninstall found the boundary changed.
RefuseRouting ==
  /\ At("launch") /\ ~VerifyRouting
  /\ Marking("pre_start_routing_changed", TRUE)
  /\ UNCHANGED <<world, rec, parked, local, box, pkg, home, kids, relay>>

\* The candidate no longer matches: nothing started, the witness is cleared.
RefuseCandidate ==
  /\ At("launch") /\ Fault
  /\ Finish(FALSE, FALSE) /\ Done
  /\ UNCHANGED <<context, boot, receipt, parked, local, box, pkg, home, kids, relay>>

\* Any other error before the start counts as a possible mutation: the
\* witness stays.
LaunchFailed ==
  /\ At("launch") /\ Fault
  /\ IF rec.active.kind = "package" THEN Done ELSE Recovering("idle")
  /\ UNCHANGED <<context, boot, receipt, rec, parked, local, box, pkg, home, kids, relay>>

LaunchChild ==
  /\ At("launch") /\ VerifyRouting
  /\ kids' = kids \cup {[kind |-> rec.active.kind, attempt |-> rec.attempt,
                         items |-> IF rec.active.kind = "trash" THEN rec.selected ELSE {}]}
  /\ Goto("wait")
  /\ UNCHANGED <<world, rec, parked, local, box, pkg, home, relay>>

----------------------------------------------------------------------------
(* The children: external programs, alive until they exit or are killed.   *)

Teardown(k) ==
  /\ k.kind = "teardown" /\ ~Integrated /\ box = "opencodex" /\ box' = "native"
  /\ UNCHANGED <<world, rec, parked, local, pkg, home, kids, relay, cmd>>

Trash(k) ==
  /\ k.kind = "trash"
  /\ \E i \in k.items \cap home : home' = home \ {i}
  /\ UNCHANGED <<world, rec, parked, local, box, pkg, kids, relay, cmd>>

Uninstall(k) ==
  /\ k.kind = "package" /\ pkg # "absent"
  /\ pkg' \in {"partial", "absent"} \ {pkg}
  /\ UNCHANGED <<world, rec, parked, local, box, home, kids, relay, cmd>>

\* A child nobody waits for ends.
ChildExit(k) ==
  /\ k \in kids /\ ~At("wait")
  /\ kids' = kids \ {k}
  /\ UNCHANGED <<world, rec, parked, local, box, pkg, home, relay, cmd>>

Waiting(kind) == At("wait") /\ rec.active.kind = kind
\* The child the command waits for is gone with its process group.
Reap == kids' = {k \in kids : k.attempt # rec.active.attempt}

\* The child failed or timed out and its process group is proven gone.
ChildFailed(kind) ==
  /\ Waiting(kind) /\ kind # "package" /\ Fault
  /\ Reap /\ Finish(TRUE, TRUE) /\ Recovering("idle")
  /\ UNCHANGED <<context, boot, receipt, parked, local, box, pkg, home, relay>>

\* The process group could not be proven gone: the child may still run.
ChildUnproven ==
  /\ At("wait") /\ Fault
  /\ Finish(TRUE, FALSE) /\ Recovering("idle")
  /\ UNCHANGED <<context, boot, receipt, kids, parked, local, box, pkg, home, relay>>

\* The teardown child returned a valid receipt with status completed.
TeardownCompleted ==
  /\ Waiting("teardown") /\ Reap
  /\ IF Integrated
     THEN /\ Finish(TRUE, TRUE)
          /\ IF VerifyRouting THEN Goto(AfterTeardown(cmd.req)) ELSE Recovering("idle")
     ELSE IF StateOf(box) = "native" /\ CanCompleteStandaloneTeardown(rec)
          THEN /\ Replace(CompleteStandaloneTeardown(rec, box))
               /\ Goto(AfterTeardown(cmd.req))
          ELSE UNCHANGED rec /\ Recovering("idle")
  /\ IF Integrated \/ StateOf(box) = "native" THEN UNCHANGED faults ELSE Fault
  /\ UNCHANGED <<context, boot, receipt, parked, local, box, pkg, home, relay>>

\* A valid receipt with another status.
TeardownRefused ==
  /\ Waiting("teardown") /\ Fault /\ Reap
  /\ Finish(TRUE, TRUE)
  /\ IF Integrated /\ VerifyRouting THEN Done ELSE Recovering("idle")
  /\ UNCHANGED <<context, boot, receipt, parked, local, box, pkg, home, relay>>

\* The receipt of a teardown or Trash child does not parse.
ReceiptInvalid(kind) ==
  /\ Waiting(kind) /\ kind # "package" /\ Fault /\ Reap
  /\ IF kind = "teardown" THEN Marking("teardown_receipt_invalid", TRUE)
                          ELSE Marking("trash_receipt_invalid", ~VerifyRouting)
  /\ UNCHANGED <<context, boot, receipt, rec, parked, local, box, pkg, home, relay>>

\* A receipt is completed when it lists every requested item; any other status
\* is accepted with any of them.  That it lists the items the child moved is the
\* child's promise (external).
ParseUpstreamTrash(status, moved) ==
  status \in DataOutcomes /\ (status = "completed" => moved = rec.selected)

\* A valid Trash receipt.  The witness is cleared first; an unstable
\* boundary is then recorded, and only then the outcome.
TrashFinished(status) ==
  /\ Waiting("trash") /\ Reap /\ ParseUpstreamTrash(status, rec.selected \ home)
  /\ IF status = "completed" THEN UNCHANGED faults ELSE Fault
  /\ Finish(TRUE, TRUE)
  /\ cmd' = [cmd EXCEPT !.pc = IF VerifyRouting THEN "record" ELSE "recover",
                        !.then = "record", !.why = status, !.flag = VerifyRouting]
  /\ UNCHANGED <<context, boot, receipt, parked, local, box, pkg, home, relay>>

RecordDataOutcome ==
  /\ At("record") /\ CanRecordRemovalDataOutcome(rec)
  /\ Write(RecordRemovalDataOutcome(rec, Cardinality(rec.selected \ home), cmd.why))
  /\ CASE cmd.why = "unsupported" -> Goto("refresh")
       [] cmd.why = "completed" /\ cmd.flag -> Goto("package")
       [] OTHER -> Done
  /\ UNCHANGED <<world, parked, local, box, pkg, home, kids, relay>>

\* The write of the outcome, or of the refresh after it, fails.
OutcomeWriteFails ==
  /\ At("record") \/ At("refresh")
  /\ Fault /\ Recovering("idle")
  /\ UNCHANGED <<context, boot, receipt, rec, parked, local, box, pkg, home, kids, relay>>

MarkDataRefresh ==
  /\ At("refresh") /\ Write(MarkRemovalDataRefreshRequired(rec)) /\ Done
  /\ UNCHANGED <<world, parked, local, box, pkg, home, kids, relay>>

\* npm returned, with its process group gone: phase verified, whatever the
\* exit code says.
PackageFinished(succeeded) ==
  /\ Waiting("package") /\ Reap
  /\ IF succeeded /\ pkg = "absent" THEN UNCHANGED faults ELSE Fault
  /\ Finish(TRUE, TRUE)
  /\ cmd' = [cmd EXCEPT !.pc = IF VerifyRouting THEN "verify" ELSE "recover",
                        !.then = "verify", !.flag = succeeded /\ VerifyRouting]
  /\ UNCHANGED <<context, boot, receipt, parked, local, box, pkg, home, relay>>

\* VerifyRemoved and the final boundary check; only a clean run finalises.
VerifyRemoved ==
  /\ At("verify")
  /\ IF VerifyAbsent /\ VerifyRouting /\ cmd.flag THEN Goto("release") ELSE Recovering("idle")
  /\ UNCHANGED <<world, rec, parked, local, box, pkg, home, kids, relay>>

----------------------------------------------------------------------------
(* Unproven outcomes: recovery marks and marked resolutions. *)

\* requireRoutingRecovery.  An unmarked active child refuses the park; the
\* standalone mark has no such refusal.
RequireRoutingRecovery ==
  /\ At("recover")
  /\ IF Integrated
     THEN parked' = (parked \/ ~Active(rec)) /\ UNCHANGED rec
     ELSE /\ IF CanMarkStandaloneNativeRecovery(rec)
             THEN Replace(MarkStandaloneNativeRecovery(rec)) ELSE UNCHANGED rec
          /\ UNCHANGED parked
  /\ IF cmd.then = "idle" THEN Done ELSE Goto(cmd.then)
  /\ UNCHANGED <<world, local, box, pkg, home, kids, relay>>

MarkResolution ==
  /\ At("mark") /\ CanMarkRemovalExecutionResolution(rec, cmd.why, cmd.flag)
  /\ Write(MarkRemovalExecutionResolution(rec, cmd.why, cmd.flag))
  /\ Goto("park")
  /\ UNCHANGED <<world, parked, local, box, pkg, home, kids, relay>>

\* The park a marked resolution requires, before its witness is cleared.
ParkMarked ==
  /\ At("park")
  /\ IF ~rec.requires THEN UNCHANGED <<rec, parked>>
     ELSE IF Integrated THEN parked' = TRUE /\ UNCHANGED rec
     ELSE Replace(MarkStandaloneNativeRecovery(rec)) /\ UNCHANGED parked
  /\ Goto("clear")
  /\ UNCHANGED <<world, local, box, pkg, home, kids, relay>>

ResolveMarked ==
  /\ At("clear") /\ Write(ResolvedRemovalExecutionRecord(rec)) /\ Done
  /\ UNCHANGED <<world, parked, local, box, pkg, home, kids, relay>>

----------------------------------------------------------------------------
(* The end of a removal. *)

\* removalReceiptAllowsFinalization and emitFinalStandaloneNativeReceipt arm
\* the finalization witness on the exact, absent package.
AllowFinalization ==
  /\ At("release")
  /\ IF VerifyAbsent /\ CanReleaseForFinalization(rec) /\ (Integrated \/ box = rec.verified)
     THEN /\ Write(ReleaseRemovalRoutingGateForFinalization(rec))
          /\ Goto(IF Integrated THEN "profile" ELSE "emit")
     ELSE /\ UNCHANGED rec
          /\ IF Integrated THEN Done ELSE Recovering("idle")
  /\ UNCHANGED <<world, parked, local, box, pkg, home, kids, relay>>

\* Mutant: the journal goes before the enrolment.
FinalizeJournalFirst ==
  \/ /\ At("profile") /\ relay' = relay \ {"profile"} /\ Goto("enrollment")
     /\ UNCHANGED <<world, rec, parked, local, box, pkg, home, kids>>
  \/ /\ At("enrollment") /\ rec' = NoRecord /\ Goto("journal")
     /\ UNCHANGED <<world, parked, local, box, pkg, home, kids, relay>>
  \/ /\ At("journal") /\ relay' = relay \ {"enrollment"} /\ Done
     /\ UNCHANGED <<world, rec, parked, local, box, pkg, home, kids>>
\* finalizeRelayRemoval: profile, enrolment, journal, in this order.
FinalizeRelay ==
  \/ /\ At("profile") /\ relay' = relay \ {"profile"} /\ Goto("enrollment")
     /\ UNCHANGED <<world, rec, parked, local, box, pkg, home, kids>>
  \/ /\ At("enrollment") /\ relay' = relay \ {"enrollment"} /\ Goto("journal")
     /\ UNCHANGED <<world, rec, parked, local, box, pkg, home, kids>>
  \/ /\ At("journal") /\ rec' = NoRecord /\ Done
     /\ UNCHANGED <<world, parked, local, box, pkg, home, kids, relay>>

\* The standalone receipt leaves the process with the digest of the record.
EmitTerminalReceipt ==
  /\ At("emit")
  /\ IF StandaloneTerminalRemovalReplayReady(rec) /\ box = rec.verified /\ VerifyAbsent
     THEN receipt' = rec /\ Done
     ELSE UNCHANGED receipt /\ Recovering("idle")
  /\ UNCHANGED <<context, boot, faults, rec, parked, local, box, pkg, home, kids, relay>>

\* acknowledgeStandaloneNativeTerminal: only the exact record is consumed.
AcknowledgeTerminal ==
  /\ At("idle") /\ StandaloneTerminalRemovalReplayReady(rec)
  /\ box = rec.verified /\ VerifyAbsent /\ receipt = rec
  /\ rec' = NoRecord
  /\ UNCHANGED <<world, parked, local, box, pkg, home, kids, relay, cmd>>

----------------------------------------------------------------------------
(* Routing commands beside the removal (integrated). *)

RemovalRoutingRecoveryEligible(r) ==
  /\ Exists(r) /\ ~Active(r) /\ r.resolution = "" /\ ~r.finalizing
  /\ r.recoveryPending \/ (r.phase = "verified" /\ ~r.released)

\* The witness a removal recovery is bound to: a parked or committed route on
\* a non-local backend whose files are the managed ones.
CaptureRemovalRecoveryWitness == ~local /\ box = "managed"

\* mode recover with the gate open: the ordinary recovery.
ModeRecover ==
  /\ At("idle") /\ Integrated /\ RemovalRoutingGate(rec)
  /\ ~local /\ box = "managed" /\ parked /\ parked' = FALSE
  /\ UNCHANGED <<world, rec, local, box, pkg, home, kids, relay, cmd>>

\* With the gate closed the record must be eligible, and the witness is
\* captured before anything is changed.
PrepareRemovalRoutingRecovery ==
  /\ At("idle") /\ Integrated /\ ~RemovalRoutingGate(rec)
  /\ RemovalRoutingRecoveryEligible(rec) /\ CaptureRemovalRecoveryWitness
  /\ cmd' = [Idle EXCEPT !.pc = "recoverRoute", !.why = box]
  /\ UNCHANGED <<world, rec, parked, local, box, pkg, home, kids, relay>>

\* Mutant: routing is recovered and the gate never released.
ExecuteRecoveryOnly ==
  /\ At("recoverRoute") /\ parked' = (parked /\ box # cmd.why) /\ Done
  /\ UNCHANGED <<world, rec, local, box, pkg, home, kids, relay>>

\* Recover under the witness; an already recovered route goes straight to
\* the release.
ExecuteRemovalRoutingRecovery ==
  /\ At("recoverRoute")
  /\ IF box = cmd.why THEN parked' = FALSE /\ Goto("releaseGate")
                     ELSE UNCHANGED parked /\ Done
  /\ UNCHANGED <<world, rec, local, box, pkg, home, kids, relay>>

\* The witness must still name the exact stable snapshot.
ReleaseRecoveredRemovalRoutingToken ==
  /\ At("releaseGate")
  /\ IF box = cmd.why /\ ~parked THEN Write(ReleaseRemovalRoutingGateForRecovery(rec))
                                ELSE UNCHANGED rec
  /\ Done
  /\ UNCHANGED <<world, parked, local, box, pkg, home, kids, relay>>

\* A routing change to or from the local OpenCodex, behind the gate.
SwitchBackend ==
  /\ At("idle") /\ Integrated /\ RemovalRoutingGate(rec) /\ ~parked
  /\ box = "managed" /\ pkg = "present" /\ "profile" \in relay
  /\ local' = ~local
  /\ UNCHANGED <<world, rec, parked, box, pkg, home, kids, relay, cmd>>

\* mode handoff: the approved OpenCodex command runs with every relay-owned
\* precondition checked, no removal on record and routing settled.
StartHandoff ==
  /\ At("idle") /\ Integrated /\ ~Exists(rec) /\ ~parked /\ Resolve
  /\ cmd' = [Idle EXCEPT !.pc = "ocx"]
  /\ UNCHANGED <<world, rec, parked, local, box, pkg, home, kids, relay>>

\* The command failed, or left a configuration that does not agree with the
\* applied backend: routing is parked.
HandoffRefused ==
  /\ At("ocx") /\ Fault
  /\ box' \in {"managed", "foreign"} /\ parked' = TRUE /\ Done
  /\ UNCHANGED <<context, boot, receipt, rec, local, pkg, home, kids, relay>>

\* OpenCodex released the configuration; the relay writes its profile.
HandoffProfile ==
  /\ At("ocx") /\ box' = "managed" /\ relay' = relay \cup {"profile"}
  /\ cmd' = [cmd EXCEPT !.pc = "enrol", !.flag = "profile" \in relay]
  /\ UNCHANGED <<world, rec, parked, local, pkg, home, kids>>

\* The enrolment receipt; when it cannot be written the profile is put back.
HandoffRecord ==
  /\ At("enrol")
  /\ \/ relay' = relay \cup {"enrollment"} /\ UNCHANGED faults
     \/ Fault /\ relay' = IF cmd.flag THEN relay ELSE relay \ {"profile"}
  /\ Done
  /\ UNCHANGED <<context, boot, receipt, rec, parked, local, box, pkg, home, kids>>

----------------------------------------------------------------------------
(* The environment. *)

\* Somebody edits the Codex configuration, or puts it back.
EditBoundary ==
  /\ Fault /\ box' = (IF Integrated THEN "foreign" ELSE "edited") /\ box' # box
  /\ UNCHANGED <<context, boot, receipt, rec, parked, local, pkg, home, kids, relay, cmd>>

RestoreBoundary ==
  /\ box \in {"foreign", "edited"}
  /\ box' = IF Integrated THEN "managed"
            ELSE IF rec.verified # "" THEN rec.verified
            ELSE IF Exists(rec) THEN rec.origin ELSE box
  /\ box' # box
  /\ UNCHANGED <<world, rec, parked, local, pkg, home, kids, relay, cmd>>

\* The command dies; its child, if any, is left running.
Crash ==
  /\ ~At("idle") /\ Fault /\ Done
  /\ UNCHANGED <<context, boot, receipt, rec, parked, local, box, pkg, home, kids, relay>>

\* The user reboots because an execution of this boot cannot be settled
\* otherwise, or the machine does at any moment.
Reboot ==
  /\ \/ At("idle") /\ rec.active.boot = boot /\ rec.resolution = "" /\ UNCHANGED faults
     \/ Fault
  /\ boot' = boot + 1 /\ kids' = {} /\ Done
  /\ UNCHANGED <<context, receipt, rec, parked, local, box, pkg, home, relay>>

----------------------------------------------------------------------------
Invoke ==
  \/ \E m \in Requests : Supersede(m)
  \/ ResumeIntent \/ MarkRefresh \/ AdvanceOutcome \/ ResumePackage \/ ResumeVerified
  \/ ResumeMarked \/ ReconcileAfterBoot \/ ReconcileStandaloneAfterBoot
  \/ ReconcileStandaloneRecovery \/ AcknowledgeTerminal \/ ModeRecover
  \/ PrepareRemovalRoutingRecovery

Advance ==
  \/ PrepareOperation \/ (\E k \in Kinds : BeginChild(k)) \/ PreparePackageRemoval
  \/ BeginPackage \/ RefuseRouting \/ LaunchChild \/ TeardownCompleted
  \/ TrashFinished("completed") \/ RecordDataOutcome \/ MarkDataRefresh
  \/ PackageFinished(TRUE) \/ VerifyRemoved \/ RequireRoutingRecovery
  \/ MarkResolution \/ ParkMarked \/ ResolveMarked \/ AllowFinalization
  \/ FinalizeRelay \/ EmitTerminalReceipt \/ ExecuteRemovalRoutingRecovery
  \/ ReleaseRecoveredRemovalRoutingToken \/ HandoffProfile \/ HandoffRecord

Fail ==
  \/ RefuseCandidate \/ LaunchFailed \/ (\E k \in Kinds : ChildFailed(k) \/ ReceiptInvalid(k))
  \/ ChildUnproven \/ TeardownRefused
  \/ (\E s \in DataOutcomes \ {"completed"} : TrashFinished(s)) \/ PackageFinished(FALSE)
  \/ OutcomeWriteFails
  \/ EditBoundary \/ HandoffRefused \/ Crash

\* Steps that do not stop while a removal is unfinished: the user repeats
\* the command, reboots when told to, and puts the configuration back.
Steady ==
  \/ Invoke \/ Advance \/ RestoreBoundary
  \/ At("idle") /\ rec.active.boot = boot /\ rec.resolution = "" /\ Reboot
  \/ \E k \in kids : Teardown(k) \/ Trash(k) \/ Uninstall(k) \/ ChildExit(k)

Next ==
  \/ Invoke \/ Advance \/ Fail \/ Reboot \/ SwitchBackend \/ RestoreBoundary
  \/ StartHandoff \/ \E m \in Requests : StartRemoval(m)
  \/ \E k \in kids : Teardown(k) \/ Trash(k) \/ Uninstall(k) \/ ChildExit(k)

Spec == Init /\ [][Next]_vars
FairSpec == Spec /\ WF_vars(Steady) /\ WF_vars(RestoreBoundary)

----------------------------------------------------------------------------
(* Properties. *)

PCs == {"idle", "prepare", "teardown", "trash", "package", "uninstall", "launch", "wait",
        "record", "refresh", "verify", "recover", "mark", "park", "clear", "release",
        "profile", "enrollment", "journal", "emit", "recoverRoute", "releaseGate",
        "ocx", "enrol"}

\* The journal holds no record or a record the validator accepts, and every
\* other variable has its type.
TypeOK ==
  /\ context \in {"integrated", "standalone"}
  /\ IF Exists(rec) THEN Valid(rec) /\ rec.context = context ELSE rec = NoRecord
  /\ {parked, local} \subseteq BOOLEAN /\ box \in Boxes
  /\ pkg \in {"present", "partial", "absent"}
  /\ home \subseteq Items /\ boot \in 1..(1 + MaxExecutions + MaxFaults) /\ relay \subseteq RelayAssets
  /\ cmd.pc \in PCs /\ faults \in 0..MaxFaults

\* A standalone record has its teardown behind it.
TornDown(r) == Standalone(r) => r.teardownDone

\* What a helper of the journal computes from a record on file, after its own
\* guards, is never refused by the writer or, standalone, by the validator: the
\* transition check and the helpers agree.  Three helpers leave it to the
\* coordinator that they are called in turn: a data outcome is recorded, a refresh
\* marked and the package prepared only after a standalone teardown (TornDown),
\* which the coordinator's order guarantees, and an outcome only for a Trash
\* request, in the terms of a parsed receipt.
HelpersAccepted ==
  Exists(rec) =>
    /\ At("record") \/ At("refresh") \/ At("package") => TornDown(rec)
    /\ \A k \in Kinds : CanBeginExecution(rec, k)
                          => WriteRemovalCleanup(rec, BeginExecution(rec, k, boot))
    /\ CanFinishExecution(rec) =>
         /\ \A started, clean \in BOOLEAN :
              WriteRemovalCleanup(rec, FinishExecution(rec, started, clean))
         /\ \A absent \in BOOLEAN :
              WriteRemovalCleanup(rec, ReconcileActiveExecutionAfterBoot(rec, absent))
         /\ \A why \in {"pre_start_routing_changed", "teardown_receipt_invalid",
                          "trash_receipt_invalid"}, req \in BOOLEAN :
              CanMarkRemovalExecutionResolution(rec, why, req)
              => WriteRemovalCleanup(rec, MarkRemovalExecutionResolution(rec, why, req))
    /\ rec.resolution # "" => WriteRemovalCleanup(rec, ResolvedRemovalExecutionRecord(rec))
    /\ CanRecordRemovalDataOutcome(rec) /\ rec.mode = "trash" /\ TornDown(rec) =>
         \A status \in DataOutcomes, moved \in 0..Cardinality(rec.selected) :
           (status = "completed" => moved = Cardinality(rec.selected))
           => WriteRemovalCleanup(rec, RecordRemovalDataOutcome(rec, moved, status))
    /\ CanMarkRemovalDataRefreshRequired(rec) /\ TornDown(rec) =>
         WriteRemovalCleanup(rec, MarkRemovalDataRefreshRequired(rec))
    /\ CanPrepareRemovalPackageCleanup(rec) /\ TornDown(rec) =>
         WriteRemovalCleanup(rec, PrepareRemovalPackageCleanup(rec))
    /\ CanAdvanceRemovalDataOutcome(rec) =>
         WriteRemovalCleanup(rec, AdvanceRemovalDataOutcomeToPackagePending(rec))
    /\ \A m \in Requests : CanSupersedeRemovalDataRefresh(rec, m, home) =>
         WriteRemovalCleanup(rec, SupersedeRemovalDataRefreshRequired(rec, NewRequest(m, "native")))
    /\ CanReleaseForRecovery(rec) =>
         WriteRemovalCleanup(rec, ReleaseRemovalRoutingGateForRecovery(rec))
    /\ CanReleaseForFinalization(rec) =>
         WriteRemovalCleanup(rec, ReleaseRemovalRoutingGateForFinalization(rec))
    /\ \A b \in Boxes :
         /\ CanCompleteStandaloneTeardown(rec) => Valid(CompleteStandaloneTeardown(rec, b))
         /\ CanReconcileStandaloneTeardown(rec, boot) =>
              Valid(ReconcileStandaloneTeardownAfterBoot(rec, b))
         /\ CanRecoverStandaloneTeardownBoundary(rec) =>
              Valid(RecoverStandaloneTeardownNativeBoundary(rec, b))
    /\ CanMarkStandaloneNativeRecovery(rec) => Valid(MarkStandaloneNativeRecovery(rec))
    /\ CanClearStandaloneNativeRecovery(rec) => Valid(ClearStandaloneNativeRecovery(rec))

\* A mutating child that may be alive is always the execution the journal
\* names, of this boot: so there is at most one, and the gate is closed.
LiveChildWitnessed ==
  \A k \in kids : rec.active = [kind |-> k.kind, attempt |-> k.attempt, boot |-> boot]

\* Routing is never on the local OpenCodex while a child takes it apart, nor
\* after the relay's profile of it is gone.
LocalHeldOff == local => kids = {} /\ "profile" \in relay

\* Every item that left its place is retired, in the current selection, or
\* the record refuses any further selection.
MovedAccounted ==
  Exists(rec) => rec.locked \/ Items \ home \subseteq rec.retired \cup rec.selected

\* From package_pending on, every selected item has been moved.
OutcomeTrue ==
  rec.phase \in {"pending", "in_flight", "verified"} => rec.selected \cap home = {}

\* Standalone, nothing is moved or uninstalled before the journal holds a
\* completed teardown and a verified native boundary.
BoundaryProven ==
  ~Integrated /\ Exists(rec) /\ (home # Items \/ pkg # "present") =>
    rec.teardownDone /\ rec.verified # "" /\ StateOf(rec.verified) = "native"

\* What the journal says of the data and of the boundary is true of the disk,
\* through crashes, invalid receipts, retries and superseded selections.
JournalTruthful == MovedAccounted /\ OutcomeTrue /\ BoundaryProven

\* A removal whose journal is gone is whole: the package is absent, no child
\* runs, and no relay asset still names the installation; and until it is, the
\* local OpenCodex is kept out of service.
RemovalWhole ==
  /\ LocalHeldOff
  /\ ~Exists(rec) /\ pkg # "present" => pkg = "absent" /\ kids = {} /\ relay = {}
  /\ "enrollment" \in relay /\ "profile" \notin relay => rec.finalizing
  /\ rec.finalizing => pkg = "absent"

\* A Trash child is started only on items that are all still in place: an
\* item is never handed to a second child after the first moved it.
NeverMovedTwice ==
  [][\A k \in kids' \ kids : k.kind = "trash" => k.items \subseteq home]_vars

\* The witness of a result that requires recovery is cleared only after the
\* recovery is durable.
ParkedBeforeCleared ==
  [][rec.requires /\ ~rec'.requires => IF Integrated THEN parked ELSE rec.nativeRecovery]_vars

\* The shapes of a journal no command takes further.
RefusedPending ==
  Quiet(rec) /\ rec.phase = "pending" /\ ~rec.reconciled /\ ~rec.packageRetry
RefusedPackage ==
  \/ pkg = "partial"
  \/ rec.attempt = MaxExecutions \/ rec.packageAttempt = MaxPackages
RefusedStandalone ==
  /\ Standalone(rec)
  /\ \/ rec.nativeRecovery /\ pkg # "present"
     \/ rec.verified # "" /\ ~rec.teardownDone
     \/ rec.operationRetry /\ rec.teardownDone
     \/ rec.phase = "verified" /\ pkg = "present" /\ ~rec.released
     \/ rec.phase = "intent" /\ rec.mode = "trash"
        /\ rec.inventory # [state |-> rec.originState, home |-> home]
     \/ rec.phase = "refresh" /\ (rec.locked \/ rec.revision = MaxRevisions \/ home \subseteq rec.retired)

\* No command makes progress: the invocation is refused, or repeats itself.
Refused == At("idle") /\ Exists(rec) /\ (RefusedPending \/ RefusedPackage \/ RefusedStandalone)

\* A removal on record ends (the record is gone, or the standalone receipt is
\* out) or stays in one of the shapes above, or routing goes back to the
\* local OpenCodex, when the user keeps invoking the command, reboots when
\* told to and restores the configuration, and failures stop.
RemovalSettles == Exists(rec) ~> (~Exists(rec) \/ receipt = rec \/ Refused \/ local)

\* ReconcileStandaloneTeardownAfterBoot's comment: "Teardown remains
\* incomplete, so the adapter must run again and return a valid complete
\* receipt before data or package mutation."
TeardownRunsAgain ==
  (rec.operationRetry /\ rec.verified # "" /\ ~rec.teardownDone)
    ~> (rec.active.kind = "teardown" \/ ~Exists(rec))
==========================================================================
