---------------------------- MODULE RoutingState ----------------------------
(***************************************************************************)
(* The durable routing state of the relay (routing/state.go, store.go) and *)
(* the pure transition functions of the controller (routing/controller.go).*)
(* A state is the record of routing-state.json without its path bindings:  *)
(*   gen      Generation                                                   *)
(*   desired  DesiredBackend  (DesiredMode is ModeForBackend(desired))     *)
(*   applied  AppliedBackend  (AppliedMode is ModeForBackend(applied))     *)
(*   phase    Phase                                                        *)
(*   intent   KnownLegacyBackupAndMigrate                                  *)
(* NoState stands for a file that is missing or cannot be decoded.         *)
(***************************************************************************)
EXTENDS Naturals

RelayBackends == {"external", "local_opencodex", "local_apple_container"}

Backends == RelayBackends \cup {"none"}

RecoveryBackends == Backends \cup {"unknown"}

PendingPhases ==
  {"native_pending_restart", "relay_pending_restart", "backend_pending_restart"}

ActivePhases == {"relay_active", "native_active"}

StablePhases == PendingPhases \cup ActivePhases

Phases == StablePhases \cup {"applying", "recovery_required"}

NoState == [gen |-> 0, desired |-> "unknown", applied |-> "unknown",
            phase |-> "absent", intent |-> FALSE]

States == [gen : Nat \ {0}, desired : RecoveryBackends,
           applied : RecoveryBackends, phase : Phases, intent : BOOLEAN]

ModeForBackend(b) == IF b \in RelayBackends THEN "relay"
                     ELSE IF b = "none" THEN "native" ELSE "unknown"

\* State.AllowsDataPlane, and State.AllowsCatalog which follows it.
AllowsDataPlane(s) ==
  s.phase \in {"relay_active", "native_pending_restart", "backend_pending_restart"}

ActivePhaseForBackend(b) ==
  IF b = "none" THEN "native_active"
  ELSE IF b \in RelayBackends THEN "relay_active" ELSE "recovery_required"

PendingPhaseForBackends(desired, applied) ==
  CASE desired = "none" /\ applied \in RelayBackends -> "native_pending_restart"
    [] desired \in RelayBackends /\ applied = "none" -> "relay_pending_restart"
    [] /\ desired \in RelayBackends /\ applied \in RelayBackends
       /\ desired # applied                          -> "backend_pending_restart"
    [] OTHER                                         -> ""

\* What each phase demands of the two backends: the switch of validateForBound.
ShapeOfPhase(s) ==
  \/ /\ s.phase = "relay_active"
     /\ s.desired \in RelayBackends /\ s.desired = s.applied
  \/ /\ s.phase \in PendingPhases
     /\ s.phase = PendingPhaseForBackends(s.desired, s.applied)
  \/ /\ s.phase = "applying"
     /\ \/ s.desired # s.applied /\ s.desired \in Backends /\ s.applied \in Backends
        \/ s.desired = s.applied /\ s.desired \in {"external", "local_apple_container"}
  \/ s.phase = "native_active" /\ s.desired = "none" /\ s.applied = "none"
  \/ /\ s.phase = "recovery_required"
     /\ s.desired \in RecoveryBackends /\ s.applied \in RecoveryBackends

ValidState(s) == /\ s.gen > 0
                 /\ s.intent => s.desired = "external"
                 /\ ShapeOfPhase(s)

\* validateTransition of Lock.Save.
ValidTransition(previous, next) ==
  \/ next.phase = "recovery_required"
  \/ /\ previous.phase = "relay_active"
     /\ next.phase \in {"relay_active", "native_pending_restart",
                        "backend_pending_restart", "applying"}
  \/ /\ previous.phase = "native_pending_restart"
     /\ next.phase \in {"native_pending_restart", "relay_active",
                        "backend_pending_restart", "applying"}
  \/ /\ previous.phase = "relay_pending_restart"
     /\ next.phase \in {"relay_pending_restart", "native_active", "applying"}
  \/ /\ previous.phase = "backend_pending_restart"
     /\ next.phase \in {"backend_pending_restart", "relay_active",
                        "native_pending_restart", "applying"}
  \/ /\ previous.phase = "applying"
     /\ \/ previous.desired = "none" /\ next.phase = "native_active"
        \/ previous.desired \in RelayBackends /\ next.phase = "relay_active"
  \/ /\ previous.phase = "native_active"
     /\ next.phase \in {"native_active", "relay_pending_restart"}

\* requestBackendTransition for a stable state and target # s.desired. The
\* generation and the legacy intent are set by the caller.
RequestTransition(s, target) ==
  [s EXCEPT !.desired = target,
            !.phase   = IF target = s.applied THEN ActivePhaseForBackend(target)
                        ELSE PendingPhaseForBackends(target, s.applied)]

CancelTransition(s) ==
  [s EXCEPT !.desired = s.applied,
            !.phase   = ActivePhaseForBackend(s.applied),
            !.intent  = FALSE,
            !.gen     = s.gen + 1]

\* The opposite origin that forces a journal-free recovery through a rebuild.
ForcedRecoveryOrigin(target) == IF target = "none" THEN "external" ELSE "none"

\* The committed state of a switch to the desired backend of applying.
FinalState(applying) ==
  [gen     |-> applying.gen + 1,
   desired |-> applying.desired,
   applied |-> applying.desired,
   phase   |-> ActivePhaseForBackend(applying.desired),
   intent  |-> FALSE]

\* The state failApplyingLocked saves.
FailedState(s) == [s EXCEPT !.phase = "recovery_required", !.gen = s.gen + 1]

=============================================================================
