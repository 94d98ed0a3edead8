---------------------------- MODULE RoutingSwitch ----------------------------
(***************************************************************************)
(* A routing switch: relayctl's Controller (routing/controller.go) moves   *)
(* Codex from one backend to another while the resident relay keeps its    *)
(* listeners.  The two processes share only files (state, journal, Codex   *)
(* TOML and interactive profile), the loopback health endpoint and the     *)
(* control socket.  Each action below ends at a point where another        *)
(* process can observe a change or where a crash leaves a different disk.  *)
(*                                                                         *)
(* Durable:   marker, st, journal, codex                                   *)
(* Relayctl:  ctl, at most one because every writer holds Store.Lock       *)
(* Relay:     up, snap, watch (Watcher), slot, handlers (RuntimeManager    *)
(*            and control socket), cat (catalog worker), req (requests)    *)
(*                                                                         *)
(* Out of scope here: the gateway URL reload and the Apple Container       *)
(* owners, which add their own journals and keep this one away.            *)
(***************************************************************************)
EXTENDS RoutingState, FiniteSets

CONSTANTS
  Requests,      \* data-plane requests that may be in flight at once
  MaxGen,        \* operations start only below this generation
  MaxFaults,     \* faults in a behaviour
  FaultKinds     \* which faults may happen

AllFaultKinds ==
  {"crash", "relay_crash", "timeout", "io", "edit", "lose_state", "journal"}

ASSUME SwitchAssumption ==
  /\ IsFiniteSet(Requests)
  /\ MaxGen \in Nat
  /\ MaxFaults \in Nat
  /\ FaultKinds \subseteq AllFaultKinds

VARIABLES marker, st, journal, codex, ctl, up, snap, watch, slot, handlers,
          cat, req, faults

durable == <<marker, st, journal, codex>>
relay == <<up, snap, watch, slot, handlers, cat, req>>
vars == <<marker, st, journal, codex, ctl, up, snap, watch, slot, handlers,
          cat, req, faults>>

-----------------------------------------------------------------------------
(* Codex artifacts: the routing block of config.toml and the interactive   *)
(* profile.  "foreign" is any override the relay does not own, "legacy" a  *)
(* recognised former OpenCodex root; rev counts edits of anything else.    *)

RootValues == Backends \cup {"foreign", "legacy"}

ProfileValues == Backends \cup {"foreign"}

Artifacts == [root : RootValues, inter : ProfileValues, rev : Nat]

ManagedRoot(c) == c.root \in RelayBackends

ManagedProfile(c) == c.inter \in RelayBackends

\* routingArtifactsMatch and AppliedRoutingDriftCheck: both files describe b.
Matches(c, b) == c.root = b /\ c.inter = b

\* PreflightEnableWithInteractiveProfileForOwner.
PreflightEnable(c) == c.inter # "foreign" /\ c.root \notin {"foreign", "legacy"}

\* preflightNative refuses a half-managed pair as well.
PreflightNative(c) ==
  PreflightEnable(c) /\ (ManagedRoot(c) <=> ManagedProfile(c))

\* PlanLegacyMigrationWithInteractiveProfileForOwner: RequiresMigration.
MigrationRequired(c, target, intent) ==
  target = "external" /\ intent /\ c.root = "legacy" /\ c.inter = "none"

Preflight(c, target, intent) ==
  \/ target = "none" /\ PreflightNative(c)
  \/ target \in RelayBackends /\ PreflightEnable(c)
  \/ MigrationRequired(c, target, intent)

\* inferLegacyState and managedBackendFromArtifacts: the backend both files
\* agree on, or "unknown" when they are ambiguous, partial or foreign.
InferBackend(c) ==
  IF c.root = c.inter /\ c.root \in Backends THEN c.root ELSE "unknown"

-----------------------------------------------------------------------------
(* The transaction journal.                                                *)

NoArtifacts == [root |-> "none", inter |-> "none", rev |-> 0]

NoJournal == [stage |-> "absent", gen |-> 0, target |-> "unknown",
              origin |-> "unknown", auth |-> FALSE, mig |-> FALSE,
              fp |-> NoArtifacts]

CorruptJournal == [NoJournal EXCEPT !.stage = "corrupt"]

Journals == [stage : {"absent", "corrupt", "prepared", "config_mutated"},
             gen : Nat, target : RecoveryBackends, origin : RecoveryBackends,
             auth : BOOLEAN, mig : BOOLEAN, fp : Artifacts]

JournalValid == journal.stage \in {"prepared", "config_mutated"}

\* newJournal over the applying state s, with fingerprints of the files now.
NewJournal(s, auth, mig, stage) ==
  [stage |-> stage, gen |-> s.gen, target |-> s.desired, origin |-> s.applied,
   auth |-> auth /\ ~mig, mig |-> mig, fp |-> codex]

JournalMatchesCurrentFiles == journal.fp = codex

RecoveryStateFromJournal ==
  [gen |-> journal.gen + 1, desired |-> journal.target,
   applied |-> journal.origin, phase |-> "recovery_required",
   intent |-> journal.mig]

-----------------------------------------------------------------------------
(* Store.Read and Lock.Save.                                               *)

Legacy == st = NoState /\ ~marker

StateUnreadable == st = NoState /\ marker

\* What a missing state file means before a controller has taken ownership.
NewRelayState == [gen |-> 1, desired |-> "external", applied |-> "external",
                  phase |-> "relay_active", intent |-> FALSE]

InferredState ==
  LET b == InferBackend(codex)
  IN  IF b = "unknown" THEN NoState
      ELSE [gen |-> 1, desired |-> b, applied |-> b,
            phase |-> ActivePhaseForBackend(b), intent |-> FALSE]

\* boundState: NoState stands for its error.
BoundState == IF Legacy THEN InferredState ELSE st

CanSave(next) ==
  /\ ValidState(next)
  /\ ~StateUnreadable
  /\ ~Legacy => next.gen > st.gen /\ ValidTransition(st, next)

-----------------------------------------------------------------------------
(* Process state.                                                          *)

CtlPCs == {"idle", "first", "repair", "recover", "journal", "park", "park_catalog",
           "park_active", "park_interactive", "control", "swap", "config",
           "profile", "mutated", "final", "unlink", "finalize", "done"}

\* s is the state the handler carries (for "repair" the one it may restore),
\* auth and mig the two flags of finishApplyingLockedWithOriginAuthority, base
\* the root file as the config writers would restore it.
Idle == [pc |-> "idle", s |-> NoState, auth |-> FALSE, mig |-> FALSE, base |-> "none"]

Ctls == [pc : CtlPCs, s : States \cup {NoState}, auth : BOOLEAN, mig : BOOLEAN,
         base : RootValues]

InvalidSnapshot ==
  [s |-> [gen |-> 1, desired |-> "unknown", applied |-> "unknown",
          phase |-> "recovery_required", intent |-> FALSE],
   legacy |-> FALSE, invalid |-> TRUE, rev |-> 0]

\* rev is auxiliary: the edit of the Codex files that the pass has compared.
Snapshots == [s : States, legacy : BOOLEAN, invalid : BOOLEAN, rev : Nat]

SnapAllows == ~snap.invalid /\ AllowsDataPlane(snap.s)

WatchIdle == [pc |-> "idle", s |-> NewRelayState, legacy |-> FALSE, bad |-> FALSE,
              rev |-> 0]

Watches == [pc : {"idle", "state", "journal", "drift"}, s : States,
            legacy : BOOLEAN, bad : BOOLEAN, rev : Nat]

Handlers == [gen : Nat, backend : Backends]

NoHandler == [gen |-> 0, backend |-> "none"]

\* admission "paused" also stands for local_unavailable: neither admits.  late
\* is auxiliary: the handler that swapped this runtime in had no relayctl
\* waiting for it any more.
Slots == [profile : Backends, admission : {"active", "transitioning", "paused"},
          h : Handlers, late : BOOLEAN]

Cats == [pc : {"stopped", "top", "admitted", "loop", "egress"},
         obs : {"unknown", "paused", "running"}]

ReqPCs == {"idle", "gated", "begun", "admitted"}

ReqIdle == [pc |-> "idle", profile |-> "none"]

CatStopped == [pc |-> "stopped", obs |-> "paused"]

CatStarted == [pc |-> "top", obs |-> "unknown"]

ActiveRequests == Cardinality({r \in Requests : req[r].pc \in {"begun", "admitted"}})

Fault(kind) == /\ kind \in FaultKinds
               /\ faults < MaxFaults
               /\ faults' = faults + 1

-----------------------------------------------------------------------------
(* Controller: operations that write the state once.                       *)

CtlIdle == ctl.pc = "idle" /\ st.gen < MaxGen

\* Lock.Save on the first state ever: the marker becomes durable before it.
SaveOrFirst(next) ==
  IF marker
  THEN st' = next /\ UNCHANGED <<marker, ctl>>
  ELSE /\ marker' = TRUE
       /\ ctl' = [Idle EXCEPT !.pc = "first", !.s = next]
       /\ UNCHANGED st

\* requestBackendWithIntentAndWitness.
Request(b, intent) ==
  LET s == BoundState
      changed == b # s.desired
      moved == [RequestTransition(s, b) EXCEPT !.intent = intent]
      next == IF ~changed THEN s
              ELSE IF Legacy THEN moved ELSE [moved EXCEPT !.gen = s.gen + 1]
  IN  /\ CtlIdle
      /\ b # "local_apple_container"
      /\ intent => b = "external"
      /\ journal.stage = "absent"
      /\ s.phase \in StablePhases
      /\ "local_apple_container" \notin {s.desired, s.applied}
      /\ intent => changed /\ b # s.applied
      /\ changed \/ Legacy
      /\ CanSave(next)
      /\ SaveOrFirst(next)
      /\ UNCHANGED <<journal, codex, relay, faults>>

SeedNativeParked ==
  /\ CtlIdle
  /\ journal.stage = "absent"
  /\ Legacy
  /\ SaveOrFirst([gen |-> 1, desired |-> "none", applied |-> "none",
                  phase |-> "native_active", intent |-> FALSE])
  /\ UNCHANGED <<journal, codex, relay, faults>>

FirstStateWrite ==
  /\ ctl.pc = "first"
  /\ st' = ctl.s
  /\ ctl' = Idle
  /\ UNCHANGED <<marker, journal, codex, relay, faults>>

Cancel ==
  /\ CtlIdle
  /\ journal.stage = "absent"
  /\ st.phase \in PendingPhases
  /\ CanSave(CancelTransition(st))
  /\ st' = CancelTransition(st)
  /\ UNCHANGED <<marker, journal, codex, ctl, relay, faults>>


Repaired(s) == [s EXCEPT !.gen = s.gen + 1, !.desired = "none",
                         !.applied = "none", !.phase = "native_active"]

\* RepairNative: a local-development owner declares a clean Codex native.
RepairNative ==
  /\ CtlIdle
  /\ journal.stage = "absent"
  /\ st.phase = "recovery_required"
  /\ Matches(codex, "none")
  /\ ValidState(Repaired(st))
  /\ st' = Repaired(st)
  /\ ctl' = [Idle EXCEPT !.pc = "repair", !.s = st]
  /\ UNCHANGED <<marker, journal, codex, relay, faults>>

\* What RepairNative reads again under the same lock, after its commit.
RepairStands == st = Repaired(ctl.s) /\ Matches(codex, "none")

RepairVerified ==
  /\ ctl.pc = "repair"
  /\ RepairStands
  /\ ctl' = Idle
  /\ UNCHANGED <<durable, relay, faults>>

\* The exact recovery state is put back, with its older generation.
RepairRestored ==
  /\ ctl.pc = "repair"
  /\ ~RepairStands
  /\ marker' = TRUE
  /\ st' = ctl.s
  /\ ctl' = Idle
  /\ UNCHANGED <<journal, codex, relay, faults>>

-----------------------------------------------------------------------------
(* Controller: Apply and the two ways of Recover.                          *)

\* Apply and applyLocked: preflight, then Save(applying).
Apply ==
  LET mig == MigrationRequired(codex, st.desired, st.intent)
      applying == [st EXCEPT !.phase = "applying", !.intent = mig,
                             !.gen = st.gen + 1]
  IN  /\ CtlIdle
      /\ journal.stage = "absent"
      /\ st.phase \in PendingPhases
      /\ "local_apple_container" \notin {st.desired, st.applied}
      /\ Preflight(codex, st.desired, st.intent)
      /\ CanSave(applying)
      /\ st' = applying
      /\ ctl' = [Idle EXCEPT !.pc = "journal", !.s = applying, !.auth = TRUE, !.mig = mig]
      /\ UNCHANGED <<marker, journal, codex, relay, faults>>

AppleInvolved ==
  \/ "local_apple_container" \in {st.desired, st.applied}
  \/ JournalValid /\ "local_apple_container" \in {journal.target, journal.origin}

\* Mutant: the target is the parked state's, not the one the files show.
RecoverObservedFromState ==
  LET recovery == [gen |-> IF st.gen >= 2 THEN st.gen + 1 ELSE 2,
                   desired |-> st.desired,
                   applied |-> ForcedRecoveryOrigin(st.desired),
                   phase |-> "recovery_required", intent |-> FALSE]
  IN  /\ CtlIdle
      /\ ~AppleInvolved
      /\ journal.stage = "absent"
      /\ st.phase \in {"recovery_required", "applying"}
      /\ InferBackend(codex) \in Backends \ {"local_apple_container"}
      /\ st' = recovery
      /\ ctl' = [Idle EXCEPT !.pc = "recover", !.s = recovery]
      /\ UNCHANGED <<marker, journal, codex, relay, faults>>

\* recoverObservedLocked: no usable journal, the artifacts name the target.
\* The synthetic origin is never authority for a later rollback.
RecoverObserved ==
  LET target == InferBackend(codex)
      recovery == [gen |-> IF st.gen >= 2 THEN st.gen + 1 ELSE 2,
                   desired |-> target,
                   applied |-> ForcedRecoveryOrigin(target),
                   phase |-> "recovery_required", intent |-> FALSE]
  IN  /\ CtlIdle
      /\ ~AppleInvolved
      /\ \/ journal.stage = "corrupt"
         \/ /\ journal.stage = "absent"
            /\ \/ st = NoState
               \/ st.phase \in {"recovery_required", "applying"}
      /\ target \in Backends \ {"local_apple_container"}
      /\ marker' = TRUE
      /\ st' = recovery
      /\ ctl' = [Idle EXCEPT !.pc = "recover", !.s = recovery]
      /\ UNCHANGED <<journal, codex, relay, faults>>

\* Recover with a valid journal.  The state is replaced before the Desktop
\* exit confirmation and the rollback authority are looked at.
RecoverFromJournal(action, desktopExited) ==
  LET s == IF st.phase = "recovery_required" THEN st ELSE RecoveryStateFromJournal
      target == IF action = "rollback" THEN journal.origin
                ELSE IF s.desired = "unknown" THEN journal.target ELSE s.desired
      proceeds == /\ action = "rollback" => journal.auth
                  /\ target \in Backends
                  /\ desktopExited
  IN  /\ CtlIdle
      /\ JournalValid
      /\ ~AppleInvolved
      /\ JournalMatchesCurrentFiles
      /\ marker' = TRUE
      /\ st' = s
      /\ ctl' = IF proceeds
                THEN [Idle EXCEPT
                        !.pc = "recover",
                        !.s = [s EXCEPT
                                 !.desired = target,
                                 !.applied = IF target = s.applied THEN s.desired
                                             ELSE s.applied],
                        !.auth = journal.auth,
                        !.mig = journal.mig]
                ELSE ctl
      /\ UNCHANGED <<journal, codex, relay, faults>>

\* applyRecoveryLockedWithOriginAuthority: preflight, then Replace(applying).
RecoverApply ==
  LET mig == ctl.mig \/ MigrationRequired(codex, ctl.s.desired, ctl.s.intent)
      applying == [ctl.s EXCEPT !.phase = "applying", !.intent = mig,
                                !.gen = ctl.s.gen + 1]
      proceeds == /\ Preflight(codex, ctl.s.desired, ctl.s.intent)
                  /\ ctl.s.applied \in Backends \ {ctl.s.desired}
                  /\ ValidState(applying)
  IN  /\ ctl.pc = "recover"
      /\ st' = IF proceeds THEN applying ELSE st
      /\ ctl' = IF proceeds
                THEN [ctl EXCEPT !.pc = "journal", !.s = applying, !.mig = mig]
                ELSE Idle
      /\ UNCHANGED <<marker, journal, codex, relay, faults>>

-----------------------------------------------------------------------------
(* Controller: finishApplyingLockedWithOriginAuthority.                    *)

CtlStep(from, to) == ctl.pc = from /\ ctl' = [ctl EXCEPT !.pc = to]

\* Mutant: a failed switch puts the previous active state back.
FailApplyingReopens(s) ==
  /\ st' = [CancelTransition(s) EXCEPT !.gen = s.gen + 1]
  /\ ctl' = Idle

\* failApplyingLocked: park for explicit recovery; the journal stays.
FailApplying(s) ==
  /\ st' = IF CanSave(FailedState(s)) THEN FailedState(s) ELSE st
  /\ ctl' = Idle

WriteJournal ==
  /\ CtlStep("journal", "park")
  /\ journal' = NewJournal(ctl.s, ctl.auth, ctl.mig, "prepared")
  /\ UNCHANGED <<marker, st, codex, relay, faults>>

\* healthAcknowledges without the catalog: modes are compared, not backends.
Acknowledges(s) ==
  /\ up = "up"
  /\ ~snap.invalid
  /\ snap.s.gen = s.gen
  /\ ModeForBackend(snap.s.desired) = ModeForBackend(s.desired)
  /\ ModeForBackend(snap.s.applied) = ModeForBackend(s.applied)
  /\ snap.s.phase = s.phase
  /\ ~SnapAllows

\* awaitParked polls both listeners.  One health response reads the routing
\* snapshot, then the catalog observation, then the tracker's counter.
HealthSnapshot ==
  /\ CtlStep("park", "park_catalog")
  /\ Acknowledges(ctl.s)
  /\ UNCHANGED <<durable, relay, faults>>

HealthCatalog ==
  /\ CtlStep("park_catalog",
             IF up = "up" /\ cat.obs = "paused" THEN "park_active" ELSE "park")
  /\ UNCHANGED <<durable, relay, faults>>

\* Mutant: the drain is not waited for.
HealthActiveIgnoringTracker ==
  /\ CtlStep("park_active", IF up = "up" THEN "park_interactive" ELSE "park")
  /\ UNCHANGED <<durable, relay, faults>>

HealthActive ==
  /\ CtlStep("park_active",
             IF up = "up" /\ ActiveRequests = 0 THEN "park_interactive" ELSE "park")
  /\ UNCHANGED <<durable, relay, faults>>

HealthInteractive ==
  /\ CtlStep("park_interactive",
             IF Acknowledges(ctl.s) /\ cat.obs = "paused" THEN "control" ELSE "park")
  /\ UNCHANGED <<durable, relay, faults>>

Handler == [gen |-> ctl.s.gen, backend |-> ctl.s.desired]

\* runtimeControl.Apply: relayRuntime.apply checks the watcher's snapshot once,
\* before it has any lock of the RuntimeManager.  The handler outlives relayctl.
Authorizes(h) ==
  /\ up = "up"
  /\ ~snap.invalid
  /\ snap.s.phase = "applying"
  /\ snap.s.gen = h.gen
  /\ snap.s.desired = h.backend

ControlAuthorized ==
  /\ CtlStep("control", "swap")
  /\ Authorizes(Handler)
  /\ handlers' = handlers \cup {Handler}
  /\ UNCHANGED <<durable, up, snap, watch, slot, cat, req, faults>>

ControlRefused ==
  /\ ctl.pc = "control"
  /\ ~Authorizes(Handler)
  /\ FailApplying(ctl.s)
  /\ UNCHANGED <<marker, journal, codex, relay, faults>>

\* The relay died with the request: relayctl sees the socket close.
ControlDisconnected ==
  /\ ctl.pc = "swap"
  /\ Handler \notin handlers
  /\ ~(slot.admission = "transitioning" /\ slot.h = Handler)
  /\ FailApplying(ctl.s)
  /\ UNCHANGED <<marker, journal, codex, relay, faults>>

\* applyConfigWithLegacyIntent writes the root file and then the profile,
\* after a migration of a recognised legacy root.
ConfigUnchanged ==
  /\ CtlStep("config", "mutated")
  /\ Matches(codex, ctl.s.desired)
  /\ UNCHANGED <<durable, relay, faults>>

Migrated == ctl.base = "legacy"

MigratesNow ==
  ctl.mig /\ ~Migrated /\ MigrationRequired(codex, ctl.s.desired, TRUE)

ConfigMigrate ==
  /\ ctl.pc = "config"
  /\ MigratesNow
  /\ codex' = [codex EXCEPT !.root = "none"]
  /\ ctl' = [ctl EXCEPT !.base = "legacy"]
  /\ UNCHANGED <<marker, st, journal, relay, faults>>

ConfigRoot ==
  LET target == ctl.s.desired
  IN  /\ ctl.pc = "config"
      /\ ctl' = [ctl EXCEPT !.pc = "profile",
                            !.base = IF Migrated THEN "legacy" ELSE codex.root]
      /\ ~Matches(codex, target)
      /\ IF target = "none" THEN codex.inter # "foreign" ELSE PreflightEnable(codex)
      /\ codex' = [codex EXCEPT !.root = IF target # "none" THEN target
                                         ELSE IF ManagedRoot(codex) THEN "none"
                                         ELSE codex.root]
      /\ UNCHANGED <<marker, st, journal, relay, faults>>

ConfigRefused ==
  LET target == ctl.s.desired
  IN  /\ ctl.pc = "config"
      /\ ~Matches(codex, target)
      /\ IF target = "none" THEN codex.inter = "foreign"
         ELSE ~PreflightEnable(codex) /\ ~MigratesNow
      /\ codex' = IF Migrated THEN [codex EXCEPT !.root = "legacy"] ELSE codex
      /\ FailApplying(ctl.s)
      /\ UNCHANGED <<marker, journal, relay, faults>>

ConfigProfile ==
  /\ ctl.pc = "profile"
  /\ ctl' = [ctl EXCEPT !.pc = "mutated", !.base = "none"]
  /\ codex' = [codex EXCEPT !.inter = ctl.s.desired]
  /\ UNCHANGED <<marker, st, journal, relay, faults>>

\* Mutant: the second journal keeps the fingerprints of the first.
WriteMutatedJournalKeepingFingerprints ==
  /\ CtlStep("mutated", "final")
  /\ journal' = [NewJournal(ctl.s, ctl.auth, ctl.mig, "config_mutated")
                    EXCEPT !.fp = journal.fp]
  /\ UNCHANGED <<marker, st, codex, relay, faults>>

WriteMutatedJournal ==
  /\ CtlStep("mutated", "final")
  /\ journal' = NewJournal(ctl.s, ctl.auth, ctl.mig, "config_mutated")
  /\ UNCHANGED <<marker, st, codex, relay, faults>>

\* Lock.Save(final), while the journal still exists.
SaveFinal ==
  LET final == FinalState(ctl.s)
  IN  /\ ctl.pc = "final"
      /\ IF CanSave(final)
         THEN st' = final /\ ctl' = [ctl EXCEPT !.pc = "unlink", !.s = final]
         ELSE FailApplying(ctl.s)
      /\ UNCHANGED <<marker, journal, codex, relay, faults>>

RemoveJournal ==
  /\ CtlStep("unlink", "finalize")
  /\ journal' = NoJournal
  /\ UNCHANGED <<marker, st, codex, relay, faults>>

\* awaitFinalized and finalHealthAcknowledges: a Local target also waits for
\* its catalog worker, an External one only for the watcher.
FinalHealthAcknowledges(s) ==
  /\ up = "up"
  /\ ~snap.invalid
  /\ snap.s.gen = s.gen
  /\ ModeForBackend(snap.s.desired) = ModeForBackend(s.desired)
  /\ ModeForBackend(snap.s.applied) = ModeForBackend(s.applied)
  /\ snap.s.phase = s.phase
  /\ \/ s.phase = "native_active" /\ cat.obs = "paused"
     \/ /\ s.phase = "relay_active"
        /\ s.applied # "external" => cat.obs = "running"

Finalized ==
  /\ CtlStep("finalize", "done")
  /\ FinalHealthAcknowledges(ctl.s)
  /\ UNCHANGED <<durable, relay, faults>>

Return ==
  /\ ctl.pc = "done"
  /\ ctl' = Idle
  /\ UNCHANGED <<durable, relay, faults>>

-----------------------------------------------------------------------------
(* Controller: what can go wrong on the way.                               *)

AckTimeout ==
  /\ ctl.pc \in {"park", "park_catalog", "park_active", "park_interactive",
                 "swap", "finalize"}
  /\ Fault("timeout")
  /\ FailApplying(ctl.s)
  /\ UNCHANGED <<marker, journal, codex, relay>>

\* A failed preflight leaves the recovery state it found.
PreflightFails ==
  /\ ctl.pc = "recover"
  /\ Fault("io")
  /\ ctl' = Idle
  /\ UNCHANGED <<durable, relay>>

\* Any write of finishApplying may fail, as may materializeLocalCatalog.
WriteFails ==
  /\ ctl.pc \in {"journal", "control", "mutated", "final"}
  /\ Fault("io")
  /\ FailApplying(ctl.s)
  /\ UNCHANGED <<marker, journal, codex, relay>>

\* A Codex write fails.  What was written is restored, first to the root the
\* profile step found and then to the migration backup, or that fails too.
ConfigWriteFails ==
  /\ ctl.pc \in {"config", "profile"}
  /\ Fault("io")
  /\ \E root \in {codex.root} \cup (IF ctl.pc = "profile" THEN {ctl.base} ELSE {})
                              \cup (IF Migrated THEN {"none", "legacy"} ELSE {}) :
       codex' = [codex EXCEPT !.root = root]
  /\ FailApplying(ctl.s)
  /\ UNCHANGED <<marker, journal, relay>>

\* The second read of RepairNative fails, or the restoring write after it.
RepairFails ==
  /\ ctl.pc = "repair"
  /\ Fault("io")
  /\ st' \in {st, ctl.s}
  /\ ctl' = Idle
  /\ UNCHANGED <<marker, journal, codex, relay>>

\* removeJournal fails: the final state and the journal both stay.
UnlinkFails ==
  /\ ctl.pc = "unlink"
  /\ Fault("io")
  /\ ctl' = Idle
  /\ UNCHANGED <<durable, relay>>

\* relayctl is killed; the kernel drops its lock.
Crash ==
  /\ ctl.pc # "idle"
  /\ Fault("crash")
  /\ ctl' = Idle
  /\ UNCHANGED <<durable, relay>>

-----------------------------------------------------------------------------
(* Relay: the watcher.  Refresh reads the state, the journal and the Codex *)
(* artifacts one after the other and publishes what it made of them last.  *)

WatchReadState ==
  /\ up # "down"
  /\ watch.pc = "idle"
  /\ watch' = [pc |-> "state",
               s |-> IF st = NoState THEN NewRelayState ELSE st,
               legacy |-> Legacy,
               bad |-> StateUnreadable,
               rev |-> 0]
  /\ UNCHANGED <<durable, ctl, up, snap, slot, handlers, cat, req, faults>>

\* Mutant: a final-looking state is trusted beside a journal.
WatchIgnoresJournal ==
  /\ watch.pc = "state"
  /\ watch' = [watch EXCEPT !.pc = "journal"]
  /\ UNCHANGED <<durable, ctl, up, snap, slot, handlers, cat, req, faults>>

WatchReadJournal ==
  /\ watch.pc = "state"
  /\ watch' = [watch EXCEPT
                 !.pc = "journal",
                 !.bad = \/ watch.bad
                         \/ /\ journal.stage # "absent"
                            /\ watch.legacy \/ watch.s.phase # "applying"]
  /\ UNCHANGED <<durable, ctl, up, snap, slot, handlers, cat, req, faults>>

\* Mutant: only the root file is compared.
DriftedRootOnly ==
  /\ ~watch.legacy
  /\ watch.s.phase \in StablePhases
  /\ codex.root # watch.s.applied

\* AppliedRoutingDriftCheck on the state just read.
Drifted ==
  /\ ~watch.legacy
  /\ watch.s.phase \in StablePhases
  /\ ~Matches(codex, watch.s.applied)

\* The Codex files are read only for a readable, settled, recorded state.
Compares == ~watch.bad /\ ~watch.legacy /\ watch.s.phase \in StablePhases

WatchCheckDrift ==
  /\ watch.pc = "journal" /\ Compares
  /\ watch' = [watch EXCEPT !.pc = "drift", !.bad = watch.bad \/ Drifted,
                            !.rev = codex.rev]
  /\ UNCHANGED <<durable, ctl, up, snap, slot, handlers, cat, req, faults>>

Observed ==
  IF watch.bad THEN InvalidSnapshot
  ELSE [s |-> watch.s, legacy |-> watch.legacy, invalid |-> FALSE, rev |-> watch.rev]

\* Mutant: a parked snapshot starts a runtime too.
InitialBackendUnchecked(o) == o.s.applied

\* Mutant: a pending switch is anticipated at start.
InitialBackendDesired(o) ==
  IF ~o.invalid /\ AllowsDataPlane(o.s) THEN o.s.desired ELSE "none"

\* initialRuntimeBackend: only an admitting snapshot starts a runtime.
InitialBackend(o) ==
  IF ~o.invalid /\ AllowsDataPlane(o.s) THEN o.s.applied ELSE "none"

SlotFor(b) == [profile |-> b,
               admission |-> IF b = "none" THEN "paused" ELSE "active",
               h |-> NoHandler, late |-> FALSE]

\* The first Refresh runs in NewWatcher, before the relay listens.
WatchPublish ==
  /\ watch.pc = "drift" \/ (watch.pc = "journal" /\ ~Compares)
  /\ snap' = Observed
  /\ watch' = WatchIdle
  /\ up' = "up"
  /\ IF up = "starting"
     THEN /\ slot' = SlotFor(InitialBackend(Observed))
          /\ cat' = IF InitialBackend(Observed) = "none" THEN CatStopped
                    ELSE CatStarted
     ELSE UNCHANGED <<slot, cat>>
  /\ UNCHANGED <<durable, ctl, handlers, req, faults>>

RelayStart ==
  /\ up = "down"
  /\ up' = "starting"
  /\ UNCHANGED <<durable, ctl, snap, watch, slot, handlers, cat, req, faults>>

RelayDown ==
  /\ up' = "down"
  /\ snap' = InvalidSnapshot
  /\ watch' = WatchIdle
  /\ slot' = SlotFor("none")
  /\ handlers' = {}
  /\ cat' = CatStopped
  /\ req' = [r \in Requests |-> ReqIdle]

RelayCrash ==
  /\ up # "down"
  /\ Fault("relay_crash")
  /\ RelayDown
  /\ UNCHANGED <<durable, ctl>>

-----------------------------------------------------------------------------
(* Relay: RuntimeManager.Apply for an authorized control request.          *)

Waiting(h) == ctl.pc = "swap" /\ Handler = h

\* maintenanceMu and changes admit one transition; beginTransition pauses the
\* manager's admission and cancels the retired workers.
BeginSwap(h) ==
  /\ h \in handlers
  /\ slot.admission # "transitioning"
  /\ handlers' = handlers \ {h}
  /\ slot' = [slot EXCEPT !.admission = "transitioning", !.h = h]
  /\ UNCHANGED <<durable, ctl, up, snap, watch, cat, req, faults>>

\* lockGate and quiesceAndStop succeeded: no handler holds the gate or the
\* tracker and the old catalog worker has returned.
CommitSwap ==
  /\ slot.admission = "transitioning"
  /\ \A r \in Requests : req[r].pc = "idle"
  /\ cat.pc = "stopped"
  /\ slot' = [SlotFor(slot.h.backend) EXCEPT !.late = ~Waiting(slot.h)]
  /\ cat' = IF slot.h.backend = "none" THEN CatStopped ELSE CatStarted
  /\ IF Waiting(slot.h) THEN ctl' = [ctl EXCEPT !.pc = "config"] ELSE UNCHANGED ctl
  /\ UNCHANGED <<durable, up, snap, watch, handlers, req, faults>>

\* parkAfterFailedDrain: the old runtime stays, parked.
DrainFails ==
  /\ slot.admission = "transitioning"
  /\ Fault("timeout")
  /\ slot' = [slot EXCEPT !.admission = "paused", !.h = NoHandler]
  /\ IF Waiting(slot.h) THEN FailApplying(ctl.s) ELSE UNCHANGED <<st, ctl>>
  /\ UNCHANGED <<marker, journal, codex, up, snap, watch, handlers, cat, req>>

\* The build or the Local probe of Apply fails before the transition begins.
\* A probe that finds Local gone also parks a Local runtime.
CandidateFails(h) ==
  /\ h \in handlers
  /\ Fault("timeout")
  /\ handlers' = handlers \ {h}
  /\ \/ slot' = slot
     \/ /\ h.backend = "local_opencodex" /\ slot.profile = h.backend
        /\ slot.admission = "active"
        /\ slot' = [slot EXCEPT !.admission = "paused"]
  /\ IF Waiting(h) THEN FailApplying(ctl.s) ELSE UNCHANGED <<st, ctl>>
  /\ UNCHANGED <<marker, journal, codex, up, snap, watch, cat, req>>

-----------------------------------------------------------------------------
(* Relay: the catalog worker (catalogLifecycle.run).                       *)

Catalog(next) ==
  /\ cat' = next
  /\ UNCHANGED <<durable, ctl, up, snap, watch, slot, handlers, req, faults>>

\* Mutant: a worker that is refused does not report that it is paused.
CatalogGateSilent ==
  /\ cat.pc = "top"
  /\ Catalog(IF SnapAllows THEN [cat EXCEPT !.pc = "admitted"] ELSE cat)

CatalogGate ==
  /\ cat.pc = "top"
  /\ Catalog(IF SnapAllows THEN [cat EXCEPT !.pc = "admitted"]
             ELSE [cat EXCEPT !.obs = "paused"])

CatalogRunning == cat.pc = "admitted" /\ Catalog([pc |-> "loop", obs |-> "running"])

CatalogTick == cat.pc = "loop" /\ Catalog([cat EXCEPT !.pc = "top"])

\* refreshWhileAdmitted looks at the gate again before the remote fetch.
CatalogRefresh ==
  /\ cat.pc = "loop"
  /\ Catalog(IF SnapAllows THEN [cat EXCEPT !.pc = "egress"]
             ELSE [pc |-> "top", obs |-> "paused"])

\* The fetch has returned, by itself or after its cancellation.
CatalogRefreshed == cat.pc = "egress" /\ Catalog([cat EXCEPT !.pc = "top"])

\* cancelWorkers was called: the loop returns and reports paused.
CatalogStops ==
  /\ cat.pc # "stopped"
  /\ slot.admission # "active"
  /\ Catalog(CatStopped)

-----------------------------------------------------------------------------
(* Relay: a data-plane request through RuntimeManager.serveHTTP and        *)
(* Server.serveHTTP.                                                       *)

ReqStep(r, from, next) ==
  /\ req[r].pc = from
  /\ req' = [req EXCEPT ![r] = next]
  /\ UNCHANGED <<durable, ctl, up, snap, watch, slot, handlers, cat, faults>>

\* The manager's gate: from here on the slot cannot be replaced.
ReqEnter(r) ==
  /\ up = "up"
  /\ slot.admission = "active"
  /\ ReqStep(r, "idle", [pc |-> "gated", profile |-> slot.profile])

ReqBegin(r) == ReqStep(r, "gated", [req[r] EXCEPT !.pc = "begun"])

\* Admission is observed after Tracker.Begin.
ReqAdmit(r) ==
  ReqStep(r, "begun", IF SnapAllows THEN [req[r] EXCEPT !.pc = "admitted"] ELSE ReqIdle)

ReqFinish(r) == ReqStep(r, "admitted", ReqIdle)

-----------------------------------------------------------------------------
(* The environment: edits and damage the code is written to survive.       *)

\* Codex Desktop, an installer or the user rewrites the Codex files.
EditArtifacts ==
  /\ Fault("edit")
  /\ \E root \in {codex.root, "none", "foreign", "legacy"},
        inter \in {codex.inter, "none"} :
       codex' = [root |-> root, inter |-> inter, rev |-> codex.rev + 1]
  /\ UNCHANGED <<marker, st, journal, ctl, relay>>

LoseState ==
  /\ Fault("lose_state")
  /\ st' = NoState
  /\ UNCHANGED <<marker, journal, codex, ctl, relay>>

DamageJournal ==
  /\ Fault("journal")
  /\ journal.stage # "absent"
  /\ journal' \in {NoJournal, CorruptJournal}
  /\ UNCHANGED <<marker, st, codex, ctl, relay>>

-----------------------------------------------------------------------------

\* An installation the controller has never touched: routed through the
\* relay, native, or still carrying a former OpenCodex root.
Init ==
  /\ marker = FALSE
  /\ st = NoState
  /\ journal = NoJournal
  /\ codex \in {[root |-> "external", inter |-> "external", rev |-> 0],
                [root |-> "none", inter |-> "none", rev |-> 0],
                [root |-> "legacy", inter |-> "none", rev |-> 0]}
  /\ ctl = Idle
  /\ up = "down"
  /\ snap = InvalidSnapshot
  /\ watch = WatchIdle
  /\ slot = SlotFor("none")
  /\ handlers = {}
  /\ cat = CatStopped
  /\ req = [r \in Requests |-> ReqIdle]
  /\ faults = 0

Operations ==
  \/ \E b \in Backends, intent \in BOOLEAN : Request(b, intent)
  \/ SeedNativeParked
  \/ Cancel
  \/ RepairNative
  \/ Apply
  \/ RecoverObserved
  \/ \E action \in {"complete", "rollback"}, desktopExited \in BOOLEAN :
       RecoverFromJournal(action, desktopExited)

ControllerStep ==
  \/ FirstStateWrite \/ RepairVerified \/ RepairRestored
  \/ RecoverApply \/ WriteJournal
  \/ HealthSnapshot \/ HealthCatalog \/ HealthActive \/ HealthInteractive
  \/ ControlAuthorized \/ ControlRefused \/ ControlDisconnected
  \/ ConfigUnchanged \/ ConfigMigrate \/ ConfigRoot \/ ConfigRefused
  \/ ConfigProfile \/ WriteMutatedJournal \/ SaveFinal \/ RemoveJournal
  \/ Finalized \/ Return

WatcherStep ==
  WatchReadState \/ WatchReadJournal \/ WatchCheckDrift \/ WatchPublish

SwapStep == (\E h \in handlers : BeginSwap(h)) \/ CommitSwap

CatalogLoop ==
  CatalogGate \/ CatalogRunning \/ CatalogTick \/ CatalogRefresh \/ CatalogRefreshed

RequestStep(r) == ReqBegin(r) \/ ReqAdmit(r) \/ ReqFinish(r)

Faults ==
  \/ AckTimeout \/ PreflightFails \/ WriteFails \/ ConfigWriteFails
  \/ RepairFails \/ UnlinkFails \/ Crash \/ RelayCrash \/ DrainFails
  \/ \E h \in handlers : CandidateFails(h)
  \/ EditArtifacts \/ LoseState \/ DamageJournal

Next ==
  \/ Operations
  \/ ControllerStep
  \/ RelayStart
  \/ WatcherStep
  \/ SwapStep
  \/ CatalogLoop \/ CatalogStops
  \/ \E r \in Requests : ReqEnter(r) \/ RequestStep(r)
  \/ Faults

Spec == Init /\ [][Next]_vars

\* What the scheduling of both processes provides: relayctl runs on, launchd
\* keeps the relay up, the watcher polls, goroutines are scheduled and every
\* admitted request ends.
Fairness ==
  /\ WF_vars(ControllerStep)
  /\ WF_vars(RelayStart)
  /\ WF_vars(WatcherStep)
  /\ WF_vars(SwapStep)
  /\ WF_vars(CatalogLoop)
  /\ WF_vars(CatalogStops)
  /\ \A r \in Requests : WF_vars(RequestStep(r))

FairSpec == Spec /\ Fairness

\* Codex Desktop is closed for a switch: new requests stop some time.
QuietSpec == FairSpec /\ <>[][\A r \in Requests : ~ReqEnter(r)]_vars

-----------------------------------------------------------------------------
(* Properties.                                                             *)

\* Every variable stays in the domain of the Go types it models.
TypeOK ==
  /\ marker \in BOOLEAN
  /\ st \in States \cup {NoState}
  /\ journal \in Journals
  /\ codex \in Artifacts
  /\ ctl \in Ctls
  /\ up \in {"down", "starting", "up"}
  /\ snap \in Snapshots
  /\ watch \in Watches
  /\ slot \in Slots
  /\ handlers \subseteq Handlers
  /\ cat \in Cats
  /\ req \in [Requests -> [pc : ReqPCs, profile : Backends]]
  /\ faults \in 0..MaxFaults

\* The multi-file commit is crash-atomic: a durable state that opens the data
\* plane (relay_active, native_pending_restart, backend_pending_restart) and
\* the two Codex files agree on the backend, whichever write of a switch, a
\* cancellation or a recovery a crash or an I/O error stopped at.  Only an
\* edit by somebody else (rev > 0) separates them.
OpenStateMatchesArtifacts ==
  (AllowsDataPlane(st) /\ codex.rev = 0) => Matches(codex, st.applied)

\* Steps of a switch after awaitParked has returned and before the journal of
\* the finished transaction is gone.
Mutating ==
  \/ ctl.pc \in {"control", "swap", "config", "profile", "mutated", "final"}
  \/ ctl.pc = "unlink" /\ journal.stage # "absent"

\* awaitParked is a drain: from the acknowledgement until the journal is
\* removed no admitted request and no catalog fetch is running, although the
\* watcher, the tracker and the health endpoint are read at different times.
NoTrafficDuringMutation ==
  Mutating => /\ \A r \in Requests : req[r].pc # "admitted"
              /\ cat.pc # "egress"

\* While Codex is routed through the relay, a request that was admitted is
\* served by the runtime of the backend Codex is configured for; a switch,
\* a recovery or a relay restart never moves it to another one.  The one
\* exception is a runtime that a control handler swapped in after its relayctl
\* had stopped waiting: runtimeControl.Apply does not look at the state again.
ServedByConfiguredBackend ==
  \A r \in Requests :
    (req[r].pc = "admitted" /\ ManagedRoot(codex) /\ ~slot.late)
      => req[r].profile = codex.root

\* The watcher never opens admission beside the journal of a mutated config:
\* a final-looking state is parked until the journal is gone.
MutatedJournalParks == journal.stage = "config_mutated" => ~SnapAllows

\* Whether Recover(complete) would get past every check up to writeJournal.
CanComplete ==
  LET s == IF st.phase = "recovery_required" THEN st ELSE RecoveryStateFromJournal
      target == IF s.desired = "unknown" THEN journal.target ELSE s.desired
      origin == IF target = s.applied THEN s.desired ELSE s.applied
  IN  /\ JournalMatchesCurrentFiles
      /\ target \in Backends
      /\ origin \in Backends \ {target}
      /\ Preflight(codex, target, s.intent)

\* After the mutated config is journalled, `mode recover` can always complete
\* the switch, whatever failed since (controller.go: "leave both artifacts
\* intact: the watcher will remain parked and `mode recover` can reconcile
\* them").
MutatedJournalCompletes ==
  (ctl.pc = "idle" /\ journal.stage = "config_mutated" /\ codex.rev = 0)
    => CanComplete

\* Nobody waits for ever: with no fault, every switch that has begun reaches
\* its end although relayctl waits for the watcher, the catalog worker and
\* the requests, and the RuntimeManager waits for the gate.
SwitchCompletes == ctl.pc = "journal" ~> ctl.pc = "done"

\* A recovery without a journal (recoverObservedLocked) adopts what the Codex
\* files already say: it, and every later completion of the journal it wrote,
\* leaves both files as they were, so the forced origin never reaches them.
ObservedRecoveryKeepsArtifacts ==
  [][(~ctl.auth /\ ~ctl.mig /\ codex'.rev = 0) => codex' = codex]_vars

\* While the published snapshot of a written state admits traffic, both Codex
\* files name its backend, or somebody else has edited them since the pass that
\* published it compared them (AppliedRoutingDriftCheck): an edit is served
\* until the end of the next pass at most, and relayctl's own writes never
\* fall behind an open snapshot, although a pass reads the state first, the
\* files later and publishes last.
DriftParks ==
  (SnapAllows /\ ~snap.legacy)
    => Matches(codex, snap.s.applied) \/ codex.rev > snap.rev

-----------------------------------------------------------------------------
(* Statements of the code's comments that the code does not keep.          *)

\* control.go says of RuntimeControl that it "can only apply the durable
\* desired backend for one known state generation".  The authorization is
\* checked before the manager's lock is taken and not again under it.
RuntimeControlAppliesDesired ==
  [][(slot.admission = "transitioning" /\ slot'.admission = "active")
       => st.desired = slot'.profile]_vars

\* controller.go says that a valid journal is the authority "for completing or
\* rolling back an interrupted multi-file mutation".  A crash between the two
\* Codex writes, or before the journal records them, leaves a journal whose
\* fingerprints match neither side, and Recover refuses both actions.
InterruptedMutationCompletes ==
  (ctl.pc = "idle" /\ JournalValid /\ codex.rev = 0) => CanComplete

\* controller.go says of a successful apply that "the active runtime reports
\* the matching final phase".  For External only the watcher is asked, so a
\* relay that restarted during the switch reports success with no runtime.
ReportedSuccessServes ==
  [][(ctl.pc = "finalize" /\ ctl'.pc = "done" /\ ctl.s.phase = "relay_active")
       => slot.profile = ctl.s.applied /\ slot.admission = "active"]_vars

=============================================================================
