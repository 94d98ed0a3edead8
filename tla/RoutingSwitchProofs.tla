------------------------ MODULE RoutingSwitchProofs ------------------------
(***************************************************************************)
(* Safety of the routing switch for every set of requests, every bound and *)
(* every combination of faults: type correctness, the agreement of an open *)
(* durable state with the Codex files, and what a recovery can rely on,    *)
(* namely that the journal of a mutated config is always accepted and that *)
(* a recovery without a trusted origin leaves the Codex files as they are. *)
(***************************************************************************)
EXTENDS RoutingSwitch, TLAPS

\* The steps of finishApplying up to the save of the final state.
WorkPCs == {"journal", "park", "park_catalog", "park_active", "park_interactive",
            "control", "swap", "config", "profile", "mutated", "final"}

\* A state file or a state in memory: one that opens the data plane names a
\* backend, which the types of the slot and of the Codex files rest on.
GoodState(s) ==
  /\ s \in States \cup {NoState}
  /\ AllowsDataPlane(s) => s.applied \in Backends

GoodCtl(c) ==
  /\ c \in Ctls
  /\ c.pc # "idle" => c.s \in States /\ GoodState(c.s)
  /\ c.pc \in WorkPCs => c.s.desired \in Backends
  /\ c.pc = "repair" => c.s.phase = "recovery_required"

RelayOK ==
  /\ up \in {"down", "starting", "up"}
  /\ snap \in Snapshots
  /\ watch \in Watches
  /\ GoodState(watch.s)
  /\ slot \in Slots
  /\ handlers \subseteq Handlers
  /\ cat \in Cats
  /\ req \in [Requests -> [pc : ReqPCs, profile : Backends]]

TypeInv ==
  /\ marker \in BOOLEAN
  /\ GoodState(st)
  /\ journal \in Journals
  /\ codex \in Artifacts
  /\ GoodCtl(ctl)
  /\ RelayOK
  /\ faults \in 0..MaxFaults

\* What relayctl knows of the Codex files at each of its steps.
FilesKnown(c, f) ==
  f.rev = 0 =>
    /\ (c.pc = "first" /\ AllowsDataPlane(c.s)) => Matches(f, c.s.applied)
    /\ (c.pc \in WorkPCs \ {"profile", "mutated", "final"} /\ c.s.desired = "none")
         => f.root \notin {"foreign", "legacy"}
    /\ c.pc = "profile" => f.root = c.s.desired
    /\ c.pc \in {"mutated", "final"} => Matches(f, c.s.desired)

\* The inductive invariant: while a switch or a recovery is under way the
\* durable state is closed, so only the last save can open it.
SwitchInv ==
  /\ OpenStateMatchesArtifacts
  /\ ctl.pc \in WorkPCs \cup {"recover"} => ~AllowsDataPlane(st)
  /\ FilesKnown(ctl, codex)

-----------------------------------------------------------------------------
(* Facts about the values the actions write.                               *)

\* The members of the sets of labels that the actions write.
LEMMA Labels ==
  /\ Backends \subseteq RecoveryBackends
  /\ Backends \subseteq RootValues
  /\ Backends \subseteq ProfileValues
  /\ RelayBackends \subseteq Backends
  /\ "none" \in Backends
  /\ "external" \in Backends
  /\ "unknown" \in RecoveryBackends
  /\ {"none", "foreign", "legacy"} \subseteq RootValues
  /\ "none" \in ProfileValues
  /\ StablePhases \subseteq Phases
  /\ {"relay_active", "native_active"} \subseteq Phases
  /\ {"applying", "recovery_required"} \subseteq Phases
  /\ WorkPCs \subseteq CtlPCs
  /\ {"idle", "first", "repair", "recover", "unlink", "finalize", "done"} \subseteq CtlPCs
BY DEF RelayBackends, Backends, RecoveryBackends, RootValues, ProfileValues,
       PendingPhases, ActivePhases, StablePhases, Phases, WorkPCs, CtlPCs

\* The initial and reset values of the variables have their types.
LEMMA ConstantTypes ==
  /\ NoState \notin States
  /\ NewRelayState \in States
  /\ InvalidSnapshot \in Snapshots
  /\ WatchIdle \in Watches
  /\ Idle \in Ctls
  /\ NoJournal \in Journals
  /\ CorruptJournal \in Journals
  /\ NoHandler \in Handlers
  /\ CatStopped \in Cats
  /\ CatStarted \in Cats
<1>1. NoState \notin States /\ NewRelayState \in States
  BY Labels DEF NoState, States, NewRelayState
<1>2. InvalidSnapshot \in Snapshots
  BY Labels DEF InvalidSnapshot, Snapshots, States
<1>3. WatchIdle \in Watches
  BY <1>1 DEF WatchIdle, Watches
<1>4. Idle \in Ctls
  BY Labels DEF Idle, Ctls
<1>5. NoArtifacts \in Artifacts
  BY Labels DEF NoArtifacts, Artifacts
<1>6. NoJournal \in Journals /\ CorruptJournal \in Journals
  BY <1>5, Labels, Zenon DEF NoJournal, CorruptJournal, Journals
<1>7. NoHandler \in Handlers
  BY Labels DEF NoHandler, Handlers
<1>8. CatStopped \in Cats /\ CatStarted \in Cats
  BY DEF CatStopped, CatStarted, Cats
<1> QED
  BY <1>1, <1>2, <1>3, <1>4, <1>6, <1>7, <1>8

\* The idle controller, the empty state and the first watcher pass.
LEMMA GoodConstants ==
  /\ GoodState(NoState)
  /\ GoodState(NewRelayState)
  /\ GoodCtl(Idle)
  /\ GoodState(WatchIdle.s)
<1>1. GoodState(NoState) /\ GoodState(NewRelayState)
  BY ConstantTypes, Labels DEF GoodState, NoState, NewRelayState, AllowsDataPlane
<1> QED
  BY <1>1, ConstantTypes DEF GoodCtl, Idle, WatchIdle, WorkPCs

\* A runtime slot for any backend, "none" included.
LEMMA SlotForType ==
  ASSUME NEW b \in Backends
  PROVE  SlotFor(b) \in Slots
BY ConstantTypes DEF SlotFor, Slots

\* A closed state is good whatever backends it names.
LEMMA ClosedStateGood ==
  ASSUME NEW s \in States, ~AllowsDataPlane(s)
  PROVE  GoodState(s)
BY DEF GoodState

\* The record updates that the controller makes to a state.
LEMMA PhaseUpdate ==
  ASSUME NEW s \in States, NEW p \in Phases, NEW n \in Nat \ {0}
  PROVE  [s EXCEPT !.phase = p, !.gen = n] \in States
BY Zenon DEF States

\* Apply and RecoverApply: a state enters applying in the next generation.
LEMMA ApplyingUpdate ==
  ASSUME NEW s \in States, NEW i \in BOOLEAN
  PROVE  [s EXCEPT !.phase = "applying", !.intent = i, !.gen = s.gen + 1] \in States
<1>1. s.gen + 1 \in Nat \ {0} /\ "applying" \in Phases
  BY Labels DEF States
<1> QED
  BY <1>1, Zenon DEF States

\* requestBackendTransition names another desired backend.
LEMMA BackendUpdate ==
  ASSUME NEW s \in States, NEW d \in RecoveryBackends, NEW a \in RecoveryBackends
  PROVE  [s EXCEPT !.desired = d, !.applied = a] \in States
BY Zenon DEF States

\* Cancel goes back to the applied backend in the next generation.
LEMMA CancelUpdate ==
  ASSUME NEW s \in States, NEW d \in RecoveryBackends, NEW p \in Phases,
         NEW i \in BOOLEAN, NEW n \in Nat \ {0}
  PROVE  [s EXCEPT !.desired = d, !.phase = p, !.intent = i, !.gen = n] \in States
BY Zenon DEF States

\* RepairNative parks the state it found.
LEMMA RepairUpdate ==
  ASSUME NEW s \in States, NEW n \in Nat \ {0}, NEW b \in RecoveryBackends, NEW p \in Phases
  PROVE  [s EXCEPT !.gen = n, !.desired = b, !.applied = b, !.phase = p] \in States
BY Zenon DEF States

\* What RepairNative saves.
LEMMA RepairedGood ==
  ASSUME NEW s \in States
  PROVE  /\ Repaired(s) \in States
         /\ GoodState(Repaired(s))
         /\ ~AllowsDataPlane(Repaired(s))
<1>1. s.gen + 1 \in Nat \ {0} /\ "none" \in RecoveryBackends /\ "native_active" \in Phases
  BY Labels DEF States
<1>2. Repaired(s) \in States
  BY <1>1, RepairUpdate, Zenon DEF Repaired
<1>3. ~AllowsDataPlane(Repaired(s))
  BY DEF Repaired, States, AllowsDataPlane
<1> QED
  BY <1>2, <1>3, ClosedStateGood

\* A state the controller writes from nothing.
LEMMA NewState ==
  ASSUME NEW n \in Nat \ {0}, NEW d \in RecoveryBackends, NEW a \in RecoveryBackends,
         NEW p \in Phases, NEW i \in BOOLEAN
  PROVE  [gen |-> n, desired |-> d, applied |-> a, phase |-> p, intent |-> i] \in States
BY DEF States

\* What failApplyingLocked saves.
LEMMA FailedStateGood ==
  ASSUME NEW s \in States
  PROVE  /\ FailedState(s) \in States
         /\ GoodState(FailedState(s))
         /\ ~AllowsDataPlane(FailedState(s))
<1>1. FailedState(s) \in States
  <2>1. s.gen + 1 \in Nat \ {0} /\ "recovery_required" \in Phases
    BY Labels DEF States
  <2> QED
    BY <2>1, PhaseUpdate, Zenon DEF FailedState
<1>2. ~AllowsDataPlane(FailedState(s))
  BY DEF FailedState, States, AllowsDataPlane
<1> QED
  BY <1>1, <1>2, ClosedStateGood

\* What SaveFinal saves.
LEMMA FinalStateGood ==
  ASSUME NEW s \in States, s.desired \in Backends
  PROVE  FinalState(s) \in States /\ GoodState(FinalState(s))
<1>1. ActivePhaseForBackend(s.desired) \in Phases
  BY Labels DEF ActivePhaseForBackend
<1>2. FinalState(s) \in States
  <2>1. s.gen + 1 \in Nat \ {0} /\ s.desired \in RecoveryBackends
    BY DEF States
  <2>2. FALSE \in BOOLEAN
    OBVIOUS
  <2> QED
    BY <1>1, <2>1, <2>2, NewState, Zenon DEF FinalState
<1> QED
  BY <1>2 DEF GoodState, FinalState

\* relayctl moves to another step with the state it carries.
LEMMA StepGood ==
  ASSUME NEW c, GoodCtl(c), c.pc # "idle", NEW pc \in CtlPCs \ {"repair"},
         pc \in WorkPCs => c.pc \in WorkPCs
  PROVE  GoodCtl([c EXCEPT !.pc = pc])
BY DEF GoodCtl, Ctls

\* relayctl moves on and notes the root file it would restore.
LEMMA StepBaseGood ==
  ASSUME NEW c, GoodCtl(c), c.pc \in WorkPCs,
         NEW pc \in CtlPCs \ {"repair"}, NEW base \in RootValues
  PROVE  GoodCtl([c EXCEPT !.pc = pc, !.base = base])
BY Zenon DEF GoodCtl, Ctls, WorkPCs

\* relayctl starts an operation with a state of its own.
LEMMA BeginGood ==
  ASSUME NEW s \in States, GoodState(s), NEW pc \in CtlPCs,
         pc \in WorkPCs => s.desired \in Backends,
         pc = "repair" => s.phase = "recovery_required",
         NEW auth \in BOOLEAN, NEW mig \in BOOLEAN
  PROVE  GoodCtl([Idle EXCEPT !.pc = pc, !.s = s, !.auth = auth, !.mig = mig])
BY Labels, Zenon DEF GoodCtl, Ctls, Idle

\* A fault is counted below its bound.
LEMMA FaultCounted ==
  ASSUME NEW kind, Fault(kind), faults \in 0..MaxFaults
  PROVE  faults' \in 0..MaxFaults
BY SwitchAssumption DEF Fault

\* A step that leaves the relay alone keeps the types of its variables.
LEMMA RelayFrame ==
  ASSUME RelayOK, UNCHANGED relay
  PROVE  RelayOK'
BY DEF RelayOK, relay

\* failApplyingLocked keeps the types of what it writes.
LEMMA FailApplyingGood ==
  ASSUME GoodState(st), GoodCtl(ctl), ctl.pc # "idle", FailApplying(ctl.s)
  PROVE  GoodState(st)' /\ GoodCtl(ctl)' /\ ctl' = Idle
         /\ (st' = st \/ ~AllowsDataPlane(st'))
<1>1. ctl.s \in States
  BY DEF GoodCtl
<1>2. GoodState(FailedState(ctl.s)) /\ ~AllowsDataPlane(FailedState(ctl.s))
  BY <1>1, FailedStateGood
<1> QED
  BY <1>2, GoodConstants DEF FailApplying

-----------------------------------------------------------------------------
(* Type correctness.                                                       *)

\* An untouched installation and a stopped relay are well typed.
LEMMA TypeInit == Init => TypeInv
<1> SUFFICES ASSUME Init PROVE TypeInv
  OBVIOUS
<1>1. codex \in Artifacts
  BY Labels DEF Init, Artifacts
<1>2. slot \in Slots
  BY SlotForType, Labels DEF Init
<1>3. req \in [Requests -> [pc : ReqPCs, profile : Backends]]
  BY Labels DEF Init, ReqIdle, ReqPCs
<1>4. faults \in 0..MaxFaults
  BY SwitchAssumption DEF Init
<1>5. marker \in BOOLEAN /\ handlers \subseteq Handlers
  BY Zenon DEF Init
<1>6. RelayOK
  BY <1>2, <1>3, <1>5, ConstantTypes, GoodConstants DEF Init, RelayOK
<1> QED
  BY <1>1, <1>4, <1>5, <1>6, ConstantTypes, GoodConstants DEF Init, TypeInv

\* Steps that change nothing but the controller's position.
LEMMA CtlStepGood ==
  ASSUME TypeInv, NEW from \in CtlPCs \ {"idle"}, NEW to \in CtlPCs \ {"repair"}, CtlStep(from, to),
         to \in WorkPCs => from \in WorkPCs
  PROVE  GoodCtl(ctl')
BY StepGood DEF TypeInv, CtlStep

\* boundState returns a state of the file, or the one the Codex files show.
LEMMA BoundStateGood ==
  ASSUME TypeInv, BoundState.phase \in StablePhases
  PROVE  /\ BoundState \in States
         /\ GoodState(BoundState)
         /\ ~Legacy => BoundState = st
         /\ Legacy => Matches(codex, BoundState.applied)
<1>1. CASE Legacy
  <2>1. BoundState = InferredState /\ InferredState # NoState
    BY <1>1, Labels DEF BoundState, NoState, StablePhases, PendingPhases, ActivePhases
  <2>2. PICK i \in Backends :
          /\ InferredState = [gen |-> 1, desired |-> i, applied |-> i,
                              phase |-> ActivePhaseForBackend(i), intent |-> FALSE]
          /\ codex.root = i /\ codex.inter = i
    BY <2>1, Zenon DEF InferredState, InferBackend
  <2>3. ActivePhaseForBackend(i) \in Phases
    BY Labels DEF ActivePhaseForBackend
  <2>4. InferredState \in States
    BY <2>2, <2>3, Labels DEF States
  <2> QED
    BY <1>1, <2>1, <2>2, <2>4 DEF GoodState, Matches
<1>2. CASE ~Legacy
  BY <1>2 DEF BoundState, TypeInv, GoodState, NoState, StablePhases, PendingPhases,
              ActivePhases
<1> QED
  BY <1>1, <1>2

\* Every operation of relayctl starts from and writes a well-typed state.
LEMMA OperationsType ==
  ASSUME TypeInv, Operations
  PROVE  TypeInv'
<1> USE DEF TypeInv
<1>0. RelayOK' /\ faults' \in 0..MaxFaults /\ journal' \in Journals /\ codex' \in Artifacts
  BY RelayFrame, Zenon DEF Operations, Request, SeedNativeParked, Cancel, RepairNative, Apply,
                    RecoverObserved, RecoverFromJournal
<1>m. marker' \in BOOLEAN
  BY Zenon DEF Operations, Request, SeedNativeParked, Cancel, RepairNative, Apply,
               RecoverObserved, RecoverFromJournal, SaveOrFirst
<1>f. ASSUME NEW s \in States, GoodState(s), SaveOrFirst(s)
      PROVE  GoodState(st)' /\ GoodCtl(ctl)'
  <2>1. GoodCtl([Idle EXCEPT !.pc = "first", !.s = s])
    BY <1>f, Labels, ConstantTypes, Zenon DEF GoodCtl, Ctls, Idle, WorkPCs
  <2> QED
    BY <2>1, <1>f DEF SaveOrFirst
<1>1. ASSUME NEW b \in Backends, NEW intent \in BOOLEAN, Request(b, intent)
      PROVE  GoodState(st)' /\ GoodCtl(ctl)'
  <2> DEFINE s == BoundState
             moved == [RequestTransition(s, b) EXCEPT !.intent = intent]
             next == IF b = s.desired THEN s
                     ELSE IF Legacy THEN moved ELSE [moved EXCEPT !.gen = s.gen + 1]
  <2>1. s.phase \in StablePhases /\ ValidState(next) /\ SaveOrFirst(next)
    BY <1>1 DEF Request, CanSave
  <2>2. s \in States /\ GoodState(s)
    BY <2>1, BoundStateGood
  <2>3. RequestTransition(s, b).applied = s.applied
    BY <2>2 DEF RequestTransition, States
  <2>4. next.phase \in Phases
    BY <2>1, Zenon DEF ValidState, ShapeOfPhase, Phases, StablePhases, PendingPhases, ActivePhases
  <2>5. CASE b = s.desired
    BY <1>f, <2>1, <2>2, <2>5
  <2>6. CASE b # s.desired
    <3> DEFINE ph == IF b = s.applied THEN ActivePhaseForBackend(b)
                     ELSE PendingPhaseForBackends(b, s.applied)
               n == IF Legacy THEN s.gen ELSE s.gen + 1
    <3>1. next = [gen |-> n, desired |-> b, applied |-> s.applied,
                  phase |-> ph, intent |-> intent]
      BY <2>2, <2>6, Zenon DEF RequestTransition, States
    <3>2. n \in Nat \ {0} /\ s.applied \in RecoveryBackends
      BY <2>2 DEF States
    <3>a. ph \in {"relay_active", "native_pending_restart", "backend_pending_restart"}
            => s.applied \in Backends
      BY Labels DEF ActivePhaseForBackend, PendingPhaseForBackends
    <3> HIDE DEF next, ph
    <3>3. ph \in Phases
      BY <2>4, <3>1
    <3>4. next \in States
      BY <3>1, <3>2, <3>3, NewState, Labels
    <3>5. AllowsDataPlane(next) => s.applied \in Backends
      BY <3>1, <3>a DEF AllowsDataPlane
    <3>6. GoodState(next)
      BY <3>1, <3>4, <3>5 DEF GoodState
    <3> QED
      BY <1>f, <2>1, <3>4, <3>6
  <2> QED
    BY <2>5, <2>6
<1>2. ASSUME SeedNativeParked
      PROVE  GoodState(st)' /\ GoodCtl(ctl)'
  <2> DEFINE seeded == [gen |-> 1, desired |-> "none", applied |-> "none",
                        phase |-> "native_active", intent |-> FALSE]
  <2>1. seeded \in States /\ GoodState(seeded)
    BY Labels DEF States, GoodState, AllowsDataPlane
  <2> QED
    BY <1>2, <1>f, <2>1 DEF SeedNativeParked
<1>3. ASSUME Cancel
      PROVE  GoodState(st)' /\ GoodCtl(ctl)'
  <2>1. st \in States
    BY <1>3 DEF Cancel, GoodState, NoState, PendingPhases
  <2>2. CancelTransition(st).applied = st.applied
        /\ CancelTransition(st).phase = ActivePhaseForBackend(st.applied)
    BY <2>1 DEF CancelTransition, States
  <2>3. ActivePhaseForBackend(st.applied) \in Phases /\ FALSE \in BOOLEAN
        /\ st.applied \in RecoveryBackends /\ st.gen + 1 \in Nat \ {0}
    BY <2>1, Labels DEF ActivePhaseForBackend, States
  <2>4. CancelTransition(st) \in States
    BY <2>1, <2>3, CancelUpdate, Zenon DEF CancelTransition
  <2>5. AllowsDataPlane(CancelTransition(st)) => st.applied \in Backends
    BY <2>2, Labels DEF AllowsDataPlane, ActivePhaseForBackend
  <2> QED
    BY <1>3, <2>2, <2>4, <2>5 DEF Cancel, GoodState
<1>4. ASSUME RepairNative
      PROVE  GoodState(st)' /\ GoodCtl(ctl)'
  <2>1. st \in States
    BY <1>4 DEF RepairNative, GoodState, NoState
  <2>2. GoodState(st')
    BY <1>4, <2>1, RepairedGood DEF RepairNative
  <2>3. st.phase = "recovery_required"
        /\ ctl' = [Idle EXCEPT !.pc = "repair", !.s = st]
    BY <1>4 DEF RepairNative
  <2>4. GoodCtl(ctl')
    BY <2>1, <2>3, Labels, Zenon DEF GoodCtl, Ctls, Idle, WorkPCs
  <2> QED
    BY <2>2, <2>4
<1>5. ASSUME Apply
      PROVE  GoodState(st)' /\ GoodCtl(ctl)'
  <2> DEFINE mig == MigrationRequired(codex, st.desired, st.intent)
             applying == [st EXCEPT !.phase = "applying", !.intent = mig,
                                    !.gen = st.gen + 1]
  <2>1. st \in States
    BY <1>5 DEF Apply, GoodState, NoState, PendingPhases
  <2>2. mig \in BOOLEAN
    BY Zenon DEF MigrationRequired
  <2>3. applying \in States
    BY <2>1, <2>2, ApplyingUpdate, Zenon
  <2>4. ~AllowsDataPlane(applying) /\ applying.desired = st.desired
    BY <2>1 DEF States, AllowsDataPlane
  <2>5. st.desired \in Backends
    BY <1>5, Labels DEF Apply, Preflight, MigrationRequired
  <2>6. st' = applying
        /\ ctl' = [Idle EXCEPT !.pc = "journal", !.s = applying, !.auth = TRUE, !.mig = mig]
    BY <1>5 DEF Apply
  <2>7. TRUE \in BOOLEAN /\ "journal" \in CtlPCs
    BY DEF CtlPCs
  <2> HIDE DEF applying, mig
  <2>8. GoodState(applying)
    BY <2>3, <2>4, ClosedStateGood
  <2>9. GoodCtl(ctl')
    BY <2>2, <2>3, <2>4, <2>5, <2>6, <2>7, <2>8, BeginGood, Zenon
  <2> QED
    BY <2>6, <2>8, <2>9
<1>6. ASSUME RecoverObserved
      PROVE  GoodState(st)' /\ GoodCtl(ctl)'
  <2> DEFINE target == InferBackend(codex)
             n == IF st.gen >= 2 THEN st.gen + 1 ELSE 2
             recovery == [gen |-> n, desired |-> target,
                          applied |-> ForcedRecoveryOrigin(target),
                          phase |-> "recovery_required", intent |-> FALSE]
  <2>1. target \in Backends
    BY <1>6 DEF RecoverObserved
  <2>2. n \in Nat \ {0}
    BY DEF GoodState, States, NoState
  <2>3. ForcedRecoveryOrigin(target) \in Backends
    BY Labels DEF ForcedRecoveryOrigin
  <2>4. recovery \in States
    BY <2>1, <2>2, <2>3, Labels DEF States
  <2>5. ~AllowsDataPlane(recovery)
    BY DEF AllowsDataPlane
  <2>6. st' = recovery /\ ctl' = [Idle EXCEPT !.pc = "recover", !.s = recovery]
    BY <1>6 DEF RecoverObserved
  <2> HIDE DEF recovery
  <2>7. GoodState(recovery)
    BY <2>4, <2>5, ClosedStateGood
  <2>8. GoodCtl(ctl')
    BY <2>4, <2>6, <2>7, Labels, Zenon DEF GoodCtl, Ctls, Idle, WorkPCs
  <2> QED
    BY <2>6, <2>7, <2>8
<1>7. ASSUME NEW action \in {"complete", "rollback"}, NEW desktopExited \in BOOLEAN,
             RecoverFromJournal(action, desktopExited)
      PROVE  GoodState(st)' /\ GoodCtl(ctl)'
  <2> DEFINE s == IF st.phase = "recovery_required" THEN st ELSE RecoveryStateFromJournal
             target == IF action = "rollback" THEN journal.origin
                       ELSE IF s.desired = "unknown" THEN journal.target ELSE s.desired
             origin == IF target = s.applied THEN s.desired ELSE s.applied
             carried == [s EXCEPT !.desired = target, !.applied = origin]
  <2>1. s \in States
    <3>1. CASE st.phase = "recovery_required"
      BY <3>1 DEF GoodState, NoState
    <3>2. CASE st.phase # "recovery_required"
      <4>1. journal.gen + 1 \in Nat \ {0} /\ journal.target \in RecoveryBackends
            /\ journal.origin \in RecoveryBackends /\ journal.mig \in BOOLEAN
        BY DEF Journals
      <4>2. RecoveryStateFromJournal \in States
        BY <4>1, Labels, NewState DEF RecoveryStateFromJournal
      <4> QED
        BY <3>2, <4>2
    <3> QED
      BY <3>1, <3>2
  <2>2. s.phase = "recovery_required"
    BY DEF RecoveryStateFromJournal
  <2>3. target \in RecoveryBackends /\ origin \in RecoveryBackends
    BY <2>1 DEF States, Journals
  <2>4. st' = s
    BY <1>7 DEF RecoverFromJournal
  <2>5. \/ ctl' = ctl
        \/ ctl' = [Idle EXCEPT !.pc = "recover", !.s = carried, !.auth = journal.auth,
                               !.mig = journal.mig]
    BY <1>7 DEF RecoverFromJournal
  <2> HIDE DEF s, target, origin
  <2>6. carried \in States
    BY <2>1, <2>3, BackendUpdate, Zenon
  <2>7. ~AllowsDataPlane(s) /\ ~AllowsDataPlane(carried)
    BY <2>1, <2>2 DEF States, AllowsDataPlane
  <2> HIDE DEF carried
  <2>8. GoodState(s) /\ GoodState(carried)
    BY <2>1, <2>6, <2>7, ClosedStateGood
  <2>9. journal.auth \in BOOLEAN /\ journal.mig \in BOOLEAN /\ "recover" \notin WorkPCs
    BY DEF Journals, WorkPCs
  <2>10. GoodCtl([Idle EXCEPT !.pc = "recover", !.s = carried, !.auth = journal.auth,
                              !.mig = journal.mig])
    BY <2>6, <2>8, <2>9, BeginGood, Labels, Zenon
  <2>11. GoodCtl(ctl')
    BY <2>5, <2>10
  <2> QED
    BY <2>4, <2>8, <2>11
<1> QED
  BY <1>0, <1>m, <1>1, <1>2, <1>3, <1>4, <1>5, <1>6, <1>7 DEF Operations

\* Every later step of a switch keeps the types.
LEMMA ControllerStepType ==
  ASSUME TypeInv, ControllerStep
  PROVE  TypeInv'
<1> USE DEF TypeInv
<1>0. marker' \in BOOLEAN /\ faults' \in 0..MaxFaults
  BY Zenon DEF ControllerStep, FirstStateWrite, RepairVerified, RepairRestored, RecoverApply, WriteJournal, HealthSnapshot,
         HealthCatalog, HealthActive, HealthInteractive, ControlAuthorized,
         ControlRefused, ControlDisconnected, ConfigUnchanged, ConfigMigrate,
         ConfigRoot, ConfigRefused, ConfigProfile, WriteMutatedJournal, SaveFinal,
         RemoveJournal, Finalized, Return, durable
<1>c. \/ ctl.s.desired \in Backends /\ ctl.s \in States /\ GoodState(ctl.s)
      \/ ctl.pc \notin WorkPCs
  BY DEF GoodCtl, WorkPCs
<1>f. FailApplying(ctl.s) /\ ctl.pc # "idle" => GoodState(st)' /\ GoodCtl(ctl)'
  BY FailApplyingGood
<1>1. CASE FirstStateWrite
  <2>1. GoodState(ctl.s)
    BY <1>1 DEF FirstStateWrite, GoodCtl
  <2> QED
    BY <1>1, <1>0, <2>1, RelayFrame, GoodConstants DEF FirstStateWrite
<1>2. CASE RecoverApply
  <2> DEFINE mig == ctl.mig \/ MigrationRequired(codex, ctl.s.desired, ctl.s.intent)
             applying == [ctl.s EXCEPT !.phase = "applying", !.intent = mig,
                                       !.gen = ctl.s.gen + 1]
  <2>1. ctl \in Ctls /\ ctl.s \in States
    BY <1>2 DEF RecoverApply, GoodCtl
  <2>2. mig \in BOOLEAN
    BY Zenon DEF MigrationRequired
  <2>3. applying \in States
    BY <2>1, <2>2, ApplyingUpdate, Zenon
  <2>4. ~AllowsDataPlane(applying) /\ applying.desired = ctl.s.desired
    BY <2>1 DEF States, AllowsDataPlane
  <2>5. \/ st' = st /\ ctl' = Idle
        \/ /\ st' = applying
           /\ ctl' = [ctl EXCEPT !.pc = "journal", !.s = applying, !.mig = mig]
           /\ ctl.s.desired \in Backends
    BY <1>2, Labels DEF RecoverApply, Preflight, MigrationRequired
  <2> HIDE DEF applying, mig
  <2>6. GoodState(applying)
    BY <2>3, <2>4, ClosedStateGood
  <2>7. ctl.s.desired \in Backends
          => GoodCtl([ctl EXCEPT !.pc = "journal", !.s = applying, !.mig = mig])
    BY <2>1, <2>2, <2>3, <2>4, <2>6, Labels, Zenon DEF GoodCtl, Ctls, WorkPCs
  <2> QED
    BY <1>2, <1>0, <2>5, <2>6, <2>7, RelayFrame, GoodConstants DEF RecoverApply
<1>3. CASE WriteJournal \/ WriteMutatedJournal
  <2>1. journal' \in Journals
    <3>1. ctl.s \in States /\ ctl \in Ctls
      BY <1>3 DEF GoodCtl, WriteJournal, WriteMutatedJournal, CtlStep
    <3>2. (ctl.auth /\ ~ctl.mig) \in BOOLEAN
      BY Zenon
    <3>3. \A stage \in {"prepared", "config_mutated"} :
            NewJournal(ctl.s, ctl.auth, ctl.mig, stage) \in Journals
      BY <3>1, <3>2 DEF NewJournal, Journals, States, Ctls
    <3> QED
      BY <1>3, <3>3 DEF WriteJournal, WriteMutatedJournal
  <2>2. GoodCtl(ctl')
    BY <1>3, CtlStepGood, Labels DEF WriteJournal, WriteMutatedJournal, WorkPCs, CtlPCs
  <2> QED
    BY <1>3, <1>0, <2>1, <2>2, RelayFrame DEF WriteJournal, WriteMutatedJournal
<1>4. CASE \/ HealthSnapshot \/ HealthCatalog \/ HealthActive \/ HealthInteractive
           \/ ConfigUnchanged \/ Finalized
  <2>1. GoodCtl(ctl')
    BY <1>4, CtlStepGood, Labels
       DEF HealthSnapshot, HealthCatalog, HealthActive, HealthInteractive,
           ConfigUnchanged, Finalized, WorkPCs, CtlPCs
  <2> QED
    BY <1>4, <1>0, <2>1, RelayFrame
       DEF HealthSnapshot, HealthCatalog, HealthActive, HealthInteractive,
           ConfigUnchanged, Finalized, durable
<1>5. CASE ControlAuthorized
  <2>1. GoodCtl(ctl')
    BY <1>5, CtlStepGood DEF ControlAuthorized, WorkPCs, CtlPCs
  <2>2. Handler \in Handlers
    BY <1>5, <1>c DEF ControlAuthorized, CtlStep, Handler, Handlers, States, WorkPCs
  <2>3. RelayOK'
    BY <1>5, <2>2 DEF RelayOK, ControlAuthorized
  <2> QED
    BY <1>5, <1>0, <2>1, <2>3 DEF ControlAuthorized, durable
<1>6. CASE ControlRefused \/ ControlDisconnected
  BY <1>6, <1>0, <1>f, RelayFrame DEF ControlRefused, ControlDisconnected
<1>7. CASE ConfigMigrate
  <2>1. codex' \in Artifacts
    BY <1>7, Labels DEF ConfigMigrate, Artifacts
  <2>2. GoodCtl(ctl')
    BY <1>7, Labels DEF ConfigMigrate, GoodCtl, Ctls, WorkPCs
  <2> QED
    BY <1>7, <1>0, <2>1, <2>2, RelayFrame DEF ConfigMigrate
<1>8. CASE ConfigRoot
  <2>1. ctl.s.desired \in Backends /\ ctl.pc \in WorkPCs
    BY <1>8, <1>c DEF ConfigRoot, WorkPCs
  <2>2. codex' \in Artifacts
    BY <1>8, <2>1, Labels DEF ConfigRoot, Artifacts
  <2>3. (IF Migrated THEN "legacy" ELSE codex.root) \in RootValues
    BY Labels DEF Artifacts
  <2>4. GoodCtl(ctl')
    BY <1>8, <2>1, <2>3, StepBaseGood, Zenon DEF ConfigRoot, CtlPCs
  <2> QED
    BY <1>8, <1>0, <2>2, <2>4, RelayFrame DEF ConfigRoot
<1>9. CASE ConfigRefused
  <2>1. codex' \in Artifacts
    BY <1>9, Labels DEF ConfigRefused, Artifacts
  <2> QED
    BY <1>9, <1>0, <1>f, <2>1, RelayFrame DEF ConfigRefused
<1>10. CASE ConfigProfile
  <2>1. ctl.s.desired \in Backends /\ ctl.pc \in WorkPCs
    BY <1>10, <1>c DEF ConfigProfile, WorkPCs
  <2>2. codex' \in Artifacts
    BY <1>10, <2>1, Labels DEF ConfigProfile, Artifacts
  <2>3. GoodCtl(ctl')
    BY <1>10, <2>1, StepBaseGood, Labels, Zenon DEF ConfigProfile, CtlPCs
  <2> QED
    BY <1>10, <1>0, <2>2, <2>3, RelayFrame DEF ConfigProfile
<1>11. CASE SaveFinal
  <2>1. ctl.s \in States /\ ctl.s.desired \in Backends /\ ctl.pc # "idle" /\ ctl \in Ctls
    BY <1>11, <1>c DEF SaveFinal, WorkPCs, GoodCtl
  <2>2. FinalState(ctl.s) \in States /\ GoodState(FinalState(ctl.s))
    BY <2>1, FinalStateGood
  <2>3. GoodCtl([ctl EXCEPT !.pc = "unlink", !.s = FinalState(ctl.s)])
    BY <2>1, <2>2, Labels, Zenon DEF GoodCtl, Ctls, WorkPCs
  <2> QED
    BY <1>11, <1>0, <1>f, <2>1, <2>2, <2>3, RelayFrame DEF SaveFinal
<1>12. CASE RemoveJournal
  <2>1. GoodCtl(ctl')
    BY <1>12, CtlStepGood DEF RemoveJournal, WorkPCs, CtlPCs
  <2> QED
    BY <1>12, <1>0, <2>1, ConstantTypes, RelayFrame DEF RemoveJournal
<1>13. CASE Return \/ RepairVerified
  BY <1>13, <1>0, GoodConstants, RelayFrame DEF Return, RepairVerified, durable
<1>14. CASE RepairRestored
  <2>1. GoodState(ctl.s)
    BY <1>14 DEF RepairRestored, GoodCtl
  <2> QED
    BY <1>14, <1>0, <2>1, RelayFrame, GoodConstants DEF RepairRestored
<1> QED
  BY <1>1, <1>2, <1>3, <1>4, <1>5, <1>6, <1>7, <1>8, <1>9, <1>10, <1>11, <1>12, <1>13, <1>14,
     Zenon
     DEF ControllerStep

\* A relay start and the steps of Watcher.Refresh keep the types.
LEMMA WatcherStepType ==
  ASSUME TypeInv, RelayStart \/ WatcherStep
  PROVE  TypeInv'
<1> USE DEF TypeInv
<1>0. GoodState(st') /\ GoodCtl(ctl') /\ marker' \in BOOLEAN /\ journal' \in Journals
      /\ codex' \in Artifacts /\ faults' \in 0..MaxFaults
  BY DEF RelayStart, WatcherStep, WatchReadState, WatchReadJournal, WatchCheckDrift,
         WatchPublish, durable
<1>1. CASE RelayStart
  BY <1>0, <1>1 DEF RelayStart, RelayOK
<1>2. CASE WatchReadState
  <2> DEFINE s == IF st = NoState THEN NewRelayState ELSE st
  <2>1. s \in States /\ GoodState(s)
    BY ConstantTypes, GoodConstants, Zenon DEF GoodState
  <2>2. Legacy \in BOOLEAN /\ StateUnreadable \in BOOLEAN
    BY Zenon DEF Legacy, StateUnreadable
  <2>3. watch' = [pc |-> "state", s |-> s, legacy |-> Legacy, bad |-> StateUnreadable,
               rev |-> 0]
    BY <1>2 DEF WatchReadState
  <2> HIDE DEF s
  <2>4. watch' \in Watches /\ GoodState(watch'.s)
    BY <2>1, <2>2, <2>3 DEF Watches
  <2> QED
    BY <1>0, <1>2, <2>4 DEF WatchReadState, RelayOK
<1>3. CASE WatchReadJournal
  <2> DEFINE bad == \/ watch.bad
                    \/ /\ journal.stage # "absent"
                       /\ watch.legacy \/ watch.s.phase # "applying"
  <2>1. bad \in BOOLEAN
    BY Zenon
  <2>2. watch' = [watch EXCEPT !.pc = "journal", !.bad = bad]
    BY <1>3 DEF WatchReadJournal
  <2> HIDE DEF bad
  <2>3. watch' \in Watches /\ watch'.s = watch.s
    BY <2>1, <2>2, Zenon DEF Watches, RelayOK
  <2> QED
    BY <1>0, <1>3, <2>3 DEF WatchReadJournal, RelayOK
<1>4. CASE WatchPublish
  <2>1. Observed \in Snapshots
    BY ConstantTypes DEF Observed, Snapshots, Watches, RelayOK
  <2>2. InitialBackend(Observed) \in Backends
    <3>1. CASE Observed = InvalidSnapshot
      BY <3>1, Labels DEF InitialBackend, InvalidSnapshot
    <3>2. CASE Observed = [s |-> watch.s, legacy |-> watch.legacy, invalid |-> FALSE,
                           rev |-> watch.rev]
      BY <3>2, Labels, Zenon DEF InitialBackend, RelayOK, GoodState
    <3> QED
      BY <3>1, <3>2 DEF Observed
  <2>3. SlotFor(InitialBackend(Observed)) \in Slots
    BY <2>2, SlotForType
  <2> QED
    BY <1>0, <1>4, <2>1, <2>3, ConstantTypes, GoodConstants DEF WatchPublish, RelayOK
<1>5. CASE WatchCheckDrift
  <2> DEFINE bad == watch.bad \/ Drifted
  <2>1. bad \in BOOLEAN /\ codex.rev \in Nat
    BY DEF Artifacts
  <2>2. watch' = [watch EXCEPT !.pc = "drift", !.bad = bad, !.rev = codex.rev]
    BY <1>5 DEF WatchCheckDrift
  <2> HIDE DEF bad
  <2>3. watch' \in Watches /\ watch'.s = watch.s
    BY <2>1, <2>2, Zenon DEF Watches, RelayOK
  <2> QED
    BY <1>0, <1>5, <2>3 DEF WatchCheckDrift, RelayOK
<1> QED
  BY <1>1, <1>2, <1>3, <1>4, <1>5 DEF WatcherStep

\* Swaps, the catalog worker and the data plane keep the types.
LEMMA RuntimeStepType ==
  ASSUME TypeInv,
         \/ SwapStep \/ CatalogLoop \/ CatalogStops
         \/ \E r \in Requests : ReqEnter(r) \/ RequestStep(r)
  PROVE  TypeInv'
<1> USE DEF TypeInv
<1>1. ASSUME NEW h \in handlers, BeginSwap(h)
      PROVE  TypeInv'
  <2>1. slot' \in Slots /\ handlers' \subseteq Handlers
    BY <1>1, Zenon DEF BeginSwap, RelayOK, Slots
  <2> QED
    BY <1>1, <2>1 DEF BeginSwap, RelayOK, durable
<1>2. CASE CommitSwap
  <2>1. slot.h.backend \in Backends
    BY DEF RelayOK, Slots, Handlers
  <2>2. slot' \in Slots /\ cat' \in Cats
    <3>1. (~Waiting(slot.h)) \in BOOLEAN
      BY Zenon
    <3>2. \A s \in Slots, l \in BOOLEAN : [s EXCEPT !.late = l] \in Slots
      BY DEF Slots
    <3> QED
      BY <1>2, <2>1, <3>1, <3>2, SlotForType, ConstantTypes, Zenon DEF CommitSwap
  <2>3. GoodCtl(ctl')
    <3>1. "config" \in CtlPCs /\ "swap" \in WorkPCs
      BY DEF WorkPCs, CtlPCs
    <3>2. CASE Waiting(slot.h)
      BY <1>2, <3>1, <3>2, StepGood DEF CommitSwap, Waiting
    <3>3. CASE ~Waiting(slot.h)
      BY <1>2, <3>3 DEF CommitSwap
    <3> QED
      BY <3>2, <3>3
  <2> QED
    BY <1>2, <2>2, <2>3 DEF CommitSwap, RelayOK, durable
<1>3. CASE CatalogLoop \/ CatalogStops
  <2>1. cat' \in Cats
    BY <1>3, ConstantTypes
       DEF CatalogLoop, CatalogGate, CatalogRunning, CatalogTick, CatalogRefresh,
           CatalogRefreshed, CatalogStops, Catalog, Cats, RelayOK
  <2> QED
    BY <1>3, <2>1, Zenon
       DEF CatalogLoop, CatalogGate, CatalogRunning, CatalogTick, CatalogRefresh,
           CatalogRefreshed, CatalogStops, Catalog, RelayOK, durable
<1>4. ASSUME NEW r \in Requests, ReqEnter(r) \/ RequestStep(r)
      PROVE  TypeInv'
  <2>1. PICK next \in [pc : ReqPCs, profile : Backends], from \in ReqPCs :
          ReqStep(r, from, next)
    <3>1. ReqIdle \in [pc : ReqPCs, profile : Backends]
      BY Labels DEF ReqIdle, ReqPCs
    <3>2. CASE ReqEnter(r)
      <4>1. [pc |-> "gated", profile |-> slot.profile] \in [pc : ReqPCs, profile : Backends]
        BY DEF RelayOK, Slots, ReqPCs
      <4> QED
        BY <3>2, <4>1 DEF ReqEnter, ReqPCs
    <3>3. CASE RequestStep(r)
      <4>1. \A pc \in ReqPCs : [req[r] EXCEPT !.pc = pc] \in [pc : ReqPCs, profile : Backends]
        BY DEF RelayOK
      <4>2. {"gated", "begun", "admitted"} \subseteq ReqPCs
        BY DEF ReqPCs
      <4> QED
        BY <3>1, <3>3, <4>1, <4>2 DEF RequestStep, ReqBegin, ReqAdmit, ReqFinish
    <3> QED
      BY <1>4, <3>2, <3>3
  <2>2. req' \in [Requests -> [pc : ReqPCs, profile : Backends]]
    BY <2>1 DEF ReqStep, RelayOK
  <2> QED
    BY <2>1, <2>2, Zenon DEF ReqStep, RelayOK, durable
<1> QED
  BY <1>1, <1>2, <1>3, <1>4 DEF SwapStep

\* A fault leaves well-typed variables behind.
LEMMA FaultsType ==
  ASSUME TypeInv, Faults
  PROVE  TypeInv'
<1> USE DEF TypeInv
<1>0. faults' \in 0..MaxFaults
  BY FaultCounted, Zenon
     DEF Faults, AckTimeout, PreflightFails, WriteFails, ConfigWriteFails, RepairFails, UnlinkFails,
         Crash, RelayCrash, DrainFails, CandidateFails, EditArtifacts, LoseState,
         DamageJournal
<1>f. FailApplying(ctl.s) /\ ctl.pc # "idle" => GoodState(st)' /\ GoodCtl(ctl)'
  BY FailApplyingGood
<1>1. CASE AckTimeout \/ WriteFails
  BY <1>0, <1>1, <1>f, RelayFrame DEF AckTimeout, WriteFails
<1>2. CASE PreflightFails \/ UnlinkFails \/ Crash
  BY <1>0, <1>2, GoodConstants, RelayFrame DEF PreflightFails, UnlinkFails, Crash, durable
<1>3. CASE ConfigWriteFails
  <2>1. ctl.base \in RootValues
    BY DEF GoodCtl, Ctls
  <2>2. codex' \in Artifacts
    BY <1>3, <2>1, Labels DEF ConfigWriteFails, Artifacts
  <2> QED
    BY <1>0, <1>3, <1>f, <2>2, RelayFrame DEF ConfigWriteFails
<1>4. CASE RelayCrash
  <2>1. slot' \in Slots
    BY <1>4, SlotForType, Labels DEF RelayCrash, RelayDown
  <2>2. req' \in [Requests -> [pc : ReqPCs, profile : Backends]]
    BY <1>4, Labels DEF RelayCrash, RelayDown, ReqIdle, ReqPCs
  <2>3. RelayOK'
    BY <1>4, <2>1, <2>2, ConstantTypes, GoodConstants DEF RelayCrash, RelayDown, RelayOK
  <2> QED
    BY <1>0, <1>4, <2>3 DEF RelayCrash, durable
<1>5. CASE DrainFails
  <2>1. slot' \in Slots
    BY <1>5, ConstantTypes, Zenon DEF DrainFails, RelayOK, Slots
  <2>2. GoodState(st)' /\ GoodCtl(ctl)'
    BY <1>5, <1>f DEF DrainFails, Waiting
  <2> QED
    BY <1>0, <1>5, <2>1, <2>2 DEF DrainFails, RelayOK
<1>6. ASSUME NEW h \in handlers, CandidateFails(h)
      PROVE  TypeInv'
  <2>1. slot' \in Slots /\ handlers' \subseteq Handlers
    BY <1>6 DEF CandidateFails, RelayOK, Slots
  <2>2. GoodState(st)' /\ GoodCtl(ctl)'
    BY <1>6, <1>f DEF CandidateFails, Waiting
  <2> QED
    BY <1>0, <1>6, <2>1, <2>2 DEF CandidateFails, RelayOK
<1>7. CASE EditArtifacts
  <2>1. codex' \in Artifacts
    BY <1>7, Labels DEF EditArtifacts, Artifacts
  <2> QED
    BY <1>0, <1>7, <2>1, RelayFrame DEF EditArtifacts
<1>8. CASE LoseState
  BY <1>0, <1>8, GoodConstants, RelayFrame DEF LoseState
<1>9. CASE DamageJournal
  BY <1>0, <1>9, ConstantTypes, RelayFrame DEF DamageJournal
<1>10. CASE RepairFails
  <2>1. GoodState(st') /\ ctl' = Idle
    BY <1>10 DEF RepairFails, GoodCtl
  <2> QED
    BY <1>0, <1>10, <2>1, GoodConstants, RelayFrame DEF RepairFails
<1> QED
  BY <1>1, <1>2, <1>3, <1>4, <1>5, <1>6, <1>7, <1>8, <1>9, <1>10, Zenon DEF Faults

\* TypeInv is inductive.
LEMMA TypeStep == TypeInv /\ [Next]_vars => TypeInv'
<1> SUFFICES ASSUME TypeInv, [Next]_vars PROVE TypeInv'
  OBVIOUS
<1>1. CASE UNCHANGED vars
  BY <1>1 DEF vars, TypeInv, RelayOK
<1>2. CASE Next
  BY <1>2, OperationsType, ControllerStepType, WatcherStepType, RuntimeStepType, FaultsType
     DEF Next
<1> QED
  BY <1>1, <1>2

\* Every reachable state is well typed.
LEMMA TypeInvAlways == Spec => []TypeInv
<1> QED
  BY TypeInit, TypeStep, PTL DEF Spec

\* Every variable keeps the domain of the Go type it models, for any number of
\* requests, faults and generations.
THEOREM TypeCorrect == Spec => []TypeOK
<1>1. TypeInv => TypeOK
  BY Zenon DEF TypeInv, TypeOK, RelayOK, GoodState, GoodCtl
<1> QED
  BY <1>1, TypeInvAlways, PTL

-----------------------------------------------------------------------------
(* An open state and the Codex files agree.                                *)

\* Before the first operation no state file exists and nothing is under way.
LEMMA SwitchInit == Init => SwitchInv
BY DEF Init, SwitchInv, OpenStateMatchesArtifacts, FilesKnown, AllowsDataPlane, NoState,
       Idle, WorkPCs

\* failApplyingLocked never opens a state and leaves nothing under way.
LEMMA FailApplyingKeeps ==
  ASSUME TypeInv, SwitchInv, ctl.pc # "idle", FailApplying(ctl.s),
         \/ codex' = codex \/ ~AllowsDataPlane(st)
  PROVE  SwitchInv'
<1>1. ctl' = Idle /\ (st' = st \/ ~AllowsDataPlane(st'))
  BY FailApplyingGood DEF TypeInv
<1>2. OpenStateMatchesArtifacts'
  BY <1>1 DEF SwitchInv, OpenStateMatchesArtifacts
<1> QED
  BY <1>1, <1>2, Zenon DEF SwitchInv, FilesKnown, Idle, WorkPCs

\* An operation opens a state only for the backend the Codex files show: the
\* ones that save at once keep the applied backend, the others park first.
LEMMA OperationsKeep ==
  ASSUME TypeInv, SwitchInv, Operations
  PROVE  SwitchInv'
<1> USE DEF SwitchInv
<1>0. codex' = codex /\ ctl.pc = "idle"
  BY Zenon DEF Operations, Request, SeedNativeParked, Cancel, RepairNative, Apply,
         RecoverObserved, RecoverFromJournal, CtlIdle
<1>f. ASSUME NEW s, SaveOrFirst(s),
             AllowsDataPlane(s) /\ codex.rev = 0 => Matches(codex, s.applied)
      PROVE  SwitchInv'
  <2>1. CASE marker
    BY <1>0, <1>f, <2>1
       DEF SaveOrFirst, OpenStateMatchesArtifacts, FilesKnown, WorkPCs
  <2>2. CASE ~marker
    BY <1>0, <1>f, <2>2, Zenon
       DEF SaveOrFirst, OpenStateMatchesArtifacts, FilesKnown, WorkPCs, Idle
  <2> QED
    BY <2>1, <2>2
<1>1. ASSUME NEW b \in Backends, NEW intent \in BOOLEAN, Request(b, intent)
      PROVE  SwitchInv'
  <2> DEFINE s == BoundState
             moved == [RequestTransition(s, b) EXCEPT !.intent = intent]
             next == IF b = s.desired THEN s
                     ELSE IF Legacy THEN moved ELSE [moved EXCEPT !.gen = s.gen + 1]
  <2>1. /\ s.phase \in StablePhases
        /\ SaveOrFirst(next)
        /\ ~Legacy => ValidTransition(st, next)
    BY <1>1 DEF Request, CanSave
  <2>2. /\ s \in States
        /\ ~Legacy => s = st
        /\ Legacy => Matches(codex, s.applied)
    BY <2>1, BoundStateGood
  <2>3. next.applied = s.applied
    BY <2>2 DEF RequestTransition, States
  <2> HIDE DEF next
  <2>4. CASE ~Legacy /\ AllowsDataPlane(next)
    <3>1. AllowsDataPlane(st)
      BY <2>1, <2>2, <2>4 DEF ValidTransition, AllowsDataPlane, StablePhases, PendingPhases,
                              ActivePhases
    <3> QED
      BY <1>f, <2>1, <2>2, <2>3, <2>4, <3>1 DEF OpenStateMatchesArtifacts
  <2> QED
    BY <1>f, <2>1, <2>2, <2>3, <2>4
<1>2. CASE SeedNativeParked
  BY <1>f, <1>2, Zenon DEF SeedNativeParked, AllowsDataPlane
<1>3. CASE Cancel
  <2>1. st \in States
    BY <1>3 DEF Cancel, TypeInv, GoodState, NoState, PendingPhases
  <2>2. CancelTransition(st).applied = st.applied
    BY <2>1 DEF CancelTransition, States
  <2>3. AllowsDataPlane(st') => AllowsDataPlane(st)
    BY <1>3 DEF Cancel, CanSave, Legacy, NoState, PendingPhases, ValidTransition,
                AllowsDataPlane
  <2> QED
    BY <1>0, <1>3, <2>2, <2>3 DEF Cancel, OpenStateMatchesArtifacts
<1>4. CASE RepairNative
  <2>1. ~AllowsDataPlane(st')
    BY <1>4, RepairedGood DEF RepairNative, TypeInv, GoodState, NoState
  <2>2. ctl'.pc = "repair"
    BY <1>4 DEF RepairNative, Idle
  <2> QED
    BY <2>1, <2>2 DEF OpenStateMatchesArtifacts, FilesKnown, WorkPCs
<1>5. CASE Apply
  <2>1. st \in States
    BY <1>5 DEF Apply, TypeInv, GoodState, NoState, PendingPhases
  <2>2. ~AllowsDataPlane(st') /\ ctl'.pc = "journal" /\ ctl'.s = st'
        /\ st'.desired = st.desired
    BY <1>5, <2>1 DEF Apply, States, AllowsDataPlane, Idle
  <2>3. st.desired = "none" => codex.root \notin {"foreign", "legacy"}
    BY <1>5 DEF Apply, Preflight, PreflightNative, PreflightEnable, MigrationRequired,
                RelayBackends
  <2> QED
    BY <1>0, <2>2, <2>3 DEF OpenStateMatchesArtifacts, FilesKnown, WorkPCs
<1>6. CASE RecoverObserved
  <2>1. ~AllowsDataPlane(st') /\ ctl'.pc = "recover"
    BY <1>6 DEF RecoverObserved, AllowsDataPlane, Idle
  <2> QED
    BY <2>1 DEF OpenStateMatchesArtifacts, FilesKnown, WorkPCs
<1>7. ASSUME NEW action \in {"complete", "rollback"}, NEW desktopExited \in BOOLEAN,
             RecoverFromJournal(action, desktopExited)
      PROVE  SwitchInv'
  <2>1. ~AllowsDataPlane(st')
    BY <1>7 DEF RecoverFromJournal, RecoveryStateFromJournal, AllowsDataPlane
  <2>2. ctl'.pc \in {"idle", "recover"}
    BY <1>7, <1>0 DEF RecoverFromJournal, Idle
  <2> QED
    BY <2>1, <2>2 DEF OpenStateMatchesArtifacts, FilesKnown, WorkPCs
<1> QED
  BY <1>1, <1>2, <1>3, <1>4, <1>5, <1>6, <1>7, Zenon DEF Operations

\* The steps of finishApplying: the state stays closed until both Codex files
\* are written, and SaveFinal opens it for the backend they were written for.
LEMMA ControllerStepKeeps ==
  ASSUME TypeInv, SwitchInv, ControllerStep
  PROVE  SwitchInv'
<1> USE DEF SwitchInv
<1>1. CASE FirstStateWrite
  BY <1>1 DEF FirstStateWrite, OpenStateMatchesArtifacts, FilesKnown, Idle, WorkPCs
<1>2. CASE RecoverApply
  <2>1. ctl \in Ctls /\ ctl.s \in States
    BY <1>2 DEF RecoverApply, TypeInv, GoodCtl
  <2>2. CASE ctl' = Idle /\ st' = st
    <3>1. codex' = codex
      BY <1>2 DEF RecoverApply
    <3>2. ctl'.pc = "idle"
      BY <2>2 DEF Idle
    <3> QED
      BY <2>2, <3>1, <3>2 DEF OpenStateMatchesArtifacts, FilesKnown, WorkPCs
  <2>3. CASE ~(ctl' = Idle /\ st' = st)
    <3>1. ~AllowsDataPlane(st') /\ ctl'.pc = "journal" /\ ctl'.s.desired = ctl.s.desired
          /\ Preflight(codex, ctl.s.desired, ctl.s.intent)
      BY <1>2, <2>1, <2>3 DEF RecoverApply, States, Ctls, AllowsDataPlane
    <3>2. ctl.s.desired = "none" => codex.root \notin {"foreign", "legacy"}
      BY <3>1 DEF Preflight, PreflightNative, PreflightEnable, MigrationRequired,
                  RelayBackends
    <3> QED
      BY <1>2, <3>1, <3>2
         DEF RecoverApply, OpenStateMatchesArtifacts, FilesKnown, WorkPCs
  <2> QED
    BY <2>2, <2>3
<1>3. CASE \/ HealthSnapshot \/ HealthCatalog \/ HealthActive \/ HealthInteractive
           \/ WriteJournal \/ ControlAuthorized
  <2>1. codex' = codex /\ st' = st /\ ctl'.s = ctl.s
        /\ ctl.pc \in WorkPCs \ {"profile", "mutated", "final"}
        /\ ctl'.pc \in WorkPCs \ {"profile", "mutated", "final"}
    BY <1>3 DEF HealthSnapshot, HealthCatalog, HealthActive, HealthInteractive,
                WriteJournal, ControlAuthorized, CtlStep, durable, WorkPCs, TypeInv,
                GoodCtl, Ctls
  <2> QED
    BY <2>1 DEF OpenStateMatchesArtifacts, FilesKnown, WorkPCs
<1>4. CASE ControlRefused \/ ControlDisconnected
  BY <1>4, FailApplyingKeeps DEF ControlRefused, ControlDisconnected
<1>5. CASE ConfigUnchanged
  BY <1>5 DEF ConfigUnchanged, CtlStep, durable, OpenStateMatchesArtifacts, FilesKnown,
              WorkPCs, TypeInv, GoodCtl, Ctls
<1>6. CASE ConfigMigrate
  BY <1>6 DEF ConfigMigrate, MigratesNow, MigrationRequired, OpenStateMatchesArtifacts,
              FilesKnown, WorkPCs, TypeInv, GoodCtl, Ctls, Artifacts
<1>7. CASE ConfigRoot
  <2>1. ctl.pc = "config" /\ ctl'.pc = "profile" /\ ctl'.s = ctl.s /\ st' = st
        /\ codex'.rev = codex.rev
    BY <1>7 DEF ConfigRoot, TypeInv, GoodCtl, Ctls, Artifacts
  <2>2. codex.rev = 0 => codex'.root = ctl.s.desired
    <3>1. CASE ctl.s.desired # "none"
      BY <1>7, <3>1 DEF ConfigRoot, TypeInv, Artifacts
    <3>2. CASE ctl.s.desired = "none"
      BY <1>7, <3>2 DEF ConfigRoot, TypeInv, Artifacts, FilesKnown, WorkPCs, ManagedRoot,
                        RootValues, Backends
    <3> QED
      BY <3>1, <3>2
  <2> QED
    BY <2>1, <2>2 DEF OpenStateMatchesArtifacts, FilesKnown, WorkPCs
<1>8. CASE ConfigRefused
  BY <1>8, FailApplyingKeeps DEF ConfigRefused, WorkPCs
<1>9. CASE ConfigProfile
  BY <1>9 DEF ConfigProfile, TypeInv, GoodCtl, Ctls, Artifacts, OpenStateMatchesArtifacts,
              FilesKnown, Matches, WorkPCs
<1>10. CASE WriteMutatedJournal
  BY <1>10 DEF WriteMutatedJournal, CtlStep, TypeInv, GoodCtl, Ctls,
               OpenStateMatchesArtifacts, FilesKnown, WorkPCs
<1>11. CASE SaveFinal
  <2>1. CASE FailApplying(ctl.s)
    BY <1>11, <2>1, FailApplyingKeeps DEF SaveFinal
  <2>2. CASE st' = FinalState(ctl.s) /\ ctl' = [ctl EXCEPT !.pc = "unlink", !.s = st']
    <3>1. st'.applied = ctl.s.desired /\ ctl'.pc = "unlink"
      BY <2>2 DEF FinalState, TypeInv, GoodCtl, Ctls
    <3> QED
      BY <1>11, <3>1 DEF SaveFinal, OpenStateMatchesArtifacts, FilesKnown, WorkPCs
  <2> QED
    BY <1>11, <2>1, <2>2, Zenon DEF SaveFinal
<1>12. CASE RemoveJournal \/ Finalized \/ Return \/ RepairVerified
  BY <1>12 DEF RemoveJournal, Finalized, Return, RepairVerified, CtlStep, durable, TypeInv,
               GoodCtl, Ctls, OpenStateMatchesArtifacts, FilesKnown, WorkPCs, Idle
<1>13. CASE RepairRestored
  <2>1. ~AllowsDataPlane(st')
    BY <1>13 DEF RepairRestored, TypeInv, GoodCtl, AllowsDataPlane
  <2>2. ctl'.pc = "idle"
    BY <1>13 DEF RepairRestored, Idle
  <2> QED
    BY <2>1, <2>2 DEF OpenStateMatchesArtifacts, FilesKnown, WorkPCs
<1> QED
  BY <1>1, <1>2, <1>3, <1>4, <1>5, <1>6, <1>7, <1>8, <1>9, <1>10, <1>11, <1>12, <1>13
     DEF ControllerStep

\* The relay touches neither the state file nor the Codex files; a committed
\* swap only tells the waiting controller to go on.
LEMMA RelayStepKeeps ==
  ASSUME TypeInv, SwitchInv,
         \/ RelayStart \/ WatcherStep \/ SwapStep \/ CatalogLoop \/ CatalogStops
         \/ \E r \in Requests : ReqEnter(r) \/ RequestStep(r)
  PROVE  SwitchInv'
<1>1. CASE CommitSwap /\ Waiting(slot.h)
  <2>1. st' = st /\ codex' = codex /\ ctl'.s = ctl.s /\ ctl'.pc = "config"
        /\ ctl.pc = "swap"
    BY <1>1 DEF CommitSwap, Waiting, durable, TypeInv, GoodCtl, Ctls
  <2> QED
    BY <2>1 DEF SwitchInv, OpenStateMatchesArtifacts, FilesKnown, WorkPCs
<1>2. CASE ~(CommitSwap /\ Waiting(slot.h))
  <2>1. st' = st /\ codex' = codex /\ ctl' = ctl
    <3>1. CASE RelayStart \/ WatcherStep
      BY <3>1 DEF RelayStart, WatcherStep, WatchReadState, WatchReadJournal, WatchCheckDrift,
                  WatchPublish, durable
    <3>2. CASE SwapStep
      BY <1>2, <3>2, Zenon DEF SwapStep, BeginSwap, CommitSwap, durable
    <3>3. CASE CatalogLoop \/ CatalogStops
      BY <3>3 DEF CatalogLoop, CatalogGate, CatalogRunning, CatalogTick, CatalogRefresh,
                  CatalogRefreshed, CatalogStops, Catalog, durable
    <3>4. ASSUME NEW r \in Requests, ReqEnter(r) \/ RequestStep(r)
          PROVE  st' = st /\ codex' = codex /\ ctl' = ctl
      BY <3>4 DEF ReqEnter, RequestStep, ReqBegin, ReqAdmit, ReqFinish, ReqStep, durable
    <3> QED
      BY <3>1, <3>2, <3>3, <3>4
  <2> QED
    BY <2>1 DEF SwitchInv, OpenStateMatchesArtifacts, FilesKnown
<1> QED
  BY <1>1, <1>2

\* A fault ends the operation under way with a closed state or the one it
\* found; only an edit changes the Codex files behind the controller's back.
LEMMA FaultsKeep ==
  ASSUME TypeInv, SwitchInv, Faults
  PROVE  SwitchInv'
<1>i. ctl' = Idle /\ st' = st /\ codex' = codex => SwitchInv'
  <2> SUFFICES ASSUME ctl' = Idle, st' = st, codex' = codex PROVE SwitchInv'
    OBVIOUS
  <2>1. ctl'.pc = "idle"
    BY DEF Idle
  <2> QED
    BY <2>1 DEF SwitchInv, OpenStateMatchesArtifacts, FilesKnown, WorkPCs
<1>u. ctl' = ctl /\ st' = st /\ codex' = codex => SwitchInv'
  BY DEF SwitchInv, OpenStateMatchesArtifacts, FilesKnown
<1>1. CASE AckTimeout \/ WriteFails
  BY <1>1, FailApplyingKeeps DEF AckTimeout, WriteFails
<1>2. CASE PreflightFails \/ UnlinkFails \/ Crash
  BY <1>2, <1>i DEF PreflightFails, UnlinkFails, Crash, durable
<1>3. CASE ConfigWriteFails
  <2>1. ~AllowsDataPlane(st)
    BY <1>3 DEF ConfigWriteFails, SwitchInv, WorkPCs
  <2> QED
    BY <1>3, <2>1, FailApplyingKeeps DEF ConfigWriteFails
<1>4. CASE RelayCrash \/ DamageJournal
  BY <1>4, <1>u DEF RelayCrash, DamageJournal, durable
<1>5. CASE DrainFails
  BY <1>5, <1>u, FailApplyingKeeps DEF DrainFails, Waiting
<1>6. ASSUME NEW h \in handlers, CandidateFails(h)
      PROVE  SwitchInv'
  BY <1>6, <1>u, FailApplyingKeeps DEF CandidateFails, Waiting
<1>7. CASE EditArtifacts
  <2>1. codex'.rev # 0
    BY <1>7 DEF EditArtifacts, TypeInv, Artifacts
  <2> QED
    BY <1>7, <2>1 DEF EditArtifacts, SwitchInv, OpenStateMatchesArtifacts, FilesKnown
<1>8. CASE LoseState
  <2>1. ~AllowsDataPlane(st')
    BY <1>8 DEF LoseState, NoState, AllowsDataPlane
  <2> QED
    BY <1>8, <2>1 DEF LoseState, SwitchInv, OpenStateMatchesArtifacts, FilesKnown
<1>9. CASE RepairFails
  <2>1. st' = st \/ ~AllowsDataPlane(st')
    BY <1>9 DEF RepairFails, TypeInv, GoodCtl, AllowsDataPlane
  <2>2. ctl'.pc = "idle" /\ codex' = codex
    BY <1>9 DEF RepairFails, Idle
  <2> QED
    BY <2>1, <2>2 DEF SwitchInv, OpenStateMatchesArtifacts, FilesKnown, WorkPCs
<1> QED
  BY <1>1, <1>2, <1>3, <1>4, <1>5, <1>6, <1>7, <1>8, <1>9 DEF Faults

\* SwitchInv is inductive relative to TypeInv.
LEMMA SwitchStep == TypeInv /\ SwitchInv /\ [Next]_vars => SwitchInv'
<1> SUFFICES ASSUME TypeInv, SwitchInv, [Next]_vars PROVE SwitchInv'
  OBVIOUS
<1>1. CASE UNCHANGED vars
  BY <1>1 DEF vars, SwitchInv, OpenStateMatchesArtifacts, FilesKnown
<1>2. CASE Next
  BY <1>2, OperationsKeep, ControllerStepKeeps, RelayStepKeeps, FaultsKeep DEF Next
<1> QED
  BY <1>1, <1>2

\* A durable state that admits traffic names the backend the Codex files were
\* written for, whatever crashes, failed writes, refused swaps and lost files
\* came before, as long as nobody else edited those files.
THEOREM OpenStateAgreement == Spec => []OpenStateMatchesArtifacts
<1>1. SwitchInv => OpenStateMatchesArtifacts
  BY DEF SwitchInv
<1> QED
  BY <1>1, TypeInvAlways, SwitchInit, SwitchStep, PTL DEF Spec

-----------------------------------------------------------------------------
(* What is known when a recovery begins.                                   *)

\* A state that waits for a restart names two different backends.
Distinct(s) == s.phase \in PendingPhases => s.desired # s.applied /\ s.applied \in Backends

\* A state, or what relayctl carries, is about the switch the journal is about,
\* forwards or, in a rollback, backwards.
PairOf(s) ==
  \/ s.desired = journal.target /\ s.applied = journal.origin
  \/ s.desired = journal.origin /\ s.applied = journal.target

\* What is known beside the journal of a mutated config.
MutatedKnown ==
  /\ journal.target \in Backends
  /\ journal.origin \in Backends \ {journal.target}
  /\ codex.rev = 0 => journal.fp = codex /\ Matches(codex, journal.target)
  /\ st.phase = "recovery_required" => PairOf(st)
  /\ ctl.pc \in {"recover", "journal", "final"} => PairOf(ctl.s)

CompleteInv ==
  /\ Distinct(st)
  /\ ctl.pc = "first" => Distinct(ctl.s)
  /\ ctl.pc \in {"first", "repair", "finalize", "done"} => journal.stage = "absent"
  /\ ctl.pc \in WorkPCs \ {"journal", "final"} => journal.stage # "config_mutated"
  /\ ctl.pc \in WorkPCs => /\ ctl.s.applied \in Backends \ {ctl.s.desired}
                           /\ st.phase \in {"applying", "absent"}
  /\ journal.stage = "config_mutated" => MutatedKnown

-----------------------------------------------------------------------------
(* What the steps of relayctl do, field by field.                          *)

\* The fields of the idle controller.
LEMMA IdleFields == Idle.pc = "idle" /\ Idle.s = NoState /\ Idle.auth = FALSE /\ Idle.mig = FALSE
BY DEF Idle

\* A step of relayctl from one position to the next keeps what it carries.
LEMMA CtlMoves ==
  ASSUME TypeInv, NEW from, NEW to, CtlStep(from, to)
  PROVE  /\ ctl.pc = from /\ ctl'.pc = to /\ ctl'.s = ctl.s
         /\ ctl'.auth = ctl.auth /\ ctl'.mig = ctl.mig /\ ctl'.base = ctl.base
BY DEF TypeInv, GoodCtl, Ctls, CtlStep

\* failApplyingLocked saves the failed state in a later generation, or, when the
\* state file cannot be read, nothing.
LEMMA FailEffects ==
  ASSUME TypeInv, ctl.pc # "idle", FailApplying(ctl.s)
  PROVE  /\ ctl' = Idle /\ ctl'.pc = "idle"
         /\ \/ st' = st
            \/ /\ st'.phase = "recovery_required" /\ st' \in States
               /\ st'.desired = ctl.s.desired /\ st'.applied = ctl.s.applied
               /\ st'.gen = ctl.s.gen + 1
<1>1. ctl.s \in States
  BY DEF TypeInv, GoodCtl
<1>2. /\ FailedState(ctl.s).phase = "recovery_required"
      /\ FailedState(ctl.s).desired = ctl.s.desired
      /\ FailedState(ctl.s).applied = ctl.s.applied
      /\ FailedState(ctl.s).gen = ctl.s.gen + 1
  BY <1>1 DEF FailedState, States
<1>3. FailedState(ctl.s) \in States
  BY <1>1, FailedStateGood
<1> QED
  BY <1>2, <1>3, IdleFields DEF FailApplying

\* A state that ValidState accepts in a pending phase names two backends.
LEMMA ValidDistinct ==
  ASSUME NEW s, ValidState(s)
  PROVE  Distinct(s)
BY Zenon DEF ValidState, ShapeOfPhase, Distinct, PendingPhaseForBackends, PendingPhases,
       RelayBackends, Backends

-----------------------------------------------------------------------------
(* The journal of a mutated config can be completed.                       *)

\* Nothing is journalled at first.
LEMMA CompleteInit == Init => CompleteInv
BY DEF Init, CompleteInv, Distinct, NoState, Idle, WorkPCs, NoJournal, PendingPhases

\* A step that leaves the files, the journal and relayctl alone.
LEMMA CompleteFrame ==
  ASSUME CompleteInv, UNCHANGED <<st, journal, codex, ctl>>
  PROVE  CompleteInv'
BY DEF CompleteInv, Distinct, MutatedKnown, PairOf

\* relayctl ends and leaves files and journal alone.
LEMMA CompleteIdle ==
  ASSUME CompleteInv, UNCHANGED <<st, journal, codex>>, ctl'.pc = "idle"
  PROVE  CompleteInv'
BY DEF CompleteInv, Distinct, MutatedKnown, PairOf, WorkPCs

\* failApplyingLocked parks the switch the journal is about.  The Codex files
\* may have changed only while no mutated config was journalled.
LEMMA CompleteFail ==
  ASSUME TypeInv, CompleteInv, ctl.pc # "idle", FailApplying(ctl.s),
         UNCHANGED journal,
         codex' = codex \/ journal.stage # "config_mutated",
         journal.stage = "config_mutated" => ctl.pc \in {"recover", "journal", "final"}
  PROVE  CompleteInv'
<1>1. /\ ctl'.pc = "idle"
      /\ \/ st' = st
         \/ /\ st'.phase = "recovery_required"
            /\ st'.desired = ctl.s.desired /\ st'.applied = ctl.s.applied
  BY FailEffects
<1>2. Distinct(st')
  BY <1>1 DEF CompleteInv, Distinct, PendingPhases
<1>3. journal.stage = "config_mutated" => MutatedKnown'
  BY <1>1 DEF CompleteInv, MutatedKnown, PairOf
<1> QED
  BY <1>1, <1>2, <1>3 DEF CompleteInv, WorkPCs

\* RepairNative puts the parked state back, beside no journal.
LEMMA CompleteRestore ==
  ASSUME TypeInv, CompleteInv, ctl.pc = "repair", st' = ctl.s, ctl'.pc = "idle",
         UNCHANGED journal
  PROVE  CompleteInv'
<1>1. journal.stage = "absent" /\ ctl.s.phase = "recovery_required"
  BY DEF CompleteInv, TypeInv, GoodCtl
<1> QED
  BY <1>1 DEF CompleteInv, Distinct, PendingPhases, WorkPCs

\* Request, SeedNativeParked, Cancel and RepairNative save one valid state and
\* touch neither the journal, which is absent, nor the Codex files.
LEMMA SaveEffects ==
  ASSUME TypeInv,
         \/ \E b \in Backends, intent \in BOOLEAN : Request(b, intent)
         \/ SeedNativeParked \/ Cancel \/ RepairNative
  PROVE  /\ ctl.pc = "idle" /\ journal.stage = "absent"
         /\ UNCHANGED <<journal, codex, relay, faults>>
         /\ \/ ValidState(st') /\ ctl' = ctl
            \/ ValidState(st') /\ ctl'.pc = "repair" /\ ctl'.s = st
            \/ st' = st /\ ctl'.pc = "first" /\ ValidState(ctl'.s)
<1>1. ASSUME NEW next, ValidState(next), SaveOrFirst(next)
      PROVE  \/ ValidState(st') /\ ctl' = ctl
             \/ st' = st /\ ctl'.pc = "first" /\ ValidState(ctl'.s)
  <2>1. [Idle EXCEPT !.pc = "first", !.s = next].pc = "first"
        /\ [Idle EXCEPT !.pc = "first", !.s = next].s = next
    BY DEF Idle
  <2> QED
    BY <1>1, <2>1, Zenon DEF SaveOrFirst
<1>2. CASE \E b \in Backends, intent \in BOOLEAN : Request(b, intent)
  <2> PICK b \in Backends, intent \in BOOLEAN : Request(b, intent)
    BY <1>2
  <2>1. \E next : ValidState(next) /\ SaveOrFirst(next)
    BY Zenon DEF Request, CanSave
  <2> QED
    BY <1>1, <2>1, Zenon DEF Request, CtlIdle
<1>3. CASE SeedNativeParked
  <2> DEFINE native == [gen |-> 1, desired |-> "none", applied |-> "none",
                        phase |-> "native_active", intent |-> FALSE]
  <2>1. ValidState(native)
    BY DEF ValidState, ShapeOfPhase
  <2> HIDE DEF native
  <2>2. SaveOrFirst(native)
    BY <1>3 DEF SeedNativeParked, native
  <2> QED
    BY <1>1, <1>3, <2>1, <2>2 DEF SeedNativeParked, CtlIdle
<1>4. CASE Cancel
  BY <1>4 DEF Cancel, CanSave, CtlIdle
<1>5. CASE RepairNative
  BY <1>5 DEF RepairNative, CtlIdle, Idle
<1> QED
  BY <1>2, <1>3, <1>4, <1>5

\* Apply takes a pending state into applying.
LEMMA ApplyEffects ==
  ASSUME TypeInv, Apply
  PROVE  /\ ctl.pc = "idle" /\ journal.stage = "absent" /\ st.phase \in PendingPhases
         /\ st \in States
         /\ UNCHANGED <<journal, codex, relay, faults>>
         /\ ctl'.pc = "journal" /\ ctl'.s = st' /\ ctl'.auth = TRUE
         /\ st'.phase = "applying" /\ st'.gen = st.gen + 1
         /\ st'.desired = st.desired /\ st'.applied = st.applied
<1> DEFINE mig == MigrationRequired(codex, st.desired, st.intent)
           a == [st EXCEPT !.phase = "applying", !.intent = mig, !.gen = st.gen + 1]
<1>1. st \in States
  BY DEF Apply, TypeInv, GoodState, NoState, PendingPhases
<1>2. a.phase = "applying" /\ a.gen = st.gen + 1 /\ a.desired = st.desired
      /\ a.applied = st.applied
  BY <1>1 DEF States
<1>3. st' = a /\ ctl' = [Idle EXCEPT !.pc = "journal", !.s = a, !.auth = TRUE, !.mig = mig]
  BY DEF Apply
<1> HIDE DEF a, mig
<1>4. ctl'.pc = "journal" /\ ctl'.s = a /\ ctl'.auth = TRUE
  BY <1>3 DEF Idle
<1> QED
  BY <1>1, <1>2, <1>3, <1>4 DEF Apply, CtlIdle

\* recoverObservedLocked replaces the state by one for the observed backend.
LEMMA ObservedEffects ==
  ASSUME TypeInv, RecoverObserved
  PROVE  /\ ctl.pc = "idle" /\ journal.stage \in {"absent", "corrupt"}
         /\ UNCHANGED <<journal, codex, relay, faults>>
         /\ ctl'.pc = "recover" /\ ctl'.s = st' /\ ctl'.auth = FALSE /\ ctl'.mig = FALSE
         /\ st'.phase = "recovery_required" /\ st'.intent = FALSE
         /\ st'.gen = IF st.gen >= 2 THEN st.gen + 1 ELSE 2
         /\ st'.desired \in Backends /\ Matches(codex, st'.desired)
<1> DEFINE target == InferBackend(codex)
           r == [gen |-> IF st.gen >= 2 THEN st.gen + 1 ELSE 2,
                 desired |-> target,
                 applied |-> ForcedRecoveryOrigin(target),
                 phase |-> "recovery_required", intent |-> FALSE]
<1>1. target \in Backends /\ Matches(codex, target)
  BY Labels DEF RecoverObserved, InferBackend, Matches, Backends, RelayBackends
<1>2. st' = r /\ ctl' = [Idle EXCEPT !.pc = "recover", !.s = r]
  BY DEF RecoverObserved
<1>3. r.desired = target /\ r.phase = "recovery_required" /\ r.intent = FALSE
      /\ r.gen = IF st.gen >= 2 THEN st.gen + 1 ELSE 2
  OBVIOUS
<1> HIDE DEF r, target
<1>4. ctl'.pc = "recover" /\ ctl'.s = r /\ ctl'.auth = FALSE /\ ctl'.mig = FALSE
  BY <1>2 DEF Idle
<1> QED
  BY <1>1, <1>2, <1>3, <1>4 DEF RecoverObserved, CtlIdle

\* Recover with a valid journal parks the state of the journal, unless one is
\* parked already, and carries its two backends in one order or the other.
LEMMA JournalEffects ==
  ASSUME TypeInv, NEW action \in {"complete", "rollback"}, NEW desktopExited \in BOOLEAN,
         RecoverFromJournal(action, desktopExited)
  PROVE  /\ ctl.pc = "idle" /\ JournalValid /\ JournalMatchesCurrentFiles
         /\ UNCHANGED <<journal, codex, relay, faults>>
         /\ st' = (IF st.phase = "recovery_required" THEN st ELSE RecoveryStateFromJournal)
         /\ st'.phase = "recovery_required" /\ st' \in States
         /\ \/ ctl' = ctl
            \/ /\ ctl'.pc = "recover" /\ ctl'.auth = journal.auth /\ ctl'.mig = journal.mig
               /\ ctl'.s.gen = st'.gen /\ ctl'.s.intent = st'.intent
               /\ ctl'.s.desired =
                    (IF action = "rollback" THEN journal.origin
                     ELSE IF st'.desired = "unknown" THEN journal.target ELSE st'.desired)
               /\ ctl'.s.applied =
                    (IF ctl'.s.desired = st'.applied THEN st'.desired ELSE st'.applied)
               /\ action = "rollback" => journal.auth
               /\ ctl'.s.desired \in Backends
<1> DEFINE s == IF st.phase = "recovery_required" THEN st ELSE RecoveryStateFromJournal
           target == IF action = "rollback" THEN journal.origin
                     ELSE IF s.desired = "unknown" THEN journal.target ELSE s.desired
           other == IF target = s.applied THEN s.desired ELSE s.applied
           carried == [s EXCEPT !.desired = target, !.applied = other]
<1>1. RecoveryStateFromJournal \in States
      /\ RecoveryStateFromJournal.phase = "recovery_required"
  <2>1. journal.gen + 1 \in Nat \ {0} /\ journal.target \in RecoveryBackends
        /\ journal.origin \in RecoveryBackends /\ journal.mig \in BOOLEAN
    BY DEF TypeInv, Journals
  <2> QED
    BY <2>1, NewState, Labels DEF RecoveryStateFromJournal
<1>2. s \in States /\ s.phase = "recovery_required"
  BY <1>1 DEF TypeInv, GoodState, NoState
<1>3. st' = s
  BY DEF RecoverFromJournal
<1>4. carried.gen = s.gen /\ carried.intent = s.intent /\ carried.desired = target
      /\ carried.applied = other
  BY <1>2 DEF States
<1>5. \/ ctl' = ctl
      \/ /\ ctl' = [Idle EXCEPT !.pc = "recover", !.s = carried, !.auth = journal.auth,
                                !.mig = journal.mig]
         /\ action = "rollback" => journal.auth
         /\ target \in Backends
  BY Zenon DEF RecoverFromJournal
<1>6. ctl.pc = "idle" /\ JournalValid /\ JournalMatchesCurrentFiles
      /\ UNCHANGED <<journal, codex, relay, faults>>
  BY DEF RecoverFromJournal, CtlIdle
<1> HIDE DEF carried
<1>7. \/ ctl' = ctl
      \/ /\ ctl'.pc = "recover" /\ ctl'.auth = journal.auth /\ ctl'.mig = journal.mig
         /\ ctl'.s = carried
         /\ action = "rollback" => journal.auth
         /\ target \in Backends
  BY <1>5, Zenon DEF Idle
<1>8. s = IF st.phase = "recovery_required" THEN st ELSE RecoveryStateFromJournal
  OBVIOUS
<1> HIDE DEF s
<1> QED
  BY <1>2, <1>3, <1>4, <1>6, <1>7, <1>8

\* A preflighted recovery enters applying, a refused one stays parked.
LEMMA RecoverApplyEffects ==
  ASSUME TypeInv, RecoverApply
  PROVE  /\ ctl.pc = "recover" /\ UNCHANGED <<marker, journal, codex, relay, faults>>
         /\ \/ st' = st /\ ctl' = Idle
            \/ /\ ctl'.pc = "journal" /\ ctl'.s = st' /\ ctl'.auth = ctl.auth
               /\ ctl'.mig = (ctl.mig \/ MigrationRequired(codex, ctl.s.desired, ctl.s.intent))
               /\ st'.phase = "applying" /\ st'.gen = ctl.s.gen + 1
               /\ st'.desired = ctl.s.desired /\ st'.applied = ctl.s.applied
               /\ ctl.s.applied \in Backends \ {ctl.s.desired}
               /\ Preflight(codex, ctl.s.desired, ctl.s.intent)
<1> DEFINE mig == ctl.mig \/ MigrationRequired(codex, ctl.s.desired, ctl.s.intent)
           a == [ctl.s EXCEPT !.phase = "applying", !.intent = mig, !.gen = ctl.s.gen + 1]
           next == [ctl EXCEPT !.pc = "journal", !.s = a, !.mig = mig]
<1>1. ctl.s \in States /\ ctl \in Ctls
  BY DEF RecoverApply, TypeInv, GoodCtl
<1>2. a.phase = "applying" /\ a.gen = ctl.s.gen + 1 /\ a.desired = ctl.s.desired
      /\ a.applied = ctl.s.applied
  BY <1>1 DEF States
<1>3. \/ st' = st /\ ctl' = Idle
      \/ /\ st' = a /\ ctl' = next
         /\ ctl.s.applied \in Backends \ {ctl.s.desired}
         /\ Preflight(codex, ctl.s.desired, ctl.s.intent)
  BY DEF RecoverApply
<1> HIDE DEF a
<1>4. next.pc = "journal" /\ next.s = a /\ next.auth = ctl.auth /\ next.mig = mig
  BY <1>1 DEF Ctls
<1> HIDE DEF next
<1> QED
  BY <1>2, <1>3, <1>4 DEF RecoverApply

\* The second journal names the switch relayctl carries and the files it wrote.
LEMMA JournalFields ==
  ASSUME NEW s, NEW auth, NEW mig, NEW stage
  PROVE  LET j == NewJournal(s, auth, mig, stage)
         IN  /\ j.stage = stage /\ j.gen = s.gen /\ j.target = s.desired
             /\ j.origin = s.applied /\ j.fp = codex /\ j.mig = mig
             /\ j.auth = (auth /\ ~mig)
BY DEF NewJournal

\* The final state is active.
LEMMA FinalFields ==
  ASSUME NEW s, s.desired \in Backends
  PROVE  /\ FinalState(s).gen = s.gen + 1
         /\ FinalState(s).desired = s.desired /\ FinalState(s).applied = s.desired
         /\ FinalState(s).phase \in ActivePhases
BY DEF FinalState, ActivePhases, ActivePhaseForBackend, Backends

\* SaveFinal saves the final state and carries it, or parks the switch.
LEMMA SaveFinalEffects ==
  ASSUME TypeInv, SaveFinal
  PROVE  /\ ctl.pc = "final" /\ UNCHANGED <<marker, journal, codex, relay, faults>>
         /\ \/ FailApplying(ctl.s)
            \/ /\ st' = FinalState(ctl.s) /\ ctl'.pc = "unlink" /\ ctl'.s = st'
               /\ ctl'.auth = ctl.auth /\ ctl'.mig = ctl.mig
               /\ ValidState(st')
<1>1. [ctl EXCEPT !.pc = "unlink", !.s = FinalState(ctl.s)].pc = "unlink"
      /\ [ctl EXCEPT !.pc = "unlink", !.s = FinalState(ctl.s)].s = FinalState(ctl.s)
      /\ [ctl EXCEPT !.pc = "unlink", !.s = FinalState(ctl.s)].auth = ctl.auth
      /\ [ctl EXCEPT !.pc = "unlink", !.s = FinalState(ctl.s)].mig = ctl.mig
  BY DEF TypeInv, GoodCtl, Ctls
<1> QED
  BY <1>1, Zenon DEF SaveFinal, CanSave

\* Each operation leaves a journal that can be completed.
LEMMA CompleteOperations ==
  ASSUME TypeInv, CompleteInv, Operations
  PROVE  CompleteInv'
<1>1. CASE \/ \E b \in Backends, intent \in BOOLEAN : Request(b, intent)
           \/ SeedNativeParked \/ Cancel \/ RepairNative
  <2>1. /\ ctl.pc = "idle" /\ journal.stage = "absent" /\ journal' = journal
        /\ \/ ValidState(st') /\ (ctl' = ctl \/ ctl'.pc = "repair")
           \/ st' = st /\ ctl'.pc = "first" /\ ValidState(ctl'.s)
    BY <1>1, SaveEffects
  <2>2. Distinct(st')
    BY <2>1, ValidDistinct DEF CompleteInv
  <2>3. ctl'.pc = "first" => Distinct(ctl'.s)
    BY <2>1, ValidDistinct
  <2> QED
    BY <2>1, <2>2, <2>3 DEF CompleteInv, WorkPCs
<1>2. CASE Apply
  <2>1. st'.applied \in Backends \ {st'.desired} /\ Distinct(st')
    BY <1>2, ApplyEffects, Zenon DEF CompleteInv, Distinct, PendingPhases
  <2> QED
    BY <1>2, <2>1, ApplyEffects DEF CompleteInv, WorkPCs
<1>3. CASE RecoverObserved
  <2>1. Distinct(st')
    BY <1>3, ObservedEffects DEF Distinct, PendingPhases
  <2> QED
    BY <1>3, <2>1, ObservedEffects DEF CompleteInv, WorkPCs
<1>4. ASSUME NEW action \in {"complete", "rollback"}, NEW desktopExited \in BOOLEAN,
             RecoverFromJournal(action, desktopExited)
      PROVE  CompleteInv'
  <2>1. Distinct(st')
    BY <1>4, JournalEffects DEF Distinct, PendingPhases
  <2>2. RecoveryStateFromJournal.desired = journal.target
        /\ RecoveryStateFromJournal.applied = journal.origin
    BY DEF RecoveryStateFromJournal
  <2>3. ASSUME journal.stage = "config_mutated"
        PROVE  MutatedKnown'
    <3>1. MutatedKnown
      BY <2>3 DEF CompleteInv
    <3>2. PairOf(st)'
      BY <1>4, <2>2, <3>1, JournalEffects DEF MutatedKnown, PairOf
    <3>3. ctl'.pc = "recover" => PairOf(ctl.s)'
      BY <1>4, <3>1, <3>2, JournalEffects, Labels, Zenon DEF MutatedKnown, PairOf, Backends, RelayBackends
    <3>4. ctl'.pc \in {"idle", "recover"} /\ UNCHANGED <<journal, codex>>
      BY <1>4, JournalEffects
    <3> QED
      BY <3>1, <3>2, <3>3, <3>4 DEF MutatedKnown, PairOf
  <2>4. ctl'.pc \in {"idle", "recover"} /\ UNCHANGED journal
    BY <1>4, JournalEffects
  <2> QED
    BY <2>1, <2>3, <2>4 DEF CompleteInv, WorkPCs
<1> QED
  BY <1>1, <1>2, <1>3, <1>4 DEF Operations

\* Between the two journals relayctl only moves on; the files may change.
LEMMA CompleteWork ==
  ASSUME CompleteInv, ctl.pc \in WorkPCs \ {"journal", "final"},
         ctl'.pc \in WorkPCs \ {"journal", "final"}, ctl'.s = ctl.s, UNCHANGED <<st, journal>>
  PROVE  CompleteInv'
BY DEF CompleteInv, Distinct, WorkPCs

\* The steps of the config writers keep what relayctl carries.
LEMMA ConfigEffects ==
  ASSUME TypeInv, ConfigMigrate \/ ConfigRoot \/ ConfigProfile
  PROVE  /\ ctl.pc \in {"config", "profile"} /\ ctl'.pc \in {"config", "profile", "mutated"}
         /\ ctl'.s = ctl.s /\ ctl'.auth = ctl.auth /\ ctl'.mig = ctl.mig
         /\ UNCHANGED <<marker, st, journal, relay, faults>>
         /\ ConfigMigrate => ctl'.pc = "config"
         /\ ConfigRoot => ctl.pc = "config" /\ ctl'.pc = "profile"
         /\ ConfigProfile => ctl.pc = "profile" /\ ctl'.pc = "mutated"
<1>1. ctl \in Ctls
  BY DEF TypeInv, GoodCtl
<1>2. CASE ConfigMigrate
  BY <1>1, <1>2, Zenon DEF ConfigMigrate, ConfigRoot, ConfigProfile, Ctls, MigratesNow, Matches,
                   MigrationRequired, PreflightEnable
<1>3. CASE ConfigRoot
  <2> DEFINE base == IF Migrated THEN "legacy" ELSE codex.root
  <2>1. ctl.pc = "config" /\ ctl' = [ctl EXCEPT !.pc = "profile", !.base = base]
        /\ UNCHANGED <<marker, st, journal, relay, faults>>
    BY <1>3 DEF ConfigRoot
  <2> HIDE DEF base
  <2>2. ctl'.pc = "profile" /\ ctl'.s = ctl.s /\ ctl'.auth = ctl.auth /\ ctl'.mig = ctl.mig
    BY <1>1, <2>1 DEF Ctls
  <2>3. ~ConfigProfile /\ ~ConfigMigrate
    <3>1. ~ConfigProfile
      BY <2>1 DEF ConfigProfile
    <3>2. ConfigMigrate => ctl'.pc = "config"
      BY <1>1, <2>1, Zenon DEF ConfigMigrate, Ctls
    <3> QED
      BY <3>1, <3>2, <2>2
  <2> QED
    BY <2>1, <2>2, <2>3
<1>4. CASE ConfigProfile
  <2>1. ctl.pc = "profile" /\ ctl' = [ctl EXCEPT !.pc = "mutated", !.base = "none"]
        /\ UNCHANGED <<marker, st, journal, relay, faults>>
    BY <1>4 DEF ConfigProfile
  <2>2. ctl'.pc = "mutated" /\ ctl'.s = ctl.s /\ ctl'.auth = ctl.auth /\ ctl'.mig = ctl.mig
    BY <1>1, <2>1 DEF Ctls
  <2>3. ~ConfigRoot /\ ~ConfigMigrate
    BY <2>1 DEF ConfigRoot, ConfigMigrate
  <2> QED
    BY <2>1, <2>2, <2>3
<1> QED
  BY <1>2, <1>3, <1>4

\* Each step of relayctl keeps what a completion rests on.
LEMMA CompleteController ==
  ASSUME TypeInv, SwitchInv, CompleteInv, ControllerStep
  PROVE  CompleteInv'
<1>1. CASE FirstStateWrite
  BY <1>1, IdleFields DEF FirstStateWrite, CompleteInv, WorkPCs, Distinct
<1>2. CASE RecoverApply
  <2>1. CASE st' = st /\ ctl' = Idle
    BY <1>2, <2>1, IdleFields, CompleteIdle, RecoverApplyEffects, Zenon
  <2>2. CASE ctl' # Idle \/ st' # st
    <3>1. /\ ctl.pc = "recover" /\ UNCHANGED <<journal, codex>>
          /\ ctl'.pc = "journal" /\ ctl'.s = st' /\ st'.phase = "applying"
          /\ st'.desired = ctl.s.desired /\ st'.applied = ctl.s.applied
          /\ ctl.s.applied \in Backends \ {ctl.s.desired}
      BY <1>2, <2>2, RecoverApplyEffects, Zenon
    <3>2. Distinct(st)'
      BY <3>1 DEF Distinct, PendingPhases
    <3>3. journal.stage = "config_mutated" => MutatedKnown'
      BY <3>1, Zenon DEF CompleteInv, MutatedKnown, PairOf
    <3> QED
      BY <3>1, <3>2, <3>3 DEF CompleteInv, WorkPCs
  <2> QED
    BY <2>1, <2>2
<1>3. CASE WriteJournal
  <2>1. journal'.stage = "prepared"
    BY <1>3, JournalFields DEF WriteJournal
  <2>2. ctl.pc = "journal" /\ ctl'.pc = "park" /\ ctl'.s = ctl.s /\ st' = st
    BY <1>3, CtlMoves DEF WriteJournal
  <2> QED
    BY <2>1, <2>2 DEF CompleteInv, WorkPCs, Distinct
<1>4. CASE HealthSnapshot \/ HealthCatalog \/ HealthActive \/ HealthInteractive
           \/ ControlAuthorized \/ ConfigUnchanged
  <2>1. \E from \in WorkPCs \ {"journal", "final"}, to \in WorkPCs \ {"journal", "final"} :
          CtlStep(from, to)
    BY <1>4 DEF HealthSnapshot, HealthCatalog, HealthActive, HealthInteractive,
                ControlAuthorized, ConfigUnchanged, WorkPCs
  <2>2. UNCHANGED <<st, journal>>
    BY <1>4 DEF HealthSnapshot, HealthCatalog, HealthActive, HealthInteractive,
                ControlAuthorized, ConfigUnchanged, durable
  <2> QED
    BY <2>1, <2>2, CtlMoves, CompleteWork
<1>5. CASE ControlRefused \/ ControlDisconnected
  BY <1>5, CompleteFail, Zenon DEF ControlRefused, ControlDisconnected, CompleteInv, WorkPCs
<1>6. CASE ConfigMigrate \/ ConfigRoot \/ ConfigProfile
  BY <1>6, ConfigEffects, CompleteWork DEF WorkPCs
<1>7. CASE ConfigRefused
  <2>1. ctl.pc = "config" /\ FailApplying(ctl.s) /\ UNCHANGED journal
    BY <1>7 DEF ConfigRefused
  <2>2. journal.stage # "config_mutated"
    BY <2>1 DEF CompleteInv, WorkPCs
  <2> QED
    BY <2>1, <2>2, CompleteFail
<1>8. CASE WriteMutatedJournal
  <2>1. ctl.pc = "mutated" /\ ctl'.pc = "final" /\ ctl'.s = ctl.s /\ UNCHANGED <<st, codex>>
    BY <1>8, CtlMoves DEF WriteMutatedJournal
  <2>2. /\ journal'.stage = "config_mutated" /\ journal'.target = ctl.s.desired
        /\ journal'.origin = ctl.s.applied /\ journal'.fp = codex
    <3>1. journal' = NewJournal(ctl.s, ctl.auth, ctl.mig, "config_mutated")
      BY <1>8, Zenon DEF WriteMutatedJournal
    <3> QED
      BY <3>1, JournalFields
  <2>3. ctl.s.desired \in Backends
    BY <2>1 DEF TypeInv, GoodCtl, WorkPCs
  <2>4. codex.rev = 0 => Matches(codex, ctl.s.desired)
    BY <2>1, Zenon DEF SwitchInv, FilesKnown
  <2>5. ctl.s.applied \in Backends \ {ctl.s.desired} /\ st.phase # "recovery_required"
    BY <2>1 DEF CompleteInv, WorkPCs
  <2>6. MutatedKnown'
    BY <2>1, <2>2, <2>3, <2>4, <2>5, Zenon DEF MutatedKnown, PairOf, Matches
  <2> QED
    BY <2>1, <2>2, <2>6, Zenon DEF CompleteInv, WorkPCs, Distinct
<1>9. CASE SaveFinal
  <2>1. CASE FailApplying(ctl.s)
    BY <1>9, <2>1, SaveFinalEffects, CompleteFail
  <2>2. CASE ~FailApplying(ctl.s)
    <3>1. /\ st' = FinalState(ctl.s) /\ ctl'.pc = "unlink" /\ UNCHANGED <<journal, codex>>
      BY <1>9, <2>2, SaveFinalEffects, Zenon
    <3>2. ctl.s.desired \in Backends
      BY <1>9 DEF TypeInv, GoodCtl, WorkPCs, SaveFinal
    <3>3. st'.phase \in ActivePhases
      BY <3>1, <3>2, FinalFields
    <3>4. Distinct(st)' /\ st'.phase # "recovery_required"
      BY <3>3 DEF Distinct, ActivePhases, PendingPhases
    <3> QED
      BY <3>1, <3>4, Zenon DEF CompleteInv, WorkPCs, MutatedKnown
  <2> QED
    BY <2>1, <2>2
<1>10. CASE RemoveJournal
  <2>1. journal'.stage = "absent" /\ ctl'.pc = "finalize" /\ st' = st
    BY <1>10, CtlMoves DEF RemoveJournal, NoJournal
  <2> QED
    BY <2>1, Zenon DEF CompleteInv, WorkPCs, Distinct
<1>11. CASE Finalized
  <2>1. ctl.pc = "finalize" /\ ctl'.pc = "done" /\ UNCHANGED <<st, journal, codex>>
    BY <1>11, CtlMoves DEF Finalized, durable
  <2> QED
    BY <2>1 DEF CompleteInv, WorkPCs, Distinct
<1>12. CASE Return \/ RepairVerified
  BY <1>12, IdleFields, CompleteIdle DEF Return, RepairVerified, durable
<1>13. CASE RepairRestored
  BY <1>13, CompleteRestore, IdleFields DEF RepairRestored
<1> QED
  BY <1>1, <1>2, <1>3, <1>4, <1>5, <1>6, <1>7, <1>8, <1>9, <1>10, <1>11, <1>12, <1>13
     DEF ControllerStep

\* The relay writes no file; a committed swap lets the waiting relayctl go on.
LEMMA RelayEffects ==
  ASSUME TypeInv,
         \/ RelayStart \/ WatcherStep \/ SwapStep \/ CatalogLoop \/ CatalogStops
         \/ \E r \in Requests : ReqEnter(r) \/ RequestStep(r)
  PROVE  /\ UNCHANGED durable
         /\ \/ ctl' = ctl
            \/ /\ CommitSwap /\ ctl.pc = "swap" /\ Handler = slot.h
               /\ ctl'.pc = "config" /\ ctl'.s = ctl.s
               /\ ctl'.auth = ctl.auth /\ ctl'.mig = ctl.mig
<1>1. CASE CommitSwap /\ Waiting(slot.h)
  BY <1>1 DEF CommitSwap, Waiting, TypeInv, GoodCtl, Ctls
<1>2. CASE CommitSwap /\ ~Waiting(slot.h)
  BY <1>2 DEF CommitSwap
<1>3. CASE RelayStart \/ WatcherStep \/ \E h \in handlers : BeginSwap(h)
  BY <1>3, Zenon DEF RelayStart, WatcherStep, WatchReadState, WatchReadJournal,
              WatchCheckDrift, WatchPublish, BeginSwap
<1>4. CASE CatalogLoop \/ CatalogStops
  BY <1>4 DEF CatalogLoop, CatalogGate, CatalogRunning, CatalogTick, CatalogRefresh,
              CatalogRefreshed, CatalogStops, Catalog
<1>5. ASSUME NEW r \in Requests, ReqEnter(r) \/ RequestStep(r)
      PROVE  UNCHANGED <<durable, ctl>>
  BY <1>5 DEF ReqEnter, RequestStep, ReqBegin, ReqAdmit, ReqFinish, ReqStep
<1> QED
  BY <1>1, <1>2, <1>3, <1>4, <1>5 DEF SwapStep

\* The positions at which relayctl can fail with failApplyingLocked.
FailPCs == {"journal", "park", "park_catalog", "park_active", "park_interactive",
            "control", "swap", "config", "profile", "mutated", "final", "finalize"}

\* What a fault does to the files and to relayctl.
FaultEffect ==
  \/ /\ ctl.pc \in FailPCs /\ FailApplying(ctl.s) /\ UNCHANGED <<marker, journal>>
     /\ \/ codex' = codex
        \/ /\ ctl.pc \in {"config", "profile"}
           /\ codex'.rev = codex.rev /\ codex'.inter = codex.inter
           /\ codex'.root = codex.root \/ ctl.pc = "profile" \/ Migrated
  \/ ctl.pc # "idle" /\ ctl' = Idle /\ UNCHANGED durable
  \/ /\ RepairFails /\ ctl.pc = "repair" /\ st' = ctl.s /\ ctl' = Idle
     /\ UNCHANGED <<marker, journal, codex>>
  \/ UNCHANGED <<durable, ctl>>
  \/ codex'.rev # 0 /\ UNCHANGED <<marker, st, journal, ctl>>
  \/ LoseState /\ st' = NoState /\ UNCHANGED <<marker, journal, codex, ctl>>
  \/ /\ journal.stage # "absent" /\ journal'.stage \in {"absent", "corrupt"}
     /\ UNCHANGED <<marker, st, codex, ctl>>

\* Every fault has one of these effects.
LEMMA FaultEffects ==
  ASSUME TypeInv, Faults
  PROVE  FaultEffect
<1> USE DEF FaultEffect
<1>1. CASE AckTimeout \/ WriteFails
  BY <1>1 DEF AckTimeout, WriteFails, FailPCs
<1>2. CASE PreflightFails \/ UnlinkFails \/ Crash
  BY <1>2 DEF PreflightFails, UnlinkFails, Crash
<1>3. CASE ConfigWriteFails
  <2>1. PICK root \in {codex.root} \cup (IF ctl.pc = "profile" THEN {ctl.base} ELSE {})
                              \cup (IF Migrated THEN {"none", "legacy"} ELSE {}) :
               codex' = [codex EXCEPT !.root = root]
    BY <1>3 DEF ConfigWriteFails
  <2>2. codex'.rev = codex.rev /\ codex'.root = root /\ codex'.inter = codex.inter
    BY <2>1 DEF TypeInv, Artifacts
  <2>3. root = codex.root \/ ctl.pc = "profile" \/ Migrated
    BY <2>1
  <2> QED
    BY <1>3, <2>2, <2>3 DEF ConfigWriteFails, FailPCs
<1>4. CASE RelayCrash
  BY <1>4 DEF RelayCrash
<1>5. CASE DrainFails
  BY <1>5 DEF DrainFails, Waiting, FailPCs, durable
<1>6. ASSUME NEW h \in handlers, CandidateFails(h)
      PROVE  FaultEffect
  BY <1>6 DEF CandidateFails, Waiting, FailPCs, durable
<1>7. CASE EditArtifacts
  BY <1>7 DEF EditArtifacts, TypeInv, Artifacts
<1>8. CASE LoseState
  BY <1>8 DEF LoseState
<1>9. CASE DamageJournal
  BY <1>9 DEF DamageJournal, NoJournal, CorruptJournal
<1>10. CASE RepairFails
  BY <1>10, Zenon DEF RepairFails, durable
<1> QED
  BY <1>1, <1>2, <1>3, <1>4, <1>5, <1>6, <1>7, <1>8, <1>9, <1>10, Zenon DEF Faults

\* CompleteInv is inductive relative to TypeInv and SwitchInv.
LEMMA CompleteStep ==
  TypeInv /\ SwitchInv /\ CompleteInv /\ [Next]_vars => CompleteInv'
<1> SUFFICES ASSUME TypeInv, SwitchInv, CompleteInv, [Next]_vars PROVE CompleteInv'
  OBVIOUS
<1>1. CASE UNCHANGED vars
  BY <1>1, CompleteFrame DEF vars
<1>2. CASE \/ RelayStart \/ WatcherStep \/ SwapStep \/ CatalogLoop \/ CatalogStops
           \/ \E r \in Requests : ReqEnter(r) \/ RequestStep(r)
  BY <1>2, RelayEffects, CompleteFrame, CompleteWork DEF durable, WorkPCs
<1>3. CASE Faults
  <2>0. FaultEffect
    BY <1>3, FaultEffects
  <2>1. CASE /\ ctl.pc \in FailPCs /\ FailApplying(ctl.s) /\ UNCHANGED <<marker, journal>>
             /\ codex' = codex \/ ctl.pc \in {"config", "profile"}
    <3>1. journal.stage = "config_mutated" => ctl.pc \in {"recover", "journal", "final"}
      BY <2>1, Zenon DEF CompleteInv, WorkPCs, FailPCs
    <3> QED
      BY <2>1, <3>1, CompleteFail DEF FailPCs
  <2>2. CASE ctl.pc # "idle" /\ ctl' = Idle /\ UNCHANGED durable
    BY <2>2, CompleteIdle, IdleFields DEF durable
  <2>3. CASE UNCHANGED <<durable, ctl>>
    BY <2>3, CompleteFrame DEF durable
  <2>4. CASE codex'.rev # 0 /\ UNCHANGED <<marker, st, journal, ctl>>
    BY <2>4, Zenon DEF CompleteInv, MutatedKnown, PairOf, Distinct
  <2>5. CASE st' = NoState /\ UNCHANGED <<marker, journal, codex, ctl>>
    <3>1. NoState.phase = "absent"
      BY DEF NoState
    <3> QED
      BY <2>5, <3>1, Zenon DEF CompleteInv, MutatedKnown, PairOf, Distinct, PendingPhases
  <2>6. CASE /\ journal.stage # "absent" /\ journal'.stage \in {"absent", "corrupt"}
             /\ UNCHANGED <<marker, st, codex, ctl>>
    BY <2>6, Zenon DEF CompleteInv, Distinct
  <2>7. CASE ctl.pc = "repair" /\ st' = ctl.s /\ ctl' = Idle /\ UNCHANGED <<marker, journal, codex>>
    BY <2>7, CompleteRestore, IdleFields
  <2> QED
    BY <2>0, <2>1, <2>2, <2>3, <2>4, <2>5, <2>6, <2>7, Zenon DEF FaultEffect
<1> QED
  BY <1>1, <1>2, <1>3, CompleteOperations, CompleteController DEF Next

\* Once the mutated config is journalled, `mode recover` can complete the switch:
\* whatever was lost, damaged, crashed or retried in between, the journal matches
\* the files, the two backends it names differ and the preflight passes, unless
\* somebody else edited the Codex files (controller.go: "`mode recover` can
\* reconcile them").
THEOREM CompletionAlways == Spec => []MutatedJournalCompletes
<1>1. CompleteInv => MutatedJournalCompletes
  <2> SUFFICES ASSUME CompleteInv, journal.stage = "config_mutated", codex.rev = 0
               PROVE  CanComplete
    BY DEF MutatedJournalCompletes
  <2> DEFINE s == IF st.phase = "recovery_required" THEN st ELSE RecoveryStateFromJournal
             target == IF s.desired = "unknown" THEN journal.target ELSE s.desired
             origin == IF target = s.applied THEN s.desired ELSE s.applied
  <2>1. MutatedKnown
    BY DEF CompleteInv
  <2>2. PairOf(s)
    BY <2>1, Zenon DEF MutatedKnown, RecoveryStateFromJournal, PairOf
  <2>3. target \in Backends /\ origin \in Backends \ {target}
    BY <2>1, <2>2, Zenon DEF MutatedKnown, PairOf, Backends, RelayBackends
  <2>4. codex.root \in Backends /\ codex.inter = codex.root
    BY <2>1 DEF MutatedKnown, Matches
  <2>5. Preflight(codex, target, s.intent)
    BY <2>3, <2>4, Zenon DEF Preflight, PreflightNative, PreflightEnable, ManagedRoot,
                      ManagedProfile, Backends, RelayBackends
  <2>6. JournalMatchesCurrentFiles
    BY <2>1 DEF MutatedKnown, JournalMatchesCurrentFiles
  <2> QED
    BY <2>3, <2>5, <2>6, Zenon DEF CanComplete
<1> QED
  BY <1>1, TypeInvAlways, SwitchInit, SwitchStep, CompleteInit, CompleteStep, PTL DEF Spec

-----------------------------------------------------------------------------
(* A recovery without a trusted origin changes no Codex file.              *)

\* Neither an authorised origin nor a migration: what recoverObservedLocked
\* starts, and what a journal written by it says.
Blind(x) == ~x.auth /\ ~x.mig

Carries == WorkPCs \cup {"recover"}

\* While nobody else edited them, the files already are what a blind recovery,
\* or the completion of its journal, would write.
BlindKnown ==
  /\ Blind(ctl) /\ ctl.pc \in Carries =>
       ctl.pc # "profile" /\ Matches(codex, ctl.s.desired)
  /\ Blind(journal) /\ JournalValid =>
       /\ Matches(codex, journal.target)
       /\ st.phase = "recovery_required" => st.desired = journal.target
       /\ ctl.pc \in Carries => ctl.s.desired = journal.target

ObservedInv ==
  /\ ctl.pc \in Carries \ {"profile"} /\ Migrated => ctl.mig
  /\ ctl.pc \in WorkPCs \ {"journal"} /\ JournalValid => (Blind(journal) <=> Blind(ctl))
  /\ codex.rev = 0 => BlindKnown

\* There is no journal at first.
LEMMA ObservedInit == Init => ObservedInv
<1> SUFFICES ASSUME Init PROVE ObservedInv
  OBVIOUS
<1>1. ctl.pc = "idle" /\ journal.stage = "absent"
  BY IdleFields, Zenon DEF Init, NoJournal
<1> QED
  BY <1>1, Zenon DEF ObservedInv, BlindKnown, JournalValid, Carries, WorkPCs

\* A step that leaves the files, the journal and relayctl alone.
LEMMA ObservedFrame ==
  ASSUME ObservedInv, UNCHANGED <<st, journal, codex, ctl>>
  PROVE  ObservedInv'
BY Zenon DEF ObservedInv, BlindKnown, Blind, JournalValid, Migrated

\* relayctl is idle and the journal invalid: nothing is left to show.
LEMMA ObservedNoJournal ==
  ASSUME ctl'.pc \notin Carries, ~JournalValid'
  PROVE  ObservedInv'
BY DEF ObservedInv, BlindKnown, Carries

\* relayctl ends and leaves files and journal alone.
LEMMA ObservedIdle ==
  ASSUME ObservedInv, UNCHANGED <<st, journal, codex>>, ctl'.pc \notin Carries
  PROVE  ObservedInv'
BY Zenon DEF ObservedInv, BlindKnown, Blind, JournalValid, Carries

\* failApplyingLocked parks the target of the journal, and where it follows a
\* failed write of a Codex file, the journal is not a blind one.
LEMMA ObservedFail ==
  ASSUME TypeInv, CompleteInv, ObservedInv, ctl.pc \in FailPCs, FailApplying(ctl.s),
         UNCHANGED journal, codex'.rev = codex.rev,
         codex' = codex \/ (ctl.pc \in {"config", "profile"} /\ (codex.rev = 0 => ~Blind(ctl)))
  PROVE  ObservedInv'
<1>1. /\ ctl'.pc = "idle"
      /\ \/ st' = st
         \/ st'.phase = "recovery_required" /\ st'.desired = ctl.s.desired
  BY FailEffects DEF FailPCs
<1>2. JournalValid => ctl.pc \in Carries
  BY Zenon DEF FailPCs, Carries, WorkPCs, CompleteInv, JournalValid
<1>3. ASSUME codex'.rev = 0, Blind(journal), JournalValid
      PROVE  Matches(codex', journal.target)
             /\ (st'.phase = "recovery_required" => st'.desired = journal.target)
  <2>1. codex' = codex
    BY <1>3 DEF ObservedInv, WorkPCs
  <2> QED
    BY <1>1, <1>2, <1>3, <2>1, Zenon DEF ObservedInv, BlindKnown
<1>4. BlindKnown' \/ codex'.rev # 0
  BY <1>1, <1>3, Zenon DEF BlindKnown, Carries, WorkPCs, Blind, JournalValid
<1> QED
  BY <1>1, <1>4 DEF ObservedInv, Carries, WorkPCs

\* Each operation keeps what a blind recovery knows.
LEMMA ObservedOperations ==
  ASSUME TypeInv, CompleteInv, ObservedInv, Operations
  PROVE  ObservedInv'
<1>1. CASE \/ \E b \in Backends, intent \in BOOLEAN : Request(b, intent)
           \/ SeedNativeParked \/ Cancel \/ RepairNative
  BY <1>1, SaveEffects, ObservedNoJournal DEF Carries, WorkPCs, JournalValid
<1>2. CASE Apply
  <2>1. /\ ctl'.pc = "journal" /\ ctl'.auth = TRUE /\ journal'.stage = "absent"
        /\ ctl'.base = "none"
    BY <1>2, ApplyEffects DEF Apply, Idle
  <2> QED
    BY <2>1, Zenon DEF ObservedInv, BlindKnown, Blind, JournalValid, Migrated
<1>3. CASE RecoverObserved
  <2>1. /\ ctl'.pc = "recover" /\ ctl'.s = st' /\ ctl'.base = "none"
        /\ journal'.stage \in {"absent", "corrupt"}
        /\ codex' = codex /\ Matches(codex, st'.desired)
    BY <1>3, ObservedEffects DEF RecoverObserved, Idle
  <2> QED
    BY <2>1, Zenon DEF ObservedInv, BlindKnown, Blind, JournalValid, Migrated, WorkPCs, Carries
<1>4. ASSUME NEW action \in {"complete", "rollback"}, NEW desktopExited \in BOOLEAN,
             RecoverFromJournal(action, desktopExited)
      PROVE  ObservedInv'
  <2>1. UNCHANGED <<journal, codex>> /\ JournalValid
    BY <1>4, JournalEffects, Zenon
  <2>2. RecoveryStateFromJournal.desired = journal.target
    BY DEF RecoveryStateFromJournal
  <2>3. Blind(journal) /\ codex.rev = 0 => st'.desired = journal.target
    BY <1>4, <2>1, <2>2, JournalEffects, Zenon DEF ObservedInv, BlindKnown
  <2>4. CASE ctl' = ctl
    <3>1. ctl'.pc \notin Carries
      BY <1>4, <2>4, JournalEffects DEF Carries, WorkPCs
    <3> QED
      BY <2>1, <2>3, <3>1, Zenon DEF ObservedInv, BlindKnown, Blind, JournalValid, Carries
  <2>5. CASE ctl' # ctl
    <3>1. ctl'.pc = "recover" /\ ctl'.auth = journal.auth /\ ctl'.mig = journal.mig
      BY <1>4, <2>5, JournalEffects
    <3>2. ctl'.base = "none"
      BY <1>4, <2>5 DEF RecoverFromJournal, Idle
    <3>3. Blind(journal) /\ codex.rev = 0 => ctl'.s.desired = journal.target
      BY <1>4, <2>3, <2>5, JournalEffects DEF Blind
    <3>4. codex.rev = 0 => BlindKnown'
      BY <2>1, <2>3, <3>1, <3>3, Zenon DEF ObservedInv, BlindKnown, Blind, JournalValid
    <3> QED
      BY <2>1, <3>1, <3>2, <3>4 DEF ObservedInv, Migrated, WorkPCs
  <2> QED
    BY <2>4, <2>5
<1> QED
  BY <1>1, <1>2, <1>3, <1>4 DEF Operations

\* relayctl moves on and changes nothing else.
LEMMA ObservedMove ==
  ASSUME TypeInv, ObservedInv,
         NEW from \in WorkPCs \ {"journal", "profile"},
         NEW to \in WorkPCs \ {"journal", "profile"},
         CtlStep(from, to), UNCHANGED <<st, journal, codex>>
  PROVE  ObservedInv'
<1>1. ctl.pc = from /\ ctl'.pc = to /\ ctl'.s = ctl.s /\ ctl'.auth = ctl.auth
      /\ ctl'.mig = ctl.mig /\ ctl'.base = ctl.base
  BY CtlMoves
<1> QED
  BY <1>1, Zenon DEF ObservedInv, BlindKnown, Blind, JournalValid, Migrated, Carries

\* A new journal is blind when relayctl is, and names the target it carries.
LEMMA ObservedJournal ==
  ASSUME TypeInv, CompleteInv, ObservedInv,
         NEW from \in {"journal", "mutated"}, NEW to \in {"park", "final"}, NEW stage,
         CtlStep(from, to), UNCHANGED <<st, codex>>,
         journal' = NewJournal(ctl.s, ctl.auth, ctl.mig, stage)
  PROVE  ObservedInv'
<1>1. ctl.pc = from /\ ctl'.pc = to /\ ctl'.s = ctl.s /\ ctl'.auth = ctl.auth
      /\ ctl'.mig = ctl.mig /\ ctl'.base = ctl.base
  BY CtlMoves
<1>2. journal'.target = ctl.s.desired /\ journal'.mig = ctl.mig
      /\ journal'.auth = (ctl.auth /\ ~ctl.mig)
  BY DEF NewJournal
<1>3. (Blind(journal)' <=> Blind(ctl)) /\ (Blind(ctl)' <=> Blind(ctl))
  BY <1>1, <1>2, Zenon DEF Blind
<1>4. st.phase # "recovery_required"
  BY <1>1, Zenon DEF CompleteInv, WorkPCs
<1>5. codex.rev = 0 /\ Blind(ctl) => Matches(codex, ctl.s.desired)
  BY <1>1, Zenon DEF ObservedInv, BlindKnown, Carries, WorkPCs
<1>6. codex.rev = 0 => BlindKnown'
  BY <1>1, <1>2, <1>3, <1>4, <1>5, Zenon DEF BlindKnown
<1>7. ctl.pc \in Carries \ {"profile"}
  BY <1>1 DEF Carries, WorkPCs
<1> QED
  BY <1>1, <1>3, <1>6, <1>7 DEF ObservedInv, Migrated

\* Each step of relayctl keeps what a blind recovery knows.
LEMMA ObservedController ==
  ASSUME TypeInv, CompleteInv, ObservedInv, ControllerStep
  PROVE  ObservedInv'
<1>1. CASE FirstStateWrite
  <2>1. ctl'.pc = "idle" /\ journal'.stage = "absent"
    BY <1>1, IdleFields DEF FirstStateWrite, CompleteInv
  <2> QED
    BY <2>1, ObservedNoJournal DEF JournalValid, Carries, WorkPCs
<1>2. CASE RecoverApply
  <2>1. CASE st' = st /\ ctl' = Idle
    BY <1>2, <2>1, IdleFields, ObservedIdle, RecoverApplyEffects, Zenon DEF Carries, WorkPCs
  <2>2. CASE ctl' # Idle \/ st' # st
    <3>1. /\ ctl.pc = "recover" /\ UNCHANGED <<journal, codex>>
          /\ ctl'.pc = "journal" /\ ctl'.s = st' /\ st'.phase = "applying"
          /\ st'.desired = ctl.s.desired /\ ctl'.auth = ctl.auth
          /\ ctl.mig => ctl'.mig
      BY <1>2, <2>2, RecoverApplyEffects, Zenon
    <3>2. ctl'.base = ctl.base
      BY <1>2, <2>2 DEF RecoverApply, TypeInv, GoodCtl, Ctls
    <3>3. codex.rev = 0 => BlindKnown'
      BY <3>1, Zenon DEF ObservedInv, BlindKnown, Blind, JournalValid, Carries
    <3> QED
      BY <3>1, <3>2, <3>3 DEF ObservedInv, Migrated, Carries
  <2> QED
    BY <2>1, <2>2
<1>3. CASE WriteJournal
  BY <1>3, ObservedJournal DEF WriteJournal
<1>4. CASE HealthSnapshot \/ HealthCatalog \/ HealthActive \/ HealthInteractive
           \/ ControlAuthorized \/ ConfigUnchanged
  <2>1. \E from \in WorkPCs \ {"journal", "profile"}, to \in WorkPCs \ {"journal", "profile"} :
          CtlStep(from, to)
    BY <1>4 DEF HealthSnapshot, HealthCatalog, HealthActive, HealthInteractive,
                ControlAuthorized, ConfigUnchanged, WorkPCs
  <2>2. UNCHANGED <<st, journal, codex>>
    BY <1>4 DEF HealthSnapshot, HealthCatalog, HealthActive, HealthInteractive,
                ControlAuthorized, ConfigUnchanged, durable
  <2> QED
    BY <2>1, <2>2, ObservedMove
<1>5. CASE ControlRefused \/ ControlDisconnected
  BY <1>5, ObservedFail DEF ControlRefused, ControlDisconnected, FailPCs
<1>6. CASE ConfigMigrate \/ ConfigRoot \/ ConfigProfile
  <2>1. /\ ctl.pc \in {"config", "profile"} /\ ctl'.pc \in {"config", "profile", "mutated"}
        /\ ctl'.s = ctl.s /\ ctl'.auth = ctl.auth /\ ctl'.mig = ctl.mig
        /\ UNCHANGED <<st, journal>>
        /\ ConfigMigrate => ctl'.pc = "config"
        /\ ConfigRoot => ctl.pc = "config" /\ ctl'.pc = "profile"
        /\ ConfigProfile => ctl.pc = "profile" /\ ctl'.pc = "mutated"
    BY <1>6, ConfigEffects
  <2>2. codex'.rev = codex.rev
    BY <1>6 DEF ConfigMigrate, ConfigRoot, ConfigProfile, TypeInv, Artifacts
  <2>3. codex.rev = 0 => ~Blind(ctl)
    BY <1>6, <2>1, Zenon DEF ConfigMigrate, MigratesNow, ConfigRoot, Blind, ObservedInv, BlindKnown,
                      Carries, WorkPCs
  <2>4. ctl'.pc \in Carries \ {"profile"} /\ Migrated' => ctl'.mig
    <3>1. CASE ConfigMigrate
      BY <3>1, <2>1 DEF ConfigMigrate, MigratesNow
    <3>2. CASE ConfigRoot
      BY <3>2, <2>1
    <3>3. CASE ConfigProfile
      <4>1. ctl'.base = "none"
        BY <3>3 DEF ConfigProfile, TypeInv, GoodCtl, Ctls
      <4> QED
        BY <4>1 DEF Migrated
    <3> QED
      BY <1>6, <3>1, <3>2, <3>3
  <2>5. /\ Blind(ctl)' <=> Blind(ctl)
        /\ JournalValid' <=> JournalValid
        /\ Blind(journal)' <=> Blind(journal)
    BY <2>1 DEF Blind, JournalValid
  <2>6. JournalValid => (Blind(journal) <=> Blind(ctl))
    BY <2>1 DEF ObservedInv, WorkPCs
  <2>7. codex'.rev = 0 => BlindKnown'
    BY <2>2, <2>3, <2>5, <2>6 DEF BlindKnown
  <2> QED
    BY <2>4, <2>5, <2>6, <2>7 DEF ObservedInv
<1>7. CASE ConfigRefused
  <2>1. ctl.pc = "config" /\ FailApplying(ctl.s) /\ UNCHANGED journal
        /\ ~Matches(codex, ctl.s.desired)
    BY <1>7 DEF ConfigRefused
  <2>2. codex'.rev = codex.rev
    BY <1>7 DEF ConfigRefused, TypeInv, Artifacts
  <2>3. codex.rev = 0 => ~Blind(ctl)
    BY <2>1, Zenon DEF ObservedInv, BlindKnown, Carries, WorkPCs
  <2> QED
    BY <2>1, <2>2, <2>3, ObservedFail DEF FailPCs
<1>8. CASE WriteMutatedJournal
  BY <1>8, ObservedJournal DEF WriteMutatedJournal
<1>9. CASE SaveFinal
  <2>1. CASE FailApplying(ctl.s)
    BY <1>9, <2>1, SaveFinalEffects, ObservedFail DEF FailPCs
  <2>2. CASE ~FailApplying(ctl.s)
    <3>1. /\ st' = FinalState(ctl.s) /\ ctl'.pc = "unlink" /\ UNCHANGED <<journal, codex>>
      BY <1>9, <2>2, SaveFinalEffects
    <3>2. ctl.s.desired \in Backends
      BY <1>9 DEF TypeInv, GoodCtl, WorkPCs, SaveFinal
    <3>3. st'.phase # "recovery_required"
      BY <3>1, <3>2, FinalFields, Zenon DEF ActivePhases
    <3> QED
      BY <3>1, <3>3, Zenon DEF ObservedInv, BlindKnown, Blind, JournalValid, Carries, WorkPCs
  <2> QED
    BY <2>1, <2>2
<1>10. CASE RemoveJournal
  <2>1. journal'.stage = "absent" /\ ctl'.pc = "finalize"
    BY <1>10, CtlMoves, Zenon DEF RemoveJournal, NoJournal
  <2> QED
    BY <2>1, ObservedNoJournal DEF JournalValid, Carries, WorkPCs
<1>11. CASE Finalized \/ Return \/ RepairVerified
  <2>1. ctl'.pc \in {"idle", "done"} /\ UNCHANGED <<st, journal, codex>>
    BY <1>11, CtlMoves, IdleFields, Zenon DEF Finalized, Return, RepairVerified, durable
  <2> QED
    BY <2>1, ObservedIdle DEF Carries, WorkPCs
<1>12. CASE RepairRestored
  <2>1. ctl'.pc = "idle" /\ journal'.stage = "absent"
    BY <1>12, IdleFields DEF RepairRestored, CompleteInv
  <2> QED
    BY <2>1, ObservedNoJournal DEF JournalValid, Carries, WorkPCs
<1> QED
  BY <1>1, <1>2, <1>3, <1>4, <1>5, <1>6, <1>7, <1>8, <1>9, <1>10, <1>11, <1>12
     DEF ControllerStep

\* A failed write of a Codex file leaves the files of a blind recovery as they
\* were: such a recovery has found nothing to write.
LEMMA BlindWritesNothing ==
  ASSUME TypeInv, ObservedInv, codex.rev = 0, Blind(ctl), ctl.pc \in {"config", "profile"},
         codex' \in Artifacts, codex'.rev = codex.rev, codex'.inter = codex.inter,
         codex'.root = codex.root \/ ctl.pc = "profile" \/ Migrated
  PROVE  codex' = codex
<1>1. ctl.pc = "config" /\ ~Migrated
  BY Zenon DEF ObservedInv, BlindKnown, Blind, Carries, WorkPCs
<1> QED
  BY <1>1 DEF TypeInv, Artifacts

\* ObservedInv is inductive relative to TypeInv and CompleteInv.
LEMMA ObservedStep ==
  TypeInv /\ TypeInv' /\ CompleteInv /\ ObservedInv /\ [Next]_vars => ObservedInv'
<1> SUFFICES ASSUME TypeInv, TypeInv', CompleteInv, ObservedInv, [Next]_vars
             PROVE  ObservedInv'
  OBVIOUS
<1>1. CASE UNCHANGED vars
  BY <1>1, ObservedFrame DEF vars
<1>2. CASE \/ RelayStart \/ WatcherStep \/ SwapStep \/ CatalogLoop \/ CatalogStops
           \/ \E r \in Requests : ReqEnter(r) \/ RequestStep(r)
  <2>1. CASE ctl' = ctl
    BY <1>2, <2>1, RelayEffects, ObservedFrame DEF durable
  <2>2. CASE ctl' # ctl
    <3>1. CtlStep("swap", "config") /\ UNCHANGED <<st, journal, codex>>
      BY <1>2, <2>2, RelayEffects DEF CommitSwap, CtlStep, durable
    <3> QED
      BY <3>1, ObservedMove DEF WorkPCs
  <2> QED
    BY <2>1, <2>2
<1>3. CASE Faults
  <2>0. FaultEffect
    BY <1>3, FaultEffects
  <2>1. CASE /\ ctl.pc \in FailPCs /\ FailApplying(ctl.s) /\ UNCHANGED <<marker, journal>>
             /\ \/ codex' = codex
                \/ /\ ctl.pc \in {"config", "profile"}
                   /\ codex'.rev = codex.rev /\ codex'.inter = codex.inter
                   /\ codex'.root = codex.root \/ ctl.pc = "profile" \/ Migrated
    <3>1. codex' = codex \/ (ctl.pc \in {"config", "profile"} /\ (codex.rev = 0 => ~Blind(ctl)))
      BY <2>1, BlindWritesNothing DEF TypeInv
    <3> QED
      BY <2>1, <3>1, ObservedFail
  <2>2. CASE ctl.pc # "idle" /\ ctl' = Idle /\ UNCHANGED durable
    BY <2>2, ObservedIdle, IdleFields DEF durable, Carries, WorkPCs
  <2>3. CASE UNCHANGED <<durable, ctl>>
    BY <2>3, ObservedFrame DEF durable
  <2>4. CASE codex'.rev # 0 /\ UNCHANGED <<marker, st, journal, ctl>>
    BY <2>4 DEF ObservedInv, Blind, JournalValid, Migrated
  <2>5. CASE st' = NoState /\ UNCHANGED <<marker, journal, codex, ctl>>
    <3>1. NoState.phase = "absent"
      BY DEF NoState
    <3> QED
      BY <2>5, <3>1, Zenon DEF ObservedInv, BlindKnown, Blind, JournalValid, Migrated
  <2>6. CASE /\ journal.stage # "absent" /\ journal'.stage \in {"absent", "corrupt"}
             /\ UNCHANGED <<marker, st, codex, ctl>>
    BY <2>6, Zenon DEF ObservedInv, BlindKnown, Blind, JournalValid, Migrated
  <2>7. CASE ctl.pc = "repair" /\ st' = ctl.s /\ ctl' = Idle /\ UNCHANGED <<marker, journal, codex>>
    <3>1. ctl'.pc = "idle" /\ journal'.stage = "absent"
      BY <2>7, IdleFields DEF CompleteInv
    <3> QED
      BY <3>1, ObservedNoJournal DEF JournalValid, Carries, WorkPCs
  <2> QED
    BY <2>0, <2>1, <2>2, <2>3, <2>4, <2>5, <2>6, <2>7, Zenon DEF FaultEffect
<1> QED
  BY <1>1, <1>2, <1>3, ObservedOperations, ObservedController DEF Next

\* A recovery that has no trusted origin, and every later completion of the
\* journal it wrote, leaves both Codex files as they were: the forced origin of
\* recoverObservedLocked never reaches them.
THEOREM ObservedKept == Spec => ObservedRecoveryKeepsArtifacts
<1>1. TypeInv /\ TypeInv' /\ ObservedInv /\ [Next]_vars
        => [(~ctl.auth /\ ~ctl.mig /\ codex'.rev = 0) => codex' = codex]_vars
  <2> SUFFICES ASSUME TypeInv, TypeInv', ObservedInv, Next, Blind(ctl), codex'.rev = 0,
                      codex' # codex
               PROVE  FALSE
    BY DEF Blind, vars
  <2> USE DEF TypeInv
  <2>0. codex \in Artifacts
    OBVIOUS
  <2>1. CASE Operations
    BY <2>1, Zenon DEF Operations, Request, SeedNativeParked, Cancel, RepairNative, Apply,
                RecoverObserved, RecoverFromJournal
  <2>2. CASE ControllerStep
    <3>1. CASE ConfigMigrate
      BY <3>1 DEF ConfigMigrate, MigratesNow, Blind
    <3>2. CASE ConfigRoot
      <4>1. codex.rev = 0 /\ ctl.pc = "config" /\ ~Matches(codex, ctl.s.desired)
        BY <3>2, <2>0 DEF ConfigRoot, Artifacts
      <4> QED
        BY <4>1, Zenon DEF ObservedInv, BlindKnown, Carries, WorkPCs
    <3>3. CASE ConfigRefused
      <4>1. codex.rev = 0 /\ ctl.pc = "config" /\ ~Matches(codex, ctl.s.desired)
        BY <3>3, <2>0 DEF ConfigRefused, Artifacts
      <4> QED
        BY <4>1, Zenon DEF ObservedInv, BlindKnown, Carries, WorkPCs
    <3>4. CASE ConfigProfile
      <4>1. codex.rev = 0 /\ ctl.pc = "profile"
        BY <3>4, <2>0 DEF ConfigProfile, Artifacts
      <4> QED
        BY <4>1, Zenon DEF ObservedInv, BlindKnown, Carries, WorkPCs
    <3> QED
      BY <2>2, <3>1, <3>2, <3>3, <3>4, Zenon
         DEF ControllerStep, FirstStateWrite, RepairVerified, RepairRestored, RecoverApply,
             WriteJournal, HealthSnapshot,
             HealthCatalog, HealthActive, HealthInteractive, ControlAuthorized,
             ControlRefused, ControlDisconnected, ConfigUnchanged, WriteMutatedJournal,
             SaveFinal, RemoveJournal, Finalized, Return, durable
  <2>3. CASE \/ RelayStart \/ WatcherStep \/ SwapStep \/ CatalogLoop \/ CatalogStops
             \/ \E r \in Requests : ReqEnter(r) \/ RequestStep(r)
    BY <2>3, RelayEffects DEF durable
  <2>4. CASE Faults
    <3>1. FaultEffect
      BY <2>4, FaultEffects
    <3>2. /\ ctl.pc \in {"config", "profile"} /\ codex'.rev = codex.rev
          /\ codex'.inter = codex.inter
          /\ codex'.root = codex.root \/ ctl.pc = "profile" \/ Migrated
      BY <3>1 DEF FaultEffect, durable
    <3> QED
      BY <3>2, BlindWritesNothing
  <2> QED
    BY <2>1, <2>2, <2>3, <2>4 DEF Next
<1> QED
  BY <1>1, TypeInvAlways, SwitchInit, SwitchStep, CompleteInit, CompleteStep, ObservedInit,
     ObservedStep, PTL DEF Spec, ObservedRecoveryKeepsArtifacts

=============================================================================
