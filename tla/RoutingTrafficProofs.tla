------------------------ MODULE RoutingTrafficProofs ------------------------
(***************************************************************************)
(* The drain of the routing switch: no traffic from the acknowledgement of *)
(* awaitParked until the journal is gone.  The acknowledgement identifies  *)
(* a state by its generation, so this assumes that the generation of the   *)
(* state file never goes back; a later part says when it does.  On the     *)
(* drain rest the backend of an admitted request and the agreement of an   *)
(* open snapshot with the Codex files.                                     *)
(***************************************************************************)
EXTENDS RoutingSwitchProofs

Advance == st.gen <= st'.gen

\* The generation of the state file never goes back.
GenerationsAdvance == [][Advance]_vars

-----------------------------------------------------------------------------
(* Which states relayctl, the watcher and the snapshot can be at.          *)

\* What a read of the state file, or of its absence, can return at most.
Top == IF st.gen = 0 THEN 1 ELSE st.gen

GenInv ==
  /\ watch.s.gen <= Top
  /\ ~snap.invalid => snap.s.gen <= Top
  /\ ~snap.invalid /\ watch.pc # "idle" => snap.s.gen <= watch.s.gen
  /\ ctl.pc \in WorkPCs =>
       /\ st = ctl.s /\ st.phase = "applying" /\ st.gen >= 2
       /\ watch.pc # "idle" /\ watch.s.gen = st.gen => watch.s = st
  /\ ctl.pc = "recover" => st.phase = "recovery_required" /\ ctl.s.gen = st.gen

\* Generations are numbers, zero for no state only.
LEMMA GenTypes ==
  ASSUME TypeInv
  PROVE  /\ st.gen \in Nat /\ ctl.s.gen \in Nat
         /\ watch.s \in States /\ snap.s \in States
         /\ watch.s.gen \in Nat \ {0} /\ snap.s.gen \in Nat \ {0}
         /\ Top \in Nat \ {0}
         /\ st.gen = 0 <=> st = NoState
         /\ st # NoState => st \in States
<1>1. st.gen \in Nat /\ (st.gen = 0 <=> st = NoState) /\ (st # NoState => st \in States)
  BY DEF TypeInv, GoodState, States, NoState
<1>2. ctl.s.gen \in Nat
  BY DEF TypeInv, GoodCtl, Ctls, States, NoState
<1>3. watch.s \in States /\ snap.s \in States
  BY DEF TypeInv, RelayOK, Watches, Snapshots
<1> QED
  BY <1>1, <1>2, <1>3 DEF States, Top

\* The generation after a step is a number as well.
LEMMA NextGenType ==
  ASSUME TypeInv'
  PROVE  st'.gen \in Nat
BY DEF TypeInv, GoodState, States, NoState

\* No state, no watcher pass and no snapshot at first.
LEMMA GenInit == Init => GenInv
BY DEF Init, GenInv, Top, NoState, WatchIdle, NewRelayState, InvalidSnapshot, Idle, WorkPCs

\* A step that keeps the state and lets relayctl only move on with it.
LEMMA GenFrame ==
  ASSUME GenInv, UNCHANGED <<st, snap, watch>>,
         ctl'.pc \in WorkPCs => ctl.pc \in WorkPCs /\ ctl'.s = ctl.s,
         ctl'.pc = "recover" => ctl.pc = "recover" /\ ctl'.s = ctl.s
  PROVE  GenInv'
BY DEF GenInv, Top

\* A step that advances the state with relayctl outside its switch.
LEMMA GenEnd ==
  ASSUME TypeInv, TypeInv', GenInv, Advance, UNCHANGED <<snap, watch>>,
         ctl'.pc \notin WorkPCs \cup {"recover"}
  PROVE  GenInv'
<1>1. Top <= Top'
  BY GenTypes DEF Advance, Top, TypeInv, GoodState, States, NoState
<1>2. Top \in Nat /\ Top' \in Nat /\ watch.s.gen \in Nat /\ snap.s.gen \in Nat
  BY GenTypes, <1>1 DEF TypeInv, GoodState, States, NoState, Top
<1> QED
  BY <1>1, <1>2 DEF GenInv

\* A step that takes relayctl into applying, in a generation nobody has seen.
LEMMA GenBegin ==
  ASSUME TypeInv, TypeInv', GenInv, UNCHANGED <<snap, watch>>,
         st \in States, st'.gen = st.gen + 1, st'.phase = "applying",
         ctl'.pc = "journal", ctl'.s = st'
  PROVE  GenInv'
<1>1. st.gen \in Nat \ {0} /\ Top = st.gen /\ Top' = st.gen + 1
  BY DEF States, Top
<1>2. watch.s.gen \in Nat /\ snap.s.gen \in Nat
  BY GenTypes
<1>3. watch.s.gen # st'.gen
  BY <1>1, <1>2 DEF GenInv
<1> QED
  BY <1>1, <1>2, <1>3 DEF GenInv, WorkPCs

\* A step that parks the state for a recovery.
LEMMA GenRecover ==
  ASSUME TypeInv, TypeInv', GenInv, Advance, UNCHANGED <<snap, watch>>,
         ctl'.pc = "recover", st'.phase = "recovery_required", ctl'.s.gen = st'.gen
  PROVE  GenInv'
<1>1. Top <= Top'
  BY GenTypes DEF Advance, Top, TypeInv, GoodState, States, NoState
<1>2. Top \in Nat /\ Top' \in Nat /\ watch.s.gen \in Nat /\ snap.s.gen \in Nat
  BY GenTypes, <1>1 DEF TypeInv, GoodState, States, NoState, Top
<1> QED
  BY <1>1, <1>2 DEF GenInv, WorkPCs

\* relayctl writes nothing of the relay's; a control request becomes a handler.
LEMMA RelayUntouched ==
  ASSUME Operations \/ ControllerStep
  PROVE  /\ UNCHANGED <<up, snap, watch, slot, cat, req>>
         /\ handlers' = handlers \/ ControlAuthorized
<1>1. CASE Operations
  BY <1>1, Zenon DEF Operations, Request, SeedNativeParked, Cancel, RepairNative, Apply,
              RecoverObserved, RecoverFromJournal, relay
<1>2. CASE ControlAuthorized
  BY <1>2 DEF ControlAuthorized
<1>3. CASE ControllerStep /\ ~ControlAuthorized
  BY <1>3, Zenon
     DEF ControllerStep, FirstStateWrite, RepairVerified, RepairRestored, RecoverApply,
         WriteJournal, HealthSnapshot,
         HealthCatalog, HealthActive, HealthInteractive, ControlRefused, ControlDisconnected,
         ConfigUnchanged, ConfigMigrate, ConfigRoot, ConfigRefused, ConfigProfile,
         WriteMutatedJournal, SaveFinal, RemoveJournal, Finalized, Return, relay
<1> QED
  BY <1>1, <1>2, <1>3

\* No fault but a crash of the relay touches the snapshot or the watcher.
LEMMA FaultRelay ==
  ASSUME Faults, ~RelayCrash
  PROVE  UNCHANGED <<up, snap, watch, cat, req>>
BY DEF Faults, AckTimeout, PreflightFails, WriteFails, ConfigWriteFails, RepairFails,
       UnlinkFails, Crash, DrainFails, CandidateFails, EditArtifacts, LoseState, DamageJournal, relay

\* Each operation keeps the order of the generations.
LEMMA GenOperations ==
  ASSUME TypeInv, TypeInv', GenInv, Advance, Operations
  PROVE  GenInv'
<1>0. UNCHANGED <<snap, watch>>
  BY RelayUntouched
<1>1. CASE \/ \E b \in Backends, intent \in BOOLEAN : Request(b, intent)
           \/ SeedNativeParked \/ Cancel \/ RepairNative
  BY <1>0, <1>1, SaveEffects, GenEnd DEF WorkPCs
<1>2. CASE Apply
  BY <1>0, <1>2, ApplyEffects, GenBegin
<1>3. CASE RecoverObserved
  BY <1>0, <1>3, ObservedEffects, GenRecover
<1>4. ASSUME NEW action \in {"complete", "rollback"}, NEW desktopExited \in BOOLEAN,
             RecoverFromJournal(action, desktopExited)
      PROVE  GenInv'
  <2>1. CASE ctl' = ctl
    BY <1>0, <1>4, <2>1, JournalEffects, GenEnd DEF WorkPCs
  <2>2. CASE ctl' # ctl
    BY <1>0, <1>4, <2>2, JournalEffects, GenRecover
  <2> QED
    BY <2>1, <2>2
<1> QED
  BY <1>1, <1>2, <1>3, <1>4 DEF Operations

\* Each step of relayctl keeps the order of the generations.
LEMMA GenController ==
  ASSUME TypeInv, TypeInv', GenInv, Advance, ControllerStep
  PROVE  GenInv'
<1>0. UNCHANGED <<snap, watch>>
  BY RelayUntouched
<1>1. CASE \/ FirstStateWrite \/ ControlRefused \/ ControlDisconnected \/ ConfigRefused
           \/ Return \/ RepairVerified \/ RepairRestored
  <2>1. ctl'.pc = "idle"
    BY <1>1, IdleFields DEF FirstStateWrite, ControlRefused, ControlDisconnected,
                            ConfigRefused, Return, RepairVerified, RepairRestored, FailApplying
  <2> QED
    BY <1>0, <2>1, GenEnd DEF WorkPCs
<1>2. CASE RecoverApply
  <2>1. CASE st' = st /\ ctl' = Idle
    BY <1>0, <2>1, IdleFields, GenEnd DEF WorkPCs
  <2>2. CASE ctl' # Idle \/ st' # st
    <3>1. st.phase = "recovery_required" /\ ctl.s.gen = st.gen
      BY <1>2 DEF GenInv, RecoverApply
    <3>2. st \in States
      BY <3>1 DEF TypeInv, GoodState, NoState
    <3> QED
      BY <1>0, <1>2, <2>2, <3>1, <3>2, RecoverApplyEffects, GenBegin
  <2> QED
    BY <2>1, <2>2
<1>3. CASE \/ WriteJournal \/ HealthSnapshot \/ HealthCatalog \/ HealthActive
           \/ HealthInteractive \/ ControlAuthorized \/ ConfigUnchanged
           \/ WriteMutatedJournal
  <2>1. \E from \in WorkPCs, to \in WorkPCs : CtlStep(from, to)
    BY <1>3 DEF WriteJournal, HealthSnapshot, HealthCatalog, HealthActive, HealthInteractive,
                ControlAuthorized, ConfigUnchanged, WriteMutatedJournal, WorkPCs
  <2>2. st' = st
    BY <1>3 DEF WriteJournal, HealthSnapshot, HealthCatalog, HealthActive, HealthInteractive,
                ControlAuthorized, ConfigUnchanged, WriteMutatedJournal, durable
  <2> QED
    BY <1>0, <2>1, <2>2, CtlMoves, GenFrame DEF WorkPCs
<1>4. CASE ConfigMigrate \/ ConfigRoot \/ ConfigProfile
  BY <1>0, <1>4, ConfigEffects, GenFrame DEF WorkPCs
<1>5. CASE SaveFinal
  <2>1. ctl'.pc \in {"idle", "unlink"}
    BY <1>5, SaveFinalEffects, IdleFields DEF FailApplying
  <2> QED
    BY <1>0, <2>1, GenEnd DEF WorkPCs
<1>6. CASE RemoveJournal \/ Finalized
  <2>1. ctl'.pc \in {"finalize", "done"}
    BY <1>6, CtlMoves DEF RemoveJournal, Finalized
  <2> QED
    BY <1>0, <2>1, GenEnd DEF WorkPCs
<1> QED
  BY <1>1, <1>2, <1>3, <1>4, <1>5, <1>6 DEF ControllerStep

\* Only the watcher and the end of the relay change what has been read.
LEMMA RelayFields ==
  ASSUME \/ RelayStart \/ SwapStep \/ CatalogLoop \/ CatalogStops
         \/ \E r \in Requests : ReqEnter(r) \/ RequestStep(r)
  PROVE  UNCHANGED <<snap, watch>>
BY Zenon DEF RelayStart, SwapStep, BeginSwap, CommitSwap, CatalogLoop, CatalogGate, CatalogRunning,
       CatalogTick, CatalogRefresh, CatalogRefreshed, CatalogStops, Catalog, ReqEnter,
       RequestStep, ReqBegin, ReqAdmit, ReqFinish, ReqStep

\* The watcher reads a state of the current generation and publishes what it read.
LEMMA GenWatcher ==
  ASSUME TypeInv, GenInv, WatcherStep
  PROVE  GenInv'
<1>0. UNCHANGED <<st, ctl>> /\ Top' = Top
  BY DEF WatcherStep, WatchReadState, WatchReadJournal, WatchCheckDrift, WatchPublish,
         durable, Top
<1>1. CASE WatchReadState
  <2> DEFINE s == IF st = NoState THEN NewRelayState ELSE st
  <2>1. watch'.s = s /\ snap' = snap
    BY <1>1 DEF WatchReadState
  <2>2. s.gen = Top
    BY GenTypes DEF NewRelayState, Top
  <2>3. ctl.pc \in WorkPCs => s = st
    BY DEF GenInv, NoState
  <2> HIDE DEF s
  <2> QED
    BY <1>0, <2>1, <2>2, <2>3, GenTypes DEF GenInv
<1>2. CASE WatchReadJournal \/ WatchCheckDrift
  <2>1. watch'.s = watch.s /\ watch.pc # "idle" /\ snap' = snap
    BY <1>2, Zenon DEF WatchReadJournal, WatchCheckDrift, TypeInv, RelayOK, Watches
  <2> QED
    BY <1>0, <2>1 DEF GenInv
<1>3. CASE WatchPublish
  <2>1. watch'.pc = "idle" /\ watch'.s.gen = 1
    BY <1>3 DEF WatchPublish, WatchIdle, NewRelayState
  <2>2. snap'.invalid \/ snap'.s = watch.s
    BY <1>3 DEF WatchPublish, Observed, InvalidSnapshot
  <2> QED
    BY <1>0, <2>1, <2>2, GenTypes DEF GenInv
<1> QED
  BY <1>1, <1>2, <1>3 DEF WatcherStep

\* GenInv is inductive relative to TypeInv as long as generations advance.
LEMMA GenStep ==
  TypeInv /\ TypeInv' /\ GenInv /\ [Next]_vars /\ [Advance]_vars => GenInv'
<1> SUFFICES ASSUME TypeInv, TypeInv', GenInv, [Next]_vars, [Advance]_vars PROVE GenInv'
  OBVIOUS
<1>1. CASE UNCHANGED vars
  BY <1>1 DEF vars, GenInv, Top
<1> SUFFICES ASSUME Next, Advance PROVE GenInv'
  BY <1>1
<1>2. CASE \/ RelayStart \/ SwapStep \/ CatalogLoop \/ CatalogStops
           \/ \E r \in Requests : ReqEnter(r) \/ RequestStep(r)
  BY <1>2, RelayFields, RelayEffects, GenFrame DEF durable, WorkPCs
<1>3. CASE RelayCrash
  <2>1. watch'.pc = "idle" /\ watch'.s.gen = 1 /\ snap'.invalid /\ UNCHANGED <<st, ctl>>
    BY <1>3 DEF RelayCrash, RelayDown, WatchIdle, NewRelayState, InvalidSnapshot, durable
  <2> QED
    BY <2>1, GenTypes DEF GenInv, Top
<1>4. CASE Faults /\ ~RelayCrash
  <2>0. UNCHANGED <<snap, watch>> /\ FaultEffect
    BY <1>4, FaultRelay, FaultEffects
  <2>1. CASE ctl' = Idle \/ FailApplying(ctl.s)
    BY <2>0, <2>1, IdleFields, GenEnd DEF WorkPCs, FailApplying
  <2>2. CASE UNCHANGED <<st, ctl>>
    BY <2>0, <2>2, GenFrame
  <2>3. CASE st' = NoState /\ ctl' = ctl
    <3>1. st.gen = 0
      BY <2>3, GenTypes DEF Advance, NoState
    <3> QED
      BY <2>0, <2>3, <3>1, GenFrame, GenTypes
  <2> QED
    BY <2>0, <2>1, <2>2, <2>3 DEF FaultEffect, durable
<1> QED
  BY <1>2, <1>3, <1>4, GenOperations, GenController, GenWatcher DEF Next

-----------------------------------------------------------------------------
(* The drain.                                                              *)

\* From the acknowledged snapshot on, from the paused catalog on, and from the
\* empty tracker on.
ParkPCs == WorkPCs \ {"journal", "park"}
QuietPCs == ParkPCs \ {"park_catalog"}
DrainedPCs == QuietPCs \ {"park_active"}

\* A pass of the watcher that is under way will not open admission.
WatchCloses == watch.bad \/ ~AllowsDataPlane(watch.s)

Closed == ~SnapAllows /\ (watch.pc # "idle" => WatchCloses)

\* The weaker fact beside a journal, which the pass has yet to read.
Sealed == ~SnapAllows /\ (watch.pc \in {"journal", "drift"} => WatchCloses)

Unlinking == ctl.pc = "unlink" /\ journal.stage # "absent"

NoneAdmitted == \A r \in Requests : req[r].pc # "admitted"

TrafficInv ==
  /\ ctl.pc \in ParkPCs => Closed
  /\ journal.stage = "config_mutated" \/ Unlinking => Sealed
  /\ ctl.pc \in QuietPCs \/ Unlinking => cat.pc # "egress"
  /\ ctl.pc \in DrainedPCs \/ Unlinking => NoneAdmitted
  /\ cat.pc \in {"loop", "egress"} => cat.obs = "running"

\* relayctl is idle and the relay down at first.
LEMMA TrafficInit == Init => TrafficInv
BY DEF Init, TrafficInv, Idle, NoJournal, Unlinking, CatStopped, ParkPCs, QuietPCs,
       DrainedPCs, WorkPCs

\* A step of relayctl after which nothing is demanded of the relay that was not
\* demanded before.
LEMMA TrafficFrame ==
  ASSUME TrafficInv, UNCHANGED <<snap, watch, cat, req>>,
         ctl'.pc \in ParkPCs => ctl.pc \in ParkPCs,
         ctl'.pc \in QuietPCs => ctl.pc \in QuietPCs,
         ctl'.pc \in DrainedPCs => ctl.pc \in DrainedPCs,
         Unlinking' => Unlinking,
         journal'.stage = "config_mutated" => journal.stage = "config_mutated"
  PROVE  TrafficInv'
BY DEF TrafficInv, Closed, Sealed, SnapAllows, WatchCloses, NoneAdmitted

\* relayctl is outside the drained part of a switch.
LEMMA TrafficOutside ==
  ASSUME TrafficInv, UNCHANGED <<snap, watch, cat, req>>,
         ctl'.pc \notin ParkPCs \cup {"unlink"},
         journal'.stage = "config_mutated" => journal.stage = "config_mutated"
  PROVE  TrafficInv'
BY TrafficFrame DEF QuietPCs, DrainedPCs, Unlinking

\* Each operation starts outside the drained part.
LEMMA TrafficOperations ==
  ASSUME TypeInv, TrafficInv, Operations
  PROVE  TrafficInv'
<1>0. UNCHANGED <<snap, watch, cat, req>>
  BY RelayUntouched
<1>1. ctl'.pc \notin ParkPCs \cup {"unlink"} /\ journal' = journal
  <2>1. CASE \/ \E b \in Backends, intent \in BOOLEAN : Request(b, intent)
             \/ SeedNativeParked \/ Cancel \/ RepairNative
    BY <2>1, SaveEffects DEF ParkPCs, WorkPCs
  <2>2. CASE Apply
    BY <2>2, ApplyEffects DEF ParkPCs, WorkPCs
  <2>3. CASE RecoverObserved
    BY <2>3, ObservedEffects DEF ParkPCs, WorkPCs
  <2>4. ASSUME NEW action \in {"complete", "rollback"}, NEW desktopExited \in BOOLEAN,
               RecoverFromJournal(action, desktopExited)
        PROVE  ctl'.pc \notin ParkPCs \cup {"unlink"} /\ journal' = journal
    BY <2>4, JournalEffects DEF ParkPCs, WorkPCs
  <2> QED
    BY <2>1, <2>2, <2>3, <2>4 DEF Operations
<1> QED
  BY <1>0, <1>1, TrafficOutside

\* A snapshot that acknowledges the applying state is closed, and a pass of the
\* watcher has read nothing older.
LEMMA AcknowledgedCloses ==
  ASSUME TypeInv, GenInv, ctl.pc \in WorkPCs, Acknowledges(ctl.s)
  PROVE  Closed
<1>1. ~snap.invalid /\ snap.s.gen = st.gen /\ ~SnapAllows
  BY DEF Acknowledges, GenInv
<1>2. Top = st.gen
  BY DEF GenInv, Top
<1>3. watch.pc # "idle" => watch.s.gen = st.gen
  BY <1>1, <1>2, GenTypes DEF GenInv
<1>4. watch.pc # "idle" => watch.s.phase = "applying"
  BY <1>3 DEF GenInv
<1> QED
  BY <1>1, <1>4 DEF Closed, WatchCloses, AllowsDataPlane

\* Only the empty set of requests is counted as none (CountingHolds below).
Counting == \A S \in SUBSET Requests : Cardinality(S) = 0 => S = {}

\* No active request: no request is admitted.
LEMMA TrackerEmpty ==
  ASSUME Counting, ActiveRequests = 0
  PROVE  NoneAdmitted
<1> DEFINE A == {r \in Requests : req[r].pc \in {"begun", "admitted"}}
<1>1. A \in SUBSET Requests /\ Cardinality(A) = 0
  BY DEF ActiveRequests
<1> HIDE DEF A
<1>2. A = {}
  BY <1>1, Zenon DEF Counting
<1> QED
  BY <1>2 DEF A, NoneAdmitted

\* Each step of relayctl looks before it relies on the drain.
LEMMA TrafficController ==
  ASSUME Counting, TypeInv, GenInv, TrafficInv, ControllerStep
  PROVE  TrafficInv'
<1>0. UNCHANGED <<snap, watch, cat, req>>
  BY RelayUntouched
<1>c. /\ Closed' <=> Closed
      /\ Sealed' <=> Sealed
      /\ NoneAdmitted' <=> NoneAdmitted
      /\ Closed => Sealed
  BY <1>0 DEF Closed, Sealed, SnapAllows, WatchCloses, NoneAdmitted
<1> USE DEF ParkPCs, QuietPCs, DrainedPCs, WorkPCs
<1>1. CASE \/ FirstStateWrite \/ ControlRefused \/ ControlDisconnected \/ ConfigRefused
           \/ Return \/ RepairVerified \/ RepairRestored
  <2>1. ctl'.pc = "idle" /\ journal' = journal
    BY <1>1, IdleFields DEF FirstStateWrite, ControlRefused, ControlDisconnected,
                            ConfigRefused, Return, RepairVerified, RepairRestored,
                            FailApplying, durable
  <2> QED
    BY <1>0, <2>1, TrafficOutside
<1>2. CASE RecoverApply
  BY <1>0, <1>2, RecoverApplyEffects, IdleFields, TrafficOutside
<1>3. CASE WriteJournal
  BY <1>0, <1>3, CtlMoves, JournalFields, TrafficOutside DEF WriteJournal
<1>4. CASE HealthSnapshot
  <2>1. ctl.pc = "park" /\ ctl'.pc = "park_catalog" /\ journal' = journal
    BY <1>4, CtlMoves DEF HealthSnapshot, durable
  <2>2. Closed
    BY <1>4, <2>1, AcknowledgedCloses DEF HealthSnapshot
  <2> QED
    BY <1>0, <1>c, <2>1, <2>2 DEF TrafficInv, Unlinking
<1>5. CASE HealthCatalog
  <2>1. /\ ctl.pc = "park_catalog" /\ journal' = journal
        /\ ctl'.pc = IF up = "up" /\ cat.obs = "paused" THEN "park_active" ELSE "park"
    BY <1>5, CtlMoves DEF HealthCatalog, durable
  <2>2. cat.obs = "paused" => cat.pc # "egress"
    BY DEF TrafficInv
  <2> QED
    BY <1>0, <1>c, <2>1, <2>2 DEF TrafficInv, Unlinking
<1>6. CASE HealthActive
  <2>1. /\ ctl.pc = "park_active" /\ journal' = journal
        /\ ctl'.pc = IF up = "up" /\ ActiveRequests = 0 THEN "park_interactive" ELSE "park"
    BY <1>6, CtlMoves DEF HealthActive, durable
  <2>2. ActiveRequests = 0 => NoneAdmitted
    BY TrackerEmpty
  <2> QED
    BY <1>0, <1>c, <2>1, <2>2 DEF TrafficInv, Unlinking
<1>7. CASE HealthInteractive
  <2>1. ctl.pc = "park_interactive" /\ journal' = journal /\ ctl'.pc \in {"control", "park"}
    BY <1>7, CtlMoves DEF HealthInteractive, durable
  <2> QED
    BY <1>0, <2>1, TrafficFrame DEF Unlinking
<1>8. CASE ControlAuthorized \/ ConfigUnchanged
  <2>1. ctl.pc \in {"control", "config"} /\ journal' = journal /\ ctl'.pc \in {"swap", "mutated"}
    BY <1>8, CtlMoves DEF ControlAuthorized, ConfigUnchanged, durable
  <2> QED
    BY <1>0, <2>1, TrafficFrame DEF Unlinking
<1>9. CASE ConfigMigrate \/ ConfigRoot \/ ConfigProfile
  BY <1>0, <1>9, ConfigEffects, TrafficFrame DEF Unlinking
<1>10. CASE WriteMutatedJournal
  <2>1. ctl.pc = "mutated" /\ ctl'.pc = "final"
    BY <1>10, CtlMoves DEF WriteMutatedJournal
  <2> QED
    BY <1>0, <1>c, <2>1 DEF TrafficInv, Unlinking
<1>11. CASE SaveFinal
  <2>1. ctl.pc = "final" /\ ctl'.pc \in {"idle", "unlink"} /\ journal' = journal
    BY <1>11, SaveFinalEffects, IdleFields DEF FailApplying
  <2> QED
    BY <1>0, <1>c, <2>1 DEF TrafficInv, Unlinking
<1>12. CASE RemoveJournal
  BY <1>0, <1>12, CtlMoves, TrafficOutside DEF RemoveJournal, NoJournal
<1>13. CASE Finalized
  BY <1>0, <1>13, CtlMoves, TrafficOutside DEF Finalized, durable
<1> QED
  BY <1>1, <1>2, <1>3, <1>4, <1>5, <1>6, <1>7, <1>8, <1>9, <1>10, <1>11, <1>12, <1>13
     DEF ControllerStep

\* What the second read of the watcher does to the pass under way.
LEMMA ReadJournalFields ==
  ASSUME TypeInv, WatchReadJournal
  PROVE  /\ watch.pc = "state" /\ watch'.pc = "journal" /\ watch'.s = watch.s
         /\ watch'.legacy = watch.legacy /\ watch'.rev = watch.rev
         /\ watch.bad => watch'.bad
         /\ watch'.bad \/ journal.stage = "absent" \/ watch.s.phase = "applying"
<1> DEFINE bad == \/ watch.bad
                  \/ /\ journal.stage # "absent"
                     /\ watch.legacy \/ watch.s.phase # "applying"
<1>1. watch \in Watches /\ watch.pc = "state"
  BY DEF TypeInv, RelayOK, WatchReadJournal
<1>2. watch' = [watch EXCEPT !.pc = "journal", !.bad = bad]
  BY Zenon DEF WatchReadJournal
<1> HIDE DEF bad
<1>3. watch'.pc = "journal" /\ watch'.s = watch.s /\ watch'.legacy = watch.legacy
      /\ watch'.bad = bad /\ watch'.rev = watch.rev
  BY <1>1, <1>2 DEF Watches
<1>4. watch.bad => watch'.bad
  BY <1>3, Zenon DEF bad
<1>5. watch'.bad \/ journal.stage = "absent" \/ watch.s.phase = "applying"
  BY <1>3, Zenon DEF bad
<1> QED
  BY <1>1, <1>3, <1>4, <1>5, Zenon

\* What the comparison with the Codex files does to the pass under way.
LEMMA CheckDriftFields ==
  ASSUME TypeInv, WatchCheckDrift
  PROVE  /\ watch.pc = "journal" /\ watch'.pc = "drift" /\ watch'.s = watch.s
         /\ watch'.legacy = watch.legacy /\ watch'.rev = codex.rev
         /\ watch.bad => watch'.bad
         /\ watch'.bad \/ ~Drifted
<1> DEFINE bad == watch.bad \/ Drifted
<1>1. watch \in Watches /\ watch.pc = "journal"
  BY DEF TypeInv, RelayOK, WatchCheckDrift
<1>2. watch' = [watch EXCEPT !.pc = "drift", !.bad = bad, !.rev = codex.rev]
  BY Zenon DEF WatchCheckDrift
<1> HIDE DEF bad
<1>3. watch'.pc = "drift" /\ watch'.s = watch.s /\ watch'.legacy = watch.legacy
      /\ watch'.bad = bad /\ watch'.rev = codex.rev
  BY <1>1, <1>2 DEF Watches
<1>4. (watch.bad => watch'.bad) /\ (watch'.bad \/ ~Drifted)
  BY <1>3, Zenon DEF bad
<1> QED
  BY <1>1, <1>3, <1>4, Zenon

\* A pass that is published without comparing the files closes, or found no state.
LEMMA PublishedPass ==
  ASSUME WatchPublish
  PROVE  /\ watch.pc \in {"journal", "drift"} /\ watch'.pc = "idle"
         /\ watch.pc = "journal" => WatchCloses \/ watch.legacy
<1>1. watch.pc = "drift" \/ (watch.pc = "journal" /\ ~Compares)
  BY Zenon DEF WatchPublish
<1>2. AllowsDataPlane(watch.s) => watch.s.phase \in StablePhases
  BY DEF AllowsDataPlane, StablePhases, ActivePhases, PendingPhases
<1>3. ~Compares => WatchCloses \/ watch.legacy
  BY <1>2, Zenon DEF Compares, WatchCloses
<1>4. watch'.pc = "idle"
  BY DEF WatchPublish, WatchIdle
<1> QED
  BY <1>1, <1>3, <1>4

\* The snapshot of a pass that closes does not admit.
LEMMA PublishCloses ==
  ASSUME WatchPublish, WatchCloses
  PROVE  ~SnapAllows'
<1>1. snap' = Observed
  BY DEF WatchPublish
<1>2. CASE Observed = InvalidSnapshot
  BY <1>1, <1>2 DEF SnapAllows, InvalidSnapshot
<1>3. CASE Observed # InvalidSnapshot
  <2>1. ~watch.bad /\ snap'.s = watch.s
    BY <1>1, <1>3 DEF Observed
  <2> QED
    BY <2>1 DEF SnapAllows, WatchCloses
<1> QED
  BY <1>2, <1>3

\* The watcher opens nothing during the drained part of a switch.
LEMMA TrafficWatcher ==
  ASSUME TypeInv, GenInv, TrafficInv, WatcherStep
  PROVE  TrafficInv'
<1>0. UNCHANGED <<st, ctl, journal, req>>
  BY DEF WatcherStep, WatchReadState, WatchReadJournal, WatchCheckDrift, WatchPublish, durable
<1>1. CASE WatchReadState
  <2>1. /\ watch'.s = (IF st = NoState THEN NewRelayState ELSE st) /\ watch'.pc = "state"
        /\ UNCHANGED <<snap, cat>>
    BY <1>1 DEF WatchReadState
  <2>2. ctl.pc \in ParkPCs => WatchCloses'
    <3> SUFFICES ASSUME ctl.pc \in ParkPCs PROVE ~AllowsDataPlane(watch'.s)
      BY DEF WatchCloses
    <3>1. st.phase = "applying"
      BY DEF GenInv, ParkPCs
    <3>2. st # NoState
      BY <3>1 DEF NoState
    <3> QED
      BY <2>1, <3>1, <3>2 DEF AllowsDataPlane
  <2> QED
    BY <1>0, <2>1, <2>2 DEF TrafficInv, Closed, Sealed, SnapAllows, NoneAdmitted, Unlinking
<1>2. CASE WatchReadJournal
  <2>1. UNCHANGED <<snap, cat>>
    BY <1>2 DEF WatchReadJournal
  <2>2. watch.pc # "idle" /\ (WatchCloses => WatchCloses')
    BY <1>2, ReadJournalFields DEF WatchCloses
  <2>3. journal.stage # "absent" => WatchCloses'
    BY <1>2, ReadJournalFields DEF WatchCloses, AllowsDataPlane
  <2> QED
    BY <1>0, <2>1, <2>2, <2>3 DEF TrafficInv, Closed, Sealed, SnapAllows, NoneAdmitted,
                                  Unlinking
<1>4. CASE WatchCheckDrift
  <2>1. UNCHANGED <<snap, cat>>
    BY <1>4 DEF WatchCheckDrift
  <2>2. watch.pc = "journal" /\ (WatchCloses => WatchCloses')
    BY <1>4, CheckDriftFields DEF WatchCloses
  <2> QED
    BY <1>0, <2>1, <2>2 DEF TrafficInv, Closed, Sealed, SnapAllows, NoneAdmitted, Unlinking
<1>3. CASE WatchPublish
  <2>1. watch.pc \in {"journal", "drift"} /\ watch'.pc = "idle"
    BY <1>3, PublishedPass
  <2>2. cat' = cat \/ cat'.pc \in {"stopped", "top"}
    BY <1>3 DEF WatchPublish, CatStopped, CatStarted
  <2>3. WatchCloses => ~SnapAllows'
    BY <1>3, PublishCloses
  <2> QED
    BY <1>0, <2>1, <2>2, <2>3 DEF TrafficInv, Closed, Sealed, NoneAdmitted, Unlinking
<1> QED
  BY <1>1, <1>2, <1>3, <1>4 DEF WatcherStep

\* The catalog worker fetches only behind an open snapshot.
LEMMA TrafficCatalog ==
  ASSUME TypeInv, TrafficInv, CatalogLoop \/ CatalogStops
  PROVE  TrafficInv'
<1>0. UNCHANGED <<snap, watch, journal, ctl, req>> /\ cat \in Cats
  BY DEF CatalogLoop, CatalogGate, CatalogRunning, CatalogTick, CatalogRefresh,
         CatalogRefreshed, CatalogStops, Catalog, durable, TypeInv, RelayOK
<1>1. /\ cat'.pc = "egress" => SnapAllows
      /\ cat'.pc \in {"loop", "egress"} => cat'.obs = "running"
  <2>1. CASE CatalogGate
    BY <2>1, <1>0 DEF CatalogGate, Catalog, Cats
  <2>2. CASE CatalogRunning \/ CatalogTick \/ CatalogRefreshed
    BY <2>2, <1>0 DEF CatalogRunning, CatalogTick, CatalogRefreshed, Catalog, Cats
  <2>3. CASE CatalogRefresh
    BY <2>3, <1>0 DEF CatalogRefresh, Catalog, Cats, TrafficInv
  <2>4. CASE CatalogStops
    BY <2>4 DEF CatalogStops, Catalog, CatStopped
  <2> QED
    BY <2>1, <2>2, <2>3, <2>4 DEF CatalogLoop
<1>2. ctl.pc \in QuietPCs \/ Unlinking => ~SnapAllows
  BY DEF TrafficInv, QuietPCs, Closed, Sealed
<1> QED
  BY <1>0, <1>1, <1>2 DEF TrafficInv, Closed, Sealed, SnapAllows, WatchCloses, NoneAdmitted,
                          Unlinking

\* A request is admitted only behind an open snapshot.
LEMMA TrafficRequest ==
  ASSUME TypeInv, TrafficInv, NEW r \in Requests, ReqEnter(r) \/ RequestStep(r)
  PROVE  TrafficInv'
<1>0. UNCHANGED <<snap, watch, journal, ctl, cat>>
  BY DEF ReqEnter, RequestStep, ReqBegin, ReqAdmit, ReqFinish, ReqStep, durable
<1>1. \A q \in Requests : req'[q].pc = "admitted" => req[q].pc = "admitted" \/ SnapAllows
  <2>1. req \in [Requests -> [pc : ReqPCs, profile : Backends]]
    BY DEF TypeInv, RelayOK
  <2>2. CASE ReqEnter(r)
    BY <2>1, <2>2 DEF ReqEnter, ReqStep
  <2>3. CASE ReqBegin(r)
    BY <2>1, <2>3 DEF ReqBegin, ReqStep
  <2>4. CASE ReqAdmit(r)
    BY <2>1, <2>4 DEF ReqAdmit, ReqStep, ReqIdle
  <2>5. CASE ReqFinish(r)
    BY <2>1, <2>5 DEF ReqFinish, ReqStep, ReqIdle
  <2> QED
    BY <2>2, <2>3, <2>4, <2>5 DEF RequestStep
<1>2. ctl.pc \in DrainedPCs \/ Unlinking => ~SnapAllows
  BY DEF TrafficInv, QuietPCs, DrainedPCs, Closed, Sealed
<1>3. NoneAdmitted /\ ~SnapAllows => NoneAdmitted'
  BY <1>1 DEF NoneAdmitted
<1> QED
  BY <1>0, <1>2, <1>3 DEF TrafficInv, Closed, Sealed, SnapAllows, WatchCloses, Unlinking

\* TrafficInv is inductive relative to TypeInv and GenInv.
LEMMA TrafficMoves ==
  ASSUME Counting, TypeInv, GenInv, TrafficInv, [Next]_vars
  PROVE  TrafficInv'
<1>1. CASE UNCHANGED vars
  BY <1>1, TrafficFrame DEF vars, Unlinking
<1>2. CASE RelayStart \/ SwapStep
  <2>1. UNCHANGED <<snap, watch, req, journal>>
    BY <1>2, Zenon DEF RelayStart, SwapStep, BeginSwap, CommitSwap, durable
  <2>2. cat' = cat \/ cat'.pc \in {"stopped", "top"}
    <3>1. CASE CommitSwap
      BY <3>1 DEF CommitSwap, CatStopped, CatStarted
    <3>2. CASE RelayStart \/ \E h \in handlers : BeginSwap(h)
      BY <3>2, Zenon DEF RelayStart, BeginSwap
    <3> QED
      BY <1>2, <3>1, <3>2 DEF SwapStep
  <2>3. ctl' = ctl \/ (ctl.pc = "swap" /\ ctl'.pc = "config")
    BY <1>2, RelayEffects
  <2> QED
    BY <2>1, <2>2, <2>3 DEF TrafficInv, Closed, Sealed, SnapAllows, WatchCloses,
          NoneAdmitted, Unlinking, ParkPCs, QuietPCs, DrainedPCs, WorkPCs
<1>3. CASE RelayCrash
  <2>1. /\ snap'.invalid /\ watch'.pc = "idle" /\ cat'.pc = "stopped"
        /\ UNCHANGED <<journal, ctl>>
    BY <1>3 DEF RelayCrash, RelayDown, InvalidSnapshot, WatchIdle, CatStopped, durable
  <2>2. NoneAdmitted'
    BY <1>3 DEF RelayCrash, RelayDown, ReqIdle, NoneAdmitted
  <2> QED
    BY <2>1, <2>2 DEF TrafficInv, Closed, Sealed, SnapAllows, Unlinking
<1>4. CASE Faults /\ ~RelayCrash
  <2>0. UNCHANGED <<snap, watch, cat, req>> /\ FaultEffect
    BY <1>4, FaultRelay, FaultEffects
  <2>1. CASE ctl' = Idle \/ FailApplying(ctl.s)
    <3>1. ctl'.pc = "idle"
      BY <2>1, IdleFields DEF FailApplying
    <3>2. journal'.stage = "config_mutated" => journal.stage = "config_mutated"
      BY <2>0 DEF FaultEffect, durable
    <3> QED
      BY <2>0, <3>1, <3>2, TrafficOutside DEF ParkPCs, WorkPCs
  <2>2. CASE UNCHANGED <<journal, ctl>>
    BY <2>0, <2>2, TrafficFrame DEF Unlinking
  <2>3. CASE /\ journal.stage # "absent" /\ journal'.stage \in {"absent", "corrupt"}
             /\ ctl' = ctl
    BY <2>0, <2>3, TrafficFrame DEF Unlinking
  <2> QED
    BY <2>0, <2>1, <2>2, <2>3 DEF FaultEffect, durable
<1> QED
  BY <1>1, <1>2, <1>3, <1>4, TrafficOperations, TrafficController, TrafficWatcher,
     TrafficCatalog, TrafficRequest DEF Next

-----------------------------------------------------------------------------
(* When the generation goes back.                                          *)

\* The marker is durable before the first state, and the first state replaces
\* none.
OwnedInv ==
  /\ ~marker => st = NoState
  /\ ctl.pc # "idle" => marker
  /\ ctl.pc = "first" => st = NoState

JournalFollows ==
  (ctl.pc = "journal" /\ JournalValid /\ ctl'.pc = "idle") => st'.phase = "recovery_required"

\* relayctl is not killed between the Replace(applying) of a recovery and the
\* journal that follows it.
RecoveriesJournalled == [][JournalFollows]_vars

RepairStays == (ctl.pc = "repair" /\ ctl'.pc = "idle") => st' = st

\* No RepairNative finds the files changed after its commit and puts the parked
\* state back.
RepairsStand == [][RepairStays]_vars

\* Outside that window a journal is never more than one generation behind a
\* state that Recover would replace.
AdvanceInv ==
  /\ OwnedInv
  /\ ctl.pc = "recover" => st.phase = "recovery_required" /\ ctl.s.gen = st.gen
  /\ ctl.pc \in WorkPCs => st = ctl.s /\ ValidState(st)
  /\ ctl.pc \in WorkPCs \ {"journal"} /\ JournalValid => journal.gen = st.gen
  /\ ctl.pc = "unlink" /\ JournalValid => st.gen = journal.gen + 1
  /\ ctl.pc = "idle" /\ JournalValid =>
       st.phase = "recovery_required" \/ st.gen <= journal.gen + 1

\* Nothing is owned and nothing journalled at first.
LEMMA AdvanceInit == Init => AdvanceInv
BY DEF Init, AdvanceInv, OwnedInv, Idle, NoJournal, JournalValid, WorkPCs

\* A step that leaves the files and relayctl alone.
LEMMA AdvanceFrame ==
  ASSUME TypeInv, AdvanceInv, UNCHANGED <<marker, st, journal, ctl>>
  PROVE  AdvanceInv' /\ Advance
<1>1. st.gen \in Nat
  BY GenTypes
<1> QED
  BY <1>1 DEF AdvanceInv, OwnedInv, JournalValid, Advance

\* relayctl ends and the state is the one it parked, or follows the journal.
LEMMA AdvanceIdle ==
  ASSUME AdvanceInv, ctl'.pc = "idle", ~marker' => st' = NoState,
         JournalValid' => st'.phase = "recovery_required" \/ st'.gen <= journal'.gen + 1
  PROVE  AdvanceInv'
BY DEF AdvanceInv, OwnedInv, WorkPCs

\* A state that relayctl may park is saved: failApplyingLocked is refused only
\* where the state file is unreadable.
LEMMA FailParks ==
  ASSUME TypeInv, AdvanceInv, ctl.pc \in WorkPCs, FailApplying(ctl.s)
  PROVE  st'.phase = "recovery_required" /\ st'.gen = st.gen + 1 /\ marker
<1>1. st = ctl.s /\ ValidState(st) /\ st.gen \in Nat \ {0} /\ st # NoState /\ st \in States
  BY GenTypes, Zenon DEF AdvanceInv, OwnedInv, ValidState, TypeInv, GoodCtl, WorkPCs, States
<1>2. marker /\ ~StateUnreadable
  BY <1>1 DEF AdvanceInv, OwnedInv, StateUnreadable
<1>3. /\ FailedState(st).phase = "recovery_required" /\ FailedState(st).gen = st.gen + 1
      /\ FailedState(st).desired = st.desired /\ FailedState(st).applied = st.applied
      /\ FailedState(st).intent = st.intent
  BY <1>1 DEF FailedState, States
<1>4. st.desired \in RecoveryBackends /\ st.applied \in RecoveryBackends
  BY <1>1 DEF States
<1>5. ValidState(FailedState(st))
  BY <1>1, <1>3, <1>4 DEF ValidState, ShapeOfPhase
<1>6. CanSave(FailedState(st))
  BY <1>1, <1>2, <1>3, <1>5 DEF CanSave, ValidTransition
<1> QED
  BY <1>1, <1>2, <1>3, <1>6 DEF FailApplying

\* The operations that save one state save a later generation of it.
LEMMA SaveAdvances ==
  ASSUME TypeInv, TypeInv', OwnedInv,
         \/ \E b \in Backends, intent \in BOOLEAN : Request(b, intent)
         \/ SeedNativeParked \/ Cancel \/ RepairNative
  PROVE  /\ Advance /\ (~marker' => st' = NoState)
         /\ ctl'.pc # "idle" => marker'
         /\ ctl'.pc = "first" => st' = NoState
<1>0. st.gen \in Nat /\ (st.gen = 0 <=> st = NoState)
  BY GenTypes
<1>00. st'.gen \in Nat
  BY NextGenType, Zenon
<1>1. ctl.pc = "idle"
  BY SaveEffects
<1>2. CASE \E b \in Backends, intent \in BOOLEAN : Request(b, intent)
  <2> PICK b \in Backends, intent \in BOOLEAN : Request(b, intent)
    BY <1>2
  <2>1. PICK next : CanSave(next) /\ SaveOrFirst(next)
    BY Zenon DEF Request
  <2>2. CASE marker
    <3>1. st # NoState /\ st' = next /\ ctl' = ctl /\ marker' = marker
      BY <2>1, <2>2 DEF CanSave, StateUnreadable, SaveOrFirst
    <3>2. next.gen > st.gen
      BY <2>1, <3>1 DEF CanSave, Legacy
    <3> QED
      BY <1>0, <1>00, <1>1, <2>2, <3>1, <3>2 DEF Advance
  <2>3. CASE ~marker
    BY <1>0, <2>1, <2>3 DEF SaveOrFirst, OwnedInv, Advance
  <2> QED
    BY <2>2, <2>3
<1>3. CASE SeedNativeParked
  BY <1>0, <1>3 DEF SeedNativeParked, Legacy, SaveOrFirst, Advance
<1>4. CASE Cancel
  <2>1. st # NoState
    BY <1>4 DEF Cancel, NoState, PendingPhases
  <2>2. st'.gen > st.gen /\ ctl' = ctl /\ marker' = marker
    BY <1>4, <2>1 DEF Cancel, CanSave, Legacy
  <2> QED
    BY <1>0, <1>00, <1>1, <2>1, <2>2 DEF Advance, OwnedInv
<1>5. CASE RepairNative
  <2>1. st # NoState
    BY <1>5 DEF RepairNative, NoState
  <2>2. st'.gen = st.gen + 1 /\ ctl'.pc = "repair" /\ marker' = marker
    BY <1>5, <2>1, GenTypes DEF RepairNative, Repaired, States, Idle
  <2> QED
    BY <1>0, <2>1, <2>2 DEF Advance, OwnedInv
<1> QED
  BY <1>2, <1>3, <1>4, <1>5

\* No operation takes the generation back.
LEMMA AdvanceOperations ==
  ASSUME TypeInv, TypeInv', AdvanceInv, Operations
  PROVE  AdvanceInv' /\ Advance
<1>0. st.gen \in Nat /\ (st.gen = 0 <=> st = NoState)
  BY GenTypes
<1>1. CASE \/ \E b \in Backends, intent \in BOOLEAN : Request(b, intent)
           \/ SeedNativeParked \/ Cancel \/ RepairNative
  <2>1. /\ Advance /\ (~marker' => st' = NoState)
        /\ ctl'.pc # "idle" => marker'
        /\ ctl'.pc = "first" => st' = NoState
    BY <1>1, SaveAdvances DEF AdvanceInv
  <2>2. ctl'.pc \in {"idle", "first", "repair"} /\ ~JournalValid'
    BY <1>1, SaveEffects DEF JournalValid
  <2>3. OwnedInv'
    BY <2>1, <2>2 DEF OwnedInv
  <2> QED
    BY <2>1, <2>2, <2>3 DEF AdvanceInv, WorkPCs
<1>2. CASE Apply
  <2>1. marker' = marker /\ ValidState(st')
    BY <1>2 DEF Apply, CanSave
  <2>2. st # NoState /\ ~JournalValid'
    BY <1>2, ApplyEffects DEF NoState, JournalValid, PendingPhases
  <2>3. Advance
    BY <1>0, <1>2, ApplyEffects DEF Advance
  <2> QED
    BY <1>2, <2>1, <2>2, <2>3, ApplyEffects DEF AdvanceInv, OwnedInv, WorkPCs
<1>3. CASE RecoverObserved
  <2>1. marker' /\ ~JournalValid'
    BY <1>3, ObservedEffects DEF RecoverObserved, JournalValid
  <2>2. Advance
    BY <1>0, <1>3, ObservedEffects DEF Advance
  <2>3. ctl'.pc = "recover" /\ ctl'.s = st' /\ st'.phase = "recovery_required"
    BY <1>3, ObservedEffects
  <2>4. OwnedInv'
    BY <2>1, <2>3 DEF OwnedInv
  <2> QED
    BY <2>1, <2>2, <2>3, <2>4 DEF AdvanceInv, WorkPCs
<1>4. ASSUME NEW action \in {"complete", "rollback"}, NEW desktopExited \in BOOLEAN,
             RecoverFromJournal(action, desktopExited)
      PROVE  AdvanceInv' /\ Advance
  <2>1. marker'
    BY <1>4 DEF RecoverFromJournal
  <2>2. RecoveryStateFromJournal.gen = journal.gen + 1
    BY DEF RecoveryStateFromJournal
  <2>3. Advance
    <3>1. ctl.pc = "idle" /\ JournalValid
      BY <1>4, JournalEffects
    <3>2. st.phase = "recovery_required" \/ st.gen <= journal.gen + 1
      BY <3>1 DEF AdvanceInv
    <3> QED
      BY <1>0, <1>4, <2>2, <3>2, JournalEffects DEF Advance
  <2>4. /\ ctl'.pc = "idle" \/ (ctl'.pc = "recover" /\ ctl'.s.gen = st'.gen)
        /\ st'.phase = "recovery_required"
    BY <1>4, JournalEffects
  <2> QED
    BY <2>1, <2>3, <2>4 DEF AdvanceInv, OwnedInv, WorkPCs
<1> QED
  BY <1>1, <1>2, <1>3, <1>4 DEF Operations

\* failApplyingLocked never takes the generation back.
LEMMA FailAdvances ==
  ASSUME TypeInv, TypeInv', NEW s, FailApplying(s)
  PROVE  Advance
<1>1. st.gen \in Nat /\ (st.gen = 0 <=> st = NoState)
  BY GenTypes
<1>2. st'.gen \in Nat
  BY NextGenType, Zenon
<1>3. CASE st' = st
  BY <1>1, <1>3 DEF Advance
<1>4. CASE st' # st
  <2>1. Legacy \/ st'.gen > st.gen
    BY <1>4 DEF FailApplying, CanSave
  <2> QED
    BY <1>1, <1>2, <2>1 DEF Advance, Legacy
<1> QED
  BY <1>3, <1>4

\* A failed switch leaves a parked state, or no journal.
LEMMA AdvanceFail ==
  ASSUME TypeInv, TypeInv', CompleteInv, AdvanceInv, ctl.pc \in FailPCs, FailApplying(ctl.s),
         UNCHANGED <<marker, journal>>
  PROVE  AdvanceInv' /\ Advance
<1>1. Advance
  BY FailAdvances
<1>2. ctl'.pc = "idle" /\ marker
  BY IdleFields DEF FailApplying, AdvanceInv, OwnedInv, FailPCs
<1>3. JournalValid => st'.phase = "recovery_required"
  <2>1. CASE ctl.pc \in WorkPCs
    BY <2>1, FailParks
  <2>2. CASE ctl.pc = "finalize"
    BY <2>2 DEF CompleteInv, JournalValid
  <2> QED
    BY <2>1, <2>2 DEF FailPCs, WorkPCs
<1> QED
  BY <1>1, <1>2, <1>3, AdvanceIdle DEF JournalValid

\* relayctl moves on inside its switch.
LEMMA AdvanceMove ==
  ASSUME TypeInv, AdvanceInv, UNCHANGED <<marker, st, journal>>, ctl'.s = ctl.s,
         ctl.pc \in WorkPCs \ {"journal"}, ctl'.pc \in WorkPCs \ {"journal"}
  PROVE  AdvanceInv' /\ Advance
<1>1. st.gen \in Nat
  BY GenTypes
<1> QED
  BY <1>1 DEF AdvanceInv, OwnedInv, JournalValid, Advance, WorkPCs

\* No step of relayctl takes the generation back.
LEMMA AdvanceController ==
  ASSUME TypeInv, TypeInv', CompleteInv, AdvanceInv, RepairStays, ControllerStep
  PROVE  AdvanceInv' /\ Advance
<1>0. st.gen \in Nat /\ (st.gen = 0 <=> st = NoState) /\ ctl.s.gen \in Nat
  BY GenTypes
<1>00. st'.gen \in Nat
  BY NextGenType, Zenon
<1>1. CASE FirstStateWrite
  <2>1. ctl.pc = "first" /\ ctl'.pc = "idle" /\ UNCHANGED <<marker, journal>>
    BY <1>1, IdleFields DEF FirstStateWrite
  <2>2. marker /\ st.gen = 0 /\ ~JournalValid
    BY <1>0, <2>1 DEF AdvanceInv, OwnedInv, CompleteInv, JournalValid
  <2> QED
    BY <1>0, <1>00, <2>1, <2>2, AdvanceIdle DEF Advance, JournalValid
<1>2. CASE ControlRefused \/ ControlDisconnected \/ ConfigRefused
  BY <1>2, AdvanceFail DEF ControlRefused, ControlDisconnected, ConfigRefused, FailPCs
<1>3. CASE RecoverApply
  <2>1. /\ ctl.pc = "recover" /\ UNCHANGED <<marker, journal>> /\ marker
        /\ st.phase = "recovery_required" /\ ctl.s.gen = st.gen
    BY <1>3, RecoverApplyEffects DEF AdvanceInv, OwnedInv
  <2>2. CASE st' = st /\ ctl' = Idle
    BY <1>0, <2>1, <2>2, IdleFields, AdvanceIdle DEF Advance
  <2>3. CASE ctl' # Idle \/ st' # st
    <3>1. ctl'.pc = "journal" /\ ctl'.s = st' /\ st'.gen = ctl.s.gen + 1
      BY <1>3, <2>3, RecoverApplyEffects, Zenon
    <3>2. ValidState(st')
      BY <1>3, <2>3 DEF RecoverApply
    <3> QED
      BY <1>0, <2>1, <3>1, <3>2 DEF AdvanceInv, OwnedInv, Advance, WorkPCs
  <2> QED
    BY <2>2, <2>3
<1>4. CASE WriteJournal
  <2>1. /\ ctl.pc = "journal" /\ ctl'.pc = "park" /\ ctl'.s = ctl.s
        /\ UNCHANGED <<marker, st>> /\ journal'.gen = ctl.s.gen
    BY <1>4, CtlMoves, JournalFields DEF WriteJournal
  <2>2. OwnedInv'
    BY <2>1 DEF AdvanceInv, OwnedInv
  <2>3. st = ctl.s /\ ValidState(st)
    BY <2>1 DEF AdvanceInv, WorkPCs
  <2>4. AdvanceInv'
    BY <2>1, <2>2, <2>3 DEF AdvanceInv
  <2> QED
    BY <1>0, <2>1, <2>4 DEF Advance
<1>5. CASE HealthSnapshot \/ HealthCatalog \/ HealthActive \/ HealthInteractive
           \/ ControlAuthorized \/ ConfigUnchanged
  <2>1. \E from \in WorkPCs \ {"journal"}, to \in WorkPCs \ {"journal"} : CtlStep(from, to)
    BY <1>5 DEF HealthSnapshot, HealthCatalog, HealthActive, HealthInteractive,
                ControlAuthorized, ConfigUnchanged, WorkPCs
  <2>2. UNCHANGED <<marker, st, journal>>
    BY <1>5 DEF HealthSnapshot, HealthCatalog, HealthActive, HealthInteractive,
                ControlAuthorized, ConfigUnchanged, durable
  <2> QED
    BY <2>1, <2>2, CtlMoves, AdvanceMove
<1>6. CASE ConfigMigrate \/ ConfigRoot \/ ConfigProfile
  BY <1>6, ConfigEffects, AdvanceMove DEF WorkPCs
<1>7. CASE WriteMutatedJournal
  <2>1. /\ ctl.pc = "mutated" /\ ctl'.pc = "final" /\ ctl'.s = ctl.s
        /\ UNCHANGED <<marker, st>> /\ journal'.gen = ctl.s.gen
    <3>1. ctl.pc = "mutated" /\ ctl'.pc = "final" /\ ctl'.s = ctl.s
      BY <1>7, CtlMoves DEF WriteMutatedJournal
    <3>2. UNCHANGED <<marker, st>> /\ journal'.gen = ctl.s.gen
      BY <1>7 DEF WriteMutatedJournal, NewJournal
    <3> QED
      BY <3>1, <3>2
  <2>2. OwnedInv'
    BY <2>1 DEF AdvanceInv, OwnedInv
  <2>3. st = ctl.s /\ ValidState(st)
    BY <2>1 DEF AdvanceInv, WorkPCs
  <2>4. AdvanceInv'
    BY <2>1, <2>2, <2>3 DEF AdvanceInv
  <2> QED
    BY <1>0, <2>1, <2>4 DEF Advance
<1>8. CASE SaveFinal
  <2>1. CASE FailApplying(ctl.s)
    BY <1>8, <2>1, SaveFinalEffects, AdvanceFail DEF FailPCs
  <2>2. CASE ~FailApplying(ctl.s)
    <3>1. /\ ctl.pc = "final" /\ ctl'.pc = "unlink" /\ st' = FinalState(ctl.s)
          /\ UNCHANGED <<marker, journal>>
      BY <1>8, <2>2, SaveFinalEffects
    <3>2. /\ st = ctl.s
          /\ JournalValid => journal.gen = st.gen
      BY <3>1 DEF AdvanceInv, WorkPCs
    <3>3. st'.gen = st.gen + 1
      BY <3>1, <3>2, Zenon DEF FinalState
    <3>4. OwnedInv'
      BY <3>1 DEF AdvanceInv, OwnedInv
    <3>5. AdvanceInv'
      BY <1>0, <3>1, <3>2, <3>3, <3>4, Zenon DEF AdvanceInv, JournalValid, WorkPCs
    <3> QED
      BY <1>0, <3>3, <3>5 DEF Advance
  <2> QED
    BY <2>1, <2>2
<1>9. CASE RemoveJournal
  <2>1. /\ ctl.pc = "unlink" /\ ctl'.pc = "finalize" /\ UNCHANGED <<marker, st>>
        /\ journal'.stage = "absent"
    BY <1>9, CtlMoves DEF RemoveJournal, NoJournal
  <2>2. OwnedInv'
    BY <2>1 DEF AdvanceInv, OwnedInv
  <2>3. AdvanceInv'
    BY <2>1, <2>2 DEF AdvanceInv, JournalValid, WorkPCs
  <2> QED
    BY <1>0, <2>1, <2>3 DEF Advance
<1>10. CASE Finalized
  <2>1. ctl.pc = "finalize" /\ ctl'.pc = "done" /\ UNCHANGED <<marker, st, journal>>
    BY <1>10, CtlMoves DEF Finalized, durable
  <2>2. OwnedInv'
    BY <2>1 DEF AdvanceInv, OwnedInv
  <2>3. AdvanceInv'
    BY <2>1, <2>2 DEF AdvanceInv, WorkPCs
  <2> QED
    BY <1>0, <2>1, <2>3 DEF Advance
<1>11. CASE Return \/ RepairVerified \/ RepairRestored
  <2>1. ctl.pc \in {"done", "repair"} /\ ctl'.pc = "idle" /\ UNCHANGED <<st, journal>>
    BY <1>11, IdleFields DEF Return, RepairVerified, RepairRestored, RepairStays, durable
  <2>2. marker' /\ ~JournalValid
    BY <1>11, <2>1 DEF AdvanceInv, OwnedInv, CompleteInv, JournalValid, Return,
                       RepairVerified, RepairRestored, durable
  <2> QED
    BY <1>0, <2>1, <2>2, AdvanceIdle DEF Advance, JournalValid
<1> QED
  BY <1>1, <1>2, <1>3, <1>4, <1>5, <1>6, <1>7, <1>8, <1>9, <1>10, <1>11
     DEF ControllerStep

\* relayctl dies or gives up outside the window of a recovery.
LEMMA AdvanceEnded ==
  ASSUME TypeInv, CompleteInv, AdvanceInv, JournalFollows, ctl.pc # "idle", ctl' = Idle,
         UNCHANGED durable
  PROVE  AdvanceInv' /\ Advance
<1>0. st.gen \in Nat /\ journal.gen \in Nat
  BY GenTypes DEF TypeInv, Journals
<1>1. ctl'.pc = "idle" /\ UNCHANGED <<marker, st, journal>>
  BY IdleFields DEF durable
<1>2. ctl.pc \in WorkPCs \cup {"first", "repair", "recover", "unlink", "finalize", "done"}
  BY DEF TypeInv, GoodCtl, Ctls, CtlPCs, WorkPCs
<1>3. JournalValid => st.phase = "recovery_required" \/ st.gen <= journal.gen + 1
  <2>1. CASE ctl.pc = "journal"
    BY <1>1, <2>1 DEF JournalFollows
  <2>2. CASE ctl.pc \in WorkPCs \ {"journal"}
    BY <1>0, <2>2 DEF AdvanceInv
  <2>3. CASE ctl.pc \in {"first", "repair", "finalize", "done"}
    BY <2>3 DEF CompleteInv, JournalValid
  <2>4. CASE ctl.pc \in {"recover", "unlink"}
    BY <1>0, <2>4 DEF AdvanceInv
  <2> QED
    BY <1>2, <2>1, <2>2, <2>3, <2>4
<1>4. ~marker' => st' = NoState
  BY <1>1 DEF AdvanceInv, OwnedInv
<1>5. JournalValid' => st'.phase = "recovery_required" \/ st'.gen <= journal'.gen + 1
  BY <1>1, <1>3 DEF JournalValid
<1>6. Advance
  BY <1>0, <1>1 DEF Advance
<1> QED
  BY <1>1, <1>4, <1>5, <1>6, AdvanceIdle

\* The generation advances in every step, and the journal stays close to it, as
\* long as the state file is not lost, no recovery dies in its window and no
\* repair is undone.
LEMMA AdvanceStep ==
  ASSUME "lose_state" \notin FaultKinds
  PROVE  TypeInv /\ TypeInv' /\ CompleteInv /\ AdvanceInv /\ [Next]_vars
           /\ [JournalFollows]_vars /\ [RepairStays]_vars
           => AdvanceInv' /\ [Advance]_vars
<1> SUFFICES ASSUME TypeInv, TypeInv', CompleteInv, AdvanceInv, [Next]_vars,
                    [JournalFollows]_vars, [RepairStays]_vars
             PROVE  AdvanceInv' /\ [Advance]_vars
  OBVIOUS
<1>1. CASE UNCHANGED vars
  BY <1>1 DEF vars, AdvanceInv, OwnedInv, JournalValid
<1> SUFFICES ASSUME Next, JournalFollows, RepairStays PROVE AdvanceInv' /\ Advance
  BY <1>1
<1>2. CASE \/ RelayStart \/ WatcherStep \/ SwapStep \/ CatalogLoop \/ CatalogStops
           \/ \E r \in Requests : ReqEnter(r) \/ RequestStep(r)
  BY <1>2, RelayEffects, AdvanceFrame, AdvanceMove DEF durable, WorkPCs
<1>3. CASE Faults
  <2>0. FaultEffect /\ ~LoseState
    BY <1>3, FaultEffects DEF LoseState, Fault
  <2>1. CASE ctl.pc \in FailPCs /\ FailApplying(ctl.s) /\ UNCHANGED <<marker, journal>>
    BY <2>1, AdvanceFail
  <2>2. CASE ctl.pc # "idle" /\ ctl' = Idle /\ UNCHANGED durable
    BY <2>2, AdvanceEnded
  <2>3. CASE UNCHANGED <<marker, st, journal, ctl>>
    BY <2>3, AdvanceFrame
  <2>4. CASE /\ journal.stage # "absent" /\ journal'.stage \in {"absent", "corrupt"}
             /\ UNCHANGED <<marker, st, codex, ctl>>
    <3>1. OwnedInv' /\ ~JournalValid'
      BY <2>4 DEF AdvanceInv, OwnedInv, JournalValid
    <3>2. AdvanceInv'
      BY <2>4, <3>1 DEF AdvanceInv, ValidState
    <3> QED
      BY <2>4, <3>2, GenTypes DEF Advance
  <2>5. CASE ctl.pc = "repair" /\ ctl' = Idle /\ UNCHANGED <<marker, journal, codex>>
    BY <2>5, AdvanceEnded, IdleFields DEF RepairStays, durable
  <2> QED
    BY <2>0, <2>1, <2>2, <2>3, <2>4, <2>5 DEF FaultEffect, durable
<1> QED
  BY <1>2, <1>3, AdvanceOperations, AdvanceController DEF Next

\* The generation of the state file goes back only when the file is lost, when
\* relayctl is killed in a recovery that has replaced the state and not yet
\* rewritten the journal (a later Recover then counts from the old journal), or
\* when RepairNative finds the files changed behind its commit and puts the
\* parked state back.
THEOREM GenerationsGoBackOnlyThere ==
  ASSUME "lose_state" \notin FaultKinds
  PROVE  Spec /\ RecoveriesJournalled /\ RepairsStand => GenerationsAdvance
<1>1. TypeInv /\ TypeInv' /\ CompleteInv /\ AdvanceInv /\ [Next]_vars
        /\ [JournalFollows]_vars /\ [RepairStays]_vars
        => AdvanceInv' /\ [Advance]_vars
  BY AdvanceStep
<1> QED
  BY <1>1, TypeInvAlways, SwitchInit, SwitchStep, CompleteInit, CompleteStep, AdvanceInit, PTL
     DEF Spec, RecoveriesJournalled, RepairsStand, GenerationsAdvance

-----------------------------------------------------------------------------
(* Every admitted request is at the backend Codex is configured for, as    *)
(* long as the runtime is not one that a late control handler swapped in.  *)
(* Any other runtime that differs from the Codex files exists behind a     *)
(* shut data plane only (ShutInv), and relayctl writes them only after its *)
(* own swap (SwapInv).  As for the drain the generation must not go back.  *)

AllIdle == \A r \in Requests : req[r].pc = "idle"

\* Nothing is admitted, in memory or on disk.
Shut == Closed /\ ~AllowsDataPlane(st) /\ st # NoState /\ NoneAdmitted

\* The runtime serves b, or nothing at all, or is a late one.
Serves(b) == slot.late \/ slot.profile = b \/ (slot.admission # "active" /\ AllIdle)

Agree == codex.root \in RelayBackends => Serves(codex.root)

\* The steps of a switch after the runtime was swapped.
SwappedPCs == {"config", "profile", "mutated", "final"}

\* A request keeps the slot it entered; a relay that is not up has none.
SlotInv ==
  /\ \A r \in Requests : req[r].pc # "idle" => req[r].profile = slot.profile
  /\ up # "up" => AllIdle /\ handlers = {} /\ slot.admission = "paused"

\* A runtime that differs from the Codex files exists behind a shut data plane.
ShutInv == ~Agree => Shut

\* After the swap of the running switch the runtime is its target's, whatever
\* other handlers are still to come.
SwapInv == ctl.pc \in SwappedPCs => Serves(ctl.s.desired)

\* What the Codex root is while a switch writes it, before any state exists, and
\* when a pass of the watcher that will open admission has compared it.
RootInv ==
  /\ ctl.pc \in SwappedPCs \ {"config"} /\ codex.root \in RelayBackends =>
       codex.root = ctl.s.desired
  /\ st = NoState => /\ ctl.pc \in {"idle", "first"}
                     /\ codex.root \in RelayBackends => codex.root = "external"
  /\ watch.pc # "idle" /\ watch.legacy /\ ~watch.bad =>
       /\ watch.s = NewRelayState
       /\ codex.root \in RelayBackends => codex.root = "external"
  /\ watch.pc = "drift" /\ ~watch.legacy /\ ~WatchCloses /\ codex.root \in RelayBackends =>
       codex.root = watch.s.applied

ServeInv == SlotInv /\ ShutInv /\ SwapInv /\ RootInv

\* An untouched installation and a relay that is down.
LEMMA ServeInit == Init => ServeInv
<1> SUFFICES ASSUME Init PROVE ServeInv
  OBVIOUS
<1>1. AllIdle /\ handlers = {} /\ slot.admission = "paused"
  BY DEF Init, AllIdle, ReqIdle, SlotFor
<1>2. Agree
  BY <1>1 DEF Agree, Serves
<1>3. ctl.pc = "idle" /\ watch.pc = "idle" /\ st = NoState
  BY DEF Init, Idle, WatchIdle
<1>4. codex.root \in RelayBackends => codex.root = "external"
  BY DEF Init, RelayBackends
<1>6. SlotInv
  BY <1>1 DEF SlotInv, AllIdle
<1>7. SwapInv
  BY <1>3 DEF SwapInv, SwappedPCs
<1> QED
  BY <1>1, <1>2, <1>3, <1>4, <1>6, <1>7 DEF ServeInv, ShutInv, RootInv, SwappedPCs

\* A step of relayctl that leaves the relay and the Codex files alone, does not
\* open the state and ends before the swap of a switch or after its end.
LEMMA ServeOutside ==
  ASSUME ServeInv,
         UNCHANGED <<up, snap, watch, slot, req, handlers, codex>>,
         ctl'.pc \notin SwappedPCs,
         st' = NoState => st = NoState /\ ctl'.pc \in {"idle", "first"},
         AllowsDataPlane(st') => AllowsDataPlane(st) \/ st = NoState \/ Agree
  PROVE  ServeInv'
<1>2. /\ AllIdle' <=> AllIdle
      /\ Closed' <=> Closed
      /\ NoneAdmitted' <=> NoneAdmitted
      /\ Agree' <=> Agree
  BY Zenon DEF AllIdle, Closed, SnapAllows, WatchCloses, NoneAdmitted, Agree, Serves
<1>3. SlotInv'
  BY <1>2 DEF ServeInv, SlotInv
<1>4. ShutInv'
  BY <1>2 DEF ServeInv, ShutInv, Shut
<1>5. SwapInv'
  BY DEF SwapInv
<1>6. RootInv'
  BY Zenon DEF ServeInv, RootInv, WatchCloses
<1> QED
  BY <1>3, <1>4, <1>5, <1>6 DEF ServeInv

\* A step that takes relayctl into applying.
LEMMA ServeBegin ==
  ASSUME ServeInv, UNCHANGED <<up, snap, watch, slot, req, handlers, codex>>,
         ctl'.pc = "journal", st'.phase = "applying"
  PROVE  ServeInv'
<1>1. st' # NoState /\ ~AllowsDataPlane(st')
  BY DEF NoState, AllowsDataPlane
<1> QED
  BY <1>1, ServeOutside DEF SwappedPCs

\* An operation that saves one state opens the data plane only where it was open
\* already, or where there was no state yet.
LEMMA SaveOpens ==
  ASSUME TypeInv,
         \/ \E b \in Backends, intent \in BOOLEAN : Request(b, intent)
         \/ SeedNativeParked \/ Cancel \/ RepairNative,
         AllowsDataPlane(st')
  PROVE  AllowsDataPlane(st) \/ st = NoState
<1> SUFFICES ASSUME st # NoState PROVE AllowsDataPlane(st)
  OBVIOUS
<1>0. ~Legacy
  BY DEF Legacy
<1>1. CASE \E b \in Backends, intent \in BOOLEAN : Request(b, intent)
  <2> PICK b \in Backends, intent \in BOOLEAN : Request(b, intent)
    BY <1>1
  <2>1. PICK next : CanSave(next) /\ SaveOrFirst(next)
    BY Zenon DEF Request
  <2>2. st.phase \in StablePhases
    BY <1>0, Zenon DEF Request, BoundState
  <2>3. st' = st \/ ValidTransition(st, st')
    BY <1>0, <2>1 DEF SaveOrFirst, CanSave
  <2> QED
    BY <2>2, <2>3 DEF ValidTransition, AllowsDataPlane, StablePhases, PendingPhases,
                      ActivePhases
<1>2. CASE SeedNativeParked
  BY <1>0, <1>2 DEF SeedNativeParked
<1>3. CASE Cancel
  BY <1>0, <1>3 DEF Cancel, CanSave, PendingPhases, ValidTransition, AllowsDataPlane
<1>4. CASE RepairNative
  BY <1>4, RepairedGood DEF RepairNative, TypeInv, GoodState
<1> QED
  BY <1>1, <1>2, <1>3, <1>4

\* The first state is saved only where there was none, and no state is unmade.
LEMMA ValidIsState ==
  ASSUME NEW s, ValidState(s)
  PROVE  s # NoState
BY DEF ValidState, NoState

\* Each operation keeps the data plane shut where it has to be.
LEMMA ServeOperations ==
  ASSUME TypeInv, TypeInv', ServeInv, Operations
  PROVE  ServeInv'
<1>0. UNCHANGED <<up, snap, watch, slot, req, handlers, codex>>
  BY Zenon DEF Operations, Request, SeedNativeParked, Cancel, RepairNative, Apply,
         RecoverObserved, RecoverFromJournal, relay
<1>1. CASE \/ \E b \in Backends, intent \in BOOLEAN : Request(b, intent)
           \/ SeedNativeParked \/ Cancel \/ RepairNative
  <2>1. AllowsDataPlane(st') => AllowsDataPlane(st) \/ st = NoState
    BY <1>1, SaveOpens
  <2>2. /\ ctl'.pc \in {"idle", "first", "repair"}
        /\ st' = NoState => st = NoState /\ ctl'.pc \in {"idle", "first"}
    BY <1>1, SaveEffects, ValidIsState
  <2> QED
    BY <1>0, <2>1, <2>2, ServeOutside DEF SwappedPCs
<1>2. CASE Apply
  BY <1>0, <1>2, ApplyEffects, ServeBegin, Zenon
<1>3. CASE RecoverObserved \/ \E action \in {"complete", "rollback"}, desktopExited \in BOOLEAN :
                                RecoverFromJournal(action, desktopExited)
  <2>1. st'.phase = "recovery_required" /\ ctl'.pc \in {"idle", "recover"}
    BY <1>3, ObservedEffects, JournalEffects, Zenon
  <2>2. st' # NoState /\ ~AllowsDataPlane(st')
    BY <2>1 DEF NoState, AllowsDataPlane
  <2> QED
    BY <1>0, <2>1, <2>2, ServeOutside DEF SwappedPCs
<1> QED
  BY <1>1, <1>2, <1>3 DEF Operations

\* failApplyingLocked parks the state and leaves the data plane as it was.  The
\* Codex files may have changed behind a shut data plane.
LEMMA ServeFail ==
  ASSUME TypeInv, TypeInv', ServeInv, FailApplying(ctl.s), ctl.pc \in FailPCs,
         UNCHANGED <<up, snap, watch, slot, req, handlers>>,
         codex' = codex \/ (Shut /\ ~(watch.pc # "idle" /\ watch.legacy /\ ~watch.bad))
  PROVE  ServeInv'
<1>1. /\ ctl'.pc = "idle"
      /\ \/ st' = st
         \/ st'.phase = "recovery_required" /\ st' \in States
  BY FailEffects DEF FailPCs
<1>2. st # NoState
  BY DEF ServeInv, RootInv, FailPCs
<1>3. st' # NoState /\ (AllowsDataPlane(st') => AllowsDataPlane(st))
  BY <1>1, <1>2 DEF NoState, AllowsDataPlane
<1>4. CASE codex' = codex
  BY <1>1, <1>2, <1>3, <1>4, ServeOutside DEF SwappedPCs
<1>5. CASE codex' # codex
  <2>1. (AllIdle' <=> AllIdle) /\ Shut'
    BY <1>3, <1>5 DEF AllIdle, Closed, SnapAllows, WatchCloses, NoneAdmitted, Shut
  <2>2. SlotInv' /\ ShutInv'
    BY <2>1, Zenon DEF ServeInv, SlotInv, ShutInv
  <2>3. SwapInv'
    BY <1>1 DEF SwapInv, SwappedPCs
  <2>4. RootInv'
    BY <1>1, <1>3, <1>5, <2>1 DEF RootInv, SwappedPCs, Shut, Closed
  <2> QED
    BY <2>2, <2>3, <2>4 DEF ServeInv
<1> QED
  BY <1>4, <1>5

\* relayctl moves on, and neither the state, nor the relay, nor the root changes;
\* a new control request becomes a handler.
LEMMA ServeMove ==
  ASSUME ServeInv, UNCHANGED <<st, up, snap, watch, slot, req>>,
         handlers' = handlers \/ up = "up",
         codex'.root = codex.root, ctl'.s = ctl.s,
         ctl.pc \notin {"idle", "first"}, ctl'.pc \notin {"idle", "first"},
         ctl'.pc \in SwappedPCs => ctl.pc \in SwappedPCs,
         ctl'.pc \in SwappedPCs \ {"config"} /\ codex.root \in RelayBackends =>
           codex.root = ctl.s.desired
  PROVE  ServeInv'
<1>1. /\ AllIdle' <=> AllIdle
      /\ Shut' <=> Shut
      /\ Agree' <=> Agree
      /\ Serves(ctl.s.desired)' <=> Serves(ctl.s.desired)
  BY Zenon DEF AllIdle, Closed, SnapAllows, WatchCloses, NoneAdmitted, Agree, Serves, Shut
<1>2. SlotInv' /\ ShutInv'
  BY <1>1, Zenon DEF ServeInv, SlotInv, ShutInv
<1>3. SwapInv'
  BY <1>1, Zenon DEF ServeInv, SwapInv
<1>4. RootInv'
  BY Zenon DEF ServeInv, RootInv, WatchCloses
<1> QED
  BY <1>2, <1>3, <1>4 DEF ServeInv

\* While relayctl works on the Codex files the data plane is shut, and no pass of
\* the watcher over a missing state is under way.
LEMMA WorkShut ==
  ASSUME TypeInv, GenInv, TrafficInv, ServeInv, ctl.pc \in DrainedPCs
  PROVE  Shut /\ ~(watch.pc # "idle" /\ watch.legacy /\ ~watch.bad)
<1>1. ctl.pc \in WorkPCs /\ ctl.pc \in ParkPCs
  BY DEF DrainedPCs, QuietPCs, ParkPCs
<1>2. st.phase = "applying" /\ Closed /\ NoneAdmitted
  BY <1>1 DEF GenInv, TrafficInv
<1>3. Shut
  BY <1>2 DEF Shut, AllowsDataPlane, NoState
<1>4. AllowsDataPlane(NewRelayState)
  BY DEF AllowsDataPlane, NewRelayState
<1>5. watch.pc # "idle" /\ watch.legacy /\ ~watch.bad => watch.s = NewRelayState
  BY DEF ServeInv, RootInv
<1> QED
  BY <1>2, <1>3, <1>4, <1>5 DEF Closed, WatchCloses

\* A step of the config writers inside a shut switch.
LEMMA ServeWrite ==
  ASSUME TypeInv, ServeInv, Shut, ~(watch.pc # "idle" /\ watch.legacy /\ ~watch.bad),
         UNCHANGED <<st, up, snap, watch, slot, req, handlers>>,
         ctl'.s = ctl.s, ctl.pc \in SwappedPCs, ctl'.pc \in SwappedPCs,
         ctl'.pc # "config" /\ codex'.root \in RelayBackends => codex'.root = ctl.s.desired
  PROVE  ServeInv'
<1>1. /\ AllIdle' <=> AllIdle
      /\ Shut'
      /\ Serves(ctl.s.desired)' <=> Serves(ctl.s.desired)
  BY DEF AllIdle, Closed, SnapAllows, WatchCloses, NoneAdmitted, Serves, Shut
<1>2. SlotInv' /\ ShutInv'
  BY <1>1 DEF ServeInv, SlotInv, ShutInv
<1>3. SwapInv'
  BY <1>1 DEF ServeInv, SwapInv
<1>4. RootInv'
  BY <1>1 DEF ServeInv, RootInv, Shut, Closed
<1> QED
  BY <1>2, <1>3, <1>4 DEF ServeInv

\* Only an owner writes a state.
LEMMA OwnedStep == TypeInv /\ TypeInv' /\ OwnedInv /\ [Next]_vars => OwnedInv'
<1> SUFFICES ASSUME TypeInv, TypeInv', OwnedInv, [Next]_vars PROVE OwnedInv'
  OBVIOUS
<1> USE DEF OwnedInv
<1>1. CASE UNCHANGED vars
  BY <1>1 DEF vars
<1>2. CASE Operations
  <2>1. CASE \/ \E b \in Backends, intent \in BOOLEAN : Request(b, intent)
             \/ SeedNativeParked \/ Cancel \/ RepairNative
    BY <2>1, SaveAdvances
  <2>2. CASE Apply
    <3>1. st # NoState /\ marker' = marker /\ ctl'.pc = "journal"
      BY <2>2, ApplyEffects, ConstantTypes DEF Apply
    <3> QED
      BY <3>1
  <2>3. CASE RecoverObserved \/ \E action \in {"complete", "rollback"},
                                   desktopExited \in BOOLEAN :
                                  RecoverFromJournal(action, desktopExited)
    <3>1. marker' /\ ctl'.pc \in {"idle", "recover"}
      BY <2>3, ObservedEffects, JournalEffects, Zenon DEF RecoverObserved, RecoverFromJournal
    <3> QED
      BY <3>1
  <2> QED
    BY <1>2, <2>1, <2>2, <2>3 DEF Operations
<1>3. CASE ControllerStep
  <2>1. (marker' = marker \/ marker') /\ ctl.pc # "idle"
    BY <1>3 DEF ControllerStep, FirstStateWrite, RepairVerified, RepairRestored, RecoverApply, WriteJournal, HealthSnapshot,
           HealthCatalog, HealthActive, HealthInteractive, ControlAuthorized, ControlRefused,
           ControlDisconnected, ConfigUnchanged, ConfigMigrate, ConfigRoot, ConfigRefused,
           ConfigProfile, WriteMutatedJournal, SaveFinal, RemoveJournal, Finalized, Return,
           CtlStep, durable
  <2>2. ctl'.pc # "first"
    <3>1. CASE \/ FirstStateWrite \/ ControlRefused \/ ControlDisconnected
               \/ ConfigRefused \/ Return \/ RepairVerified \/ RepairRestored
      BY <3>1, IdleFields DEF FirstStateWrite, ControlRefused, ControlDisconnected,
                              ConfigRefused, Return, RepairVerified, RepairRestored,
                              FailApplying
    <3>2. CASE RecoverApply
      BY <3>2, RecoverApplyEffects, IdleFields
    <3>3. CASE ConfigMigrate \/ ConfigRoot \/ ConfigProfile
      BY <3>3, ConfigEffects
    <3>4. CASE SaveFinal
      BY <3>4, SaveFinalEffects, IdleFields DEF FailApplying
    <3>5. CASE \/ WriteJournal \/ HealthSnapshot \/ HealthCatalog \/ HealthActive
               \/ HealthInteractive \/ ControlAuthorized \/ ConfigUnchanged
               \/ WriteMutatedJournal \/ RemoveJournal \/ Finalized
      <4>1. \E from, to : CtlStep(from, to) /\ to # "first"
        BY <3>5 DEF WriteJournal, HealthSnapshot, HealthCatalog, HealthActive,
                    HealthInteractive, ControlAuthorized, ConfigUnchanged,
                    WriteMutatedJournal, RemoveJournal, Finalized
      <4> QED
        BY <4>1, CtlMoves
    <3> QED
      BY <1>3, <3>1, <3>2, <3>3, <3>4, <3>5 DEF ControllerStep
  <2> QED
    BY <2>1, <2>2
<1>4. CASE \/ RelayStart \/ WatcherStep \/ SwapStep \/ CatalogLoop \/ CatalogStops
           \/ \E r \in Requests : ReqEnter(r) \/ RequestStep(r)
  BY <1>4, RelayEffects DEF durable
<1>5. CASE Faults
  <2>1. FaultEffect
    BY <1>5, FaultEffects
  <2> QED
    BY <2>1, IdleFields DEF FaultEffect, durable, FailApplying, FailPCs
<1> QED
  BY <1>1, <1>2, <1>3, <1>4, <1>5 DEF Next

\* RepairNative puts the parked state back.
LEMMA RestoreShuts ==
  ASSUME TypeInv, ServeInv, UNCHANGED <<up, snap, watch, slot, req, handlers, codex>>,
         ctl.pc = "repair", st' = ctl.s, ctl' = Idle
  PROVE  ServeInv'
<1>1. ctl'.pc = "idle" /\ st'.phase = "recovery_required"
  BY IdleFields DEF TypeInv, GoodCtl
<1>2. st' # NoState /\ ~AllowsDataPlane(st')
  BY <1>1 DEF NoState, AllowsDataPlane
<1> QED
  BY <1>1, <1>2, ServeOutside DEF SwappedPCs

\* Each step of relayctl keeps the runtime and the Codex files together, or the
\* data plane shut.
LEMMA ServeController ==
  ASSUME TypeInv, TypeInv', OwnedInv, GenInv, TrafficInv, ServeInv, ControllerStep
  PROVE  ServeInv'
<1>0. /\ UNCHANGED <<up, snap, watch, slot, req>>
      /\ ~ControlAuthorized => handlers' = handlers
  BY RelayUntouched
<1>1. CASE FirstStateWrite
  <2>1. ctl'.pc = "idle" /\ UNCHANGED <<codex, handlers>> /\ st' = ctl.s /\ ctl.s \in States
    BY <1>1, IdleFields DEF FirstStateWrite, relay, TypeInv, GoodCtl
  <2>2. st' # NoState /\ st = NoState
    BY <1>1, <2>1, ConstantTypes DEF OwnedInv, FirstStateWrite
  <2> QED
    BY <1>0, <2>1, <2>2, ServeOutside DEF SwappedPCs
<1>2. CASE ControlRefused \/ ControlDisconnected
  BY <1>0, <1>2, ServeFail DEF ControlRefused, ControlDisconnected, FailPCs, relay
<1>3. CASE ConfigRefused
  <2>1. ctl.pc = "config" /\ FailApplying(ctl.s) /\ handlers' = handlers
    BY <1>3 DEF ConfigRefused, relay
  <2>2. Shut /\ ~(watch.pc # "idle" /\ watch.legacy /\ ~watch.bad)
    BY <2>1, WorkShut DEF DrainedPCs, QuietPCs, ParkPCs, WorkPCs
  <2> QED
    BY <1>0, <2>1, <2>2, ServeFail DEF FailPCs
<1>4. CASE RecoverApply
  <2>1. /\ ctl.pc = "recover" /\ UNCHANGED <<codex, handlers>>
    BY <1>4, RecoverApplyEffects, Zenon DEF relay
  <2>2. CASE st' = st /\ ctl' = Idle
    BY <1>0, <2>1, <2>2, IdleFields, ServeOutside, Zenon DEF SwappedPCs
  <2>3. CASE ctl' # Idle \/ st' # st
    BY <1>0, <1>4, <2>1, <2>3, RecoverApplyEffects, ServeBegin
  <2> QED
    BY <2>2, <2>3
<1>5. CASE \/ WriteJournal \/ HealthSnapshot \/ HealthCatalog \/ HealthActive
           \/ HealthInteractive \/ ControlAuthorized
  <2> DEFINE Early == {"journal", "park", "park_catalog", "park_active", "park_interactive",
                       "control", "swap"}
  <2>1. \E from \in Early, to \in Early : CtlStep(from, to)
    BY <1>5 DEF WriteJournal, HealthSnapshot, HealthCatalog, HealthActive, HealthInteractive,
                ControlAuthorized
  <2>2. UNCHANGED <<st, codex>> /\ (handlers' = handlers \/ up = "up")
    BY <1>5 DEF WriteJournal, HealthSnapshot, HealthCatalog, HealthActive, HealthInteractive,
                ControlAuthorized, Authorizes, durable, relay
  <2>3. ctl.pc \in Early /\ ctl'.pc \in Early /\ ctl'.s = ctl.s
    BY <2>1, CtlMoves
  <2>4. Early \cap ({"idle", "first"} \cup SwappedPCs) = {}
    BY DEF SwappedPCs
  <2> HIDE DEF Early
  <2> QED
    BY <1>0, <2>2, <2>3, <2>4, ServeMove
<1>7. CASE ConfigUnchanged \/ WriteMutatedJournal
  <2>1. /\ \/ ctl.pc = "config" /\ ctl'.pc = "mutated"
           \/ ctl.pc = "mutated" /\ ctl'.pc = "final"
        /\ ctl'.s = ctl.s /\ UNCHANGED <<st, codex, handlers>>
    BY <1>7, CtlMoves, Zenon DEF ConfigUnchanged, WriteMutatedJournal, durable, relay
  <2>2. codex.root \in RelayBackends => codex.root = ctl.s.desired
    <3>1. CASE ConfigUnchanged
      BY <3>1 DEF ConfigUnchanged, Matches
    <3>2. CASE WriteMutatedJournal
      <4>1. ctl.pc = "mutated"
        BY <3>2 DEF WriteMutatedJournal, CtlStep
      <4> QED
        BY <4>1 DEF ServeInv, RootInv, SwappedPCs
    <3> QED
      BY <1>7, <3>1, <3>2
  <2> QED
    BY <1>0, <2>1, <2>2, ServeMove, Zenon DEF SwappedPCs
<1>8. CASE ConfigMigrate \/ ConfigRoot \/ ConfigProfile
  <2>1. /\ ctl.pc \in {"config", "profile"} /\ ctl'.pc \in SwappedPCs /\ ctl'.s = ctl.s
        /\ UNCHANGED <<st, handlers>>
    BY <1>8, ConfigEffects DEF SwappedPCs, relay
  <2>2. Shut /\ ~(watch.pc # "idle" /\ watch.legacy /\ ~watch.bad)
    BY <2>1, WorkShut DEF DrainedPCs, QuietPCs, ParkPCs, WorkPCs
  <2>3. ctl'.pc # "config" /\ codex'.root \in RelayBackends => codex'.root = ctl.s.desired
    <3>1. CASE ConfigMigrate
      BY <3>1, ConfigEffects
    <3>2. CASE ConfigRoot
      BY <3>2 DEF ConfigRoot, TypeInv, Artifacts, ManagedRoot, RelayBackends
    <3>3. CASE ConfigProfile
      <4>1. codex'.root = codex.root /\ ctl.pc = "profile"
        BY <3>3 DEF ConfigProfile, TypeInv, Artifacts
      <4> QED
        BY <4>1 DEF ServeInv, RootInv, SwappedPCs
    <3> QED
      BY <1>8, <3>1, <3>2, <3>3
  <2> QED
    BY <1>0, <2>1, <2>2, <2>3, ServeWrite, Zenon DEF SwappedPCs
<1>9. CASE SaveFinal
  <2>1. CASE FailApplying(ctl.s)
    BY <1>0, <1>9, <2>1, SaveFinalEffects, ServeFail DEF FailPCs, relay
  <2>2. CASE ~FailApplying(ctl.s)
    <3>1. /\ ctl.pc = "final" /\ ctl'.pc = "unlink" /\ UNCHANGED <<codex, handlers>>
          /\ ValidState(st')
      BY <1>9, <2>2, SaveFinalEffects DEF relay
    <3>2. Agree
      BY <3>1 DEF ServeInv, SwapInv, RootInv, SwappedPCs, Agree
    <3> QED
      BY <1>0, <3>1, <3>2, ValidIsState, ServeOutside DEF SwappedPCs
  <2> QED
    BY <2>1, <2>2
<1>10. CASE RemoveJournal \/ Finalized \/ Return \/ RepairVerified
  <2>1. /\ ctl.pc \notin {"idle", "first"} /\ ctl'.pc \in {"finalize", "done", "idle"}
        /\ UNCHANGED <<st, codex, handlers>>
    <3>1. CASE RemoveJournal
      BY <3>1, CtlMoves DEF RemoveJournal, relay
    <3>2. CASE Finalized
      BY <3>2, CtlMoves DEF Finalized, durable, relay
    <3>3. CASE Return \/ RepairVerified
      BY <3>3, IdleFields, Zenon DEF Return, RepairVerified, durable, relay
    <3> QED
      BY <1>10, <3>1, <3>2, <3>3
  <2>2. st # NoState
    BY <2>1 DEF ServeInv, RootInv
  <2> QED
    BY <1>0, <2>1, <2>2, ServeOutside DEF SwappedPCs
<1>11. CASE RepairRestored
  BY <1>0, <1>11, RestoreShuts DEF RepairRestored, relay
<1> QED
  BY <1>1, <1>2, <1>3, <1>4, <1>5, <1>7, <1>8, <1>9, <1>10, <1>11 DEF ControllerStep

\* A pass that goes on to open admission has found the files of its backend.
LEMMA CheckDriftAgrees ==
  ASSUME TypeInv, WatchCheckDrift, ~watch'.legacy, ~WatchCloses'
  PROVE  Matches(codex, watch'.s.applied)
<1>1. ~Drifted /\ ~watch.legacy /\ watch'.s = watch.s /\ AllowsDataPlane(watch.s)
  BY CheckDriftFields DEF WatchCloses
<1>2. watch.s.phase \in StablePhases
  BY <1>1 DEF AllowsDataPlane, StablePhases, ActivePhases, PendingPhases
<1> QED
  BY <1>1, <1>2 DEF Drifted

\* The relay starts a runtime for the backend of the Codex files only: the first
\* pass has compared them with the state, or there is no state and the files are
\* the untouched ones.
LEMMA StartAgrees ==
  ASSUME TypeInv, ServeInv, WatchPublish, InitialBackend(Observed) # "none",
         codex.root \in RelayBackends
  PROVE  InitialBackend(Observed) = codex.root
<1>1. ~Observed.invalid /\ AllowsDataPlane(Observed.s)
      /\ InitialBackend(Observed) = Observed.s.applied
  BY DEF InitialBackend
<1>2. ~watch.bad /\ Observed.s = watch.s /\ watch.pc # "idle"
  BY <1>1, PublishedPass DEF Observed, InvalidSnapshot
<1>3. ~WatchCloses
  BY <1>1, <1>2 DEF WatchCloses
<1>4. CASE ~watch.legacy
  <2>1. watch.pc = "drift"
    BY <1>3, <1>4, PublishedPass
  <2> QED
    BY <1>1, <1>2, <1>3, <1>4, <2>1 DEF ServeInv, RootInv
<1>5. CASE watch.legacy
  <2>1. watch.s = NewRelayState /\ codex.root = "external"
    BY <1>2, <1>5 DEF ServeInv, RootInv
  <2> QED
    BY <1>1, <1>2, <2>1 DEF NewRelayState
<1> QED
  BY <1>4, <1>5

\* A pass of the watcher opens nothing behind which the runtime and the Codex
\* files differ.
LEMMA ServeWatcher ==
  ASSUME TypeInv, TrafficInv, ServeInv, WatcherStep
  PROVE  ServeInv'
<1>0. UNCHANGED <<st, ctl, codex, handlers, req>>
  BY DEF WatcherStep, WatchReadState, WatchReadJournal, WatchCheckDrift, WatchPublish, durable
<1>c. /\ AllIdle' <=> AllIdle
      /\ NoneAdmitted' <=> NoneAdmitted
  BY <1>0 DEF AllIdle, NoneAdmitted
<1>s. ASSUME UNCHANGED slot
      PROVE  (Agree' <=> Agree) /\ SwapInv'
  BY <1>0, <1>c, <1>s DEF Agree, Serves, ServeInv, SwapInv
<1>1. CASE WatchReadState
  <2>1. /\ watch'.s = (IF st = NoState THEN NewRelayState ELSE st) /\ watch'.pc = "state"
        /\ watch'.legacy = Legacy /\ UNCHANGED <<snap, up, slot>>
    BY <1>1 DEF WatchReadState
  <2>2. SlotInv'
    BY <1>0, <1>c, <2>1 DEF ServeInv, SlotInv
  <2>3. Shut => Shut'
    BY <1>0, <1>c, <2>1 DEF Shut, Closed, SnapAllows, WatchCloses
  <2>4. ShutInv'
    BY <1>s, <2>1, <2>3 DEF ServeInv, ShutInv
  <2>5. RootInv'
    BY <1>0, <2>1, Zenon DEF ServeInv, RootInv, Legacy
  <2> QED
    BY <1>s, <2>1, <2>2, <2>4, <2>5 DEF ServeInv
<1>2. CASE WatchReadJournal
  <2>1. UNCHANGED <<snap, up, slot>>
    BY <1>2 DEF WatchReadJournal
  <2>2. SlotInv'
    BY <1>0, <1>c, <2>1 DEF ServeInv, SlotInv
  <2>3. Shut => Shut'
    BY <1>0, <1>2, <1>c, <2>1, ReadJournalFields DEF Shut, Closed, SnapAllows, WatchCloses
  <2>4. ShutInv'
    BY <1>s, <2>1, <2>3 DEF ServeInv, ShutInv
  <2>5. RootInv'
    BY <1>0, <1>2, ReadJournalFields DEF ServeInv, RootInv
  <2> QED
    BY <1>s, <2>1, <2>2, <2>4, <2>5 DEF ServeInv
<1>3. CASE WatchCheckDrift
  <2>1. UNCHANGED <<snap, up, slot>>
    BY <1>3 DEF WatchCheckDrift
  <2>2. SlotInv'
    BY <1>0, <1>c, <2>1 DEF ServeInv, SlotInv
  <2>3. Shut => Shut'
    BY <1>0, <1>3, <1>c, <2>1, CheckDriftFields DEF Shut, Closed, SnapAllows, WatchCloses
  <2>4. ShutInv'
    BY <1>s, <2>1, <2>3 DEF ServeInv, ShutInv
  <2>5. ~watch'.legacy /\ ~WatchCloses' => Matches(codex, watch'.s.applied)
    BY <1>3, CheckDriftAgrees
  <2>6. RootInv'
    BY <1>0, <1>3, <2>5, CheckDriftFields DEF ServeInv, RootInv, Matches
  <2> QED
    BY <1>s, <2>1, <2>2, <2>4, <2>6 DEF ServeInv
<1>4. CASE WatchPublish /\ up # "starting"
  <2>1. watch'.pc = "idle" /\ up' = "up" /\ UNCHANGED slot /\ watch.pc # "idle"
    BY <1>4, PublishedPass DEF WatchPublish
  <2>2. SlotInv'
    BY <1>0, <2>1 DEF ServeInv, SlotInv
  <2>3. Shut => Shut'
    BY <1>0, <1>4, <1>c, <2>1, PublishCloses DEF Shut, Closed
  <2>4. ShutInv'
    BY <1>s, <2>1, <2>3 DEF ServeInv, ShutInv
  <2>5. RootInv'
    BY <1>0, <2>1, Zenon DEF ServeInv, RootInv
  <2> QED
    BY <1>s, <2>1, <2>2, <2>4, <2>5 DEF ServeInv
<1>5. CASE WatchPublish /\ up = "starting"
  <2>1. /\ watch'.pc = "idle" /\ up' = "up" /\ watch.pc # "idle"
        /\ slot' = SlotFor(InitialBackend(Observed))
    BY <1>5, PublishedPass DEF WatchPublish
  <2>2. AllIdle
    BY <1>5 DEF ServeInv, SlotInv
  <2>3. /\ slot'.profile = InitialBackend(Observed)
        /\ slot'.admission = IF InitialBackend(Observed) = "none" THEN "paused" ELSE "active"
    BY <2>1 DEF SlotFor
  <2>5. Agree'
    BY <1>0, <1>5, <1>c, <2>2, <2>3, StartAgrees DEF Agree, Serves
  <2>6. SlotInv' /\ ShutInv'
    BY <1>0, <1>c, <2>1, <2>2, <2>5 DEF SlotInv, ShutInv, AllIdle
  <2>7. ctl.pc \in SwappedPCs => Serves(ctl.s.desired)'
    <3> SUFFICES ASSUME ctl.pc \in SwappedPCs PROVE Serves(ctl.s.desired)'
      OBVIOUS
    <3>1. WatchCloses
      BY <2>1 DEF TrafficInv, Closed, ParkPCs, WorkPCs, SwappedPCs
    <3>2. InitialBackend(Observed) = "none"
      BY <3>1 DEF InitialBackend, Observed, WatchCloses, InvalidSnapshot
    <3> QED
      BY <1>c, <2>2, <2>3, <3>2 DEF Serves
  <2>8. SwapInv'
    BY <1>0, <2>7 DEF SwapInv
  <2>9. RootInv'
    BY <1>0, <2>1, Zenon DEF ServeInv, RootInv
  <2> QED
    BY <2>6, <2>8, <2>9 DEF ServeInv
<1> QED
  BY <1>1, <1>2, <1>3, <1>4, <1>5 DEF WatcherStep

\* The swap relayctl waits for is committed behind a shut data plane and leaves the
\* runtime of its target; any other swap leaves a late runtime.
LEMMA ServeSwap ==
  ASSUME TypeInv, GenInv, TrafficInv, ServeInv, SwapStep
  PROVE  ServeInv'
<1>0. UNCHANGED <<st, codex, up, snap, watch, req>>
  BY Zenon DEF SwapStep, BeginSwap, CommitSwap, durable
<1>c. (AllIdle' <=> AllIdle) /\ (Shut' <=> Shut)
  BY <1>0, Zenon DEF AllIdle, Shut, Closed, SnapAllows, WatchCloses, NoneAdmitted
<1>1. ASSUME NEW h \in handlers, BeginSwap(h)
      PROVE  ServeInv'
  <2>1. /\ handlers' = handlers \ {h} /\ ctl' = ctl /\ slot'.admission = "transitioning"
        /\ slot'.profile = slot.profile /\ slot'.late = slot.late
    BY <1>1 DEF BeginSwap, TypeInv, RelayOK, Slots
  <2>2. up = "up"
    BY <1>1 DEF ServeInv, SlotInv
  <2>3. (Agree => Agree') /\ (Serves(ctl.s.desired) => Serves(ctl.s.desired)')
    BY <1>0, <1>c, <2>1 DEF Agree, Serves
  <2>4. SlotInv' /\ ShutInv' /\ SwapInv'
    BY <1>0, <1>c, <2>1, <2>2, <2>3, Zenon DEF ServeInv, SlotInv, ShutInv, SwapInv
  <2>5. RootInv'
    BY <1>0, <2>1, Zenon DEF ServeInv, RootInv, WatchCloses
  <2> QED
    BY <2>4, <2>5 DEF ServeInv
<1>2. CASE CommitSwap
  <2> DEFINE late == ~Waiting(slot.h)
  <2>1. /\ AllIdle /\ handlers' = handlers /\ up = "up"
        /\ slot' = [SlotFor(slot.h.backend) EXCEPT !.late = late]
    BY <1>2 DEF CommitSwap, AllIdle, ServeInv, SlotInv
  <2> HIDE DEF late
  <2>2. slot'.profile = slot.h.backend /\ slot'.late = late
    BY <2>1 DEF SlotFor
  <2>3. SlotInv'
    BY <1>0, <2>1 DEF SlotInv, AllIdle
  <2>4. CASE Waiting(slot.h)
    <3>1. ctl.pc = "swap" /\ Handler = slot.h /\ ctl'.pc = "config" /\ ctl'.s = ctl.s
      BY <1>2, <2>4 DEF CommitSwap, Waiting, TypeInv, GoodCtl, Ctls
    <3>2. Shut
      BY <3>1, WorkShut DEF DrainedPCs, QuietPCs, ParkPCs, WorkPCs
    <3>3. slot'.profile = ctl'.s.desired
      BY <2>2, <3>1 DEF Handler
    <3>4. ShutInv' /\ SwapInv'
      BY <1>c, <3>2, <3>3 DEF ShutInv, SwapInv, Serves
    <3>5. RootInv'
      BY <1>0, <3>1, <3>2, Zenon DEF ServeInv, RootInv, Shut, WatchCloses
    <3> QED
      BY <2>3, <3>4, <3>5 DEF ServeInv
  <2>5. CASE ~Waiting(slot.h)
    <3>1. ctl' = ctl /\ slot'.late
      BY <1>2, <2>2, <2>5, Zenon DEF CommitSwap, late
    <3>2. ShutInv' /\ SwapInv'
      BY <3>1 DEF ShutInv, SwapInv, Agree, Serves
    <3>3. RootInv'
      BY <1>0, <3>1 DEF ServeInv, RootInv, WatchCloses
    <3> QED
      BY <2>3, <3>2, <3>3 DEF ServeInv
  <2> QED
    BY <2>4, <2>5
<1> QED
  BY <1>1, <1>2 DEF SwapStep

\* A request enters the active slot only and is admitted behind an open snapshot
\* only.
LEMMA ServeRequest ==
  ASSUME TypeInv, ServeInv, NEW r \in Requests, ReqEnter(r) \/ RequestStep(r)
  PROVE  ServeInv'
<1>0. UNCHANGED <<st, codex, ctl, up, snap, watch, slot, handlers>>
  BY DEF ReqEnter, RequestStep, ReqBegin, ReqAdmit, ReqFinish, ReqStep, durable
<1>1. /\ up = "up"
      /\ ~(slot.admission # "active" /\ AllIdle)
  <2>1. CASE ReqEnter(r)
    BY <2>1 DEF ReqEnter
  <2>2. CASE RequestStep(r)
    BY <2>2 DEF RequestStep, ReqBegin, ReqAdmit, ReqFinish, ReqStep, AllIdle, ServeInv, SlotInv
  <2> QED
    BY <2>1, <2>2
<1>2. req \in [Requests -> [pc : ReqPCs, profile : Backends]]
  BY DEF TypeInv, RelayOK
<1>3. \A q \in Requests :
        /\ req'[q].pc = "admitted" => req[q].pc = "admitted" \/ SnapAllows
        /\ req'[q].pc # "idle" => req'[q].profile = slot.profile
  <2>0. \A q \in Requests : req[q].pc # "idle" => req[q].profile = slot.profile
    BY DEF ServeInv, SlotInv
  <2>1. CASE ReqEnter(r)
    BY <1>2, <2>0, <2>1 DEF ReqEnter, ReqStep
  <2>2. CASE ReqBegin(r)
    BY <1>2, <2>0, <2>2 DEF ReqBegin, ReqStep
  <2>3. CASE ReqAdmit(r)
    BY <1>2, <2>0, <2>3 DEF ReqAdmit, ReqStep, ReqIdle
  <2>4. CASE ReqFinish(r)
    BY <1>2, <2>0, <2>4, Zenon DEF ReqFinish, ReqStep, ReqIdle
  <2> QED
    BY <2>1, <2>2, <2>3, <2>4, Zenon DEF RequestStep
<1>4. /\ Shut => Shut'
      /\ Agree => Agree'
      /\ Serves(ctl.s.desired) => Serves(ctl.s.desired)'
  BY <1>0, <1>1, <1>3, Zenon DEF Shut, Closed, SnapAllows, WatchCloses, NoneAdmitted,
                          Agree, Serves
<1>5. SlotInv'
  BY <1>0, <1>1, <1>3, Zenon DEF SlotInv
<1>6. ShutInv' /\ SwapInv'
  BY <1>0, <1>4, Zenon DEF ServeInv, ShutInv, SwapInv
<1>7. RootInv'
  BY <1>0 DEF ServeInv, RootInv, WatchCloses
<1> QED
  BY <1>5, <1>6, <1>7 DEF ServeInv

\* A step of the relay or of nobody that this invariant does not look at.
LEMMA ServeSame ==
  ASSUME ServeInv, UNCHANGED <<st, codex, ctl, snap, watch, slot, req, handlers>>,
         up' = up \/ up = "down"
  PROVE  ServeInv'
<1>1. /\ AllIdle' <=> AllIdle
      /\ Shut' <=> Shut
      /\ Agree' <=> Agree
      /\ Serves(ctl.s.desired)' <=> Serves(ctl.s.desired)
  BY Zenon DEF AllIdle, Closed, SnapAllows, WatchCloses, NoneAdmitted, Serves, Shut, Agree
<1>2. SlotInv' /\ ShutInv' /\ SwapInv' /\ RootInv'
  BY <1>1, Zenon DEF ServeInv, SlotInv, ShutInv, SwapInv, RootInv, WatchCloses
<1> QED
  BY <1>2 DEF ServeInv

\* The end of a transition or of a handler that failed: the runtime is parked or
\* stays, and relayctl, when it waited for this one, parks the state.
LEMMA ServeSwapFails ==
  ASSUME TypeInv, ServeInv, UNCHANGED <<codex, up, snap, watch, req>>,
         up = "up", slot'.profile = slot.profile, slot'.late = slot.late,
         slot'.admission # "active" \/ slot' = slot,
         \/ ctl.pc = "swap" /\ FailApplying(ctl.s)
         \/ UNCHANGED <<st, ctl>>
  PROVE  ServeInv'
<1>1. /\ AllIdle' <=> AllIdle
      /\ Closed' <=> Closed
      /\ NoneAdmitted' <=> NoneAdmitted
  BY Zenon DEF AllIdle, Closed, SnapAllows, WatchCloses, NoneAdmitted
<1>2. (Agree => Agree') /\ (ctl' = ctl /\ Serves(ctl.s.desired) => Serves(ctl.s.desired)')
  BY <1>1, Zenon DEF Agree, Serves
<1>3. SlotInv'
  BY DEF ServeInv, SlotInv
<1>4. CASE UNCHANGED <<st, ctl>>
  <2>1. ShutInv' /\ SwapInv'
    BY <1>1, <1>2, <1>4, Zenon DEF ServeInv, ShutInv, Shut, SwapInv
  <2>2. RootInv'
    BY <1>4, Zenon DEF ServeInv, RootInv, WatchCloses
  <2> QED
    BY <1>3, <2>1, <2>2 DEF ServeInv
<1>5. CASE ctl.pc = "swap" /\ FailApplying(ctl.s)
  <2>1. ctl'.pc = "idle" /\ (st' = st \/ st'.phase = "recovery_required")
    BY <1>5, FailEffects
  <2>2. st' = st \/ (st' # NoState /\ ~AllowsDataPlane(st'))
    BY <2>1 DEF NoState, AllowsDataPlane
  <2>3. ShutInv' /\ SwapInv'
    BY <1>1, <1>2, <2>1, <2>2 DEF ServeInv, ShutInv, Shut, SwapInv, SwappedPCs
  <2>4. RootInv'
    BY <2>1, <2>2, Zenon DEF ServeInv, RootInv, SwappedPCs, WatchCloses
  <2> QED
    BY <1>3, <2>3, <2>4 DEF ServeInv
<1> QED
  BY <1>4, <1>5

\* No fault separates the runtime from the Codex files before an open data plane.
LEMMA ServeFaults ==
  ASSUME TypeInv, TypeInv', GenInv, TrafficInv, ServeInv, Advance, Faults
  PROVE  ServeInv'
<1>1. CASE AckTimeout \/ WriteFails
  BY <1>1, ServeFail DEF AckTimeout, WriteFails, FailPCs, relay
<1>2. CASE PreflightFails \/ UnlinkFails \/ Crash
  <2>1. ctl'.pc = "idle" /\ UNCHANGED <<st, codex, up, snap, watch, slot, req, handlers>>
    BY <1>2, IdleFields DEF PreflightFails, UnlinkFails, Crash, durable, relay
  <2> QED
    BY <2>1, ServeOutside DEF SwappedPCs
<1>3. CASE ConfigWriteFails
  <2>1. /\ ctl.pc \in {"config", "profile"} /\ FailApplying(ctl.s)
        /\ UNCHANGED <<up, snap, watch, slot, req, handlers>>
    BY <1>3 DEF ConfigWriteFails, relay
  <2>2. Shut /\ ~(watch.pc # "idle" /\ watch.legacy /\ ~watch.bad)
    BY <2>1, WorkShut DEF DrainedPCs, QuietPCs, ParkPCs, WorkPCs
  <2> QED
    BY <2>1, <2>2, ServeFail DEF FailPCs
<1>4. CASE RelayCrash
  <2>1. /\ up' = "down" /\ watch'.pc = "idle" /\ slot'.admission = "paused"
        /\ handlers' = {} /\ UNCHANGED <<st, codex, ctl>>
    BY <1>4, Zenon DEF RelayCrash, RelayDown, WatchIdle, SlotFor, durable
  <2>2. AllIdle'
    BY <1>4 DEF RelayCrash, RelayDown, ReqIdle, AllIdle
  <2>3. Agree' /\ Serves(ctl.s.desired)'
    BY <2>1, <2>2 DEF Agree, Serves
  <2>4. SlotInv' /\ ShutInv' /\ SwapInv'
    BY <2>1, <2>2, <2>3, Zenon DEF SlotInv, ShutInv, SwapInv, AllIdle
  <2>5. RootInv'
    BY <2>1 DEF ServeInv, RootInv
  <2> QED
    BY <2>4, <2>5 DEF ServeInv
<1>5. CASE DrainFails
  <2>1. /\ slot'.admission = "paused" /\ slot'.profile = slot.profile
        /\ slot'.late = slot.late /\ UNCHANGED <<codex, up, snap, watch, req>>
        /\ \/ ctl.pc = "swap" /\ FailApplying(ctl.s)
           \/ UNCHANGED <<st, ctl>>
    BY <1>5 DEF DrainFails, Waiting, TypeInv, RelayOK, Slots
  <2>2. up = "up"
    BY <1>5 DEF DrainFails, ServeInv, SlotInv
  <2> QED
    BY <2>1, <2>2, ServeSwapFails
<1>6. ASSUME NEW h \in handlers, CandidateFails(h)
      PROVE  ServeInv'
  <2>1. /\ \/ slot' = slot
           \/ /\ slot'.admission = "paused" /\ slot'.profile = slot.profile
              /\ slot'.late = slot.late
        /\ UNCHANGED <<codex, up, snap, watch, req>>
        /\ \/ ctl.pc = "swap" /\ FailApplying(ctl.s)
           \/ UNCHANGED <<st, ctl>>
    BY <1>6 DEF CandidateFails, Waiting, TypeInv, RelayOK, Slots
  <2>2. up = "up"
    BY <1>6 DEF ServeInv, SlotInv
  <2> QED
    BY <2>1, <2>2, ServeSwapFails
<1>7. CASE EditArtifacts
  <2>1. /\ UNCHANGED <<st, ctl, up, snap, watch, slot, req, handlers>>
        /\ codex'.root \in RelayBackends => codex'.root = codex.root
    BY <1>7 DEF EditArtifacts, relay, RelayBackends
  <2>2. /\ AllIdle' <=> AllIdle
        /\ Shut' <=> Shut
        /\ Agree => Agree'
        /\ Serves(ctl.s.desired)' <=> Serves(ctl.s.desired)
    BY <2>1, Zenon DEF AllIdle, Closed, SnapAllows, WatchCloses, NoneAdmitted, Serves, Shut,
                Agree
  <2>3. SlotInv' /\ ShutInv' /\ SwapInv'
    BY <2>1, <2>2, Zenon DEF ServeInv, SlotInv, ShutInv, SwapInv
  <2>4. RootInv'
    BY <2>1, Zenon DEF ServeInv, RootInv, WatchCloses
  <2> QED
    BY <2>3, <2>4 DEF ServeInv
<1>8. CASE LoseState \/ DamageJournal
  <2>1. UNCHANGED <<codex, ctl, up, snap, watch, slot, req, handlers>>
    BY <1>8 DEF LoseState, DamageJournal, relay
  <2>2. st' = st
    <3>1. CASE LoseState
      <4>1. st.gen = 0
        <5>1. st' = NoState /\ NoState.gen = 0
          BY <3>1 DEF LoseState, NoState
        <5>2. st.gen <= 0
          BY <5>1 DEF Advance
        <5> QED
          BY <5>2, GenTypes
      <4> QED
        BY <3>1, <4>1, GenTypes DEF LoseState
    <3>2. CASE DamageJournal
      BY <3>2 DEF DamageJournal
    <3> QED
      BY <1>8, <3>1, <3>2
  <2> QED
    BY <2>1, <2>2, ServeSame
<1>9. CASE RepairFails
  <2>1. /\ ctl.pc = "repair" /\ ctl' = Idle /\ st' \in {st, ctl.s}
        /\ UNCHANGED <<codex, up, snap, watch, slot, req, handlers>>
    BY <1>9 DEF RepairFails, relay
  <2>2. CASE st' = ctl.s
    BY <2>1, <2>2, RestoreShuts
  <2>3. CASE st' = st
    BY <2>1, <2>3, IdleFields, ServeOutside, Zenon DEF SwappedPCs
  <2> QED
    BY <2>1, <2>2, <2>3
<1> QED
  BY <1>1, <1>2, <1>3, <1>4, <1>5, <1>6, <1>7, <1>8, <1>9 DEF Faults

\* ServeInv is inductive relative to the earlier invariants, where generations
\* advance.
LEMMA ServeStep ==
  TypeInv /\ TypeInv' /\ OwnedInv /\ GenInv /\ TrafficInv /\ ServeInv
    /\ [Next]_vars /\ [Advance]_vars => ServeInv'
<1> SUFFICES ASSUME TypeInv, TypeInv', OwnedInv, GenInv, TrafficInv, ServeInv,
                    [Next]_vars, [Advance]_vars
             PROVE  ServeInv'
  OBVIOUS
<1>1. CASE UNCHANGED vars
  BY <1>1, ServeSame DEF vars
<1> SUFFICES ASSUME Next, Advance PROVE ServeInv'
  BY <1>1
<1>2. CASE RelayStart \/ CatalogLoop \/ CatalogStops
  <2>1. /\ UNCHANGED <<st, codex, ctl, snap, watch, slot, req, handlers>>
        /\ up' = up \/ up = "down"
    BY <1>2 DEF RelayStart, CatalogLoop, CatalogGate, CatalogRunning, CatalogTick,
                CatalogRefresh, CatalogRefreshed, CatalogStops, Catalog, durable
  <2> QED
    BY <2>1, ServeSame
<1> QED
  BY <1>2, ServeOperations, ServeController, ServeWatcher, ServeSwap, ServeRequest,
     ServeFaults DEF Next

\* What ServeInv says of an admitted request.
LEMMA ServeAgrees == ServeInv => ServedByConfiguredBackend
<1> SUFFICES ASSUME ServeInv, NEW r \in Requests, req[r].pc = "admitted",
                    codex.root \in RelayBackends, ~slot.late
             PROVE  req[r].profile = codex.root
  BY DEF ServedByConfiguredBackend, ManagedRoot
<1>1. Agree
  BY DEF ServeInv, ShutInv, Shut, NoneAdmitted
<1>2. ~AllIdle /\ req[r].profile = slot.profile
  BY DEF AllIdle, ServeInv, SlotInv
<1> QED
  BY <1>1, <1>2 DEF Agree, Serves

-----------------------------------------------------------------------------
(* An open snapshot and the Codex files agree, or were edited since.       *)

\* What the last pass of the watcher, and the one under way, have compared.
DriftInv ==
  /\ snap.rev <= codex.rev
  /\ DriftParks
  /\ watch.rev <= codex.rev
  /\ watch.pc = "drift" /\ ~WatchCloses /\ ~watch.legacy =>
       Matches(codex, watch.s.applied) \/ codex.rev > watch.rev

\* Nothing is published at first.
LEMMA DriftInit == Init => DriftInv
<1> SUFFICES ASSUME Init PROVE DriftInv
  OBVIOUS
<1>1. snap.rev = 0 /\ snap.invalid /\ watch.pc = "idle" /\ watch.rev = 0 /\ codex.rev = 0
  BY DEF Init, InvalidSnapshot, WatchIdle
<1> QED
  BY <1>1 DEF DriftInv, DriftParks, SnapAllows

\* The counters of edits are numbers.
LEMMA RevTypes ==
  ASSUME TypeInv
  PROVE  codex.rev \in Nat /\ snap.rev \in Nat /\ watch.rev \in Nat
BY DEF TypeInv, RelayOK, Artifacts, Snapshots, Watches

\* A step that leaves the Codex files, the snapshot and the watcher alone.
LEMMA DriftFrame ==
  ASSUME DriftInv, UNCHANGED <<codex, snap, watch>>
  PROVE  DriftInv'
BY Zenon DEF DriftInv, DriftParks, SnapAllows, WatchCloses

\* relayctl writes the Codex files behind a closed snapshot only, and no pass that
\* is under way will open it.
LEMMA DriftWrites ==
  ASSUME TypeInv, TrafficInv, DriftInv, ctl.pc \in {"config", "profile"},
         codex'.rev = codex.rev, UNCHANGED <<snap, watch>>
  PROVE  DriftInv'
<1>1. Closed
  BY DEF TrafficInv, ParkPCs, WorkPCs
<1> QED
  BY <1>1, Zenon DEF DriftInv, DriftParks, SnapAllows, Closed, WatchCloses

\* A pass compares the files and publishes what it found.
LEMMA DriftWatcher ==
  ASSUME TypeInv, DriftInv, WatcherStep
  PROVE  DriftInv'
<1>0. codex' = codex
  BY DEF WatcherStep, WatchReadState, WatchReadJournal, WatchCheckDrift, WatchPublish, durable
<1>1. CASE WatchReadState \/ WatchReadJournal
  <2>1. snap' = snap /\ watch'.pc # "drift"
    BY <1>1, ReadJournalFields DEF WatchReadState, WatchReadJournal
  <2>2. watch'.rev <= codex'.rev
    <3>1. CASE WatchReadState
      BY <1>0, <3>1, RevTypes DEF WatchReadState
    <3>2. CASE WatchReadJournal
      BY <1>0, <3>2, ReadJournalFields DEF DriftInv
    <3> QED
      BY <1>1, <3>1, <3>2
  <2> QED
    BY <1>0, <2>1, <2>2 DEF DriftInv, DriftParks, SnapAllows
<1>2. CASE WatchCheckDrift
  <2>1. snap' = snap /\ watch'.rev = codex.rev
    BY <1>2, CheckDriftFields DEF WatchCheckDrift
  <2>2. ~watch'.legacy /\ ~WatchCloses' => Matches(codex, watch'.s.applied)
    BY <1>2, CheckDriftAgrees
  <2>3. codex.rev <= codex.rev
    BY RevTypes
  <2> QED
    BY <1>0, <2>1, <2>2, <2>3 DEF DriftInv, DriftParks, SnapAllows
<1>3. CASE WatchPublish
  <2>1. snap' = Observed /\ watch'.pc = "idle" /\ watch'.rev = 0
    BY <1>3 DEF WatchPublish, WatchIdle
  <2>r. watch'.rev <= codex'.rev
    BY <1>0, <2>1, RevTypes
  <2>2. CASE watch.bad
    <3>1. snap'.invalid /\ snap'.rev = 0
      BY <2>1, <2>2 DEF Observed, InvalidSnapshot
    <3> QED
      <4>1. snap'.rev <= codex'.rev
        BY <1>0, <3>1, RevTypes
      <4>2. ~SnapAllows' /\ watch'.pc # "drift"
        BY <2>1, <3>1 DEF SnapAllows
      <4> QED
        BY <2>r, <4>1, <4>2, Zenon DEF DriftInv, DriftParks
  <2>3. CASE ~watch.bad
    <3>1. snap'.s = watch.s /\ snap'.rev = watch.rev /\ snap'.legacy = watch.legacy
      BY <2>1, <2>3 DEF Observed
    <3>2. SnapAllows' => ~WatchCloses
      BY <2>3, <3>1 DEF SnapAllows, WatchCloses
    <3>3. ~WatchCloses /\ ~watch.legacy => watch.pc = "drift"
      BY <1>3, PublishedPass
    <3> QED
      BY <1>0, <2>1, <2>r, <3>1, <3>2, <3>3 DEF DriftInv, DriftParks
  <2> QED
    BY <2>2, <2>3
<1> QED
  BY <1>1, <1>2, <1>3 DEF WatcherStep

\* DriftInv is inductive relative to TypeInv and TrafficInv.
LEMMA DriftStep ==
  TypeInv /\ TrafficInv /\ DriftInv /\ [Next]_vars => DriftInv'
<1> SUFFICES ASSUME TypeInv, TrafficInv, DriftInv, [Next]_vars PROVE DriftInv'
  OBVIOUS
<1>1. CASE UNCHANGED vars
  BY <1>1, DriftFrame DEF vars
<1>2. CASE Operations
  <2>1. UNCHANGED <<codex, snap, watch>>
    BY <1>2, RelayUntouched, Zenon DEF Operations, Request, SeedNativeParked, Cancel,
       RepairNative, Apply, RecoverObserved, RecoverFromJournal
  <2> QED
    BY <2>1, DriftFrame
<1>3. CASE ControllerStep
  <2>0. UNCHANGED <<snap, watch>>
    BY <1>3, RelayUntouched
  <2>1. CASE ConfigMigrate \/ ConfigRoot \/ ConfigProfile \/ ConfigRefused
    <3>1. ctl.pc \in {"config", "profile"} /\ codex'.rev = codex.rev
      BY <2>1 DEF ConfigMigrate, ConfigRoot, ConfigProfile, ConfigRefused, TypeInv, Artifacts
    <3> QED
      BY <2>0, <3>1, DriftWrites
  <2>2. CASE ~(ConfigMigrate \/ ConfigRoot \/ ConfigProfile \/ ConfigRefused)
    <3>1. codex' = codex
      BY <1>3, <2>2, Zenon
         DEF ControllerStep, FirstStateWrite, RepairVerified, RepairRestored, RecoverApply,
             WriteJournal, HealthSnapshot, HealthCatalog, HealthActive, HealthInteractive,
             ControlAuthorized, ControlRefused, ControlDisconnected, ConfigUnchanged,
             WriteMutatedJournal, SaveFinal, RemoveJournal, Finalized, Return, durable
    <3> QED
      BY <2>0, <3>1, DriftFrame
  <2> QED
    BY <2>1, <2>2
<1>4. CASE \/ RelayStart \/ SwapStep \/ CatalogLoop \/ CatalogStops
           \/ \E r \in Requests : ReqEnter(r) \/ RequestStep(r)
  BY <1>4, RelayFields, RelayEffects, DriftFrame DEF durable
<1>5. CASE RelayCrash
  <2>1. /\ snap'.invalid /\ snap'.rev = 0 /\ watch'.pc = "idle" /\ watch'.rev = 0
        /\ codex' = codex
    BY <1>5, Zenon DEF RelayCrash, RelayDown, InvalidSnapshot, WatchIdle, durable
  <2> QED
    BY <2>1, RevTypes DEF DriftInv, DriftParks, SnapAllows
<1>6. CASE Faults /\ ~RelayCrash
  <2>0. UNCHANGED <<snap, watch>>
    BY <1>6, FaultRelay
  <2>1. CASE EditArtifacts
    <3>1. codex'.rev = codex.rev + 1
      BY <2>1 DEF EditArtifacts
    <3>2. /\ snap'.rev <= codex'.rev /\ codex'.rev > snap'.rev
          /\ watch'.rev <= codex'.rev /\ codex'.rev > watch'.rev
      BY <2>0, <3>1, RevTypes DEF DriftInv
    <3> QED
      BY <2>0, <3>2, Zenon DEF DriftInv, DriftParks
  <2>2. CASE ConfigWriteFails
    <3>1. ctl.pc \in {"config", "profile"} /\ codex'.rev = codex.rev
      BY <2>2 DEF ConfigWriteFails, TypeInv, Artifacts
    <3> QED
      BY <2>0, <3>1, DriftWrites
  <2>3. CASE ~EditArtifacts /\ ~ConfigWriteFails
    <3>1. codex' = codex
      BY <1>6, <2>3 DEF Faults, AckTimeout, PreflightFails, WriteFails, RepairFails,
         UnlinkFails, Crash, DrainFails, CandidateFails, LoseState, DamageJournal, durable
    <3> QED
      BY <2>0, <3>1, DriftFrame
  <2> QED
    BY <2>1, <2>2, <2>3
<1> QED
  BY <1>1, <1>2, <1>3, <1>4, <1>5, <1>6, DriftWatcher DEF Next

\* No command of relayctl is under way at first.
LEMMA OwnedInit == Init => OwnedInv
  BY DEF Init, OwnedInv, Idle

-----------------------------------------------------------------------------
(* The theorems.  The one fact on finite sets comes last: the library      *)
(* slows every proof below it.                                             *)

FST == INSTANCE FiniteSetTheorems

\* The requests are finite in number.
LEMMA CountingHolds == Counting
<1> USE Zenon
<1>1. \A S : IsFiniteSet(S) <=> FST!IsFiniteSet(S)
  BY DEF IsFiniteSet, FST!IsFiniteSet
<1>2. \A S : Cardinality(S) = FST!Cardinality(S)
  BY DEF Cardinality, FST!Cardinality
<1> SUFFICES ASSUME NEW S \in SUBSET Requests, Cardinality(S) = 0
             PROVE  S = {}
  BY DEF Counting
<1>3. FST!IsFiniteSet(S)
  BY <1>1, SwitchAssumption, FST!FS_Subset
<1> QED
  BY <1>2, <1>3, FST!FS_EmptySet

\* TrafficInv is inductive relative to TypeInv and GenInv.
LEMMA TrafficStep ==
  TypeInv /\ GenInv /\ TrafficInv /\ [Next]_vars => TrafficInv'
  BY TrafficMoves, CountingHolds, Zenon

\* awaitParked drains the relay: from its return until the journal of the
\* transaction is removed no admitted request and no catalog fetch is running,
\* for any number of requests and any faults that do not take the generation of
\* the state file back.
THEOREM DrainHolds == Spec /\ GenerationsAdvance => []NoTrafficDuringMutation
<1>1. TrafficInv => NoTrafficDuringMutation
  BY Zenon DEF TrafficInv, NoTrafficDuringMutation, Mutating, Unlinking, NoneAdmitted, ParkPCs,
         QuietPCs, DrainedPCs, WorkPCs
<1> QED
  BY <1>1, TypeInvAlways, GenInit, GenStep, TrafficInit, TrafficStep, PTL
     DEF Spec, GenerationsAdvance

\* The watcher never opens admission beside the journal of a mutated config, as
\* long as the generation of the state file never goes back.
THEOREM JournalParks == Spec /\ GenerationsAdvance => []MutatedJournalParks
<1>1. TrafficInv => MutatedJournalParks
  BY DEF TrafficInv, MutatedJournalParks, Sealed
<1> QED
  BY <1>1, TypeInvAlways, GenInit, GenStep, TrafficInit, TrafficStep, PTL
     DEF Spec, GenerationsAdvance

\* An admitted request is served by the runtime of the backend Codex is configured
\* for, for any number of requests and across any switch, recovery, crash, failed
\* write and edit, as long as the generation of the state file never goes back.
\* The property itself exempts the runtime of a control handler that came too
\* late, and nothing else: no bound on how late a handler may come is assumed.
THEOREM ServedRight == Spec /\ GenerationsAdvance => []ServedByConfiguredBackend
  BY ServeAgrees, OwnedInit, TypeInvAlways, OwnedStep, GenInit, GenStep, TrafficInit, TrafficStep,
     ServeInit, ServeStep, PTL DEF Spec, GenerationsAdvance

\* An open snapshot of a written state describes the Codex files, or somebody else
\* has edited them since its pass compared them, although the pass reads the state
\* first and publishes last and relayctl writes the files in between
\* (AppliedRoutingDriftCheck), as long as the generation never goes back.
THEOREM DriftAlwaysParks == Spec /\ GenerationsAdvance => []DriftParks
<1>1. DriftInv => DriftParks
  BY DEF DriftInv
<1> QED
  BY <1>1, TypeInvAlways, GenInit, GenStep, TrafficInit, TrafficStep, DriftInit, DriftStep, PTL
     DEF Spec, GenerationsAdvance

=============================================================================
