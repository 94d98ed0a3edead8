--------------------------- MODULE RuntimeManager ---------------------------
(***************************************************************************)
(* The resident relay's RuntimeManager (proxy/runtime_manager.go): the     *)
(* listeners stay, the runtime behind them is replaced.  Requests, the two *)
(* workers of a runtime, and one operation at a time interleave.           *)
(*                                                                         *)
(* Manager:   current, admission, maint (under m.mu)                       *)
(* Slots:     slot, of which the first n were made; 0 is no slot           *)
(* Operation: op; maintenanceMu serialises Apply, PrepareMaintenance,      *)
(*            VerifyMaintenance, ResumeMaintenance and Close, so changes   *)
(*            adds nothing.  Apply builds its candidate before the lock.   *)
(* Requests:  req; writer is the lifecycle lock held by a relayctl command *)
(*            (lifecyclelock), of which a request to the Apple runtime     *)
(*            holds the shared side until its header is written.           *)
(*                                                                         *)
(* Health requests pass no gate and change nothing.  The generation and    *)
(* localAvailability are only reported.  The results of a probe other than *)
(* ready are one, lost.                                                    *)
(***************************************************************************)
EXTENDS Naturals, FiniteSets

CONSTANTS
  Requests,     \* data-plane requests that may be in flight at once
  MaxSlots,     \* runtimes built in a behaviour, the first one included
  MaxTimeouts   \* operations that may reach their deadline

ASSUME ManagerAssumption == MaxSlots \in Nat \ {0} /\ MaxTimeouts \in Nat

VARIABLES current, admission, slot, n, op, maint, req, writer, closing, timeouts

manager == <<current, admission>>
vars == <<current, admission, slot, n, op, maint, req, writer, closing, timeouts>>

LocalProfiles == {"local_opencodex", "local_apple_container"}

Profiles == LocalProfiles \cup {"external"}

Results == {"ready", "lost"}

-----------------------------------------------------------------------------
(* Slots.  cat is the catalog lifecycle, "activate" while it holds the     *)
(* tracker to restart idle app-servers; mon is the availability monitor;   *)
(* catc and monc say that the context of a running one is cancelled.  loss *)
(* is TRUE once a lost backend has closed the admission of this slot.      *)

NoSlot == [profile |-> "none", cat |-> "none", mon |-> "none",
           catc |-> FALSE, monc |-> FALSE, loss |-> FALSE]

Slots == [profile : Profiles \cup {"none"},
          cat : {"none", "run", "activate", "done"},
          mon : {"none", "tick", "probe", "done"},
          catc : BOOLEAN, monc : BOOLEAN, loss : BOOLEAN]

NewSlot(p) == [NoSlot EXCEPT !.profile = p]

IsLocal(s) == slot[s].profile \in LocalProfiles

CatStopped(s) == slot[s].cat \in {"none", "done"}

MonStopped(s) == slot[s].mon \in {"none", "done"}

\* Mutant: only the monitor is told to stop.
CancelMonitor(which) ==
  [s \in 1..MaxSlots |->
     IF s \in which THEN [slot[s] EXCEPT !.monc = ~MonStopped(s)] ELSE slot[s]]

\* cancelWorkers, which stop calls again.
CancelWorkers(which) ==
  [s \in 1..MaxSlots |->
     IF s \in which
     THEN [slot[s] EXCEPT !.catc = ~CatStopped(s), !.monc = ~MonStopped(s)]
     ELSE slot[s]]

\* startSlot: both contexts are children of the manager's.
StartSlot(s) ==
  [slot[s] EXCEPT !.cat = "run", !.catc = closing,
                  !.mon = IF IsLocal(s) THEN "tick" ELSE "none",
                  !.monc = closing /\ IsLocal(s)]

-----------------------------------------------------------------------------
(* The two read-write locks: gate (the manager's) and the tracker's.       *)

GatePCs == {"check", "checked", "serving"}

InGate == {r \in Requests : req[r].pc \in GatePCs}

GateLocked == op.pc \in {"quiesce", "stop", "commit", "start", "open"}

\* Tracker.Begin holds the read side, TryQuiesce the write side.
TrackerLocked == op.pc = "stop" \/ \E s \in 1..MaxSlots : slot[s].cat = "activate"

Tracked == {r \in Requests : req[r].pc = "serving"}

Leased == {r \in Requests : req[r].lease}

-----------------------------------------------------------------------------
(* A data-plane request: serveHTTP.                                        *)

ReqIdle == [pc |-> "idle", slot |-> 0, lease |-> FALSE]

Reqs == [pc : {"idle", "look", "wait", "lease", "gate"} \cup GatePCs,
         slot : 0..MaxSlots, lease : BOOLEAN]

\* snapshotForHandler and the switch on admission.
Look(r) ==
  /\ req[r].pc \in {"idle", "look"}
  /\ req' = [req EXCEPT ![r] =
       IF admission = "active"
       THEN [pc |-> IF current # 0 /\ slot[current].profile = "local_apple_container"
                    THEN "lease" ELSE "gate",
             slot |-> current, lease |-> FALSE]
       ELSE [ReqIdle EXCEPT !.pc = IF admission = "transitioning" THEN "wait" ELSE "idle"]]
  /\ UNCHANGED <<manager, slot, n, op, maint, writer, closing, timeouts>>

\* setAdmissionLocked closes changed.
Wake(r) ==
  /\ req[r].pc = "wait"
  /\ admission # "transitioning"
  /\ req' = [req EXCEPT ![r].pc = "look"]
  /\ UNCHANGED <<manager, slot, n, op, maint, writer, closing, timeouts>>

\* The client goes away while its request waits for a change or for the lease.
GiveUp(r) ==
  /\ req[r].pc \in {"wait", "lease"}
  /\ req' = [req EXCEPT ![r] = ReqIdle]
  /\ UNCHANGED <<manager, slot, n, op, maint, writer, closing, timeouts>>

\* ConnectionLease: the shared side of the lifecycle lock, before the gate.
AcquireLease(r) ==
  /\ req[r].pc = "lease"
  /\ ~writer
  /\ req' = [req EXCEPT ![r].pc = "gate", ![r].lease = TRUE]
  /\ UNCHANGED <<manager, slot, n, op, maint, writer, closing, timeouts>>

EnterGate(r) ==
  /\ req[r].pc = "gate"
  /\ ~GateLocked
  /\ req' = [req EXCEPT ![r].pc = "check"]
  /\ UNCHANGED <<manager, slot, n, op, maint, writer, closing, timeouts>>

\* Mutant: the snapshot taken before the gate is trusted.
CheckNothing(r) ==
  /\ req[r].pc = "check"
  /\ req' = [req EXCEPT ![r].pc = "checked"]
  /\ UNCHANGED <<manager, slot, n, op, maint, writer, closing, timeouts>>

\* The second snapshot, under the gate.
Check(r) ==
  /\ req[r].pc = "check"
  /\ req' = [req EXCEPT ![r] =
       IF admission = "active" /\ current # 0 /\ current = req[r].slot
       THEN [req[r] EXCEPT !.pc = "checked"]
       ELSE [ReqIdle EXCEPT !.pc = "look"]]
  /\ UNCHANGED <<manager, slot, n, op, maint, writer, closing, timeouts>>

\* Server.ServeHTTP enters the tracker.
Begin(r) ==
  /\ req[r].pc = "checked"
  /\ ~TrackerLocked
  /\ req' = [req EXCEPT ![r].pc = "serving"]
  /\ UNCHANGED <<manager, slot, n, op, maint, writer, closing, timeouts>>

\* credentialConn.Write releases the lease once the header is out.
HeaderWritten(r) ==
  /\ req[r].pc = "serving"
  /\ req[r].lease
  /\ req' = [req EXCEPT ![r].lease = FALSE]
  /\ UNCHANGED <<manager, slot, n, op, maint, writer, closing, timeouts>>

\* The handler returns or panics: the deferred calls release everything.
Finish(r) ==
  /\ req[r].pc = "serving"
  /\ req' = [req EXCEPT ![r] = ReqIdle]
  /\ UNCHANGED <<manager, slot, n, op, maint, writer, closing, timeouts>>

-----------------------------------------------------------------------------
(* The workers of a slot.                                                  *)

\* applyWhileAdmitted: TryQuiesce never waits.
CatActivate(s) ==
  /\ slot[s].cat = "run"
  /\ ~TrackerLocked
  /\ Tracked = {}
  /\ slot' = [slot EXCEPT ![s].cat = "activate"]
  /\ UNCHANGED <<manager, n, op, maint, req, writer, closing, timeouts>>

CatActivated(s) ==
  /\ slot[s].cat = "activate"
  /\ slot' = [slot EXCEPT ![s].cat = "run"]
  /\ UNCHANGED <<manager, n, op, maint, req, writer, closing, timeouts>>

\* The lifecycle returns after its context is cancelled.
CatReturn(s) ==
  /\ slot[s].cat = "run"
  /\ slot[s].catc
  /\ slot' = [slot EXCEPT ![s].cat = "done", ![s].catc = FALSE]
  /\ UNCHANGED <<manager, n, op, maint, req, writer, closing, timeouts>>

\* startLocalMonitor: the tick that probes, and the ways out of the loop
\* (cancelled, or LocalProbeAllowed says the routing state has parked).
MonTick(s) ==
  /\ slot[s].mon = "tick"
  /\ \/ ~slot[s].monc /\ slot' = [slot EXCEPT ![s].mon = "probe"]
     \/ slot' = [slot EXCEPT ![s].mon = "done", ![s].monc = FALSE]
  /\ UNCHANGED <<manager, n, op, maint, req, writer, closing, timeouts>>

\* observeLocalAvailabilityForSlot. An Apple probe cannot get its lease from
\* a writer and is lost to its timeout.
MonProbe(s) ==
  /\ slot[s].mon = "probe"
  /\ \E result \in Results :
       LET observed == ~slot[s].monc
           lost     == observed /\ result = "lost" /\ current = s
           parks    == lost /\ admission = "active"
       IN  /\ result = "ready" => slot[s].profile # "local_apple_container" \/ ~writer
           /\ slot' = [slot EXCEPT
                ![s].mon  = IF observed /\ result = "ready" THEN "tick" ELSE "done",
                ![s].monc = FALSE,
                ![s].catc = slot[s].catc \/ (lost /\ ~CatStopped(s)),
                ![s].loss = slot[s].loss \/ parks]
           /\ admission' = IF parks THEN "local_unavailable" ELSE admission
  /\ UNCHANGED <<current, n, op, maint, req, writer, closing, timeouts>>

-----------------------------------------------------------------------------
(* Operations.                                                             *)

OpIdle == [pc |-> "idle", kind |-> "none", profile |-> "none", old |-> 0]

Ops == [pc : {"idle", "begin", "gate", "quiesce", "stop", "commit", "start",
              "open", "resume"},
        kind : {"none", "apply", "prepare", "resume", "close"},
        profile : Profiles \cup {"none"}, old : 0..MaxSlots]

\* verified: MaintenanceCoordinator.finish has Verify's answer and calls Resume.
NoMaint == [prepared |-> FALSE, slot |-> 0, verified |-> FALSE]

Prepared(s) == [prepared |-> TRUE, slot |-> s, verified |-> FALSE]

Starts(kind, p) == op' = [OpIdle EXCEPT !.pc = "begin", !.kind = kind, !.profile = p]

\* ObserveLocalAvailability, with which Apply publishes a probe.
ObserveLocalAvailability(result) ==
  LET lost  == result = "lost" /\ current # 0 /\ IsLocal(current)
      parks == lost /\ admission = "active"
  IN  /\ admission' = IF parks THEN "local_unavailable" ELSE admission
      /\ slot' = IF ~lost THEN slot
                 ELSE [slot EXCEPT
                         ![current].catc = ~CatStopped(current),
                         ![current].loss = slot[current].loss \/ parks]
      /\ UNCHANGED current

\* Apply up to beginTransition: refused during maintenance and when closed;
\* a local candidate is probed first, with the lease its caller owns.
StartApply(p) ==
  /\ op = OpIdle /\ writer
  /\ ~maint.prepared
  /\ admission # "closed"
  /\ p # "none" => n < MaxSlots
  /\ IF p \in LocalProfiles
       THEN \E result \in Results :
              /\ ObserveLocalAvailability(result)
              /\ IF result = "ready" THEN Starts("apply", p) ELSE UNCHANGED op
       ELSE Starts("apply", p) /\ UNCHANGED <<manager, slot>>
  /\ UNCHANGED <<n, maint, req, writer, closing, timeouts>>

Eligible == admission \in {"active", "paused"}

StartPrepare ==
  /\ op = OpIdle /\ writer
  /\ ~maint.prepared
  /\ current # 0 /\ slot[current].profile = "local_apple_container"
  /\ Eligible
  /\ Starts("prepare", "none")
  /\ UNCHANGED <<manager, slot, n, maint, req, writer, closing, timeouts>>

StartClose ==
  /\ op = OpIdle
  /\ admission # "closed"
  /\ Starts("close", "none")
  /\ UNCHANGED <<manager, slot, n, maint, req, writer, closing, timeouts>>

\* beginTransition and cancelWorkers; Close cancels the manager's context,
\* of which those of every worker are children.
BeginTransition ==
  /\ op.pc = "begin"
  /\ op' = [op EXCEPT !.pc = "gate", !.old = current]
  /\ admission' = "transitioning"
  /\ closing' = (closing \/ op.kind = "close")
  /\ slot' = CancelWorkers(IF op.kind = "close" THEN 1..MaxSlots ELSE {current})
  /\ UNCHANGED <<current, n, maint, req, writer, timeouts>>

\* lockGate.
LockGate ==
  /\ op.pc = "gate"
  /\ InGate = {}
  /\ op' = [op EXCEPT !.pc = "quiesce"]
  /\ UNCHANGED <<manager, slot, n, maint, req, writer, closing, timeouts>>

\* quiesceAndStop: TryQuiesce succeeds, and cancels the workers again.
Quiesce ==
  /\ op.pc = "quiesce"
  /\ ~TrackerLocked
  /\ Tracked = {}
  /\ op' = [op EXCEPT !.pc = "stop"]
  /\ slot' = CancelWorkers({op.old})
  /\ UNCHANGED <<manager, n, maint, req, writer, closing, timeouts>>

\* Mutant: only the monitor is waited for.
StopMonitor ==
  /\ op.pc = "stop"
  /\ op.old # 0 => MonStopped(op.old)
  /\ op' = [op EXCEPT !.pc = "commit"]
  /\ UNCHANGED <<manager, slot, n, maint, req, writer, closing, timeouts>>

\* stop waits for both workers.
Stop ==
  /\ op.pc = "stop"
  /\ op.old # 0 => MonStopped(op.old) /\ CatStopped(op.old)
  /\ op' = [op EXCEPT !.pc = "commit"]
  /\ UNCHANGED <<manager, slot, n, maint, req, writer, closing, timeouts>>

\* Mutant: maintenance goes on after its drain timed out.
TimeoutPrepared ==
  /\ op.pc \in {"gate", "quiesce", "stop"}
  /\ timeouts < MaxTimeouts
  /\ timeouts' = timeouts + 1
  /\ op' = OpIdle
  /\ IF op.kind = "prepare"
       THEN maint' = Prepared(op.old) /\ UNCHANGED <<admission, slot>>
       ELSE admission' = "paused" /\ slot' = CancelWorkers({op.old}) /\ UNCHANGED maint
  /\ UNCHANGED <<current, n, req, writer, closing>>

\* The deadline of lockGate or quiesceAndStop, and parkAfterFailedDrain.
Timeout ==
  /\ op.pc \in {"gate", "quiesce", "stop"}
  /\ timeouts < MaxTimeouts
  /\ timeouts' = timeouts + 1
  /\ op' = OpIdle
  /\ admission' = "paused"
  /\ slot' = CancelWorkers({op.old})
  /\ UNCHANGED <<current, n, maint, req, writer, closing>>

\* commitPaused, the end of PrepareMaintenance, and the end of Close.
CommitParked ==
  /\ op.pc = "commit"
  /\ \/ /\ op.kind = "apply" /\ op.profile = "none"
        /\ admission' = "paused"
        /\ UNCHANGED <<current, maint>>
     \/ /\ op.kind = "prepare"
        /\ maint' = Prepared(op.old)
        /\ UNCHANGED <<current, admission>>
     \/ /\ op.kind = "close"
        /\ current' = 0
        /\ admission' = "closed"
        /\ maint' = NoMaint
  /\ op' = OpIdle
  /\ UNCHANGED <<slot, n, req, writer, closing, timeouts>>

\* commitRuntime up to its first unlock.
CommitRuntime ==
  /\ op.pc = "commit" /\ op.kind = "apply" /\ op.profile # "none"
  /\ n' = n + 1
  /\ current' = n + 1
  /\ slot' = [slot EXCEPT ![n + 1] = NewSlot(op.profile)]
  /\ op' = [op EXCEPT !.pc = "start"]
  /\ UNCHANGED <<admission, maint, req, writer, closing, timeouts>>

\* startSlot runs outside m.mu.
StartRuntime ==
  /\ op.pc = "start"
  /\ slot' = [slot EXCEPT ![current] = StartSlot(current)]
  /\ op' = [op EXCEPT !.pc = "open"]
  /\ UNCHANGED <<manager, n, maint, req, writer, closing, timeouts>>

\* The second half of commitRuntime.
OpenRuntime ==
  /\ op.pc = "open"
  /\ admission' = IF admission = "transitioning" THEN "active" ELSE admission
  /\ op' = OpIdle
  /\ UNCHANGED <<current, slot, n, maint, req, writer, closing, timeouts>>

\* VerifyMaintenance probes with the lease its caller owns; the coordinator
\* resumes after a good answer only, and saves the routing state in between.
VerifyMaintenance ==
  /\ op = OpIdle /\ writer
  /\ maint.prepared
  /\ \E result \in Results :
       /\ maint' = [maint EXCEPT !.verified = (result = "ready")]
       /\ slot' = [slot EXCEPT ![maint.slot].loss = slot[maint.slot].loss /\ result = "lost"]
  /\ UNCHANGED <<manager, n, op, req, writer, closing, timeouts>>

\* Mutant: the coordinator resumes whatever the probe said.
ResumeUnverified ==
  /\ op = OpIdle
  /\ maint.prepared
  /\ slot' = [slot EXCEPT ![maint.slot] = StartSlot(maint.slot)]
  /\ op' = [OpIdle EXCEPT !.pc = "resume", !.kind = "resume"]
  /\ UNCHANGED <<manager, n, maint, req, writer, closing, timeouts>>

\* ResumeMaintenance: the workers are started before admission opens.
StartResume ==
  /\ op = OpIdle
  /\ maint.prepared /\ maint.verified
  /\ slot' = [slot EXCEPT ![maint.slot] = StartSlot(maint.slot)]
  /\ op' = [OpIdle EXCEPT !.pc = "resume", !.kind = "resume"]
  /\ UNCHANGED <<manager, n, maint, req, writer, closing, timeouts>>

FinishResume ==
  /\ op.pc = "resume"
  /\ admission' = IF current = maint.slot THEN "active" ELSE admission
  /\ maint' = NoMaint
  /\ op' = OpIdle
  /\ UNCHANGED <<current, slot, n, req, writer, closing, timeouts>>

-----------------------------------------------------------------------------
(* The relayctl command: flock without waiting, so only when nobody shares.*)

AcquireWriter ==
  /\ ~writer
  /\ Leased = {}
  /\ writer' = TRUE
  /\ UNCHANGED <<manager, slot, n, op, maint, req, closing, timeouts>>

\* The command ends, or dies and leaves its handler to go on.
ReleaseWriter ==
  /\ writer
  /\ writer' = FALSE
  /\ UNCHANGED <<manager, slot, n, op, maint, req, closing, timeouts>>

-----------------------------------------------------------------------------
\* NewRuntimeManager: an active profile, one whose first probe failed, an
\* Apple runtime parked for pending maintenance, or the health-only slot.
Init ==
  /\ \E p \in Profiles \cup {"none"}, result \in Results, parked \in BOOLEAN :
       LET ready == p = "external" \/ (p \in LocalProfiles /\ ~parked /\ result = "ready")
       IN  /\ parked => p = "local_apple_container"
           /\ admission = IF ready THEN "active"
                          ELSE IF p = "none" \/ parked THEN "paused"
                          ELSE "local_unavailable"
           /\ slot = [i \in 1..MaxSlots |->
                IF i # 1 THEN NoSlot
                ELSE IF ~ready THEN NewSlot(p)
                ELSE [NewSlot(p) EXCEPT !.cat = "run",
                        !.mon = IF p \in LocalProfiles THEN "tick" ELSE "none"]]
  /\ current = 1 /\ n = 1
  /\ op = OpIdle /\ maint = NoMaint
  /\ req = [r \in Requests |-> ReqIdle]
  /\ writer = FALSE /\ closing = FALSE /\ timeouts = 0

Request(r) ==
  Look(r) \/ Wake(r) \/ GiveUp(r) \/ AcquireLease(r) \/ EnterGate(r) \/ Check(r)
    \/ Begin(r) \/ HeaderWritten(r) \/ Finish(r)

Worker(s) ==
  CatActivate(s) \/ CatActivated(s) \/ CatReturn(s) \/ MonTick(s) \/ MonProbe(s)

Starting ==
  \/ \E p \in Profiles \cup {"none"} : StartApply(p)
  \/ StartPrepare \/ StartClose \/ VerifyMaintenance \/ StartResume

Operation ==
  BeginTransition \/ LockGate \/ Quiesce \/ Stop \/ CommitParked \/ CommitRuntime
    \/ StartRuntime \/ OpenRuntime \/ FinishResume

Next ==
  \/ \E r \in Requests : Request(r)
  \/ \E s \in 1..MaxSlots : Worker(s)
  \/ Starting \/ Operation \/ Timeout
  \/ AcquireWriter \/ ReleaseWriter

Spec == Init /\ [][Next]_vars

\* Handlers return, cancelled workers return, and the scheduler runs every
\* goroutine.  The channel a request waits on stays closed after the first
\* change, and TryLock is tried again and again: both are strongly fair.
\* Deadlines, arrivals, clients that give up and relayctl are
\* under no obligation.
FairSpec ==
  /\ Spec
  /\ WF_vars(Operation)
  /\ \A r \in Requests :
       /\ SF_vars(Wake(r)) /\ WF_vars(EnterGate(r)) /\ WF_vars(Check(r))
       /\ SF_vars(Begin(r)) /\ WF_vars(Finish(r))
  /\ \A s \in 1..MaxSlots :
       /\ WF_vars(CatActivated(s)) /\ SF_vars(CatReturn(s))
       /\ WF_vars(MonProbe(s)) /\ WF_vars(slot[s].monc /\ MonTick(s))

-----------------------------------------------------------------------------
\* Every variable keeps the shape the manager's fields have.
TypeOK ==
  /\ current \in 0..MaxSlots /\ n \in 1..MaxSlots
  /\ admission \in {"active", "transitioning", "local_unavailable", "paused", "closed"}
  /\ slot \in [1..MaxSlots -> Slots]
  /\ op \in Ops
  /\ maint \in [prepared : BOOLEAN, slot : 0..MaxSlots, verified : BOOLEAN]
  /\ req \in [Requests -> Reqs]
  /\ writer \in BOOLEAN /\ closing \in BOOLEAN
  /\ timeouts \in 0..MaxTimeouts

\* A request past its second check is served by the runtime that is current:
\* the gate keeps a swap away from it, however long it runs (serveHTTP, lockGate).
RetiredNeverServes ==
  \A r \in Requests : req[r].pc \in {"checked", "serving"} => req[r].slot = current

\* "The manager starts at most one lifecycle for the active runtime and waits
\* for it to stop before the next one starts": two catalog workers never write
\* at once, through failed drains, resumed maintenance and replaced runtimes.
OneCatalogWriter ==
  \A s, t \in 1..MaxSlots : ~CatStopped(s) /\ ~CatStopped(t) => s = t

\* While maintenance is prepared the container may be replaced: no request is
\* past the gate, no worker runs, and admission stays closed, until
\* ResumeMaintenance, also when a Close in between times out
\* (PrepareMaintenance, parkAfterFailedDrain).
MaintenanceQuiet ==
  maint.prepared /\ op.kind # "resume" =>
    /\ admission # "active"
    /\ \A r \in Requests : req[r].pc \notin {"checked", "serving"}
    /\ \A s \in 1..MaxSlots : CatStopped(s) /\ MonStopped(s)

\* "A later Ready observation is recorded but never automatically re-admits the
\* parked runtime": a slot whose loss closed admission is open again only after
\* it was verified, also when the loss falls between the checks of
\* PrepareMaintenance and its transition, or a drain timed out in between.
ParkedLossStays ==
  current # 0 /\ slot[current].loss => admission # "active"

\* An operation ends without the help of its deadline once the handlers in the
\* gate return: neither the lifecycle lock, nor a probe that waits for it, nor
\* an activation that holds the tracker can keep it from its drain.
OperationEnds == op # OpIdle ~> op = OpIdle

\* A request held back by a transition is let go: the transition ends, or the
\* runtime is under maintenance.
WaitEnds ==
  \A r \in Requests : req[r].pc = "wait" ~> req[r].pc # "wait" \/ maint.prepared

\* Nobody waits on anybody for ever: not the operation on the handlers and
\* workers it drains, not the requests on the operation that holds them back.
ManagerProgresses == OperationEnds /\ WaitEnds

=============================================================================
