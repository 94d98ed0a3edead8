------------------------ MODULE RuntimeManagerProofs ------------------------
(***************************************************************************)
(* What the RuntimeManager keeps, for any number of requests and runtimes. *)
(*                                                                         *)
(* Inv is the inductive invariant.  Its parts say which operation holds    *)
(* what: the kind of an operation and the runtime it replaces (OpShape),   *)
(* that only the current runtime has workers (WorkersCurrent), that nobody *)
(* is in the gate while an operation holds it (GateExclusive), what        *)
(* prepared maintenance waits with (MaintShape), and where a loss is       *)
(* remembered (LossShape).                                                 *)
(***************************************************************************)
EXTENDS RuntimeManager, TLAPS

Drained(s) == CatStopped(s) /\ MonStopped(s)

OpShape ==
  /\ op.pc = "idle" => op = OpIdle
  /\ op.kind = "none" => op.pc = "idle"
  /\ op.kind = "resume" <=> op.pc = "resume"
  /\ op.pc \in {"start", "open"} => op.kind = "apply"
  /\ op.kind \in {"apply", "prepare"} => ~maint.prepared
  /\ op.kind = "prepare" => current # 0
  /\ op.pc \in {"gate", "quiesce", "stop", "commit"} => op.old = current
  /\ op.pc \in {"gate", "quiesce", "stop", "commit", "start", "open", "resume"}
       => admission # "active"
  /\ op.kind = "apply" /\ op.profile # "none" /\ op.pc \notin {"start", "open"}
       => n < MaxSlots

WorkersCurrent ==
  /\ \A s \in 1..MaxSlots : ~Drained(s) => s = current
  /\ op.pc \in {"commit", "start"} => \A s \in 1..MaxSlots : Drained(s)

GateExclusive == GateLocked => \A r \in Requests : req[r].pc \notin GatePCs

MaintShape ==
  /\ maint.prepared =>
       /\ maint.slot = current /\ current # 0
       /\ admission # "active"
  /\ op.pc = "resume" => maint.prepared /\ maint.verified
  /\ maint.verified => maint.prepared

LossShape ==
  /\ op.pc \in {"start", "open"} => current # 0 /\ ~slot[current].loss
  /\ maint.verified => ~slot[maint.slot].loss

Inv ==
  /\ TypeOK /\ OpShape /\ WorkersCurrent /\ GateExclusive /\ MaintShape /\ LossShape
  /\ RetiredNeverServes /\ MaintenanceQuiet /\ ParkedLossStays

\* The runtime the process starts with satisfies Inv: one slot, an idle
\* operation, and nobody in the gate.
LEMMA InitInv == Init => Inv
<1> SUFFICES ASSUME Init PROVE Inv
  OBVIOUS
<1> USE ManagerAssumption
<1>1. 1 \in 1..MaxSlots /\ 0 \in 0..MaxSlots /\ 1 \in 0..MaxSlots /\ 0 \in 0..MaxTimeouts
  OBVIOUS
<1>2. PICK p \in Profiles \cup {"none"}, result \in Results, parked \in BOOLEAN :
        LET ready == p = "external" \/ (p \in LocalProfiles /\ ~parked /\ result = "ready")
        IN  /\ admission = IF ready THEN "active"
                          ELSE IF p = "none" \/ parked THEN "paused"
                          ELSE "local_unavailable"
            /\ slot = [i \in 1..MaxSlots |->
                 IF i # 1 THEN NoSlot
                 ELSE IF ~ready THEN NewSlot(p)
                 ELSE [NewSlot(p) EXCEPT !.cat = "run",
                         !.mon = IF p \in LocalProfiles THEN "tick" ELSE "none"]]
  BY Zenon DEF Init
<1>3. \A i \in 1..MaxSlots :
        /\ slot[i] \in Slots /\ ~slot[i].loss
        /\ i # 1 => slot[i] = NoSlot
  BY <1>2, Zenon DEF Slots, NoSlot, NewSlot, Profiles, LocalProfiles
<1>4. TypeOK
  BY <1>1, <1>2, <1>3, Zenon DEF Init, TypeOK, Ops, OpIdle, NoMaint, Reqs, ReqIdle
<1>5. OpShape /\ MaintShape /\ LossShape
  BY <1>3 DEF Init, OpShape, MaintShape, LossShape, OpIdle, NoMaint
<1>6. WorkersCurrent
  BY <1>3 DEF Init, WorkersCurrent, OpIdle, Drained, CatStopped, MonStopped, NoSlot
<1>7. GateExclusive /\ RetiredNeverServes
  BY DEF Init, GateExclusive, GateLocked, RetiredNeverServes, OpIdle, ReqIdle, GatePCs
<1>8. MaintenanceQuiet /\ ParkedLossStays
  BY <1>1, <1>3 DEF Init, MaintenanceQuiet, ParkedLossStays, NoMaint
<1> QED
  BY <1>4, <1>5, <1>6, <1>7, <1>8 DEF Inv

\* A request moves only itself, enters the gate while no operation holds it,
\* and is checked against the current runtime there.
LEMMA RequestInv == ASSUME Inv, NEW r \in Requests, Request(r) PROVE Inv'
<1>1. UNCHANGED <<current, admission, slot, n, op, maint, writer, closing, timeouts>>
  BY DEF Request, Look, Wake, GiveUp, AcquireLease, EnterGate, Check, Begin,
         HeaderWritten, Finish, manager
<1>2. req \in [Requests -> Reqs] /\ current \in 0..MaxSlots /\ 0 \in 0..MaxSlots
  BY ManagerAssumption DEF Inv, TypeOK
<1> DEFINE v == req'[r]
           Moved ==
             /\ req' = [req EXCEPT ![r] = v]
             /\ v \in Reqs
             /\ v.pc \in GatePCs => req[r].pc \in GatePCs \/ ~GateLocked
             /\ v.pc \in {"checked", "serving"} =>
                  /\ v.slot = current
                  /\ req[r].pc \in {"checked", "serving"} \/ admission = "active"
           Start(pc) == [ReqIdle EXCEPT !.pc = pc]
<1>a. ReqIdle \in Reqs /\ ReqIdle.pc \notin GatePCs
  BY <1>2 DEF Reqs, ReqIdle, GatePCs
<1>b. \A pc \in {"idle", "look", "wait"} : Start(pc) \in Reqs /\ Start(pc).pc = pc
  BY <1>2, Zenon DEF Reqs, ReqIdle
<1>c. req[r].pc \in {"checked", "serving"} => req[r].slot = current
  BY DEF Inv, RetiredNeverServes
<1> HIDE DEF Start
<1>3. Moved
  <2>1. CASE Look(r)
    <3>1. CASE admission = "active"
      <4>1. v \in Reqs /\ v.pc \in {"lease", "gate"} /\ req' = [req EXCEPT ![r] = v]
        BY <1>2, <2>1, <3>1 DEF Look, Reqs
      <4> QED
        BY <4>1 DEF GatePCs
    <3>2. CASE admission # "active"
      <4>1. \E pc \in {"idle", "wait"} : req' = [req EXCEPT ![r] = Start(pc)]
        BY <2>1, <3>2, Zenon DEF Look, Start
      <4> QED
        BY <1>2, <1>b, <4>1 DEF GatePCs
    <3> QED
      BY <3>1, <3>2
  <2>2. CASE Wake(r)
    BY <1>2, <2>2 DEF Wake, Reqs, GatePCs
  <2>3. CASE GiveUp(r) \/ Finish(r)
    BY <1>2, <1>a, <2>3 DEF GiveUp, Finish, GatePCs
  <2>4. CASE AcquireLease(r) \/ EnterGate(r)
    BY <1>2, <2>4 DEF AcquireLease, EnterGate, Reqs, GatePCs
  <2>5. CASE Check(r)
    <3>1. CASE admission = "active" /\ current # 0 /\ current = req[r].slot
      BY <1>2, <2>5, <3>1 DEF Check, Reqs, GatePCs
    <3>2. CASE ~(admission = "active" /\ current # 0 /\ current = req[r].slot)
      <4>1. req' = [req EXCEPT ![r] = Start("look")]
        BY <2>5, <3>2, Zenon DEF Check, Start
      <4> QED
        BY <1>2, <1>b, <4>1 DEF GatePCs
    <3> QED
      BY <3>1, <3>2
  <2>6. CASE Begin(r)
    <3>1. /\ v = [req[r] EXCEPT !.pc = "serving"] /\ req' = [req EXCEPT ![r] = v]
          /\ req[r].pc = "checked"
      BY <1>2, <2>6 DEF Begin
    <3> QED
      BY <1>2, <1>c, <3>1 DEF Reqs, GatePCs
  <2>7. CASE HeaderWritten(r)
    <3>1. /\ v = [req[r] EXCEPT !.lease = FALSE] /\ req' = [req EXCEPT ![r] = v]
          /\ req[r].pc = "serving"
      BY <1>2, <2>7 DEF HeaderWritten
    <3>2. req[r] \in Reqs
      BY <1>2
    <3>3. v \in Reqs /\ v.pc = "serving" /\ v.slot = req[r].slot
      BY <3>1, <3>2, Zenon DEF Reqs
    <3> QED
      BY <1>c, <3>1, <3>3 DEF GatePCs
  <2> QED
    BY <2>1, <2>2, <2>3, <2>4, <2>5, <2>6, <2>7 DEF Request
<1>9. /\ req' \in [Requests -> Reqs]
      /\ \A q \in Requests : q # r => req'[q] = req[q]
  BY <1>2, <1>3
<1> HIDE DEF Moved
<1> USE DEF Inv
<1>4. TypeOK'
  BY <1>1, <1>9 DEF TypeOK
<1>5. (OpShape /\ WorkersCurrent /\ MaintShape /\ LossShape /\ ParkedLossStays)'
  BY <1>1 DEF OpShape, WorkersCurrent, MaintShape, LossShape, ParkedLossStays, Drained,
              CatStopped, MonStopped
<1>6. GateExclusive'
  BY <1>1, <1>3, <1>9 DEF Moved, GateExclusive, GateLocked
<1>7. RetiredNeverServes'
  BY <1>1, <1>3, <1>9 DEF Moved, RetiredNeverServes
<1>8. MaintenanceQuiet'
  BY <1>1, <1>3, <1>9 DEF Moved, MaintenanceQuiet, CatStopped, MonStopped, MaintShape
<1> QED
  BY <1>4, <1>5, <1>6, <1>7, <1>8

\* A worker that moves belongs to the current runtime, and a loss it records
\* closes an open admission in the same step.
LEMMA WorkerInv == ASSUME Inv, NEW s \in 1..MaxSlots, Worker(s) PROVE Inv'
<1> DEFINE w == slot'[s]
<1>1. UNCHANGED <<current, n, op, maint, req, writer, closing, timeouts>>
  BY Zenon DEF Worker, CatActivate, CatActivated, CatReturn, MonTick, MonProbe, manager
<1>2. slot \in [1..MaxSlots -> Slots]
  BY DEF Inv, TypeOK
<1>3. ~Drained(s)
  BY Zenon DEF Worker, CatActivate, CatActivated, CatReturn, MonTick, MonProbe, Drained,
         CatStopped, MonStopped
<1>4. /\ slot' = [slot EXCEPT ![s] = w]
      /\ w \in Slots
      /\ admission' # admission => admission = "active" /\ admission' = "local_unavailable"
      /\ w.loss => slot[s].loss \/ (admission = "active" /\ admission' # "active")
  <2>0. slot[s] \in Slots
    BY <1>2
  <2>1. CASE CatActivate(s) \/ CatActivated(s)
    <3>1. PICK c \in {"activate", "run"} : w = [slot[s] EXCEPT !.cat = c]
      BY <1>2, <2>1, Zenon DEF CatActivate, CatActivated
    <3>2. slot' = [slot EXCEPT ![s] = w] /\ UNCHANGED admission
      BY <1>2, <2>1, Zenon DEF CatActivate, CatActivated, manager
    <3> QED
      BY <2>0, <3>1, <3>2 DEF Slots
  <2>2. CASE CatReturn(s)
    <3>1. w = [slot[s] EXCEPT !.cat = "done", !.catc = FALSE]
      BY <1>2, <2>2 DEF CatReturn
    <3>2. slot' = [slot EXCEPT ![s] = w] /\ UNCHANGED admission
      BY <1>2, <2>2, Zenon DEF CatReturn, manager
    <3> QED
      BY <2>0, <3>1, <3>2, Zenon DEF Slots
  <2>3. CASE MonTick(s)
    <3>1. \/ w = [slot[s] EXCEPT !.mon = "probe"]
          \/ w = [slot[s] EXCEPT !.mon = "done", !.monc = FALSE]
      BY <1>2, <2>3, Zenon DEF MonTick
    <3>2. slot' = [slot EXCEPT ![s] = w] /\ UNCHANGED admission
      BY <1>2, <2>3, Zenon DEF MonTick, manager
    <3> QED
      BY <2>0, <3>1, <3>2, Zenon DEF Slots
  <2>4. CASE MonProbe(s)
    <3>1. PICK m \in {"tick", "done"}, c \in BOOLEAN, l \in BOOLEAN :
            /\ slot' = [slot EXCEPT ![s].mon = m, ![s].monc = FALSE, ![s].catc = c,
                                    ![s].loss = l]
            /\ l => slot[s].loss \/ (admission = "active" /\ admission' # "active")
            /\ admission' # admission =>
                 admission = "active" /\ admission' = "local_unavailable"
      <4>1. PICK result \in Results :
              LET observed == ~slot[s].monc
                  lost     == observed /\ result = "lost" /\ current = s
                  parks    == lost /\ admission = "active"
              IN  /\ slot' = [slot EXCEPT
                       ![s].mon  = IF observed /\ result = "ready" THEN "tick" ELSE "done",
                       ![s].monc = FALSE,
                       ![s].catc = slot[s].catc \/ (lost /\ ~CatStopped(s)),
                       ![s].loss = slot[s].loss \/ parks]
                  /\ admission' = IF parks THEN "local_unavailable" ELSE admission
        BY <2>4, Zenon DEF MonProbe
      <4> DEFINE lost == ~slot[s].monc /\ result = "lost" /\ current = s
                 m == IF ~slot[s].monc /\ result = "ready" THEN "tick" ELSE "done"
                 c == slot[s].catc \/ (lost /\ ~CatStopped(s))
                 l == slot[s].loss \/ (lost /\ admission = "active")
      <4>2. m \in {"tick", "done"} /\ c \in BOOLEAN /\ l \in BOOLEAN
        BY <2>0 DEF Slots
      <4> QED
        BY <4>1, <4>2, Zenon
    <3>2. w = [slot[s] EXCEPT !.mon = m, !.monc = FALSE, !.catc = c, !.loss = l]
      BY <1>2, <3>1
    <3>3. slot' = [slot EXCEPT ![s] = w]
      BY <1>2, <3>1, Zenon
    <3>4. w \in Slots /\ w.loss = l
      <4> DEFINE x == slot[s]
      <4>1. x \in Slots
        BY <2>0
      <4>2. w = [x EXCEPT !.mon = m, !.monc = FALSE, !.catc = c, !.loss = l]
        BY <3>2
      <4> HIDE DEF x, w
      <4> QED
        BY <4>1, <4>2, Zenon DEF Slots
    <3> QED
      BY <3>1, <3>3, <3>4
  <2> QED
    BY <2>1, <2>2, <2>3, <2>4 DEF Worker
<1>5. s = current /\ op.pc \notin {"commit", "start"}
  BY <1>3 DEF Inv, WorkersCurrent
<1>6. \A t \in 1..MaxSlots : t # s => slot'[t] = slot[t]
  BY <1>2, <1>4, Zenon
<1> HIDE DEF w
<1> USE DEF Inv
<1>7. TypeOK'
  BY <1>1, <1>2, <1>4 DEF TypeOK
<1>8. OpShape' /\ MaintShape' /\ GateExclusive' /\ RetiredNeverServes'
  BY <1>1, <1>4 DEF OpShape, MaintShape, GateExclusive, GateLocked, RetiredNeverServes
<1>9. WorkersCurrent'
  BY <1>1, <1>5, <1>6 DEF WorkersCurrent, Drained, CatStopped, MonStopped
<1>10. LossShape'
  BY <1>1, <1>4, <1>5, <1>6 DEF LossShape, OpShape, MaintShape, w
<1>11. MaintenanceQuiet'
  BY <1>1, <1>3, <1>4 DEF MaintenanceQuiet, Drained
<1>12. ParkedLossStays'
  BY <1>1, <1>4, <1>5 DEF ParkedLossStays, w
<1> QED
  BY <1>7, <1>8, <1>9, <1>10, <1>11, <1>12

\* cancelWorkers changes contexts only: no worker starts or returns by it.
LEMMA CancelKeeps ==
  ASSUME NEW W, slot \in [1..MaxSlots -> Slots], slot' = CancelWorkers(W)
  PROVE  /\ slot' \in [1..MaxSlots -> Slots]
         /\ \A s \in 1..MaxSlots : /\ slot'[s].cat = slot[s].cat
                                   /\ slot'[s].mon = slot[s].mon
                                   /\ slot'[s].loss = slot[s].loss
<1>1. \A s \in 1..MaxSlots :
        slot'[s] = IF s \in W
                   THEN [slot[s] EXCEPT !.catc = ~CatStopped(s), !.monc = ~MonStopped(s)]
                   ELSE slot[s]
  BY Zenon DEF CancelWorkers
<1>2. \A s \in 1..MaxSlots : /\ slot'[s] \in Slots
                             /\ slot'[s].cat = slot[s].cat
                             /\ slot'[s].mon = slot[s].mon
                             /\ slot'[s].loss = slot[s].loss
  <2> TAKE s \in 1..MaxSlots
  <2>1. slot[s] \in Slots
    OBVIOUS
  <2> DEFINE x == slot[s]
             c == ~CatStopped(s)
             m == ~MonStopped(s)
             y == slot'[s]
  <2>2. x \in Slots /\ c \in BOOLEAN /\ m \in BOOLEAN
    BY <2>1
  <2>3. y = x \/ y = [x EXCEPT !.catc = c, !.monc = m]
    BY <1>1, Zenon
  <2> HIDE DEF x, c, m, y
  <2>4. y \in Slots /\ y.cat = x.cat /\ y.mon = x.mon /\ y.loss = x.loss
    BY <2>2, <2>3, Zenon DEF Slots
  <2> QED
    BY <2>4 DEF x, y
<1> QED
  BY <1>2, Zenon DEF CancelWorkers

\* Inv does not speak of the lifecycle lock beyond its type.
LEMMA KeptInv ==
  ASSUME Inv, writer' \in BOOLEAN,
         UNCHANGED <<current, admission, slot, n, op, maint, req, closing, timeouts>>
  PROVE  Inv'
<1> USE DEF Inv
<1>1. TypeOK'
  BY DEF TypeOK
<1>2. OpShape' /\ MaintShape' /\ LossShape' /\ GateExclusive'
  BY DEF OpShape, MaintShape, LossShape, GateExclusive, GateLocked
<1>3. WorkersCurrent'
  BY DEF WorkersCurrent, Drained, CatStopped, MonStopped
<1>4. RetiredNeverServes' /\ MaintenanceQuiet' /\ ParkedLossStays'
  BY DEF RetiredNeverServes, MaintenanceQuiet, ParkedLossStays, CatStopped, MonStopped
<1> QED
  BY <1>1, <1>2, <1>3, <1>4

\* The lifecycle lock is taken and released.
LEMMA WriterInv == ASSUME Inv, AcquireWriter \/ ReleaseWriter PROVE Inv'
<1>1. /\ UNCHANGED <<current, admission, slot, n, op, maint, req, closing, timeouts>>
      /\ writer' \in BOOLEAN
  BY Zenon DEF AcquireWriter, ReleaseWriter, manager
<1> QED
  BY <1>1, KeptInv

\* An operation that starts has neither the gate nor a runtime to replace yet.
LEMMA StartedInv ==
  ASSUME Inv, NEW kind \in {"apply", "prepare", "close"}, NEW p \in Profiles \cup {"none"},
         op = OpIdle, Starts(kind, p),
         UNCHANGED <<manager, slot, n, maint, req, writer, closing, timeouts>>,
         kind \in {"apply", "prepare"} => ~maint.prepared,
         kind = "prepare" => current # 0,
         p # "none" => n < MaxSlots
  PROVE  Inv'
<1>1. 0 \in 0..MaxSlots
  BY ManagerAssumption
<1>2. op' \in Ops /\ op'.pc = "begin" /\ op'.kind = kind /\ op'.profile = p
  BY <1>1, Zenon DEF Starts, OpIdle, Ops
<1>3. UNCHANGED <<current, admission>>
  BY DEF manager
<1>4. op.kind = "none" /\ op.pc = "idle"
  BY DEF OpIdle
<1> USE DEF Inv
<1>5. TypeOK'
  BY <1>2, <1>3 DEF TypeOK
<1>6. OpShape'
  BY <1>2, <1>3 DEF OpShape
<1>7. WorkersCurrent' /\ GateExclusive' /\ MaintShape' /\ LossShape'
  BY <1>2, <1>3 DEF WorkersCurrent, GateExclusive, GateLocked, MaintShape, LossShape,
                    Drained, CatStopped, MonStopped
<1>8. RetiredNeverServes' /\ MaintenanceQuiet' /\ ParkedLossStays'
  BY <1>2, <1>3, <1>4 DEF RetiredNeverServes, MaintenanceQuiet, ParkedLossStays,
                          CatStopped, MonStopped
<1> QED
  BY <1>5, <1>6, <1>7, <1>8

\* A failed probe of Apply's candidate closes the admission of the current
\* runtime in the step that records the loss.
LEMMA ObservedInv ==
  ASSUME Inv, op = OpIdle, ~maint.prepared, ObserveLocalAvailability("lost"),
         UNCHANGED <<n, op, maint, req, writer, closing, timeouts>>
  PROVE  Inv'
<1>1. slot \in [1..MaxSlots -> Slots] /\ current \in 0..MaxSlots
  BY DEF Inv, TypeOK
<1> DEFINE lost == current # 0 /\ IsLocal(current)
           w    == slot'[current]
<1>2. CASE ~lost
  <2>1. UNCHANGED <<current, admission, slot>> /\ writer' \in BOOLEAN
    BY <1>2 DEF ObserveLocalAvailability, Inv, TypeOK
  <2> QED
    BY <2>1, KeptInv
<1>3. CASE lost
  <2> DEFINE x == slot[current]
             c == ~CatStopped(current)
             l == slot[current].loss \/ admission = "active"
  <2>1. current \in 1..MaxSlots
    BY <1>1, <1>3
  <2>2. x \in Slots /\ c \in BOOLEAN /\ l \in BOOLEAN
    BY <1>1, <2>1 DEF Slots
  <2>3. /\ slot' = [slot EXCEPT ![current].catc = c, ![current].loss = l]
        /\ admission' = IF admission = "active" THEN "local_unavailable" ELSE admission
        /\ UNCHANGED current
    <3>1. l <=> slot[current].loss \/ (lost /\ admission = "active")
      BY <1>3
    <3> QED
      BY <1>3, <3>1, Zenon DEF ObserveLocalAvailability
  <2>4. w = [x EXCEPT !.catc = c, !.loss = l] /\ slot' = [slot EXCEPT ![current] = w]
    BY <1>1, <2>1, <2>3, Zenon
  <2>5. w \in Slots /\ w.cat = x.cat /\ w.mon = x.mon
    <3> HIDE DEF w, x, c, l
    <3> QED
      BY <2>2, <2>4, Zenon DEF Slots
  <2> HIDE DEF w
  <2>6. /\ slot' \in [1..MaxSlots -> Slots]
        /\ \A s \in 1..MaxSlots : slot'[s].cat = slot[s].cat /\ slot'[s].mon = slot[s].mon
    BY <1>1, <2>1, <2>4, <2>5
  <2>7. admission' # "active" /\ UNCHANGED current
    BY <2>3
  <2>8. op.pc = "idle"
    BY DEF OpIdle
  <2> USE DEF Inv
  <2>9. TypeOK'
    BY <2>3, <2>6 DEF TypeOK
  <2>10. OpShape' /\ GateExclusive' /\ MaintShape' /\ LossShape'
    BY <2>7, <2>8 DEF OpShape, GateExclusive, GateLocked, MaintShape, LossShape
  <2>11. WorkersCurrent'
    BY <2>6, <2>7 DEF WorkersCurrent, Drained, CatStopped, MonStopped
  <2>12. RetiredNeverServes' /\ MaintenanceQuiet' /\ ParkedLossStays'
    BY <2>7 DEF RetiredNeverServes, MaintenanceQuiet, ParkedLossStays
  <2> QED
    BY <2>9, <2>10, <2>11, <2>12
<1> QED
  BY <1>2, <1>3

\* Apply and PrepareMaintenance are refused during maintenance; Close is not.
LEMMA StartInv ==
  ASSUME Inv, (\E p \in Profiles \cup {"none"} : StartApply(p)) \/ StartPrepare \/ StartClose
  PROVE  Inv'
<1>1. ASSUME NEW p \in Profiles \cup {"none"}, StartApply(p) PROVE Inv'
  <2>1. /\ op = OpIdle /\ ~maint.prepared /\ (p # "none" => n < MaxSlots)
        /\ UNCHANGED <<n, maint, req, writer, closing, timeouts>>
    BY <1>1 DEF StartApply
  <2>2. CASE Starts("apply", p) /\ UNCHANGED <<manager, slot>>
    BY <2>1, <2>2, StartedInv
  <2>3. CASE ObserveLocalAvailability("lost") /\ UNCHANGED op
    BY <2>1, <2>3, ObservedInv
  <2>4. ObserveLocalAvailability("ready") => UNCHANGED <<manager, slot>>
    BY DEF ObserveLocalAvailability, manager
  <2> QED
    BY <1>1, <2>2, <2>3, <2>4 DEF StartApply, Results
<1>2. CASE StartPrepare
  <2>1. /\ op = OpIdle /\ ~maint.prepared /\ current # 0 /\ Starts("prepare", "none")
        /\ UNCHANGED <<manager, slot, n, maint, req, writer, closing, timeouts>>
    BY <1>2 DEF StartPrepare
  <2> QED
    BY <2>1, StartedInv
<1>3. CASE StartClose
  <2>1. /\ op = OpIdle /\ Starts("close", "none")
        /\ UNCHANGED <<manager, slot, n, maint, req, writer, closing, timeouts>>
    BY <1>3 DEF StartClose
  <2> QED
    BY <2>1, StartedInv
<1> QED
  BY <1>1, <1>2, <1>3

\* VerifyMaintenance forgets a loss only with the answer that it is over.
LEMMA VerifyInv == ASSUME Inv, VerifyMaintenance PROVE Inv'
<1>1. PICK result \in Results :
        /\ maint' = [maint EXCEPT !.verified = (result = "ready")]
        /\ slot' = [slot EXCEPT ![maint.slot].loss = slot[maint.slot].loss /\ result = "lost"]
  BY Zenon DEF VerifyMaintenance
<1>2. /\ UNCHANGED <<current, admission, n, op, req, writer, closing, timeouts>>
      /\ op.pc = "idle" /\ maint.prepared
  BY DEF VerifyMaintenance, manager, OpIdle
<1>3. slot \in [1..MaxSlots -> Slots] /\ maint.slot = current /\ current \in 1..MaxSlots
  BY <1>2 DEF Inv, TypeOK, MaintShape
<1> DEFINE x == slot[current]
           w == slot'[current]
           l == slot[current].loss /\ result = "lost"
           b == result = "ready"
<1>4. x \in Slots /\ l \in BOOLEAN /\ b \in BOOLEAN
  BY <1>3
<1>5. w = [x EXCEPT !.loss = l] /\ slot' = [slot EXCEPT ![current] = w]
  BY <1>1, <1>3
<1>6. w \in Slots /\ w.cat = x.cat /\ w.mon = x.mon /\ w.loss = l
  <2> HIDE DEF w, x, l
  <2> QED
    BY <1>4, <1>5 DEF Slots
<1>7. /\ slot' \in [1..MaxSlots -> Slots]
      /\ \A s \in 1..MaxSlots : slot'[s].cat = slot[s].cat /\ slot'[s].mon = slot[s].mon
  <2> HIDE DEF w
  <2>1. \A s \in 1..MaxSlots : s # current => slot'[s] = slot[s]
    BY <1>3, <1>5
  <2> QED
    BY <1>3, <1>5, <1>6, <2>1, Zenon DEF w
<1>8. /\ maint' \in [prepared : BOOLEAN, slot : 0..MaxSlots, verified : BOOLEAN]
      /\ maint'.prepared /\ maint'.slot = current /\ (maint'.verified <=> b)
  <2>1. maint \in [prepared : BOOLEAN, slot : 0..MaxSlots, verified : BOOLEAN]
    BY DEF Inv, TypeOK
  <2>2. maint' = [maint EXCEPT !.verified = b]
    BY <1>1
  <2> HIDE DEF b
  <2> QED
    BY <1>2, <1>3, <1>4, <2>1, <2>2
<1>9. b => ~l
  OBVIOUS
<1>10. slot'[current].loss => slot[current].loss
  BY <1>6, Zenon
<1> HIDE DEF w, x
<1> USE DEF Inv
<1>11. TypeOK'
  BY <1>2, <1>7, <1>8 DEF TypeOK
<1>12. OpShape' /\ GateExclusive' /\ MaintShape' /\ RetiredNeverServes'
  BY <1>2, <1>3, <1>8 DEF OpShape, GateExclusive, GateLocked, MaintShape, RetiredNeverServes
<1>13. WorkersCurrent'
  BY <1>2, <1>7, Zenon DEF WorkersCurrent, Drained, CatStopped, MonStopped
<1>14. LossShape'
  BY <1>2, <1>6, <1>8, <1>9, Zenon DEF LossShape, w
<1>15. MaintenanceQuiet' /\ ParkedLossStays'
  BY <1>2, <1>7, <1>10 DEF MaintenanceQuiet, ParkedLossStays, CatStopped, MonStopped
<1> QED
  BY <1>11, <1>12, <1>13, <1>14, <1>15

\* startSlot makes workers of a slot and keeps what it remembers.
LEMMA StartKeeps ==
  ASSUME TypeOK, NEW s \in 1..MaxSlots, slot' = [slot EXCEPT ![s] = StartSlot(s)]
  PROVE  /\ slot' \in [1..MaxSlots -> Slots]
         /\ slot'[s].loss = slot[s].loss
         /\ \A t \in 1..MaxSlots : t # s => slot'[t] = slot[t]
<1> DEFINE x == slot[s]
           y == StartSlot(s)
           d == IF IsLocal(s) THEN "tick" ELSE "none"
           e == closing /\ IsLocal(s)
           f == closing
<1>1. slot \in [1..MaxSlots -> Slots] /\ x \in Slots /\ f \in BOOLEAN
  BY DEF TypeOK
<1>2. d \in {"tick", "none"} /\ e \in BOOLEAN
  BY <1>1
<1>3. y = [x EXCEPT !.cat = "run", !.catc = f, !.mon = d, !.monc = e]
  BY DEF StartSlot
<1>4. y \in Slots /\ y.loss = x.loss
  <2> HIDE DEF x, y, d, e, f
  <2> QED
    BY <1>1, <1>2, <1>3, Zenon DEF Slots
<1> HIDE DEF y
<1>5. slot' = [slot EXCEPT ![s] = y]
  BY DEF y
<1> QED
  BY <1>1, <1>4, <1>5

\* ResumeMaintenance starts the workers of the runtime maintenance kept, of
\* which none was left, before it opens admission.
LEMMA ResumeInv == ASSUME Inv, StartResume PROVE Inv'
<1>1. /\ UNCHANGED <<current, admission, n, maint, req, writer, closing, timeouts>>
      /\ op = OpIdle /\ maint.prepared /\ maint.verified
      /\ slot' = [slot EXCEPT ![maint.slot] = StartSlot(maint.slot)]
  BY DEF StartResume, manager
<1>2. maint.slot = current /\ current \in 1..MaxSlots /\ admission # "active"
  BY <1>1 DEF Inv, MaintShape, TypeOK
<1>3. op' \in Ops /\ op'.pc = "resume" /\ op'.kind = "resume" /\ op.kind = "none"
  <2>1. OpIdle \in Ops /\ OpIdle.kind = "none"
    BY ManagerAssumption DEF OpIdle, Ops
  <2>2. op' = [OpIdle EXCEPT !.pc = "resume", !.kind = "resume"]
    BY DEF StartResume
  <2> QED
    BY <1>1, <2>1, <2>2, Zenon DEF Ops
<1>4. /\ slot' \in [1..MaxSlots -> Slots]
      /\ slot'[current].loss = slot[current].loss
      /\ \A t \in 1..MaxSlots : t # current => slot'[t] = slot[t]
  BY <1>1, <1>2, StartKeeps, Zenon DEF Inv
<1> USE DEF Inv
<1>5. TypeOK'
  BY <1>1, <1>3, <1>4 DEF TypeOK
<1>6. OpShape' /\ GateExclusive' /\ MaintShape' /\ RetiredNeverServes' /\ MaintenanceQuiet'
  BY <1>1, <1>2, <1>3, Zenon DEF OpShape, GateExclusive, GateLocked, MaintShape,
                          RetiredNeverServes, MaintenanceQuiet
<1>7. WorkersCurrent'
  BY <1>1, <1>3, <1>4 DEF WorkersCurrent, Drained, CatStopped, MonStopped
<1>8. LossShape' /\ ParkedLossStays'
  BY <1>1, <1>2, <1>3, <1>4 DEF LossShape, ParkedLossStays
<1> QED
  BY <1>5, <1>6, <1>7, <1>8

\* beginTransition closes admission and cancels the workers of the runtime the
\* operation will replace.
LEMMA BeginInv == ASSUME Inv, BeginTransition PROVE Inv'
<1>1. /\ UNCHANGED <<current, n, maint, req, writer, timeouts>>
      /\ admission' = "transitioning" /\ op.pc = "begin"
      /\ op' = [op EXCEPT !.pc = "gate", !.old = current]
  BY DEF BeginTransition
<1>2. op \in Ops /\ current \in 0..MaxSlots /\ slot \in [1..MaxSlots -> Slots]
  BY DEF Inv, TypeOK
<1>3. /\ op' \in Ops /\ op'.pc = "gate" /\ op'.old = current
      /\ op'.kind = op.kind /\ op'.profile = op.profile
  BY <1>1, <1>2, Zenon DEF Ops
<1>4. /\ slot' \in [1..MaxSlots -> Slots]
      /\ \A s \in 1..MaxSlots : /\ slot'[s].cat = slot[s].cat
                                /\ slot'[s].mon = slot[s].mon
                                /\ slot'[s].loss = slot[s].loss
  BY <1>2, CancelKeeps, Zenon DEF BeginTransition
<1>5. closing' \in BOOLEAN
  BY DEF BeginTransition
<1> USE DEF Inv
<1>6. TypeOK'
  BY <1>1, <1>3, <1>4, <1>5 DEF TypeOK
<1>7. OpShape' /\ GateExclusive' /\ MaintShape' /\ RetiredNeverServes'
  BY <1>1, <1>3 DEF OpShape, GateExclusive, GateLocked, MaintShape, RetiredNeverServes
<1>8. WorkersCurrent'
  BY <1>1, <1>3, <1>4 DEF WorkersCurrent, Drained, CatStopped, MonStopped
<1>9. LossShape' /\ ParkedLossStays'
  <2>1. maint.verified => maint.slot \in 1..MaxSlots
    BY <1>2 DEF MaintShape
  <2> QED
    BY <1>1, <1>3, <1>4, <2>1 DEF LossShape, ParkedLossStays
<1>10. MaintenanceQuiet'
  BY <1>1, <1>3, <1>4 DEF MaintenanceQuiet, CatStopped, MonStopped, OpShape
<1> QED
  BY <1>6, <1>7, <1>8, <1>9, <1>10

\* lockGate ends with nobody in the gate.
LEMMA LockInv == ASSUME Inv, LockGate PROVE Inv'
<1>1. /\ UNCHANGED <<current, admission, slot, n, maint, req, writer, closing, timeouts>>
      /\ op.pc = "gate" /\ op' = [op EXCEPT !.pc = "quiesce"]
      /\ \A r \in Requests : req[r].pc \notin GatePCs
  BY DEF LockGate, InGate, manager
<1>2. op \in Ops
  BY DEF Inv, TypeOK
<1>3. /\ op' \in Ops /\ op'.pc = "quiesce" /\ op'.old = op.old
      /\ op'.kind = op.kind /\ op'.profile = op.profile
  BY <1>1, <1>2, Zenon DEF Ops
<1> USE DEF Inv
<1>4. TypeOK'
  BY <1>1, <1>3 DEF TypeOK
<1>5. OpShape' /\ GateExclusive' /\ MaintShape' /\ LossShape' /\ RetiredNeverServes'
  BY <1>1, <1>3 DEF OpShape, GateExclusive, MaintShape, LossShape, RetiredNeverServes
<1>6. WorkersCurrent' /\ MaintenanceQuiet' /\ ParkedLossStays'
  BY <1>1, <1>3 DEF WorkersCurrent, MaintenanceQuiet, ParkedLossStays, OpShape, Drained,
                    CatStopped, MonStopped
<1> QED
  BY <1>4, <1>5, <1>6

\* TryQuiesce succeeds in the gate, and cancels again.
LEMMA QuiesceInv == ASSUME Inv, Quiesce PROVE Inv'
<1>1. /\ UNCHANGED <<current, admission, n, maint, req, writer, closing, timeouts>>
      /\ op.pc = "quiesce" /\ op' = [op EXCEPT !.pc = "stop"]
  BY DEF Quiesce, manager
<1>2. op \in Ops /\ slot \in [1..MaxSlots -> Slots] /\ current \in 0..MaxSlots
  BY DEF Inv, TypeOK
<1>3. /\ op' \in Ops /\ op'.pc = "stop" /\ op'.old = op.old
      /\ op'.kind = op.kind /\ op'.profile = op.profile
  BY <1>1, <1>2 DEF Ops
<1>4. /\ slot' \in [1..MaxSlots -> Slots]
      /\ \A s \in 1..MaxSlots : /\ slot'[s].cat = slot[s].cat
                                /\ slot'[s].mon = slot[s].mon
                                /\ slot'[s].loss = slot[s].loss
  BY <1>2, CancelKeeps, Zenon DEF Quiesce
<1> USE DEF Inv
<1>5. TypeOK'
  BY <1>1, <1>3, <1>4 DEF TypeOK
<1>6. OpShape' /\ GateExclusive' /\ MaintShape' /\ RetiredNeverServes'
  BY <1>1, <1>3 DEF OpShape, GateExclusive, GateLocked, MaintShape, RetiredNeverServes
<1>7. WorkersCurrent'
  BY <1>1, <1>3, <1>4 DEF WorkersCurrent, Drained, CatStopped, MonStopped
<1>8. LossShape' /\ ParkedLossStays'
  <2>1. maint.verified => maint.slot \in 1..MaxSlots
    BY <1>2 DEF MaintShape
  <2> QED
    BY <1>1, <1>2, <1>3, <1>4, <2>1 DEF LossShape, ParkedLossStays
<1>9. MaintenanceQuiet'
  BY <1>1, <1>3, <1>4 DEF MaintenanceQuiet, CatStopped, MonStopped, OpShape
<1> QED
  BY <1>5, <1>6, <1>7, <1>8, <1>9

\* stop waits for both workers of the runtime it replaces, and there are no
\* others.
LEMMA StopInv == ASSUME Inv, Stop PROVE Inv'
<1>1. /\ UNCHANGED <<current, admission, slot, n, maint, req, writer, closing, timeouts>>
      /\ op.pc = "stop" /\ op' = [op EXCEPT !.pc = "commit"]
      /\ op.old # 0 => Drained(op.old)
  BY DEF Stop, Drained, manager
<1>2. op \in Ops
  BY DEF Inv, TypeOK
<1>3. /\ op' \in Ops /\ op'.pc = "commit" /\ op'.old = op.old
      /\ op'.kind = op.kind /\ op'.profile = op.profile
  BY <1>1, <1>2 DEF Ops
<1>4. \A s \in 1..MaxSlots : Drained(s)
  <2>1. op.old = current
    BY <1>1 DEF Inv, OpShape
  <2> QED
    BY <1>1, <2>1 DEF Inv, WorkersCurrent
<1> USE DEF Inv
<1>5. TypeOK'
  BY <1>1, <1>3, Zenon DEF TypeOK
<1>6. OpShape' /\ GateExclusive' /\ MaintShape' /\ LossShape' /\ RetiredNeverServes'
  BY <1>1, <1>3 DEF OpShape, GateExclusive, GateLocked, MaintShape, LossShape,
                    RetiredNeverServes
<1>7. WorkersCurrent' /\ MaintenanceQuiet' /\ ParkedLossStays'
  BY <1>1, <1>3, <1>4 DEF WorkersCurrent, MaintenanceQuiet, ParkedLossStays, OpShape,
                          Drained, CatStopped, MonStopped
<1> QED
  BY <1>5, <1>6, <1>7

\* parkAfterFailedDrain leaves the old runtime, its workers cancelled, behind a
\* closed admission.
LEMMA TimeoutInv == ASSUME Inv, Timeout PROVE Inv'
<1>1. /\ UNCHANGED <<current, n, maint, req, writer, closing>>
      /\ op.pc \in {"gate", "quiesce", "stop"} /\ op' = OpIdle /\ admission' = "paused"
  BY DEF Timeout
<1>2. /\ slot \in [1..MaxSlots -> Slots] /\ current \in 0..MaxSlots
      /\ timeouts' \in 0..MaxTimeouts
  BY ManagerAssumption DEF Inv, TypeOK, Timeout
<1>3. OpIdle \in Ops /\ OpIdle.pc = "idle" /\ OpIdle.kind = "none"
  BY ManagerAssumption DEF Ops, OpIdle
<1>4. /\ slot' \in [1..MaxSlots -> Slots]
      /\ \A s \in 1..MaxSlots : /\ slot'[s].cat = slot[s].cat
                                /\ slot'[s].mon = slot[s].mon
                                /\ slot'[s].loss = slot[s].loss
  BY <1>2, CancelKeeps, Zenon DEF Timeout
<1> USE DEF Inv
<1>5. TypeOK'
  BY <1>1, <1>2, <1>3, <1>4 DEF TypeOK
<1>6. OpShape' /\ GateExclusive' /\ MaintShape' /\ RetiredNeverServes'
  BY <1>1, <1>3, Zenon DEF OpShape, GateExclusive, GateLocked, MaintShape, RetiredNeverServes
<1>7. WorkersCurrent'
  BY <1>1, <1>3, <1>4 DEF WorkersCurrent, Drained, CatStopped, MonStopped
<1>8. LossShape' /\ ParkedLossStays'
  <2>1. maint.verified => maint.slot \in 1..MaxSlots
    BY <1>2 DEF MaintShape
  <2> QED
    BY <1>1, <1>3, <1>4, <2>1, Zenon DEF LossShape, ParkedLossStays
<1>9. MaintenanceQuiet'
  <2>1. op.kind # "resume"
    BY <1>1 DEF OpShape
  <2> QED
    BY <1>1, <1>4, <2>1, Zenon DEF MaintenanceQuiet, CatStopped, MonStopped
<1> QED
  BY <1>5, <1>6, <1>7, <1>8, <1>9

\* The two values maintenance is set to.
LEMMA MaintValues ==
  /\ NoMaint \in [prepared : BOOLEAN, slot : 0..MaxSlots, verified : BOOLEAN]
  /\ ~NoMaint.prepared /\ ~NoMaint.verified
  /\ \A s \in 0..MaxSlots :
       Prepared(s) \in [prepared : BOOLEAN, slot : 0..MaxSlots, verified : BOOLEAN]
BY ManagerAssumption DEF NoMaint, Prepared

\* An operation that parks ends with no worker left and nobody in the gate:
\* what maintenance needs before the container may be replaced.
LEMMA ParkInv == ASSUME Inv, CommitParked PROVE Inv'
<1>1. /\ UNCHANGED <<slot, n, req, writer, closing, timeouts>>
      /\ op.pc = "commit" /\ op' = OpIdle
  BY DEF CommitParked
<1>2. OpIdle \in Ops /\ OpIdle.pc = "idle" /\ OpIdle.kind = "none"
  BY ManagerAssumption DEF Ops, OpIdle
<1>3. /\ \A s \in 1..MaxSlots : Drained(s)
      /\ \A r \in Requests : req[r].pc \notin GatePCs
      /\ admission # "active" /\ op.old = current
  BY <1>1 DEF Inv, OpShape, WorkersCurrent, GateExclusive, GateLocked
<1>4. /\ \/ UNCHANGED <<current, maint>>
         \/ /\ current # 0 /\ UNCHANGED current /\ maint' = Prepared(current)
         \/ current' = 0 /\ maint' = NoMaint
      /\ admission' # "active"
      /\ admission' = admission \/ admission' \in {"paused", "closed"}
  BY <1>3 DEF CommitParked, Inv, OpShape
<1>5. \A s \in 1..MaxSlots : Drained(s)'
  BY <1>1, <1>3 DEF Drained, CatStopped, MonStopped
<1>6. maint' = maint \/ (~maint'.verified
                         /\ (maint'.prepared => maint'.slot = current' /\ current' # 0))
  BY <1>4 DEF Prepared, NoMaint
<1> USE DEF Inv
<1>7. TypeOK'
  <2>1. maint' \in [prepared : BOOLEAN, slot : 0..MaxSlots, verified : BOOLEAN]
    BY MaintValues, <1>4, Zenon DEF TypeOK
  <2> QED
    BY ManagerAssumption, <1>1, <1>2, <1>4, <2>1 DEF TypeOK
<1>8. OpShape' /\ GateExclusive' /\ WorkersCurrent'
  BY <1>1, <1>2, <1>5, Zenon DEF OpShape, GateExclusive, GateLocked, WorkersCurrent
<1>9. MaintShape' /\ LossShape'
  <2>1. CASE UNCHANGED <<current, maint>>
    BY <1>1, <1>2, <1>4, <2>1, Zenon DEF MaintShape, LossShape
  <2>2. CASE maint' # maint
    BY <1>1, <1>2, <1>4, <1>6, <2>2, Zenon DEF MaintShape, LossShape
  <2>3. CASE maint' = maint /\ current' # current
    BY <1>1, <1>2, <1>4, <2>3 DEF MaintShape, LossShape, NoMaint
  <2> QED
    BY <2>1, <2>2, <2>3
<1>10. RetiredNeverServes' /\ MaintenanceQuiet' /\ ParkedLossStays'
  BY <1>1, <1>3, <1>4, <1>5, Zenon DEF RetiredNeverServes, MaintenanceQuiet, ParkedLossStays,
                                GatePCs, Drained
<1> QED
  BY <1>7, <1>8, <1>9, <1>10

\* commitRuntime publishes a new slot when the old one is drained.
LEMMA CommitInv == ASSUME Inv, CommitRuntime PROVE Inv'
<1>1. /\ UNCHANGED <<admission, maint, req, writer, closing, timeouts>>
      /\ op.pc = "commit" /\ op.kind = "apply" /\ op.profile # "none"
      /\ n' = n + 1 /\ current' = n + 1
      /\ slot' = [slot EXCEPT ![n + 1] = NewSlot(op.profile)]
      /\ op' = [op EXCEPT !.pc = "start"]
  BY DEF CommitRuntime
<1>2. /\ op \in Ops /\ slot \in [1..MaxSlots -> Slots] /\ n \in 1..MaxSlots
      /\ n < MaxSlots /\ ~maint.prepared /\ ~maint.verified /\ admission # "active"
  BY <1>1 DEF Inv, TypeOK, OpShape, MaintShape
<1>3. n + 1 \in 1..MaxSlots /\ n + 1 \in 0..MaxSlots /\ n + 1 # 0
  BY ManagerAssumption, <1>2
<1>4. /\ op' \in Ops /\ op'.pc = "start" /\ op'.old = op.old
      /\ op'.kind = "apply" /\ op'.profile = op.profile
  BY <1>1, <1>2 DEF Ops
<1> DEFINE y == NewSlot(op.profile)
<1>5. y \in Slots /\ y.cat = "none" /\ y.mon = "none" /\ ~y.loss
  <2>1. NoSlot \in Slots /\ NoSlot.cat = "none" /\ NoSlot.mon = "none" /\ ~NoSlot.loss
    BY DEF NoSlot, Slots
  <2>2. op.profile \in Profiles \cup {"none"}
    BY <1>2 DEF Ops
  <2>3. y = [NoSlot EXCEPT !.profile = op.profile]
    BY DEF NewSlot
  <2> HIDE DEF y
  <2> QED
    BY <2>1, <2>2, <2>3 DEF Slots
<1>6. slot' = [slot EXCEPT ![n + 1] = y]
  BY <1>1
<1> HIDE DEF y
<1>7. /\ slot' \in [1..MaxSlots -> Slots] /\ slot'[n + 1] = y
      /\ \A s \in 1..MaxSlots : s # n + 1 => slot'[s] = slot[s]
  BY <1>2, <1>3, <1>5, <1>6
<1>8. \A s \in 1..MaxSlots : Drained(s)'
  <2>1. \A s \in 1..MaxSlots : Drained(s)
    BY <1>1 DEF Inv, WorkersCurrent
  <2> QED
    BY <1>5, <1>7, <2>1 DEF Drained, CatStopped, MonStopped
<1> USE DEF Inv
<1>9. TypeOK'
  BY <1>1, <1>3, <1>4, <1>7 DEF TypeOK
<1>10. OpShape' /\ MaintShape' /\ WorkersCurrent'
  BY <1>1, <1>2, <1>4, <1>8 DEF OpShape, MaintShape, WorkersCurrent
<1>11. LossShape' /\ ParkedLossStays' /\ MaintenanceQuiet'
  BY <1>1, <1>2, <1>3, <1>5, <1>7 DEF LossShape, ParkedLossStays, MaintenanceQuiet
<1>12. GateExclusive' /\ RetiredNeverServes'
  BY <1>1 DEF GateExclusive, GateLocked, RetiredNeverServes, GatePCs
<1> QED
  BY <1>9, <1>10, <1>11, <1>12

\* startSlot runs while every other slot is drained.
LEMMA StartRuntimeInv == ASSUME Inv, StartRuntime PROVE Inv'
<1>1. /\ UNCHANGED <<current, admission, n, maint, req, writer, closing, timeouts>>
      /\ op.pc = "start" /\ op' = [op EXCEPT !.pc = "open"]
      /\ slot' = [slot EXCEPT ![current] = StartSlot(current)]
  BY DEF StartRuntime, manager
<1>2. /\ op \in Ops /\ current \in 1..MaxSlots /\ ~slot[current].loss
      /\ op.kind = "apply" /\ ~maint.prepared /\ ~maint.verified /\ admission # "active"
  BY <1>1 DEF Inv, TypeOK, OpShape, MaintShape, LossShape
<1>3. /\ op' \in Ops /\ op'.pc = "open" /\ op'.kind = "apply" /\ op'.profile = op.profile
  BY <1>1, <1>2 DEF Ops
<1>4. /\ slot' \in [1..MaxSlots -> Slots]
      /\ slot'[current].loss = slot[current].loss
      /\ \A t \in 1..MaxSlots : t # current => slot'[t] = slot[t]
  BY <1>1, <1>2, StartKeeps, Zenon DEF Inv
<1> USE DEF Inv
<1>5. TypeOK'
  BY <1>1, <1>3, <1>4 DEF TypeOK
<1>6. OpShape' /\ GateExclusive' /\ MaintShape' /\ RetiredNeverServes' /\ MaintenanceQuiet'
  BY <1>1, <1>2, <1>3 DEF OpShape, GateExclusive, GateLocked, MaintShape,
                          RetiredNeverServes, MaintenanceQuiet
<1>7. WorkersCurrent'
  BY <1>1, <1>3, <1>4 DEF WorkersCurrent, Drained, CatStopped, MonStopped
<1>8. LossShape' /\ ParkedLossStays'
  BY <1>1, <1>2, <1>3, <1>4 DEF LossShape, ParkedLossStays
<1> QED
  BY <1>5, <1>6, <1>7, <1>8

\* Admission opens at the end of commitRuntime and of ResumeMaintenance, for a
\* runtime that remembers no loss and outside maintenance.
LEMMA OpenInv == ASSUME Inv, OpenRuntime \/ FinishResume PROVE Inv'
<1>1. /\ UNCHANGED <<current, slot, n, req, writer, closing, timeouts>>
      /\ op.pc \in {"open", "resume"} /\ op' = OpIdle
      /\ admission' = admission \/ admission' = "active"
      /\ maint' = maint \/ maint' = NoMaint
      /\ op.pc = "resume" => maint' = NoMaint
  BY DEF OpenRuntime, FinishResume
<1>2. OpIdle \in Ops /\ OpIdle.pc = "idle" /\ OpIdle.kind = "none"
  BY ManagerAssumption DEF Ops, OpIdle
<1>3. current # 0 /\ ~slot[current].loss
  BY <1>1 DEF Inv, LossShape, MaintShape
<1>4. /\ ~maint'.prepared /\ ~maint'.verified
      /\ maint' \in [prepared : BOOLEAN, slot : 0..MaxSlots, verified : BOOLEAN]
  <2>1. op.pc = "open" => ~maint.prepared /\ ~maint.verified
    BY DEF Inv, OpShape, MaintShape
  <2> QED
    BY MaintValues, <1>1, <2>1, Zenon DEF Inv, TypeOK
<1> USE DEF Inv
<1>5. TypeOK'
  BY <1>1, <1>2, <1>4 DEF TypeOK
<1>6. OpShape' /\ GateExclusive' /\ MaintShape' /\ LossShape'
  BY <1>1, <1>2, <1>4, Zenon DEF OpShape, GateExclusive, GateLocked, MaintShape, LossShape
<1>7. WorkersCurrent'
  BY <1>1, <1>2, Zenon DEF WorkersCurrent, Drained, CatStopped, MonStopped
<1>8. RetiredNeverServes' /\ MaintenanceQuiet' /\ ParkedLossStays'
  BY <1>1, <1>3, <1>4, Zenon DEF RetiredNeverServes, MaintenanceQuiet, ParkedLossStays
<1> QED
  BY <1>5, <1>6, <1>7, <1>8

\* Every step of the manager, its requests and its workers preserves Inv.
LEMMA NextInv == Inv /\ [Next]_vars => Inv'
<1> SUFFICES ASSUME Inv, [Next]_vars PROVE Inv'
  OBVIOUS
<1>1. CASE \E r \in Requests : Request(r)
  BY <1>1, RequestInv
<1>2. CASE \E s \in 1..MaxSlots : Worker(s)
  BY <1>2, WorkerInv
<1>3. CASE Starting
  BY <1>3, StartInv, VerifyInv, ResumeInv DEF Starting
<1>4. CASE Operation
  BY <1>4, BeginInv, LockInv, QuiesceInv, StopInv, ParkInv, CommitInv, StartRuntimeInv,
     OpenInv DEF Operation
<1>5. CASE Timeout
  BY <1>5, TimeoutInv
<1>6. CASE AcquireWriter \/ ReleaseWriter
  BY <1>6, WriterInv
<1>7. CASE UNCHANGED vars
  <2>1. writer \in BOOLEAN
    BY DEF Inv, TypeOK
  <2> QED
    BY <1>7, <2>1, KeptInv DEF vars
<1> QED
  BY <1>1, <1>2, <1>3, <1>4, <1>5, <1>6, <1>7 DEF Next

\* Inv holds in every state of the manager.
LEMMA Invariance == Spec => []Inv
BY InitInv, NextInv, PTL DEF Spec

-----------------------------------------------------------------------------
\* The manager's fields keep their types.
THEOREM ManagerTypes == Spec => []TypeOK
<1>1. Inv => TypeOK
  BY DEF Inv
<1> QED
  BY <1>1, Invariance, PTL

\* No request past its second check is served by a runtime that was replaced,
\* for any number of requests, replacements and failed drains: the gate is
\* what a swap waits for (serveHTTP, lockGate).
THEOREM NoRetiredService == Spec => []RetiredNeverServes
<1>1. Inv => RetiredNeverServes
  BY DEF Inv
<1> QED
  BY <1>1, Invariance, PTL

\* No two catalog lifecycles run at once (startSlot, stop): all workers belong
\* to the current runtime.
THEOREM SingleCatalogWriter == Spec => []OneCatalogWriter
<1>1. Inv => OneCatalogWriter
  BY DEF Inv, WorkersCurrent, OneCatalogWriter, Drained
<1> QED
  BY <1>1, Invariance, PTL

\* Prepared maintenance is quiet until it is resumed, also across a Close whose
\* drain timed out (PrepareMaintenance, parkAfterFailedDrain).
THEOREM QuietMaintenance == Spec => []MaintenanceQuiet
<1>1. Inv => MaintenanceQuiet
  BY DEF Inv
<1> QED
  BY <1>1, Invariance, PTL

\* A runtime closed by the loss of its backend is open again only after it was
\* verified (observeLocalAvailabilityForSlot, ResumeMaintenance).
THEOREM LossStaysParked == Spec => []ParkedLossStays
<1>1. Inv => ParkedLossStays
  BY DEF Inv
<1> QED
  BY <1>1, Invariance, PTL

=============================================================================
