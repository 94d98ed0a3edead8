-------------------------- MODULE ContainerRuntime --------------------------
(***************************************************************************)
(* The manager of the Apple container runtime (containerruntime/manager.go *)
(* and store.go) together with the routing side it drives (RuntimeRouting).*)
(* Every command runs under the lifecycle lock, so one command runs at a   *)
(* time; it is a program of durable writes, Apple CLI calls and routing    *)
(* calls, one action each, and the process may die between any two.        *)
(*                                                                         *)
(*   st     the durable state of the runtime, jn its transaction journal   *)
(*          and sj its stop journal (the expected digest is the state)     *)
(*   homes  the state generations on disk, ctr the fixed-name container    *)
(*   rt     the durable routing side                                       *)
(*   run    the running command: pc, mode, its copies of the state (st,    *)
(*          old), of a journal (j) or stop journal (s), the routing        *)
(*          generation it obtained (fin), the container's operation (cop)  *)
(*          and the clean-up target of the journal Recover loaded (obs)    *)
(* An artifact is its release sequence (0: none), an operation ID the      *)
(* number of the command that drew it, a container ID a Boolean.           *)
(***************************************************************************)
EXTENDS RuntimeRouting, FiniteSets

CONSTANTS MaxArtifact, \* releases offered for staging
          MaxOps,      \* operation IDs drawn
          MaxFaults    \* crashes, failed writes and failed external calls

ASSUME BoundsAssumption ==
  MaxArtifact \in Nat /\ MaxOps \in Nat /\ MaxFaults \in Nat

VARIABLES st, jn, sj, homes, ctr, rt, run, ops, faults

vars == <<st, jn, sj, homes, ctr, rt, run, ops, faults>>

Generations == 1..MaxArtifact

NoContainer == [op |-> 0, art |-> 0, gen |-> 0, up |-> FALSE]

Initial == [status |-> "stopped", staged |-> 0, active |-> 0, agen |-> 0,
            prev |-> 0, pgen |-> 0, next |-> 1, high |-> 0, cid |-> FALSE,
            op |-> 0, rgen |-> 0]

NoStop == [op |-> 0, phase |-> "absent", expect |-> Initial, ergen |-> 0,
           art |-> 0, gen |-> 0, cop |-> 0, final |-> 0]

NoJournal == [op |-> 0, phase |-> "absent", expect |-> Initial, ergen |-> 0,
              old |-> 0, new |-> 0, ogen |-> 0, ngen |-> 0, ocid |-> FALSE,
              oop |-> 0, ncid |-> FALSE, reuse |-> FALSE, cleanup |-> FALSE,
              obs |-> 0, mw |-> NoMaintenance]

Idle == [pc |-> "idle", mode |-> "none", st |-> Initial, old |-> Initial,
         j |-> NoJournal, s |-> NoStop, fin |-> 0, cop |-> 0, obs |-> 0]

-----------------------------------------------------------------------------
(* The validators of store.go.                                             *)

ValidDurable(s) ==
  /\ s.active = 0 => s.agen = 0 /\ ~s.cid /\ s.prev = 0
  /\ s.active # 0 => s.agen # 0
  /\ (s.prev = 0) = (s.pgen = 0)
  /\ s.agen < s.next /\ s.pgen < s.next
  /\ s.agen # 0 => s.agen # s.pgen
  /\ s.staged <= s.high /\ s.active <= s.high /\ s.prev <= s.high
  /\ s.status = "healthy" => s.active # 0 /\ s.cid
  /\ s.cid = (s.op # 0)

ValidReuse(j) == /\ j.old # 0 /\ ~j.ocid /\ j.ngen = j.ogen /\ j.new = j.old
                 /\ ~j.cleanup /\ j.obs = 0 /\ j.mw = NoMaintenance

ValidJournal(j) ==
  /\ (j.old = 0) = (j.ogen = 0)
  /\ IF j.reuse THEN ValidReuse(j) ELSE j.ngen > j.ogen
  /\ j.cleanup => j.phase = "recovery_required"
  /\ j.obs # 0 => /\ ~j.cleanup /\ j.old # 0 /\ j.obs < j.ogen
                  /\ j.phase \in {"verified", "recovery_required"}
  /\ j.ocid = (j.oop # 0)
  /\ j.phase \in {"prepared", "old_stopped"} => ~j.ncid
  /\ j.phase \in {"new_started", "verified"} => j.ncid
  /\ j.mw # NoMaintenance =>
       /\ j.old # 0 /\ j.mw.op = j.op /\ j.old # j.new /\ j.ngen = j.ogen + 1

ValidStop(s) ==
  /\ s.phase = "prepared" => s.final = 0
  /\ s.final # 0 => s.final > s.ergen
  /\ s.phase \in {"route_stopped", "runtime_stopped"} => s.final # 0

-----------------------------------------------------------------------------
(* What a journal and a state prove together.                              *)

CommittedState(s, j, cid) ==
  /\ cid /\ s.status \in {"healthy", "recovery_required"} /\ s.cid /\ s.op = j.op
  /\ s.agen = j.ngen /\ s.active = j.new /\ s.staged = 0 /\ s.next = j.ngen + 1
  /\ s.prev = j.old /\ s.pgen = j.ogen

AwaitingReplacement(s, j) ==
  /\ j.obs # 0 /\ ~j.ncid /\ j.phase = "recovery_required"
  /\ CommittedState(s, j, TRUE) /\ j.old # 0 /\ s.rgen > j.ergen
  /\ j.obs \notin {s.agen, s.pgen}

CommittedRestart(s, j, cid) ==
  /\ cid /\ s.cid /\ s.op = j.op /\ s.status \in {"healthy", "recovery_required"}
  /\ s.active = j.new /\ s.agen = j.ngen /\ s.staged = 0

CommittedRuntime(s, j, cid) ==
  IF j.reuse THEN CommittedRestart(s, j, cid) /\ s.rgen > j.ergen
  ELSE CommittedState(s, j, cid)

DurableTransactionCommitted(s, j) ==
  /\ s.status = "healthy"
  /\ IF j.reuse THEN CommittedRestart(s, j, j.ncid) ELSE CommittedState(s, j, j.ncid)

OrdinaryRollbackState(s, j) ==
  /\ j.mw = NoMaintenance /\ ~j.ncid /\ s.rgen # 0 /\ s.rgen >= j.ergen
  /\ s.status \in {"stopped", "recovery_required"} /\ ~s.cid
  /\ s.active = j.old /\ s.agen = j.ogen
  /\ IF j.reuse THEN ~j.cleanup /\ s.staged = 0
     ELSE j.cleanup /\ ~j.ocid /\ s.staged = j.new

\* The pre-transaction state reconstructed from the current one.
Normalized(s, j) ==
  LET replaced == j.ocid /\ j.oop = j.op
  IN [s EXCEPT !.status = IF j.old = 0 \/ ~j.ocid THEN "stopped" ELSE "healthy",
               !.active = j.old, !.agen = j.ogen,
               !.cid    = IF replaced THEN s.cid ELSE j.ocid,
               !.op     = IF replaced THEN s.op ELSE j.oop,
               !.rgen   = IF j.reuse \/ j.mw # NoMaintenance THEN j.ergen ELSE s.rgen]

RecoveryBinding(s, j) ==
  LET committed == CommittedState(s, j, j.ncid) \/ AwaitingReplacement(s, j)
  IN /\ j.obs # 0 => /\ j.obs \notin {s.agen, s.pgen}
                     /\ committed \/ s.pgen = j.obs
     /\ \/ committed
        \/ OrdinaryRollbackState(s, j)
        \/ /\ j.ocid /\ j.oop = j.op => s.cid
           /\ j.mw # NoMaintenance => s.rgen \in {j.ergen, j.mw.ogen + 2}
           /\ Normalized(s, j) = j.expect

StopCommitted(s, j) ==
  /\ j.final # 0 /\ s.rgen = j.final /\ s.rgen > j.ergen
  /\ s.active = j.art /\ s.agen = j.gen /\ ~s.cid
  /\ s.status \in {"stopped", "recovery_required"}

StopBinding(s, j) ==
  /\ s.active = j.art /\ s.agen = j.gen
  /\ IF ~s.cid /\ s.status \in {"stopped", "recovery_required"}
     THEN j.final # 0 => s.rgen = j.final
     ELSE [s EXCEPT !.status = "healthy", !.cid = TRUE, !.op = j.cop,
                    !.rgen = j.ergen] = j.expect

-----------------------------------------------------------------------------
(* The Apple CLI adapter: VerifyContainer compares the complete spec, and  *)
(* the generation it mounts must exist.                                    *)

SpecOf(op, art, gen) == [op |-> op, art |-> art, gen |-> gen]

NewSpec(j) == SpecOf(j.op, j.new, j.ngen)

OldSpec(j) == SpecOf(j.oop, j.old, j.ogen)

ReplacementSpec(j) == SpecOf(j.op, j.old, j.ogen)

\* The labels and the image; then the mounted generation.
Configured(spec) == ctr.op = spec.op /\ ctr.art = spec.art

Mounted(spec) == ctr.gen = spec.gen /\ homes[spec.gen] # "absent"

Verified(spec) == ctr # NoContainer /\ Configured(spec) /\ Mounted(spec)

Running(spec) == Verified(spec) /\ ctr.up

VerifyAbsent == ctr = NoContainer

\* What an interrupted Stop and Delete can leave.
Halted == {ctr, [ctr EXCEPT !.up = FALSE], NoContainer}

\* ValidateRuntimeBeforeCredentials: the container the journal vouches for runs.
RuntimeVouched ==
  /\ sj = NoStop /\ jn # NoJournal /\ RecoveryBinding(st, jn)
  /\ LET specs == (IF jn.ncid THEN {NewSpec(jn)} ELSE {})
                  \cup (IF jn.ocid /\ jn.old # 0 THEN {OldSpec(jn)} ELSE {})
     IN \E spec \in specs : Running(spec)

\* The routing snapshot of the bridge.
RoutingRecovery == rt.mj # NoMaintenance \/ ~StableRouting(rt.s)

AppleActive == rt.s.phase = "relay_active" /\ rt.s.applied = Apple

RuntimeRoutingPending == rt.rw # NoWitness

RouteMismatch == RuntimeRoutingPending \/ st.cid # AppleActive

-----------------------------------------------------------------------------
(* One step of a command.  A fault is an error (with or without the effect *)
(* of the call) that sends the command to its error path.                  *)

Goto(pc) == [run EXCEPT !.pc = pc]

At(pc) == run.pc = pc

NoFault == UNCHANGED faults

Fault == faults < MaxFaults /\ faults' = faults + 1

\* A step that decides and writes nothing.
Step(next) == run' = next /\ UNCHANGED <<st, jn, sj, homes, ctr, rt, ops, faults>>

Save(v, good, bad) ==
  /\ \/ ValidDurable(v) /\ st' = v /\ run' = good /\ NoFault
     \/ ~ValidDurable(v) /\ st' = st /\ run' = bad /\ NoFault
     \/ ValidDurable(v) /\ st' \in {st, v} /\ run' = bad /\ Fault
  /\ UNCHANGED <<jn, sj, homes, ctr, rt, ops>>

SaveJournal(v, good, bad) ==
  /\ \/ ValidJournal(v) /\ jn' = v /\ run' = good /\ NoFault
     \/ ~ValidJournal(v) /\ jn' = jn /\ run' = bad /\ NoFault
     \/ ValidJournal(v) /\ jn' \in {jn, v} /\ run' = bad /\ Fault
  /\ UNCHANGED <<st, sj, homes, ctr, rt, ops>>

SaveStop(v, good, bad) ==
  /\ \/ ValidStop(v) /\ sj' = v /\ run' = good /\ NoFault
     \/ ~ValidStop(v) /\ sj' = sj /\ run' = bad /\ NoFault
     \/ ValidStop(v) /\ sj' \in {sj, v} /\ run' = bad /\ Fault
  /\ UNCHANGED <<st, jn, homes, ctr, rt, ops>>

\* stopAndDelete succeeds exactly when the fixed name is then proven absent.
StopAndDelete(spec, good, bad) ==
  /\ \/ /\ ctr = NoContainer \/ Verified(spec)
        /\ ctr' = NoContainer /\ run' = good /\ NoFault
     \/ /\ ctr # NoContainer /\ ~Verified(spec)
        /\ ctr' = ctr /\ run' = bad /\ NoFault
     \/ /\ Verified(spec)
        /\ ctr' \in Halted
        /\ run' = bad /\ Fault
  /\ UNCHANGED <<st, jn, sj, homes, rt, ops>>

\* removeGeneration: a recursive delete that may stop half way.
RemoveGeneration(gen, good, bad) ==
  /\ \/ homes' = [homes EXCEPT ![gen] = "absent"] /\ run' = good /\ NoFault
     \/ /\ homes[gen] # "absent"
        /\ homes' = [homes EXCEPT ![gen] = "torn"] /\ run' \in {bad, Idle} /\ Fault
  /\ UNCHANGED <<st, jn, sj, ctr, rt, ops>>

\* The durable routing states an interrupted call can leave.
Interrupted(c) ==
  UNION {LET base == IF k = 1 THEN rt ELSE c.path[k - 1].to
             w    == c.path[k]
             park(r) == IF FailedState(base.s).gen > r.s.gen
                        THEN {[r EXCEPT !.s = FailedState(base.s)]} ELSE {}
         IN {base, w.to} \cup (IF w.fail = "park" THEN park(base) \cup park(w.to)
                               ELSE IF w.fail = "await" THEN park(base) ELSE {})
         : k \in 1..Len(c.path)}

\* A routing call: all of its writes, or those before an error or a lost reply.
\* What the command does next, good or bad, may depend on what is then durable.
RoutingCall(c, good, bad) ==
  /\ \/ /\ rt' = IF c.path = <<>> THEN rt ELSE c.path[Len(c.path)].to
        /\ run' = IF c.ok THEN good ELSE bad
        /\ NoFault
     \/ Fault /\ rt' \in Interrupted(c) /\ run' \in {bad, Idle}
  /\ UNCHANGED <<st, jn, sj, homes, ctr, ops>>

\* The process dies; what it had made durable stays.
Crash ==
  /\ run.pc # "idle" /\ Fault /\ run' = Idle
  /\ UNCHANGED <<st, jn, sj, homes, ctr, rt, ops>>

\* The container exits by itself.
ContainerExits ==
  /\ ctr.up /\ Fault /\ ctr' = [ctr EXCEPT !.up = FALSE]
  /\ UNCHANGED <<st, jn, sj, homes, rt, run, ops>>

-----------------------------------------------------------------------------
(* Where each mode of a command goes when a step fails or completes.       *)

\* The error path of the helpers shared by the modes.
Bad == Goto(CASE run.mode = "forward"  -> "forward_failed"
              [] run.mode = "backward" -> "backward_failed"
              [] OTHER                 -> "park")

\* An error that is returned as it is: only Recover goes on from it.
Returned == IF run.mode \in {"forward", "backward"} THEN Bad ELSE Idle

\* After startAndVerify: a start proven undone, and one that may not be.
StartUndone == CASE run.mode = "activate" -> [run EXCEPT !.pc = "cleanup", !.mode = "rollback"]
                 [] run.mode = "restart"  -> [run EXCEPT !.pc = "cleanup", !.mode = "abort_restart"]
                 [] run.mode = "forward"  -> Goto("prove_absent")
                 [] OTHER                 -> Bad

Restoring == run.mode \in {"rollback", "backward"}

StartedSpec == IF Restoring THEN ReplacementSpec(run.j) ELSE NewSpec(run.j)

\* onStarted and onRecreated: the journal learns of the container.
StartedJournal ==
  IF Restoring THEN [run.j EXCEPT !.ocid = TRUE, !.oop = run.j.op]
  ELSE [run.j EXCEPT !.ncid = TRUE,
                     !.phase = IF run.j.obs # 0 THEN "recovery_required" ELSE "new_started"]

\* cleanupJournalNew once the new container is gone.
ClearedJournal ==
  [run.j EXCEPT !.ncid = FALSE,
                !.phase = IF run.j.obs # 0 \/ run.j.cleanup THEN "recovery_required"
                          ELSE IF ~run.j.reuse /\ run.j.ocid THEN "old_stopped"
                          ELSE "prepared"]

AfterCleanup == CASE run.mode = "forward"                  -> "start"
                  [] run.mode = "abort_restart"            -> "restart_aborted"
                  [] run.mode = "backward" /\ run.j.reuse -> "backward_state"
                  [] OTHER                                 -> "mark_journal"

\* An ordinary rollback leaves a runtime that was stopped before stopped.
OrdinaryOrigin(j) == j.old = 0 \/ (~j.ocid /\ j.mw = NoMaintenance)

AfterRemoval == CASE run.mode = "abort"                                -> "abort_route"
                  [] run.mode = "rollback" /\ OrdinaryOrigin(run.j) -> "save_old"
                  [] run.mode = "backward" /\ OrdinaryOrigin(run.j) -> "backward_state"
                  [] OTHER                                           -> "restore"

\* MaintenanceCoordinator has finished for the witness.
MaintenanceComplete(r, m) ==
  r.s.gen = m.ogen + 2 /\ StableFor(r.s, Apple) /\ r.mj = NoMaintenance

\* reconcileOrdinaryRouting.
ReconcileOrdinary(op, ogen, apple, dir, ready) ==
  CASE rt.mj # NoMaintenance -> Refused
    [] rt.mj = NoMaintenance /\ rt.rw # NoWitness ->
         IF rt.rw.op = op THEN Reconcile(rt, dir, ready) ELSE Refused
    [] OTHER ->
         IF dir = "restore_origin"
         THEN [path |-> <<>>, ok |-> /\ StableRouting(rt.s) /\ rt.s.gen = ogen
                                     /\ AppleActive = ~apple]
         ELSE Switch(rt, op, ogen, apple, ready)

\* Mutant: a witness that is already gone is an error.
FinishOnce(op, gen, apple) == Acknowledge(rt, op, gen, apple)

\* finishOrdinaryRoutingCommit.
FinishOrdinary(op, gen, apple) ==
  IF rt.mj = NoMaintenance /\ rt.rw # NoWitness THEN Acknowledge(rt, op, gen, apple)
  ELSE [path |-> <<>>, ok |-> /\ ~RoutingRecovery /\ rt.s.gen = gen
                              /\ AppleActive = apple]

-----------------------------------------------------------------------------
(* Stage.                                                                  *)

\* What Stage, Activate, Stop and Park ask before they write.
Mutable == /\ At("idle") /\ ~RoutingRecovery /\ jn = NoJournal /\ sj = NoStop

StageBegin ==
  /\ Mutable /\ ~RouteMismatch
  /\ \E a \in 1..MaxArtifact :
       /\ a >= st.high /\ a > st.active
       /\ LET v == [st EXCEPT !.status = "staging", !.rgen = rt.s.gen]
          IN Save(v, [Idle EXCEPT !.pc = "stage", !.st = v, !.old = st, !.fin = a], Idle)

\* Pull, VerifyImage and saveManifest: the image is outside the state.
StagePull ==
  /\ At("stage")
  /\ \/ run' = Goto("staged") /\ NoFault
     \/ run' = Goto("stage_restore") /\ Fault
  /\ UNCHANGED <<st, jn, sj, homes, ctr, rt, ops>>

StageFinish ==
  /\ At("staged")
  /\ LET a == run.fin
         v == [run.st EXCEPT !.staged = a, !.high = a,
                             !.status = IF run.st.cid THEN "healthy" ELSE "stopped"]
     IN Save(v, Idle, Goto("stage_restore"))

StageRestore == At("stage_restore") /\ Save(run.old, Idle, Idle)

-----------------------------------------------------------------------------
(* Activate: a first activation, an upgrade of a stopped runtime, an       *)
(* update of a serving one, or the restart of a stopped one.               *)

\* The journal of activateLocked: the staged artifact in a new generation.
ActivateJournal ==
  [NoJournal EXCEPT
     !.op = ops + 1, !.phase = "prepared", !.expect = st, !.ergen = rt.s.gen,
     !.old = st.active, !.ogen = st.agen, !.ocid = st.cid, !.oop = st.op,
     !.new = st.staged, !.ngen = st.next]

\* The journal of restartStoppedLocked: the active artifact in its generation.
RestartJournal ==
  [NoJournal EXCEPT
     !.op = ops + 1, !.phase = "prepared", !.expect = st, !.ergen = rt.s.gen,
     !.old = st.active, !.ogen = st.agen,
     !.new = st.active, !.ngen = st.agen, !.reuse = TRUE]

ActivateBegin ==
  /\ Mutable /\ ~RouteMismatch /\ ops < MaxOps
  /\ st.status # "recovery_required"
  /\ LET restart == st.staged = 0 /\ st.status = "stopped" /\ st.active # 0 /\ ~st.cid
         j == IF restart THEN RestartJournal ELSE ActivateJournal
         next == [Idle EXCEPT !.pc = "updating", !.mode = IF restart THEN "restart" ELSE "activate",
                              !.st = st, !.old = st, !.j = j]
     IN /\ restart \/ st.staged # 0
        /\ ops' = ops + 1
        /\ \/ jn' = j /\ run' = next /\ NoFault
           \/ jn' \in {jn, j} /\ run' = Idle /\ Fault
        /\ UNCHANGED <<st, sj, homes, ctr, rt>>

ActivateUpdating ==
  /\ At("updating") /\ run.mode \in {"activate", "restart"}
  /\ LET v == [run.st EXCEPT !.status = "updating"]
     IN Save(v, [run EXCEPT !.st = v,
                            !.pc = IF run.mode = "restart" THEN "start"
                                   ELSE IF AppleActive /\ v.active # 0 THEN "prepare"
                                   ELSE "generation"],
             Idle)

\* routing.Prepare, of the activation and again of a recovery.
PrepareMaintenance ==
  /\ At("prepare")
  /\ LET Good == [run EXCEPT !.pc = "witness", !.j.mw = rt'.mj]
         Failed == Goto("park")
     IN RoutingCall(Prepare(rt, run.j.op, run.j.ergen), Good, Failed)

SaveMaintenance ==
  /\ At("witness")
  /\ SaveJournal(run.j,
       Goto(IF run.mode = "activate" THEN "generation"
            ELSE IF run.j.cleanup THEN "backward" ELSE "forward"),
       Goto("park"))

\* createEmptyGeneration or Clone; an error leads to abortBeforeRuntime, and a
\* process that dies between the directory and its files leaves it incomplete.
CreateGeneration ==
  /\ At("generation")
  /\ LET g == run.j.ngen
         source == IF run.j.old = 0 THEN "whole" ELSE homes[run.j.ogen]
         abort == [run EXCEPT !.pc = "mark_journal", !.mode = "abort"]
     IN \/ /\ homes[g] = "absent" /\ source # "absent"
           /\ homes' = [homes EXCEPT ![g] = source]
           /\ run' = Goto(IF run.st.cid THEN "stop_old" ELSE "start") /\ NoFault
        \/ /\ homes[g] # "absent" \/ source = "absent"
           /\ run' = abort /\ UNCHANGED <<homes, faults>>
        \/ /\ homes[g] = "absent" /\ Fault /\ run' \in {abort, Idle}
           /\ homes' \in {homes, [homes EXCEPT ![g] = "incomplete"]}
  /\ UNCHANGED <<st, jn, sj, ctr, rt, ops>>

\* runtime.Stop and runtime.Delete of the old container.
StopOld ==
  /\ At("stop_old")
  /\ LET back == [run EXCEPT !.pc = "cleanup", !.mode = "rollback"]
     IN \/ /\ Verified(OldSpec(run.j)) /\ NoFault
           /\ ctr' = NoContainer /\ run' = Goto("old_stopped")
        \/ /\ Verified(OldSpec(run.j)) /\ Fault
           /\ ctr' \in Halted /\ run' = back
        \/ /\ ~Verified(OldSpec(run.j)) /\ UNCHANGED <<ctr, faults>> /\ run' = back
  /\ UNCHANGED <<st, jn, sj, homes, rt, ops>>

OldStopped ==
  /\ At("old_stopped")
  /\ LET j == [run.j EXCEPT !.phase = "old_stopped"]
         next == [run EXCEPT !.j = j]
     IN SaveJournal(j, [next EXCEPT !.pc = "start"], [next EXCEPT !.pc = "park"])

-----------------------------------------------------------------------------
(* startAndVerify, for a new container or the replacement of an old one.   *)

\* Start needs the fixed name free.  A run error leaves it unknown whether the
\* container exists.
Start ==
  /\ At("start")
  /\ LET spec == StartedSpec
         c == [op |-> spec.op, art |-> spec.art, gen |-> spec.gen, up |-> TRUE]
     IN \/ /\ ctr = NoContainer /\ homes[spec.gen] # "absent" /\ NoFault
           /\ ctr' = c /\ run' = Goto("started")
        \/ /\ ctr = NoContainer /\ homes[spec.gen] # "absent" /\ Fault
           /\ \/ ctr' = c /\ run' = Goto("found_started")
              \/ ctr' = ctr /\ run' = StartUndone
        \/ /\ ctr # NoContainer \/ homes[spec.gen] = "absent"
           /\ run' = StartUndone /\ UNCHANGED <<ctr, faults>>
  /\ UNCHANGED <<st, jn, sj, homes, rt, ops>>

\* onStarted of a start that returned, or of one resolved by its exact identity.
Started ==
  /\ run.pc \in {"started", "found_started"}
  /\ LET next == [run EXCEPT !.j = StartedJournal]
     IN SaveJournal(StartedJournal,
          [next EXCEPT !.pc = IF run.pc = "started" THEN "handover" ELSE "undo_start"],
          [next EXCEPT !.pc = "undo_start"])

\* A check of the started container: it passes while the container runs.
Check(pc, next) ==
  /\ At(pc)
  /\ \/ Running(StartedSpec) /\ run' = next /\ NoFault
     \/ Running(StartedSpec) /\ run' = Goto("undo_start") /\ Fault
     \/ ~Running(StartedSpec) /\ run' = Goto("undo_start") /\ NoFault
  /\ UNCHANGED <<st, jn, sj, homes, ctr, rt, ops>>

\* The bootstrap socket hands the secrets over once.
HandOver == Check("handover", Goto("identify"))

Identify == Check("identify", Goto("probe"))

\* The authenticated HTTP probe, guarded by the identity.
Probe ==
  Check("probe", [run EXCEPT !.pc = IF Restoring THEN "restored" ELSE "verified",
                             !.cop = StartedSpec.op])

\* cleanupStartedRuntime; a failure leaves the container to the recovery.
UndoStart == At("undo_start") /\ StopAndDelete(StartedSpec, StartUndone, Bad)

\* A forward recovery falls back only once absence is proven.
ProveAbsent ==
  /\ At("prove_absent")
  /\ Step(IF VerifyAbsent THEN Goto("backward") ELSE Bad)

-----------------------------------------------------------------------------
(* The commit: routing, then the rotated state, then the acknowledgement,  *)
(* the obsolete generation and the journal.                                *)

\* Mutant: the state is committed before the route is asked for.
CommitBeforeRoute ==
  /\ At("verified")
  /\ LET j == [run.j EXCEPT !.ncid = TRUE, !.phase = "verified"]
         next == [run EXCEPT !.j = j]
     IN SaveJournal(j, [next EXCEPT !.pc = "commit", !.fin = rt.s.gen], [next EXCEPT !.pc = "park"])

\* Recovery of a transaction whose journal cannot be rewritten goes backward.
NewVerified ==
  /\ At("verified")
  /\ LET j == [run.j EXCEPT !.ncid = TRUE, !.phase = "verified"]
         next == [run EXCEPT !.j = j]
         done == run.mode = "forward" /\ CommittedRuntime(run.st, j, TRUE)
     IN SaveJournal(j,
          IF done THEN [next EXCEPT !.pc = "commit", !.fin = run.st.rgen]
          ELSE [next EXCEPT !.pc = "route"],
          [next EXCEPT !.pc = IF run.mode = "forward" THEN "backward" ELSE "park"])

\* Commit or ActivateApple; a recovery asks first what the routing side did,
\* and takes the final snapshot for the reply of a maintenance call.
RouteNew ==
  /\ At("route")
  /\ LET m == run.j.mw
         Good == [run EXCEPT !.pc = "commit", !.fin = rt'.s.gen]
         Failed == IF run.mode = "forward" /\ m # NoMaintenance /\ MaintenanceComplete(rt', m)
                   THEN Good ELSE Bad
     IN RoutingCall(
          IF m # NoMaintenance
          THEN IF run.mode = "forward" /\ MaintenanceComplete(rt, m)
               THEN [path |-> <<>>, ok |-> TRUE]
               ELSE FinishMaintenance(rt, m, RuntimeVouched)
          ELSE IF run.mode = "forward"
               THEN ReconcileOrdinary(run.j.op, run.j.ergen, TRUE, "complete_target", RuntimeVouched)
               ELSE Switch(rt, run.j.op, run.j.ergen, TRUE, RuntimeVouched),
          Good, Failed)

\* commitNew and commitRestart up to the durable state.
Commit ==
  /\ At("commit")
  /\ LET s == run.st
         j == run.j
         restarted == [s EXCEPT !.cid = TRUE, !.op = j.op, !.rgen = run.fin,
                                !.status = "healthy", !.staged = 0]
         rotated == [restarted EXCEPT !.prev = s.active, !.pgen = s.agen,
                                      !.active = j.new, !.agen = j.ngen, !.next = j.ngen + 1]
         Saved(v) == Save(v, [run EXCEPT !.st = v, !.pc = "acknowledge"],
                             [run EXCEPT !.st = v, !.pc = "park"])
     IN CASE j.reuse ->
               IF s.active # j.new \/ s.agen # j.ngen \/ (s.cid /\ (s.op # j.op \/ s.rgen # run.fin))
               THEN Step(Returned) ELSE Saved(restarted)
          [] ~j.reuse /\ CommittedState(s, j, TRUE) ->
               IF s.rgen # run.fin THEN Step(Returned)
               ELSE Save([s EXCEPT !.status = "healthy"],
                         [run EXCEPT !.st.status = "healthy", !.pc = "acknowledge"], Returned)
          [] OTHER ->
               IF j.obs \notin {0, s.pgen} THEN Step(Returned)
               ELSE IF s.pgen = j.obs THEN Saved(rotated)
               ELSE SaveJournal([j EXCEPT !.obs = s.pgen],
                      [run EXCEPT !.j.obs = s.pgen],
                      [run EXCEPT !.j.obs = s.pgen, !.pc = "park"])

\* finishOrdinaryRoutingCommit, of a commit, an ordinary rollback or a stop.
AcknowledgeRoute ==
  /\ At("acknowledge")
  /\ LET done == IF run.j.obs # 0 THEN "cleanup_obsolete" ELSE "remove_journal"
         Good == Goto(done)
         Failed == Goto("park")
     IN IF run.j.mw # NoMaintenance
        THEN Step(Good)
        ELSE RoutingCall(FinishOrdinary(run.j.op, run.fin, TRUE), Good, Failed)

CleanupObsolete ==
  /\ At("cleanup_obsolete")
  /\ LET g == run.j.obs
     IN IF g \in {run.st.agen, run.st.pgen} \/ g >= run.st.next \/ g >= run.j.ogen
        THEN Step(Goto("park"))
        ELSE RemoveGeneration(g, Goto("remove_journal"), Goto("park"))

RemoveJournal ==
  /\ At("remove_journal")
  /\ \/ jn' = NoJournal /\ run' = Idle /\ NoFault
     \/ jn' \in {jn, NoJournal} /\ run' = Returned /\ Fault
  /\ UNCHANGED <<st, sj, homes, ctr, rt, ops>>

-----------------------------------------------------------------------------
(* parkRecovery: two best-effort writes.                                   *)

ParkJournal ==
  /\ At("park")
  /\ LET j == [run.j EXCEPT !.phase = "recovery_required"]
     IN SaveJournal(j, Goto("park_state"), Goto("park_state"))

\* A failed commit of a forward recovery is parked a second time.
ParkState ==
  /\ At("park_state")
  /\ LET next == IF run.mode = "forward" THEN Goto("forward_failed") ELSE Idle
     IN Save([run.st EXCEPT !.status = "recovery_required"], next, next)

\* parkForwardRecovery, and the end of a Recover whose two ways failed: the
\* durable state is read again, and a journal that is gone is not recreated
\* unless a forward recovery cannot prove the commit.  commitNew has the journal
\* by value: what is parked is Recover's own, with the clean-up target it loaded.
ParkRecovery ==
  /\ run.pc \in {"forward_failed", "backward_failed"}
  /\ LET j == [run.j EXCEPT !.obs = run.obs]
     IN Step(IF /\ jn = NoJournal
                /\ At("backward_failed") \/ DurableTransactionCommitted(st, j)
             THEN Idle
             ELSE [run EXCEPT !.pc = "park", !.mode = "recover", !.st = st, !.j = j])

-----------------------------------------------------------------------------
(* Rollback.                                                               *)

\* cleanupJournalNew.
Cleanup ==
  /\ At("cleanup")
  /\ IF run.j.ncid THEN StopAndDelete(NewSpec(run.j), Goto("clear_journal"), Bad)
     ELSE Step(Goto(AfterCleanup))

ClearJournal ==
  /\ At("clear_journal")
  /\ LET next == [run EXCEPT !.j = ClearedJournal]
     IN SaveJournal(ClearedJournal, [next EXCEPT !.pc = AfterCleanup],
                    [Bad EXCEPT !.j = ClearedJournal])

\* removeGenerationForRollback: backward-only intent before the delete.
MarkJournal ==
  /\ At("mark_journal")
  /\ LET j == [run.j EXCEPT !.cleanup = TRUE, !.phase = "recovery_required"]
     IN SaveJournal(j, [run EXCEPT !.j = j, !.pc = "mark_state"], [Bad EXCEPT !.j = j])

MarkState ==
  /\ At("mark_state")
  /\ Save([run.st EXCEPT !.status = "recovery_required"], Goto("remove_new"), Bad)

RemoveNew == At("remove_new") /\ RemoveGeneration(run.j.ngen, Goto(AfterRemoval), Bad)

\* abortBeforeRuntime: the resident resumes on the old container.
AbortRoute ==
  /\ At("abort_route")
  /\ LET Good == [run EXCEPT !.pc = "save_old", !.old.rgen = rt'.s.gen]
         Failed == Goto("park")
     IN IF run.j.mw = NoMaintenance
        THEN Step(Goto("save_old"))
        ELSE RoutingCall(FinishMaintenance(rt, run.j.mw, RuntimeVouched), Good, Failed)

\* The durable state before the transaction comes back.
SaveOld == At("save_old") /\ Save(run.old, Goto("remove_journal"), Returned)

\* abortRestart after the clean-up.
RestartAborted ==
  /\ At("restart_aborted")
  /\ IF RoutingRecovery \/ AppleActive
     THEN Step(Goto("park"))
     ELSE Save([run.old EXCEPT !.status = "stopped", !.rgen = rt.s.gen],
               Goto("remove_journal"), Idle)

\* restoreOrRecreate up to a replacement's start.
Restore ==
  /\ At("restore")
  /\ LET keep(op) == [run EXCEPT !.pc = "restored", !.cop = op]
         rebound == [run EXCEPT !.j = StartedJournal, !.pc = "replacement"]
     IN CASE Verified(ReplacementSpec(run.j)) ->
               SaveJournal(StartedJournal, rebound, [Bad EXCEPT !.j = StartedJournal])
          [] ~Verified(ReplacementSpec(run.j)) /\ Running(OldSpec(run.j)) ->
               /\ \/ run' = keep(run.j.oop) /\ NoFault
                  \/ run' = Goto("remove_old") /\ Fault
               /\ UNCHANGED <<st, jn, sj, homes, ctr, rt, ops>>
          [] OTHER ->
               Step(IF Verified(OldSpec(run.j)) THEN Goto("remove_old")
                    ELSE IF VerifyAbsent THEN Goto("start") ELSE Bad)

\* A replacement found alive is kept when it is healthy.
Replacement ==
  /\ At("replacement")
  /\ \/ /\ Running(ReplacementSpec(run.j)) /\ NoFault
        /\ run' = [run EXCEPT !.pc = "restored", !.cop = run.j.op]
     \/ Running(ReplacementSpec(run.j)) /\ Fault /\ run' = Goto("undo_replacement")
     \/ ~Running(ReplacementSpec(run.j)) /\ NoFault /\ run' = Goto("undo_replacement")
  /\ UNCHANGED <<st, jn, sj, homes, ctr, rt, ops>>

RemoveOld ==
  /\ run.pc \in {"remove_old", "undo_replacement"}
  /\ StopAndDelete(IF At("remove_old") THEN OldSpec(run.j) ELSE ReplacementSpec(run.j),
                   Goto("start"), Bad)

\* Rollback of the maintenance window, then the old runtime's state.
Restored ==
  /\ At("restored")
  /\ LET m == run.j.mw
         Good == [run EXCEPT !.pc = "save_restored", !.fin = rt'.s.gen]
         Failed == IF run.mode = "backward" /\ MaintenanceComplete(rt', m) THEN Good ELSE Bad
     IN IF m = NoMaintenance
        THEN Step([run EXCEPT !.pc = "save_restored", !.fin = run.st.rgen])
        ELSE RoutingCall(IF run.mode = "backward" /\ MaintenanceComplete(rt, m)
                         THEN [path |-> <<>>, ok |-> TRUE]
                         ELSE FinishMaintenance(rt, m, RuntimeVouched), Good, Failed)

\* Mutant: the recreated container keeps the operation of the one it replaces.
SaveRestoredStale ==
  /\ At("save_restored")
  /\ LET j == run.j
         s == [(IF run.mode = "rollback" THEN run.old ELSE run.st) EXCEPT
                 !.rgen = run.fin, !.cid = TRUE, !.status = "healthy"]
     IN Save(IF run.mode = "rollback" THEN s
             ELSE [s EXCEPT !.active = j.old, !.agen = j.ogen, !.staged = j.new],
             Goto("remove_journal"), Returned)

SaveRestored ==
  /\ At("save_restored")
  /\ LET j == run.j
         s == [(IF run.mode = "rollback" THEN run.old ELSE run.st) EXCEPT
                 !.rgen = run.fin, !.cid = TRUE, !.op = run.cop, !.status = "healthy"]
     IN Save(IF run.mode = "rollback" THEN s
             ELSE [s EXCEPT !.active = j.old, !.agen = j.ogen, !.staged = j.new],
             Goto("remove_journal"), Returned)

-----------------------------------------------------------------------------
(* Recover.                                                                *)

\* A live update whose prepare reply was lost asks for its witness again.
RequiresWitness(j) == ~j.reuse /\ j.old # 0 /\ j.ocid /\ j.mw = NoMaintenance

\* Mutant: the backward-only intent of the journal is ignored.
RecoverForwardOnly ==
  /\ At("idle") /\ jn # NoJournal /\ sj = NoStop /\ RecoveryBinding(st, jn)
  /\ Step([Idle EXCEPT !.mode = "recover", !.st = st, !.j = jn, !.obs = jn.obs,
                       !.pc = IF RequiresWitness(jn) THEN "prepare" ELSE "forward"])

RecoverBegin ==
  /\ At("idle") /\ jn # NoJournal /\ sj = NoStop /\ RecoveryBinding(st, jn)
  /\ Step([Idle EXCEPT !.mode = "recover", !.st = st, !.j = jn, !.obs = jn.obs,
                       !.pc = IF RequiresWitness(jn) THEN "prepare"
                              ELSE IF jn.cleanup THEN "backward" ELSE "forward"])

\* recoverForward up to the health of the new container.
Forward ==
  /\ At("forward")
  /\ LET next == [run EXCEPT !.mode = "forward"]
         adopted == [run.j EXCEPT !.ncid = TRUE,
                       !.phase = IF run.j.obs # 0 THEN "recovery_required" ELSE "new_started"]
     IN IF ~run.j.ncid /\ Verified(NewSpec(run.j))
        THEN SaveJournal(adopted, [next EXCEPT !.j = adopted, !.pc = "probe_new"],
                                  [next EXCEPT !.j = adopted, !.pc = "forward_failed"])
        ELSE Step([next EXCEPT !.pc =
               IF run.j.ncid THEN "probe_new"
               ELSE IF run.j.ocid /\ run.j.old # 0 /\ Verified(OldSpec(run.j)) THEN "backward"
               ELSE IF ~VerifyAbsent THEN "forward_failed" ELSE "start"])

\* The stored manifest, then the container: an unhealthy one is replaced.
ProbeNew ==
  /\ At("probe_new")
  /\ \/ Running(NewSpec(run.j)) /\ run' = [run EXCEPT !.pc = "verified", !.cop = run.j.op] /\ NoFault
     \/ ~Running(NewSpec(run.j)) /\ run' = Goto("cleanup") /\ NoFault
     \/ Running(NewSpec(run.j)) /\ run' \in {Goto("cleanup"), Goto("forward_failed")} /\ Fault
  /\ UNCHANGED <<st, jn, sj, homes, ctr, rt, ops>>

Backward ==
  /\ At("backward")
  /\ LET j == run.j
         settled == /\ OrdinaryRollbackState(run.st, j) /\ VerifyAbsent
                    /\ j.reuse \/ homes[j.ngen] = "absent"
     IN Step([run EXCEPT !.mode = "backward",
                !.fin = IF settled THEN run.st.rgen ELSE run.fin,
                !.pc = IF settled THEN "rolled_back"
                       ELSE IF j.reuse \/ OrdinaryOrigin(j) THEN "backward_route" ELSE "cleanup"])

BackwardRoute ==
  /\ At("backward_route")
  /\ LET Good == [run EXCEPT !.pc = "cleanup", !.fin = rt'.s.gen]
         Failed == Bad
     IN RoutingCall(ReconcileOrdinary(run.j.op, run.j.ergen, TRUE, "restore_origin", TRUE),
                    Good, Failed)

\* The stopped state of an ordinary rollback.  The first activation keeps the
\* operation ID of the state it undoes.
BackwardState ==
  /\ At("backward_state")
  /\ LET j == run.j
         s == [run.st EXCEPT !.status = "stopped", !.cid = FALSE, !.active = j.old,
                             !.agen = j.ogen, !.rgen = run.fin,
                             !.op = IF j.old = 0 THEN run.st.op ELSE 0,
                             !.staged = IF j.old = 0 \/ j.reuse THEN run.st.staged ELSE j.new]
     IN Save(s, [run EXCEPT !.st = s, !.pc = "rolled_back"], Bad)

\* The acknowledgement of a rollback, then (finishCommittedOrdinaryRollback
\* saves once more what it found) the end of the transaction.
RolledBack ==
  /\ At("rolled_back")
  /\ LET Good == Goto(IF run.st.status = "stopped" THEN "remove_journal" ELSE "settle")
         Failed == Bad
     IN RoutingCall(FinishOrdinary(run.j.op, run.fin, FALSE), Good, Failed)

Settle == At("settle") /\ Save([run.st EXCEPT !.status = "stopped"], Goto("remove_journal"), Bad)

-----------------------------------------------------------------------------
(* Stop, Park and the recovery of a stop.                                  *)

StopJournal(phase) ==
  [NoStop EXCEPT !.op = ops + 1, !.phase = phase, !.expect = st, !.ergen = rt.s.gen,
                 !.art = st.active, !.gen = st.agen, !.cop = st.op]

\* Without a container only the routing generation is recorded.
StopInactive ==
  /\ Mutable /\ st.status # "recovery_required" /\ ~st.cid /\ ~AppleActive
  /\ Save([st EXCEPT !.status = "stopped", !.rgen = rt.s.gen], Idle, Idle)

\* Stop prepares the stop journal; Park only leaves it for a recovery.
StopBegin ==
  /\ Mutable /\ ops < MaxOps /\ st.cid /\ AppleActive /\ ~RuntimeRoutingPending
  /\ \E phase \in {"prepared", "recovery_required"} :
       LET s == StopJournal(phase)
           parking == phase = "recovery_required"
       IN /\ IF parking THEN st.status = "healthy" ELSE st.status # "recovery_required"
          /\ \/ /\ sj' = s /\ NoFault
                /\ run' = [Idle EXCEPT !.pc = IF parking THEN "parking" ELSE "stopping",
                                       !.mode = "stop", !.st = st, !.s = s]
             \/ sj' \in {sj, s} /\ run' = Idle /\ Fault
  /\ ops' = ops + 1
  /\ UNCHANGED <<st, jn, homes, ctr, rt>>

Stopping ==
  /\ run.pc \in {"stopping", "parking"}
  /\ LET v == [run.st EXCEPT !.status = IF At("parking") THEN "recovery_required" ELSE "updating"]
     IN Save(v, IF At("parking") THEN Idle ELSE [run EXCEPT !.st = v, !.pc = "stop_route"], Idle)

RecoverStopBegin ==
  /\ At("idle") /\ sj # NoStop /\ jn = NoJournal /\ StopBinding(st, sj)
  /\ LET next == [Idle EXCEPT !.mode = "recover_stop", !.st = st, !.s = sj]
     IN Step([next EXCEPT !.pc = IF ~StopCommitted(st, sj) THEN "stop_route"
                                 ELSE IF VerifyAbsent THEN "stop_acknowledge"
                                 ELSE "park_stop"])

\* StopApple, or the reconciliation towards the stopped route.
StopRoute ==
  /\ At("stop_route")
  /\ LET Good == [run EXCEPT !.pc = "route_stopped", !.s.final = rt'.s.gen,
                             !.s.phase = "route_stopped"]
         Failed == Goto("park_stop")
     IN RoutingCall(IF run.mode = "stop" THEN Switch(rt, run.s.op, run.s.ergen, FALSE, TRUE)
                    ELSE ReconcileOrdinary(run.s.op, run.s.ergen, FALSE, "complete_target", TRUE),
                    Good, Failed)

SaveStopJournal ==
  /\ run.pc \in {"route_stopped", "runtime_stopped"}
  /\ SaveStop(run.s, Goto(IF At("route_stopped") THEN "stop_runtime" ELSE "stop_state"),
              Goto("park_stop"))

StopRuntime ==
  /\ At("stop_runtime")
  /\ StopAndDelete(SpecOf(run.s.cop, run.s.art, run.s.gen),
       [run EXCEPT !.pc = "runtime_stopped", !.s.phase = "runtime_stopped"], Goto("park_stop"))

StopState ==
  /\ At("stop_state")
  /\ LET v == [run.st EXCEPT !.status = "stopped", !.cid = FALSE, !.op = 0, !.rgen = run.s.final]
     IN Save(v, [run EXCEPT !.st = v, !.pc = "stop_acknowledge"],
                [run EXCEPT !.st = v, !.pc = "park_stop"])

StopAcknowledge ==
  /\ At("stop_acknowledge")
  /\ LET Good == Goto(IF run.st.status = "stopped" THEN "remove_stop" ELSE "stop_state")
         Failed == Goto("park_stop")
     IN RoutingCall(FinishOrdinary(run.s.op, run.s.final, FALSE), Good, Failed)

RemoveStop ==
  /\ At("remove_stop")
  /\ \/ sj' = NoStop /\ NoFault
     \/ sj' \in {sj, NoStop} /\ Fault
  /\ run' = Idle /\ UNCHANGED <<st, jn, homes, ctr, rt, ops>>

\* parkStopRecovery.
ParkStop ==
  /\ At("park_stop")
  /\ SaveStop([run.s EXCEPT !.phase = "recovery_required"],
              Goto("park_stop_state"), Goto("park_stop_state"))

ParkStopState ==
  /\ At("park_stop_state")
  /\ Save([run.st EXCEPT !.status = "recovery_required",
                         !.rgen = IF run.s.final # 0 THEN run.s.final ELSE run.st.rgen],
          Idle, Idle)

-----------------------------------------------------------------------------

\* A relay that serves a remote backend or none, and no runtime yet.
Init ==
  /\ st = Initial /\ jn = NoJournal /\ sj = NoStop
  /\ homes = [g \in Generations |-> "absent"] /\ ctr = NoContainer
  /\ \E b \in {"external", "none"} :
       rt = [s |-> [gen |-> 1, desired |-> b, applied |-> b,
                    phase |-> ActivePhaseForBackend(b), intent |-> FALSE],
             txn |-> NoTxn, files |-> b, rw |-> NoWitness, mj |-> NoMaintenance]
  /\ run = Idle /\ ops = 0 /\ faults = 0

Command ==
  \/ StageBegin \/ ActivateBegin \/ StopInactive \/ StopBegin

Recover == RecoverBegin \/ RecoverStopBegin

Work ==
  \/ StagePull \/ StageFinish \/ StageRestore
  \/ ActivateUpdating \/ PrepareMaintenance \/ SaveMaintenance \/ CreateGeneration
  \/ StopOld \/ OldStopped
  \/ Start \/ Started \/ HandOver \/ Identify \/ Probe \/ UndoStart \/ ProveAbsent
  \/ NewVerified \/ RouteNew \/ Commit \/ AcknowledgeRoute \/ CleanupObsolete \/ RemoveJournal
  \/ ParkJournal \/ ParkState \/ ParkRecovery
  \/ Cleanup \/ ClearJournal \/ MarkJournal \/ MarkState \/ RemoveNew
  \/ AbortRoute \/ SaveOld \/ RestartAborted
  \/ Restore \/ Replacement \/ RemoveOld \/ Restored \/ SaveRestored
  \/ Forward \/ ProbeNew \/ Backward \/ BackwardRoute \/ BackwardState \/ RolledBack \/ Settle
  \/ Stopping \/ StopRoute \/ SaveStopJournal \/ StopRuntime \/ StopState \/ StopAcknowledge
  \/ RemoveStop \/ ParkStop \/ ParkStopState

Next == Command \/ Recover \/ Work \/ Crash \/ ContainerExits

Spec == Init /\ [][Next]_vars

\* Recover would run.
Recoverable ==
  /\ At("idle")
  /\ \/ jn # NoJournal /\ sj = NoStop /\ RecoveryBinding(st, jn)
     \/ sj # NoStop /\ jn = NoJournal /\ StopBinding(st, sj)

\* A command that runs ends, and an accepted recovery is asked for again.
Fairness == /\ []<>At("idle")
            /\ []<>(run.pc # "idle") \/ []<>~Recoverable

FairSpec == Spec /\ Fairness

-----------------------------------------------------------------------------
(* What the rest of the relay reads.                                       *)

\* activeRoutingAuthority: the durable half of the resident's peer guard.
ActiveAuthority(gen) ==
  /\ st.status = "healthy" /\ st.rgen = gen /\ st.active # 0 /\ st.cid
  /\ jn = NoJournal /\ sj = NoStop

\* inspectState with a working Apple container service.
InspectState ==
  LET recovery == \/ jn # NoJournal \/ sj # NoStop \/ RoutingRecovery \/ RuntimeRoutingPending
                  \/ st.status \in {"recovery_required", "updating"}
                  \/ st.cid /\ ~(AppleActive /\ Running(SpecOf(st.op, st.active, st.agen)))
                  \/ ~st.cid /\ (AppleActive \/ ~VerifyAbsent)
  IN IF recovery THEN "recovery_required" ELSE st.status

-----------------------------------------------------------------------------
(* Interruptions that leave a journal Recover does not accept              *)
(* (validateRecoveryBinding, matchesState), or a commit that it reverses.  *)

\* A transaction begun on a state that an interrupted Stage left: its digest is
\* of a status no reconstruction yields.
StagingInterrupted(e) == e.status = "staging"

\* The clean-up target is durable and the state not yet rotated.
RotationInterrupted == jn.obs # 0 /\ st.pgen = jn.obs

\* The state is committed and the journal or the route no longer says so.
CommitReversed == /\ ~jn.reuse /\ st.agen = jn.ngen
                  /\ ~jn.ncid \/ rt.rw.dir = "restore_origin"

\* The recreated old container is durable under the operation of the journal.
RestoreSaved == jn.ocid /\ jn.oop = jn.op /\ st.op = jn.op

\* A resumed application wrote its routing journal at the attempt's start.
ResumeInterrupted == rt.rw.kind = "resume_applying" /\ AttemptTxn(rt.rw, rt.txn)

\* The Codex files moved and the routing journal does not know yet.
FilesUnrecorded == rt.txn # NoTxn /\ ~FilesMatch(rt)

-----------------------------------------------------------------------------

\* Every variable has its shape, and what is durable passes its validator.
TypeOK ==
  /\ ValidDurable(st)
  /\ jn # NoJournal => ValidJournal(jn)
  /\ sj # NoStop => ValidStop(sj)
  /\ homes \in [Generations -> {"absent", "incomplete", "whole", "torn"}]
  /\ ctr.gen \in 0..MaxArtifact /\ ops \in 0..MaxOps /\ faults \in 0..MaxFaults

\* Retried without further faults, Recover ends every transaction whatever the
\* faults before it were, the named interruptions apart.
RecoveryTerminates ==
  (jn # NoJournal \/ sj # NoStop) ~>
    \/ jn = NoJournal /\ sj = NoStop
    \/ StagingInterrupted(jn.expect) \/ StagingInterrupted(sj.expect)
    \/ RotationInterrupted \/ CommitReversed \/ RestoreSaved
    \/ ResumeInterrupted \/ FilesUnrecorded

\* A generation is never deleted under a container, and a partially deleted one
\* is never mounted (removeGenerationForRollback, recoverForward).
MountedGenerationKept ==
  ctr # NoContainer => homes[ctr.gen] \in {"whole", "incomplete"}

\* The active and the previous generation of the durable state stay on disk
\* (cleanupObsoleteGeneration, removeGenerationForRollback), unless Recover
\* reverses a commit.
RetainedGenerations ==
  \A g \in {st.agen, st.pgen} \ {0} :
    homes[g] \in {"whole", "incomplete"} \/ CommitReversed

\* No clean-up, rollback or recovery deletes a generation that is mounted or
\* that the durable state still names.
GenerationsKept == MountedGenerationKept /\ RetainedGenerations

\* The same without the exception.
CommittedGenerationKept ==
  st.agen # 0 => homes[st.agen] \in {"whole", "incomplete"}

\* The cross witness and the maintenance journal classify the routing state
\* wherever a crash left it (runtimeRoutingJournal.matchesState), one position
\* of a resumed application apart.
WitnessProvesPosition ==
  /\ rt.rw # NoWitness => MatchesState(rt.rw, rt.s, rt.txn) \/ ResumeInterrupted
  /\ rt.mj # NoMaintenance => MaintenanceMatches(rt.mj, rt.s)

\* The same without the exception.
WitnessClassifiesCrash == rt.rw # NoWitness => MatchesState(rt.rw, rt.s, rt.txn)

\* A routing witness outlives neither the lifecycle journal it belongs to nor
\* stands beside a maintenance journal: nobody else could ever remove it.
WitnessOwned ==
  /\ rt.rw # NoWitness => rt.rw.op \in {jn.op, sj.op} /\ rt.mj = NoMaintenance
  /\ rt.mj # NoMaintenance => rt.mj.op = jn.op

\* The routing witness is conclusive and belongs to somebody, at every point
\* where a crash or a failed call can leave it
\* (reconcileRuntimeRoutingTransaction).
WitnessSound == WitnessProvesPosition /\ WitnessOwned

\* Once the journals are gone the durable state, the route and the container
\* agree, so Inspect asks for no recovery and the resident may serve.
SettledAgreement ==
  (At("idle") /\ jn = NoJournal /\ sj = NoStop /\ (ctr = NoContainer \/ ctr.up)) =>
    /\ InspectState # "recovery_required"
    /\ AppleActive => ActiveAuthority(rt.s.gen) \/ st.status = "staging"

\* The durable state, the route and the journals implement RuntimeLifecycle.
Lifecycle == INSTANCE RuntimeLifecycle WITH
  svc   <- [art |-> st.active, gen |-> st.agen, on |-> st.cid],
  route <- IF AppleActive THEN "apple" ELSE "other",
  pend  <- jn # NoJournal \/ sj # NoStop

\* No step changes runtime or route outside a transaction or in another order,
\* and no transaction closes while they disagree.
ImplementsLifecycle == Lifecycle!Spec
=============================================================================
