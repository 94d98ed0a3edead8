--------------------------- MODULE RuntimeRouting ---------------------------
(***************************************************************************)
(* The routing side of the container lifecycle: the cross-journal witness  *)
(* of an ordinary lifecycle switch (routing/runtime_routing.go) and the    *)
(* maintenance journal of an in-place update (routing/maintenance.go).     *)
(*                                                                         *)
(* A call runs under the routing lock, so it is a sequence of durable      *)
(* writes that only a crash or an error can cut short.  r is what is       *)
(* durable:                                                                *)
(*   r.s       routing-state.json                                          *)
(*   r.txn     the routing transaction journal of the controller           *)
(*   r.files   the backend the Codex configuration files carry             *)
(*   r.rw      the runtime-routing witness                                 *)
(*   r.mj      the maintenance journal                                     *)
(* A call is [path, ok], a write of its path [to, fail]: what is durable   *)
(* after it, and what an error there does: "plain" nothing, "park"         *)
(* failApplyingLocked after the write, "await" failApplyingLocked because  *)
(* the resident never reported the final phase, before the write.          *)
(***************************************************************************)
EXTENDS RoutingState, Sequences

Apple == "local_apple_container"

OppositeDirection(dir) ==
  IF dir = "restore_origin" THEN "complete_target" ELSE "restore_origin"

NoTxn == [gen |-> 0, origin |-> "unknown", target |-> "unknown",
          stage |-> "absent", base |-> "unknown"]

NoWitness == [op |-> 0, origin |-> "unknown", target |-> "unknown", ogen |-> 0,
              kind |-> "absent", dir |-> "complete_target", start |-> NoState,
              rec |-> 0, src |-> NoTxn, resolved |-> FALSE]

NoMaintenance == [op |-> 0, ogen |-> 0]

-----------------------------------------------------------------------------
(* The witness.  Its attempt generations are functions of its kind.        *)

Selected(w, dir) == IF dir = "restore_origin" THEN w.origin ELSE w.target

AttemptOrigin(w) == IF w.kind = "recover" THEN Selected(w, OppositeDirection(w.dir))
                    ELSE w.start.applied

AttemptTarget(w) == Selected(w, w.dir)

RequestedGen(w) == CASE w.kind = "switch"        -> w.start.gen + 1
                     [] w.kind = "apply_pending" -> w.start.gen
                     [] OTHER                    -> 0

ApplyingGen(w) == CASE w.kind = "switch"          -> w.start.gen + 2
                    [] w.kind = "apply_pending"   -> w.start.gen + 1
                    [] w.kind = "resume_applying" -> w.start.gen
                    [] w.kind = "recover"         -> w.rec + 1
                    [] OTHER                      -> 0

FinalGen(w) == CASE w.kind = "switch"          -> w.start.gen + 3
                 [] w.kind = "apply_pending"   -> w.start.gen + 2
                 [] w.kind = "resume_applying" -> w.start.gen + 1
                 [] w.kind = "recover"         -> w.rec + 2
                 [] OTHER                      -> w.start.gen + 1

StableFor(s, b) == /\ s.gen # 0 /\ s.desired = b /\ s.applied = b
                   /\ s.phase = ActivePhaseForBackend(b) /\ b \in Backends

StableRouting(s) == StableFor(s, s.applied)

PendingRouting(s) == s.phase \in PendingPhases

ValidWitness(w) ==
  /\ w.origin \in Backends /\ w.target \in {"none", Apple} /\ w.origin # w.target
  /\ w.target = "none" => w.origin = Apple
  /\ AttemptOrigin(w) \in Backends
  /\ AttemptOrigin(w) = AttemptTarget(w) => w.kind = "replace"
  /\ w.src # NoTxn => w.src.origin # w.src.target
  /\ w.kind = "switch" => StableRouting(w.start)
  /\ w.kind = "apply_pending" => PendingRouting(w.start)
  /\ w.kind = "resume_applying" => w.start.phase = "applying"

\* setAttempt and setRecoveryAttempt.
Attempt(w, kind, dir, s, rec, src) ==
  [w EXCEPT !.kind = kind, !.dir = dir, !.start = s, !.rec = rec, !.src = src,
            !.resolved = FALSE]

AttemptTxn(w, t) == /\ t.gen = ApplyingGen(w)
                    /\ t.origin = AttemptOrigin(w) /\ t.target = AttemptTarget(w)

SourceTxn(w, t) == /\ w.src # NoTxn /\ t.gen = w.src.gen
                   /\ t.origin = w.src.origin /\ t.target = w.src.target

BetweenAttemptBackends(w, s) ==
  s.desired = AttemptTarget(w) /\ s.applied = AttemptOrigin(w)

\* Past the start of the attempt: its requested, applying, parked and final
\* positions, and the one failApplyingLocked leaves after the final state.
AttemptPosition(w, s, t) ==
  \/ /\ s.gen = RequestedGen(w) /\ PendingRouting(s) /\ BetweenAttemptBackends(w, s)
     /\ t = NoTxn
  \/ /\ s.gen = ApplyingGen(w) /\ s.phase = "applying" /\ BetweenAttemptBackends(w, s)
  \/ /\ w.rec # 0 /\ s.gen = w.rec /\ s.phase = "recovery_required"
     /\ BetweenAttemptBackends(w, s)
     /\ t = NoTxn \/ SourceTxn(w, t)
  \/ /\ ApplyingGen(w) # 0 /\ s.gen = ApplyingGen(w) + 1
     /\ s.phase = "recovery_required" /\ BetweenAttemptBackends(w, s)
  \/ /\ s.gen = FinalGen(w) /\ StableFor(s, AttemptTarget(w))
     /\ t = NoTxn \/ AttemptTxn(w, t)
  \/ /\ s.gen = FinalGen(w) + 1 /\ s.phase = "recovery_required"
     /\ s.desired = AttemptTarget(w) /\ s.applied = AttemptTarget(w)
     /\ t = NoTxn

MatchesState(w, s, t) ==
  IF w.resolved
  THEN /\ t = NoTxn /\ s.gen = FinalGen(w) /\ StableFor(s, AttemptTarget(w))
  ELSE IF s = w.start THEN t = NoTxn \/ SourceTxn(w, t)
  ELSE /\ t = NoTxn \/ AttemptTxn(w, t) \/ SourceTxn(w, t)
       /\ AttemptPosition(w, s, t)

\* maintenanceJournal.matchesState.
MaintenanceMatches(m, s) ==
  /\ s.desired = Apple /\ s.applied = Apple
  /\ \/ s.gen \in {m.ogen, m.ogen + 2} /\ s.phase = "relay_active"
     \/ s.gen = m.ogen + 1 /\ s.phase = "applying"

\* journalMatchesCurrentFiles: the fingerprints of the journal's stage.
FilesMatch(r) ==
  r.files = (IF r.txn.stage = "prepared" THEN r.txn.base ELSE r.txn.target)

-----------------------------------------------------------------------------
(* Calls as sequences of durable writes.  ready says whether a preflight   *)
(* of the selected backend succeeds; [path, ok] is how the call runs.      *)

Write(r, fail) == [to |-> r, fail |-> fail]

Refused == [path |-> <<>>, ok |-> FALSE]

\* markRuntimeRoutingResolved.
Resolve(r, dir, fail) ==
  IF r.s.gen = FinalGen(r.rw) /\ StableFor(r.s, Selected(r.rw, dir))
  THEN [path |-> <<Write([r EXCEPT !.rw.resolved = TRUE, !.rw.dir = dir], fail)>>,
        ok |-> TRUE]
  ELSE Refused

\* The writes so far, then the rest of the call.
After(writes, rest) == [path |-> writes \o rest.path, ok |-> rest.ok]

\* finishApplyingLockedWithOriginAuthority, then the caller resolves.
FinishApplying(r, dir) ==
  LET s  == r.s
      r1 == [r  EXCEPT !.txn = [gen |-> s.gen, origin |-> s.applied, target |-> s.desired,
                                stage |-> "prepared", base |-> r.files]]
      r2 == [r1 EXCEPT !.files = s.desired]
      r3 == [r2 EXCEPT !.txn.stage = "config_mutated"]
      r4 == [r3 EXCEPT !.s = FinalState(s)]
      r5 == [r4 EXCEPT !.txn = NoTxn]
  IN After(<<Write(r1, "park"), Write(r2, "park"), Write(r3, "park"),
             Write(r4, "park"), Write(r5, "plain")>>,
           Resolve(r5, dir, "await"))

\* writeRuntimeRouting of the next attempt, refused when it does not validate.
Record(r, rest) ==
  IF ~ValidWitness(r.rw) THEN Refused ELSE After(<<Write(r, "plain")>>, rest)

ApplyPending(r, dir, ready) ==
  LET applying == [r.s EXCEPT !.phase = "applying", !.gen = r.s.gen + 1]
      r1 == [r EXCEPT !.rw = Attempt(r.rw, "apply_pending", dir, r.s, 0, NoTxn)]
      rest == IF ~ready THEN Refused
              ELSE LET r2 == [r1 EXCEPT !.s = applying]
                   IN After(<<Write(r2, "plain")>>, FinishApplying(r2, dir))
  IN Record(r1, rest)

ResumeApplying(r, dir, ready) ==
  LET r1 == [r EXCEPT !.rw = Attempt(r.rw, "resume_applying", dir, r.s, 0, NoTxn)]
      rest == FinishApplying(r1, dir)
  IN IF ~ready THEN Refused
     ELSE Record(r1, rest)

SwitchStable(r, dir, ready) ==
  LET sel == Selected(r.rw, dir)
      r1 == [r EXCEPT !.rw = Attempt(r.rw, "switch", dir, r.s, 0, NoTxn)]
      rest ==
        LET r2 == [r1 EXCEPT !.s = [RequestTransition(r.s, sel) EXCEPT !.gen = r.s.gen + 1]]
        IN After(<<Write(r2, "plain")>>, ApplyPending(r2, dir, ready))
  IN IF ~ready \/ r.s.applied = sel THEN Refused
     ELSE Record(r1, rest)

\* replaceRuntimeRoutingState.
ReplaceState(r, dir, ready) ==
  LET sel == Selected(r.rw, dir)
      r1 == [r EXCEPT !.rw = Attempt(r.rw, "replace", dir, r.s, 0, NoTxn)]
      rest ==
        LET r2 == [r1 EXCEPT !.s = FinalState([r.s EXCEPT !.desired = sel])]
        IN After(<<Write(r2, "plain")>>,
                 IF ready /\ r2.files = sel THEN Resolve(r2, dir, "plain") ELSE Refused)
  IN Record(r1, rest)

\* applyRecoveryLockedWithOriginAuthority on the recovery state rec.
ApplyRecovery(r, rec, dir, ready) ==
  LET sel    == Selected(r.rw, dir)
      origin == IF sel = rec.applied THEN rec.desired ELSE rec.applied
      r1     == [r EXCEPT !.s = [rec EXCEPT !.desired = sel, !.applied = origin,
                                            !.phase = "applying", !.gen = rec.gen + 1]]
  IN IF ~ready \/ origin = sel \/ origin \notin Backends THEN Refused
     ELSE After(<<Write(r1, "plain")>>, FinishApplying(r1, dir))

\* Mutant: the recovery starts before its attempt is recorded.
ReconcileUnrecorded(r, dir, ready) ==
  LET t   == r.txn
      rec == [gen |-> t.gen + 1, desired |-> t.target, applied |-> t.origin,
              phase |-> "recovery_required", intent |-> FALSE]
  IN IF ~FilesMatch(r) THEN Refused
     ELSE After(<<Write([r EXCEPT !.s = rec], "plain")>>,
                ApplyRecovery([r EXCEPT !.s = rec], rec, dir, ready))

\* reconcileRuntimeRoutingTransaction: retire a committed journal, or park at a
\* generation past both the journal and the state and apply from there.
ReconcileTransaction(r, dir, ready) ==
  LET t    == r.txn
      sel  == Selected(r.rw, dir)
      done == [r EXCEPT !.txn = NoTxn]
      past == r.s.gen > t.gen + 1
      gen  == IF ~past THEN t.gen + 1
              ELSE IF r.s.phase = "recovery_required" THEN r.s.gen ELSE r.s.gen + 1
      rec  == [gen |-> gen, desired |-> t.target, applied |-> t.origin,
               phase |-> "recovery_required", intent |-> FALSE]
      r1 == [r EXCEPT !.rw = Attempt(r.rw, "recover", dir, r.s, gen, t)]
      rest ==
        LET r2 == [r1 EXCEPT !.s = rec]
        IN After(IF r.s = rec THEN <<>> ELSE <<Write(r2, "plain")>>,
                 ApplyRecovery(r2, rec, dir, ready))
  IN CASE sel \notin {t.origin, t.target} \/ ~FilesMatch(r) -> Refused
       [] /\ sel \in {t.origin, t.target} /\ FilesMatch(r)
          /\ StableFor(r.s, sel) /\ t.target = sel /\ t.stage = "config_mutated" ->
            After(<<Write(done, "plain")>>,
                  IF ready THEN Resolve(done, dir, "plain") ELSE Refused)
       [] OTHER -> Record(r1, rest)

ReconcileWithoutTransaction(r, dir, ready) ==
  LET sel == Selected(r.rw, dir)
      r1 == [r EXCEPT !.rw = Attempt(r.rw, "recover", dir, r.s, r.s.gen, NoTxn)]
      rest == ApplyRecovery(r1, [r.s EXCEPT !.desired = sel], dir, ready)
      recover == Record(r1, rest)
  IN CASE sel = r.s.applied /\ r.s.desired \in {sel, r.rw.target} ->
            ReplaceState(r, dir, ready)
       [] /\ sel # r.s.applied /\ r.s.desired = r.s.applied
          /\ r.s.applied = Selected(r.rw, OppositeDirection(dir)) -> recover
       [] /\ sel # r.s.applied /\ r.s.desired # r.s.applied
          /\ r.s.desired = r.rw.target /\ r.s.applied = r.rw.origin
          /\ sel = r.s.desired -> recover
       [] OTHER -> Refused

\* ReconcileRuntimeRouting for the operation of the witness.
Reconcile(r, dir, ready) ==
  LET sel == Selected(r.rw, dir)
  IN CASE r.mj # NoMaintenance \/ r.rw = NoWitness -> Refused
       [] r.rw # NoWitness /\ ~MatchesState(r.rw, r.s, r.txn) -> Refused
       [] r.txn # NoTxn /\ MatchesState(r.rw, r.s, r.txn) ->
            ReconcileTransaction(r, dir, ready)
       [] r.txn = NoTxn /\ r.s.phase = "recovery_required" ->
            ReconcileWithoutTransaction(r, dir, ready)
       [] r.txn = NoTxn /\ StableFor(r.s, sel) ->
            IF ready THEN Resolve(r, dir, "plain") ELSE Refused
       [] r.txn = NoTxn /\ StableRouting(r.s) /\ r.s.applied # sel ->
            SwitchStable(r, dir, ready)
       [] r.txn = NoTxn /\ PendingRouting(r.s) /\ r.s.desired = sel ->
            ApplyPending(r, dir, ready)
       [] r.txn = NoTxn /\ r.s.phase = "applying" /\ r.s.desired = sel ->
            ResumeApplying(r, dir, ready)
       [] /\ r.txn = NoTxn /\ r.s.applied = sel
          /\ PendingRouting(r.s) \/ r.s.phase = "applying" ->
            ReplaceState(r, dir, ready)
       [] OTHER -> Refused

\* SwitchRuntimeRouting through the lifecycle bridge (ActivateApple and
\* StopApple), which asks for the exact stable origin: the witness, the
\* requested state, then the reconciliation towards the target.
Switch(r, op, ogen, apple, ready) ==
  LET target == IF apple THEN Apple ELSE "none"
      w == [NoWitness EXCEPT !.op = op, !.origin = r.s.applied, !.target = target,
                             !.ogen = ogen]
      r1 == [r EXCEPT !.rw = Attempt(w, "switch", "complete_target", r.s, 0, NoTxn)]
      rest ==
        LET r2 == [r1 EXCEPT !.s = [RequestTransition(r.s, target)
                                      EXCEPT !.gen = r.s.gen + 1, !.intent = FALSE]]
        IN After(<<Write(r2, "plain")>>, Reconcile(r2, "complete_target", ready))
  IN IF \/ r.mj # NoMaintenance \/ r.rw # NoWitness \/ r.txn # NoTxn
        \/ r.s.gen # ogen \/ ~StableRouting(r.s) \/ r.s.applied = target
        \/ ~apple /\ r.s.applied # Apple
        \/ ~ready
     THEN Refused
     ELSE Record(r1, rest)

\* AcknowledgeRuntimeRouting: the only removal of the witness.
Acknowledge(r, op, gen, apple) ==
  IF /\ r.rw.op = op /\ r.rw.resolved /\ r.s.gen = gen
     /\ (AttemptTarget(r.rw) = Apple) = apple
     /\ r.mj = NoMaintenance /\ MatchesState(r.rw, r.s, r.txn)
  THEN [path |-> <<Write([r EXCEPT !.rw = NoWitness], "plain")>>, ok |-> TRUE]
  ELSE Refused

\* Lock.Save of the prepared generation, from the origin only.
ParkForMaintenance(r) ==
  IF r.s.gen # r.mj.ogen THEN r
  ELSE [r EXCEPT !.s.phase = "applying", !.s.gen = r.mj.ogen + 1]

ParkWrite(r) == IF ParkForMaintenance(r) = r THEN <<>>
                ELSE <<Write(ParkForMaintenance(r), "plain")>>

\* MaintenanceCoordinator.Prepare: idempotent for the same intent.
Prepare(r, op, ogen) ==
  LET m  == [op |-> op, ogen |-> ogen]
      r1 == [r EXCEPT !.mj = m]
  IN CASE r.txn # NoTxn \/ r.rw # NoWitness -> Refused
       [] r.txn = NoTxn /\ r.rw = NoWitness /\ r.mj # NoMaintenance ->
            IF r.mj = m /\ MaintenanceMatches(m, r.s)
            THEN [path |-> ParkWrite(r), ok |-> TRUE] ELSE Refused
       [] OTHER ->
            IF StableFor(r.s, Apple) /\ r.s.gen = ogen
            THEN [path |-> <<Write(r1, "plain")>> \o ParkWrite(r1), ok |-> TRUE]
            ELSE Refused

\* MaintenanceCoordinator.finish: Commit and Rollback differ only in the
\* endpoint that the resident verifies.
FinishMaintenance(r, m, ready) ==
  LET r1    == ParkForMaintenance(r)
      final == [r1 EXCEPT !.s.phase = "relay_active", !.s.gen = m.ogen + 2]
      r2    == IF r1.s.gen = m.ogen + 1 THEN final ELSE r1
      rest  == [path |-> (IF r2 = r1 THEN <<>> ELSE <<Write(r2, "plain")>>)
                         \o <<Write([r2 EXCEPT !.mj = NoMaintenance], "plain")>>,
                ok |-> TRUE]
  IN IF r.mj # m \/ m = NoMaintenance \/ ~MaintenanceMatches(m, r.s) THEN Refused
     ELSE After(ParkWrite(r), IF ready THEN rest ELSE Refused)

=============================================================================
