---------------------------- MODULE GatewayReload ----------------------------
(***************************************************************************)
(* relayctl gateway apply (routing/gateway.go): a new gateway address is   *)
(* written to the relay's config file and, when the external backend is    *)
(* active, loaded by the resident relay behind a journal and a backup.     *)
(* Recover (routing/controller.go) completes or rolls back an interrupted  *)
(* reload.                                                                 *)
(*                                                                         *)
(* Durable:    st (the routing state; its backends are external, or none   *)
(*             when native), cfg, backup and journal                       *)
(* Controller: ctl, the one relayctl command that holds the store's lock   *)
(* Relay:      up, snap (Watcher), run, the gateway of its runtime         *)
(* Others:     drift (cfg was edited after the relay loaded it), foreign   *)
(*             (cfg was edited after the reload began, while a command ran *)
(*             or between commands), faults                                *)
(*                                                                         *)
(* A file is the gateway it names and whether its bytes are those          *)
(* config.Write makes of it: a fingerprint is of the bytes, configDigest   *)
(* of the bytes config.Write would make.  The Codex files are not touched  *)
(* by a reload and stay as the journal found them.                         *)
(***************************************************************************)
EXTENDS Naturals

CONSTANTS
  Gateways,   \* addresses the config file may name
  NoGateway,  \* no address: an absent file, a paused runtime
  MaxGen,     \* an apply starts at a smaller generation only
  MaxFaults   \* faults of a behaviour

ASSUME GatewayAssumption ==
  /\ NoGateway \notin Gateways
  /\ MaxGen \in Nat /\ MaxFaults \in Nat

VARIABLES st, cfg, backup, journal, ctl, up, snap, run, drift, foreign, faults

relay == <<up, snap, run>>
vars == <<st, cfg, backup, journal, ctl, up, snap, run, drift, foreign, faults>>

-----------------------------------------------------------------------------
(* Files.                                                                  *)

Files == [gateway : Gateways, canonical : BOOLEAN]

NoFile == [gateway |-> NoGateway, canonical |-> TRUE]

\* What config.Write leaves, and the file configDigest is the digest of.
Canonical(g) == [gateway |-> g, canonical |-> TRUE]

ActivePhases == {"relay_active", "native_active"}

States == [phase : ActivePhases \cup {"applying", "recovery_required"}, gen : Nat]

Applying(s) == [phase |-> "applying", gen |-> s.gen + 1]

Final(s) == [phase |-> "relay_active", gen |-> s.gen + 1]

Recovery(s) == [phase |-> "recovery_required", gen |-> s.gen + 1]

Journals == [found : BOOLEAN, gen : Nat, stage : {"prepared", "config_mutated"},
             origin : Files \cup {NoFile}, target : Files \cup {NoFile},
             backup : Files \cup {NoFile}]

NoJournal == [found |-> FALSE, gen |-> 0, stage |-> "prepared",
              origin |-> NoFile, target |-> NoFile, backup |-> NoFile]

NewJournal(s, origin, target) ==
  [found |-> TRUE, gen |-> s.gen, stage |-> "prepared",
   origin |-> origin, target |-> target, backup |-> origin]

\* Mutant: the stage is what the journal says.
RecordedStage == IF backup # journal.backup THEN "unknown" ELSE journal.stage

\* gatewayJournalObservedStage: the file tells which side of the replacement
\* it is on, whatever the journal's last write says.
ObservedStage ==
  IF backup # journal.backup THEN "unknown"
  ELSE IF cfg = journal.origin THEN "prepared"
  ELSE IF cfg = journal.target THEN "config_mutated" ELSE "unknown"

-----------------------------------------------------------------------------
(* The resident relay.                                                     *)

Snaps == [s : States, invalid : BOOLEAN]

\* Watcher.Refresh: a journal beside a state other than applying parks.
Refresh == [s |-> st, invalid |-> journal.found /\ st.phase # "applying"]

Allows(sn) == ~sn.invalid /\ sn.s.phase = "relay_active"

Open == up /\ Allows(snap) /\ run # NoGateway

Watch ==
  /\ up
  /\ snap # Refresh
  /\ snap' = Refresh
  /\ UNCHANGED <<st, cfg, backup, journal, ctl, up, run, drift, foreign, faults>>

\* launchd starts the relay again: the config is loaded, and the runtime is
\* paused unless the state admits it (newRelayRuntimeWithDependencies).
Restart ==
  /\ ~up
  /\ up' = TRUE
  /\ snap' = Refresh
  /\ run' = IF Allows(Refresh) THEN cfg.gateway ELSE NoGateway
  /\ drift' = FALSE
  /\ UNCHANGED <<st, cfg, backup, journal, ctl, foreign, faults>>

-----------------------------------------------------------------------------
(* The controller.                                                         *)

Idle == [pc |-> "idle", act |-> "none", s |-> [phase |-> "native_active", gen |-> 0],
         read |-> NoFile, origin |-> NoGateway, target |-> NoGateway, j |-> NoJournal]

PCs == {"idle", "lock", "store", "stored", "restore", "backup", "applying", "journal",
        "park", "write", "mutated", "credentials", "swap", "final", "await",
        "unjournal", "unbackup", "undo", "undo_journal", "again", "again_applying",
        "again_journal", "again_park", "rewrite", "fail"}

Ctls == [pc : PCs, act : {"none", "apply", "undo", "complete", "rollback"},
         s : States, read : Files \cup {NoFile},
         origin : Gateways \cup {NoGateway}, target : Gateways \cup {NoGateway},
         j : Journals]

Goes(pc) == ctl' = [ctl EXCEPT !.pc = pc] /\ UNCHANGED faults

Ends == ctl' = Idle /\ UNCHANGED faults

\* A call fails.  Only config.Write reports the failed sync of the directory,
\* when the file is replaced already; the others fail before their effect.
Faulty == faults < MaxFaults /\ faults' = faults + 1

Fails(pc) == Faulty /\ ctl' = [ctl EXCEPT !.pc = pc]

Files3 == <<cfg, backup, journal>>

\* gatewayPreflight, with the digest and the generation its caller inspected.
Preflight(g) ==
  /\ ctl = Idle
  /\ st.gen < MaxGen
  /\ st.phase \in ActivePhases
  /\ ~journal.found
  /\ ctl' = [Idle EXCEPT !.pc = "lock", !.act = "apply", !.s = st, !.read = cfg,
                         !.origin = cfg.gateway, !.target = g]
  /\ UNCHANGED <<st, Files3, relay, drift, foreign, faults>>

\* GatewayApply under the lock: a stale backup goes, and what the preflight
\* read must still be there.
GatewayApply ==
  /\ ctl.pc = "lock"
  /\ \/ /\ backup' = NoFile
        /\ IF cfg # ctl.read \/ cfg = Canonical(ctl.target)
             THEN Ends /\ UNCHANGED foreign
             ELSE /\ Goes(IF st.phase = "relay_active" THEN "backup" ELSE "store")
                  /\ foreign' = "no"
     \/ Faulty /\ ctl' = Idle /\ UNCHANGED <<backup, foreign>>
  /\ UNCHANGED <<st, cfg, journal, relay, drift>>

\* Not active: the address is written for a later selection of external.
StoreConfig ==
  /\ ctl.pc = "store"
  /\ \/ cfg' = Canonical(ctl.target) /\ Goes("stored")
     \/ cfg' \in {cfg, Canonical(ctl.target)} /\ Faulty /\ ctl' = Idle
  /\ UNCHANGED <<st, backup, journal, relay, drift, foreign>>

\* The credentials are read again; when they changed and the file is still
\* ours, it is put back.
CheckStored ==
  /\ ctl.pc = "stored"
  /\ \/ Ends
     \/ Fails("restore")
  /\ UNCHANGED <<st, Files3, relay, drift, foreign>>

RestoreStored ==
  /\ ctl.pc = "restore"
  /\ \/ cfg' = (IF cfg = Canonical(ctl.target) THEN Canonical(ctl.origin) ELSE cfg) /\ Ends
     \/ Faulty /\ ctl' = Idle /\ UNCHANGED cfg
  /\ UNCHANGED <<st, backup, journal, relay, drift, foreign>>

\* applyGatewayReloadLocked, step by step.
CreateBackup ==
  /\ ctl.pc = "backup"
  /\ \/ backup' = cfg /\ Goes("applying")
     \/ backup' \in {backup, cfg} /\ Faulty /\ ctl' = Idle
  /\ UNCHANGED <<st, cfg, journal, relay, drift, foreign>>

SaveApplying ==
  /\ ctl.pc = "applying"
  /\ \/ /\ st' = Applying(ctl.s)
        /\ ctl' = [ctl EXCEPT !.pc = "journal", !.s = st',
                              !.j = NewJournal(st', ctl.read, Canonical(ctl.target))]
        /\ UNCHANGED <<backup, faults>>
     \/ backup' = NoFile /\ Faulty /\ ctl' = Idle /\ UNCHANGED st
  /\ UNCHANGED <<cfg, journal, relay, drift, foreign>>

\* newJournal and the first writeJournal.
WriteJournal ==
  /\ ctl.pc = "journal"
  /\ \/ journal' = ctl.j /\ Goes("park")
     \/ Fails("undo") /\ UNCHANGED journal
     \/ Faulty /\ ctl' = [ctl EXCEPT !.pc = "undo", !.j = NoJournal] /\ UNCHANGED journal
  /\ UNCHANGED <<st, cfg, backup, relay, drift, foreign>>

\* awaitParked: both listeners report this generation, closed and drained.
Parked == up /\ ~snap.invalid /\ snap.s = ctl.s

AwaitParked(from, to, failed) ==
  /\ ctl.pc = from
  /\ \/ Parked /\ Goes(to)
     \/ Fails(failed)
  /\ UNCHANGED <<st, Files3, relay, drift, foreign>>

WriteConfig ==
  /\ ctl.pc = "write"
  /\ \/ cfg' = Canonical(ctl.target) /\ Goes("mutated")
     \/ cfg' \in {cfg, Canonical(ctl.target)} /\ Fails("undo")
  /\ UNCHANGED <<st, backup, journal, relay, drift, foreign>>

WriteMutatedJournal ==
  LET j == [ctl.j EXCEPT !.stage = "config_mutated"]
  IN  /\ ctl.pc = "mutated"
      /\ \/ /\ journal' = j
            /\ ctl' = [ctl EXCEPT !.pc = "credentials", !.j = j]
            /\ UNCHANGED faults
         \/ Fails("undo") /\ UNCHANGED journal
      /\ UNCHANGED <<st, cfg, backup, relay, drift, foreign>>

CheckCredentials ==
  /\ ctl.pc = "credentials"
  /\ Goes("swap") \/ Fails("undo")
  /\ UNCHANGED <<st, Files3, relay, drift, foreign>>

-----------------------------------------------------------------------------
(* rollbackGatewayReloadLocked up to the runtime, in the same command.     *)

UndoConfig ==
  /\ ctl.pc = "undo"
  /\ \/ /\ cfg' = Canonical(ctl.origin)
        /\ ctl' = [ctl EXCEPT !.pc = "undo_journal", !.act = "undo"]
        /\ UNCHANGED faults
     \/ cfg' \in {cfg, Canonical(ctl.origin)} /\ Fails("fail")
  /\ UNCHANGED <<st, backup, journal, relay, drift, foreign>>

UndoJournal ==
  LET old == Canonical(ctl.origin)
      j   == IF ctl.j.found THEN [ctl.j EXCEPT !.stage = "prepared"]
             ELSE NewJournal(ctl.s, old, old)
  IN  /\ ctl.pc = "undo_journal"
      /\ \/ /\ journal' = j
            /\ ctl' = [ctl EXCEPT !.pc = "swap", !.j = j]
            /\ UNCHANGED faults
         \/ Fails("fail") /\ UNCHANGED journal
      /\ UNCHANGED <<st, cfg, backup, relay, drift, foreign>>

-----------------------------------------------------------------------------
(* recoverGatewayLocked up to the runtime.                                 *)

Selected(action) == IF action = "complete" THEN cfg.gateway ELSE backup.gateway

\* journalMatchesCurrentFiles and the two ways of recoverGatewayLocked.
Accepts(action) ==
  /\ journal.found
  /\ ObservedStage # "unknown"
  /\ action = "complete" => ObservedStage = "config_mutated"
  /\ Selected(action) \in Gateways
  /\ Canonical(Selected(action)) =
       IF action = "complete" THEN journal.target ELSE journal.origin

\* Mutant: only a state that was parked in order is recovered.
RecoverParked(action) ==
  /\ ctl = Idle
  /\ st.phase = "recovery_required"
  /\ Accepts(action)
  /\ ctl' = [Idle EXCEPT !.pc = "again", !.act = action, !.s = st,
                         !.target = Selected(action), !.j = journal]
  /\ UNCHANGED <<st, Files3, relay, drift, foreign, faults>>

Recover(action) ==
  LET gen == IF st.gen >= journal.gen + 1 THEN st.gen + 1 ELSE journal.gen + 1
      s   == IF st.phase = "recovery_required" THEN st
             ELSE [phase |-> "recovery_required", gen |-> gen]
  IN  /\ ctl = Idle
      /\ Accepts(action)
      /\ st' = s
      /\ ctl' = [Idle EXCEPT !.pc = "again", !.act = action, !.s = s,
                             !.target = Selected(action), !.j = journal]
      /\ UNCHANGED <<Files3, relay, drift, foreign, faults>>

WriteSelected ==
  /\ ctl.pc = "again"
  /\ \/ cfg' = Canonical(ctl.target) /\ Goes("again_applying")
     \/ cfg' \in {cfg, Canonical(ctl.target)} /\ Faulty /\ ctl' = Idle
  /\ UNCHANGED <<st, backup, journal, relay, drift, foreign>>

ReplaceApplying ==
  LET j == [ctl.j EXCEPT !.gen = ctl.s.gen + 1,
                         !.stage = IF ctl.act = "complete" THEN "config_mutated"
                                   ELSE "prepared"]
  IN  /\ ctl.pc = "again_applying"
      /\ \/ /\ st' = Applying(ctl.s)
            /\ ctl' = [ctl EXCEPT !.pc = "again_journal", !.s = st', !.j = j]
            /\ UNCHANGED faults
         \/ Faulty /\ ctl' = Idle /\ UNCHANGED st
      /\ UNCHANGED <<Files3, relay, drift, foreign>>

WriteAgainJournal ==
  /\ ctl.pc = "again_journal"
  /\ \/ journal' = ctl.j /\ Goes("again_park")
     \/ Fails("fail") /\ UNCHANGED journal
  /\ UNCHANGED <<st, cfg, backup, relay, drift, foreign>>

\* recoverObservedLocked: a crash before the journal was written.  Its steps
\* are those of RoutingSwitch; here the external runtime is built anew from
\* the config file as it is.
RecoverObserved ==
  /\ ctl = Idle /\ up
  /\ ~journal.found
  /\ st.phase \in {"applying", "recovery_required"}
  /\ st' = [phase |-> "relay_active", gen |-> st.gen + 3]
  /\ run' = cfg.gateway
  /\ drift' = FALSE
  /\ UNCHANGED <<Files3, ctl, up, snap, foreign, faults>>

-----------------------------------------------------------------------------
(* What the apply, its rollback and a recovery share: the runtime, the     *)
(* final state, and the two files.  The apply waits for the relay before   *)
(* it removes its journal, the others after.                               *)

FailsTo ==
  IF ctl.pc = "swap" /\ ctl.act = "apply" THEN "undo"
  ELSE IF ctl.pc = "unbackup" \/ (ctl.pc = "await" /\ ctl.act # "apply") THEN "rewrite"
  ELSE "fail"

\* Mutant: the relay runs this backend already and leaves it be.
SwapSameBackend ==
  /\ ctl.pc = "swap"
  /\ Goes(IF Parked THEN "final" ELSE FailsTo)
  /\ UNCHANGED <<st, Files3, relay, drift, foreign>>

\* runtimeControl.Apply and relayRuntime.apply, which loads the config itself.
\* It fails when the relay is away or has not seen this generation.
Swap ==
  /\ ctl.pc = "swap"
  /\ \/ Parked /\ run' = cfg.gateway /\ drift' = FALSE /\ Goes("final")
     \/ ~Parked /\ Goes(FailsTo) /\ UNCHANGED <<run, drift>>
     \/ /\ Parked /\ Fails(FailsTo)
        /\ \/ run' = cfg.gateway /\ drift' = FALSE
           \/ run' = NoGateway /\ UNCHANGED drift
  /\ UNCHANGED <<st, Files3, up, snap, foreign>>

SaveFinal ==
  /\ ctl.pc = "final"
  /\ \/ /\ st' = Final(ctl.s)
        /\ ctl' = [ctl EXCEPT !.pc = IF ctl.act = "apply" THEN "await" ELSE "unjournal",
                              !.s = st']
        /\ UNCHANGED faults
     \/ Fails(FailsTo) /\ UNCHANGED st
  /\ UNCHANGED <<Files3, relay, drift, foreign>>

\* awaitFinalized, and the digest the apply compares after it.  The deadline
\* passes by itself when the relay has seen the files and does not agree.
AwaitFinalized ==
  /\ ctl.pc = "await"
  /\ \/ /\ Parked
        /\ Goes(IF ctl.act # "apply" THEN "unbackup"
                ELSE IF cfg = Canonical(ctl.target) THEN "unjournal" ELSE "fail")
     \/ up /\ snap = Refresh /\ ~Parked /\ Goes(FailsTo)
     \/ Fails(FailsTo)
  /\ UNCHANGED <<st, Files3, relay, drift, foreign>>

RemoveJournal ==
  /\ ctl.pc = "unjournal"
  /\ \/ journal' = NoJournal /\ Goes(IF ctl.act = "apply" THEN "unbackup" ELSE "await")
     \/ Fails(FailsTo) /\ UNCHANGED journal
  /\ UNCHANGED <<st, cfg, backup, relay, drift, foreign>>

RemoveBackup ==
  /\ ctl.pc = "unbackup"
  /\ \/ backup' = NoFile /\ Ends
     \/ Fails(FailsTo) /\ UNCHANGED backup
  /\ UNCHANGED <<st, cfg, journal, relay, drift, foreign>>

\* The journal is put back, if it can be, before the state is parked.
RewriteJournal ==
  /\ ctl.pc = "rewrite"
  /\ \/ journal' = ctl.j /\ Goes("fail")
     \/ Fails("fail") /\ UNCHANGED journal
  /\ UNCHANGED <<st, cfg, backup, relay, drift, foreign>>

\* parkGatewayReloadLocked, parkGatewayRecoveryLocked.
Park ==
  /\ ctl.pc = "fail"
  /\ \/ st' = Recovery(ctl.s) /\ Ends
     \/ Faulty /\ ctl' = Idle /\ UNCHANGED st
  /\ UNCHANGED <<Files3, relay, drift, foreign>>

-----------------------------------------------------------------------------
(* Faults.                                                                 *)

Crash ==
  /\ ctl # Idle /\ Faulty
  /\ ctl' = Idle
  /\ UNCHANGED <<st, Files3, relay, drift, foreign>>

RelayCrash ==
  /\ up /\ Faulty
  /\ up' = FALSE
  /\ run' = NoGateway
  /\ UNCHANGED <<st, Files3, ctl, snap, drift, foreign>>

\* Somebody else replaces the config file, byte for byte as they like.
Edit ==
  /\ Faulty
  /\ cfg' \in Files \ {cfg}
  /\ drift' = TRUE
  /\ foreign' = IF ctl = Idle THEN "between" ELSE "during"
  /\ UNCHANGED <<st, backup, journal, ctl, relay>>

-----------------------------------------------------------------------------
Init ==
  /\ st \in [phase : ActivePhases, gen : {1}]
  /\ cfg \in Files
  /\ backup = NoFile /\ journal = NoJournal /\ ctl = Idle
  /\ up = TRUE
  /\ snap = [s |-> st, invalid |-> FALSE]
  /\ run = IF st.phase = "relay_active" THEN cfg.gateway ELSE NoGateway
  /\ drift = FALSE /\ foreign = "no" /\ faults = 0

Apply ==
  \/ GatewayApply \/ StoreConfig \/ CheckStored \/ RestoreStored
  \/ CreateBackup \/ SaveApplying \/ WriteJournal \/ AwaitParked("park", "write", "undo")
  \/ WriteConfig \/ WriteMutatedJournal \/ CheckCredentials
  \/ UndoConfig \/ UndoJournal

Again ==
  \/ WriteSelected \/ ReplaceApplying \/ WriteAgainJournal
  \/ AwaitParked("again_park", "swap", "fail")

Tail ==
  \/ Swap \/ SaveFinal \/ AwaitFinalized \/ RemoveJournal \/ RemoveBackup
  \/ RewriteJournal \/ Park

Controller == Apply \/ Again \/ Tail

Next ==
  \/ \E g \in Gateways : Preflight(g)
  \/ \E action \in {"complete", "rollback"} : Recover(action)
  \/ Controller \/ RecoverObserved
  \/ Watch \/ Restart
  \/ Crash \/ RelayCrash \/ Edit

Spec == Init /\ [][Next]_vars

\* The command runs to its end, the watcher polls, launchd restarts the relay,
\* and the user tries the recovery the status offers again and again.
FairSpec ==
  /\ Spec
  /\ WF_vars(Controller) /\ WF_vars(Watch) /\ WF_vars(Restart)
  /\ SF_vars(\E action \in {"complete", "rollback"} : Recover(action))

-----------------------------------------------------------------------------
\* Every variable keeps the shape of the files and fields it stands for.
TypeOK ==
  /\ st \in States /\ cfg \in Files
  /\ backup \in Files \cup {NoFile} /\ journal \in Journals
  /\ ctl \in Ctls
  /\ up \in BOOLEAN /\ snap \in Snaps /\ run \in Gateways \cup {NoGateway}
  /\ drift \in BOOLEAN /\ foreign \in {"no", "between", "during"}
  /\ faults \in 0..MaxFaults

\* An open relay sends requests to the gateway its config file names, once the
\* watcher has seen the state on disk: no interruption of a reload, of its
\* rollback or of a recovery leaves the old runtime open behind the new file
\* (applyGatewayReloadLocked, recoverGatewayLocked, relayRuntime.apply).
OpenServesConfig ==
  Open /\ snap = Refresh /\ ~drift => run = cfg.gateway

\* "Otherwise a recovery command could overwrite a legitimate intervening
\* change" (Recover): an edit made while no command runs is still in the file
\* as long as the reload is unresolved.
EditKept ==
  [][/\ journal.found /\ foreign = "between"
     /\ cfg \notin {journal.origin, journal.target}
     /\ cfg' # cfg
     => foreign' = "between" /\ faults' > faults]_vars

\* A user who keeps to the offered recovery resolves the journal.
RecoverySettles ==
  (journal.found /\ foreign = "no" /\ backup.canonical) ~> (~journal.found \/ foreign # "no")

\* "While External is active, Relay parks new admission, drains in-flight
\* requests, atomically writes the config, and asks the existing RuntimeManager
\* to replace the External generation": without a fault a reload does not end
\* in recovery (applyGatewayReloadLocked).
LiveReloadCommits == faults = 0 => st.phase # "recovery_required"

=============================================================================
