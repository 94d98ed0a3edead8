--------------------------- MODULE RuntimeInstall ---------------------------
(***************************************************************************)
(* The two transactions that put a relay runtime on a Mac, both under      *)
(* client/relay/internal/integration: `integration apply | recover`        *)
(* (integration.go), which installs the bundled relay, seeds its routing   *)
(* state and starts it, and `integration upgrade apply | recover`          *)
(* (upgrade.go), which moves an integrated relay to a newer bundle.  Each  *)
(* keeps a journal of what it replaced, each can be killed at any step,    *)
(* each uses launchctl, and each runs beside what the other left behind.   *)
(* The lifecycle writer lock admits one command at a time; the user, who   *)
(* owns the Codex configuration, takes no lock.                            *)
(*                                                                         *)
(* Digests, file modes and ownership tests are abstracted: a runtime is    *)
(* named by its bundle version and by which transaction named its          *)
(* directory.  The routing state and its marker file are one value (their  *)
(* two writes are in RoutingState).  An inspection whose digest is stale   *)
(* refuses before the journal, so only fresh ones are actions.             *)
(***************************************************************************)
EXTENDS Integers, Sequences

CONSTANTS MaxVersion,      \* bundle versions 1..MaxVersion
          MaxGenerations,  \* routing generations 1..MaxGenerations
          MaxEdits,        \* user edits of the Codex configuration
          MaxFaults        \* crashes, cancelled commands, failed calls, drifts

ASSUME InstallBounds ==
  /\ MaxVersion \in Nat \ {0}
  /\ MaxGenerations \in Nat \ {0}
  /\ MaxEdits \in Nat
  /\ MaxFaults \in Nat

VARIABLES
  app,      \* version of the bundle in Applications
  disk,     \* the six consumer-facing artifacts
  codex,    \* revision of the user's Codex configuration
  pend,     \* the journals other commands of the relay left pending
  dirs,     \* runtime directories under bundled/
  staging,  \* the .runtime-upgrade.* directory
  loaded,   \* the program launchd runs for the relay's label
  ij,       \* integration journal
  uj,       \* runtime upgrade journal
  wit,      \* runtime upgrade witness
  cmd,      \* the running command, with its memory
  faults

vars == <<app, disk, codex, pend, dirs, staging, loaded, ij, uj, wit, cmd, faults>>

-----------------------------------------------------------------------------
(* Data                                                                    *)

Runtimes == [ver: 1..MaxVersion, name: {"short", "full"}]
None == [ver |-> 0, name |-> "none"]

\* integration names a directory by 16 digits of the relay digest, the
\* upgrade by the 64 of the combined digest: never the same directory.
IntegrationTarget == [ver |-> app, name |-> "short"]
UpgradeTarget == [ver |-> app, name |-> "full"]

\* Gateway addresses a user asks for.  They are numbered as they are first
\* used: which of two fresh addresses comes first makes no difference.
Candidates == {c \in {1, 2} : c <= disk.config + 1}
Phases == {"native_active", "relay_active", "applying", "recovery_required"}
Unsettled == {"applying", "recovery_required"}

\* A transaction or maintenance journal of the routing package; a relocation of
\* the application or a removal in the relay's scope; a standalone removal.
OutsideJournals == {"routing", "other", "standalone"}

Artifacts == [config: 0..2, gen: 0..MaxGenerations, phase: Phases \cup {"none"},
              plist: Runtimes \cup {None}, binding: BOOLEAN,
              current: Runtimes \cup {None}]
NoArtifacts == [config |-> 0, gen |-> 0, phase |-> "none", plist |-> None,
                binding |-> FALSE, current |-> None]

Invariants == [config: 0..2, gen: 0..MaxGenerations, phase: Phases \cup {"none"},
               binding: BOOLEAN, codex: 0..MaxEdits]
NoInvariants == [config |-> 0, gen |-> 0, phase |-> "none", binding |-> FALSE,
                 codex |-> 0]

IntegrationJournals ==
  [stage: {"none", "prepared", "runtime_prepared", "state_prepared", "service_started"},
   active: BOOLEAN, made: Runtimes \cup {None}, files: Artifacts]
NoIntegrationJournal ==
  [stage |-> "none", active |-> FALSE, made |-> None, files |-> NoArtifacts]

\* The snapshots of what an upgrade replaces.
MutableFiles == [current: Runtimes \cup {None}, plist: Runtimes \cup {None}]
NoMutableFiles == [current |-> None, plist |-> None]

UpgradeJournals ==
  [phase: {"none", "prepared", "runtime_staged", "switched", "restarting", "verified"},
   previous: Runtimes \cup {None}, new: Runtimes \cup {None}, created: BOOLEAN,
   files: MutableFiles, inv: Invariants]
NoUpgradeJournal ==
  [phase |-> "none", previous |-> None, new |-> None, created |-> FALSE,
   files |-> NoMutableFiles, inv |-> NoInvariants]

Idle == [pc |-> "idle", ctx |-> "live", made |-> None, cand |-> 0, n |-> 0]

IntegrationPcs == {"i_mkdir", "i_copy", "i_switch", "i_runtime", "i_config",
                   "i_seed", "i_state", "i_plist", "i_bootout", "i_bootstrap",
                   "i_started", "i_health", "i_binding", "i_finish",
                   "ir_bootout", "ir_files", "ir_bootstrap", "ir_leaves", "ir_dir",
                   "ir_journal"}
UpgradePcs == {"u_stage", "u_copy", "u_journal", "u_rename", "u_staged",
               "u_current", "u_plist", "u_switched", "u_restarting",
               "u_bootout", "u_bootstrap", "u_verify", "u_verified",
               "u_witness", "u_finish", "c_check", "ur_bootout", "ur_files",
               "ur_bootstrap", "ur_verify", "ur_staging", "ur_leaves",
               "ur_dir", "ur_journal"}

\* The order in which each rollback restores its snapshots: last to first,
\* a symlink by removing it and linking it again.
IntegrationRestores == <<"unlink", "current", "binding", "plist", "state", "config">>
UpgradeRestores == <<"plist", "unlink", "current">>

-----------------------------------------------------------------------------
(* Helpers                                                                 *)

Faulty == faults < MaxFaults /\ faults' = faults + 1

\* A command holds the lifecycle writer lock from its first step to its exit.
Locked == cmd.pc # "idle"

Goto(pc) == cmd' = [cmd EXCEPT !.pc = pc]
Exit == cmd' = Idle
At(pc, next) == cmd.pc = pc /\ Goto(next)

RecordedInvariants ==
  [config |-> disk.config, gen |-> disk.gen, phase |-> disk.phase,
   binding |-> disk.binding, codex |-> codex]

\* Six artifacts; the routing state counts for its marker too.
Presence ==
  (IF disk.config # 0 THEN 1 ELSE 0) + (IF disk.gen # 0 THEN 2 ELSE 0)
  + (IF disk.plist # None THEN 1 ELSE 0) + (IF disk.binding THEN 1 ELSE 0)
  + (IF disk.current # None THEN 1 ELSE 0)

ServiceActive == loaded # None

Ready == /\ ServiceActive
         /\ disk.plist # None
         /\ disk.current # None
         /\ disk.config # 0
         /\ disk.binding
         /\ disk.gen # 0

\* readInstalledRuntime: both executables are where `current` points.
InstalledReadable == disk.current # None /\ dirs[disk.current] = "full"

ExternalUpgradeRecoveryPresent == ij.stage # "none" \/ pend # {}

StandaloneRemovalInactive == "standalone" \notin pend

InspectUpgrade ==
  IF ExternalUpgradeRecoveryPresent \/ uj.phase # "none" THEN "recovery_required"
  ELSE IF Presence = 0 /\ ~ServiceActive THEN "not_integrated"
  ELSE IF Presence # 6 \/ ~Ready \/ ~InstalledReadable THEN "incompatible"
  ELSE IF disk.phase \in Unsettled THEN "recovery_required"
  ELSE IF disk.current.ver > app THEN "incompatible"
  ELSE IF disk.current.ver = app THEN "current"
  ELSE "upgrade_available"

Restored(file, snapshot) ==
  CASE file = "unlink"  -> [disk EXCEPT !.current = None]
    [] file = "current" -> [disk EXCEPT !.current = snapshot.current]
    [] file = "binding" -> [disk EXCEPT !.binding = snapshot.binding]
    [] file = "plist"   -> [disk EXCEPT !.plist = snapshot.plist]
    [] file = "state"   -> [disk EXCEPT !.gen = snapshot.gen, !.phase = snapshot.phase]
    [] file = "config"  -> [disk EXCEPT !.config = snapshot.config]

\* launchctl bootout; its error is ignored by every caller, and a cancelled
\* context starts no process.
Bootout ==
  \/ /\ cmd.ctx = "live"
     /\ loaded' = None
     /\ UNCHANGED faults
  \/ /\ cmd.ctx = "done"
     /\ UNCHANGED <<loaded, faults>>
  \/ /\ cmd.ctx = "live" /\ loaded # None
     /\ Faulty
     /\ UNCHANGED loaded

\* launchctl bootstrap and kickstart: launchd loads the job the plist names,
\* and refuses a label it already has or a plist that is not there.
Bootstrap(done, failed) ==
  \/ /\ cmd.ctx = "live" /\ loaded = None /\ disk.plist # None
     /\ loaded' = disk.plist
     /\ Goto(done)
     /\ UNCHANGED faults
  \/ /\ cmd.ctx = "done" \/ loaded # None \/ disk.plist = None
     /\ Goto(failed)
     /\ UNCHANGED <<loaded, faults>>
  \/ /\ cmd.ctx = "live" /\ loaded = None /\ disk.plist # None
     /\ loaded' \in {None, disk.plist}
     /\ Goto(failed)
     /\ Faulty

\* verifyRuntimeUpgrade: both health endpoints answer for the stored routing
\* state, and the process launchd runs is the expected executable.
Running(runtime) == cmd.ctx = "live" /\ loaded = runtime /\ dirs[runtime] = "full"

-----------------------------------------------------------------------------
(* integration apply                                                       *)

\* Apply up to its first journal write: a snapshot of the six artifacts and
\* of whether the service was running.
IntegrationApply(candidate) ==
  /\ ~Locked
  /\ StandaloneRemovalInactive
  /\ ij.stage = "none"
  /\ ij' = [stage |-> "prepared", active |-> ServiceActive, made |-> None, files |-> disk]
  /\ cmd' = [Idle EXCEPT !.pc = "i_mkdir", !.cand = candidate]
  /\ UNCHANGED <<app, disk, codex, pend, dirs, staging, loaded, uj, wit, faults>>

\* prepareRuntime: the directory, the executables, then `current`, and only
\* then the journal learns that the directory is new.
IMkdir ==
  /\ cmd.pc = "i_mkdir"
  /\ LET created == dirs[IntegrationTarget] = "none" IN
       /\ dirs' = IF created THEN [dirs EXCEPT ![IntegrationTarget] = "part"] ELSE dirs
       /\ cmd' = [cmd EXCEPT !.pc = "i_copy",
                             !.made = IF created THEN IntegrationTarget ELSE None]
  /\ UNCHANGED <<app, disk, codex, pend, staging, loaded, ij, uj, wit, faults>>

\* Mutant: an existing directory is taken as complete.
ICopyCreated ==
  /\ At("i_copy", "i_switch")
  /\ dirs' = IF cmd.made # None THEN [dirs EXCEPT ![cmd.made] = "full"] ELSE dirs
  /\ UNCHANGED <<app, disk, codex, pend, staging, loaded, ij, uj, wit, faults>>

ICopy ==
  /\ At("i_copy", "i_switch")
  /\ dirs' = [dirs EXCEPT ![IntegrationTarget] = "full"]
  /\ UNCHANGED <<app, disk, codex, pend, staging, loaded, ij, uj, wit, faults>>

ISwitch ==
  /\ At("i_switch", "i_runtime")
  /\ disk' = [disk EXCEPT !.current = IntegrationTarget]
  /\ UNCHANGED <<app, codex, pend, dirs, staging, loaded, ij, uj, wit, faults>>

\* prepareRuntime failed: it removes what it created, then Apply rolls back
\* with a journal that names no directory.
PrepareRuntimeFails ==
  /\ cmd.pc \in {"i_copy", "i_switch"}
  /\ Faulty
  /\ dirs' = IF cmd.made # None THEN [dirs EXCEPT ![cmd.made] = "none"] ELSE dirs
  /\ cmd' = [cmd EXCEPT !.pc = "ir_bootout", !.made = None]
  /\ UNCHANGED <<app, disk, codex, pend, staging, loaded, ij, uj, wit>>

\* The three later journal writes.
WriteJournal ==
  /\ \/ /\ At("i_runtime", "i_config")
        /\ ij' = [ij EXCEPT !.stage = "runtime_prepared", !.made = cmd.made]
     \/ /\ At("i_state", "i_plist")
        /\ ij' = [ij EXCEPT !.stage = "state_prepared", !.made = cmd.made]
     \/ /\ At("i_started", "i_health")
        /\ ij' = [ij EXCEPT !.stage = "service_started", !.made = cmd.made]
  /\ UNCHANGED <<app, disk, codex, pend, dirs, staging, loaded, uj, wit, faults>>

WriteConfig ==
  /\ At("i_config", "i_seed")
  /\ disk' = [disk EXCEPT !.config = cmd.cand]
  /\ UNCHANGED <<app, codex, pend, dirs, staging, loaded, ij, uj, wit, faults>>

\* SeedNativeParked: a first state, or the parked one that is there; any
\* other state, or a pending journal of the routing package, is refused.
SeedNativeParked ==
  /\ cmd.pc = "i_seed"
  /\ IF "routing" \notin pend /\ (disk.gen = 0 \/ disk.phase = "native_active")
       THEN /\ disk' = IF disk.gen = 0
                         THEN [disk EXCEPT !.gen = 1, !.phase = "native_active"]
                         ELSE disk
            /\ Goto("i_state")
       ELSE Goto("ir_bootout") /\ UNCHANGED disk
  /\ UNCHANGED <<app, codex, pend, dirs, staging, loaded, ij, uj, wit, faults>>

InstallService ==
  \/ /\ At("i_plist", "i_bootout")
     /\ disk' = [disk EXCEPT !.plist = IntegrationTarget]
     /\ UNCHANGED <<app, codex, pend, dirs, staging, loaded, ij, uj, wit, faults>>
  \/ /\ At("i_bootout", "i_bootstrap")
     /\ Bootout
     /\ UNCHANGED <<app, disk, codex, pend, dirs, staging, ij, uj, wit>>
  \/ /\ cmd.pc = "i_bootstrap"
     /\ Bootstrap("i_started", "ir_bootout")
     /\ UNCHANGED <<app, disk, codex, pend, dirs, staging, ij, uj, wit>>

\* verifyHealth asks the two endpoints for the seeded generation; it does
\* not ask which executable answers.
VerifyHealth ==
  /\ cmd.pc = "i_health"
  /\ \/ /\ cmd.ctx = "live" /\ ServiceActive
        /\ Goto("i_binding")
        /\ UNCHANGED faults
     \/ /\ cmd.ctx = "done" \/ ~ServiceActive
        /\ Goto("ir_bootout")
        /\ UNCHANGED faults
  /\ UNCHANGED <<app, disk, codex, pend, dirs, staging, loaded, ij, uj, wit>>

WriteBinding ==
  /\ At("i_binding", "i_finish")
  /\ disk' = [disk EXCEPT !.binding = TRUE]
  /\ UNCHANGED <<app, codex, pend, dirs, staging, loaded, ij, uj, wit, faults>>

FinishIntegration ==
  /\ cmd.pc = "i_finish"
  /\ ij' = NoIntegrationJournal
  /\ Exit
  /\ UNCHANGED <<app, disk, codex, pend, dirs, staging, loaded, uj, wit, faults>>

\* Any write, health probe or removal of Apply fails: fail() rolls back with
\* the journal in memory.
IntegrationFails ==
  /\ cmd.pc \in {"i_runtime", "i_config", "i_seed", "i_state", "i_plist",
                 "i_started", "i_health", "i_binding", "i_finish"}
  /\ Faulty
  /\ Goto("ir_bootout")
  /\ UNCHANGED <<app, disk, codex, pend, dirs, staging, loaded, ij, uj, wit>>

-----------------------------------------------------------------------------
(* integration recover, and the rollback it shares with apply              *)

RecoverIntegration ==
  /\ ~Locked
  /\ StandaloneRemovalInactive
  /\ ij.stage # "none"
  /\ cmd' = [Idle EXCEPT !.pc = "ir_bootout", !.made = ij.made]
  /\ UNCHANGED <<app, disk, codex, pend, dirs, staging, loaded, ij, uj, wit, faults>>

RollbackBootout ==
  /\ cmd.pc = "ir_bootout"
  /\ Bootout
  /\ cmd' = [cmd EXCEPT !.pc = "ir_files", !.n = 1]
  /\ UNCHANGED <<app, disk, codex, pend, dirs, staging, ij, uj, wit>>

RollbackFiles ==
  /\ cmd.pc = "ir_files"
  /\ disk' = Restored(IntegrationRestores[cmd.n], ij.files)
  /\ cmd' = IF cmd.n < Len(IntegrationRestores)
              THEN [cmd EXCEPT !.n = @ + 1]
              ELSE [cmd EXCEPT !.pc = IF ij.active THEN "ir_bootstrap" ELSE "ir_leaves",
                               !.n = 0]
  /\ UNCHANGED <<app, codex, pend, dirs, staging, loaded, ij, uj, wit, faults>>

RollbackBootstrap ==
  /\ cmd.pc = "ir_bootstrap"
  /\ Bootstrap("ir_leaves", "idle")
  /\ UNCHANGED <<app, disk, codex, pend, dirs, staging, ij, uj, wit>>

\* The executables, then the directory they leave empty; every error is ignored.
RollbackDirectory ==
  /\ \/ /\ At("ir_leaves", IF cmd.made # None THEN "ir_dir" ELSE "ir_journal")
        /\ dirs' = IF cmd.made = None \/ dirs[cmd.made] = "none" THEN dirs
                   ELSE [dirs EXCEPT ![cmd.made] = "part"]
        /\ UNCHANGED faults
     \/ /\ At("ir_leaves", "ir_journal")
        /\ cmd.made # None /\ dirs[cmd.made] # "none"
        /\ Faulty
        /\ dirs' \in {dirs, [dirs EXCEPT ![cmd.made] = "part"]}
     \/ /\ At("ir_dir", "ir_journal")
        /\ dirs' = [dirs EXCEPT ![cmd.made] = "none"]
        /\ UNCHANGED faults
     \/ /\ At("ir_dir", "ir_journal")
        /\ Faulty
        /\ UNCHANGED dirs
  /\ UNCHANGED <<app, disk, codex, pend, staging, loaded, ij, uj, wit>>

RollbackJournal ==
  /\ cmd.pc = "ir_journal"
  /\ ij' = NoIntegrationJournal
  /\ Exit
  /\ UNCHANGED <<app, disk, codex, pend, dirs, staging, loaded, uj, wit, faults>>

-----------------------------------------------------------------------------
(* integration upgrade apply                                               *)

\* ApplyUpgrade up to the staging: orphaned staging is removed once no
\* journal can refer to it, and only upgrade_available goes on.
ApplyUpgrade ==
  /\ ~Locked
  /\ ~ExternalUpgradeRecoveryPresent
  /\ uj.phase = "none"
  /\ staging' = "none"
  /\ IF InspectUpgrade = "upgrade_available"
       THEN cmd' = [Idle EXCEPT !.pc = "u_stage"]
       ELSE UNCHANGED cmd
  /\ UNCHANGED <<app, disk, codex, pend, dirs, loaded, ij, uj, wit, faults>>

\* prepareUpgradeRuntime: a matching directory is reused, a partial one
\* refused, a missing one staged under a temporary name.
PrepareUpgradeRuntime ==
  \/ /\ cmd.pc = "u_stage"
     /\ CASE dirs[UpgradeTarget] = "full" -> Goto("u_journal") /\ UNCHANGED staging
          [] dirs[UpgradeTarget] = "part" -> Exit /\ UNCHANGED staging
          [] dirs[UpgradeTarget] = "none" -> Goto("u_copy") /\ staging' = "part"
     /\ UNCHANGED <<app, disk, codex, pend, dirs, loaded, ij, uj, wit, faults>>
  \/ /\ At("u_copy", "u_journal")
     /\ staging' = "full"
     /\ UNCHANGED <<app, disk, codex, pend, dirs, loaded, ij, uj, wit, faults>>

\* Copying, capturing the invariants or writing the first journal fails:
\* cleanupUnjournaled.
UpgradeUnjournaled ==
  /\ cmd.pc \in {"u_copy", "u_journal"}
  /\ Faulty
  /\ staging' = "none"
  /\ Exit
  /\ UNCHANGED <<app, disk, codex, pend, dirs, loaded, ij, uj, wit>>

\* captureUpgradeInvariants and the first journal.
UpgradeJournal ==
  /\ At("u_journal", "u_rename")
  /\ uj' = [phase |-> "prepared", previous |-> disk.current, new |-> UpgradeTarget,
            created |-> staging = "full",
            files |-> [current |-> disk.current, plist |-> disk.plist],
            inv |-> RecordedInvariants]
  /\ UNCHANGED <<app, disk, codex, pend, dirs, staging, loaded, ij, wit, faults>>

UpgradeRename ==
  /\ At("u_rename", "u_staged")
  /\ IF uj.created
       THEN staging' = "none" /\ dirs' = [dirs EXCEPT ![uj.new] = "full"]
       ELSE UNCHANGED <<staging, dirs>>
  /\ UNCHANGED <<app, disk, codex, pend, loaded, ij, uj, wit, faults>>

\* The later journal writes, one per phase.
WriteUpgradeJournal ==
  /\ \/ At("u_staged", "u_current") /\ uj' = [uj EXCEPT !.phase = "runtime_staged"]
     \/ At("u_switched", "u_restarting") /\ uj' = [uj EXCEPT !.phase = "switched"]
     \/ At("u_restarting", "u_bootout") /\ uj' = [uj EXCEPT !.phase = "restarting"]
     \/ At("u_verified", "u_witness") /\ uj' = [uj EXCEPT !.phase = "verified"]
  /\ UNCHANGED <<app, disk, codex, pend, dirs, staging, loaded, ij, wit, faults>>

SwitchCurrentTarget ==
  /\ At("u_current", "u_plist")
  /\ disk' = [disk EXCEPT !.current = uj.new]
  /\ UNCHANGED <<app, codex, pend, dirs, staging, loaded, ij, uj, wit, faults>>

SwitchServicePlist ==
  /\ At("u_plist", "u_switched")
  /\ disk' = [disk EXCEPT !.plist = uj.new]
  /\ UNCHANGED <<app, codex, pend, dirs, staging, loaded, ij, uj, wit, faults>>

RestartService ==
  /\ \/ At("u_bootout", "u_bootstrap") /\ Bootout
     \/ cmd.pc = "u_bootstrap" /\ Bootstrap("u_verify", "ur_bootout")
  /\ UNCHANGED <<app, disk, codex, pend, dirs, staging, ij, uj, wit>>

\* verifyUpgradeInvariants: what the transaction promised not to touch.
InvariantsHold == RecordedInvariants = uj.inv

VerifyUpgrade ==
  /\ cmd.pc = "u_verify"
  /\ IF Running(uj.new) /\ InvariantsHold THEN Goto("u_verified") ELSE Goto("ur_bootout")
  /\ UNCHANGED <<app, disk, codex, pend, dirs, staging, loaded, ij, uj, wit, faults>>

WriteUpgradeWitness ==
  /\ At("u_witness", "u_finish")
  /\ wit' = uj.new
  /\ UNCHANGED <<app, disk, codex, pend, dirs, staging, loaded, ij, uj, faults>>

RemoveUpgradeJournal ==
  /\ cmd.pc \in {"u_finish", "ur_journal"}
  /\ uj' = NoUpgradeJournal
  /\ Exit
  /\ UNCHANGED <<app, disk, codex, pend, dirs, staging, loaded, ij, wit, faults>>

\* A step between the first journal and the verification fails: rollback.
UpgradeFails ==
  /\ cmd.pc \in {"u_rename", "u_staged", "u_current", "u_plist", "u_switched",
                 "u_restarting", "u_verify"}
  /\ Faulty
  /\ Goto("ur_bootout")
  /\ UNCHANGED <<app, disk, codex, pend, dirs, staging, loaded, ij, uj, wit>>

\* A step after the verification, or of the rollback, fails: the command
\* returns ErrRecoveryRequired and leaves the journal.
UpgradeStops ==
  /\ cmd.pc \in {"u_verified", "u_witness", "u_finish", "ur_verify", "ur_staging",
                 "ur_leaves", "ur_dir", "ur_journal"}
  /\ Faulty
  /\ Exit
  /\ UNCHANGED <<app, disk, codex, pend, dirs, staging, loaded, ij, uj, wit>>

-----------------------------------------------------------------------------
(* integration upgrade recover, and the rollback it shares with apply      *)

RecoverUpgrade ==
  /\ ~Locked
  /\ ~ExternalUpgradeRecoveryPresent
  /\ uj.phase # "none"
  /\ cmd' = [Idle EXCEPT !.pc = IF uj.phase = "verified" THEN "c_check" ELSE "ur_bootout"]
  /\ UNCHANGED <<app, disk, codex, pend, dirs, staging, loaded, ij, uj, wit, faults>>

\* Mutant: a verified journal is believed.
CompleteBelieved ==
  /\ At("c_check", "u_witness")
  /\ UNCHANGED <<app, disk, codex, pend, dirs, staging, loaded, ij, uj, wit, faults>>

CompleteVerifiedUpgrade ==
  /\ cmd.pc = "c_check"
  /\ IF disk.current = uj.new /\ disk.plist = uj.new /\ Running(uj.new) /\ InvariantsHold
       THEN Goto("u_witness")
       ELSE Exit
  /\ UNCHANGED <<app, disk, codex, pend, dirs, staging, loaded, ij, uj, wit, faults>>

\* rollbackUpgrade: stop, restore, start and prove the previous runtime ...
RollbackUpgradeFiles ==
  \/ /\ cmd.pc = "ur_bootout"
     /\ Bootout
     /\ cmd' = [cmd EXCEPT !.pc = "ur_files", !.n = 1]
     /\ UNCHANGED <<app, disk, codex, pend, dirs, staging, ij, uj, wit>>
  \/ /\ cmd.pc = "ur_files"
     /\ disk' = Restored(UpgradeRestores[cmd.n], uj.files)
     /\ cmd' = IF cmd.n < Len(UpgradeRestores)
                 THEN [cmd EXCEPT !.n = @ + 1]
                 ELSE [cmd EXCEPT !.pc = "ur_bootstrap", !.n = 0]
     /\ UNCHANGED <<app, codex, pend, dirs, staging, loaded, ij, uj, wit, faults>>

RollbackUpgradeService ==
  \/ /\ cmd.pc = "ur_bootstrap"
     /\ Bootstrap("ur_verify", "idle")
     /\ UNCHANGED <<app, disk, codex, pend, dirs, staging, ij, uj, wit>>
  \/ /\ cmd.pc = "ur_verify"
     /\ IF Running(uj.previous) /\ InvariantsHold THEN Goto("ur_staging") ELSE Exit
     /\ UNCHANGED <<app, disk, codex, pend, dirs, staging, loaded, ij, uj, wit, faults>>

\* Mutant: a directory that is already gone is an error.
RollbackRuntimeStrict ==
  /\ \/ /\ At("ur_staging", IF uj.created THEN "ur_leaves" ELSE "ur_journal")
        /\ staging' = "none"
        /\ UNCHANGED dirs
     \/ /\ cmd.pc = "ur_leaves"
        /\ IF dirs[uj.new] = "none" THEN Exit /\ UNCHANGED dirs
             ELSE Goto("ur_dir") /\ dirs' = [dirs EXCEPT ![uj.new] = "part"]
        /\ UNCHANGED staging
     \/ /\ At("ur_dir", "ur_journal")
        /\ dirs' = [dirs EXCEPT ![uj.new] = "none"]
        /\ UNCHANGED staging
  /\ UNCHANGED <<app, disk, codex, pend, loaded, ij, uj, wit, faults>>

\* ... and only then remove what the upgrade created.
RollbackUpgradeRuntime ==
  /\ \/ /\ At("ur_staging", IF uj.created THEN "ur_leaves" ELSE "ur_journal")
        /\ staging' = "none"
        /\ UNCHANGED dirs
     \/ /\ At("ur_leaves", "ur_dir")
        /\ dirs' = [dirs EXCEPT ![uj.new] = IF @ = "none" THEN "none" ELSE "part"]
        /\ UNCHANGED staging
     \/ /\ At("ur_dir", "ur_journal")
        /\ dirs' = [dirs EXCEPT ![uj.new] = "none"]
        /\ UNCHANGED staging
  /\ UNCHANGED <<app, disk, codex, pend, loaded, ij, uj, wit, faults>>

-----------------------------------------------------------------------------
(* The environment                                                         *)

\* The process dies: the lock and the memory go, the files stay.
Crash ==
  /\ Locked
  /\ Faulty
  /\ Exit
  /\ UNCHANGED <<app, disk, codex, pend, dirs, staging, loaded, ij, uj, wit>>

\* SIGINT, SIGTERM or the command's own deadline ends its context; the code
\* goes on, with every later launchctl call refused.
Cancel ==
  /\ Locked
  /\ cmd.ctx = "live"
  /\ Faulty
  /\ cmd' = [cmd EXCEPT !.ctx = "done"]
  /\ UNCHANGED <<app, disk, codex, pend, dirs, staging, loaded, ij, uj, wit>>

\* The user copies a newer bundle into Applications.
ReplaceApp ==
  /\ ~Locked
  /\ app < MaxVersion
  /\ app' = app + 1
  /\ UNCHANGED <<disk, codex, pend, dirs, staging, loaded, ij, uj, wit, cmd, faults>>

\* The user or Codex rewrites the Codex configuration, under no lock.  Only
\* a pending upgrade compares it with anything, so other edits are left out.
EditCodex ==
  /\ uj.phase # "none"
  /\ codex < MaxEdits
  /\ codex' = codex + 1
  /\ UNCHANGED <<app, disk, pend, dirs, staging, loaded, ij, uj, wit, cmd, faults>>

Switched == IF disk.phase = "native_active" THEN "relay_active" ELSE "native_active"

\* A mode command (RoutingSwitch) or a maintenance of the container runtime, under
\* the same lifecycle lock: it looks at neither journal of this module.  It
\* ends, or dies or fails beside its journal, or dies before the journal is
\* written or fails without one (failApplyingLocked), and is recovered later.
\* The generation it takes stands for the ones its recovery takes too.
ModeCommand ==
  /\ ~Locked
  /\ disk.config # 0 /\ disk.gen # 0 /\ ServiceActive
  /\ disk.gen < MaxGenerations
  /\ "routing" \notin pend /\ disk.phase \notin Unsettled
  /\ \/ /\ disk' = [disk EXCEPT !.gen = @ + 1, !.phase = Switched]
        /\ UNCHANGED <<pend, faults>>
     \/ /\ Faulty
        /\ \E phase \in Unsettled \cup {Switched} :
             disk' = [disk EXCEPT !.gen = @ + 1, !.phase = phase]
        /\ pend' = pend \cup {"routing"}
     \/ /\ Faulty
        /\ \E phase \in Unsettled : disk' = [disk EXCEPT !.gen = @ + 1, !.phase = phase]
        /\ UNCHANGED pend
  /\ UNCHANGED <<app, codex, dirs, staging, loaded, ij, uj, wit, cmd>>

ModeRecover ==
  /\ ~Locked
  /\ "routing" \in pend \/ disk.phase \in Unsettled
  /\ pend' = pend \ {"routing"}
  /\ \E phase \in {"native_active", "relay_active"} :
       disk' = IF disk.gen # 0 THEN [disk EXCEPT !.phase = phase] ELSE disk
  /\ UNCHANGED <<app, codex, dirs, staging, loaded, ij, uj, wit, cmd, faults>>

\* A relocation or a removal dies and leaves its journal.  A standalone removal
\* begins only where nothing of the relay is installed
\* (ensureStandaloneRelayAssetsAbsent).
OutsideDies ==
  /\ ~Locked
  /\ Faulty
  /\ \/ pend' = pend \cup {"other"}
     \/ disk = NoArtifacts /\ ij.stage = "none" /\ pend' = pend \cup {"standalone"}
  /\ UNCHANGED <<app, disk, codex, dirs, staging, loaded, ij, uj, wit, cmd>>

\* ... and is recovered.
OutsideRecovers ==
  /\ ~Locked
  /\ \E j \in pend \ {"routing"} : pend' = pend \ {j}
  /\ UNCHANGED <<app, disk, codex, dirs, staging, loaded, ij, uj, wit, cmd, faults>>

-----------------------------------------------------------------------------
Init ==
  /\ app = 1
  /\ disk = NoArtifacts
  /\ codex = 0
  /\ pend = {}
  /\ dirs = [r \in Runtimes |-> "none"]
  /\ staging = "none"
  /\ loaded = None
  /\ ij = NoIntegrationJournal
  /\ uj = NoUpgradeJournal
  /\ wit = None
  /\ cmd = Idle
  /\ faults = 0

IntegrationStep ==
  \/ IMkdir \/ ICopy \/ ISwitch \/ WriteJournal \/ WriteConfig \/ SeedNativeParked
  \/ InstallService \/ VerifyHealth \/ WriteBinding \/ FinishIntegration
  \/ RollbackBootout \/ RollbackFiles \/ RollbackBootstrap \/ RollbackDirectory
  \/ RollbackJournal

UpgradeStep ==
  \/ PrepareUpgradeRuntime \/ UpgradeJournal \/ UpgradeRename \/ WriteUpgradeJournal
  \/ SwitchCurrentTarget \/ SwitchServicePlist \/ RestartService \/ VerifyUpgrade
  \/ WriteUpgradeWitness \/ RemoveUpgradeJournal \/ CompleteVerifiedUpgrade
  \/ RollbackUpgradeFiles \/ RollbackUpgradeService \/ RollbackUpgradeRuntime

Step == IntegrationStep \/ UpgradeStep

Next ==
  \/ \E candidate \in Candidates : IntegrationApply(candidate)
  \/ RecoverIntegration \/ ApplyUpgrade \/ RecoverUpgrade
  \/ Step
  \/ PrepareRuntimeFails \/ IntegrationFails
  \/ UpgradeUnjournaled \/ UpgradeFails \/ UpgradeStops
  \/ Crash \/ Cancel \/ ReplaceApp \/ EditCodex \/ ModeCommand
  \/ ModeRecover \/ OutsideDies \/ OutsideRecovers

Spec == Init /\ [][Next]_vars

\* A running command goes on; whoever is told recovery_required runs the
\* recovery in the end, whatever else runs in between.
FairSpec == Spec /\ WF_vars(Step)
                 /\ SF_vars(RecoverIntegration) /\ SF_vars(RecoverUpgrade)
                 /\ SF_vars(ModeRecover \/ OutsideRecovers)

-----------------------------------------------------------------------------
(* Properties                                                              *)

\* Every variable keeps its type.
TypeOK ==
  /\ app \in 1..MaxVersion
  /\ disk \in Artifacts
  /\ codex \in 0..MaxEdits
  /\ pend \subseteq OutsideJournals
  /\ dirs \in [Runtimes -> {"none", "part", "full"}]
  /\ staging \in {"none", "part", "full"}
  /\ loaded \in Runtimes \cup {None}
  /\ ij \in IntegrationJournals
  /\ uj \in UpgradeJournals
  /\ wit \in Runtimes \cup {None}
  /\ cmd \in [pc: {"idle"} \cup IntegrationPcs \cup UpgradePcs, ctx: {"live", "done"},
              made: Runtimes \cup {None}, cand: 0..2, n: 0..6]
  /\ faults \in 0..MaxFaults

\* Whatever `current` or the LaunchAgent plist names is complete on disk, at
\* every step of both transactions and after every crash of either.
ReferencedRuntimeKept ==
  \A r \in {disk.current, disk.plist} \ {None} : dirs[r] = "full"

\* The rollback of a pending upgrade always has a complete runtime to go
\* back to, even when an integration ran or failed beside its journal.
PreviousRuntimeKept == uj.phase # "none" => dirs[uj.previous] = "full"

\* No runtime that is in use, or that a rollback needs, is removed or rewritten
\* (prepareRuntime, rollback, rollbackUpgrade).
RuntimesKept == ReferencedRuntimeKept /\ PreviousRuntimeKept

\* Release note 0.3.8-rc.8, item 4: when the upgrade journal goes, exactly one of the
\* previous or the verified new runtime is active, the new one with its
\* witness, and nothing the upgrade promised to keep was rewritten.
UpgradeResolvedWhole ==
  uj.phase # "none" /\ uj'.phase = "none" =>
    /\ disk.current = disk.plist /\ loaded = disk.current
    /\ \/ disk.current = uj.previous
       \/ disk.current = uj.new /\ wit = uj.new
    /\ [RecordedInvariants EXCEPT !.codex = 0] = [uj.inv EXCEPT !.codex = 0]

\* When the integration journal goes, either all six artifacts are the ones
\* it found, or the integration is complete and running.
IntegrationResolvedWhole ==
  ij.stage # "none" /\ ij'.stage = "none" =>
    \/ disk = ij.files
    \/ Presence = 6 /\ Ready /\ disk.current = disk.plist /\ loaded = disk.current

\* No transaction on the runtime is resolved half, by the command that began it
\* or by a recovery, also when the two transactions run one inside the other.
ResolvedWhole == [][UpgradeResolvedWhole /\ IntegrationResolvedWhole]_vars

\* A recovery that is run ends and takes its journal away, unless what it
\* must compare with was changed under it, or it must restart a service
\* whose plist was already gone.
RecoverySettles ==
  /\ ij.stage # "none" ~>
       \/ ij.stage = "none"
       \/ ij.active /\ ij.files.plist = None
  /\ uj.phase # "none" ~>
       \/ uj.phase = "none"
       \/ ~InvariantsHold
       \/ uj.phase = "verified" /\ disk.current # uj.new
       \/ ij.active /\ ij.files.plist = None

\* integration_test.go:278, "failed integration left LaunchAgent active": an integration
\* that rolled back what was not running before leaves nothing running.
FailedIntegrationInactive ==
  [][cmd.pc = "ir_journal" /\ ij'.stage = "none" /\ ~ij.active => loaded = None]_vars

=============================================================================
