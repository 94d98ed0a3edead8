------------------------ MODULE RuntimeInstallProofs ------------------------
(***************************************************************************)
(* What the integration and the upgrade of a relay runtime keep, for any   *)
(* number of bundle versions, generations, edits and faults.               *)
(*                                                                         *)
(* A directory is only ever emptied by a rollback, and the rollback names  *)
(* one it created.  So the argument is about names: what an integration    *)
(* created is in neither its snapshot nor the upgrade journal beside it    *)
(* (Owned), what an upgrade created is not what it came from (Pending),    *)
(* and when either directory is removed the artifacts have already been    *)
(* restored to something else (the two Progress predicates, which say how  *)
(* far a command has come at each of its steps).                           *)
(***************************************************************************)
EXTENDS RuntimeInstall, TLAPS

Complete(r) == r # None => dirs[r] = "full"

\* What an integration created is in none of the places a rollback restores.
Owned(m) ==
  m # None => /\ m \notin {ij.files.current, ij.files.plist}
              /\ uj.phase # "none" => m # uj.previous

\* Each command works on its own journal, and the upgrade only without the
\* other one.
Journaled ==
  /\ cmd.pc \in IntegrationPcs => ij.stage # "none" /\ Owned(cmd.made)
  /\ cmd.pc \in UpgradePcs => ij.stage = "none"
  /\ cmd.pc \in UpgradePcs =>
       (uj.phase = "none" <=> cmd.pc \in {"u_stage", "u_copy", "u_journal"})

\* What the two journals name, wherever a crash left them.
Pending ==
  /\ ij.stage # "none" =>
       Owned(ij.made) /\ Complete(ij.files.current) /\ Complete(ij.files.plist)
  /\ uj.phase # "none" => /\ uj.previous \in Runtimes /\ uj.new \in Runtimes
                          /\ uj.previous # uj.new
                          /\ dirs[uj.previous] = "full"

\* The steps of an integration from a given one on.
FromSwitch == {"i_switch", "i_runtime", "i_config", "i_seed", "i_state", "i_plist"}
FromRuntime == {"i_runtime", "i_config", "i_seed", "i_state", "i_plist", "i_bootout",
                "i_bootstrap", "i_started", "i_health", "i_binding", "i_finish"}
FromSeed == FromRuntime \ {"i_runtime", "i_config"}
FromState == FromSeed \ {"i_seed"}
FromBootout == {"i_bootout", "i_bootstrap", "i_started", "i_health", "i_binding",
                "i_finish"}
FromStarted == {"i_started", "i_health", "i_binding", "i_finish"}

IntegrationProgress ==
  /\ cmd.pc \in {"i_mkdir", "i_copy", "i_switch"} => disk = ij.files
  /\ cmd.pc \in {"i_mkdir", "i_copy", "i_switch", "i_runtime", "i_config"} => cmd.cand # 0
  /\ cmd.pc \in FromSwitch => dirs[IntegrationTarget] = "full"
  /\ cmd.pc \in FromRuntime => disk.current = IntegrationTarget
  /\ cmd.pc \in FromSeed => disk.config # 0
  /\ cmd.pc \in FromState => disk.gen # 0
  /\ cmd.pc \in FromBootout => disk.plist = IntegrationTarget
  /\ cmd.pc \in FromStarted => loaded = IntegrationTarget
  /\ cmd.pc = "i_finish" => disk.binding

IntegrationRollback ==
  /\ cmd.pc = "ir_files" =>
       /\ cmd.n \in 1..6
       /\ cmd.n > 2 => disk.current = ij.files.current
       /\ cmd.n > 3 => disk.binding = ij.files.binding
       /\ cmd.n > 4 => disk.plist = ij.files.plist
       /\ cmd.n > 5 => disk.gen = ij.files.gen /\ disk.phase = ij.files.phase
  /\ cmd.pc \in {"ir_bootstrap", "ir_leaves", "ir_dir", "ir_journal"} => disk = ij.files

\* What the upgrade promised to keep is as its journal recorded it.
Kept == [RecordedInvariants EXCEPT !.codex = 0] = [uj.inv EXCEPT !.codex = 0]

UpgradeProgress ==
  /\ cmd.pc \in {"u_stage", "u_copy", "u_journal"} =>
       disk.current \in Runtimes /\ disk.current.ver # app
  /\ cmd.pc = "u_journal" => staging = "full" \/ dirs[UpgradeTarget] = "full"
  /\ cmd.pc = "u_rename" => uj.created \/ dirs[uj.new] = "full"
  /\ cmd.pc \in {"u_staged", "u_current", "u_plist"} => dirs[uj.new] = "full"
  /\ cmd.pc \in {"u_plist", "u_switched", "u_restarting", "u_bootout", "u_bootstrap",
                 "u_verify", "u_verified", "u_witness", "u_finish"} =>
       disk.current = uj.new
  /\ cmd.pc \in {"u_switched", "u_restarting", "u_bootout", "u_bootstrap",
                 "u_verify", "u_verified", "u_witness", "u_finish"} =>
       disk.plist = uj.new
  /\ cmd.pc \in {"u_verified", "u_witness", "u_finish"} => loaded = uj.new /\ Kept
  /\ cmd.pc = "u_finish" => wit = uj.new

UpgradeRollback ==
  /\ cmd.pc = "ur_files" => cmd.n \in 1..3
  /\ cmd.pc = "ur_files" /\ cmd.n > 1 => disk.plist = uj.previous
  /\ cmd.pc \in {"ur_bootstrap", "ur_verify", "ur_staging", "ur_leaves", "ur_dir",
                 "ur_journal"} =>
       disk.current = uj.previous /\ disk.plist = uj.previous
  /\ cmd.pc \in {"ur_staging", "ur_leaves", "ur_dir", "ur_journal"} =>
       loaded = uj.previous /\ Kept

InstallInv ==
  /\ Complete(disk.current) /\ Complete(disk.plist)
  /\ Journaled /\ Pending
  /\ IntegrationProgress /\ IntegrationRollback
  /\ UpgradeProgress /\ UpgradeRollback

\* `current` and the plist name the same runtime whenever no journal is pending, so
\* what a rollback of an upgrade restores is the runtime it came from.
Agreed ==
  /\ uj.phase # "none" => uj.files.current = uj.previous /\ uj.files.plist = uj.previous
  /\ uj.phase = "none" /\ ij.stage # "none" => ij.files.current = ij.files.plist
  /\ uj.phase = "none" /\ ij.stage = "none" => disk.current = disk.plist

-----------------------------------------------------------------------------
(* Every step, one action at a time.                                       *)

\* The commands of TypeOK.
Commands ==
  [pc: {"idle"} \cup IntegrationPcs \cup UpgradePcs, ctx: {"live", "done"},
   made: Runtimes \cup {None}, cand: 0..2, n: 0..6]

\* A command that starts has no memory but its input.
LEMMA CommandStart ==
  ASSUME NEW p \in IntegrationPcs \cup UpgradePcs
  PROVE /\ \A c \in 0..2 : [Idle EXCEPT !.pc = p, !.cand = c] \in Commands
        /\ \A r \in Runtimes \cup {None} : [Idle EXCEPT !.pc = p, !.made = r] \in Commands
<1>1. Idle \in Commands
  BY DEF Commands, Idle
<1>2. ASSUME NEW c \in 0..2
      PROVE  [Idle EXCEPT !.pc = p, !.cand = c] \in Commands
  BY <1>1, Zenon DEF Commands
<1>3. ASSUME NEW r \in Runtimes \cup {None}
      PROVE  [Idle EXCEPT !.pc = p, !.made = r] \in Commands
  BY <1>1, Zenon DEF Commands
<1> QED BY <1>2, <1>3, Zenon

\* A step that is not one of an integration claims nothing of it.
LEMMA NoIntegration ==
  ASSUME cmd'.pc \notin IntegrationPcs
  PROVE IntegrationProgress' /\ IntegrationRollback'
BY DEF IntegrationProgress, IntegrationRollback, IntegrationPcs, FromSwitch, FromRuntime,
  FromSeed, FromState, FromBootout, FromStarted

\* A step that is not one of an upgrade claims nothing of it.
LEMMA NoUpgrade ==
  ASSUME cmd'.pc \notin UpgradePcs
  PROVE UpgradeProgress' /\ UpgradeRollback'
BY DEF UpgradeProgress, UpgradeRollback, UpgradePcs

\* IntegrationApply: the snapshot is what is on disk, and so is complete.
LEMMA IntegrationApplyKeeps ==
  ASSUME TypeOK, InstallInv, NEW c \in Candidates, IntegrationApply(c)
  PROVE TypeOK' /\ InstallInv'
<1> USE DEF TypeOK, InstallInv, IntegrationApply, Locked, Idle, ServiceActive
<1>1. TypeOK'
  <2>1. cmd' \in Commands
    <3>1. c \in 0..2 BY DEF Candidates
    <3>2. "i_mkdir" \in IntegrationPcs BY DEF IntegrationPcs
    <3> QED BY <3>1, <3>2, CommandStart, Zenon
  <2>2. ij' \in IntegrationJournals
    BY DEF IntegrationJournals
  <2> QED BY <2>1, <2>2, InstallBounds DEF Commands
<1>2. Complete(disk.current)' /\ Complete(disk.plist)'
  BY DEF Complete
<1>3. Journaled'
  BY DEF Journaled, Owned, IntegrationPcs, UpgradePcs
<1>4. Pending'
  BY DEF Pending, Owned, Complete, Journaled, IntegrationPcs, UpgradePcs
<1>5. IntegrationProgress' /\ IntegrationRollback'
  <2>1. c # 0 BY DEF Candidates
  <2> QED BY <2>1 DEF IntegrationProgress, IntegrationRollback, FromSwitch, FromRuntime,
                      FromSeed, FromState, FromBootout, FromStarted
<1>6. UpgradeProgress' /\ UpgradeRollback'
  BY NoUpgrade DEF UpgradePcs
<1> QED BY <1>1, <1>2, <1>3, <1>4, <1>5, <1>6

\* IMkdir: a directory that was missing is named by nothing.
LEMMA IMkdirKeeps ==
  ASSUME TypeOK, InstallInv, IMkdir
  PROVE TypeOK' /\ InstallInv'
<1> USE DEF TypeOK, InstallInv, IMkdir, IntegrationTarget
<1>1. TypeOK'
  <2>1. cmd' \in Commands
    BY Zenon DEF Commands, Runtimes, None, IntegrationPcs, UpgradePcs
  <2>2. dirs' \in [Runtimes -> {"none", "part", "full"}]
    BY InstallBounds DEF None, Runtimes
  <2> QED BY <2>1, <2>2, InstallBounds DEF Commands
<1>2. Complete(disk.current)' /\ Complete(disk.plist)'
  BY DEF Complete, Runtimes, None
<1>3. Journaled'
  BY DEF Journaled, Owned, Pending, Complete, IntegrationPcs, UpgradePcs,
     None, Runtimes
<1>4. Pending'
  BY DEF Pending, Owned, Complete, Journaled, IntegrationPcs, UpgradePcs
<1>5. IntegrationProgress' /\ IntegrationRollback'
  BY DEF IntegrationProgress, IntegrationRollback, FromSwitch, FromRuntime,
     FromSeed, FromState, FromBootout, FromStarted
<1>6. UpgradeProgress' /\ UpgradeRollback'
  BY NoUpgrade DEF UpgradePcs
<1> QED BY <1>1, <1>2, <1>3, <1>4, <1>5, <1>6

\* ICopy: copying only completes the target.
LEMMA ICopyKeeps ==
  ASSUME TypeOK, InstallInv, ICopy
  PROVE TypeOK' /\ InstallInv'
<1> USE DEF TypeOK, InstallInv, ICopy, At, Goto, IntegrationTarget
<1>1. TypeOK'
  <2>1. cmd' \in Commands
    BY DEF Commands, Runtimes, None, IntegrationPcs, UpgradePcs
  <2>2. dirs' \in [Runtimes -> {"none", "part", "full"}]
    BY InstallBounds DEF None, Runtimes
  <2> QED BY <2>1, <2>2, InstallBounds DEF Commands
<1>2. Complete(disk.current)' /\ Complete(disk.plist)'
  BY DEF Complete, Runtimes, None
<1>3. Journaled'
  BY DEF Journaled, Owned, IntegrationPcs, UpgradePcs
<1>4. Pending'
  BY DEF Pending, Owned, Complete, Journaled, IntegrationPcs, UpgradePcs
<1>5. IntegrationProgress' /\ IntegrationRollback'
  BY Zenon DEF Runtimes, None, Artifacts, IntegrationProgress,
     IntegrationRollback, FromSwitch, FromRuntime, FromSeed, FromState,
     FromBootout, FromStarted
<1>6. UpgradeProgress' /\ UpgradeRollback'
  BY NoUpgrade DEF UpgradePcs
<1> QED BY <1>1, <1>2, <1>3, <1>4, <1>5, <1>6

\* ISwitch: `current` is linked to a target that is complete.
LEMMA ISwitchKeeps ==
  ASSUME TypeOK, InstallInv, ISwitch
  PROVE TypeOK' /\ InstallInv'
<1> USE DEF TypeOK, InstallInv, ISwitch, At, Goto, IntegrationTarget
<1>1. TypeOK'
  <2>1. cmd' \in Commands
    BY DEF Commands, Runtimes, None, IntegrationPcs, UpgradePcs
  <2>2. disk' \in Artifacts
    BY InstallBounds DEF Artifacts, Phases, Runtimes, None
  <2> QED BY <2>1, <2>2, InstallBounds DEF Commands
<1>2. Complete(disk.current)' /\ Complete(disk.plist)'
  BY DEF Complete, Artifacts, IntegrationProgress, UpgradeProgress,
     FromSwitch, Pending, Journaled, UpgradePcs
<1>3. Journaled'
  BY DEF Journaled, Owned, IntegrationPcs, UpgradePcs
<1>4. Pending'
  BY DEF Pending, Owned, Complete
<1>5. IntegrationProgress' /\ IntegrationRollback'
  BY DEF IntegrationProgress, IntegrationRollback, FromSwitch, FromRuntime,
     FromSeed, FromState, FromBootout, FromStarted
<1>6. UpgradeProgress' /\ UpgradeRollback'
  BY NoUpgrade DEF UpgradePcs
<1> QED BY <1>1, <1>2, <1>3, <1>4, <1>5, <1>6

\* PrepareRuntimeFails: what prepareRuntime created is in no artifact yet.
LEMMA PrepareRuntimeFailsKeeps ==
  ASSUME TypeOK, InstallInv, PrepareRuntimeFails
  PROVE TypeOK' /\ InstallInv'
<1> USE DEF TypeOK, InstallInv, PrepareRuntimeFails, Faulty,
           IntegrationTarget
<1>1. TypeOK'
  <2>1. cmd' \in Commands
    BY Zenon DEF Commands, Runtimes, None, IntegrationPcs, UpgradePcs
  <2>2. dirs' \in [Runtimes -> {"none", "part", "full"}]
    BY InstallBounds DEF None, Runtimes
  <2> QED BY <2>1, <2>2, InstallBounds DEF Commands
<1>2. Complete(disk.current)' /\ Complete(disk.plist)'
  BY DEF Complete, Runtimes, None, Owned, Journaled, IntegrationPcs,
     IntegrationProgress, IntegrationRollback, IntegrationJournals
<1>3. Journaled'
  BY DEF Journaled, Owned, IntegrationPcs, UpgradePcs
<1>4. Pending'
  BY DEF Pending, Owned, Complete, Journaled, IntegrationPcs, UpgradePcs
<1>5. IntegrationProgress' /\ IntegrationRollback'
  BY DEF IntegrationProgress, IntegrationRollback, FromSwitch, FromRuntime,
     FromSeed, FromState, FromBootout, FromStarted
<1>6. UpgradeProgress' /\ UpgradeRollback'
  BY NoUpgrade DEF UpgradePcs
<1> QED BY <1>1, <1>2, <1>3, <1>4, <1>5, <1>6

\* WriteJournal: the journal learns a name that nothing restores.
LEMMA WriteJournalKeeps ==
  ASSUME TypeOK, InstallInv, WriteJournal
  PROVE TypeOK' /\ InstallInv'
<1>1. /\ ij' \in IntegrationJournals
      /\ ij'.stage # "none" /\ ij'.made = cmd.made /\ ij'.files = ij.files
  <2>1. PICK s \in {"runtime_prepared", "state_prepared", "service_started"} :
          ij' = [ij EXCEPT !.stage = s, !.made = cmd.made]
    BY DEF WriteJournal
  <2> QED BY <2>1, Zenon DEF TypeOK, IntegrationJournals
<1>2. /\ <<cmd.pc, cmd'.pc>> \in {<<"i_runtime", "i_config">>, <<"i_state", "i_plist">>,
                                  <<"i_started", "i_health">>}
      /\ cmd' = [cmd EXCEPT !.pc = cmd'.pc]
      /\ UNCHANGED <<app, disk, codex, pend, dirs, staging, loaded, uj, wit, faults>>
  BY DEF TypeOK, WriteJournal, At, Goto
<1>3. TypeOK'
  BY <1>1, <1>2 DEF TypeOK, IntegrationPcs
<1>4. Complete(disk.current)' /\ Complete(disk.plist)'
  BY <1>2 DEF InstallInv, Complete
<1>5. Owned(cmd.made) /\ ij.stage # "none"
  BY <1>2 DEF InstallInv, Journaled, IntegrationPcs
<1>6. Owned(cmd.made)' /\ Owned(ij.made)'
  <2>1. cmd'.made = cmd.made
    BY <1>2 DEF TypeOK
  <2> QED BY <1>1, <1>2, <1>5, <2>1 DEF Owned
<1>7. Journaled'
  BY <1>1, <1>2, <1>6 DEF Journaled, IntegrationPcs, UpgradePcs
<1>8. Pending'
  BY <1>1, <1>2, <1>5, <1>6 DEF InstallInv, Pending, Complete
<1>9. IntegrationProgress' /\ IntegrationRollback'
  <2>1. IntegrationRollback'
    BY <1>2 DEF IntegrationRollback
  <2>2. cmd'.cand = cmd.cand
    BY <1>2 DEF TypeOK
  <2>3. IntegrationProgress'
    BY <1>2, <2>2 DEF InstallInv, IntegrationProgress, IntegrationTarget, FromSwitch,
      FromRuntime, FromSeed, FromState, FromBootout, FromStarted
  <2> QED BY <2>1, <2>3
<1>10. UpgradeProgress' /\ UpgradeRollback'
  BY <1>2 DEF UpgradeProgress, UpgradeRollback
<1> QED BY <1>3, <1>4, <1>7, <1>8, <1>9, <1>10 DEF InstallInv

\* WriteConfig: the configuration is written and no name changes.
LEMMA WriteConfigKeeps ==
  ASSUME TypeOK, InstallInv, WriteConfig
  PROVE TypeOK' /\ InstallInv'
<1> USE DEF TypeOK, InstallInv, WriteConfig, At, Goto, IntegrationTarget
<1>1. TypeOK'
  <2>1. cmd' \in Commands
    BY DEF Commands, Runtimes, None, IntegrationPcs, UpgradePcs
  <2>2. disk' \in Artifacts
    BY InstallBounds DEF Artifacts, Phases, Runtimes, None
  <2> QED BY <2>1, <2>2, InstallBounds DEF Commands
<1>2. Complete(disk.current)' /\ Complete(disk.plist)'
  BY DEF Complete, Artifacts, IntegrationProgress, UpgradeProgress,
     FromSwitch, Pending, Journaled, UpgradePcs
<1>3. Journaled'
  BY DEF Journaled, Owned, IntegrationPcs, UpgradePcs
<1>4. Pending'
  BY DEF Pending, Owned, Complete
<1>5. IntegrationProgress' /\ IntegrationRollback'
  BY DEF IntegrationProgress, IntegrationRollback, FromSwitch, FromRuntime,
     FromSeed, FromState, FromBootout, FromStarted
<1>6. UpgradeProgress' /\ UpgradeRollback'
  BY NoUpgrade DEF UpgradePcs
<1> QED BY <1>1, <1>2, <1>3, <1>4, <1>5, <1>6

\* SeedNativeParked: a routing state is there, or the rollback begins.
LEMMA SeedNativeParkedKeeps ==
  ASSUME TypeOK, InstallInv, SeedNativeParked
  PROVE TypeOK' /\ InstallInv'
<1>1. /\ cmd.pc = "i_seed" /\ cmd'.pc \in {"i_state", "ir_bootout"}
      /\ cmd' = [cmd EXCEPT !.pc = cmd'.pc]
      /\ UNCHANGED <<app, codex, pend, dirs, staging, loaded, ij, uj, wit, faults>>
  BY DEF TypeOK, SeedNativeParked, Goto
<1>4. Journaled'
  <2>1. cmd'.made = cmd.made
    BY <1>1 DEF TypeOK
  <2>2. ij.stage # "none" /\ Owned(cmd.made)
    BY <1>1 DEF InstallInv, Journaled, IntegrationPcs
  <2>3. Owned(cmd.made)'
    BY <1>1, <2>1, <2>2 DEF Owned
  <2> QED BY <1>1, <2>2, <2>3 DEF Journaled, IntegrationPcs, UpgradePcs
<1>2. CASE disk' = disk /\ (cmd'.pc = "i_state" => disk.gen # 0)
  <2>1. TypeOK'
    BY <1>1, <1>2 DEF TypeOK, IntegrationPcs
  <2>2. Complete(disk.current)' /\ Complete(disk.plist)' /\ Pending'
    BY <1>1, <1>2 DEF InstallInv, Complete, Pending, Owned
  <2>3. Journaled'
    BY <1>1, <1>4
  <2>4. IntegrationProgress' /\ IntegrationRollback'
    BY <1>1, <1>2 DEF InstallInv, IntegrationProgress, IntegrationRollback,
      IntegrationTarget, FromSwitch, FromRuntime, FromSeed, FromState, FromBootout,
      FromStarted
  <2>5. UpgradeProgress' /\ UpgradeRollback'
    BY <1>1 DEF UpgradeProgress, UpgradeRollback
  <2> QED BY <2>1, <2>2, <2>3, <2>4, <2>5 DEF InstallInv
<1>3. CASE /\ cmd'.pc = "i_state"
           /\ disk' = [disk EXCEPT !.gen = 1, !.phase = "native_active"]
  <2>1. /\ disk' \in Artifacts /\ disk'.gen # 0
        /\ disk'.current = disk.current /\ disk'.plist = disk.plist
        /\ disk'.config = disk.config
    <3>1. 1 \in 0..MaxGenerations /\ "native_active" \in Phases /\ disk \in Artifacts
      BY InstallBounds DEF TypeOK, Phases
    <3>2. disk' \in Artifacts
      BY <1>3, <3>1, Zenon DEF Artifacts
    <3> QED BY <1>3, <3>1, <3>2 DEF Artifacts
  <2>2. TypeOK'
    BY <1>1, <2>1 DEF TypeOK, IntegrationPcs
  <2>3. Complete(disk.current)' /\ Complete(disk.plist)' /\ Pending'
    BY <1>1, <2>1 DEF InstallInv, Complete, Pending, Owned
  <2>4. Journaled'
    BY <1>1, <1>4
  <2>5. IntegrationProgress' /\ IntegrationRollback'
    BY <1>1, <1>3, <2>1 DEF InstallInv, IntegrationProgress, IntegrationRollback,
      IntegrationTarget, FromSwitch, FromRuntime, FromSeed, FromState, FromBootout,
      FromStarted
  <2>6. UpgradeProgress' /\ UpgradeRollback'
    BY <1>1 DEF UpgradeProgress, UpgradeRollback
  <2> QED BY <2>2, <2>3, <2>4, <2>5, <2>6 DEF InstallInv
<1> QED BY <1>2, <1>3 DEF TypeOK, SeedNativeParked, Goto

\* InstallService: the plist names a complete target, and the service is its.
LEMMA InstallServiceKeeps ==
  ASSUME TypeOK, InstallInv, InstallService
  PROVE TypeOK' /\ InstallInv'
<1> USE DEF TypeOK, InstallInv, InstallService, At, Goto, Bootout, Bootstrap,
           Faulty, IntegrationTarget
<1>1. TypeOK'
  <2>1. cmd' \in Commands
    BY DEF Commands, Runtimes, None, IntegrationPcs, UpgradePcs
  <2>2. disk' \in Artifacts
    BY InstallBounds DEF Artifacts, Phases, Runtimes, None
  <2>3. loaded' \in Runtimes \cup {None}
    BY InstallBounds DEF Artifacts
  <2> QED BY <2>1, <2>2, <2>3, InstallBounds DEF Commands
<1>2. Complete(disk.current)' /\ Complete(disk.plist)'
  BY DEF Complete, Artifacts, IntegrationProgress, UpgradeProgress,
     FromSwitch, Pending, Journaled, UpgradePcs
<1>3. Journaled'
  BY DEF Journaled, Owned, IntegrationPcs, UpgradePcs
<1>4. Pending'
  BY DEF Pending, Owned, Complete
<1>5. IntegrationProgress' /\ IntegrationRollback'
  BY DEF IntegrationTarget, IntegrationProgress, IntegrationRollback,
     FromSwitch, FromRuntime, FromSeed, FromState, FromBootout, FromStarted,
     Artifacts
<1>6. UpgradeProgress' /\ UpgradeRollback'
  BY NoUpgrade DEF UpgradePcs
<1> QED BY <1>1, <1>2, <1>3, <1>4, <1>5, <1>6

\* VerifyHealth: only the step changes.
LEMMA VerifyHealthKeeps ==
  ASSUME TypeOK, InstallInv, VerifyHealth
  PROVE TypeOK' /\ InstallInv'
<1> USE DEF TypeOK, InstallInv, VerifyHealth, Goto, ServiceActive,
           IntegrationTarget
<1>1. TypeOK'
  <2>1. cmd' \in Commands
    BY DEF Commands, Runtimes, None, IntegrationPcs, UpgradePcs
  <2> QED BY <2>1, InstallBounds DEF Commands
<1>2. Complete(disk.current)' /\ Complete(disk.plist)'
  BY DEF Complete
<1>3. Journaled'
  BY DEF Journaled, Owned, IntegrationPcs, UpgradePcs
<1>4. Pending'
  BY DEF Pending, Owned, Complete
<1>5. IntegrationProgress' /\ IntegrationRollback'
  BY DEF IntegrationProgress, IntegrationRollback, FromSwitch, FromRuntime,
     FromSeed, FromState, FromBootout, FromStarted
<1>6. UpgradeProgress' /\ UpgradeRollback'
  BY NoUpgrade DEF UpgradePcs
<1> QED BY <1>1, <1>2, <1>3, <1>4, <1>5, <1>6

\* WriteBinding: the binding is written and no name changes.
LEMMA WriteBindingKeeps ==
  ASSUME TypeOK, InstallInv, WriteBinding
  PROVE TypeOK' /\ InstallInv'
<1> USE DEF TypeOK, InstallInv, WriteBinding, At, Goto, IntegrationTarget
<1>1. TypeOK'
  <2>1. cmd' \in Commands
    BY DEF Commands, Runtimes, None, IntegrationPcs, UpgradePcs
  <2>2. disk' \in Artifacts
    BY InstallBounds, Zenon DEF Artifacts, Phases, Runtimes, None
  <2> QED BY <2>1, <2>2, InstallBounds DEF Commands
<1>2. Complete(disk.current)' /\ Complete(disk.plist)'
  BY DEF Complete, Artifacts, IntegrationProgress, UpgradeProgress,
     FromSwitch, Pending, Journaled, UpgradePcs
<1>3. Journaled'
  BY DEF Journaled, Owned, IntegrationPcs, UpgradePcs
<1>4. Pending'
  BY DEF Pending, Owned, Complete
<1>5. IntegrationProgress' /\ IntegrationRollback'
  BY DEF IntegrationProgress, IntegrationRollback, FromSwitch, FromRuntime,
     FromSeed, FromState, FromBootout, FromStarted
<1>6. UpgradeProgress' /\ UpgradeRollback'
  BY NoUpgrade DEF UpgradePcs
<1> QED BY <1>1, <1>2, <1>3, <1>4, <1>5, <1>6

\* FinishIntegration: the journal goes and nothing else.
LEMMA FinishIntegrationKeeps ==
  ASSUME TypeOK, InstallInv, FinishIntegration
  PROVE TypeOK' /\ InstallInv'
<1> USE DEF TypeOK, InstallInv, FinishIntegration, Exit, Idle
<1>1. TypeOK'
  <2>1. cmd' \in Commands
    BY DEF Commands, Runtimes, None, IntegrationPcs, UpgradePcs
  <2>2. ij' \in IntegrationJournals
    BY InstallBounds DEF IntegrationJournals, NoIntegrationJournal,
       NoArtifacts, Artifacts, Phases, Runtimes, None
  <2> QED BY <2>1, <2>2, InstallBounds DEF Commands
<1>2. Complete(disk.current)' /\ Complete(disk.plist)'
  BY DEF Complete
<1>3. Journaled'
  BY DEF Journaled, IntegrationPcs, UpgradePcs
<1>4. Pending'
  BY DEF Runtimes, None, Artifacts, IntegrationJournals, UpgradeJournals,
     NoIntegrationJournal, NoUpgradeJournal, Complete, Owned, Pending,
     Journaled, IntegrationPcs, UpgradePcs, UpgradeProgress, UpgradeRollback
<1>5. IntegrationProgress' /\ IntegrationRollback'
  BY NoIntegration DEF IntegrationPcs
<1>6. UpgradeProgress' /\ UpgradeRollback'
  BY NoUpgrade DEF UpgradePcs
<1> QED BY <1>1, <1>2, <1>3, <1>4, <1>5, <1>6

\* IntegrationFails: only the step changes.
LEMMA IntegrationFailsKeeps ==
  ASSUME TypeOK, InstallInv, IntegrationFails
  PROVE TypeOK' /\ InstallInv'
<1> USE DEF TypeOK, InstallInv, IntegrationFails, Faulty, Goto
<1>1. TypeOK'
  <2>1. cmd' \in Commands
    BY DEF Commands, Runtimes, None, IntegrationPcs, UpgradePcs
  <2> QED BY <2>1, InstallBounds DEF Commands
<1>2. Complete(disk.current)' /\ Complete(disk.plist)'
  BY DEF Complete
<1>3. Journaled'
  BY DEF Journaled, Owned, IntegrationPcs, UpgradePcs
<1>4. Pending'
  BY DEF Pending, Owned, Complete
<1>5. IntegrationProgress' /\ IntegrationRollback'
  BY DEF IntegrationProgress, IntegrationRollback, FromSwitch, FromRuntime,
     FromSeed, FromState, FromBootout, FromStarted
<1>6. UpgradeProgress' /\ UpgradeRollback'
  BY NoUpgrade DEF UpgradePcs
<1> QED BY <1>1, <1>2, <1>3, <1>4, <1>5, <1>6

\* RecoverIntegration: the rollback removes what the journal names.
LEMMA RecoverIntegrationKeeps ==
  ASSUME TypeOK, InstallInv, RecoverIntegration
  PROVE TypeOK' /\ InstallInv'
<1> USE DEF TypeOK, InstallInv, RecoverIntegration, Locked, Idle
<1>1. TypeOK'
  <2>1. cmd' \in Commands
    <3>1. "ir_bootout" \in IntegrationPcs BY DEF IntegrationPcs
    <3>2. ij.made \in Runtimes \cup {None} BY DEF IntegrationJournals
    <3> QED BY <3>1, <3>2, CommandStart, Zenon
  <2> QED BY <2>1, InstallBounds DEF Commands
<1>2. Complete(disk.current)' /\ Complete(disk.plist)'
  BY DEF Complete
<1>3. Journaled'
  BY DEF Journaled, Owned, Pending, Complete, IntegrationPcs, UpgradePcs,
     None, Runtimes
<1>4. Pending'
  BY DEF Pending, Owned, Complete
<1>5. IntegrationProgress' /\ IntegrationRollback'
  BY DEF IntegrationProgress, IntegrationRollback, FromSwitch, FromRuntime,
     FromSeed, FromState, FromBootout, FromStarted
<1>6. UpgradeProgress' /\ UpgradeRollback'
  BY NoUpgrade DEF UpgradePcs
<1> QED BY <1>1, <1>2, <1>3, <1>4, <1>5, <1>6

\* RollbackBootout: only the step and the service change.
LEMMA RollbackBootoutKeeps ==
  ASSUME TypeOK, InstallInv, RollbackBootout
  PROVE TypeOK' /\ InstallInv'
<1> USE DEF TypeOK, InstallInv, RollbackBootout, Bootout, Faulty
<1>1. TypeOK'
  <2>1. cmd' \in Commands
    <3>1. "ir_files" \in IntegrationPcs BY DEF IntegrationPcs
    <3>2. cmd \in Commands /\ 1 \in 0..6 BY DEF Commands
    <3> QED BY <3>1, <3>2, Zenon DEF Commands
  <2>2. loaded' \in Runtimes \cup {None}
    OBVIOUS
  <2> QED BY <2>1, <2>2, InstallBounds DEF Commands
<1>2. Complete(disk.current)' /\ Complete(disk.plist)'
  BY DEF Complete
<1>3. Journaled'
  BY DEF Journaled, Owned, IntegrationPcs, UpgradePcs
<1>4. Pending'
  BY DEF Pending, Owned, Complete
<1>5. IntegrationProgress' /\ IntegrationRollback'
  BY DEF IntegrationProgress, IntegrationRollback, FromSwitch, FromRuntime,
     FromSeed, FromState, FromBootout, FromStarted
<1>6. UpgradeProgress' /\ UpgradeRollback'
  BY NoUpgrade DEF UpgradePcs
<1> QED BY <1>1, <1>2, <1>3, <1>4, <1>5, <1>6

\* The order of the two rollbacks.
LEMMA RestoreOrder ==
  ASSUME NEW s
  PROVE /\ Restored(IntegrationRestores[1], s) = [disk EXCEPT !.current = None]
        /\ Restored(IntegrationRestores[2], s) = [disk EXCEPT !.current = s.current]
        /\ Restored(IntegrationRestores[3], s) = [disk EXCEPT !.binding = s.binding]
        /\ Restored(IntegrationRestores[4], s) = [disk EXCEPT !.plist = s.plist]
        /\ Restored(IntegrationRestores[5], s) =
             [disk EXCEPT !.gen = s.gen, !.phase = s.phase]
        /\ Restored(IntegrationRestores[6], s) = [disk EXCEPT !.config = s.config]
        /\ Restored(UpgradeRestores[1], s) = [disk EXCEPT !.plist = s.plist]
        /\ Restored(UpgradeRestores[2], s) = [disk EXCEPT !.current = None]
        /\ Restored(UpgradeRestores[3], s) = [disk EXCEPT !.current = s.current]
BY DEF Restored, IntegrationRestores, UpgradeRestores

\* The number of files of each.
LEMMA RestoreCount == Len(IntegrationRestores) = 6 /\ Len(UpgradeRestores) = 3
BY DEF IntegrationRestores, UpgradeRestores

\* RollbackFiles: each file restored is the one of the snapshot.
LEMMA RollbackFilesKeeps ==
  ASSUME TypeOK, InstallInv, RollbackFiles
  PROVE TypeOK' /\ InstallInv'
<1>1. /\ cmd.pc = "ir_files" /\ cmd.n \in 1..6 /\ ij.files \in Artifacts
      /\ ij.stage # "none" /\ Complete(ij.files.current) /\ Complete(ij.files.plist)
  BY DEF TypeOK, InstallInv, RollbackFiles, IntegrationRollback, IntegrationJournals,
         Journaled, Pending, IntegrationPcs
<1>2. /\ disk' \in Artifacts
      /\ disk'.current \in {None, disk.current, ij.files.current}
      /\ disk'.plist \in {disk.plist, ij.files.plist}
      /\ cmd.n > 1 => disk'.current = ij.files.current
      /\ cmd.n > 2 => disk'.binding = ij.files.binding
      /\ cmd.n > 3 => disk'.plist = ij.files.plist
      /\ cmd.n > 4 => disk'.gen = ij.files.gen /\ disk'.phase = ij.files.phase
      /\ cmd.n > 5 => disk'.config = ij.files.config
  <2> DEFINE f == ij.files
  <2>1. disk \in Artifacts /\ f \in Artifacts
    BY <1>1 DEF TypeOK
  <2>2. /\ cmd.n > 2 => disk.current = f.current
        /\ cmd.n > 3 => disk.binding = f.binding
        /\ cmd.n > 4 => disk.plist = f.plist
        /\ cmd.n > 5 => disk.gen = f.gen /\ disk.phase = f.phase
    BY <1>1 DEF InstallInv, IntegrationRollback
  <2>3. disk' = Restored(IntegrationRestores[cmd.n], f)
    BY DEF RollbackFiles
  <2> HIDE DEF f
  <2>4. CASE cmd.n = 1
    <3>1. disk' = [disk EXCEPT !.current = None]
      BY <2>3, <2>4, RestoreOrder, Zenon
    <3> QED BY <2>1, <2>2, <2>4, <3>1 DEF Artifacts, f
  <2>5. CASE cmd.n = 2
    <3>1. disk' = [disk EXCEPT !.current = f.current]
      BY <2>3, <2>5, RestoreOrder, Zenon
    <3> QED BY <2>1, <2>2, <2>5, <3>1 DEF Artifacts, f
  <2>6. CASE cmd.n = 3
    <3>1. disk' = [disk EXCEPT !.binding = f.binding]
      BY <2>3, <2>6, RestoreOrder, Zenon
    <3> QED BY <2>1, <2>2, <2>6, <3>1 DEF Artifacts, f
  <2>7. CASE cmd.n = 4
    <3>1. disk' = [disk EXCEPT !.plist = f.plist]
      BY <2>3, <2>7, RestoreOrder, Zenon
    <3> QED BY <2>1, <2>2, <2>7, <3>1 DEF Artifacts, f
  <2>8. CASE cmd.n = 5
    <3>1. disk' = [disk EXCEPT !.gen = f.gen, !.phase = f.phase]
      BY <2>3, <2>8, RestoreOrder, Zenon
    <3>2. disk' \in Artifacts
      BY <2>1, <3>1, Zenon DEF Artifacts
    <3>3. /\ disk'.gen = f.gen /\ disk'.phase = f.phase /\ disk'.binding = disk.binding
          /\ disk'.current = disk.current /\ disk'.plist = disk.plist
      BY <2>1, <3>1 DEF Artifacts
    <3> QED BY <2>2, <2>8, <3>2, <3>3 DEF f
  <2>9. CASE cmd.n = 6
    <3>1. disk' = [disk EXCEPT !.config = f.config]
      BY <2>3, <2>9, RestoreOrder, Zenon
    <3> QED BY <2>1, <2>2, <2>9, <3>1 DEF Artifacts, f
  <2> QED BY <1>1, <2>4, <2>5, <2>6, <2>7, <2>8, <2>9
<1>3. /\ cmd' \in Commands /\ cmd'.made = cmd.made
      /\ cmd.n < 6 => cmd'.pc = "ir_files" /\ cmd'.n = cmd.n + 1
      /\ cmd.n = 6 => cmd'.pc \in {"ir_bootstrap", "ir_leaves"}
  <2>1. {"ir_files", "ir_bootstrap", "ir_leaves"} \subseteq IntegrationPcs
    BY DEF IntegrationPcs
  <2>2. cmd \in Commands
    BY DEF TypeOK, Commands
  <2>3. CASE cmd.n < 6
    <3>1. cmd' = [cmd EXCEPT !.n = cmd.n + 1] /\ cmd.n + 1 \in 0..6
      BY <1>1, <2>3, RestoreCount DEF RollbackFiles
    <3> QED BY <1>1, <2>2, <2>3, <3>1 DEF Commands
  <2>4. CASE cmd.n = 6
    <3>1. cmd' = [cmd EXCEPT !.pc = IF ij.active THEN "ir_bootstrap" ELSE "ir_leaves",
                             !.n = 0]
      BY <2>4, RestoreCount DEF RollbackFiles
    <3>2. PICK p \in {"ir_bootstrap", "ir_leaves"} : cmd' = [cmd EXCEPT !.pc = p, !.n = 0]
      <4>1. CASE ij.active
        BY <3>1, <4>1
      <4>2. CASE ~ij.active
        BY <3>1, <4>2, Zenon
      <4> QED BY <4>1, <4>2
    <3>3. p \in IntegrationPcs /\ 0 \in 0..6
      BY <2>1
    <3>4. cmd' \in Commands /\ cmd'.made = cmd.made /\ cmd'.pc = p
      BY <2>2, <3>2, <3>3, Zenon DEF Commands
    <3> QED BY <2>4, <3>4
  <2> QED BY <1>1, <2>3, <2>4
<1>4. UNCHANGED <<app, codex, pend, dirs, staging, loaded, ij, uj, wit, faults>>
  BY DEF RollbackFiles
<1>5. TypeOK'
  BY <1>2, <1>3, <1>4 DEF TypeOK, Commands
<1>6. Complete(disk.current)' /\ Complete(disk.plist)'
  BY <1>1, <1>2, <1>4 DEF InstallInv, Complete
<1>7. cmd'.pc \in {"ir_files", "ir_bootstrap", "ir_leaves"}
  BY <1>1, <1>3
<1>8. Journaled'
  BY <1>1, <1>3, <1>4, <1>7 DEF InstallInv, Journaled, Owned, IntegrationPcs, UpgradePcs
<1>9. Pending'
  BY <1>4 DEF InstallInv, Pending, Owned, Complete
<1>10. IntegrationProgress'
  BY <1>7 DEF IntegrationProgress, FromSwitch, FromRuntime, FromSeed, FromState,
              FromBootout, FromStarted
<1>11. IntegrationRollback'
  <2>1. CASE cmd.n < 6
    BY <1>1, <1>2, <1>3, <1>4, <2>1 DEF IntegrationRollback
  <2>2. CASE cmd.n = 6
    <3>1. disk' = ij.files
      BY <1>1, <1>2, <2>2 DEF Artifacts
    <3> QED BY <1>3, <1>4, <2>2, <3>1 DEF IntegrationRollback
  <2> QED BY <1>1, <2>1, <2>2
<1>12. UpgradeProgress' /\ UpgradeRollback'
  BY <1>7 DEF UpgradeProgress, UpgradeRollback
<1> QED BY <1>5, <1>6, <1>8, <1>9, <1>10, <1>11, <1>12 DEF InstallInv

\* RollbackBootstrap: only the step and the service change.
LEMMA RollbackBootstrapKeeps ==
  ASSUME TypeOK, InstallInv, RollbackBootstrap
  PROVE TypeOK' /\ InstallInv'
<1> USE DEF TypeOK, InstallInv, RollbackBootstrap, Bootstrap, Goto, Faulty
<1>1. TypeOK'
  <2>1. cmd' \in Commands
    BY DEF Commands, Runtimes, None, IntegrationPcs, UpgradePcs
  <2>2. loaded' \in Runtimes \cup {None}
    BY InstallBounds DEF Artifacts
  <2> QED BY <2>1, <2>2, InstallBounds DEF Commands
<1>2. Complete(disk.current)' /\ Complete(disk.plist)'
  BY DEF Complete
<1>3. Journaled'
  BY DEF Journaled, Owned, IntegrationPcs, UpgradePcs
<1>4. Pending'
  BY DEF Pending, Owned, Complete
<1>5. IntegrationProgress' /\ IntegrationRollback'
  BY DEF IntegrationProgress, IntegrationRollback, FromSwitch, FromRuntime,
     FromSeed, FromState, FromBootout, FromStarted
<1>6. UpgradeProgress' /\ UpgradeRollback'
  BY NoUpgrade DEF UpgradePcs
<1> QED BY <1>1, <1>2, <1>3, <1>4, <1>5, <1>6

\* RollbackDirectory: the artifacts are restored, so nothing names the directory,
\* whatever of it is left.
LEMMA RollbackDirectoryKeeps ==
  ASSUME TypeOK, InstallInv, RollbackDirectory
  PROVE TypeOK' /\ InstallInv'
<1>1. /\ cmd.pc \in {"ir_leaves", "ir_dir"} /\ cmd'.pc \in {"ir_dir", "ir_journal"}
      /\ cmd' = [cmd EXCEPT !.pc = cmd'.pc]
      /\ UNCHANGED <<app, disk, codex, pend, staging, loaded, ij, uj, wit>>
  BY DEF RollbackDirectory, At, Goto, TypeOK
<1>2. faults' \in 0..MaxFaults
  <2>1. UNCHANGED faults \/ Faulty
    BY DEF RollbackDirectory
  <2> QED
    BY <2>1, InstallBounds DEF TypeOK, Faulty
<1>3. \/ dirs' = dirs
      \/ \E v \in {"none", "part"} : dirs' = [dirs EXCEPT ![cmd.made] = v]
  BY Zenon DEF RollbackDirectory
<1>4. ij.stage # "none" /\ Owned(cmd.made) /\ disk = ij.files
  BY <1>1 DEF InstallInv, Journaled, IntegrationPcs, IntegrationRollback
<1>5. /\ dirs' \in [Runtimes -> {"none", "part", "full"}]
      /\ \A r \in Runtimes : r # cmd.made => dirs'[r] = dirs[r]
  BY <1>3 DEF TypeOK
<1>6. TypeOK'
  BY <1>1, <1>2, <1>5 DEF TypeOK, IntegrationPcs
<1>7. /\ disk.current \in Runtimes \cup {None} /\ disk.plist \in Runtimes \cup {None}
      /\ disk.current # None => disk.current # cmd.made
      /\ disk.plist # None => disk.plist # cmd.made
  BY <1>4 DEF TypeOK, Artifacts, Owned
<1>8. Complete(disk.current)' /\ Complete(disk.plist)'
  BY <1>1, <1>5, <1>7 DEF InstallInv, Complete
<1>9. Journaled'
  <2>1. cmd'.made = cmd.made /\ cmd'.pc \in IntegrationPcs /\ cmd'.pc \notin UpgradePcs
    BY <1>1 DEF TypeOK, IntegrationPcs, UpgradePcs
  <2>2. ij'.stage # "none" /\ Owned(cmd.made)'
    BY <1>1, <1>4, <2>1 DEF Owned
  <2> QED
    BY <2>1, <2>2, Zenon DEF Journaled
<1>10. Pending'
  <2>1. Owned(ij.made)'
    BY <1>1, <1>4 DEF InstallInv, Pending, Owned
  <2>2. Complete(ij.files.current)' /\ Complete(ij.files.plist)'
    BY <1>1, <1>4, <1>8
  <2>3. uj.phase # "none" => uj.previous # cmd.made
    BY <1>4, <1>1 DEF Owned, InstallInv, Pending, None, Runtimes
  <2> QED
    BY <1>1, <1>5, <2>1, <2>2, <2>3 DEF InstallInv, Pending
<1>11. IntegrationProgress' /\ IntegrationRollback'
  BY <1>1, <1>4 DEF IntegrationProgress, IntegrationRollback, FromSwitch, FromRuntime,
    FromSeed, FromState, FromBootout, FromStarted
<1>12. UpgradeProgress' /\ UpgradeRollback'
  BY <1>1, NoUpgrade DEF UpgradePcs
<1> QED BY <1>6, <1>8, <1>9, <1>10, <1>11, <1>12 DEF InstallInv

\* RollbackJournal: the journal goes and nothing else.
LEMMA RollbackJournalKeeps ==
  ASSUME TypeOK, InstallInv, RollbackJournal
  PROVE TypeOK' /\ InstallInv'
<1> USE DEF TypeOK, InstallInv, RollbackJournal, Exit, Idle
<1>1. TypeOK'
  <2>1. cmd' \in Commands
    BY DEF Commands, Runtimes, None, IntegrationPcs, UpgradePcs
  <2>2. ij' \in IntegrationJournals
    BY InstallBounds DEF IntegrationJournals, NoIntegrationJournal,
       NoArtifacts, Artifacts, Phases, Runtimes, None
  <2> QED BY <2>1, <2>2, InstallBounds DEF Commands
<1>2. Complete(disk.current)' /\ Complete(disk.plist)'
  BY DEF Complete
<1>3. Journaled'
  BY DEF Journaled, IntegrationPcs, UpgradePcs
<1>4. Pending'
  BY DEF Runtimes, None, Artifacts, IntegrationJournals, UpgradeJournals,
     NoIntegrationJournal, NoUpgradeJournal, Complete, Owned, Pending,
     Journaled, IntegrationPcs, UpgradePcs, UpgradeProgress, UpgradeRollback
<1>5. IntegrationProgress' /\ IntegrationRollback'
  BY NoIntegration DEF IntegrationPcs
<1>6. UpgradeProgress' /\ UpgradeRollback'
  BY NoUpgrade DEF UpgradePcs
<1> QED BY <1>1, <1>2, <1>3, <1>4, <1>5, <1>6

\* ApplyUpgrade: what is installed is of another version than the bundle.
LEMMA ApplyUpgradeKeeps ==
  ASSUME TypeOK, InstallInv, ApplyUpgrade
  PROVE TypeOK' /\ InstallInv'
<1> USE DEF TypeOK, InstallInv, ApplyUpgrade, Locked, Idle,
           ExternalUpgradeRecoveryPresent, InspectUpgrade, InstalledReadable
<1>1. TypeOK'
  <2>1. cmd' \in Commands
    BY DEF Commands, Runtimes, None, IntegrationPcs, UpgradePcs
  <2> QED BY <2>1, InstallBounds DEF Commands
<1>2. Complete(disk.current)' /\ Complete(disk.plist)'
  BY DEF Complete
<1>3. Journaled'
  BY DEF Journaled, Owned, IntegrationPcs, UpgradePcs
<1>4. Pending'
  BY DEF Pending, Owned, Complete
<1>5. IntegrationProgress' /\ IntegrationRollback'
  BY NoIntegration DEF IntegrationPcs
<1>6. UpgradeProgress' /\ UpgradeRollback'
  BY DEF Runtimes, None, Artifacts, UpgradeJournals, Invariants,
     UpgradeProgress, UpgradeRollback, Kept, RecordedInvariants, Pending,
     Complete
<1> QED BY <1>1, <1>2, <1>3, <1>4, <1>5, <1>6

\* PrepareUpgradeRuntime: the target is complete, or staged.
LEMMA PrepareUpgradeRuntimeKeeps ==
  ASSUME TypeOK, InstallInv, PrepareUpgradeRuntime
  PROVE TypeOK' /\ InstallInv'
<1>1. UNCHANGED <<app, disk, codex, pend, dirs, loaded, ij, uj, wit, faults>>
  BY Zenon DEF PrepareUpgradeRuntime
<1>2. /\ cmd.pc \in {"u_stage", "u_copy"}
      /\ cmd' \in {Idle, [cmd EXCEPT !.pc = "u_copy"], [cmd EXCEPT !.pc = "u_journal"]}
      /\ staging' \in {"none", "part", "full"}
      /\ cmd'.pc = "u_journal" => staging' = "full" \/ dirs[UpgradeTarget] = "full"
  <2>1. CASE cmd.pc = "u_copy"
    BY <2>1 DEF PrepareUpgradeRuntime, At, Goto, TypeOK
  <2>2. CASE cmd.pc = "u_stage"
    <3>1. dirs[UpgradeTarget] \in {"none", "part", "full"}
      BY Zenon DEF TypeOK, UpgradeTarget, Runtimes
    <3>2. /\ dirs[UpgradeTarget] = "full" =>
               cmd' = [cmd EXCEPT !.pc = "u_journal"] /\ staging' = staging
          /\ dirs[UpgradeTarget] = "part" => cmd' = Idle /\ staging' = staging
          /\ dirs[UpgradeTarget] = "none" =>
               cmd' = [cmd EXCEPT !.pc = "u_copy"] /\ staging' = "part"
      BY <2>2, Zenon DEF PrepareUpgradeRuntime, At, Goto, Exit
    <3> QED BY <2>2, <3>1, <3>2 DEF TypeOK, Idle
  <2> QED BY <2>1, <2>2, Zenon DEF PrepareUpgradeRuntime, At
<1>3. cmd' \in Commands /\ cmd'.pc \in {"idle", "u_copy", "u_journal"}
  <2>1. {"u_copy", "u_journal"} \subseteq UpgradePcs
    BY DEF UpgradePcs
  <2> QED BY <1>2, <2>1 DEF TypeOK, Commands, Idle
<1>4. TypeOK'
  BY <1>1, <1>2, <1>3 DEF TypeOK, Commands
<1>5. Complete(disk.current)' /\ Complete(disk.plist)' /\ Pending'
  BY <1>1 DEF InstallInv, Complete, Pending, Owned
<1>6. Journaled'
  BY <1>1, <1>2, <1>3 DEF InstallInv, Journaled, IntegrationPcs, UpgradePcs
<1>7. IntegrationProgress' /\ IntegrationRollback'
  BY <1>3 DEF IntegrationProgress, IntegrationRollback, FromSwitch, FromRuntime,
              FromSeed, FromState, FromBootout, FromStarted
<1>8. UpgradeProgress' /\ UpgradeRollback'
  BY <1>1, <1>2, <1>3 DEF InstallInv, UpgradeProgress, UpgradeRollback, UpgradeTarget
<1> QED BY <1>4, <1>5, <1>6, <1>7, <1>8 DEF InstallInv

\* UpgradeJournal: the journal names what is installed and another target.
LEMMA UpgradeJournalKeeps ==
  ASSUME TypeOK, InstallInv, UpgradeJournal
  PROVE TypeOK' /\ InstallInv'
<1> USE DEF TypeOK, InstallInv, UpgradeJournal, At, Goto, UpgradeTarget,
           RecordedInvariants
<1>1. TypeOK'
  <2>1. cmd' \in Commands
    BY DEF Commands, Runtimes, None, IntegrationPcs, UpgradePcs
  <2>2. uj' \in UpgradeJournals
    <3>1. RecordedInvariants \in Invariants
      BY DEF Invariants, Artifacts
    <3>2. [current |-> disk.current, plist |-> disk.plist] \in MutableFiles
      BY DEF MutableFiles, Artifacts
    <3>3. disk.current \in Runtimes \cup {None} /\ UpgradeTarget \in Runtimes
      BY DEF Artifacts, Runtimes
    <3> QED BY <3>1, <3>2, <3>3 DEF UpgradeJournals
  <2> QED BY <2>1, <2>2, InstallBounds DEF Commands
<1>2. Complete(disk.current)' /\ Complete(disk.plist)'
  BY DEF Complete
<1>3. Journaled'
  BY DEF Journaled, Owned, IntegrationPcs, UpgradePcs
<1>4. Pending'
  BY DEF Pending, Owned, Complete, Journaled, IntegrationPcs, UpgradePcs,
     UpgradeProgress, UpgradeRollback, None, Runtimes
<1>5. IntegrationProgress' /\ IntegrationRollback'
  BY NoIntegration DEF IntegrationPcs
<1>6. UpgradeProgress' /\ UpgradeRollback'
  BY Zenon DEF UpgradeProgress, UpgradeRollback, Kept, RecordedInvariants
<1> QED BY <1>1, <1>2, <1>3, <1>4, <1>5, <1>6

\* UpgradeRename: the target becomes complete.
LEMMA UpgradeRenameKeeps ==
  ASSUME TypeOK, InstallInv, UpgradeRename
  PROVE TypeOK' /\ InstallInv'
<1> USE DEF TypeOK, InstallInv, UpgradeRename, At, Goto
<1>1. TypeOK'
  <2>1. cmd' \in Commands
    BY DEF Commands, Runtimes, None, IntegrationPcs, UpgradePcs
  <2>2. dirs' \in [Runtimes -> {"none", "part", "full"}]
    BY InstallBounds, Zenon DEF None, Runtimes
  <2> QED BY <2>1, <2>2, InstallBounds DEF Commands
<1>2. Complete(disk.current)' /\ Complete(disk.plist)'
  BY DEF Runtimes, None, Artifacts, IntegrationJournals, Complete, Owned,
     Pending, Journaled, IntegrationPcs, UpgradePcs, IntegrationProgress,
     UpgradeProgress, IntegrationRollback, UpgradeRollback, FromSwitch
<1>3. Journaled'
  BY DEF Journaled, Owned, IntegrationPcs, UpgradePcs
<1>4. Pending'
  BY DEF Pending, Owned, Complete, Journaled, IntegrationPcs, UpgradePcs
<1>5. IntegrationProgress' /\ IntegrationRollback'
  BY NoIntegration DEF IntegrationPcs
<1>6. UpgradeProgress' /\ UpgradeRollback'
  <2>1. dirs'[uj'.new] = "full"
    BY DEF UpgradeProgress, Pending, Journaled, UpgradePcs
  <2> QED BY <2>1 DEF UpgradeProgress, UpgradeRollback
<1> QED BY <1>1, <1>2, <1>3, <1>4, <1>5, <1>6

\* WriteUpgradeJournal: only the phase and the step change.
LEMMA WriteUpgradeJournalKeeps ==
  ASSUME TypeOK, InstallInv, WriteUpgradeJournal
  PROVE TypeOK' /\ InstallInv'
<1>1. PICK p \in {"runtime_staged", "switched", "restarting", "verified"} :
        uj' = [uj EXCEPT !.phase = p]
  BY DEF WriteUpgradeJournal
<1>2. /\ uj' \in UpgradeJournals /\ uj'.phase # "none"
      /\ uj'.previous = uj.previous /\ uj'.new = uj.new /\ uj'.inv = uj.inv
  BY <1>1 DEF TypeOK, UpgradeJournals
<1>3. /\ <<cmd.pc, cmd'.pc>> \in {<<"u_staged", "u_current">>,
                                  <<"u_switched", "u_restarting">>,
                                  <<"u_restarting", "u_bootout">>,
                                  <<"u_verified", "u_witness">>}
      /\ cmd' = [cmd EXCEPT !.pc = cmd'.pc]
      /\ UNCHANGED <<app, disk, codex, pend, dirs, staging, loaded, ij, wit, faults>>
  BY DEF TypeOK, WriteUpgradeJournal, At, Goto
<1>4. uj.phase # "none" /\ ij.stage = "none"
  BY <1>3 DEF InstallInv, Journaled, UpgradePcs
<1>5. TypeOK'
  BY <1>2, <1>3 DEF TypeOK, UpgradePcs
<1>6. Complete(disk.current)' /\ Complete(disk.plist)'
  BY <1>3 DEF InstallInv, Complete
<1>7. Journaled'
  BY <1>2, <1>3, <1>4 DEF Journaled, IntegrationPcs, UpgradePcs
<1>8. Pending'
  BY <1>2, <1>3, <1>4 DEF InstallInv, Pending
<1>9. IntegrationProgress' /\ IntegrationRollback'
  BY <1>3, NoIntegration DEF IntegrationPcs
<1>10. UpgradeProgress' /\ UpgradeRollback'
  <2>1. Kept => Kept'
    BY <1>2, <1>3 DEF Kept, RecordedInvariants
  <2> QED BY <1>2, <1>3, <2>1 DEF InstallInv, UpgradeProgress, UpgradeRollback
<1> QED BY <1>5, <1>6, <1>7, <1>8, <1>9, <1>10 DEF InstallInv

\* SwitchCurrentTarget: `current` is linked to a target that is complete.
LEMMA SwitchCurrentTargetKeeps ==
  ASSUME TypeOK, InstallInv, SwitchCurrentTarget
  PROVE TypeOK' /\ InstallInv'
<1> USE DEF TypeOK, InstallInv, SwitchCurrentTarget, At, Goto
<1>1. TypeOK'
  <2>1. cmd' \in Commands
    BY DEF Commands, IntegrationPcs, UpgradePcs
  <2>2. disk' \in Artifacts
    BY InstallBounds DEF Artifacts, UpgradeJournals
  <2> QED BY <2>1, <2>2, InstallBounds DEF Commands
<1>2. Complete(disk.current)' /\ Complete(disk.plist)'
  BY DEF Complete, Artifacts, IntegrationProgress, UpgradeProgress,
     FromSwitch, Pending, Journaled, UpgradePcs
<1>3. Journaled'
  BY DEF Journaled, Owned, IntegrationPcs, UpgradePcs
<1>4. Pending'
  BY DEF Pending, Owned, Complete
<1>5. IntegrationProgress' /\ IntegrationRollback'
  BY NoIntegration DEF IntegrationPcs
<1>6. UpgradeProgress' /\ UpgradeRollback'
  BY DEF UpgradeProgress, UpgradeRollback, Kept, RecordedInvariants
<1> QED BY <1>1, <1>2, <1>3, <1>4, <1>5, <1>6

\* SwitchServicePlist: the plist names a target that is complete.
LEMMA SwitchServicePlistKeeps ==
  ASSUME TypeOK, InstallInv, SwitchServicePlist
  PROVE TypeOK' /\ InstallInv'
<1> USE DEF TypeOK, InstallInv, SwitchServicePlist, At, Goto
<1>1. TypeOK'
  <2>1. cmd' \in Commands
    BY DEF Commands, IntegrationPcs, UpgradePcs
  <2>2. disk' \in Artifacts
    BY InstallBounds DEF Artifacts, UpgradeJournals
  <2> QED BY <2>1, <2>2, InstallBounds DEF Commands
<1>2. Complete(disk.current)' /\ Complete(disk.plist)'
  BY DEF Complete, Artifacts, IntegrationProgress, UpgradeProgress,
     FromSwitch, Pending, Journaled, UpgradePcs
<1>3. Journaled'
  BY DEF Journaled, Owned, IntegrationPcs, UpgradePcs
<1>4. Pending'
  BY DEF Pending, Owned, Complete
<1>5. IntegrationProgress' /\ IntegrationRollback'
  BY NoIntegration DEF IntegrationPcs
<1>6. UpgradeProgress' /\ UpgradeRollback'
  BY DEF UpgradeProgress, UpgradeRollback, Kept, RecordedInvariants
<1> QED BY <1>1, <1>2, <1>3, <1>4, <1>5, <1>6

\* RestartService: only the step and the service change.
LEMMA RestartServiceKeeps ==
  ASSUME TypeOK, InstallInv, RestartService
  PROVE TypeOK' /\ InstallInv'
<1> USE DEF TypeOK, InstallInv, RestartService, At, Goto, Bootout, Bootstrap,
           Faulty
<1>1. TypeOK'
  <2>1. cmd' \in Commands
    BY DEF Commands, Runtimes, None, IntegrationPcs, UpgradePcs
  <2>2. loaded' \in Runtimes \cup {None}
    BY InstallBounds DEF Artifacts
  <2> QED BY <2>1, <2>2, InstallBounds DEF Commands
<1>2. Complete(disk.current)' /\ Complete(disk.plist)'
  BY DEF Complete
<1>3. Journaled'
  BY DEF Journaled, Owned, IntegrationPcs, UpgradePcs
<1>4. Pending'
  BY DEF Pending, Owned, Complete
<1>5. IntegrationProgress' /\ IntegrationRollback'
  BY NoIntegration DEF IntegrationPcs
<1>6. UpgradeProgress' /\ UpgradeRollback'
  BY DEF UpgradeProgress, UpgradeRollback, Kept, RecordedInvariants
<1> QED BY <1>1, <1>2, <1>3, <1>4, <1>5, <1>6

\* VerifyUpgrade: the new runtime was seen to run before the step is passed.
LEMMA VerifyUpgradeKeeps ==
  ASSUME TypeOK, InstallInv, VerifyUpgrade
  PROVE TypeOK' /\ InstallInv'
<1> USE DEF TypeOK, InstallInv, VerifyUpgrade, Goto, Running, InvariantsHold
<1>1. TypeOK'
  <2>1. cmd' \in Commands
    BY DEF Commands, Runtimes, None, IntegrationPcs, UpgradePcs
  <2> QED BY <2>1, InstallBounds DEF Commands
<1>2. Complete(disk.current)' /\ Complete(disk.plist)'
  BY DEF Complete
<1>3. Journaled'
  BY DEF Journaled, Owned, IntegrationPcs, UpgradePcs
<1>4. Pending'
  BY DEF Pending, Owned, Complete
<1>5. IntegrationProgress' /\ IntegrationRollback'
  BY NoIntegration DEF IntegrationPcs
<1>6. UpgradeProgress' /\ UpgradeRollback'
  BY DEF UpgradeProgress, UpgradeRollback, Kept, RecordedInvariants
<1> QED BY <1>1, <1>2, <1>3, <1>4, <1>5, <1>6

\* WriteUpgradeWitness: the witness names the new runtime.
LEMMA WriteUpgradeWitnessKeeps ==
  ASSUME TypeOK, InstallInv, WriteUpgradeWitness
  PROVE TypeOK' /\ InstallInv'
<1> USE DEF TypeOK, InstallInv, WriteUpgradeWitness, At, Goto
<1>1. TypeOK'
  <2>1. cmd' \in Commands
    BY DEF Commands, IntegrationPcs, UpgradePcs
  <2> QED BY <2>1, InstallBounds DEF Commands, UpgradeJournals
<1>2. Complete(disk.current)' /\ Complete(disk.plist)'
  BY DEF Complete
<1>3. Journaled'
  BY DEF Journaled, Owned, IntegrationPcs, UpgradePcs
<1>4. Pending'
  BY DEF Pending, Owned, Complete
<1>5. IntegrationProgress' /\ IntegrationRollback'
  BY NoIntegration DEF IntegrationPcs
<1>6. UpgradeProgress' /\ UpgradeRollback'
  BY DEF UpgradeProgress, UpgradeRollback, Kept, RecordedInvariants
<1> QED BY <1>1, <1>2, <1>3, <1>4, <1>5, <1>6

\* RemoveUpgradeJournal: the journal goes and nothing else.
LEMMA RemoveUpgradeJournalKeeps ==
  ASSUME TypeOK, InstallInv, RemoveUpgradeJournal
  PROVE TypeOK' /\ InstallInv'
<1> USE DEF TypeOK, InstallInv, RemoveUpgradeJournal, Exit, Idle
<1>1. TypeOK'
  <2>1. cmd' \in Commands
    BY DEF Commands, Runtimes, None, IntegrationPcs, UpgradePcs
  <2>2. uj' \in UpgradeJournals
    BY InstallBounds DEF UpgradeJournals, NoUpgradeJournal, NoInvariants, MutableFiles,
       NoMutableFiles, Invariants, Phases, Runtimes, None, Artifacts
  <2> QED BY <2>1, <2>2, InstallBounds DEF Commands
<1>2. Complete(disk.current)' /\ Complete(disk.plist)'
  BY DEF Complete
<1>3. Journaled'
  BY DEF Journaled, IntegrationPcs, UpgradePcs
<1>4. Pending'
  BY DEF Runtimes, None, Artifacts, IntegrationJournals, UpgradeJournals,
     NoIntegrationJournal, NoUpgradeJournal, Complete, Owned, Pending,
     Journaled, IntegrationPcs, UpgradePcs, UpgradeProgress, UpgradeRollback
<1>5. IntegrationProgress' /\ IntegrationRollback'
  BY NoIntegration DEF IntegrationPcs
<1>6. UpgradeProgress' /\ UpgradeRollback'
  BY NoUpgrade DEF UpgradePcs
<1> QED BY <1>1, <1>2, <1>3, <1>4, <1>5, <1>6

\* UpgradeUnjournaled: the staging goes, and nothing named it.
LEMMA UpgradeUnjournaledKeeps ==
  ASSUME TypeOK, InstallInv, UpgradeUnjournaled
  PROVE TypeOK' /\ InstallInv'
<1> USE DEF TypeOK, InstallInv, UpgradeUnjournaled, Faulty, Exit, Idle
<1>1. TypeOK'
  <2>1. cmd' \in Commands
    BY DEF Commands, Runtimes, None, IntegrationPcs, UpgradePcs
  <2> QED BY <2>1, InstallBounds DEF Commands
<1>2. Complete(disk.current)' /\ Complete(disk.plist)'
  BY DEF Complete
<1>3. Journaled'
  BY DEF Journaled, IntegrationPcs, UpgradePcs
<1>4. Pending'
  BY DEF Pending, Owned, Complete
<1>5. IntegrationProgress' /\ IntegrationRollback'
  BY NoIntegration DEF IntegrationPcs
<1>6. UpgradeProgress' /\ UpgradeRollback'
  BY NoUpgrade DEF UpgradePcs
<1> QED BY <1>1, <1>2, <1>3, <1>4, <1>5, <1>6

\* UpgradeFails: only the step changes.
LEMMA UpgradeFailsKeeps ==
  ASSUME TypeOK, InstallInv, UpgradeFails
  PROVE TypeOK' /\ InstallInv'
<1> USE DEF TypeOK, InstallInv, UpgradeFails, Faulty, Goto
<1>1. TypeOK'
  <2>1. cmd' \in Commands
    BY DEF Commands, Runtimes, None, IntegrationPcs, UpgradePcs
  <2> QED BY <2>1, InstallBounds DEF Commands
<1>2. Complete(disk.current)' /\ Complete(disk.plist)'
  BY DEF Complete
<1>3. Journaled'
  BY DEF Journaled, Owned, IntegrationPcs, UpgradePcs
<1>4. Pending'
  BY DEF Pending, Owned, Complete
<1>5. IntegrationProgress' /\ IntegrationRollback'
  BY NoIntegration DEF IntegrationPcs
<1>6. UpgradeProgress' /\ UpgradeRollback'
  BY DEF UpgradeProgress, UpgradeRollback, Kept, RecordedInvariants
<1> QED BY <1>1, <1>2, <1>3, <1>4, <1>5, <1>6

\* UpgradeStops: the command ends and the journal stays.
LEMMA UpgradeStopsKeeps ==
  ASSUME TypeOK, InstallInv, UpgradeStops
  PROVE TypeOK' /\ InstallInv'
<1> USE DEF TypeOK, InstallInv, UpgradeStops, Faulty, Exit, Idle
<1>1. TypeOK'
  <2>1. cmd' \in Commands
    BY DEF Commands, Runtimes, None, IntegrationPcs, UpgradePcs
  <2> QED BY <2>1, InstallBounds DEF Commands
<1>2. Complete(disk.current)' /\ Complete(disk.plist)'
  BY DEF Complete
<1>3. Journaled'
  BY DEF Journaled, IntegrationPcs, UpgradePcs
<1>4. Pending'
  BY DEF Pending, Owned, Complete
<1>5. IntegrationProgress' /\ IntegrationRollback'
  BY NoIntegration DEF IntegrationPcs
<1>6. UpgradeProgress' /\ UpgradeRollback'
  BY NoUpgrade DEF UpgradePcs
<1> QED BY <1>1, <1>2, <1>3, <1>4, <1>5, <1>6

\* RecoverUpgrade: a rollback begins, or a check.
LEMMA RecoverUpgradeKeeps ==
  ASSUME TypeOK, InstallInv, RecoverUpgrade
  PROVE TypeOK' /\ InstallInv'
<1> USE DEF TypeOK, InstallInv, RecoverUpgrade, Locked, Idle,
           ExternalUpgradeRecoveryPresent
<1>1. TypeOK'
  <2>1. cmd' \in Commands
    BY DEF Commands, Runtimes, None, IntegrationPcs, UpgradePcs
  <2> QED BY <2>1, InstallBounds DEF Commands
<1>2. Complete(disk.current)' /\ Complete(disk.plist)'
  BY DEF Complete
<1>3. Journaled'
  BY DEF Journaled, Owned, IntegrationPcs, UpgradePcs
<1>4. Pending'
  BY DEF Pending, Owned, Complete
<1>5. IntegrationProgress' /\ IntegrationRollback'
  BY NoIntegration DEF IntegrationPcs
<1>6. UpgradeProgress' /\ UpgradeRollback'
  BY DEF UpgradeProgress, UpgradeRollback, Kept, RecordedInvariants
<1> QED BY <1>1, <1>2, <1>3, <1>4, <1>5, <1>6

\* CompleteVerifiedUpgrade: the new runtime is checked on disk and in launchd.
LEMMA CompleteVerifiedUpgradeKeeps ==
  ASSUME TypeOK, InstallInv, CompleteVerifiedUpgrade
  PROVE TypeOK' /\ InstallInv'
<1> USE DEF TypeOK, InstallInv, CompleteVerifiedUpgrade, Goto, Exit, Idle,
           Running, InvariantsHold
<1>1. TypeOK'
  <2>1. cmd' \in Commands
    BY DEF Commands, Runtimes, None, IntegrationPcs, UpgradePcs
  <2> QED BY <2>1, InstallBounds DEF Commands
<1>2. Complete(disk.current)' /\ Complete(disk.plist)'
  BY DEF Complete
<1>3. Journaled'
  BY DEF Journaled, Owned, IntegrationPcs, UpgradePcs
<1>4. Pending'
  BY DEF Pending, Owned, Complete
<1>5. IntegrationProgress' /\ IntegrationRollback'
  BY NoIntegration DEF IntegrationPcs
<1>6. UpgradeProgress' /\ UpgradeRollback'
  BY DEF UpgradeProgress, UpgradeRollback, Kept, RecordedInvariants
<1> QED BY <1>1, <1>2, <1>3, <1>4, <1>5, <1>6

\* RollbackUpgradeFiles: each file restored names the previous runtime.
LEMMA RollbackUpgradeFilesKeeps ==
  ASSUME TypeOK, InstallInv, Agreed, RollbackUpgradeFiles
  PROVE TypeOK' /\ InstallInv'
<1>1. /\ cmd.pc \in {"ur_bootout", "ur_files"}
      /\ UNCHANGED <<app, codex, pend, dirs, staging, ij, uj, wit>>
  BY DEF RollbackUpgradeFiles
<1>2. /\ uj.phase # "none" /\ ij.stage = "none"
      /\ uj.previous \in Runtimes /\ dirs[uj.previous] = "full"
  BY <1>1 DEF InstallInv, Journaled, Pending, UpgradePcs
<1>3. /\ disk' \in Artifacts
      /\ disk'.current \in {None, disk.current, uj.previous}
      /\ disk'.plist \in {disk.plist, uj.previous}
      /\ loaded' \in Runtimes \cup {None} /\ faults' \in 0..MaxFaults
      /\ cmd' \in Commands
      /\ \/ cmd'.pc = "ur_files" /\ cmd'.n = 1
         \/ cmd'.pc = "ur_files" /\ cmd'.n \in 2..3 /\ disk'.plist = uj.previous
         \/ /\ cmd'.pc = "ur_bootstrap"
            /\ disk'.current = uj.previous /\ disk'.plist = uj.previous
  <2>1. {"ur_files", "ur_bootstrap"} \subseteq UpgradePcs
    BY DEF UpgradePcs
  <2>2. CASE cmd.pc = "ur_bootout"
    <3>1. /\ disk' = disk /\ Bootout /\ cmd' = [cmd EXCEPT !.pc = "ur_files", !.n = 1]
      BY <2>2 DEF RollbackUpgradeFiles
    <3>2. cmd' \in Commands /\ cmd'.pc = "ur_files" /\ cmd'.n = 1
      <4>1. cmd \in Commands /\ 1 \in 0..6 /\ "ur_files" \in UpgradePcs
        BY <2>1 DEF TypeOK, Commands
      <4> QED BY <2>1, <3>1, <4>1, Zenon DEF Commands
    <3>3. loaded' \in Runtimes \cup {None} /\ faults' \in 0..MaxFaults
      BY <3>1, InstallBounds DEF TypeOK, Bootout, Faulty
    <3> QED BY <3>1, <3>2, <3>3 DEF TypeOK
  <2>3. CASE cmd.pc = "ur_files"
    <3> DEFINE f == uj.files
    <3>1. /\ disk' = Restored(UpgradeRestores[cmd.n], f)
          /\ cmd' = IF cmd.n < Len(UpgradeRestores)
                      THEN [cmd EXCEPT !.n = @ + 1]
                      ELSE [cmd EXCEPT !.pc = "ur_bootstrap", !.n = 0]
          /\ UNCHANGED <<loaded, faults>>
      BY <2>3 DEF RollbackUpgradeFiles
    <3>2. /\ cmd.n \in 1..3 /\ (cmd.n > 1 => disk.plist = uj.previous)
          /\ disk \in Artifacts
      BY <2>3 DEF TypeOK, InstallInv, UpgradeRollback
    <3>3. f.plist = uj.previous /\ f.current = uj.previous
      BY <1>2 DEF Agreed
    <3> HIDE DEF f
    <3>4. /\ disk' \in Artifacts
          /\ disk'.current \in {None, disk.current, uj.previous}
          /\ disk'.plist = uj.previous
          /\ cmd.n = 3 => disk'.current = uj.previous
      <4>1. CASE cmd.n = 1
        <5>1. disk' = [disk EXCEPT !.plist = uj.previous]
          BY <3>1, <3>3, <4>1, RestoreOrder, Zenon
        <5> QED BY <1>2, <3>2, <4>1, <5>1 DEF Artifacts
      <4>2. CASE cmd.n = 2
        <5>1. disk' = [disk EXCEPT !.current = None]
          BY <3>1, <3>3, <4>2, RestoreOrder, Zenon
        <5> QED BY <1>2, <3>2, <4>2, <5>1 DEF Artifacts
      <4>3. CASE cmd.n = 3
        <5>1. disk' = [disk EXCEPT !.current = uj.previous]
          BY <3>1, <3>3, <4>3, RestoreOrder, Zenon
        <5> QED BY <1>2, <3>2, <4>3, <5>1 DEF Artifacts
      <4> QED BY <3>2, <4>1, <4>2, <4>3
    <3>5. /\ cmd' \in Commands
          /\ cmd.n < 3 => cmd'.pc = "ur_files" /\ cmd'.n = cmd.n + 1
          /\ cmd.n = 3 => cmd'.pc = "ur_bootstrap"
      <4>1. cmd \in Commands
        BY DEF TypeOK, Commands
      <4>2. CASE cmd.n < 3
        <5>1. cmd' = [cmd EXCEPT !.n = cmd.n + 1] /\ cmd.n + 1 \in 0..6
          BY <3>1, <3>2, <4>2, RestoreCount
        <5> QED BY <2>3, <3>2, <4>1, <4>2, <5>1 DEF Commands
      <4>3. CASE cmd.n = 3
        <5>1. cmd' = [cmd EXCEPT !.pc = "ur_bootstrap", !.n = 0]
          BY <3>1, <4>3, RestoreCount
        <5>2. "ur_bootstrap" \in UpgradePcs /\ 0 \in 0..6
          BY <2>1
        <5>3. cmd' \in Commands /\ cmd'.pc = "ur_bootstrap"
          BY <4>1, <5>1, <5>2, Zenon DEF Commands
        <5> QED BY <4>3, <5>3
      <4> QED BY <3>2, <4>2, <4>3
    <3> QED BY <3>1, <3>2, <3>4, <3>5 DEF TypeOK
  <2> QED BY <1>1, <2>2, <2>3
<1>4. TypeOK'
  BY <1>1, <1>3 DEF TypeOK, Commands
<1>5. Complete(disk.current)' /\ Complete(disk.plist)'
  BY <1>1, <1>2, <1>3 DEF InstallInv, Complete
<1>6. Journaled'
  BY <1>1, <1>2, <1>3 DEF Journaled, IntegrationPcs, UpgradePcs
<1>7. Pending'
  BY <1>1 DEF InstallInv, Pending, Owned, Complete
<1>8. IntegrationProgress' /\ IntegrationRollback'
  BY <1>3 DEF IntegrationProgress, IntegrationRollback, FromSwitch, FromRuntime,
              FromSeed, FromState, FromBootout, FromStarted
<1>9. UpgradeProgress' /\ UpgradeRollback'
  BY <1>1, <1>3 DEF UpgradeProgress, UpgradeRollback
<1> QED BY <1>4, <1>5, <1>6, <1>7, <1>8, <1>9 DEF InstallInv

\* RollbackUpgradeService: the previous runtime was seen to run before the step is passed.
LEMMA RollbackUpgradeServiceKeeps ==
  ASSUME TypeOK, InstallInv, RollbackUpgradeService
  PROVE TypeOK' /\ InstallInv'
<1> USE DEF TypeOK, InstallInv, RollbackUpgradeService, Bootstrap, Goto,
           Exit, Idle, Faulty, Running, InvariantsHold
<1>1. TypeOK'
  <2>1. cmd' \in Commands
    BY DEF Commands, Runtimes, None, IntegrationPcs, UpgradePcs
  <2>2. loaded' \in Runtimes \cup {None}
    BY InstallBounds DEF Artifacts
  <2> QED BY <2>1, <2>2, InstallBounds DEF Commands
<1>2. Complete(disk.current)' /\ Complete(disk.plist)'
  BY DEF Complete
<1>3. Journaled'
  BY DEF Journaled, Owned, IntegrationPcs, UpgradePcs
<1>4. Pending'
  BY DEF Pending, Owned, Complete
<1>5. IntegrationProgress' /\ IntegrationRollback'
  BY NoIntegration DEF IntegrationPcs
<1>6. UpgradeProgress' /\ UpgradeRollback'
  BY DEF UpgradeProgress, UpgradeRollback, Kept, RecordedInvariants
<1> QED BY <1>1, <1>2, <1>3, <1>4, <1>5, <1>6

\* RollbackUpgradeRuntime: everything names the previous runtime, which is another.
LEMMA RollbackUpgradeRuntimeKeeps ==
  ASSUME TypeOK, InstallInv, RollbackUpgradeRuntime
  PROVE TypeOK' /\ InstallInv'
<1> USE DEF TypeOK, InstallInv, RollbackUpgradeRuntime, At, Goto
<1>1. TypeOK'
  <2>1. cmd' \in Commands
    BY DEF Commands, Runtimes, None, IntegrationPcs, UpgradePcs
  <2>2. dirs' \in [Runtimes -> {"none", "part", "full"}]
    BY InstallBounds, Zenon DEF None, Runtimes
  <2> QED BY <2>1, <2>2, InstallBounds DEF Commands
<1>2. Complete(disk.current)' /\ Complete(disk.plist)'
  BY DEF Runtimes, None, Artifacts, IntegrationJournals, Complete, Owned,
     Pending, Journaled, IntegrationPcs, UpgradePcs, IntegrationProgress,
     UpgradeProgress, IntegrationRollback, UpgradeRollback, FromSwitch
<1>3. Journaled'
  BY DEF Journaled, Owned, IntegrationPcs, UpgradePcs
<1>4. Pending'
  BY DEF Pending, Owned, Complete, Journaled, IntegrationPcs, UpgradePcs
<1>5. IntegrationProgress' /\ IntegrationRollback'
  BY NoIntegration DEF IntegrationPcs
<1>6. UpgradeProgress' /\ UpgradeRollback'
  BY DEF UpgradeProgress, UpgradeRollback, Kept, RecordedInvariants
<1> QED BY <1>1, <1>2, <1>3, <1>4, <1>5, <1>6

\* Crash: the files stay as the last step left them.
LEMMA CrashKeeps ==
  ASSUME TypeOK, InstallInv, Crash
  PROVE TypeOK' /\ InstallInv'
<1> USE DEF TypeOK, InstallInv, Crash, Locked, Faulty, Exit, Idle
<1>1. TypeOK'
  <2>1. cmd' \in Commands
    BY DEF Commands, Runtimes, None, IntegrationPcs, UpgradePcs
  <2> QED BY <2>1, InstallBounds DEF Commands
<1>2. Complete(disk.current)' /\ Complete(disk.plist)'
  BY DEF Complete
<1>3. Journaled'
  BY DEF Journaled, IntegrationPcs, UpgradePcs
<1>4. Pending'
  BY DEF Pending, Owned, Complete
<1>5. IntegrationProgress' /\ IntegrationRollback'
  BY NoIntegration DEF IntegrationPcs
<1>6. UpgradeProgress' /\ UpgradeRollback'
  BY NoUpgrade DEF UpgradePcs
<1> QED BY <1>1, <1>2, <1>3, <1>4, <1>5, <1>6

\* Cancel: only the context changes.
LEMMA CancelKeeps ==
  ASSUME TypeOK, InstallInv, Cancel
  PROVE TypeOK' /\ InstallInv'
<1> USE DEF TypeOK, InstallInv, Cancel, Locked, Faulty
<1>1. TypeOK'
  <2>1. cmd' \in Commands
    BY DEF Commands, Runtimes, None, IntegrationPcs, UpgradePcs
  <2> QED BY <2>1, InstallBounds DEF Commands
<1>2. Complete(disk.current)' /\ Complete(disk.plist)'
  BY DEF Complete
<1>3. Journaled'
  BY DEF Journaled, Owned, IntegrationPcs, UpgradePcs
<1>4. Pending'
  BY DEF Pending, Owned, Complete
<1>5. IntegrationProgress' /\ IntegrationRollback'
  BY DEF IntegrationProgress, IntegrationRollback, IntegrationTarget, FromSwitch,
     FromRuntime, FromSeed, FromState, FromBootout, FromStarted
<1>6. UpgradeProgress' /\ UpgradeRollback'
  BY DEF UpgradeProgress, UpgradeRollback, UpgradeTarget, Kept, RecordedInvariants
<1> QED BY <1>1, <1>2, <1>3, <1>4, <1>5, <1>6

\* ReplaceApp: no command is in progress.
LEMMA ReplaceAppKeeps ==
  ASSUME TypeOK, InstallInv, ReplaceApp
  PROVE TypeOK' /\ InstallInv'
<1> USE DEF TypeOK, InstallInv, ReplaceApp, Locked
<1>1. TypeOK'
  <2>1. cmd' \in Commands
    BY DEF Commands, Runtimes, None, IntegrationPcs, UpgradePcs
  <2> QED BY <2>1, InstallBounds DEF Commands
<1>2. Complete(disk.current)' /\ Complete(disk.plist)'
  BY DEF Complete
<1>3. Journaled'
  BY DEF Journaled, IntegrationPcs, UpgradePcs
<1>4. Pending'
  BY DEF Pending, Owned, Complete
<1>5. IntegrationProgress' /\ IntegrationRollback'
  BY NoIntegration DEF IntegrationPcs
<1>6. UpgradeProgress' /\ UpgradeRollback'
  BY NoUpgrade DEF UpgradePcs
<1> QED BY <1>1, <1>2, <1>3, <1>4, <1>5, <1>6

\* EditCodex: the Codex configuration is no part of the argument.
LEMMA EditCodexKeeps ==
  ASSUME TypeOK, InstallInv, EditCodex
  PROVE TypeOK' /\ InstallInv'
<1> USE DEF TypeOK, InstallInv, EditCodex
<1>1. TypeOK'
  <2>1. cmd' \in Commands
    BY DEF Commands, Runtimes, None, IntegrationPcs, UpgradePcs
  <2> QED BY <2>1, InstallBounds DEF Commands
<1>2. Complete(disk.current)' /\ Complete(disk.plist)'
  BY DEF Complete
<1>3. Journaled'
  BY DEF Journaled, Owned, IntegrationPcs, UpgradePcs
<1>4. Pending'
  BY DEF Pending, Owned, Complete
<1>5. IntegrationProgress' /\ IntegrationRollback'
  BY DEF IntegrationProgress, IntegrationRollback, IntegrationTarget, FromSwitch,
     FromRuntime, FromSeed, FromState, FromBootout, FromStarted
<1>6. UpgradeProgress' /\ UpgradeRollback'
  <2>1. Kept => Kept'
    BY DEF Kept, RecordedInvariants
  <2> QED BY <2>1 DEF UpgradeProgress, UpgradeRollback, UpgradeTarget
<1> QED BY <1>1, <1>2, <1>3, <1>4, <1>5, <1>6

\* The steps of other commands: no command of this module is in
\* progress, and what `current` and the plist name stays.
Outside == ModeCommand \/ ModeRecover \/ OutsideDies \/ OutsideRecovers

\* A state of the routing written by a mode command or its recovery.
LEMMA RouteWritten ==
  ASSUME TypeOK, NEW g \in 0..MaxGenerations, NEW p \in Phases,
         disk' = [disk EXCEPT !.gen = g, !.phase = p]
  PROVE  disk' \in Artifacts /\ disk'.current = disk.current /\ disk'.plist = disk.plist
<1>1. disk \in Artifacts
  BY DEF TypeOK
<1> QED
  BY <1>1, Zenon DEF Artifacts

\* What the steps from outside change.
LEMMA OutsideEffects ==
  ASSUME TypeOK, Outside
  PROVE  /\ cmd.pc = "idle" /\ pend' \subseteq OutsideJournals /\ faults' \in 0..MaxFaults
         /\ disk' \in Artifacts /\ disk'.current = disk.current /\ disk'.plist = disk.plist
         /\ UNCHANGED <<app, codex, dirs, staging, loaded, ij, uj, wit, cmd>>
<1>1. /\ cmd.pc = "idle"
      /\ UNCHANGED <<app, codex, dirs, staging, loaded, ij, uj, wit, cmd>>
  BY Zenon DEF Outside, ModeCommand, ModeRecover, OutsideDies, OutsideRecovers,
    Locked
<1>2. pend' \subseteq OutsideJournals
  BY DEF TypeOK, OutsideJournals, Outside, ModeCommand, ModeRecover, OutsideDies,
    OutsideRecovers
<1>3. faults' \in 0..MaxFaults
  <2>1. UNCHANGED faults \/ Faulty
    BY Zenon DEF Outside, ModeCommand, ModeRecover, OutsideDies, OutsideRecovers
  <2> QED
    BY <2>1, InstallBounds DEF TypeOK, Faulty
<1>4. disk' \in Artifacts /\ disk'.current = disk.current /\ disk'.plist = disk.plist
  <2>0. disk \in Artifacts /\ disk.gen \in 0..MaxGenerations
    BY DEF TypeOK, Artifacts
  <2>1. CASE ModeCommand
    <3>1. disk.gen + 1 \in 0..MaxGenerations
      <4>1. disk.gen < MaxGenerations
        BY <2>1, Zenon DEF ModeCommand
      <4> QED
        BY <2>0, <4>1, InstallBounds
    <3>2. \E p \in Phases : disk' = [disk EXCEPT !.gen = @ + 1, !.phase = p]
      <4>1. Switched \in Phases /\ Unsettled \subseteq Phases
        BY DEF Switched, Unsettled, Phases
      <4>2. \E p \in Unsettled \cup {Switched} :
              disk' = [disk EXCEPT !.gen = @ + 1, !.phase = p]
        BY <2>1, Zenon DEF ModeCommand
      <4> QED
        BY <4>1, <4>2, Zenon
    <3> QED
      BY <3>1, <3>2, RouteWritten, Zenon
  <2>2. CASE ModeRecover
    <3>1. CASE disk' = disk
      BY <2>0, <3>1
    <3>2. CASE \E p \in {"native_active", "relay_active"} : disk' = [disk EXCEPT !.phase = p]
      <4>1. PICK p \in Phases : disk' = [disk EXCEPT !.phase = p]
        BY <3>2, Zenon DEF Phases
      <4> QED
        BY <2>0, <4>1, Zenon DEF Artifacts
    <3> QED
      BY <2>2, <3>1, <3>2, Zenon DEF ModeRecover
  <2>3. CASE OutsideDies \/ OutsideRecovers
    <3>1. disk' = disk
      BY <2>3 DEF OutsideDies, OutsideRecovers
    <3> QED
      BY <2>0, <3>1
  <2> QED
    BY <2>1, <2>2, <2>3 DEF Outside
<1> QED
  BY <1>1, <1>2, <1>3, <1>4

\* Outside: no command is in progress, and no name changes.
LEMMA OutsideKeeps ==
  ASSUME TypeOK, InstallInv, Outside
  PROVE TypeOK' /\ InstallInv'
<1>1. TypeOK'
  BY OutsideEffects DEF TypeOK
<1>2. Complete(disk.current)' /\ Complete(disk.plist)' /\ Pending'
  BY OutsideEffects DEF InstallInv, Complete, Pending, Owned
<1>3. Journaled'
  BY OutsideEffects DEF Journaled, IntegrationPcs, UpgradePcs
<1>4. cmd'.pc = "idle"
  BY OutsideEffects
<1>5. IntegrationProgress' /\ IntegrationRollback' /\ UpgradeProgress' /\ UpgradeRollback'
  BY <1>4, NoIntegration, NoUpgrade DEF IntegrationPcs, UpgradePcs
<1> QED BY <1>1, <1>2, <1>3, <1>5 DEF InstallInv

-----------------------------------------------------------------------------
(* The theorems.                                                           *)

\* Nothing is installed, journaled or running at first.
LEMMA InstallInit == Init => TypeOK /\ InstallInv /\ Agreed
<1> SUFFICES ASSUME Init PROVE TypeOK /\ InstallInv /\ Agreed
  OBVIOUS
<1>1. TypeOK
  <2>1. NoArtifacts \in Artifacts /\ NoInvariants \in Invariants
    BY InstallBounds DEF Artifacts, NoArtifacts, Invariants, NoInvariants
  <2>2. NoIntegrationJournal \in IntegrationJournals
    BY <2>1 DEF IntegrationJournals, NoIntegrationJournal
  <2>3. NoUpgradeJournal \in UpgradeJournals
    BY <2>1 DEF UpgradeJournals, NoUpgradeJournal, MutableFiles, NoMutableFiles
  <2>4. Idle \in Commands
    BY DEF Commands, Idle
  <2>5. [r \in Runtimes |-> "none"] \in [Runtimes -> {"none", "part", "full"}]
    OBVIOUS
  <2>6. 1 \in 1..MaxVersion /\ 0 \in 0..MaxEdits /\ 0 \in 0..MaxFaults
    BY InstallBounds
  <2> QED BY <2>1, <2>2, <2>3, <2>4, <2>5, <2>6, Zenon DEF Init, TypeOK, Commands
<1>2. cmd.pc = "idle" /\ ij.stage = "none" /\ uj.phase = "none"
  BY DEF Init, Idle, NoIntegrationJournal, NoUpgradeJournal
<1>3. disk.current = None /\ disk.plist = None
  BY DEF Init, NoArtifacts
<1>4. InstallInv
  BY <1>2, <1>3, Zenon DEF InstallInv, Complete, Journaled, Pending, IntegrationProgress,
    IntegrationRollback, UpgradeProgress, UpgradeRollback, IntegrationPcs, UpgradePcs,
    FromSwitch, FromRuntime, FromSeed, FromState, FromBootout, FromStarted
<1>5. Agreed
  BY <1>2, <1>3 DEF Agreed
<1> QED BY <1>1, <1>4, <1>5

\* Every step of the two transactions, of the user and of a mode command keeps
\* the types and the invariant.
LEMMA InstallStep ==
  ASSUME TypeOK, InstallInv, Agreed, [Next]_vars
  PROVE TypeOK' /\ InstallInv'
<1>1. CASE \E candidate \in Candidates : IntegrationApply(candidate)
  BY <1>1, IntegrationApplyKeeps
<1>2. CASE IntegrationStep
  BY <1>2, IMkdirKeeps, ICopyKeeps, ISwitchKeeps, WriteJournalKeeps, WriteConfigKeeps,
    SeedNativeParkedKeeps, InstallServiceKeeps, VerifyHealthKeeps, WriteBindingKeeps,
    FinishIntegrationKeeps, RollbackBootoutKeeps, RollbackFilesKeeps,
    RollbackBootstrapKeeps, RollbackDirectoryKeeps, RollbackJournalKeeps
    DEF IntegrationStep
<1>3. CASE UpgradeStep
  BY <1>3, PrepareUpgradeRuntimeKeeps, UpgradeJournalKeeps, UpgradeRenameKeeps,
    WriteUpgradeJournalKeeps, SwitchCurrentTargetKeeps, SwitchServicePlistKeeps,
    RestartServiceKeeps, VerifyUpgradeKeeps, WriteUpgradeWitnessKeeps,
    RemoveUpgradeJournalKeeps, CompleteVerifiedUpgradeKeeps, RollbackUpgradeFilesKeeps,
    RollbackUpgradeServiceKeeps, RollbackUpgradeRuntimeKeeps
    DEF UpgradeStep
<1>4. CASE RecoverIntegration \/ ApplyUpgrade \/ RecoverUpgrade
  BY <1>4, RecoverIntegrationKeeps, ApplyUpgradeKeeps, RecoverUpgradeKeeps
<1>5. CASE \/ PrepareRuntimeFails \/ IntegrationFails
           \/ UpgradeUnjournaled \/ UpgradeFails \/ UpgradeStops
  BY <1>5, PrepareRuntimeFailsKeeps, IntegrationFailsKeeps, UpgradeUnjournaledKeeps,
    UpgradeFailsKeeps, UpgradeStopsKeeps
<1>6. CASE Crash \/ Cancel \/ ReplaceApp \/ EditCodex \/ Outside
  BY <1>6, CrashKeeps, CancelKeeps, ReplaceAppKeeps, EditCodexKeeps, OutsideKeeps
<1>7. CASE UNCHANGED vars
  <2> /\ UNCHANGED <<app, disk, codex, pend, dirs, staging>>
      /\ UNCHANGED <<loaded, ij, uj, wit, cmd, faults>>
    BY <1>7 DEF vars
  <2>1. TypeOK'
    BY DEF TypeOK
  <2>2. /\ Complete(disk.current)' /\ Complete(disk.plist)'
        /\ Journaled' /\ Pending'
    BY DEF InstallInv, Complete, Journaled, Pending, Owned, RecordedInvariants,
           IntegrationTarget, UpgradeTarget, Kept
  <2>3. IntegrationProgress' /\ IntegrationRollback'
    BY DEF InstallInv, IntegrationProgress, IntegrationRollback, Owned, Kept,
           RecordedInvariants, IntegrationTarget, Complete
  <2>4. UpgradeProgress' /\ UpgradeRollback'
    BY DEF InstallInv, UpgradeProgress, UpgradeRollback, Owned, Kept,
           RecordedInvariants, UpgradeTarget, Complete
  <2> QED
    BY <2>1, <2>2, <2>3, <2>4, Zenon DEF InstallInv
<1> QED BY <1>1, <1>2, <1>3, <1>4, <1>5, <1>6, <1>7 DEF Next, Step, Outside

\* A journal goes in one of three steps only.
LEMMA JournalsGo ==
  ASSUME TypeOK, Next
  PROVE /\ uj.phase # "none" /\ uj'.phase = "none" => RemoveUpgradeJournal
        /\ ij.stage # "none" /\ ij'.stage = "none" => FinishIntegration \/ RollbackJournal
<1>1. CASE \E candidate \in Candidates : IntegrationApply(candidate)
  BY <1>1 DEF IntegrationApply
<1>2. CASE IntegrationStep
  <2>1. CASE WriteJournal
    BY <2>1, Zenon DEF WriteJournal, TypeOK, IntegrationJournals
  <2> QED BY <1>2, <2>1, Zenon DEF IntegrationStep, IMkdir, ICopy, ISwitch, WriteConfig,
    SeedNativeParked, InstallService, VerifyHealth, WriteBinding, FinishIntegration,
    RollbackBootout, RollbackFiles, RollbackBootstrap, RollbackDirectory, RollbackJournal
<1>3. CASE UpgradeStep
  <2>1. CASE WriteUpgradeJournal
    <3>1. PICK p \in {"runtime_staged", "switched", "restarting", "verified"} :
            uj' = [uj EXCEPT !.phase = p]
      BY <2>1 DEF WriteUpgradeJournal
    <3>2. uj'.phase # "none"
      BY <3>1 DEF TypeOK, UpgradeJournals
    <3>3. ij' = ij
      BY <2>1 DEF WriteUpgradeJournal
    <3> QED BY <3>2, <3>3
  <2>2. CASE UpgradeJournal
    BY <2>2 DEF UpgradeJournal
  <2>3. CASE RemoveUpgradeJournal
    BY <2>3 DEF RemoveUpgradeJournal
  <2>4. CASE \/ PrepareUpgradeRuntime \/ UpgradeRename \/ SwitchCurrentTarget
             \/ SwitchServicePlist \/ RestartService \/ VerifyUpgrade
             \/ WriteUpgradeWitness \/ CompleteVerifiedUpgrade \/ RollbackUpgradeFiles
             \/ RollbackUpgradeService \/ RollbackUpgradeRuntime
    <3>1. ij' = ij /\ uj' = uj
      BY <2>4, Zenon DEF PrepareUpgradeRuntime, UpgradeRename, SwitchCurrentTarget,
        SwitchServicePlist, RestartService, VerifyUpgrade, WriteUpgradeWitness,
        CompleteVerifiedUpgrade, RollbackUpgradeFiles, RollbackUpgradeService,
        RollbackUpgradeRuntime
    <3> QED BY <3>1
  <2> QED BY <1>3, <2>1, <2>2, <2>3, <2>4 DEF UpgradeStep
<1>4. CASE RecoverIntegration \/ ApplyUpgrade \/ RecoverUpgrade
  BY <1>4 DEF RecoverIntegration, ApplyUpgrade, RecoverUpgrade
<1>5. CASE \/ PrepareRuntimeFails \/ IntegrationFails
           \/ UpgradeUnjournaled \/ UpgradeFails \/ UpgradeStops
  BY <1>5 DEF PrepareRuntimeFails, IntegrationFails, UpgradeUnjournaled, UpgradeFails,
    UpgradeStops
<1>6. CASE Crash \/ Cancel \/ ReplaceApp \/ EditCodex \/ Outside
  BY <1>6, OutsideEffects DEF Crash, Cancel, ReplaceApp, EditCodex
<1> QED BY <1>1, <1>2, <1>3, <1>4, <1>5, <1>6 DEF Next, Step, Outside

\* An upgrade journal goes with one runtime named, and running.
LEMMA UpgradeWhole ==
  ASSUME TypeOK, InstallInv, RemoveUpgradeJournal
  PROVE /\ disk.current = disk.plist /\ loaded = disk.current
        /\ \/ disk.current = uj.previous
           \/ disk.current = uj.new /\ wit = uj.new
        /\ [RecordedInvariants EXCEPT !.codex = 0] = [uj.inv EXCEPT !.codex = 0]
<1>1. CASE cmd.pc = "u_finish"
  BY <1>1 DEF InstallInv, UpgradeProgress, Kept
<1>2. CASE cmd.pc = "ur_journal"
  BY <1>2 DEF InstallInv, UpgradeRollback, Kept
<1> QED BY <1>1, <1>2 DEF RemoveUpgradeJournal

\* An integration journal goes with its snapshot restored, or with all six
\* artifacts there and their runtime running.
LEMMA IntegrationWhole ==
  ASSUME TypeOK, InstallInv, FinishIntegration \/ RollbackJournal
  PROVE \/ disk = ij.files
        \/ Presence = 6 /\ Ready /\ disk.current = disk.plist /\ loaded = disk.current
<1>1. CASE RollbackJournal
  BY <1>1, Zenon DEF RollbackJournal, InstallInv, IntegrationRollback
<1>2. CASE FinishIntegration
  <2>1. /\ disk.current = IntegrationTarget /\ disk.plist = IntegrationTarget
        /\ loaded = IntegrationTarget /\ disk.config # 0 /\ disk.gen # 0 /\ disk.binding
    BY <1>2, Zenon DEF FinishIntegration, InstallInv, IntegrationProgress, FromRuntime, FromSeed,
      FromState, FromBootout, FromStarted
  <2>2. IntegrationTarget # None
    BY DEF IntegrationTarget, None
  <2> QED BY <2>1, <2>2 DEF Presence, Ready, ServiceActive
<1> QED BY <1>1, <1>2

\* Nothing that leaves the two journals alone takes `current` and the plist apart
\* while neither is pending; each that goes leaves them together, and each that
\* comes records them so.
LEMMA AgreedStep ==
  ASSUME TypeOK, InstallInv, Agreed, [Next]_vars
  PROVE  Agreed'
<1> DEFINE Same == /\ UNCHANGED <<ij, uj>>
                   /\ disk'.current = disk.current /\ disk'.plist = disk.plist
<1>0. Same => Agreed'
  BY DEF Agreed
<1>1. CASE \E candidate \in Candidates : IntegrationApply(candidate)
  BY <1>1 DEF IntegrationApply, Agreed
<1>2. CASE IntegrationStep
  <2>1. CASE FinishIntegration \/ RollbackJournal
    <3>1. ij'.stage = "none" /\ disk' = disk /\ uj' = uj /\ ij.stage # "none"
      BY <2>1 DEF FinishIntegration, RollbackJournal, NoIntegrationJournal, InstallInv,
        Journaled, IntegrationPcs
    <3>2. uj.phase = "none" => disk.current = disk.plist
      BY <2>1, <3>1, IntegrationWhole DEF Agreed
    <3> QED
      BY <3>1, <3>2 DEF Agreed
  <2>2. CASE WriteJournal
    <3>1. /\ ij'.files = ij.files /\ ij'.stage # "none" /\ uj' = uj /\ disk' = disk
          /\ ij.stage # "none"
      <4>1. /\ cmd.pc \in {"i_runtime", "i_state", "i_started"} /\ uj' = uj /\ disk' = disk
            /\ \E g \in {"runtime_prepared", "state_prepared", "service_started"} :
                 ij' = [ij EXCEPT !.stage = g, !.made = cmd.made]
        BY <2>2, Zenon DEF WriteJournal, At
      <4>2. ij'.files = ij.files /\ ij'.stage # "none"
        BY <4>1 DEF TypeOK, IntegrationJournals
      <4>3. ij.stage # "none"
        BY <4>1 DEF InstallInv, Journaled, IntegrationPcs
      <4> QED
        BY <4>1, <4>2, <4>3
    <3> QED
      BY <3>1 DEF Agreed
  <2>3. CASE ~FinishIntegration /\ ~RollbackJournal /\ ~WriteJournal
    <3>1. ij' = ij /\ uj' = uj /\ cmd.pc \in IntegrationPcs
      BY <1>2, <2>3, Zenon DEF IntegrationStep, IMkdir, ICopy, ISwitch, WriteConfig,
        SeedNativeParked, InstallService, VerifyHealth, WriteBinding, RollbackBootout,
        RollbackFiles, RollbackBootstrap, RollbackDirectory, At, IntegrationPcs
    <3>2. ij.stage # "none"
      BY <3>1 DEF InstallInv, Journaled
    <3> QED
      BY <3>1, <3>2 DEF Agreed
  <2> QED
    BY <2>1, <2>2, <2>3
<1>3. CASE UpgradeStep
  <2>1. CASE RemoveUpgradeJournal
    <3>1. disk.current = disk.plist /\ disk' = disk /\ ij' = ij /\ uj'.phase = "none"
      BY <2>1, UpgradeWhole DEF RemoveUpgradeJournal, NoUpgradeJournal
    <3>2. ij.stage = "none"
      BY <2>1 DEF RemoveUpgradeJournal, InstallInv, Journaled, UpgradePcs
    <3> QED
      BY <3>1, <3>2 DEF Agreed
  <2>2. CASE UpgradeJournal
    <3>1. ij.stage = "none" /\ uj.phase = "none"
      BY <2>2 DEF UpgradeJournal, At, InstallInv, Journaled, UpgradePcs
    <3>2. disk.current = disk.plist
      BY <3>1 DEF Agreed
    <3>3. /\ uj'.phase = "prepared" /\ uj'.previous = disk.current
          /\ uj'.files.current = disk.current /\ uj'.files.plist = disk.plist
      BY <2>2 DEF UpgradeJournal
    <3> QED
      BY <3>2, <3>3 DEF Agreed
  <2>3. CASE WriteUpgradeJournal
    <3>1. uj.phase # "none"
      BY <2>3 DEF WriteUpgradeJournal, At, InstallInv, Journaled, UpgradePcs
    <3>2. PICK p \in {"runtime_staged", "switched", "restarting", "verified"} :
            uj' = [uj EXCEPT !.phase = p]
      BY <2>3 DEF WriteUpgradeJournal
    <3>3. uj'.phase # "none" /\ uj'.files = uj.files /\ uj'.previous = uj.previous
      BY <3>2 DEF TypeOK, UpgradeJournals
    <3> QED
      BY <3>1, <3>3 DEF Agreed
  <2>4. CASE PrepareUpgradeRuntime
    BY <1>0, <2>4, Zenon DEF PrepareUpgradeRuntime
  <2>5. CASE \/ UpgradeRename \/ SwitchCurrentTarget
             \/ SwitchServicePlist \/ RestartService \/ VerifyUpgrade
             \/ WriteUpgradeWitness \/ CompleteVerifiedUpgrade \/ RollbackUpgradeFiles
             \/ RollbackUpgradeService \/ RollbackUpgradeRuntime
    <3>1. ij' = ij /\ uj' = uj
      BY <2>5, Zenon DEF UpgradeRename, SwitchCurrentTarget,
        SwitchServicePlist, RestartService, VerifyUpgrade, WriteUpgradeWitness,
        CompleteVerifiedUpgrade, RollbackUpgradeFiles, RollbackUpgradeService,
        RollbackUpgradeRuntime
    <3>2. cmd.pc \in UpgradePcs \ {"u_stage", "u_copy", "u_journal"}
      BY <2>5 DEF UpgradePcs, At, UpgradeRename, SwitchCurrentTarget,
        SwitchServicePlist, RestartService, VerifyUpgrade, WriteUpgradeWitness,
        CompleteVerifiedUpgrade, RollbackUpgradeFiles, RollbackUpgradeService,
        RollbackUpgradeRuntime
    <3>3. uj.phase # "none"
      BY <3>2 DEF InstallInv, Journaled
    <3> QED
      BY <3>1, <3>3 DEF Agreed
  <2> QED
    BY <1>3, <2>1, <2>2, <2>3, <2>4, <2>5 DEF UpgradeStep
<1>4. CASE RecoverIntegration \/ ApplyUpgrade \/ RecoverUpgrade
  BY <1>0, <1>4, Zenon DEF RecoverIntegration, ApplyUpgrade, RecoverUpgrade
<1>5. CASE \/ PrepareRuntimeFails \/ IntegrationFails
           \/ UpgradeUnjournaled \/ UpgradeFails \/ UpgradeStops
  BY <1>0, <1>5, Zenon DEF PrepareRuntimeFails, IntegrationFails, UpgradeUnjournaled,
    UpgradeFails, UpgradeStops
<1>6. CASE Crash \/ Cancel \/ ReplaceApp \/ EditCodex
  BY <1>0, <1>6, Zenon DEF Crash, Cancel, ReplaceApp, EditCodex
<1>7. CASE Outside
  BY <1>0, <1>7, OutsideEffects, Zenon
<1>8. CASE UNCHANGED vars
  BY <1>0, <1>8, Zenon DEF vars
<1> QED
  BY <1>1, <1>2, <1>3, <1>4, <1>5, <1>6, <1>7, <1>8 DEF Next, Step, Outside

\* Both transactions are always where the invariant says they are.
LEMMA InstallAlways == Spec => [](TypeOK /\ InstallInv /\ Agreed)
<1>1. TypeOK /\ InstallInv /\ Agreed /\ [Next]_vars => (TypeOK /\ InstallInv /\ Agreed)'
  BY InstallStep, AgreedStep
<1> QED BY <1>1, InstallInit, PTL DEF Spec

\* No runtime that `current`, the plist or a rollback names is ever missing or
\* partial: prepareRuntime, rollback and rollbackUpgrade remove or rewrite only
\* what nothing else names, whichever of them was killed before.
THEOREM NamedRuntimesKept == Spec => []RuntimesKept
<1>1. TypeOK /\ InstallInv => RuntimesKept
  BY DEF InstallInv, Complete, Pending, RuntimesKept, ReferencedRuntimeKept,
    PreviousRuntimeKept
<1> QED BY <1>1, InstallAlways, PTL

\* When an upgrade is resolved, by the command that began it or by a recovery,
\* `current`, the plist and launchd agree on the previous runtime or on the new
\* one with its witness; when an integration is, the six artifacts are the ones
\* it found or all of them are installed and running (FinishIntegration,
\* RollbackJournal, RemoveUpgradeJournal).
THEOREM TransactionsWhole == Spec => ResolvedWhole
<1>1. TypeOK /\ InstallInv /\ [Next]_vars
        => [UpgradeResolvedWhole /\ IntegrationResolvedWhole]_vars
  <2> SUFFICES ASSUME TypeOK, InstallInv, Next
               PROVE  UpgradeResolvedWhole /\ IntegrationResolvedWhole
    OBVIOUS
  <2>1. UpgradeResolvedWhole
    BY JournalsGo, UpgradeWhole DEF UpgradeResolvedWhole
  <2>2. IntegrationResolvedWhole
    BY JournalsGo, IntegrationWhole DEF IntegrationResolvedWhole
  <2> QED BY <2>1, <2>2
<1> QED BY <1>1, InstallAlways, PTL DEF Spec, ResolvedWhole
=============================================================================
