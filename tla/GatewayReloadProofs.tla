------------------------- MODULE GatewayReloadProofs -------------------------
(***************************************************************************)
(* What a gateway reload keeps, for any set of addresses and any number of *)
(* generations and faults.                                                 *)
(*                                                                         *)
(* An open relay serves the address on disk: the config is written only at *)
(* points where the state is closed (ClosedPCs), and from the swap of the  *)
(* runtime to the end of the command the runtime is the one of the config  *)
(* (ServedPCs), so neither the final state nor the removal of the journal  *)
(* opens an old runtime.                                                   *)
(*                                                                         *)
(* An edit is kept: a command that works on a journal has either begun the *)
(* reload itself, after the edit (FreshApply), or accepted the config as   *)
(* one of the two files the journal names (AcceptedFile).                  *)
(***************************************************************************)
EXTENDS GatewayReload, TLAPS

RecoveryActs == {"complete", "rollback"}

RecoveryPCs == {"again", "again_applying", "again_journal", "again_park", "swap",
                "final", "unjournal", "await", "unbackup", "rewrite", "fail"}

CtlShape ==
  /\ ctl.pc = "idle" => ctl = Idle
  /\ ctl.pc # "idle" => ctl.act # "none" /\ ctl.target \in Gateways
  /\ ctl.act \in {"apply", "undo"} => ctl.origin \in Gateways /\ ctl.read \in Files
  /\ ctl.act \in RecoveryActs => ctl.pc \in RecoveryPCs

TypeInv == TypeOK /\ CtlShape

Served == ~drift /\ run # NoGateway => run = cfg.gateway

ClosedPCs == {"store", "stored", "restore", "journal", "park", "write", "mutated",
              "credentials", "undo", "undo_journal", "again", "again_applying",
              "again_journal", "again_park", "swap"}

ServedPCs == {"final", "await", "unjournal", "unbackup", "rewrite"}

ServeInv ==
  /\ st.phase = "relay_active" /\ ~journal.found => Served
  /\ ctl.pc \in ClosedPCs => st.phase # "relay_active"
  /\ ctl.pc \in ServedPCs => Served

FreshApply ==
  /\ ctl.pc = "lock" => ~journal.found
  /\ ctl.act \in {"apply", "undo"} /\ ctl.pc # "lock" => foreign # "between"

AcceptedFile ==
  ctl.act \in RecoveryActs =>
    /\ Canonical(ctl.target) \in {ctl.j.origin, ctl.j.target}
    /\ journal.found => journal.origin = ctl.j.origin /\ journal.target = ctl.j.target
    /\ foreign = "between" => cfg \in {ctl.j.origin, ctl.j.target}

EditInv == FreshApply /\ AcceptedFile

-----------------------------------------------------------------------------
(* Types.                                                                  *)

\* The initial files and fields have their types.
LEMMA InitTypes == Init => TypeOK
<1> SUFFICES ASSUME Init PROVE TypeOK
  OBVIOUS
<1> USE GatewayAssumption
<1>1. st \in States /\ snap \in Snaps
  BY DEF Init, States, Snaps, ActivePhases
<1>2. ctl \in Ctls /\ journal \in Journals
  BY DEF Init, Ctls, Journals, States, ActivePhases, PCs, Idle, NoJournal, NoFile, Files
<1>3. run \in Gateways \cup {NoGateway}
  BY DEF Init, Files
<1>4. up \in BOOLEAN /\ drift \in BOOLEAN
  BY Zenon DEF Init
<1>5. cfg \in Files /\ backup \in Files \cup {NoFile}
  BY DEF Init
<1>6. foreign \in {"no", "between", "during"} /\ faults \in 0..MaxFaults
  BY DEF Init
<1> QED
  BY <1>1, <1>2, <1>3, <1>4, <1>5, <1>6, Zenon DEF TypeOK

\* The idle command is well formed.
LEMMA IdleType == Idle \in Ctls
BY DEF Ctls, PCs, States, ActivePhases, Journals, Idle, NoJournal, NoFile, Files

\* Reading the files gives a snapshot.
LEMMA RefreshType == ASSUME TypeOK PROVE Refresh \in Snaps
BY DEF TypeOK, Refresh, Snaps, Journals

\* What an idle command remembers.
LEMMA IdleFields == Idle.pc = "idle" /\ Idle.act = "none"
BY DEF Idle

\* A file written by config.Write is a file.
LEMMA CanonicalType == ASSUME NEW g \in Gateways PROVE Canonical(g) \in Files
BY DEF Canonical, Files

\* A fault is counted within its bound.
LEMMA FaultType ==
  ASSUME TypeOK, Faulty \/ UNCHANGED faults
  PROVE  faults' \in 0..MaxFaults
BY GatewayAssumption DEF TypeOK, Faulty

\* A command that moves on or fails keeps its memory, and a fault is counted
\* within its bound.
LEMMA Moved ==
  ASSUME TypeOK, NEW pc \in PCs, Goes(pc) \/ Fails(pc)
  PROVE  /\ ctl' \in Ctls /\ faults' \in 0..MaxFaults
         /\ ctl'.pc = pc /\ ctl'.act = ctl.act /\ ctl'.s = ctl.s
         /\ ctl'.read = ctl.read /\ ctl'.origin = ctl.origin
         /\ ctl'.target = ctl.target /\ ctl'.j = ctl.j
BY GatewayAssumption DEF TypeOK, Ctls, Goes, Fails, Faulty

\* A command that ends, in order or by a fault, leaves the idle one.
LEMMA Ended ==
  ASSUME TypeOK, Ends \/ (Faulty /\ ctl' = Idle)
  PROVE  ctl' = Idle /\ ctl' \in Ctls /\ faults' \in 0..MaxFaults /\ CtlShape'
BY GatewayAssumption, IdleType DEF TypeOK, Ends, Faulty, CtlShape, Idle, RecoveryActs

\* The fields of a command.
LEMMA CtlFields ==
  ASSUME TypeOK
  PROVE  /\ ctl.pc \in PCs /\ ctl.s \in States /\ ctl.j \in Journals
         /\ ctl.act \in {"none", "apply", "undo", "complete", "rollback"}
BY DEF TypeOK, Ctls

\* The states a command saves.
LEMMA SavedTypes ==
  ASSUME NEW s \in States
  PROVE  Applying(s) \in States /\ Final(s) \in States /\ Recovery(s) \in States
BY DEF States, Applying, Final, Recovery, ActivePhases

\* The journals a command writes.
LEMMA JournalTypes ==
  /\ NoJournal \in Journals
  /\ \A s \in States, f, g \in Files : NewJournal(s, f, g) \in Journals
  /\ \A j \in Journals, x \in {"prepared", "config_mutated"} :
       [j EXCEPT !.stage = x] \in Journals
BY DEF Journals, NoJournal, NewJournal, States

\* A command that stores a new state or journal in its memory.
LEMMA Updated ==
  ASSUME TypeOK, NEW pc \in PCs, NEW s \in States, NEW j \in Journals,
         \/ ctl' = [ctl EXCEPT !.pc = pc, !.s = s, !.j = j]
         \/ ctl' = [ctl EXCEPT !.pc = pc, !.s = s] /\ j = ctl.j
         \/ ctl' = [ctl EXCEPT !.pc = pc, !.j = j] /\ s = ctl.s
  PROVE  /\ ctl' \in Ctls
         /\ ctl'.pc = pc /\ ctl'.act = ctl.act /\ ctl'.s = s
         /\ ctl'.read = ctl.read /\ ctl'.origin = ctl.origin
         /\ ctl'.target = ctl.target /\ ctl'.j = j
BY Zenon DEF TypeOK, Ctls

\* The steps of an apply keep types and shape.
LEMMA ApplyTypes == ASSUME TypeInv, Apply PROVE TypeInv'
<1> USE DEF TypeInv
<1>1. CASE GatewayApply
  <2>1. ctl' \in Ctls /\ faults' \in 0..MaxFaults /\ CtlShape'
    BY <1>1, Moved, Ended DEF GatewayApply, PCs, CtlShape, RecoveryActs, RecoveryPCs
  <2>2. cfg' \in Files /\ backup' \in Files \cup {NoFile} /\ journal' \in Journals /\ st' \in States
    BY <1>1, CanonicalType DEF GatewayApply, TypeOK, CtlShape, Files3, RecoveryActs, RecoveryPCs
  <2>3. UNCHANGED <<up, snap, run, drift>> /\ foreign' \in {"no", "between", "during"}
    BY <1>1 DEF GatewayApply, relay, TypeOK
  <2> QED
    BY <2>1, <2>2, <2>3 DEF TypeOK
<1>2. CASE StoreConfig
  <2>1. ctl' \in Ctls /\ faults' \in 0..MaxFaults /\ CtlShape'
    BY <1>2, Moved, Ended DEF StoreConfig, PCs, CtlShape, RecoveryActs, RecoveryPCs
  <2>2. cfg' \in Files /\ backup' \in Files \cup {NoFile} /\ journal' \in Journals /\ st' \in States
    BY <1>2, CanonicalType DEF StoreConfig, TypeOK, CtlShape, Files3, RecoveryActs, RecoveryPCs
  <2>3. UNCHANGED <<up, snap, run, drift>> /\ foreign' \in {"no", "between", "during"}
    BY <1>2 DEF StoreConfig, relay, TypeOK
  <2> QED
    BY <2>1, <2>2, <2>3 DEF TypeOK
<1>3. CASE CheckStored
  <2>1. ctl' \in Ctls /\ faults' \in 0..MaxFaults /\ CtlShape'
    BY <1>3, Moved, Ended DEF CheckStored, PCs, CtlShape, RecoveryActs, RecoveryPCs
  <2>2. cfg' \in Files /\ backup' \in Files \cup {NoFile} /\ journal' \in Journals /\ st' \in States
    BY <1>3, CanonicalType DEF CheckStored, TypeOK, CtlShape, Files3, RecoveryActs, RecoveryPCs
  <2>3. UNCHANGED <<up, snap, run, drift>> /\ foreign' \in {"no", "between", "during"}
    BY <1>3 DEF CheckStored, relay, TypeOK
  <2> QED
    BY <2>1, <2>2, <2>3 DEF TypeOK
<1>4. CASE RestoreStored
  <2>1. ctl' \in Ctls /\ faults' \in 0..MaxFaults /\ CtlShape'
    BY <1>4, Moved, Ended DEF RestoreStored, PCs, CtlShape, RecoveryActs, RecoveryPCs
  <2>2. cfg' \in Files /\ backup' \in Files \cup {NoFile} /\ journal' \in Journals /\ st' \in States
    BY <1>4, CtlFields, CanonicalType DEF RestoreStored, TypeOK, CtlShape, Files3, RecoveryActs, RecoveryPCs
  <2>3. UNCHANGED <<up, snap, run, drift>> /\ foreign' \in {"no", "between", "during"}
    BY <1>4 DEF RestoreStored, relay, TypeOK
  <2> QED
    BY <2>1, <2>2, <2>3 DEF TypeOK
<1>5. CASE CreateBackup
  <2>1. ctl' \in Ctls /\ faults' \in 0..MaxFaults /\ CtlShape'
    BY <1>5, Moved, Ended DEF CreateBackup, PCs, CtlShape, RecoveryActs, RecoveryPCs
  <2>2. cfg' \in Files /\ backup' \in Files \cup {NoFile} /\ journal' \in Journals /\ st' \in States
    BY <1>5, CanonicalType DEF CreateBackup, TypeOK, CtlShape, Files3, RecoveryActs, RecoveryPCs
  <2>3. UNCHANGED <<up, snap, run, drift>> /\ foreign' \in {"no", "between", "during"}
    BY <1>5 DEF CreateBackup, relay, TypeOK
  <2> QED
    BY <2>1, <2>2, <2>3 DEF TypeOK
<1>6. CASE SaveApplying
  <2>1. ctl' \in Ctls /\ faults' \in 0..MaxFaults /\ CtlShape'
    <3> DEFINE j == NewJournal(st', ctl.read, Canonical(ctl.target))
    <3>1. CASE st' = Applying(ctl.s) /\ UNCHANGED faults
               /\ ctl' = [ctl EXCEPT !.pc = "journal", !.s = st', !.j = j]
      <4>1. ctl.read \in Files /\ ctl.target \in Gateways /\ ctl.act \in {"apply", "undo"}
        BY <1>6, CtlFields DEF SaveApplying, CtlShape, RecoveryActs, RecoveryPCs
      <4>2. st' \in States /\ j \in Journals /\ "journal" \in PCs /\ ctl.pc = "applying"
        BY <1>6, <3>1, <4>1, CtlFields, SavedTypes, JournalTypes, CanonicalType DEF PCs, SaveApplying
      <4> HIDE DEF j
      <4>3. /\ ctl' \in Ctls /\ ctl'.pc = "journal" /\ ctl'.act = ctl.act
            /\ ctl'.read = ctl.read /\ ctl'.origin = ctl.origin /\ ctl'.target = ctl.target
        BY <3>1, <4>2, Updated, Zenon
      <4>4. faults' \in 0..MaxFaults
        BY <3>1, FaultType
      <4>5. CtlShape'
        BY <4>1, <4>2, <4>3 DEF CtlShape, RecoveryActs
      <4> QED
        BY <4>3, <4>4, <4>5
    <3> QED
      BY <1>6, <3>1, Ended DEF SaveApplying
  <2>2. cfg' \in Files /\ backup' \in Files \cup {NoFile} /\ journal' \in Journals /\ st' \in States
    BY <1>6, CtlFields, SavedTypes, JournalTypes, CanonicalType DEF SaveApplying, TypeOK, CtlShape, Files3, RecoveryActs, RecoveryPCs
  <2>3. UNCHANGED <<up, snap, run, drift>> /\ foreign' \in {"no", "between", "during"}
    BY <1>6 DEF SaveApplying, relay, TypeOK
  <2> QED
    BY <2>1, <2>2, <2>3 DEF TypeOK
<1>7. CASE WriteJournal
  <2>1. ctl' \in Ctls /\ faults' \in 0..MaxFaults /\ CtlShape'
    <3>1. CASE Faulty /\ ctl' = [ctl EXCEPT !.pc = "undo", !.j = NoJournal]
      <4>1. "undo" \in PCs /\ ctl.pc = "journal"
        BY <1>7 DEF PCs, WriteJournal
      <4>2. faults' \in 0..MaxFaults
        BY <3>1, FaultType
      <4> QED
        BY <3>1, <4>1, <4>2, CtlFields, JournalTypes, Updated, Zenon DEF CtlShape, RecoveryActs, RecoveryPCs
    <3> QED
      BY <1>7, <3>1, Moved DEF WriteJournal, PCs, CtlShape, RecoveryActs, RecoveryPCs
  <2>2. cfg' \in Files /\ backup' \in Files \cup {NoFile} /\ journal' \in Journals /\ st' \in States
    BY <1>7, CtlFields, SavedTypes, JournalTypes, CanonicalType DEF WriteJournal, TypeOK, CtlShape, Files3, RecoveryActs, RecoveryPCs
  <2>3. UNCHANGED <<up, snap, run, drift>> /\ foreign' \in {"no", "between", "during"}
    BY <1>7 DEF WriteJournal, relay, TypeOK
  <2> QED
    BY <2>1, <2>2, <2>3 DEF TypeOK
<1>8. CASE AwaitParked("park", "write", "undo")
  <2>1. ctl' \in Ctls /\ faults' \in 0..MaxFaults /\ CtlShape'
    BY <1>8, Moved, Ended DEF AwaitParked, PCs, CtlShape, RecoveryActs, RecoveryPCs
  <2>2. cfg' \in Files /\ backup' \in Files \cup {NoFile} /\ journal' \in Journals /\ st' \in States
    BY <1>8, CanonicalType DEF AwaitParked, TypeOK, CtlShape, Files3, RecoveryActs, RecoveryPCs
  <2>3. UNCHANGED <<up, snap, run, drift>> /\ foreign' \in {"no", "between", "during"}
    BY <1>8 DEF AwaitParked, relay, TypeOK
  <2> QED
    BY <2>1, <2>2, <2>3 DEF TypeOK
<1>9. CASE WriteConfig
  <2>1. ctl' \in Ctls /\ faults' \in 0..MaxFaults /\ CtlShape'
    BY <1>9, Moved, Ended DEF WriteConfig, PCs, CtlShape, RecoveryActs, RecoveryPCs
  <2>2. cfg' \in Files /\ backup' \in Files \cup {NoFile} /\ journal' \in Journals /\ st' \in States
    BY <1>9, CanonicalType DEF WriteConfig, TypeOK, CtlShape, Files3, RecoveryActs, RecoveryPCs
  <2>3. UNCHANGED <<up, snap, run, drift>> /\ foreign' \in {"no", "between", "during"}
    BY <1>9 DEF WriteConfig, relay, TypeOK
  <2> QED
    BY <2>1, <2>2, <2>3 DEF TypeOK
<1>10. CASE WriteMutatedJournal
  <2>1. ctl' \in Ctls /\ faults' \in 0..MaxFaults /\ CtlShape'
    <3> DEFINE j == [ctl.j EXCEPT !.stage = "config_mutated"]
    <3>1. CASE ctl' = [ctl EXCEPT !.pc = "credentials", !.j = j] /\ UNCHANGED faults
      <4>1. "credentials" \in PCs /\ ctl.pc = "mutated" /\ j \in Journals
        BY <1>10, CtlFields, JournalTypes, Zenon DEF PCs, WriteMutatedJournal
      <4> HIDE DEF j
      <4>2. faults' \in 0..MaxFaults
        BY <3>1, FaultType
      <4> QED
        BY <3>1, <4>1, <4>2, CtlFields, Updated, Zenon DEF CtlShape, RecoveryActs, RecoveryPCs
    <3> QED
      BY <1>10, <3>1, Moved DEF WriteMutatedJournal, PCs, CtlShape, RecoveryActs, RecoveryPCs
  <2>2. cfg' \in Files /\ backup' \in Files \cup {NoFile} /\ journal' \in Journals /\ st' \in States
    BY <1>10, CtlFields, SavedTypes, JournalTypes, CanonicalType, Zenon DEF WriteMutatedJournal, TypeOK, CtlShape, Files3, RecoveryActs, RecoveryPCs
  <2>3. UNCHANGED <<up, snap, run, drift>> /\ foreign' \in {"no", "between", "during"}
    BY <1>10 DEF WriteMutatedJournal, relay, TypeOK
  <2> QED
    BY <2>1, <2>2, <2>3 DEF TypeOK
<1>11. CASE CheckCredentials
  <2>1. ctl' \in Ctls /\ faults' \in 0..MaxFaults /\ CtlShape'
    BY <1>11, Moved, Ended DEF CheckCredentials, PCs, CtlShape, RecoveryActs, RecoveryPCs
  <2>2. cfg' \in Files /\ backup' \in Files \cup {NoFile} /\ journal' \in Journals /\ st' \in States
    BY <1>11, CanonicalType DEF CheckCredentials, TypeOK, CtlShape, Files3, RecoveryActs, RecoveryPCs
  <2>3. UNCHANGED <<up, snap, run, drift>> /\ foreign' \in {"no", "between", "during"}
    BY <1>11 DEF CheckCredentials, relay, TypeOK
  <2> QED
    BY <2>1, <2>2, <2>3 DEF TypeOK
<1>12. CASE UndoConfig
  <2>1. ctl' \in Ctls /\ faults' \in 0..MaxFaults /\ CtlShape'
    <3>1. CASE ctl' = [ctl EXCEPT !.pc = "undo_journal", !.act = "undo"] /\ UNCHANGED faults
      <4>1. /\ ctl' \in Ctls /\ ctl'.pc = "undo_journal" /\ ctl'.act = "undo"
            /\ ctl'.origin = ctl.origin /\ ctl'.read = ctl.read /\ ctl'.target = ctl.target
        BY <3>1, Zenon DEF TypeOK, Ctls, PCs
      <4>2. ctl.pc = "undo" /\ ctl.act \in {"apply", "undo"}
        BY <1>12, CtlFields DEF UndoConfig, CtlShape, RecoveryActs, RecoveryPCs
      <4> QED
        BY <3>1, <4>1, <4>2, FaultType DEF CtlShape, RecoveryActs
    <3> QED
      BY <1>12, <3>1, Moved DEF UndoConfig, PCs, CtlShape, RecoveryActs, RecoveryPCs
  <2>2. cfg' \in Files /\ backup' \in Files \cup {NoFile} /\ journal' \in Journals /\ st' \in States
    BY <1>12, CtlFields, SavedTypes, JournalTypes, CanonicalType DEF UndoConfig, TypeOK, CtlShape, Files3, RecoveryActs, RecoveryPCs
  <2>3. UNCHANGED <<up, snap, run, drift>> /\ foreign' \in {"no", "between", "during"}
    BY <1>12 DEF UndoConfig, relay, TypeOK
  <2> QED
    BY <2>1, <2>2, <2>3 DEF TypeOK
<1>13. CASE UndoJournal
  <2> DEFINE j == IF ctl.j.found THEN [ctl.j EXCEPT !.stage = "prepared"]
                  ELSE NewJournal(ctl.s, Canonical(ctl.origin), Canonical(ctl.origin))
  <2>0. ctl.pc = "undo_journal" /\ ctl.act \in {"apply", "undo"} /\ j \in Journals
    <3>1. ctl.pc = "undo_journal" /\ ctl.act \in {"apply", "undo"} /\ ctl.origin \in Gateways
      BY <1>13, CtlFields DEF UndoJournal, CtlShape, RecoveryActs, RecoveryPCs
    <3> QED
      BY <3>1, CtlFields, JournalTypes, CanonicalType, Zenon
  <2>1. ctl' \in Ctls /\ faults' \in 0..MaxFaults /\ CtlShape'
    <3>1. CASE ctl' = [ctl EXCEPT !.pc = "swap", !.j = j] /\ UNCHANGED faults
      <4> HIDE DEF j
      <4>1. "swap" \in PCs
        BY DEF PCs
      <4> QED
        BY <2>0, <3>1, <4>1, FaultType, CtlFields, Updated, Zenon DEF CtlShape, RecoveryActs, RecoveryPCs
    <3> QED
      BY <1>13, <3>1, Moved DEF UndoJournal, PCs, CtlShape, RecoveryActs, RecoveryPCs
  <2>2. cfg' \in Files /\ backup' \in Files \cup {NoFile} /\ journal' \in Journals /\ st' \in States
    BY <1>13, <2>0 DEF UndoJournal, TypeOK
  <2>3. UNCHANGED <<up, snap, run, drift>> /\ foreign' \in {"no", "between", "during"}
    BY <1>13 DEF UndoJournal, relay, TypeOK
  <2> QED
    BY <2>1, <2>2, <2>3 DEF TypeOK
<1> QED
  BY <1>1, <1>2, <1>3, <1>4, <1>5, <1>6, <1>7, <1>8, <1>9, <1>10, <1>11, <1>12, <1>13 DEF Apply

\* The steps of a recovery keep types and shape.
LEMMA AgainTypes == ASSUME TypeInv, Again PROVE TypeInv'
<1> USE DEF TypeInv
<1>1. CASE WriteSelected
  <2>1. ctl' \in Ctls /\ faults' \in 0..MaxFaults /\ CtlShape'
    BY <1>1, Moved, Ended DEF WriteSelected, PCs, CtlShape, RecoveryActs, RecoveryPCs
  <2>2. cfg' \in Files
    BY <1>1, CanonicalType DEF WriteSelected, TypeOK, CtlShape
  <2> QED
    BY <1>1, <2>1, <2>2 DEF WriteSelected, TypeOK, relay
<1>2. CASE ReplaceApplying
  <2> DEFINE j == [ctl.j EXCEPT !.gen = ctl.s.gen + 1,
                                !.stage = IF ctl.act = "complete" THEN "config_mutated"
                                          ELSE "prepared"]
  <2>1. ctl.s.gen + 1 \in Nat /\ Applying(ctl.s) \in States /\ "again_journal" \in PCs
    BY CtlFields, SavedTypes DEF States, PCs
  <2>0. j \in Journals
    BY <2>1, CtlFields, Zenon DEF Journals
  <2>2. CASE st' = Applying(ctl.s) /\ UNCHANGED faults
             /\ ctl' = [ctl EXCEPT !.pc = "again_journal", !.s = st', !.j = j]
    <3>1. ctl.pc = "again_applying"
      BY <1>2 DEF ReplaceApplying
    <3> HIDE DEF j
    <3>2. ctl' \in Ctls /\ faults' \in 0..MaxFaults /\ CtlShape' /\ st' \in States
      <4>1. st' \in States /\ faults' \in 0..MaxFaults
        BY <2>1, <2>2, FaultType
      <4>2. /\ ctl' \in Ctls /\ ctl'.pc = "again_journal" /\ ctl'.act = ctl.act
            /\ ctl'.read = ctl.read /\ ctl'.origin = ctl.origin /\ ctl'.target = ctl.target
        BY <2>0, <2>1, <2>2, <4>1, Updated, Zenon
      <4>3. CtlShape'
        BY <3>1, <4>2 DEF CtlShape, RecoveryActs, RecoveryPCs
      <4> QED
        BY <4>1, <4>2, <4>3
    <3> QED
      BY <1>2, <3>2 DEF ReplaceApplying, TypeOK, relay, Files3
  <2>3. CASE Faulty /\ ctl' = Idle /\ UNCHANGED st
    BY <1>2, <2>3, Ended DEF ReplaceApplying, TypeOK, relay, Files3
  <2> QED
    BY <1>2, <2>2, <2>3 DEF ReplaceApplying
<1>3. CASE WriteAgainJournal
  <2>1. ctl' \in Ctls /\ faults' \in 0..MaxFaults /\ CtlShape'
    BY <1>3, Moved DEF WriteAgainJournal, PCs, CtlShape, RecoveryActs, RecoveryPCs
  <2> QED
    BY <1>3, <2>1, CtlFields DEF WriteAgainJournal, TypeOK, relay
<1>4. CASE AwaitParked("again_park", "swap", "fail")
  <2>1. ctl' \in Ctls /\ faults' \in 0..MaxFaults /\ CtlShape'
    BY <1>4, Moved DEF AwaitParked, PCs, CtlShape, RecoveryActs, RecoveryPCs
  <2> QED
    BY <1>4, <2>1 DEF AwaitParked, TypeOK, relay, Files3
<1> QED
  BY <1>1, <1>2, <1>3, <1>4 DEF Again

\* The steps that all commands share keep types and shape.
LEMMA TailTypes == ASSUME TypeInv, Tail PROVE TypeInv'
<1> USE DEF TypeInv
<1>1. CASE Swap
  <2>1. ctl' \in Ctls /\ faults' \in 0..MaxFaults /\ CtlShape'
    BY <1>1, Moved DEF Swap, FailsTo, PCs, CtlShape, RecoveryActs, RecoveryPCs
  <2>2. run' \in Gateways \cup {NoGateway}
    BY <1>1 DEF Swap, TypeOK, Files
  <2>3. drift' \in BOOLEAN
    BY <1>1, Zenon DEF Swap, TypeOK
  <2> QED
    BY <1>1, <2>1, <2>2, <2>3 DEF Swap, TypeOK, Files3
<1>2. CASE SaveFinal
  <2>1. CASE st' = Final(ctl.s) /\ UNCHANGED faults
             /\ ctl' = [ctl EXCEPT !.pc = IF ctl.act = "apply" THEN "await" ELSE "unjournal",
                                   !.s = st']
    <3>1. ctl.pc = "final" /\ st' \in States /\ "await" \in PCs /\ "unjournal" \in PCs
      BY <1>2, <2>1, CtlFields, SavedTypes DEF SaveFinal, PCs
    <3>2. ctl' \in Ctls /\ faults' \in 0..MaxFaults /\ CtlShape'
      <4>1. /\ ctl' \in Ctls /\ ctl'.pc \in {"await", "unjournal"} /\ ctl'.act = ctl.act
            /\ ctl'.read = ctl.read /\ ctl'.origin = ctl.origin /\ ctl'.target = ctl.target
        <5>1. PICK pc \in {"await", "unjournal"} : ctl' = [ctl EXCEPT !.pc = pc, !.s = st']
          BY <2>1, Zenon
        <5>2. pc \in PCs /\ ctl.j \in Journals
          BY <3>1, CtlFields
        <5> QED
          BY <3>1, <5>1, <5>2, Updated, Zenon
      <4>2. faults' \in 0..MaxFaults
        BY <2>1, FaultType
      <4>3. CtlShape'
        BY <3>1, <4>1 DEF CtlShape, RecoveryActs, RecoveryPCs
      <4> QED
        BY <4>1, <4>2, <4>3
    <3> QED
      BY <1>2, <3>1, <3>2 DEF SaveFinal, TypeOK, relay, Files3
  <2>2. CASE Fails(FailsTo) /\ UNCHANGED st
    <3>1. ctl' \in Ctls /\ faults' \in 0..MaxFaults /\ CtlShape'
      BY <1>2, <2>2, Moved DEF SaveFinal, FailsTo, PCs, CtlShape, RecoveryActs, RecoveryPCs
    <3> QED
      BY <1>2, <2>2, <3>1 DEF SaveFinal, TypeOK, relay, Files3
  <2> QED
    BY <1>2, <2>1, <2>2 DEF SaveFinal
<1>3. CASE AwaitFinalized
  <2>1. ctl' \in Ctls /\ faults' \in 0..MaxFaults /\ CtlShape'
    BY <1>3, Moved DEF AwaitFinalized, FailsTo, PCs, CtlShape, RecoveryActs, RecoveryPCs
  <2> QED
    BY <1>3, <2>1 DEF AwaitFinalized, TypeOK, relay, Files3
<1>4. CASE RemoveJournal
  <2>1. ctl' \in Ctls /\ faults' \in 0..MaxFaults /\ CtlShape'
    BY <1>4, Moved DEF RemoveJournal, FailsTo, PCs, CtlShape, RecoveryActs, RecoveryPCs
  <2> QED
    BY <1>4, <2>1, JournalTypes DEF RemoveJournal, TypeOK, relay
<1>5. CASE RemoveBackup
  <2>1. ctl' \in Ctls /\ faults' \in 0..MaxFaults /\ CtlShape'
    BY <1>5, Moved, Ended DEF RemoveBackup, FailsTo, PCs, CtlShape, RecoveryActs, RecoveryPCs
  <2> QED
    BY <1>5, <2>1 DEF RemoveBackup, TypeOK, relay
<1>6. CASE RewriteJournal
  <2>1. ctl' \in Ctls /\ faults' \in 0..MaxFaults /\ CtlShape'
    BY <1>6, Moved DEF RewriteJournal, PCs, CtlShape, RecoveryActs, RecoveryPCs
  <2> QED
    BY <1>6, <2>1, CtlFields DEF RewriteJournal, TypeOK, relay
<1>7. CASE Park
  <2>1. ctl' \in Ctls /\ faults' \in 0..MaxFaults /\ CtlShape'
    BY <1>7, Ended DEF Park
  <2> QED
    BY <1>7, <2>1, CtlFields, SavedTypes DEF Park, TypeOK, relay, Files3
<1> QED
  BY <1>1, <1>2, <1>3, <1>4, <1>5, <1>6, <1>7 DEF Tail

\* A command begins with types and shape.
LEMMA BeginTypes ==
  ASSUME TypeInv,
         \/ \E g \in Gateways : Preflight(g)
         \/ \E action \in RecoveryActs : Recover(action)
  PROVE  TypeInv'
<1> USE DEF TypeInv
<1>1. ASSUME NEW g \in Gateways, Preflight(g) PROVE TypeInv'
  <2>1. ctl' \in Ctls
    BY <1>1, IdleType, Zenon DEF Preflight, TypeOK, Ctls, PCs, Files
  <2>2. /\ ctl'.pc = "lock" /\ ctl'.act = "apply" /\ ctl'.target = g
        /\ ctl'.origin = cfg.gateway /\ ctl'.read = cfg
    BY <1>1, Zenon DEF Preflight, Idle
  <2>3. CtlShape'
    BY <2>2 DEF CtlShape, TypeOK, Files, RecoveryActs
  <2> QED
    BY <1>1, <2>1, <2>3, Zenon DEF Preflight, TypeOK, relay, Files3
<1>2. ASSUME NEW action \in RecoveryActs, Recover(action) PROVE TypeInv'
  <2> DEFINE gen == IF st.gen >= journal.gen + 1 THEN st.gen + 1 ELSE journal.gen + 1
  <2>1. gen \in Nat
    BY DEF TypeOK, States, Journals
  <2>2. st' \in States
    BY <1>2, <2>1, Zenon DEF Recover, TypeOK, States
  <2>3. ctl' = [Idle EXCEPT !.pc = "again", !.act = action, !.s = st',
                            !.target = Selected(action), !.j = journal]
    BY <1>2, Zenon DEF Recover
  <2>4. Selected(action) \in Gateways /\ journal \in Journals
    BY <1>2, Zenon DEF Recover, Accepts, TypeOK
  <2>5. ctl' \in Ctls
    BY <2>2, <2>3, <2>4, IdleType, Zenon DEF Ctls, PCs, RecoveryActs
  <2>6. ctl'.pc = "again" /\ ctl'.act = action /\ ctl'.target = Selected(action)
    BY <2>3 DEF Idle
  <2>7. CtlShape'
    BY <2>4, <2>6 DEF CtlShape, RecoveryActs, RecoveryPCs
  <2> QED
    BY <1>2, <2>2, <2>5, <2>7, Zenon DEF Recover, TypeOK, relay, Files3
<1> QED
  BY <1>1, <1>2

\* The relay, the faults and the edits keep types and shape.
LEMMA OtherTypes ==
  ASSUME TypeInv, RecoverObserved \/ Watch \/ Restart \/ Crash \/ RelayCrash \/ Edit
  PROVE  TypeInv'
<1> USE DEF TypeInv
<1>1. CASE RecoverObserved
  <2>1. st' \in States /\ run' \in Gateways \cup {NoGateway} /\ drift' = FALSE
    BY <1>1 DEF RecoverObserved, TypeOK, States, ActivePhases, Files
  <2> QED
    BY <1>1, <2>1, Zenon DEF RecoverObserved, TypeOK, Files3, CtlShape
<1>2. CASE Watch
  BY <1>2, RefreshType DEF Watch, TypeOK, CtlShape
<1>3. CASE Restart
  <2>1. run' \in Gateways \cup {NoGateway} /\ snap' \in Snaps
    BY <1>3, RefreshType DEF Restart, TypeOK, Files
  <2> QED
    BY <1>3, <2>1, Zenon DEF Restart, TypeOK, CtlShape
<1>4. CASE Crash
  BY <1>4, Ended DEF Crash, TypeOK, relay, Files3
<1>5. CASE RelayCrash
  BY <1>5, FaultType, Zenon DEF RelayCrash, TypeOK, Files3, CtlShape
<1>6. CASE Edit
  BY <1>6, FaultType DEF Edit, TypeOK, relay, CtlShape
<1> QED
  BY <1>1, <1>2, <1>3, <1>4, <1>5, <1>6

\* Types and shape are inductive.
LEMMA TypeStep == ASSUME TypeInv, [Next]_vars PROVE TypeInv'
<1>1. CASE UNCHANGED vars
  BY <1>1 DEF TypeInv, TypeOK, CtlShape, vars
<1>2. CASE Next
  BY <1>2, ApplyTypes, AgainTypes, TailTypes, BeginTypes, OtherTypes
     DEF Next, Controller, RecoveryActs
<1> QED
  BY <1>1, <1>2

\* Every variable keeps the shape of the files and fields it stands for, for
\* any gateways and bounds: a command that is between two steps always has
\* what the next step writes (applyGatewayReloadLocked, recoverGatewayLocked).
THEOREM GatewayTypes == Spec => []TypeInv
<1>1. Init => TypeInv
  BY InitTypes DEF Init, TypeInv, CtlShape, Idle, RecoveryActs
<1>2. TypeInv /\ [Next]_vars => TypeInv'
  BY TypeStep
<1> QED
  BY <1>1, <1>2, PTL DEF Spec

-----------------------------------------------------------------------------
(* The open relay and the config.                                          *)

\* A step of a command whose state is closed, up to the swap of the runtime,
\* cannot open an old runtime.
LEMMA ClosedServes ==
  ASSUME ServeInv, UNCHANGED st, ctl.pc \in ClosedPCs, ctl'.pc \notin ServedPCs
  PROVE  ServeInv'
BY DEF ServeInv

\* A step that leaves the files and the runtime alone keeps what is served.
LEMMA UntouchedServes ==
  ASSUME ServeInv, UNCHANGED <<st, cfg, journal, run, drift>>,
         ctl'.pc \in ClosedPCs => st.phase # "relay_active",
         ctl'.pc \in ServedPCs => ctl.pc \in ServedPCs
  PROVE  ServeInv'
BY DEF ServeInv, Served

\* An apply writes the config only while the state is closed.
LEMMA ApplyServes == ASSUME TypeInv, ServeInv, Apply PROVE ServeInv'
<1>1. CASE GatewayApply
  <2>1. ctl.pc = "lock" /\ ctl'.pc \in {"backup", "store", "idle"}
        /\ (ctl'.pc = "store" => st.phase # "relay_active")
    BY <1>1, IdleFields DEF GatewayApply, Goes, Fails, Ends, TypeInv, TypeOK, Ctls
  <2>2. UNCHANGED <<st, cfg, journal, run, drift>>
    BY <1>1 DEF GatewayApply, relay
  <2> QED
    BY <2>1, <2>2, UntouchedServes DEF ClosedPCs, ServedPCs
<1>2. CASE StoreConfig
  <2>1. ctl'.pc \in {"stored", "idle"}
    BY <1>2 DEF StoreConfig, Goes, Fails, Ends, Idle, TypeInv, TypeOK, Ctls
  <2>2. UNCHANGED st /\ ctl.pc \in ClosedPCs
    BY <1>2 DEF StoreConfig, ClosedPCs
  <2> QED
    BY <2>1, <2>2, ClosedServes DEF ServedPCs
<1>3. CASE CheckStored
  <2>1. ctl'.pc \in {"restore", "idle"}
    BY <1>3 DEF CheckStored, Goes, Fails, Ends, Idle, TypeInv, TypeOK, Ctls
  <2>2. UNCHANGED st /\ ctl.pc \in ClosedPCs
    BY <1>3 DEF CheckStored, ClosedPCs
  <2> QED
    BY <2>1, <2>2, ClosedServes DEF ServedPCs
<1>4. CASE RestoreStored
  <2>1. ctl'.pc \in {"idle"}
    BY <1>4 DEF RestoreStored, Goes, Fails, Ends, Idle, TypeInv, TypeOK, Ctls
  <2>2. UNCHANGED st /\ ctl.pc \in ClosedPCs
    BY <1>4 DEF RestoreStored, ClosedPCs
  <2> QED
    BY <2>1, <2>2, ClosedServes DEF ServedPCs
<1>5. CASE CreateBackup
  <2>1. ctl.pc = "backup" /\ ctl'.pc \in {"applying", "idle"}
    BY <1>5, IdleFields DEF CreateBackup, Goes, Fails, Ends, TypeInv, TypeOK, Ctls
  <2>2. UNCHANGED <<st, cfg, journal, run, drift>>
    BY <1>5 DEF CreateBackup, relay
  <2> QED
    BY <2>1, <2>2, UntouchedServes DEF ClosedPCs, ServedPCs
<1>6. CASE SaveApplying
  <2>1. \/ st'.phase = "applying" /\ ctl'.pc = "journal"
        \/ st' = st /\ ctl'.pc = "idle"
    <3>1. CASE /\ st' = Applying(ctl.s)
               /\ ctl' = [ctl EXCEPT !.pc = "journal", !.s = st',
                                     !.j = NewJournal(st', ctl.read, Canonical(ctl.target))]
      BY <3>1 DEF Applying, TypeInv, TypeOK, Ctls
    <3>2. CASE ctl' = Idle /\ UNCHANGED st
      BY <3>2 DEF Idle
    <3> QED
      BY <1>6, <3>1, <3>2 DEF SaveApplying
  <2> QED
    BY <1>6, <2>1 DEF SaveApplying, ServeInv, Served, ClosedPCs, ServedPCs, relay, Files3
<1>7. CASE WriteJournal
  <2>1. ctl'.pc \in {"park", "undo"}
    BY <1>7, Zenon DEF WriteJournal, Goes, Fails, Ends, Idle, TypeInv, TypeOK, Ctls
  <2>2. UNCHANGED st /\ ctl.pc \in ClosedPCs
    BY <1>7 DEF WriteJournal, ClosedPCs
  <2> QED
    BY <2>1, <2>2, ClosedServes DEF ServedPCs
<1>8. CASE AwaitParked("park", "write", "undo")
  <2>1. ctl'.pc \in {"write", "undo"}
    BY <1>8 DEF AwaitParked, Goes, Fails, Ends, Idle, TypeInv, TypeOK, Ctls
  <2>2. UNCHANGED st /\ ctl.pc \in ClosedPCs
    BY <1>8 DEF AwaitParked, ClosedPCs
  <2> QED
    BY <2>1, <2>2, ClosedServes DEF ServedPCs
<1>9. CASE WriteConfig
  <2>1. ctl'.pc \in {"mutated", "undo"}
    BY <1>9 DEF WriteConfig, Goes, Fails, Ends, Idle, TypeInv, TypeOK, Ctls
  <2>2. UNCHANGED st /\ ctl.pc \in ClosedPCs
    BY <1>9 DEF WriteConfig, ClosedPCs
  <2> QED
    BY <2>1, <2>2, ClosedServes DEF ServedPCs
<1>10. CASE WriteMutatedJournal
  <2>1. ctl'.pc \in {"credentials", "undo"}
    BY <1>10, Zenon DEF WriteMutatedJournal, Goes, Fails, Ends, Idle, TypeInv, TypeOK, Ctls
  <2>2. UNCHANGED st /\ ctl.pc \in ClosedPCs
    BY <1>10 DEF WriteMutatedJournal, ClosedPCs
  <2> QED
    BY <2>1, <2>2, ClosedServes DEF ServedPCs
<1>11. CASE CheckCredentials
  <2>1. ctl'.pc \in {"swap", "undo"}
    BY <1>11 DEF CheckCredentials, Goes, Fails, Ends, Idle, TypeInv, TypeOK, Ctls
  <2>2. UNCHANGED st /\ ctl.pc \in ClosedPCs
    BY <1>11 DEF CheckCredentials, ClosedPCs
  <2> QED
    BY <2>1, <2>2, ClosedServes DEF ServedPCs
<1>12. CASE UndoConfig
  <2>1. ctl'.pc \in {"undo_journal", "fail"}
    BY <1>12, Zenon DEF UndoConfig, Goes, Fails, Ends, Idle, TypeInv, TypeOK, Ctls
  <2>2. UNCHANGED st /\ ctl.pc \in ClosedPCs
    BY <1>12 DEF UndoConfig, ClosedPCs
  <2> QED
    BY <2>1, <2>2, ClosedServes DEF ServedPCs
<1>13. CASE UndoJournal
  <2>1. ctl'.pc \in {"swap", "fail"}
    BY <1>13, Zenon DEF UndoJournal, Goes, Fails, Ends, Idle, TypeInv, TypeOK, Ctls
  <2>2. UNCHANGED st /\ ctl.pc \in ClosedPCs
    BY <1>13 DEF UndoJournal, ClosedPCs
  <2> QED
    BY <2>1, <2>2, ClosedServes DEF ServedPCs
<1> QED
  BY <1>1, <1>2, <1>3, <1>4, <1>5, <1>6, <1>7, <1>8, <1>9, <1>10, <1>11, <1>12, <1>13 DEF Apply

\* So does a recovery.
LEMMA AgainServes == ASSUME TypeInv, ServeInv, Again PROVE ServeInv'
<1>1. CASE WriteSelected
  <2>1. ctl'.pc \in {"again_applying", "idle"}
    BY <1>1 DEF WriteSelected, Goes, Fails, Ends, Idle, TypeInv, TypeOK, Ctls
  <2>2. UNCHANGED st /\ ctl.pc \in ClosedPCs
    BY <1>1 DEF WriteSelected, ClosedPCs
  <2> QED
    BY <2>1, <2>2, ClosedServes DEF ServedPCs
<1>2. CASE ReplaceApplying
  <2>1. \/ st'.phase = "applying" /\ ctl'.pc = "again_journal"
        \/ st' = st /\ ctl'.pc = "idle"
    <3> DEFINE j == [ctl.j EXCEPT !.gen = ctl.s.gen + 1,
                                  !.stage = IF ctl.act = "complete" THEN "config_mutated"
                                            ELSE "prepared"]
    <3>1. CASE /\ st' = Applying(ctl.s)
               /\ ctl' = [ctl EXCEPT !.pc = "again_journal", !.s = st', !.j = j]
      <4> HIDE DEF j
      <4> QED
        BY <3>1 DEF Applying, TypeInv, TypeOK, Ctls
    <3>2. CASE ctl' = Idle /\ UNCHANGED st
      BY <3>2 DEF Idle
    <3> QED
      BY <1>2, <3>1, <3>2 DEF ReplaceApplying
  <2> QED
    BY <1>2, <2>1 DEF ReplaceApplying, ServeInv, Served, ClosedPCs, ServedPCs, relay, Files3
<1>3. CASE WriteAgainJournal
  <2>1. ctl'.pc \in {"again_park", "fail"}
    BY <1>3 DEF WriteAgainJournal, Goes, Fails, Ends, Idle, TypeInv, TypeOK, Ctls
  <2>2. UNCHANGED st /\ ctl.pc \in ClosedPCs
    BY <1>3 DEF WriteAgainJournal, ClosedPCs
  <2> QED
    BY <2>1, <2>2, ClosedServes DEF ServedPCs
<1>4. CASE AwaitParked("again_park", "swap", "fail")
  <2>1. ctl'.pc \in {"swap", "fail"}
    BY <1>4 DEF AwaitParked, Goes, Fails, Ends, Idle, TypeInv, TypeOK, Ctls
  <2>2. UNCHANGED st /\ ctl.pc \in ClosedPCs
    BY <1>4 DEF AwaitParked, ClosedPCs
  <2> QED
    BY <2>1, <2>2, ClosedServes DEF ServedPCs
<1> QED
  BY <1>1, <1>2, <1>3, <1>4 DEF Again

\* From the swap on, the runtime is the one of the config.
LEMMA TailServes == ASSUME TypeInv, ServeInv, Tail PROVE ServeInv'
<1>1. CASE Swap
  BY <1>1, Moved, Ended, Zenon
     DEF Swap, TypeInv, ServeInv, Served, ClosedPCs, ServedPCs, PCs, TypeOK, Ctls, Idle, relay, Files3, FailsTo
<1>2. CASE SaveFinal
  BY <1>2, Moved, Ended, Zenon
     DEF SaveFinal, TypeInv, ServeInv, Served, ClosedPCs, ServedPCs, PCs, TypeOK, Ctls, Idle, relay, Files3, Final, FailsTo
<1>3. CASE AwaitFinalized
  BY <1>3, Moved, Ended, Zenon
     DEF AwaitFinalized, TypeInv, ServeInv, Served, ClosedPCs, ServedPCs, PCs, TypeOK, Ctls, Idle, relay, Files3, FailsTo
<1>4. CASE RemoveJournal
  BY <1>4, Moved, Ended, Zenon
     DEF RemoveJournal, TypeInv, ServeInv, Served, ClosedPCs, ServedPCs, PCs, TypeOK, Ctls, Idle, relay, Files3, FailsTo, NoJournal
<1>5. CASE RemoveBackup
  <2>1. ctl.pc = "unbackup" /\ ctl'.pc \in {"rewrite", "idle"}
    BY <1>5, IdleFields DEF RemoveBackup, Goes, Fails, Ends, TypeInv, TypeOK, Ctls, FailsTo
  <2>2. UNCHANGED <<st, cfg, journal, run, drift>>
    BY <1>5 DEF RemoveBackup, relay
  <2> QED
    BY <2>1, <2>2, UntouchedServes DEF ClosedPCs, ServedPCs
<1>6. CASE RewriteJournal
  BY <1>6, Moved, Ended, Zenon
     DEF RewriteJournal, TypeInv, ServeInv, Served, ClosedPCs, ServedPCs, PCs, TypeOK, Ctls, Idle, relay, Files3
<1>7. CASE Park
  <2>1. ctl'.pc = "idle" /\ (st' = st \/ st'.phase = "recovery_required")
    BY <1>7, IdleFields DEF Park, Ends, Recovery
  <2>2. UNCHANGED <<cfg, journal, run, drift>>
    BY <1>7 DEF Park, relay, Files3
  <2> QED
    BY <2>1, <2>2 DEF ServeInv, Served, ClosedPCs, ServedPCs
<1> QED
  BY <1>1, <1>2, <1>3, <1>4, <1>5, <1>6, <1>7 DEF Tail

\* The beginning of a command, the relay, the faults and the edits.
LEMMA OthersServe ==
  ASSUME TypeInv, ServeInv,
         \/ \E g \in Gateways : Preflight(g)
         \/ \E action \in RecoveryActs : Recover(action)
         \/ RecoverObserved \/ Watch \/ Restart \/ Crash \/ RelayCrash \/ Edit
  PROVE  ServeInv'
<1> USE DEF ServeInv, Served, ClosedPCs, ServedPCs
<1>1. ASSUME NEW g \in Gateways, Preflight(g) PROVE ServeInv'
  BY <1>1, Zenon DEF Preflight, Idle, relay, Files3
<1>2. ASSUME NEW action \in RecoveryActs, Recover(action) PROVE ServeInv'
  <2>1. st'.phase = "recovery_required" /\ ctl'.pc = "again"
    BY <1>2, Zenon DEF Recover, Idle
  <2> QED
    BY <2>1
<1>3. CASE RecoverObserved
  BY <1>3 DEF RecoverObserved, Idle, Files3
<1>4. CASE Watch
  BY <1>4 DEF Watch
<1>5. CASE Restart
  BY <1>5 DEF Restart
<1>6. CASE Crash
  BY <1>6 DEF Crash, Idle, relay, Files3
<1>7. CASE RelayCrash
  BY <1>7 DEF RelayCrash, Files3
<1>8. CASE Edit
  BY <1>8 DEF Edit, relay
<1> QED
  BY <1>1, <1>2, <1>3, <1>4, <1>5, <1>6, <1>7, <1>8, Zenon

\* The agreement of runtime and config is inductive.
LEMMA ServeStep == ASSUME TypeInv, ServeInv, [Next]_vars PROVE ServeInv'
<1>1. CASE UNCHANGED vars
  BY <1>1 DEF ServeInv, Served, vars
<1>2. CASE Next
  BY <1>2, ApplyServes, AgainServes, TailServes, OthersServe DEF Next, Controller, RecoveryActs
<1> QED
  BY <1>1, <1>2

\* An open relay that has seen the state on disk sends requests to the gateway
\* its config file names, wherever a reload, its rollback or a recovery was cut
\* (applyGatewayReloadLocked, recoverGatewayLocked, relayRuntime.apply).
THEOREM OpenRelayAgreement == Spec => []OpenServesConfig
<1>1. Init => ServeInv
  BY DEF Init, ServeInv, Served, Idle, ClosedPCs, ServedPCs
<1>2. TypeInv /\ ServeInv /\ [Next]_vars => ServeInv'
  BY ServeStep
<1>3. ServeInv => OpenServesConfig
  <2> SUFFICES ASSUME ServeInv, Open, snap = Refresh, ~drift PROVE run = cfg.gateway
    BY DEF OpenServesConfig
  <2>1. snap.s = st /\ (snap.invalid <=> journal.found /\ st.phase # "applying")
    BY Zenon DEF Refresh
  <2>2. st.phase = "relay_active" /\ ~journal.found
    BY <2>1 DEF Open, Allows
  <2> QED
    BY <2>2 DEF ServeInv, Served, Open
<1> QED
  BY <1>1, <1>2, <1>3, GatewayTypes, PTL DEF Spec

-----------------------------------------------------------------------------
(* Edits.                                                                  *)

\* Between commands there is nothing to know.
LEMMA IdleEdits == ASSUME ctl' = Idle PROVE EditInv'
BY IdleFields DEF EditInv, FreshApply, AcceptedFile, RecoveryActs

\* A step of an apply past its lock that does not touch foreign.
LEMMA ApplyKeeps ==
  ASSUME TypeInv, EditInv, ctl.pc \notin RecoveryPCs \cup {"idle", "lock"},
         UNCHANGED foreign,
         ctl' = Idle \/ (ctl'.act \in {ctl.act, "undo"} /\ ctl'.pc # "lock")
  PROVE  EditInv'
<1>1. ctl.act \in {"apply", "undo"} /\ foreign # "between"
  BY CtlFields DEF TypeInv, CtlShape, RecoveryActs, EditInv, FreshApply
<1>2. CASE ctl'.act \in {ctl.act, "undo"} /\ ctl'.pc # "lock"
  <2>1. ctl'.act \in {"apply", "undo"}
    BY <1>1, <1>2
  <2> QED
    BY <1>1, <1>2, <2>1 DEF EditInv, FreshApply, AcceptedFile, RecoveryActs
<1> QED
  BY <1>2, IdleEdits

\* An apply past its lock has seen every edit made before it: nothing it does
\* depends on the journal of another command.
LEMMA ApplyEdits == ASSUME TypeInv, EditInv, Apply PROVE EditInv'
<1>1. CASE GatewayApply
  <2>1. ctl.act \in {"apply", "undo"}
    BY <1>1, CtlFields DEF GatewayApply, TypeInv, CtlShape, RecoveryActs, RecoveryPCs
  <2>2. CASE /\ Goes(IF st.phase = "relay_active" THEN "backup" ELSE "store")
             /\ foreign' = "no"
    <3>1. ctl'.act = ctl.act /\ ctl'.pc # "lock"
      BY <2>2 DEF Goes, TypeInv, TypeOK, Ctls
    <3> QED
      BY <2>1, <2>2, <3>1 DEF EditInv, FreshApply, AcceptedFile, RecoveryActs
  <2>3. CASE ctl' = Idle
    BY <2>3, IdleEdits
  <2> QED
    BY <1>1, <2>2, <2>3 DEF GatewayApply, Ends
<1>2. CASE StoreConfig
  <2>1. ctl' = Idle \/ (ctl'.act \in {ctl.act, "undo"} /\ ctl'.pc # "lock")
    BY <1>2 DEF StoreConfig, Goes, Fails, Ends, TypeInv, TypeOK, Ctls
  <2> QED
    BY <1>2, <2>1, ApplyKeeps DEF StoreConfig, RecoveryPCs
<1>3. CASE CheckStored
  <2>1. ctl' = Idle \/ (ctl'.act \in {ctl.act, "undo"} /\ ctl'.pc # "lock")
    BY <1>3 DEF CheckStored, Goes, Fails, Ends, TypeInv, TypeOK, Ctls
  <2> QED
    BY <1>3, <2>1, ApplyKeeps DEF CheckStored, RecoveryPCs
<1>4. CASE RestoreStored
  <2>1. ctl' = Idle \/ (ctl'.act \in {ctl.act, "undo"} /\ ctl'.pc # "lock")
    BY <1>4 DEF RestoreStored, Goes, Fails, Ends, TypeInv, TypeOK, Ctls
  <2> QED
    BY <1>4, <2>1, ApplyKeeps DEF RestoreStored, RecoveryPCs
<1>5. CASE CreateBackup
  <2>1. ctl' = Idle \/ (ctl'.act \in {ctl.act, "undo"} /\ ctl'.pc # "lock")
    BY <1>5 DEF CreateBackup, Goes, Fails, Ends, TypeInv, TypeOK, Ctls
  <2> QED
    BY <1>5, <2>1, ApplyKeeps DEF CreateBackup, RecoveryPCs
<1>6. CASE SaveApplying
  <2>1. ctl' = Idle \/ (ctl'.act \in {ctl.act, "undo"} /\ ctl'.pc # "lock")
    BY <1>6, Zenon DEF SaveApplying, Goes, Fails, TypeInv, TypeOK, Ctls
  <2> QED
    BY <1>6, <2>1, ApplyKeeps DEF SaveApplying, RecoveryPCs
<1>7. CASE WriteJournal
  <2>1. ctl' = Idle \/ (ctl'.act \in {ctl.act, "undo"} /\ ctl'.pc # "lock")
    BY <1>7, Zenon DEF WriteJournal, Goes, Fails, TypeInv, TypeOK, Ctls
  <2> QED
    BY <1>7, <2>1, ApplyKeeps DEF WriteJournal, RecoveryPCs
<1>8. CASE AwaitParked("park", "write", "undo")
  <2>1. ctl' = Idle \/ (ctl'.act \in {ctl.act, "undo"} /\ ctl'.pc # "lock")
    BY <1>8 DEF AwaitParked, Goes, Fails, Ends, TypeInv, TypeOK, Ctls
  <2> QED
    BY <1>8, <2>1, ApplyKeeps DEF AwaitParked, RecoveryPCs
<1>9. CASE WriteConfig
  <2>1. ctl' = Idle \/ (ctl'.act \in {ctl.act, "undo"} /\ ctl'.pc # "lock")
    BY <1>9 DEF WriteConfig, Goes, Fails, Ends, TypeInv, TypeOK, Ctls
  <2> QED
    BY <1>9, <2>1, ApplyKeeps DEF WriteConfig, RecoveryPCs
<1>10. CASE WriteMutatedJournal
  <2>1. ctl' = Idle \/ (ctl'.act \in {ctl.act, "undo"} /\ ctl'.pc # "lock")
    BY <1>10, Zenon DEF WriteMutatedJournal, Goes, Fails, TypeInv, TypeOK, Ctls
  <2> QED
    BY <1>10, <2>1, ApplyKeeps DEF WriteMutatedJournal, RecoveryPCs
<1>11. CASE CheckCredentials
  <2>1. ctl' = Idle \/ (ctl'.act \in {ctl.act, "undo"} /\ ctl'.pc # "lock")
    BY <1>11 DEF CheckCredentials, Goes, Fails, Ends, TypeInv, TypeOK, Ctls
  <2> QED
    BY <1>11, <2>1, ApplyKeeps DEF CheckCredentials, RecoveryPCs
<1>12. CASE UndoConfig
  <2>1. ctl' = Idle \/ (ctl'.act \in {ctl.act, "undo"} /\ ctl'.pc # "lock")
    BY <1>12, Zenon DEF UndoConfig, Goes, Fails, TypeInv, TypeOK, Ctls
  <2> QED
    BY <1>12, <2>1, ApplyKeeps DEF UndoConfig, RecoveryPCs
<1>13. CASE UndoJournal
  <2>1. ctl' = Idle \/ (ctl'.act \in {ctl.act, "undo"} /\ ctl'.pc # "lock")
    BY <1>13, Zenon DEF UndoJournal, Goes, Fails, TypeInv, TypeOK, Ctls
  <2> QED
    BY <1>13, <2>1, ApplyKeeps DEF UndoJournal, RecoveryPCs
<1> QED
  BY <1>1, <1>2, <1>3, <1>4, <1>5, <1>6, <1>7, <1>8, <1>9, <1>10, <1>11, <1>12, <1>13 DEF Apply

\* A recovery writes one of the two files its journal names.
LEMMA AgainEdits == ASSUME TypeInv, EditInv, Again PROVE EditInv'
<1>1. CASE WriteSelected
  <2>1. CASE ctl' = Idle
    BY <2>1, IdleEdits
  <2>2. CASE cfg' = Canonical(ctl.target) /\ Goes("again_applying")
    <3>1. /\ ctl'.pc = "again_applying" /\ ctl'.act = ctl.act
          /\ ctl'.target = ctl.target /\ ctl'.j = ctl.j
      BY <2>2 DEF Goes, TypeInv, TypeOK, Ctls
    <3>2. UNCHANGED <<journal, foreign>>
      BY <1>1 DEF WriteSelected
    <3>3. FreshApply'
      BY <1>1, <3>1, <3>2 DEF WriteSelected, EditInv, FreshApply
    <3>4. AcceptedFile'
      BY <2>2, <3>1, <3>2 DEF EditInv, AcceptedFile, Canonical
    <3> QED
      BY <3>3, <3>4 DEF EditInv
  <2> QED
    BY <1>1, <2>1, <2>2 DEF WriteSelected
<1>2. CASE ReplaceApplying
  <2> DEFINE j == [ctl.j EXCEPT !.gen = ctl.s.gen + 1,
                                !.stage = IF ctl.act = "complete" THEN "config_mutated"
                                          ELSE "prepared"]
  <2>1. CASE ctl' = [ctl EXCEPT !.pc = "again_journal", !.s = st', !.j = j]
    <3>1. j.origin = ctl.j.origin /\ j.target = ctl.j.target
      BY CtlFields DEF TypeInv, Journals
    <3> HIDE DEF j
    <3>2. ctl'.act = ctl.act /\ ctl'.target = ctl.target /\ ctl'.pc = "again_journal" /\ ctl'.j = j
      BY <2>1 DEF TypeInv, TypeOK, Ctls
    <3>3. UNCHANGED <<cfg, journal, foreign>> /\ ctl.pc = "again_applying"
      BY <1>2 DEF ReplaceApplying, Files3
    <3> QED
      BY <3>1, <3>2, <3>3, Zenon DEF EditInv, FreshApply, AcceptedFile, Canonical
  <2>2. CASE ctl' = Idle
    BY <2>2, Zenon DEF EditInv, FreshApply, AcceptedFile, Idle, RecoveryActs
  <2> QED
    BY <1>2, <2>1, <2>2 DEF ReplaceApplying
<1>3. CASE WriteAgainJournal
  BY <1>3, Moved, Ended, CtlFields, Zenon
     DEF WriteAgainJournal, TypeInv, EditInv, FreshApply, AcceptedFile, RecoveryActs, RecoveryPCs, CtlShape, PCs, Idle, relay, Files3
<1>4. CASE AwaitParked("again_park", "swap", "fail")
  BY <1>4, Moved, Ended, CtlFields, Zenon
     DEF AwaitParked, TypeInv, EditInv, FreshApply, AcceptedFile, RecoveryActs, RecoveryPCs, CtlShape, PCs, Idle, relay, Files3
<1> QED
  BY <1>1, <1>2, <1>3, <1>4 DEF Again

\* A step after the reload was begun or the journal accepted, which leaves the
\* config alone and the journal as it is, gone or put back.
LEMMA EditsUntouched ==
  ASSUME EditInv, ctl.pc # "lock", UNCHANGED <<cfg, foreign>>,
         journal' \in {journal, NoJournal, ctl.j},
         \/ ctl' = Idle
         \/ /\ ctl'.pc # "lock" /\ ctl'.act = ctl.act
            /\ ctl'.target = ctl.target /\ ctl'.j = ctl.j
  PROVE  EditInv'
<1>1. CASE ctl' = Idle
  BY <1>1, Zenon DEF EditInv, FreshApply, AcceptedFile, Idle, RecoveryActs
<1>2. CASE /\ ctl'.pc # "lock" /\ ctl'.act = ctl.act
           /\ ctl'.target = ctl.target /\ ctl'.j = ctl.j
  <2>1. FreshApply'
    BY <1>2 DEF EditInv, FreshApply
  <2>2. AcceptedFile'
    <3>1. journal'.found =>
            \/ journal.found /\ journal' = journal
            \/ journal' = ctl.j
      <4>1. ~NoJournal.found
        BY DEF NoJournal
      <4> QED
        BY <4>1
    <3>2. AcceptedFile
      BY DEF EditInv
    <3> QED
      BY <1>2, <3>1, <3>2 DEF AcceptedFile, Canonical
  <2> QED
    BY <2>1, <2>2 DEF EditInv
<1> QED
  BY <1>1, <1>2

\* The shared steps leave the config alone.
LEMMA TailEdits == ASSUME TypeInv, EditInv, Tail PROVE EditInv'
<1> USE DEF TypeInv
<1>1. CASE Swap
  <2>1. /\ ctl'.pc # "lock" /\ ctl'.act = ctl.act
        /\ ctl'.target = ctl.target /\ ctl'.j = ctl.j
    BY <1>1, Moved DEF Swap, FailsTo, PCs
  <2> QED
    BY <1>1, <2>1, EditsUntouched DEF Swap, Files3
<1>2. CASE SaveFinal
  <2>1. /\ ctl'.act = ctl.act /\ ctl'.target = ctl.target /\ ctl'.j = ctl.j
        /\ ctl'.pc # "lock"
    BY <1>2, Zenon DEF SaveFinal, Fails, FailsTo, TypeOK, Ctls
  <2> QED
    BY <1>2, <2>1, EditsUntouched DEF SaveFinal, Files3
<1>3. CASE AwaitFinalized
  <2>1. /\ ctl'.pc # "lock" /\ ctl'.act = ctl.act
        /\ ctl'.target = ctl.target /\ ctl'.j = ctl.j
    BY <1>3, Moved DEF AwaitFinalized, FailsTo, PCs
  <2> QED
    BY <1>3, <2>1, EditsUntouched DEF AwaitFinalized, Files3
<1>4. CASE RemoveJournal
  <2>1. /\ ctl'.pc # "lock" /\ ctl'.act = ctl.act
        /\ ctl'.target = ctl.target /\ ctl'.j = ctl.j
    BY <1>4, Moved DEF RemoveJournal, FailsTo, PCs
  <2> QED
    BY <1>4, <2>1, EditsUntouched DEF RemoveJournal
<1>5. CASE RemoveBackup
  <2>1. \/ ctl' = Idle
        \/ /\ ctl'.pc # "lock" /\ ctl'.act = ctl.act
           /\ ctl'.target = ctl.target /\ ctl'.j = ctl.j
    BY <1>5, Moved DEF RemoveBackup, Ends, FailsTo, PCs
  <2> QED
    BY <1>5, <2>1, EditsUntouched DEF RemoveBackup
<1>6. CASE RewriteJournal
  <2>1. /\ ctl'.pc # "lock" /\ ctl'.act = ctl.act
        /\ ctl'.target = ctl.target /\ ctl'.j = ctl.j
    BY <1>6, Moved DEF RewriteJournal, PCs
  <2> QED
    BY <1>6, <2>1, EditsUntouched DEF RewriteJournal
<1>7. CASE Park
  BY <1>7, EditsUntouched DEF Park, Ends, Files3
<1> QED
  BY <1>1, <1>2, <1>3, <1>4, <1>5, <1>6, <1>7 DEF Tail

\* A recovery begins with one of the files of its journal on disk.
LEMMA OtherEdits ==
  ASSUME TypeInv, EditInv,
         \/ \E g \in Gateways : Preflight(g)
         \/ \E action \in RecoveryActs : Recover(action)
         \/ RecoverObserved \/ Watch \/ Restart \/ Crash \/ RelayCrash \/ Edit
  PROVE  EditInv'
<1> USE DEF EditInv, FreshApply, AcceptedFile
<1>1. ASSUME NEW g \in Gateways, Preflight(g) PROVE EditInv'
  <2>1. ctl'.pc = "lock" /\ ctl'.act = "apply"
    BY <1>1, Zenon DEF Preflight, Idle
  <2> QED
    BY <1>1, <2>1, Zenon DEF Preflight, Files3, RecoveryActs
<1>2. ASSUME NEW action \in RecoveryActs, Recover(action) PROVE EditInv'
  <2>1. /\ ctl'.pc = "again" /\ ctl'.act = action
        /\ ctl'.target = Selected(action) /\ ctl'.j = journal
    BY <1>2, Zenon DEF Recover, Idle
  <2>2. cfg \in {journal.origin, journal.target}
    BY <1>2, Zenon DEF Recover, Accepts, ObservedStage
  <2>3. Canonical(Selected(action)) \in {journal.origin, journal.target}
    BY <1>2, Zenon DEF Recover, Accepts
  <2>4. UNCHANGED <<cfg, journal>>
    BY <1>2, Zenon DEF Recover, Files3
  <2> QED
    BY <2>1, <2>2, <2>3, <2>4 DEF RecoveryActs
<1>3. CASE RecoverObserved
  BY <1>3 DEF RecoverObserved, Files3, Idle, RecoveryActs
<1>4. CASE Watch
  BY <1>4 DEF Watch
<1>5. CASE Restart
  BY <1>5 DEF Restart
<1>6. CASE Crash
  BY <1>6 DEF Crash, Idle, RecoveryActs
<1>7. CASE RelayCrash
  BY <1>7 DEF RelayCrash, Files3
<1>8. CASE Edit
  <2>1. CASE ctl = Idle
    BY <1>8, <2>1 DEF Edit, Idle, RecoveryActs
  <2>2. CASE ctl # Idle
    BY <1>8, <2>2 DEF Edit
  <2> QED
    BY <2>1, <2>2
<1> QED
  BY <1>1, <1>2, <1>3, <1>4, <1>5, <1>6, <1>7, <1>8

\* What the commands know of edits is inductive.
LEMMA EditStep == ASSUME TypeInv, EditInv, [Next]_vars PROVE EditInv'
<1>1. CASE UNCHANGED vars
  BY <1>1 DEF EditInv, FreshApply, AcceptedFile, vars
<1>2. CASE Next
  BY <1>2, ApplyEdits, AgainEdits, TailEdits, OtherEdits DEF Next, Controller, RecoveryActs
<1> QED
  BY <1>1, <1>2

\* The edit that EditKept is about.
Unseen ==
  /\ journal.found /\ foreign = "between"
  /\ cfg \notin {journal.origin, journal.target}

\* Beside such an edit no command runs: an apply does not start while the
\* journal is there, and a recovery refuses a file the journal does not name.
LEMMA UnseenIdle == ASSUME TypeInv, EditInv, Unseen PROVE ctl = Idle
<1>1. ctl.act \notin RecoveryActs
  BY DEF EditInv, AcceptedFile, Unseen
<1>2. ctl.act \notin {"apply", "undo"}
  BY DEF EditInv, FreshApply, Unseen
<1> QED
  BY <1>1, <1>2, CtlFields DEF TypeInv, CtlShape, RecoveryActs

\* Only another edit replaces a config that was edited between commands while
\* the journal of a reload is unresolved: no recovery, whatever it is told and
\* wherever it was cut, overwrites it (Recover, journalMatchesCurrentFiles).
THEOREM EditsSurvive == Spec => EditKept
<1> DEFINE Keeps == Unseen /\ cfg' # cfg => foreign' = "between" /\ faults' > faults
<1>1. Init => EditInv
  BY IdleFields DEF Init, EditInv, FreshApply, AcceptedFile, RecoveryActs
<1>2. TypeInv /\ EditInv /\ [Next]_vars => EditInv'
  BY EditStep
<1>3. TypeInv /\ EditInv /\ [Next]_vars => [Keeps]_vars
  <2> SUFFICES ASSUME TypeInv, EditInv, Next, Unseen, cfg' # cfg
               PROVE  foreign' = "between" /\ faults' > faults
    BY DEF vars
  <2>1. ctl = Idle
    BY UnseenIdle
  <2>2. Edit
    <3>1. ctl.pc = "idle"
      BY <2>1 DEF Idle
    <3>2. ~Controller
      BY <3>1 DEF Controller, Apply, Again, Tail, GatewayApply, StoreConfig, CheckStored,
         RestoreStored, CreateBackup, SaveApplying, WriteJournal, AwaitParked, WriteConfig,
         WriteMutatedJournal, CheckCredentials, UndoConfig, UndoJournal, WriteSelected,
         ReplaceApplying, WriteAgainJournal, Swap, SaveFinal, AwaitFinalized, RemoveJournal,
         RemoveBackup, RewriteJournal, Park
    <3> QED
      BY <3>2, Zenon DEF Next, Preflight, Recover, RecoverObserved, Watch, Restart, Crash,
         RelayCrash, Files3
  <2> QED
    BY <2>1, <2>2 DEF Edit, Faulty, TypeInv, TypeOK
<1>4. [Keeps]_vars =>
      [/\ journal.found /\ foreign = "between"
       /\ cfg \notin {journal.origin, journal.target}
       /\ cfg' # cfg
       => foreign' = "between" /\ faults' > faults]_vars
  BY DEF Unseen
<1> QED
  BY <1>1, <1>2, <1>3, <1>4, GatewayTypes, PTL DEF Spec, EditKept

=============================================================================
