--------------------------- MODULE RemovalProofs ---------------------------
(***************************************************************************)
(* The removal coordinator: what the journal says of children, items and   *)
(* routing is true after every step, crash, reboot and failed write, for   *)
(* any set of items and any bounds.  The helpers of the journal are        *)
(* unfolded once, as a list of the fields they replace (Kept); the steps   *)
(* of a command then only look at the fields they need.                    *)
(***************************************************************************)
EXTENDS Removal, TLAPS

\* The fields of a journal record.
Fields == DOMAIN NoRecord

\* A record with every field, and Booleans where two records are compared.
WellFormed(r) == /\ r = [f \in Fields |-> r[f]]
                 /\ r.released \in BOOLEAN /\ r.finalizing \in BOOLEAN

\* The journal holds no record, or one that its validator accepts.
Journal == /\ WellFormed(rec)
           /\ IF Exists(rec) THEN Valid(rec) /\ rec.context = context ELSE rec = NoRecord

\* The types a step of a command relies on.
Types ==
  /\ context \in {"integrated", "standalone"}
  /\ home \subseteq Items /\ relay \subseteq RelayAssets
  /\ boot \in Nat \ {0}
  /\ pkg \in {"present", "partial", "absent"}
  /\ ~Integrated => ~local /\ relay = {}

\* The command in progress is a record.
Command ==
  cmd = [pc |-> cmd.pc, req |-> cmd.req, then |-> cmd.then, why |-> cmd.why, flag |-> cmd.flag]

\* The execution on record is the child k.
Named(k) == rec.active = [kind |-> k.kind, attempt |-> k.attempt, boot |-> boot]

\* Every child alive is the execution on record.
Children ==
  \A k \in kids : /\ k.kind \in Kinds /\ Named(k)
                  /\ rec.active.kind = k.kind /\ rec.active.attempt = k.attempt
                  /\ rec.active.boot = boot /\ rec.resolution = ""
                  /\ k.kind = "trash" => k.items = rec.selected

\* An execution of this boot is on record.
Armed == rec.active = [kind |-> rec.active.kind, attempt |-> rec.attempt, boot |-> boot]

\* The selection is in the home directory.
InPlace == rec.selected \subseteq home

\* A selection that may yet be handed to a Trash child is in place.
Untouched ==
  /\ rec.active.kind = "teardown" => InPlace
  /\ rec.operationRetry => InPlace
  /\ rec.active.kind = "trash" /\ rec.resolution = "pre_start_routing_changed" => InPlace

\* The selection is gone from the home directory.
Moved == rec.selected \cap home = {}
\* What the recorded outcome and the absence of a record say of the items.
Outcomes ==
  /\ rec.phase = "data_outcome" /\ rec.outcome = "completed" => Moved
  /\ ~Exists(rec) /\ pkg = "present" => home = Items
  /\ rec.verified # "opencodex"

\* What the command knows at each of its steps.  Outside a handoff the local
\* OpenCodex is out of service.
OffLocal == cmd.pc \notin {"idle", "ocx", "enrol"} => ~local

\* Before a child is armed: no other one is, and the selection is in place.
Preparing ==
  /\ At("prepare") => ~Active(rec) /\ cmd.req.items \subseteq home
  /\ At("teardown") \/ At("trash") => ~Active(rec) /\ InPlace
  /\ At("teardown") => rec.verified = ""

\* Between the record of an execution and the start of its child.
Launching ==
  /\ At("launch") => /\ Active(rec) /\ Armed /\ rec.resolution = ""
                     /\ kids = {} /\ (rec.active.kind = "trash" => InPlace)
  /\ At("mark") => /\ kids = {}
                   /\ cmd.why = "pre_start_routing_changed" /\ rec.active.kind = "trash" => InPlace

\* An outcome about to be recorded as completed is one.
Recording ==
  /\ At("recover") => cmd.then \in {"idle", "record", "verify"}
  /\ At("record") \/ (At("recover") /\ cmd.then = "record") => (cmd.why = "completed" => Moved)
  /\ At("refresh") => rec.phase = "data_outcome"

\* A marked resolution is cleared after routing was parked.
Resolving ==
  /\ At("park") \/ At("clear") => rec.resolution # ""
  /\ At("clear") /\ rec.requires => IF Integrated THEN parked ELSE rec.nativeRecovery

\* The order in which finalization removes the assets of the relay.
Finalizing ==
  /\ At("profile") \/ At("enrollment") \/ At("journal") => rec.finalizing
  /\ At("enrollment") => "profile" \notin relay
  /\ At("journal") => relay = {}

\* A handoff runs without a removal on record.
Handing ==
  /\ At("ocx") \/ At("enrol") => Integrated /\ ~Exists(rec) /\ pkg = "present"
  /\ At("enrol") => /\ "profile" \in relay /\ (local => cmd.flag)
                    /\ (~cmd.flag => "enrollment" \notin relay)

\* The steps together.
Stage == OffLocal /\ Preparing /\ Launching /\ Recording /\ Resolving /\ Finalizing /\ Handing

\* The inductive invariant.
IInv == /\ Types /\ Command /\ Journal /\ Children /\ Untouched /\ Outcomes /\ Stage
        /\ JournalTruthful /\ RemovalWhole

-----------------------------------------------------------------------------
(* The helpers of the journal, field by field. *)

\* n is r with at most the fields of F replaced.
Kept(r, n, F) == WellFormed(n) /\ SameExcept(r, n, F)

\* The fields by name.
LEMMA FieldNames ==
  Fields = {"context", "phase", "mode", "selected", "retired", "revision", "locked",
            "moved", "outcome", "attempt", "active", "resolution", "requires",
            "recoveryPending", "operationRetry", "packageAttempt", "bootSession",
            "reconciled", "packageRetry", "released", "finalizing", "origin",
            "originState", "verified", "nativeState", "nativeRecovery",
            "teardownDone", "inventory"}
  BY DEF Fields, NoRecord

\* The empty journal.
LEMMA NoRecordShape ==
  /\ WellFormed(NoRecord) /\ ~Exists(NoRecord) /\ ~Active(NoRecord)
  /\ NoRecord.resolution = "" /\ NoRecord.finalizing = FALSE /\ NoRecord.requires = FALSE
  /\ NoRecord.operationRetry = FALSE /\ NoRecord.verified = "" /\ NoRecord.selected = {}
  /\ NoRecord.context = "" /\ NoRecord.phase = "none" /\ NoRecord.mode = ""
<1>1. NoRecord = [f \in Fields |-> NoRecord[f]]
  BY Zenon DEF Fields, NoRecord
<1>2. NoRecord.released = FALSE /\ NoRecord.finalizing = FALSE
  BY DEF NoRecord
<1>3. ~Exists(NoRecord) /\ ~Active(NoRecord)
  BY DEF NoRecord, Exists, Active, NoExecution
<1>4. /\ NoRecord.resolution = "" /\ NoRecord.requires = FALSE
      /\ NoRecord.operationRetry = FALSE /\ NoRecord.verified = "" /\ NoRecord.selected = {}
  BY DEF NoRecord
<1>5. NoRecord.context = "" /\ NoRecord.phase = "none" /\ NoRecord.mode = ""
  BY DEF NoRecord
<1> QED
  BY <1>1, <1>2, <1>3, <1>4, <1>5, Zenon DEF WellFormed

\* An update of fields other than the two compared Booleans keeps the shape.
LEMMA KeptShape ==
  ASSUME NEW r, WellFormed(r), NEW n, NEW F, n = [f \in Fields |-> n[f]], SameExcept(r, n, F),
         "released" \notin F, "finalizing" \notin F
  PROVE  Kept(r, n, F)
<1>1. n.released = r.released /\ n.finalizing = r.finalizing
  BY FieldNames DEF WellFormed, SameExcept
<1> QED
  BY <1>1 DEF Kept, WellFormed

\* PrepareRemovalPackageCleanup.
PrepareChange(r, n) ==
  /\ Kept(r, n, {"phase", "packageRetry"})
  /\ n.phase = "pending" /\ n.packageRetry = FALSE

\* The helper changes no more.
LEMMA PrepareFields ==
  ASSUME NEW r, WellFormed(r)
  PROVE  PrepareChange(r, PrepareRemovalPackageCleanup(r))
<1> USE Zenon
<1> DEFINE n == PrepareRemovalPackageCleanup(r)
           F == {"phase", "packageRetry"}
<1>1. n = [f \in Fields |-> n[f]]
  BY DEF WellFormed, PrepareRemovalPackageCleanup
<1>2. SameExcept(r, n, F)
  BY DEF WellFormed, PrepareRemovalPackageCleanup, SameExcept
<1>3. n.phase = "pending" /\ n.packageRetry = FALSE
  BY FieldNames DEF WellFormed, PrepareRemovalPackageCleanup
<1>4. Kept(r, n, F)
  BY <1>1, <1>2, KeptShape
<1> QED
  BY <1>3, <1>4 DEF PrepareChange

\* AdvanceRemovalDataOutcomeToPackagePending.
AdvanceChange(r, n) ==
  /\ Kept(r, n, {"phase"})
  /\ n.phase = "pending"

\* The helper changes no more.
LEMMA AdvanceFields ==
  ASSUME NEW r, WellFormed(r)
  PROVE  AdvanceChange(r, AdvanceRemovalDataOutcomeToPackagePending(r))
<1> USE Zenon
<1> DEFINE n == AdvanceRemovalDataOutcomeToPackagePending(r)
           F == {"phase"}
<1>1. n = [f \in Fields |-> n[f]]
  BY DEF WellFormed, AdvanceRemovalDataOutcomeToPackagePending
<1>2. SameExcept(r, n, F)
  BY DEF WellFormed, AdvanceRemovalDataOutcomeToPackagePending, SameExcept
<1>3. n.phase = "pending"
  BY FieldNames DEF WellFormed, AdvanceRemovalDataOutcomeToPackagePending
<1>4. Kept(r, n, F)
  BY <1>1, <1>2, KeptShape
<1> QED
  BY <1>3, <1>4 DEF AdvanceChange

\* SupersedeRemovalDataRefreshRequired.
SupersedeChange(r, n, req) ==
  /\ Kept(r, n, {"phase", "mode", "selected", "inventory", "revision", "moved",
                 "outcome", "packageAttempt", "operationRetry", "packageRetry"})
  /\ n.phase = "intent" /\ n.mode = req.mode /\ n.selected = req.items
  /\ n.inventory = req.inventory /\ n.revision = r.revision + 1 /\ n.moved = 0
  /\ n.outcome = "" /\ n.packageAttempt = 0 /\ n.operationRetry = FALSE
  /\ n.packageRetry = FALSE

\* The helper changes no more.
LEMMA SupersedeFields ==
  ASSUME NEW r, WellFormed(r), NEW req
  PROVE  SupersedeChange(r, SupersedeRemovalDataRefreshRequired(r, req), req)
<1> USE Zenon
<1> DEFINE n == SupersedeRemovalDataRefreshRequired(r, req)
           F == {"phase", "mode", "selected", "inventory", "revision", "moved",
                "outcome", "packageAttempt", "operationRetry", "packageRetry"}
<1>1. n = [f \in Fields |-> n[f]]
  BY DEF WellFormed, SupersedeRemovalDataRefreshRequired
<1>2. SameExcept(r, n, F)
  BY DEF WellFormed, SupersedeRemovalDataRefreshRequired, SameExcept
<1>3. n.phase = "intent" /\ n.mode = req.mode /\ n.selected = req.items
  BY FieldNames DEF WellFormed, SupersedeRemovalDataRefreshRequired
<1>4. n.inventory = req.inventory /\ n.revision = r.revision + 1 /\ n.moved = 0
  BY FieldNames DEF WellFormed, SupersedeRemovalDataRefreshRequired
<1>5. n.outcome = "" /\ n.packageAttempt = 0 /\ n.operationRetry = FALSE
  BY FieldNames DEF WellFormed, SupersedeRemovalDataRefreshRequired
<1>6. n.packageRetry = FALSE
  BY FieldNames DEF WellFormed, SupersedeRemovalDataRefreshRequired
<1>7. Kept(r, n, F)
  BY <1>1, <1>2, KeptShape
<1> QED
  BY <1>3, <1>4, <1>5, <1>6, <1>7 DEF SupersedeChange

\* A teardown child is armed.
TeardownBeginChange(r, n, b) ==
  /\ Kept(r, n, {"attempt", "active", "operationRetry"})
  /\ n.attempt = r.attempt + 1
  /\ n.active = [kind |-> "teardown", attempt |-> r.attempt + 1, boot |-> b]
  /\ n.operationRetry = FALSE

\* The helper changes no more.
LEMMA TeardownBeginFields ==
  ASSUME NEW r, WellFormed(r), NEW b
  PROVE  TeardownBeginChange(r, BeginExecution(r, "teardown", b), b)
<1> USE Zenon
<1> DEFINE n == BeginExecution(r, "teardown", b)
           F == {"attempt", "active", "operationRetry"}
<1>1. n = [f \in Fields |-> n[f]]
  BY DEF WellFormed, BeginExecution
<1>2. SameExcept(r, n, F)
  BY DEF WellFormed, BeginExecution, SameExcept
<1>3. /\ n.attempt = r.attempt + 1
      /\ n.active = [kind |-> "teardown", attempt |-> r.attempt + 1, boot |-> b]
      /\ n.operationRetry = FALSE
  BY FieldNames DEF WellFormed, BeginExecution
<1>4. Kept(r, n, F)
  BY <1>1, <1>2, KeptShape
<1> QED
  BY <1>3, <1>4 DEF TeardownBeginChange

\* A Trash child is armed.
TrashBeginChange(r, n, b) ==
  /\ Kept(r, n, {"attempt", "active"})
  /\ n.attempt = r.attempt + 1
  /\ n.active = [kind |-> "trash", attempt |-> r.attempt + 1, boot |-> b]

\* The helper changes no more.
LEMMA TrashBeginFields ==
  ASSUME NEW r, WellFormed(r), NEW b
  PROVE  TrashBeginChange(r, BeginExecution(r, "trash", b), b)
<1> USE Zenon
<1> DEFINE n == BeginExecution(r, "trash", b)
           F == {"attempt", "active"}
<1>1. n = [f \in Fields |-> n[f]]
  BY DEF WellFormed, BeginExecution
<1>2. SameExcept(r, n, F)
  BY DEF WellFormed, BeginExecution, SameExcept
<1>3. /\ n.attempt = r.attempt + 1
      /\ n.active = [kind |-> "trash", attempt |-> r.attempt + 1, boot |-> b]
  BY FieldNames DEF WellFormed, BeginExecution
<1>4. Kept(r, n, F)
  BY <1>1, <1>2, KeptShape
<1> QED
  BY <1>3, <1>4 DEF TrashBeginChange

\* A package child is armed.
PackageArmed(r, n, b) ==
  /\ Kept(r, n, {"attempt", "active", "packageAttempt", "phase", "bootSession",
                 "reconciled", "packageRetry", "released", "finalizing"})
  /\ n.attempt = r.attempt + 1
  /\ n.active = [kind |-> "package", attempt |-> r.attempt + 1, boot |-> b]
  /\ n.packageAttempt = r.packageAttempt + 1 /\ n.phase = "in_flight"
  /\ n.bootSession = b /\ n.reconciled = FALSE /\ n.packageRetry = FALSE
  /\ n.released = FALSE /\ n.finalizing = FALSE

\* The begin of a package child, field by field.
LEMMA PackageBeginFields ==
  ASSUME NEW r, WellFormed(r), NEW b
  PROVE  PackageArmed(r, BeginExecution(r, "package", b), b)
<1> USE Zenon
<1> DEFINE n == BeginExecution(r, "package", b)
           F == {"attempt", "active", "packageAttempt", "phase", "bootSession",
                "reconciled", "packageRetry", "released", "finalizing"}
<1>1. n = [f \in Fields |-> n[f]]
  BY DEF WellFormed, BeginExecution
<1> SameExcept(r, n, F)
  BY DEF WellFormed, BeginExecution, SameExcept
<1> /\ n.attempt = r.attempt + 1
    /\ n.active = [kind |-> "package", attempt |-> r.attempt + 1, boot |-> b]
    /\ n.packageAttempt = r.packageAttempt + 1
  BY FieldNames DEF WellFormed, BeginExecution
<1> n.phase = "in_flight" /\ n.bootSession = b /\ n.reconciled = FALSE
  BY FieldNames DEF WellFormed, BeginExecution
<1> n.packageRetry = FALSE /\ n.released = FALSE /\ n.finalizing = FALSE
  BY FieldNames DEF WellFormed, BeginExecution
<1>6. n.released \in BOOLEAN /\ n.finalizing \in BOOLEAN
  BY FieldNames DEF WellFormed, SameExcept
<1> QED
  BY <1>1, <1>6 DEF PackageArmed, Kept, WellFormed

\* A teardown or Trash child whose end is proven.
FinishChange(r, n) ==
  /\ Kept(r, n, {"active"})
  /\ n.active = NoExecution

\* The helper changes no more.
LEMMA FinishFields ==
  ASSUME NEW r, WellFormed(r), NEW started, NEW clean,
         ~started \/ clean, r.active.kind # "package"
  PROVE  FinishChange(r, FinishExecution(r, started, clean))
<1> USE Zenon
<1> DEFINE n == FinishExecution(r, started, clean)
           F == {"active"}
<1>1. n = [f \in Fields |-> n[f]]
  BY DEF WellFormed, FinishExecution
<1>2. SameExcept(r, n, F)
  BY DEF WellFormed, FinishExecution, SameExcept
<1>3. n.active = NoExecution
  BY FieldNames DEF WellFormed, FinishExecution
<1>4. Kept(r, n, F)
  BY <1>1, <1>2, KeptShape
<1> QED
  BY <1>3, <1>4 DEF FinishChange

\* A package child whose end is proven.
FinishPackageChange(r, n) ==
  /\ Kept(r, n, {"active", "phase"})
  /\ n.active = NoExecution /\ n.phase = "verified"

\* The helper changes no more.
LEMMA FinishPackageFields ==
  ASSUME NEW r, WellFormed(r), NEW started, NEW clean,
         started, clean, r.active.kind = "package"
  PROVE  FinishPackageChange(r, FinishExecution(r, started, clean))
<1> USE Zenon
<1> DEFINE n == FinishExecution(r, started, clean)
           F == {"active", "phase"}
<1>1. n = [f \in Fields |-> n[f]]
  BY DEF WellFormed, FinishExecution
<1>2. SameExcept(r, n, F)
  BY DEF WellFormed, FinishExecution, SameExcept
<1>3. n.active = NoExecution /\ n.phase = "verified"
  BY FieldNames DEF WellFormed, FinishExecution
<1>4. Kept(r, n, F)
  BY <1>1, <1>2, KeptShape
<1> QED
  BY <1>3, <1>4 DEF FinishPackageChange

\* A package child that was never started.
PackageUnarmed(r, n) ==
  /\ Kept(r, n, {"active", "phase", "bootSession", "reconciled", "packageRetry"})
  /\ n.active = NoExecution /\ n.phase = "pending" /\ n.bootSession = 0
  /\ n.reconciled = FALSE /\ n.packageRetry = FALSE

\* The end of a package child that was never started, field by field.
LEMMA UnstartedPackageFields ==
  ASSUME NEW r, WellFormed(r), NEW started, NEW clean,
         ~started, r.active.kind = "package"
  PROVE  PackageUnarmed(r, FinishExecution(r, started, clean))
<1> USE Zenon
<1> DEFINE n == FinishExecution(r, started, clean)
           F == {"active", "phase", "bootSession", "reconciled", "packageRetry"}
<1>1. n = [f \in Fields |-> n[f]]
  BY DEF WellFormed, FinishExecution
<1>2. SameExcept(r, n, F)
  BY DEF WellFormed, FinishExecution, SameExcept
<1>3. n.active = NoExecution /\ n.phase = "pending" /\ n.bootSession = 0
  BY FieldNames DEF WellFormed, FinishExecution
<1>4. n.reconciled = FALSE /\ n.packageRetry = FALSE
  BY FieldNames DEF WellFormed, FinishExecution
<1>5. Kept(r, n, F)
  BY <1>1, <1>2, KeptShape
<1> QED
  BY <1>3, <1>4, <1>5 DEF PackageUnarmed

\* The resolution of a package child.
ResolvedPackageChange(r, n) ==
  /\ Kept(r, n, {"active", "resolution", "requires", "recoveryPending", "phase",
                 "bootSession", "reconciled", "packageRetry", "released",
                 "finalizing"})
  /\ n.active = NoExecution /\ n.resolution = "" /\ n.requires = FALSE
  /\ n.recoveryPending = r.requires /\ n.phase = "pending" /\ n.bootSession = 0
  /\ n.reconciled = FALSE /\ n.packageRetry = TRUE /\ n.released = FALSE
  /\ n.finalizing = FALSE

\* The helper changes no more.
LEMMA ResolvedPackageFields ==
  ASSUME NEW r, WellFormed(r),
         r.resolution # "trash_receipt_invalid", r.active.kind = "package"
  PROVE  ResolvedPackageChange(r, ResolvedRemovalExecutionRecord(r))
<1> USE Zenon
<1> DEFINE n == ResolvedRemovalExecutionRecord(r)
           F == {"active", "resolution", "requires", "recoveryPending", "phase",
                "bootSession", "reconciled", "packageRetry", "released", "finalizing"}
<1>1. n = [f \in Fields |-> n[f]]
  BY DEF WellFormed, ResolvedRemovalExecutionRecord
<1> SameExcept(r, n, F)
  BY DEF WellFormed, ResolvedRemovalExecutionRecord, SameExcept
<1> n.active = NoExecution /\ n.resolution = "" /\ n.requires = FALSE
  BY FieldNames DEF WellFormed, ResolvedRemovalExecutionRecord
<1> n.recoveryPending = r.requires /\ n.phase = "pending" /\ n.bootSession = 0
  BY FieldNames DEF WellFormed, ResolvedRemovalExecutionRecord
<1> n.reconciled = FALSE /\ n.packageRetry = TRUE /\ n.released = FALSE
  BY FieldNames DEF WellFormed, ResolvedRemovalExecutionRecord
<1> n.finalizing = FALSE
  BY FieldNames DEF WellFormed, ResolvedRemovalExecutionRecord
<1>7. n.released \in BOOLEAN /\ n.finalizing \in BOOLEAN
  BY FieldNames DEF WellFormed, SameExcept
<1> QED
  BY <1>1, <1>7 DEF Kept, WellFormed, ResolvedPackageChange

\* The resolution of a teardown or an unstarted Trash child.
ResolvedRetryChange(r, n) ==
  /\ Kept(r, n, {"active", "resolution", "requires", "recoveryPending", "phase",
                 "operationRetry", "packageRetry"})
  /\ n.active = NoExecution /\ n.resolution = "" /\ n.requires = FALSE
  /\ n.recoveryPending = r.requires /\ n.phase = "intent"
  /\ n.operationRetry = TRUE /\ n.packageRetry = FALSE

\* The helper changes no more.
LEMMA ResolvedRetryFields ==
  ASSUME NEW r, WellFormed(r),
         r.resolution # "trash_receipt_invalid", r.active.kind # "package"
  PROVE  ResolvedRetryChange(r, ResolvedRemovalExecutionRecord(r))
<1> USE Zenon
<1> DEFINE n == ResolvedRemovalExecutionRecord(r)
           F == {"active", "resolution", "requires", "recoveryPending", "phase",
                "operationRetry", "packageRetry"}
<1>1. n = [f \in Fields |-> n[f]]
  BY DEF WellFormed, ResolvedRemovalExecutionRecord
<1>2. SameExcept(r, n, F)
  BY DEF WellFormed, ResolvedRemovalExecutionRecord, SameExcept
<1>3. n.active = NoExecution /\ n.resolution = "" /\ n.requires = FALSE
  BY FieldNames DEF WellFormed, ResolvedRemovalExecutionRecord
<1>4. n.recoveryPending = r.requires /\ n.phase = "intent" /\ n.operationRetry = TRUE
  BY FieldNames DEF WellFormed, ResolvedRemovalExecutionRecord
<1>5. n.packageRetry = FALSE
  BY FieldNames DEF WellFormed, ResolvedRemovalExecutionRecord
<1>6. Kept(r, n, F)
  BY <1>1, <1>2, KeptShape
<1> QED
  BY <1>3, <1>4, <1>5, <1>6 DEF ResolvedRetryChange

\* A teardown child of an earlier boot.
RebootTeardownChange(r, n) ==
  /\ Kept(r, n, {"active"})
  /\ n.active = NoExecution

\* The helper changes no more.
LEMMA RebootTeardownFields ==
  ASSUME NEW r, WellFormed(r), NEW absent, r.active.kind = "teardown"
  PROVE  RebootTeardownChange(r, ReconcileActiveExecutionAfterBoot(r, absent))
<1> USE Zenon
<1> DEFINE n == ReconcileActiveExecutionAfterBoot(r, absent)
           F == {"active"}
<1>1. n = [f \in Fields |-> n[f]]
  BY DEF WellFormed, ReconcileActiveExecutionAfterBoot
<1>2. SameExcept(r, n, F)
  BY DEF WellFormed, ReconcileActiveExecutionAfterBoot, SameExcept
<1>3. n.active = NoExecution
  BY FieldNames DEF WellFormed, ReconcileActiveExecutionAfterBoot
<1>4. Kept(r, n, F)
  BY <1>1, <1>2, KeptShape
<1> QED
  BY <1>3, <1>4 DEF RebootTeardownChange

\* A package child of an earlier boot, the package gone.
RebootAbsentChange(r, n) ==
  /\ Kept(r, n, {"active", "phase", "reconciled", "packageRetry"})
  /\ n.active = NoExecution /\ n.phase = "verified" /\ n.reconciled = FALSE
  /\ n.packageRetry = FALSE

\* The helper changes no more.
LEMMA RebootAbsentFields ==
  ASSUME NEW r, WellFormed(r), NEW absent, r.active.kind = "package", absent
  PROVE  RebootAbsentChange(r, ReconcileActiveExecutionAfterBoot(r, absent))
<1> USE Zenon
<1> DEFINE n == ReconcileActiveExecutionAfterBoot(r, absent)
           F == {"active", "phase", "reconciled", "packageRetry"}
<1>1. n = [f \in Fields |-> n[f]]
  BY DEF WellFormed, ReconcileActiveExecutionAfterBoot
<1>2. SameExcept(r, n, F)
  BY DEF WellFormed, ReconcileActiveExecutionAfterBoot, SameExcept
<1>3. n.active = NoExecution /\ n.phase = "verified" /\ n.reconciled = FALSE
  BY FieldNames DEF WellFormed, ReconcileActiveExecutionAfterBoot
<1>4. n.packageRetry = FALSE
  BY FieldNames DEF WellFormed, ReconcileActiveExecutionAfterBoot
<1>5. Kept(r, n, F)
  BY <1>1, <1>2, KeptShape
<1> QED
  BY <1>3, <1>4, <1>5 DEF RebootAbsentChange

\* A package child of an earlier boot, the package still there.
RebootPresentChange(r, n) ==
  /\ Kept(r, n, {"active", "phase", "reconciled", "bootSession", "packageRetry"})
  /\ n.active = NoExecution /\ n.phase = "pending" /\ n.reconciled = TRUE
  /\ n.bootSession = r.active.boot /\ n.packageRetry = FALSE

\* The helper changes no more.
LEMMA RebootPresentFields ==
  ASSUME NEW r, WellFormed(r), NEW absent, r.active.kind = "package", ~absent
  PROVE  RebootPresentChange(r, ReconcileActiveExecutionAfterBoot(r, absent))
<1> USE Zenon
<1> DEFINE n == ReconcileActiveExecutionAfterBoot(r, absent)
           F == {"active", "phase", "reconciled", "bootSession", "packageRetry"}
<1>1. n = [f \in Fields |-> n[f]]
  BY DEF WellFormed, ReconcileActiveExecutionAfterBoot
<1>2. SameExcept(r, n, F)
  BY DEF WellFormed, ReconcileActiveExecutionAfterBoot, SameExcept
<1>3. n.active = NoExecution /\ n.phase = "pending" /\ n.reconciled = TRUE
  BY FieldNames DEF WellFormed, ReconcileActiveExecutionAfterBoot
<1>4. n.bootSession = r.active.boot /\ n.packageRetry = FALSE
  BY FieldNames DEF WellFormed, ReconcileActiveExecutionAfterBoot
<1>5. Kept(r, n, F)
  BY <1>1, <1>2, KeptShape
<1> QED
  BY <1>3, <1>4, <1>5 DEF RebootPresentChange

\* The gate is released after a routing recovery.
RecoveryReleaseChange(r, n) ==
  /\ Kept(r, n, {"recoveryPending"})
  /\ n.recoveryPending = FALSE

\* The helper changes no more.
LEMMA RecoveryReleaseFields ==
  ASSUME NEW r, WellFormed(r), r.recoveryPending
  PROVE  RecoveryReleaseChange(r, ReleaseRemovalRoutingGateForRecovery(r))
<1> USE Zenon
<1> DEFINE n == ReleaseRemovalRoutingGateForRecovery(r)
           F == {"recoveryPending"}
<1>1. n = [f \in Fields |-> n[f]]
  BY DEF WellFormed, ReleaseRemovalRoutingGateForRecovery
<1>2. SameExcept(r, n, F)
  BY DEF WellFormed, ReleaseRemovalRoutingGateForRecovery, SameExcept
<1>3. n.recoveryPending = FALSE
  BY FieldNames DEF WellFormed, ReleaseRemovalRoutingGateForRecovery
<1>4. Kept(r, n, F)
  BY <1>1, <1>2, KeptShape
<1> QED
  BY <1>3, <1>4 DEF RecoveryReleaseChange

\* The gate of a verified removal is released.
VerifiedReleaseChange(r, n) ==
  /\ Kept(r, n, {"released"})
  /\ n.released = TRUE

\* The helper changes no more.
LEMMA VerifiedReleaseFields ==
  ASSUME NEW r, WellFormed(r), ~r.recoveryPending
  PROVE  VerifiedReleaseChange(r, ReleaseRemovalRoutingGateForRecovery(r))
<1> USE Zenon
<1> DEFINE n == ReleaseRemovalRoutingGateForRecovery(r)
           F == {"released"}
<1>1. n = [f \in Fields |-> n[f]]
  BY DEF WellFormed, ReleaseRemovalRoutingGateForRecovery
<1> SameExcept(r, n, F)
  BY DEF WellFormed, ReleaseRemovalRoutingGateForRecovery, SameExcept
<1> n.released = TRUE
  BY FieldNames DEF WellFormed, ReleaseRemovalRoutingGateForRecovery
<1>4. n.released \in BOOLEAN /\ n.finalizing \in BOOLEAN
  BY FieldNames DEF WellFormed, SameExcept
<1> QED
  BY <1>1, <1>4 DEF Kept, WellFormed, VerifiedReleaseChange

\* ReleaseRemovalRoutingGateForFinalization.
FinalizationChange(r, n) ==
  /\ Kept(r, n, {"released", "finalizing"})
  /\ n.released = TRUE /\ n.finalizing = TRUE

\* The helper changes no more.
LEMMA FinalizationFields ==
  ASSUME NEW r, WellFormed(r)
  PROVE  FinalizationChange(r, ReleaseRemovalRoutingGateForFinalization(r))
<1> USE Zenon
<1> DEFINE n == ReleaseRemovalRoutingGateForFinalization(r)
           F == {"released", "finalizing"}
<1>1. n = [f \in Fields |-> n[f]]
  BY DEF WellFormed, ReleaseRemovalRoutingGateForFinalization
<1> SameExcept(r, n, F)
  BY DEF WellFormed, ReleaseRemovalRoutingGateForFinalization, SameExcept
<1> n.released = TRUE /\ n.finalizing = TRUE
  BY FieldNames DEF WellFormed, ReleaseRemovalRoutingGateForFinalization
<1>4. n.released \in BOOLEAN /\ n.finalizing \in BOOLEAN
  BY FieldNames DEF WellFormed, SameExcept
<1> QED
  BY <1>1, <1>4 DEF Kept, WellFormed, FinalizationChange

\* CompleteStandaloneTeardown.
CompleteChange(r, n) ==
  /\ Kept(r, n, {"active", "teardownDone", "nativeState", "verified"})
  /\ n.active = NoExecution /\ n.teardownDone = TRUE /\ n.nativeState = "native"

\* The helper changes no more.
LEMMA CompleteFields ==
  ASSUME NEW r, WellFormed(r), NEW revision
  PROVE  CompleteChange(r, CompleteStandaloneTeardown(r, revision))
<1> USE Zenon
<1> DEFINE n == CompleteStandaloneTeardown(r, revision)
           F == {"active", "teardownDone", "nativeState", "verified"}
<1>1. n = [f \in Fields |-> n[f]]
  BY DEF WellFormed, CompleteStandaloneTeardown
<1>2. SameExcept(r, n, F)
  BY DEF WellFormed, CompleteStandaloneTeardown, SameExcept
<1>3. n.active = NoExecution /\ n.teardownDone = TRUE /\ n.nativeState = "native"
  BY FieldNames DEF WellFormed, CompleteStandaloneTeardown
<1>4. Kept(r, n, F)
  BY <1>1, <1>2, KeptShape
<1> QED
  BY <1>3, <1>4 DEF CompleteChange

\* ReconcileStandaloneTeardownAfterBoot.
RebootStandaloneChange(r, n, revision) ==
  /\ Kept(r, n, {"active", "nativeState", "verified", "nativeRecovery",
                 "operationRetry"})
  /\ n.active = NoExecution /\ n.nativeState = "native" /\ n.verified = revision
  /\ n.nativeRecovery = FALSE /\ n.operationRetry = TRUE

\* The helper changes no more.
LEMMA RebootStandaloneFields ==
  ASSUME NEW r, WellFormed(r), NEW revision
  PROVE  RebootStandaloneChange(r, ReconcileStandaloneTeardownAfterBoot(r, revision), revision)
<1> USE Zenon
<1> DEFINE n == ReconcileStandaloneTeardownAfterBoot(r, revision)
           F == {"active", "nativeState", "verified", "nativeRecovery",
                "operationRetry"}
<1>1. n = [f \in Fields |-> n[f]]
  BY DEF WellFormed, ReconcileStandaloneTeardownAfterBoot
<1>2. SameExcept(r, n, F)
  BY DEF WellFormed, ReconcileStandaloneTeardownAfterBoot, SameExcept
<1>3. n.active = NoExecution /\ n.nativeState = "native" /\ n.verified = revision
  BY FieldNames DEF WellFormed, ReconcileStandaloneTeardownAfterBoot
<1>4. n.nativeRecovery = FALSE /\ n.operationRetry = TRUE
  BY FieldNames DEF WellFormed, ReconcileStandaloneTeardownAfterBoot
<1>5. Kept(r, n, F)
  BY <1>1, <1>2, KeptShape
<1> QED
  BY <1>3, <1>4, <1>5 DEF RebootStandaloneChange

\* RecoverStandaloneTeardownNativeBoundary.
RecoverBoundaryChange(r, n, revision) ==
  /\ Kept(r, n, {"nativeState", "verified", "nativeRecovery", "operationRetry"})
  /\ n.nativeState = "native" /\ n.verified = revision
  /\ n.nativeRecovery = FALSE /\ n.operationRetry = TRUE

\* The helper changes no more.
LEMMA RecoverBoundaryFields ==
  ASSUME NEW r, WellFormed(r), NEW revision
  PROVE  RecoverBoundaryChange(r, RecoverStandaloneTeardownNativeBoundary(r, revision), revision)
<1> USE Zenon
<1> DEFINE n == RecoverStandaloneTeardownNativeBoundary(r, revision)
           F == {"nativeState", "verified", "nativeRecovery", "operationRetry"}
<1>1. n = [f \in Fields |-> n[f]]
  BY DEF WellFormed, RecoverStandaloneTeardownNativeBoundary
<1>2. SameExcept(r, n, F)
  BY DEF WellFormed, RecoverStandaloneTeardownNativeBoundary, SameExcept
<1>3. n.nativeState = "native" /\ n.verified = revision /\ n.nativeRecovery = FALSE
  BY FieldNames DEF WellFormed, RecoverStandaloneTeardownNativeBoundary
<1>4. n.operationRetry = TRUE
  BY FieldNames DEF WellFormed, RecoverStandaloneTeardownNativeBoundary
<1>5. Kept(r, n, F)
  BY <1>1, <1>2, KeptShape
<1> QED
  BY <1>3, <1>4, <1>5 DEF RecoverBoundaryChange

\* MarkStandaloneNativeRecovery.
MarkNativeChange(r, n) ==
  /\ Kept(r, n, {"nativeRecovery"})
  /\ n.nativeRecovery = TRUE

\* The helper changes no more.
LEMMA MarkNativeFields ==
  ASSUME NEW r, WellFormed(r)
  PROVE  MarkNativeChange(r, MarkStandaloneNativeRecovery(r))
<1> USE Zenon
<1> DEFINE n == MarkStandaloneNativeRecovery(r)
           F == {"nativeRecovery"}
<1>1. n = [f \in Fields |-> n[f]]
  BY DEF WellFormed, MarkStandaloneNativeRecovery
<1>2. SameExcept(r, n, F)
  BY DEF WellFormed, MarkStandaloneNativeRecovery, SameExcept
<1>3. n.nativeRecovery = TRUE
  BY FieldNames DEF WellFormed, MarkStandaloneNativeRecovery
<1>4. Kept(r, n, F)
  BY <1>1, <1>2, KeptShape
<1> QED
  BY <1>3, <1>4 DEF MarkNativeChange

\* ClearStandaloneNativeRecovery.
ClearNativeChange(r, n) ==
  /\ Kept(r, n, {"nativeRecovery"})
  /\ n.nativeRecovery = FALSE

\* The helper changes no more.
LEMMA ClearNativeFields ==
  ASSUME NEW r, WellFormed(r)
  PROVE  ClearNativeChange(r, ClearStandaloneNativeRecovery(r))
<1> USE Zenon
<1> DEFINE n == ClearStandaloneNativeRecovery(r)
           F == {"nativeRecovery"}
<1>1. n = [f \in Fields |-> n[f]]
  BY DEF WellFormed, ClearStandaloneNativeRecovery
<1>2. SameExcept(r, n, F)
  BY DEF WellFormed, ClearStandaloneNativeRecovery, SameExcept
<1>3. n.nativeRecovery = FALSE
  BY FieldNames DEF WellFormed, ClearStandaloneNativeRecovery
<1>4. Kept(r, n, F)
  BY <1>1, <1>2, KeptShape
<1> QED
  BY <1>3, <1>4 DEF ClearNativeChange

\* What Retire leaves: the selection is on the retired list, or the list is
\* full and no further Trash selection is admitted.
Retiring(r, n) ==
  \/ n.retired = r.retired \cup r.selected /\ n.locked = r.locked
       /\ ~(Cardinality(n.retired) > MaxRetired)
  \/ n.retired = r.retired /\ n.locked = TRUE
       /\ Cardinality(r.retired \cup r.selected) > MaxRetired

\* Retire.
LEMMA RetireFields ==
  ASSUME NEW r, WellFormed(r)
  PROVE  Kept(r, Retire(r), {"retired", "locked"}) /\ Retiring(r, Retire(r))
<1> USE Zenon
<1> DEFINE all == r.retired \cup r.selected
<1>1. CASE Cardinality(all) > MaxRetired
  <2> DEFINE n == [r EXCEPT !.locked = TRUE]
  <2>1. Retire(r) = n
    BY <1>1 DEF Retire
  <2>2. n = [f \in Fields |-> n[f]]
    BY DEF WellFormed
  <2>3. SameExcept(r, n, {"retired", "locked"})
    BY DEF WellFormed, SameExcept
  <2>4. n.retired = r.retired /\ n.locked = TRUE
    BY FieldNames DEF WellFormed
  <2> HIDE DEF n
  <2>5. Kept(r, n, {"retired", "locked"})
    BY <2>2, <2>3, KeptShape
  <2> QED
    BY <1>1, <2>1, <2>4, <2>5 DEF Retiring
<1>2. CASE ~(Cardinality(all) > MaxRetired)
  <2> USE <1>2
  <2> DEFINE n == [r EXCEPT !.retired = all]
  <2>1. Retire(r) = n
    BY DEF Retire
  <2>2. n = [f \in Fields |-> n[f]]
    BY DEF WellFormed
  <2>3. SameExcept(r, n, {"retired", "locked"})
    BY DEF WellFormed, SameExcept
  <2>4. n.retired = all /\ n.locked = r.locked
    BY FieldNames DEF WellFormed
  <2> HIDE DEF n
  <2>5. Kept(r, n, {"retired", "locked"})
    BY <2>2, <2>3, KeptShape
  <2> QED
    BY <2>1, <2>4, <2>5 DEF Retiring
<1> QED
  BY <1>1, <1>2

\* Two updates in a row.
LEMMA KeptTwice ==
  ASSUME NEW r, NEW x, NEW n, NEW F, NEW G, WellFormed(r), Kept(r, x, F), Kept(x, n, G)
  PROVE  Kept(r, n, F \cup G)
  BY Zenon DEF Kept, SameExcept, WellFormed

\* MarkRemovalDataRefreshRequired.
RefreshChange(r, n) ==
  /\ Kept(r, n, {"retired", "locked", "phase", "outcome"})
  /\ n.phase = "refresh" /\ n.outcome = (IF r.phase = "intent" THEN "unknown" ELSE r.outcome)
  /\ Retiring(r, n)

\* The helper changes no more.
LEMMA RefreshFields ==
  ASSUME NEW r, WellFormed(r)
  PROVE  RefreshChange(r, MarkRemovalDataRefreshRequired(r))
<1> USE Zenon
<1> DEFINE x == Retire(r)
           o == IF r.phase = "intent" THEN "unknown" ELSE r.outcome
           n == [x EXCEPT !.phase = "refresh", !.outcome = o]
<1>1. MarkRemovalDataRefreshRequired(r) = n
  BY DEF MarkRemovalDataRefreshRequired
<1> Kept(r, x, {"retired", "locked"}) /\ Retiring(r, x)
  BY RetireFields
<1> HIDE DEF x, o
<1>3. n = [f \in Fields |-> n[f]] /\ SameExcept(x, n, {"phase", "outcome"})
  BY DEF Kept, WellFormed, SameExcept
<1> n.phase = "refresh" /\ n.outcome = o /\ n.retired = x.retired /\ n.locked = x.locked
  BY FieldNames DEF Kept, WellFormed
<1> HIDE DEF n
<1>5. Kept(x, n, {"phase", "outcome"})
  BY <1>3, KeptShape DEF Kept
<1>6. Kept(r, n, {"retired", "locked"} \cup {"phase", "outcome"})
  BY <1>5, KeptTwice
<1>7. {"retired", "locked"} \cup {"phase", "outcome"} = {"retired", "locked", "phase", "outcome"}
  OBVIOUS
<1>8. Retiring(r, n)
  BY DEF Retiring
<1> QED
  BY <1>1, <1>6, <1>7, <1>8 DEF o, RefreshChange

\* A Trash child of an earlier boot.
RebootTrashChange(r, n) ==
  /\ Kept(r, n, {"active", "retired", "locked", "phase", "outcome", "moved"})
  /\ n.active = NoExecution /\ n.phase = "refresh" /\ n.outcome = "unknown" /\ n.moved = 0
  /\ Retiring(r, n)

\* The helper changes no more.
LEMMA RebootTrashFields ==
  ASSUME NEW r, WellFormed(r), NEW absent, r.active.kind = "trash"
  PROVE  RebootTrashChange(r, ReconcileActiveExecutionAfterBoot(r, absent))
<1> USE FieldNames, Zenon
<1> DEFINE y == [r EXCEPT !.active = NoExecution]
           x == Retire(y)
           n == [x EXCEPT !.phase = "refresh", !.outcome = "unknown", !.moved = 0]
<1>1. ReconcileActiveExecutionAfterBoot(r, absent) = n
  BY DEF ReconcileActiveExecutionAfterBoot
<1>2. y = [f \in Fields |-> y[f]] /\ SameExcept(r, y, {"active"})
  BY DEF WellFormed, SameExcept
<1> /\ y.active = NoExecution /\ y.retired = r.retired /\ y.locked = r.locked
    /\ y.selected = r.selected
  BY DEF WellFormed
<1> HIDE DEF y
<1> Kept(r, y, {"active"})
  BY <1>2, KeptShape
<1> Kept(y, x, {"retired", "locked"}) /\ Retiring(y, x)
  BY RetireFields DEF Kept
<1> HIDE DEF x
<1>7. x.active = NoExecution
  BY DEF Kept, SameExcept, WellFormed
<1>8. n = [f \in Fields |-> n[f]] /\ SameExcept(x, n, {"phase", "outcome", "moved"})
  BY DEF Kept, WellFormed, SameExcept
<1>9. n.phase = "refresh" /\ n.outcome = "unknown" /\ n.moved = 0
  BY DEF Kept, WellFormed
<1> n.retired = x.retired /\ n.locked = x.locked /\ n.active = x.active
  BY DEF Kept, WellFormed
<1> HIDE DEF n
<1>11. Kept(x, n, {"phase", "outcome", "moved"})
  BY <1>8, KeptShape DEF Kept
<1>12. Kept(r, n, ({"active"} \cup {"retired", "locked"}) \cup {"phase", "outcome", "moved"})
  BY <1>11, KeptTwice
<1>13. ({"active"} \cup {"retired", "locked"}) \cup {"phase", "outcome", "moved"}
         = {"active", "retired", "locked", "phase", "outcome", "moved"}
  OBVIOUS
<1>14. Retiring(r, n)
  BY DEF Retiring
<1> QED
  BY <1>1, <1>7, <1>9, <1>12, <1>13, <1>14 DEF RebootTrashChange

\* The resolution of a Trash child whose receipt is invalid.
ResolvedTrashChange(r, n) ==
  /\ Kept(r, n, {"active", "resolution", "requires", "recoveryPending", "retired",
                 "locked", "phase", "outcome", "moved", "operationRetry", "packageRetry"})
  /\ n.active = NoExecution /\ n.resolution = "" /\ n.requires = FALSE
  /\ n.recoveryPending = r.requires /\ n.phase = "refresh" /\ n.outcome = "unknown"
  /\ n.moved = 0 /\ n.operationRetry = FALSE /\ n.packageRetry = FALSE
  /\ Retiring(r, n)

\* The helper changes no more.
LEMMA ResolvedTrashFields ==
  ASSUME NEW r, WellFormed(r), r.resolution = "trash_receipt_invalid"
  PROVE  ResolvedTrashChange(r, ResolvedRemovalExecutionRecord(r))
<1> USE Zenon
<1> DEFINE y == [r EXCEPT !.active = NoExecution, !.resolution = "", !.requires = FALSE,
                          !.recoveryPending = r.requires]
           x == Retire(y)
           n == [x EXCEPT !.phase = "refresh", !.outcome = "unknown", !.moved = 0,
                          !.operationRetry = FALSE, !.packageRetry = FALSE]
           F == {"active", "resolution", "requires", "recoveryPending"}
           G == {"phase", "outcome", "moved", "operationRetry", "packageRetry"}
<1>1. ResolvedRemovalExecutionRecord(r) = n
  BY DEF ResolvedRemovalExecutionRecord
<1>2. y = [f \in Fields |-> y[f]] /\ SameExcept(r, y, F)
  BY DEF WellFormed, SameExcept
<1>3. y.retired = r.retired /\ y.locked = r.locked /\ y.selected = r.selected
  BY FieldNames DEF WellFormed
<1>4. /\ y.active = NoExecution /\ y.resolution = "" /\ y.requires = FALSE
      /\ y.recoveryPending = r.requires
  BY FieldNames DEF WellFormed
<1> HIDE DEF y
<1> Kept(r, y, F)
  BY <1>2, KeptShape
<1> Kept(y, x, {"retired", "locked"}) /\ Retiring(y, x)
  BY RetireFields DEF Kept
<1> HIDE DEF x
<1>7. /\ x.active = NoExecution /\ x.resolution = "" /\ x.requires = FALSE
      /\ x.recoveryPending = r.requires
  BY <1>4, FieldNames DEF Kept, SameExcept, WellFormed
<1> n = [f \in Fields |-> n[f]] /\ SameExcept(x, n, G)
  BY DEF Kept, WellFormed, SameExcept
<1>9. n.phase = "refresh" /\ n.outcome = "unknown" /\ n.moved = 0
  BY FieldNames DEF Kept, WellFormed
<1>10. n.operationRetry = FALSE /\ n.packageRetry = FALSE
  BY FieldNames DEF Kept, WellFormed
<1> HIDE DEF n
<1> n.retired = x.retired /\ n.locked = x.locked /\ n.active = x.active
  BY FieldNames DEF Kept, WellFormed, SameExcept
<1>12. /\ n.resolution = x.resolution /\ n.requires = x.requires
       /\ n.recoveryPending = x.recoveryPending
  BY FieldNames DEF Kept, WellFormed, SameExcept
<1>13. Kept(x, n, G)
  BY KeptShape DEF Kept
<1>14. Kept(r, n, (F \cup {"retired", "locked"}) \cup G)
  BY <1>13, KeptTwice
<1>15. (F \cup {"retired", "locked"}) \cup G
         = {"active", "resolution", "requires", "recoveryPending", "retired",
            "locked", "phase", "outcome", "moved", "operationRetry", "packageRetry"}
  OBVIOUS
<1>16. Retiring(r, n)
  BY <1>3 DEF Retiring
<1> HIDE DEF F, G
<1> QED
  BY <1>1, <1>7, <1>9, <1>10, <1>12, <1>14, <1>15, <1>16 DEF ResolvedTrashChange

\* NewRemovalIntentRecord.
LEMMA IntentShape ==
  ASSUME NEW c, NEW req
  PROVE  WellFormed(NewRemovalIntentRecord(c, req))
<1> DEFINE n == NewRemovalIntentRecord(c, req)
<1>1. n = [f \in Fields |-> n[f]]
  BY NoRecordShape, Zenon DEF NewRemovalIntentRecord, WellFormed
<1>2. n.finalizing = FALSE /\ n.released = FALSE
  BY DEF NewRemovalIntentRecord, NoRecord
<1> QED
  BY <1>1, <1>2, Zenon DEF WellFormed

-----------------------------------------------------------------------------
(* What the steps of a command use of the validator. *)

\* The part of Valid that relates the fields of a record.
Coherent(r) ==
  /\ r.selected \subseteq Items /\ r.retired \subseteq Items
  /\ Active(r) => r.active.kind \in Kinds /\ r.active.attempt = r.attempt /\ ~r.operationRetry
  /\ r.active.kind = "package" <=> r.phase = "in_flight"
  /\ r.active.kind \in {"teardown", "trash"} => r.phase = "intent"
  /\ r.requires => r.resolution # ""
  /\ r.resolution # "" => Active(r) /\ ValidResolutionForKind(r.active.kind, r.resolution)
  /\ Standalone(r) /\ (r.active.kind = "trash" \/ r.phase # "intent") =>
       r.teardownDone /\ r.verified # ""
  /\ r.phase = "refresh" => r.locked \/ r.selected \subseteq r.retired
  /\ r.mode = "preserve" => r.selected = {}
  /\ r.finalizing => r.phase = "verified" /\ ~Active(r)

\* A record the validator accepts is coherent.
LEMMA ValidCoherent ==
  ASSUME NEW r, Valid(r)
  PROVE  Coherent(r) /\ Exists(r)
<1> USE Zenon
<1>1. Exists(r) /\ r.selected \subseteq Items /\ r.retired \subseteq Items
  BY DEF Valid, ValidShape, Phases, Exists
<1>2. Active(r) => r.active.kind \in Kinds /\ r.active.attempt = r.attempt /\ ~r.operationRetry
  BY DEF Valid, ValidActive, ValidFlags
<1>3. /\ r.active.kind = "package" <=> r.phase = "in_flight"
      /\ r.active.kind \in {"teardown", "trash"} => r.phase = "intent"
  BY DEF Valid, ValidActive
<1>4. /\ r.requires => r.resolution # ""
      /\ r.resolution # "" => Active(r) /\ ValidResolutionForKind(r.active.kind, r.resolution)
  BY DEF Valid, ValidResolution
<1>5. Standalone(r) /\ (r.active.kind = "trash" \/ r.phase # "intent") =>
        r.teardownDone /\ r.verified # ""
  BY DEF Valid, ValidActive, ValidContext, Standalone
<1>6. /\ r.phase = "refresh" => r.locked \/ r.selected \subseteq r.retired
      /\ r.mode = "preserve" => r.selected = {}
  BY DEF Valid, ValidSelection
<1>7. r.finalizing => r.phase = "verified" /\ ~Active(r)
  BY DEF Valid, ValidFlags
<1> QED
  BY <1>1, <1>2, <1>3, <1>4, <1>5, <1>6, <1>7 DEF Coherent

\* So is the empty journal.
LEMMA EmptyCoherent == Coherent(NoRecord)
<1>1. NoRecord.selected = {} /\ NoRecord.retired = {} /\ NoRecord.requires = FALSE
  BY DEF NoRecord
<1>2. NoRecord.active.kind = "none"
  BY DEF NoRecord, NoExecution
<1> QED
  BY <1>1, <1>2, NoRecordShape, Zenon DEF Coherent, Standalone

\* The journal on disk.
LEMMA JournalCoherent ==
  ASSUME Journal
  PROVE  /\ WellFormed(rec) /\ Coherent(rec)
         /\ Exists(rec) => rec.context = context
         /\ ~Exists(rec) => rec = NoRecord
  BY ValidCoherent, EmptyCoherent DEF Journal

\* No child runs that the journal does not name as active, unmarked and of
\* this boot.
LEMMA NoChild ==
  ASSUME Children, ~Active(rec) \/ rec.resolution # "" \/ rec.active.boot # boot
  PROVE  kids = {}
<1> SUFFICES ASSUME NEW k \in kids PROVE FALSE
  BY Zenon
<1> QED
  BY Zenon DEF Children, Active, Kinds

\* A reaped child was the only one.
LEMMA ReapAll ==
  ASSUME Children, Reap
  PROVE  kids' = {}
  BY Zenon DEF Reap, Children

\* Which steps of the command each conjunct of Stage speaks of.
LEMMA StageParts ==
  /\ ~local' \/ cmd'.pc = "idle" => OffLocal'
  /\ cmd'.pc \notin {"prepare", "teardown", "trash"} => Preparing'
  /\ cmd'.pc \notin {"launch", "mark"} => Launching'
  /\ cmd'.pc \notin {"recover", "record", "refresh"} => Recording'
  /\ cmd'.pc \notin {"park", "clear"} => Resolving'
  /\ cmd'.pc \notin {"profile", "enrollment", "journal"} => Finalizing'
  /\ cmd'.pc \notin {"ocx", "enrol"} => Handing'
<1>1. (~local' \/ cmd'.pc = "idle" => OffLocal')
      /\ (cmd'.pc \notin {"prepare", "teardown", "trash"} => Preparing')
  BY Zenon DEF OffLocal, Preparing, At
<1>2. (cmd'.pc \notin {"launch", "mark"} => Launching')
      /\ (cmd'.pc \notin {"recover", "record", "refresh"} => Recording')
  BY Zenon DEF Launching, Recording, At
<1>3. /\ cmd'.pc \notin {"park", "clear"} => Resolving'
      /\ cmd'.pc \notin {"profile", "enrollment", "journal"} => Finalizing'
      /\ cmd'.pc \notin {"ocx", "enrol"} => Handing'
  BY Zenon DEF Resolving, Finalizing, Handing, At
<1> QED
  BY <1>1, <1>2, <1>3

\* A step after which no command runs.
LEMMA IdleStage ==
  ASSUME cmd'.pc = "idle"
  PROVE  Stage'
  BY StageParts DEF Stage

\* A step beside the command.
LEMMA BesideStage ==
  ASSUME Stage, UNCHANGED <<context, rec, local, home, kids, boot, relay, parked, cmd>>,
         pkg' = pkg \/ Exists(rec)
  PROVE  Stage'
<1>1. OffLocal' /\ Preparing'
  BY Zenon DEF Stage, OffLocal, Preparing, At, InPlace
<1>2. Launching'
  BY Zenon DEF Stage, Launching, At, InPlace, Armed
<1>3. Recording'
  BY DEF Stage, Recording, At, Moved
<1>4. Resolving'
  BY Zenon DEF Stage, Resolving, At, Integrated
<1>5. Finalizing' /\ Handing'
  BY DEF Stage, Finalizing, Handing, At, Integrated
<1> QED
  BY <1>1, <1>2, <1>3, <1>4, <1>5 DEF Stage

\* The idle command.
LEMMA IdleCommand == Idle = [pc |-> "idle", req |-> Idle.req, then |-> "", why |-> "", flag |-> FALSE]
                     /\ Idle.pc = "idle"
  BY DEF Idle

-----------------------------------------------------------------------------
(* Steps in general. *)

\* A step of the command that leaves journal and disk alone.
LEMMA CommandStep ==
  ASSUME IInv, UNCHANGED <<context, rec, local, pkg, home, kids, boot, relay>>,
         Command', Stage'
  PROVE  IInv'
<1>1. Types' /\ Journal'
  BY DEF IInv, Types, Journal, Integrated
<1>2. Children' /\ Untouched' /\ Outcomes'
  BY Zenon DEF IInv, Children, Named, Untouched, InPlace, Outcomes, Moved
<1>3. JournalTruthful' /\ RemovalWhole'
  BY Zenon DEF IInv, JournalTruthful, MovedAccounted, OutcomeTrue, BoundaryProven, Integrated,
         RemovalWhole, LocalHeldOff
<1> QED
  BY <1>1, <1>2, <1>3 DEF IInv

\* It ends, or dies.
LEMMA DoneStep ==
  ASSUME IInv, UNCHANGED <<context, rec, local, pkg, home, kids, boot, relay>>,
         Done \/ (At("idle") /\ UNCHANGED cmd)
  PROVE  IInv'
<1>1. Command'
  BY IdleCommand, Zenon DEF IInv, Command, Done
<1>2. cmd'.pc = "idle"
  BY IdleCommand, Zenon DEF Done, At
<1> QED
  BY <1>1, <1>2, IdleStage, CommandStep

\* A step that writes the journal when no child runs.
LEMMA JournalStep ==
  ASSUME IInv, kids' = {}, UNCHANGED <<context, local, pkg, home, boot, relay>>,
         Exists(rec), WellFormed(rec'), Valid(rec'), rec'.context = rec.context,
         rec'.verified # "opencodex",
         rec.teardownDone /\ rec.verified # "" => rec'.teardownDone /\ rec'.verified # "",
         rec.finalizing => rec'.finalizing, rec'.finalizing => pkg = "absent",
         MovedAccounted', OutcomeTrue',
         rec'.phase = "data_outcome" /\ rec'.outcome = "completed" => Moved',
         Untouched', Command', Stage'
  PROVE  IInv'
<1> USE Zenon
<1> Exists(rec') /\ Coherent(rec')
  BY ValidCoherent
<1> rec.context = context
  BY DEF IInv, Journal
<1>3. Types' /\ Journal'
  BY DEF IInv, Types, Journal, Integrated
<1>4. Children' /\ Outcomes'
  BY DEF Children, Outcomes
<1>5. BoundaryProven'
  BY DEF IInv, JournalTruthful, BoundaryProven, Integrated, StateOf
<1>6. RemovalWhole'
  BY DEF IInv, RemovalWhole, LocalHeldOff
<1> QED
  BY <1>3, <1>4, <1>5, <1>6 DEF IInv, JournalTruthful

\* Such a step leaves the selection, the boundary and the finalization mark
\* alone.
Aside == {"context", "selected", "retired", "locked", "verified", "teardownDone", "finalizing"}

\* These fields are the ones of the record before.
LEMMA AsideKept ==
  ASSUME NEW r, NEW n, NEW F, WellFormed(r), Kept(r, n, F), F \cap Aside = {}
  PROVE  /\ n.context = r.context /\ n.selected = r.selected /\ n.retired = r.retired
         /\ n.locked = r.locked /\ n.verified = r.verified /\ n.teardownDone = r.teardownDone
         /\ n.finalizing = r.finalizing
  BY FieldNames, Zenon DEF Kept, SameExcept, WellFormed, Aside

\* A step without children that leaves them alone keeps the invariant when
\* the rest of it does.
LEMMA PlainStep ==
  ASSUME IInv, kids' = {}, UNCHANGED <<context, local, pkg, home, boot, relay>>,
         Exists(rec), NEW F, Kept(rec, rec', F), F \cap Aside = {}, Valid(rec'),
         OutcomeTrue', rec'.phase = "data_outcome" /\ rec'.outcome = "completed" => Moved',
         Untouched', Command', Stage'
  PROVE  IInv'
<1> WellFormed(rec) /\ WellFormed(rec')
  BY JournalCoherent DEF IInv, Kept
<1> /\ rec'.context = rec.context /\ rec'.selected = rec.selected /\ rec'.retired = rec.retired
    /\ rec'.locked = rec.locked /\ rec'.verified = rec.verified
    /\ rec'.teardownDone = rec.teardownDone /\ rec'.finalizing = rec.finalizing
  BY AsideKept
<1>3. rec'.verified # "opencodex" /\ (rec'.finalizing => pkg = "absent")
  BY DEF IInv, Outcomes, RemovalWhole
<1>4. MovedAccounted'
  BY DEF IInv, JournalTruthful, MovedAccounted
<1> QED
  BY <1>3, <1>4, JournalStep, Zenon

-----------------------------------------------------------------------------
(* The command record. *)

\* The next step of a command.
LEMMA GotoFields ==
  ASSUME Command, NEW p, Goto(p)
  PROVE  /\ Command' /\ cmd'.pc = p /\ cmd'.req = cmd.req /\ cmd'.then = cmd.then
         /\ cmd'.why = cmd.why /\ cmd'.flag = cmd.flag
  BY DEF Command, Goto

\* A command that records an unproven boundary first.
LEMMA RecoveringFields ==
  ASSUME Command, NEW t, Recovering(t)
  PROVE  /\ Command' /\ cmd'.pc = "recover" /\ cmd'.then = t
         /\ cmd'.why = cmd.why /\ cmd'.flag = cmd.flag
  BY Zenon DEF Command, Recovering

\* A command that marks a resolution.
LEMMA MarkingFields ==
  ASSUME Command, NEW w, NEW f, Marking(w, f)
  PROVE  Command' /\ cmd'.pc = "mark" /\ cmd'.why = w /\ cmd'.flag = f
  BY Zenon DEF Command, Marking

\* A command that starts with a request.
LEMMA StartFields ==
  ASSUME NEW p, NEW q, cmd' = [Idle EXCEPT !.pc = p, !.req = q]
  PROVE  Command' /\ cmd'.pc = p /\ cmd'.req = q
  BY Zenon DEF Command, Idle

\* A command that starts without one.
LEMMA StartPlainFields ==
  ASSUME NEW p, cmd' = [Idle EXCEPT !.pc = p]
  PROVE  Command' /\ cmd'.pc = p
  BY Zenon DEF Command, Idle

\* A command that starts at the recovery of an unproven boundary.
LEMMA StartRecoverFields ==
  ASSUME cmd' = [Idle EXCEPT !.pc = "recover", !.then = "idle"]
  PROVE  Command' /\ cmd'.pc = "recover" /\ cmd'.then = "idle"
  BY Zenon DEF Command, Idle

\* The recovery of a boundary that nothing follows.
LEMMA RecoverStage ==
  ASSUME cmd'.pc = "recover", cmd'.then \in {"idle", "verify"}, ~local'
  PROVE  Stage'
  BY StageParts DEF Stage, Recording, At

\* Where the command goes when the stage demands nothing.
LEMMA FreeStage ==
  ASSUME cmd'.pc \in {"package", "uninstall", "wait", "verify", "release", "emit",
                      "recoverRoute", "releaseGate"}, ~local'
  PROVE  Stage'
  BY StageParts DEF Stage

\* A command in progress is no routing or handoff command.
LEMMA NotLocal ==
  ASSUME IInv, cmd.pc \notin {"idle", "ocx", "enrol"}
  PROVE  ~local
  BY DEF IInv, Stage, OffLocal

\* So is one that is admitted.
LEMMA AdmittedNotLocal ==
  ASSUME IInv, Admitted \/ (Integrated /\ ~local)
  PROVE  ~local
  BY DEF IInv, Types, Admitted, OpenRemovalBoundary, OpenStandaloneNativeBoundary

-----------------------------------------------------------------------------
(* Steps that leave the journal alone. *)

\* A new removal.
LEMMA StartRemovalStep ==
  ASSUME IInv, NEW m \in Requests, StartRemoval(m)
  PROVE  IInv'
<1> USE Zenon
<1>1. NewRequest(m, StateOf(box)).items = m.items
  BY DEF NewRequest, Requests, NoRequest
<1> Command' /\ cmd'.pc = "prepare" /\ cmd'.req = NewRequest(m, StateOf(box))
  BY StartFields DEF StartRemoval
<1>3. ~local /\ ~Active(rec)
  BY AdmittedNotLocal, NoRecordShape, JournalCoherent DEF StartRemoval, IInv
<1>4. Stage'
  BY <1>1, <1>3, StageParts DEF Stage, Preparing, At, StartRemoval
<1> QED
  BY <1>4, CommandStep DEF StartRemoval, world

\* An intent is resumed.
LEMMA ResumeIntentStep ==
  ASSUME IInv, ResumeIntent
  PROVE  IInv'
<1> USE Zenon
<1>1. RequestOf(rec).items = rec.selected
  BY DEF RequestOf
<1> Command' /\ cmd'.pc = "prepare" /\ cmd'.req = RequestOf(rec)
  BY StartFields DEF ResumeIntent
<1>3. ~local /\ ~Active(rec)
  BY AdmittedNotLocal DEF ResumeIntent, Quiet
<1>4. rec.mode = "preserve" => rec.selected = {}
  BY JournalCoherent DEF IInv, Coherent
<1>5. rec.mode \in {"preserve", "trash"}
  BY DEF IInv, Journal, ResumeIntent, Quiet, Valid, ValidShape
<1>6. rec.selected \subseteq home
  BY <1>4, <1>5 DEF ResumeIntent, IInv, Untouched, InPlace
<1>7. Stage'
  BY <1>1, <1>3, <1>6, StageParts DEF Stage, Preparing, At, ResumeIntent
<1> QED
  BY <1>7, CommandStep DEF ResumeIntent, world

\* The package stage, or the receipt, is resumed.
LEMMA ResumePackageStep ==
  ASSUME IInv, ResumePackage \/ ResumeVerified
  PROVE  IInv'
<1> ~local /\ UNCHANGED <<context, rec, local, pkg, home, kids, boot, relay>>
  BY AdmittedNotLocal DEF ResumePackage, ResumeVerified, world
<1>2. CASE cmd' = [Idle EXCEPT !.pc = "recover", !.then = "idle"]
  BY <1>2, StartRecoverFields, RecoverStage, CommandStep
<1>3. CASE \/ cmd' = [Idle EXCEPT !.pc = "uninstall", !.req = RequestOf(rec)]
           \/ cmd' = [Idle EXCEPT !.pc = "release", !.req = RequestOf(rec)]
  <2>1. Command' /\ cmd'.pc \in {"uninstall", "release"}
    BY <1>3, StartFields, Zenon
  <2> QED
    BY <2>1, FreeStage, CommandStep
<1>4. CASE At("idle") /\ UNCHANGED cmd
  BY <1>4, DoneStep
<1> QED
  BY <1>2, <1>3, <1>4 DEF ResumePackage, ResumeVerified

\* A marked resolution is resumed.
LEMMA ResumeMarkedStep ==
  ASSUME IInv, ResumeMarked
  PROVE  IInv'
<1> USE Zenon
<1> Command' /\ cmd'.pc = "park"
  BY StartPlainFields DEF ResumeMarked
<1>2. Stage'
  BY StageParts DEF Stage, Resolving, At, ResumeMarked
<1> QED
  BY <1>2, CommandStep DEF ResumeMarked, world

\* The routing commands beside a removal.
LEMMA RoutingCommandStep ==
  ASSUME IInv, ModeRecover \/ PrepareRemovalRoutingRecovery \/ ExecuteRemovalRoutingRecovery
  PROVE  IInv'
<1> UNCHANGED <<context, rec, local, pkg, home, kids, boot, relay>>
  BY DEF ModeRecover, PrepareRemovalRoutingRecovery, ExecuteRemovalRoutingRecovery, world
<1>2. CASE ModeRecover
  BY <1>2, DoneStep DEF ModeRecover
<1>3. CASE PrepareRemovalRoutingRecovery
  <2> USE <1>3
  <2>1. Command' /\ cmd'.pc = "recoverRoute"
    BY Zenon DEF PrepareRemovalRoutingRecovery, Command, Idle
  <2> QED
    BY <2>1, FreeStage, CommandStep DEF PrepareRemovalRoutingRecovery,
       CaptureRemovalRecoveryWitness
<1>4. CASE ExecuteRemovalRoutingRecovery
  <2> USE <1>4
  <2>1. ~local
    BY NotLocal DEF ExecuteRemovalRoutingRecovery, At
  <2>2. CASE Goto("releaseGate")
    <3>1. Command' /\ cmd'.pc = "releaseGate"
      BY <2>2, GotoFields DEF IInv
    <3> QED
      BY <2>1, <3>1, FreeStage, CommandStep
  <2>3. CASE Done
    BY <2>3, DoneStep
  <2> QED
    BY <2>2, <2>3 DEF ExecuteRemovalRoutingRecovery
<1> QED
  BY <1>2, <1>3, <1>4

\* A child is refused, or its launch fails.
LEMMA LaunchRefusedStep ==
  ASSUME IInv, RefuseRouting \/ LaunchFailed
  PROVE  IInv'
<1> USE Zenon
<1> UNCHANGED <<context, rec, local, pkg, home, kids, boot, relay>> /\ At("launch")
  BY DEF RefuseRouting, LaunchFailed, world
<1> ~local
  BY NotLocal DEF At
<1>3. CASE RefuseRouting
  <2> Command' /\ cmd'.pc = "mark" /\ cmd'.why = "pre_start_routing_changed"
    BY <1>3, MarkingFields DEF RefuseRouting, IInv
  <2>2. kids = {} /\ (rec.active.kind = "trash" => InPlace)
    BY DEF IInv, Stage, Launching
  <2>3. Stage'
    BY <2>2, StageParts DEF Stage, Launching, At, InPlace
  <2> QED
    BY <2>3, CommandStep
<1>4. CASE LaunchFailed /\ Done
  BY <1>4, DoneStep
<1>5. CASE LaunchFailed /\ Recovering("idle")
  <2>1. Command' /\ cmd'.pc = "recover" /\ cmd'.then = "idle"
    BY <1>5, RecoveringFields DEF IInv
  <2> QED
    BY <2>1, RecoverStage, CommandStep
<1> QED
  BY <1>3, <1>4, <1>5 DEF LaunchFailed

\* The final checks, the receipt, a failed write and the death of a command.
LEMMA EndingStep ==
  ASSUME IInv, VerifyRemoved \/ EmitTerminalReceipt \/ OutcomeWriteFails \/ Crash
  PROVE  IInv'
<1> UNCHANGED <<context, rec, local, pkg, home, kids, boot, relay>>
  BY DEF VerifyRemoved, EmitTerminalReceipt, OutcomeWriteFails, Crash, world
<1>2. CASE Done
  BY <1>2, DoneStep
<1>3. CASE VerifyRemoved \/ OutcomeWriteFails \/ (EmitTerminalReceipt /\ ~Done)
  <2> USE <1>3
  <2> ~local
    BY NotLocal DEF VerifyRemoved, EmitTerminalReceipt, OutcomeWriteFails, At
  <2>2. CASE Recovering("idle")
    <3>1. Command' /\ cmd'.pc = "recover" /\ cmd'.then = "idle"
      BY <2>2, RecoveringFields DEF IInv
    <3> QED
      BY <3>1, RecoverStage, CommandStep
  <2>3. CASE Goto("release")
    <3>1. Command' /\ cmd'.pc = "release"
      BY <2>3, GotoFields DEF IInv
    <3> QED
      BY <3>1, FreeStage, CommandStep
  <2> QED
    BY <2>2, <2>3 DEF VerifyRemoved, EmitTerminalReceipt, OutcomeWriteFails
<1> QED
  BY <1>2, <1>3 DEF Crash

\* A step outside the command that leaves journal and disk alone: the Codex
\* configuration changes hands.
LEMMA BoundaryStep ==
  ASSUME IInv, EditBoundary \/ RestoreBoundary \/ (\E k \in kids : Teardown(k))
  PROVE  IInv'
<1> UNCHANGED <<context, rec, local, pkg, home, kids, boot, relay, parked, cmd>>
  BY Zenon DEF EditBoundary, RestoreBoundary, Teardown, world
<1>2. Command'
  BY DEF IInv, Command
<1>3. Stage'
  BY BesideStage DEF IInv
<1> QED
  BY <1>2, <1>3, CommandStep

\* A child moves an item to the Trash.
LEMMA TrashStep ==
  ASSUME IInv, NEW k \in kids, Trash(k)
  PROVE  IInv'
<1> USE Zenon
<1> UNCHANGED <<context, rec, local, pkg, kids, boot, relay, parked, cmd>>
  BY DEF Trash, world
<1>2. PICK i \in k.items \cap home : home' = home \ {i}
  BY DEF Trash
<1> USE <1>2
<1> /\ rec.active.kind = "trash" /\ rec.resolution = "" /\ k.items = rec.selected
    /\ Active(rec)
  BY DEF IInv, Children, Trash, Active
<1> /\ Coherent(rec) /\ WellFormed(rec) /\ Exists(rec) /\ rec.context = context
    /\ rec.phase = "intent" /\ ~rec.operationRetry
  BY JournalCoherent, NoRecordShape DEF IInv, Coherent
<1>5. Types' /\ Journal' /\ Command'
  BY DEF IInv, Types, Journal, Command, Integrated
<1>6. Children' /\ Untouched' /\ Outcomes'
  <2>1. Children'
    BY DEF IInv, Children, Named
  <2>2. Untouched'
    BY DEF Untouched
  <2>3. Outcomes'
    BY DEF IInv, Outcomes
  <2> QED
    BY <2>1, <2>2, <2>3
<1>7. JournalTruthful'
  <2>1. MovedAccounted'
    BY DEF IInv, JournalTruthful, MovedAccounted
  <2>2. OutcomeTrue'
    BY DEF OutcomeTrue
  <2>3. ~Integrated => rec.teardownDone /\ rec.verified # ""
    BY DEF Coherent, Standalone, Integrated, IInv, Types
  <2>4. BoundaryProven'
    BY <2>3 DEF BoundaryProven, Integrated, StateOf, IInv, Outcomes
  <2> QED
    BY <2>1, <2>2, <2>4 DEF JournalTruthful
<1>8. RemovalWhole'
  BY DEF IInv, RemovalWhole, LocalHeldOff
<1>9. kids # {} /\ Active(rec) /\ ~At("launch") /\ ~At("mark")
  BY DEF IInv, Stage, Launching
<1>10. Stage'
  <2>1. OffLocal' /\ Preparing' /\ Launching'
    BY <1>9 DEF IInv, Stage, OffLocal, Preparing, Launching, At
  <2>2. Recording'
    BY DEF IInv, Stage, Recording, Moved, At
  <2>3. Resolving' /\ Finalizing' /\ Handing'
    BY DEF IInv, Stage, Resolving, Finalizing, Handing, At, Integrated
  <2> QED
    BY <2>1, <2>2, <2>3 DEF Stage
<1> QED
  BY <1>5, <1>6, <1>7, <1>8, <1>10 DEF IInv

\* A child takes the package apart.
LEMMA UninstallStep ==
  ASSUME IInv, NEW k \in kids, Uninstall(k)
  PROVE  IInv'
<1> USE Zenon
<1> UNCHANGED <<context, rec, local, home, kids, boot, relay, parked, cmd>>
    /\ pkg' \in {"partial", "absent"}
  BY DEF Uninstall, world
<1>2. rec.active.kind = "package" /\ Active(rec)
  BY DEF IInv, Children, Uninstall, Active
<1> /\ Coherent(rec) /\ Exists(rec) /\ rec.context = context
    /\ rec.phase = "in_flight" /\ ~rec.finalizing
  BY <1>2, JournalCoherent, NoRecordShape DEF IInv, Coherent
<1>4. Types' /\ Journal' /\ Command'
  BY DEF IInv, Types, Journal, Command, Integrated
<1>5. Children' /\ Untouched' /\ Outcomes'
  BY DEF IInv, Children, Named, Untouched, InPlace, Outcomes, Moved
<1>6. JournalTruthful'
  <2>1. MovedAccounted' /\ OutcomeTrue'
    BY DEF IInv, JournalTruthful, MovedAccounted, OutcomeTrue
  <2>2. ~Integrated => rec.teardownDone /\ rec.verified # ""
    BY DEF Coherent, Standalone, Integrated, IInv, Types
  <2>3. BoundaryProven'
    BY <2>2 DEF BoundaryProven, Integrated, StateOf, IInv, Outcomes
  <2> QED
    BY <2>1, <2>3 DEF JournalTruthful
<1>7. RemovalWhole'
  BY DEF IInv, RemovalWhole, LocalHeldOff
<1>8. Stage'
  BY BesideStage DEF IInv
<1> QED
  BY <1>4, <1>5, <1>6, <1>7, <1>8 DEF IInv

\* A step that starts or ends children.
LEMMA ChildrenStep ==
  ASSUME IInv, UNCHANGED <<context, rec, local, pkg, home, relay>>, boot' \in Nat \ {0},
         Children', kids' = {} \/ (~local /\ Exists(rec)), Command', Stage'
  PROVE  IInv'
<1>1. Types' /\ Journal'
  BY DEF IInv, Types, Journal, Integrated
<1>2. Untouched' /\ Outcomes'
  BY DEF IInv, Untouched, InPlace, Outcomes, Moved
<1>3. JournalTruthful'
  BY Zenon DEF IInv, JournalTruthful, MovedAccounted, OutcomeTrue, BoundaryProven, Integrated
<1>4. RemovalWhole'
  BY DEF IInv, RemovalWhole, LocalHeldOff
<1> QED
  BY <1>1, <1>2, <1>3, <1>4 DEF IInv

\* The armed child starts.
LEMMA LaunchChildStep ==
  ASSUME IInv, LaunchChild
  PROVE  IInv'
<1> UNCHANGED <<context, rec, local, pkg, home, relay, boot>> /\ At("launch")
  BY DEF LaunchChild, world
<1>2. Active(rec) /\ rec.resolution = "" /\ kids = {}
  BY Zenon DEF IInv, Stage, Launching
<1>3. Exists(rec) /\ rec.active.kind \in Kinds /\ rec.active.attempt = rec.attempt
  BY <1>2, JournalCoherent, NoRecordShape, Zenon DEF IInv, Coherent
<1>4. PICK k : k = [kind |-> rec.active.kind, attempt |-> rec.attempt,
                    items |-> IF rec.active.kind = "trash" THEN rec.selected ELSE {}]
  BY Zenon
<1>5. kids' = {k} /\ Goto("wait")
  BY <1>2, <1>4, Zenon DEF LaunchChild
<1>6. /\ k.kind = rec.active.kind /\ k.attempt = rec.attempt
      /\ k.kind = "trash" => k.items = rec.selected
  BY <1>4
<1>7. Armed
  BY Zenon DEF IInv, Stage, Launching
<1>8. rec.active.boot = boot
  BY <1>7 DEF Armed
<1>9. Named(k)'
  BY <1>6, <1>7 DEF Named, Armed
<1>10. Children'
  BY <1>2, <1>3, <1>5, <1>6, <1>8, <1>9, Zenon DEF Children
<1>11. Command' /\ cmd'.pc = "wait"
  BY <1>5, GotoFields DEF IInv
<1>12. ~local
  BY NotLocal DEF At
<1>13. Stage'
  BY <1>11, <1>12, FreeStage
<1>14. boot' \in Nat \ {0}
  BY DEF IInv, Types
<1> QED
  BY <1>3, <1>10, <1>11, <1>12, <1>13, <1>14, ChildrenStep

\* A child nobody waits for ends.
LEMMA ChildExitStep ==
  ASSUME IInv, NEW k \in kids, ChildExit(k)
  PROVE  IInv'
<1> USE Zenon
<1> UNCHANGED <<context, rec, local, pkg, home, relay, boot, parked, cmd>> /\ kids' \subseteq kids
  BY DEF ChildExit, world
<1>2. Active(rec) /\ Exists(rec) /\ ~local
  BY JournalCoherent, NoRecordShape DEF IInv, Children, Active, Kinds,
     RemovalWhole, LocalHeldOff
<1>3. Children'
  BY DEF IInv, Children, Named
<1>4. Command' /\ boot' \in Nat \ {0}
  BY DEF IInv, Command, Types
<1>5. ~At("launch") /\ ~At("mark")
  BY DEF IInv, Stage, Launching
<1>6. Stage'
  <2>1. OffLocal' /\ Preparing'
    BY DEF IInv, Stage, OffLocal, Preparing, At, InPlace
  <2>2. Launching' /\ Recording'
    BY <1>5 DEF IInv, Stage, Launching, Recording, At, Moved
  <2>3. Resolving' /\ Finalizing' /\ Handing'
    BY DEF IInv, Stage, Resolving, Finalizing, Handing, At, Integrated
  <2> QED
    BY <2>1, <2>2, <2>3 DEF Stage
<1> QED
  BY <1>2, <1>3, <1>4, <1>6, ChildrenStep

\* A child returns a receipt that does not parse.
LEMMA ReceiptInvalidStep ==
  ASSUME IInv, NEW kind \in Kinds, ReceiptInvalid(kind)
  PROVE  IInv'
<1> UNCHANGED <<context, rec, local, pkg, home, relay, boot>> /\ kids' = {} /\ At("wait")
  BY ReapAll DEF ReceiptInvalid, IInv, Waiting
<1> Command' /\ cmd'.pc = "mark" /\ cmd'.why # "pre_start_routing_changed"
  <2>1. PICK w \in {"teardown_receipt_invalid", "trash_receipt_invalid"} :
          \E f : Marking(w, f)
    BY Zenon DEF ReceiptInvalid
  <2> QED
    BY <2>1, MarkingFields DEF IInv
<1>3. ~local
  BY NotLocal DEF At
<1>4. Stage'
  BY <1>3, StageParts DEF Stage, Launching, At
<1>5. Children' /\ boot' \in Nat \ {0}
  BY Zenon DEF Children, IInv, Types
<1> QED
  BY <1>4, <1>5, ChildrenStep

\* The machine reboots.
LEMMA RebootStep ==
  ASSUME IInv, Reboot
  PROVE  IInv'
<1> UNCHANGED <<context, rec, local, pkg, home, relay>> /\ kids' = {} /\ Done /\ boot' = boot + 1
  BY Zenon DEF Reboot
<1>2. Command' /\ cmd'.pc = "idle"
  BY IdleCommand, Zenon DEF Command, Done
<1>3. Children'
  BY Zenon DEF Children
<1>4. boot' \in Nat \ {0}
  <2>1. boot \in Nat
    BY DEF IInv, Types
  <2> QED
    BY <2>1
<1> QED
  BY <1>2, <1>3, <1>4, IdleStage, ChildrenStep

\* Routing moves to or from the local OpenCodex.
LEMMA SwitchBackendStep ==
  ASSUME IInv, SwitchBackend
  PROVE  IInv'
<1> USE Zenon
<1> UNCHANGED <<context, rec, parked, pkg, home, kids, boot, relay, cmd>> /\ At("idle")
    /\ Integrated /\ "profile" \in relay
  BY DEF SwitchBackend, world
<1> kids = {}
  <2>1. ~Active(rec)
    BY NoRecordShape, JournalCoherent DEF SwitchBackend, RemovalRoutingGate,
       IInv
  <2> QED
    BY <2>1, NoChild DEF IInv
<1>3. Types' /\ Journal' /\ Command'
  BY DEF IInv, Types, Journal, Command, Integrated
<1>4. Children' /\ Untouched' /\ Outcomes'
  BY DEF IInv, Children, Untouched, InPlace, Outcomes, Moved
<1>5. JournalTruthful'
  BY DEF IInv, JournalTruthful, MovedAccounted, OutcomeTrue, BoundaryProven,
     Integrated
<1>6. RemovalWhole'
  BY DEF IInv, RemovalWhole, LocalHeldOff
<1>7. cmd'.pc = "idle"
  BY DEF At
<1> QED
  BY <1>3, <1>4, <1>5, <1>6, <1>7, IdleStage DEF IInv

\* A step that writes or deletes relay assets.
LEMMA RelayStep ==
  ASSUME IInv, UNCHANGED <<context, rec, local, pkg, home, kids, boot>>,
         relay' \subseteq RelayAssets, ~Integrated => relay' = {}, LocalHeldOff',
         "enrollment" \in relay' /\ "profile" \notin relay' => rec.finalizing,
         ~Exists(rec) /\ pkg # "present" => relay' = {}, Command', Stage'
  PROVE  IInv'
<1>1. Types' /\ Journal'
  BY DEF IInv, Types, Journal, Integrated
<1>2. Children' /\ Untouched' /\ Outcomes'
  BY Zenon DEF IInv, Children, Named, Untouched, InPlace, Outcomes, Moved
<1>3. JournalTruthful'
  BY Zenon DEF IInv, JournalTruthful, MovedAccounted, OutcomeTrue, BoundaryProven, Integrated
<1>4. RemovalWhole'
  BY DEF IInv, RemovalWhole
<1> QED
  BY <1>1, <1>2, <1>3, <1>4 DEF IInv

\* A handoff starts, or is refused.
LEMMA HandoffStep ==
  ASSUME IInv, StartHandoff \/ HandoffRefused
  PROVE  IInv'
<1> UNCHANGED <<context, rec, local, pkg, home, kids, boot, relay>>
  BY DEF StartHandoff, HandoffRefused, world
<1>2. CASE StartHandoff
  <2> USE <1>2
  <2> Command' /\ cmd'.pc = "ocx"
    BY StartPlainFields DEF StartHandoff
  <2>2. OffLocal' /\ Handing'
    BY DEF StartHandoff, OffLocal, Handing, At, Integrated, Resolve
  <2>3. Stage'
    BY <2>2, StageParts DEF Stage
  <2> QED
    BY <2>3, CommandStep
<1>3. CASE HandoffRefused
  BY <1>3, DoneStep DEF HandoffRefused
<1> QED
  BY <1>2, <1>3

\* The relay writes its profile.
LEMMA HandoffProfileStep ==
  ASSUME IInv, HandoffProfile
  PROVE  IInv'
<1> USE Zenon
<1> UNCHANGED <<context, rec, local, pkg, home, kids, boot>> /\ relay' = relay \cup {"profile"}
    /\ At("ocx")
  BY DEF HandoffProfile, world
<1> Command' /\ cmd'.pc = "enrol" /\ cmd'.flag = ("profile" \in relay)
  BY DEF HandoffProfile, IInv, Command
<1> Integrated /\ ~Exists(rec) /\ pkg = "present"
  BY DEF IInv, Stage, Handing
<1>4. ~rec.finalizing
  BY JournalCoherent, NoRecordShape DEF IInv
<1>5. OffLocal' /\ Handing'
  <2>1. local => "profile" \in relay
    BY DEF IInv, RemovalWhole, LocalHeldOff
  <2>2. "profile" \notin relay => "enrollment" \notin relay
    BY <1>4 DEF IInv, RemovalWhole
  <2> QED
    BY <2>1, <2>2 DEF OffLocal, Handing, At, Integrated
<1>6. Stage'
  BY <1>5, StageParts DEF Stage
<1>7. LocalHeldOff' /\ relay' \subseteq RelayAssets
  BY DEF IInv, RemovalWhole, LocalHeldOff, Types, RelayAssets
<1> QED
  BY <1>6, <1>7, RelayStep

\* The enrolment receipt is written, or the profile is put back.
LEMMA HandoffRecordStep ==
  ASSUME IInv, HandoffRecord
  PROVE  IInv'
<1> UNCHANGED <<context, rec, local, pkg, home, kids, boot>> /\ At("enrol") /\ Done
    /\ \/ relay' = relay \cup {"enrollment"}
       \/ cmd.flag /\ relay' = relay
       \/ ~cmd.flag /\ relay' = relay \ {"profile"}
  BY DEF HandoffRecord
<1>2. Command' /\ cmd'.pc = "idle"
  BY IdleCommand, Zenon DEF Command, Done
<1> /\ Integrated /\ ~Exists(rec) /\ pkg = "present" /\ "profile" \in relay
    /\ (local => cmd.flag) /\ (~cmd.flag => "enrollment" \notin relay)
  BY DEF IInv, Stage, Handing
<1>4. LocalHeldOff' /\ relay' \subseteq RelayAssets
  BY Zenon DEF IInv, RemovalWhole, LocalHeldOff, Types, RelayAssets
<1>5. ~("enrollment" \in relay' /\ "profile" \notin relay')
  OBVIOUS
<1> QED
  BY <1>2, <1>4, <1>5, IdleStage, RelayStep

\* The journal of a finalized removal is deleted.
LEMMA EmptyStep ==
  ASSUME IInv, UNCHANGED <<context, local, pkg, home, kids, boot, relay>>,
         rec' = NoRecord, rec.finalizing, relay = {}, Command', cmd'.pc = "idle"
  PROVE  IInv'
<1> USE Zenon
<1> USE NoRecordShape
<1> pkg = "absent"
  BY DEF IInv, RemovalWhole
<1>2. ~Active(rec)
  BY JournalCoherent DEF IInv, Coherent
<1> kids = {}
  BY <1>2, NoChild DEF IInv
<1>4. Types' /\ Journal'
  BY DEF IInv, Types, Journal, Integrated
<1>5. rec'.active.kind = "none"
  BY DEF Active
<1>6. Children' /\ Untouched' /\ Outcomes'
  BY <1>5 DEF Children, Untouched, Outcomes
<1>7. JournalTruthful'
  BY DEF JournalTruthful, MovedAccounted, OutcomeTrue, BoundaryProven
<1>8. RemovalWhole'
  BY DEF IInv, RemovalWhole, LocalHeldOff
<1> QED
  BY <1>4, <1>6, <1>7, <1>8, IdleStage DEF IInv

\* The relay's assets go, then the journal.
LEMMA FinalizeRelayStep ==
  ASSUME IInv, FinalizeRelay
  PROVE  IInv'
<1>1. CASE At("profile")
  <2> USE <1>1
  <2> UNCHANGED <<context, rec, local, pkg, home, kids, boot>> /\ relay' = relay \ {"profile"}
      /\ Goto("enrollment")
    BY DEF FinalizeRelay, At, world
  <2> Command' /\ cmd'.pc = "enrollment"
    BY GotoFields DEF IInv
  <2> ~local /\ rec.finalizing
    BY NotLocal DEF At, IInv, Stage, Finalizing
  <2>4. Finalizing'
    BY DEF Finalizing, At
  <2>5. Stage'
    BY <2>4, StageParts DEF Stage
  <2>6. /\ relay' \subseteq RelayAssets /\ (~Integrated => relay' = {})
        /\ (relay = {} => relay' = {}) /\ LocalHeldOff'
    BY DEF IInv, Types, LocalHeldOff
  <2> QED
    BY <2>5, <2>6, RelayStep DEF IInv, RemovalWhole
<1>2. CASE At("enrollment")
  <2> USE <1>2
  <2> UNCHANGED <<context, rec, local, pkg, home, kids, boot>> /\ relay' = relay \ {"enrollment"}
      /\ Goto("journal")
    BY DEF FinalizeRelay, At, world
  <2> Command' /\ cmd'.pc = "journal"
    BY GotoFields DEF IInv
  <2> ~local /\ rec.finalizing /\ "profile" \notin relay
    BY NotLocal DEF At, IInv, Stage, Finalizing
  <2> relay' = {}
    BY DEF IInv, Types, RelayAssets
  <2>5. Finalizing'
    BY DEF Finalizing, At
  <2>6. Stage'
    BY <2>5, StageParts DEF Stage
  <2>7. LocalHeldOff' /\ relay' \subseteq RelayAssets
    BY DEF LocalHeldOff
  <2> QED
    BY <2>6, <2>7, RelayStep
<1>3. CASE At("journal")
  <2> USE <1>3
  <2> UNCHANGED <<context, local, pkg, home, kids, boot, relay>> /\ rec' = NoRecord /\ Done
    BY DEF FinalizeRelay, At, world
  <2>2. Command' /\ cmd'.pc = "idle"
    BY IdleCommand, Zenon DEF Command, Done
  <2>3. rec.finalizing /\ relay = {}
    BY DEF IInv, Stage, Finalizing
  <2> QED
    BY <2>2, <2>3, EmptyStep
<1> QED
  BY <1>1, <1>2, <1>3 DEF FinalizeRelay

\* The standalone receipt is acknowledged.
LEMMA AcknowledgeStep ==
  ASSUME IInv, AcknowledgeTerminal
  PROVE  IInv'
<1> UNCHANGED <<context, local, pkg, home, kids, boot, relay, cmd>> /\ rec' = NoRecord
    /\ At("idle")
  BY DEF AcknowledgeTerminal, world
<1>2. Command' /\ cmd'.pc = "idle"
  BY DEF IInv, Command, At
<1> rec.finalizing /\ Standalone(rec)
  BY Zenon DEF AcknowledgeTerminal, StandaloneTerminalRemovalReplayReady, RemovalFinalizationAdmission
<1>4. relay = {}
  <2>1. context = "standalone"
    BY JournalCoherent, NoRecordShape, Zenon DEF IInv, Standalone
  <2> QED
    BY <2>1 DEF IInv, Types, Integrated
<1> QED
  BY <1>2, <1>4, EmptyStep

-----------------------------------------------------------------------------
(* Steps that write the journal. *)

\* What a write leaves is valid.
LEMMA Written ==
  ASSUME NEW n, Write(n) \/ Replace(n)
  PROVE  rec' = n /\ Valid(rec')
  BY Zenon DEF Write, Replace, WriteRemovalCleanup

\* The fields the invariant speaks of.
Watched == Aside \cup {"phase", "outcome", "active", "resolution", "operationRetry"}

\* A write of other fields keeps the invariant, children running or not.
LEMMA UnwatchedStep ==
  ASSUME IInv, UNCHANGED <<context, local, pkg, home, kids, boot, relay>>,
         NEW F, Kept(rec, rec', F), F \cap Watched = {}, Valid(rec'), Command', Stage'
  PROVE  IInv'
<1> USE Zenon
<1> WellFormed(rec) /\ WellFormed(rec') /\ F \cap Aside = {}
  BY JournalCoherent DEF IInv, Kept, Watched
<1> /\ rec'.context = rec.context /\ rec'.selected = rec.selected /\ rec'.retired = rec.retired
    /\ rec'.locked = rec.locked /\ rec'.verified = rec.verified
    /\ rec'.teardownDone = rec.teardownDone /\ rec'.finalizing = rec.finalizing
  BY AsideKept
<1> /\ rec'.phase = rec.phase /\ rec'.outcome = rec.outcome /\ rec'.active = rec.active
    /\ rec'.resolution = rec.resolution /\ rec'.operationRetry = rec.operationRetry
  BY FieldNames DEF Kept, SameExcept, WellFormed, Watched
<1> Exists(rec') /\ Exists(rec)
  BY ValidCoherent DEF Exists
<1>5. Types' /\ Journal'
  BY DEF IInv, Types, Journal, Integrated
<1>6. Children' /\ Untouched' /\ Outcomes'
  <2>1. Children'
    BY DEF IInv, Children, Named
  <2>2. Untouched' /\ Outcomes'
    BY DEF IInv, Untouched, InPlace, Outcomes, Moved
  <2> QED
    BY <2>1, <2>2
<1>7. JournalTruthful'
  BY DEF IInv, JournalTruthful, MovedAccounted, OutcomeTrue, BoundaryProven,
     Integrated
<1>8. RemovalWhole'
  BY DEF IInv, RemovalWhole, LocalHeldOff
<1> QED
  BY <1>5, <1>6, <1>7, <1>8 DEF IInv

\* The selection is retired and a refresh asked for.
LEMMA RefreshStep ==
  ASSUME IInv, MarkRefresh \/ MarkDataRefresh
  PROVE  IInv'
<1> USE Zenon
<1> /\ UNCHANGED <<context, local, pkg, home, kids, boot, relay>>
    /\ Write(MarkRemovalDataRefreshRequired(rec)) /\ (Done \/ (At("idle") /\ UNCHANGED cmd))
  BY DEF MarkRefresh, MarkDataRefresh, world
<1> rec' = MarkRemovalDataRefreshRequired(rec) /\ Valid(rec')
  BY Written
<1> WellFormed(rec) /\ Coherent(rec)
  BY JournalCoherent DEF IInv
<1> Exists(rec) /\ ~Active(rec)
  <2>1. CASE MarkRefresh
    BY <2>1 DEF MarkRefresh, CanMarkRemovalDataRefreshRequired, Quiet
  <2>2. CASE MarkDataRefresh
    <3>1. rec.phase = "data_outcome"
      BY <2>2 DEF MarkDataRefresh, IInv, Stage, Recording
    <3> QED
      BY <3>1 DEF Coherent, Exists, Active, Kinds
  <2> QED
    BY <2>1, <2>2
<1>5. kids' = {}
  BY NoChild DEF IInv
<1> /\ Kept(rec, rec', {"retired", "locked", "phase", "outcome"})
    /\ rec'.phase = "refresh" /\ Retiring(rec, rec')
  BY RefreshFields DEF RefreshChange
<1> /\ WellFormed(rec') /\ rec'.context = rec.context /\ rec'.selected = rec.selected
    /\ rec'.verified = rec.verified /\ rec'.teardownDone = rec.teardownDone
    /\ rec'.finalizing = rec.finalizing /\ rec'.active = rec.active
    /\ rec'.operationRetry = rec.operationRetry
  BY FieldNames DEF Kept, SameExcept, WellFormed
<1>8. MovedAccounted' /\ OutcomeTrue'
  BY DEF IInv, JournalTruthful, MovedAccounted, OutcomeTrue, Retiring
<1>9. Untouched'
  BY DEF IInv, Untouched, InPlace, Active
<1>10. Command' /\ cmd'.pc = "idle"
  BY IdleCommand DEF IInv, Command, Done, At
<1>11. rec'.verified # "opencodex" /\ (rec'.finalizing => pkg = "absent")
  BY DEF IInv, Outcomes, RemovalWhole
<1> QED
  BY <1>5, <1>8, <1>9, <1>10, <1>11, IdleStage, JournalStep

\* A confirmed refresh replaces the selection.
LEMMA SupersedeStep ==
  ASSUME IInv, NEW m \in Requests, Supersede(m)
  PROVE  IInv'
<1> USE Zenon
<1> DEFINE req == NewRequest(m, "native")
<1> /\ UNCHANGED <<context, local, pkg, home, kids, boot, relay>>
    /\ Write(SupersedeRemovalDataRefreshRequired(rec, req))
    /\ cmd' = [Idle EXCEPT !.pc = "prepare", !.req = req]
  BY DEF Supersede, world
<1> req.items = m.items
  BY DEF NewRequest, Requests, NoRequest
<1> m.items \subseteq home
  <2>1. m.mode = "trash" \/ m.items = {}
    BY DEF Requests, NoRequest
  <2> QED
    BY <2>1 DEF Supersede, CanSupersedeRemovalDataRefresh
<1> HIDE DEF req
<1> rec' = SupersedeRemovalDataRefreshRequired(rec, req) /\ Valid(rec')
  BY Written
<1> WellFormed(rec) /\ Coherent(rec)
  BY JournalCoherent DEF IInv
<1> Exists(rec) /\ ~Active(rec) /\ rec.phase = "refresh" /\ ~local
  BY AdmittedNotLocal DEF Supersede, CanSupersedeRemovalDataRefresh, Quiet
<1>7. kids' = {}
  BY NoChild DEF IInv
<1> /\ Kept(rec, rec', {"phase", "mode", "selected", "inventory", "revision", "moved",
                       "outcome", "packageAttempt", "operationRetry", "packageRetry"})
    /\ rec'.phase = "intent" /\ rec'.selected = req.items
  BY SupersedeFields DEF SupersedeChange
<1> /\ WellFormed(rec') /\ rec'.context = rec.context /\ rec'.retired = rec.retired
    /\ rec'.locked = rec.locked /\ rec'.verified = rec.verified
    /\ rec'.teardownDone = rec.teardownDone /\ rec'.finalizing = rec.finalizing
    /\ rec'.active = rec.active
  BY FieldNames DEF Kept, SameExcept, WellFormed
<1>10. rec.locked \/ rec.selected \subseteq rec.retired
  BY DEF Coherent
<1>11. MovedAccounted' /\ OutcomeTrue'
  BY <1>10 DEF IInv, JournalTruthful, MovedAccounted, OutcomeTrue
<1>12. Untouched'
  BY DEF Untouched, InPlace
<1> Command' /\ cmd'.pc = "prepare" /\ cmd'.req = req
  BY StartFields
<1>14. ~Active(rec')
  BY DEF Active
<1>15. Stage'
  BY <1>14, StageParts DEF Stage, Preparing, At
<1>16. rec'.verified # "opencodex" /\ (rec'.finalizing => pkg = "absent")
  BY DEF IInv, Outcomes, RemovalWhole
<1> QED
  BY <1>7, <1>11, <1>12, <1>15, <1>16, JournalStep

\* What a write that leaves selection and data alone does to a selection
\* that may yet be handed out.
LEMMA UntouchedKept ==
  ASSUME Untouched, home' = home, rec'.selected = rec.selected,
         rec'.active.kind = "none", rec'.operationRetry => rec.operationRetry \/ InPlace
  PROVE  Untouched'
  BY Zenon DEF Untouched, InPlace

\* A completed outcome is advanced.
LEMMA AdvanceOutcomeStep ==
  ASSUME IInv, AdvanceOutcome
  PROVE  IInv'
<1> USE Zenon
<1> /\ UNCHANGED <<context, local, pkg, home, kids, boot, relay>>
    /\ Write(AdvanceRemovalDataOutcomeToPackagePending(rec))
    /\ At("idle") /\ UNCHANGED cmd /\ rec.phase = "data_outcome" /\ rec.outcome = "completed"
  BY DEF AdvanceOutcome, world, CanAdvanceRemovalDataOutcome
<1> rec' = AdvanceRemovalDataOutcomeToPackagePending(rec) /\ Valid(rec')
  BY Written
<1> WellFormed(rec) /\ Coherent(rec)
  BY JournalCoherent DEF IInv
<1> Exists(rec) /\ ~Active(rec)
  BY DEF Coherent, Exists, Active, Kinds
<1>5. kids' = {}
  BY NoChild DEF IInv
<1> Kept(rec, rec', {"phase"}) /\ rec'.phase = "pending"
  BY AdvanceFields DEF AdvanceChange
<1> rec'.active = rec.active /\ rec'.operationRetry = rec.operationRetry
    /\ rec'.selected = rec.selected
  BY FieldNames DEF Kept, SameExcept, WellFormed
<1>8. Untouched'
  BY UntouchedKept DEF IInv, Active
<1> Moved'
  BY DEF IInv, Outcomes, Moved
<1>10. OutcomeTrue'
  BY DEF OutcomeTrue, Moved
<1>11. Command' /\ cmd'.pc = "idle"
  BY DEF IInv, Command, At
<1>12. {"phase"} \cap Aside = {}
  BY DEF Aside
<1> QED
  BY <1>5, <1>8, <1>10, <1>11, <1>12, IdleStage, PlainStep

\* An execution of an earlier boot is reconciled.
LEMMA ReconcileStep ==
  ASSUME IInv, UNCHANGED <<context, local, pkg, home, kids, boot, relay>>,
         CanReconcileActiveExecution(rec, boot), NEW absent \in BOOLEAN,
         Write(ReconcileActiveExecutionAfterBoot(rec, absent)), Command', Stage'
  PROVE  IInv'
<1> USE FieldNames, UntouchedKept, Zenon
<1> rec' = ReconcileActiveExecutionAfterBoot(rec, absent) /\ Valid(rec')
  BY Written
<1> WellFormed(rec) /\ Coherent(rec)
  BY JournalCoherent DEF IInv
<1> /\ Exists(rec) /\ rec.active.kind \in Kinds /\ ~rec.operationRetry /\ Active(rec)
    /\ rec.active.boot # boot
  BY JournalCoherent, NoRecordShape DEF IInv, Coherent,
     CanReconcileActiveExecution
<1> kids' = {}
  BY NoChild DEF IInv
<1> NoExecution.kind = "none"
  BY DEF NoExecution
<1>6. CASE rec.active.kind = "teardown"
  <2> USE <1>6
  <2> Kept(rec, rec', {"active"}) /\ rec'.active = NoExecution
    BY RebootTeardownFields DEF RebootTeardownChange
  <2> rec'.phase = rec.phase /\ rec'.outcome = rec.outcome /\ rec'.selected = rec.selected
      /\ rec'.operationRetry = rec.operationRetry
    BY DEF Kept, SameExcept, WellFormed
  <2>3. rec.phase = "intent"
    BY DEF Coherent
  <2>4. Untouched'
    BY DEF IInv
  <2>5. {"active"} \cap Aside = {}
    BY DEF Aside
  <2>6. OutcomeTrue' /\ rec'.phase # "data_outcome"
    BY <2>3 DEF OutcomeTrue
  <2> QED
    BY <2>4, <2>5, <2>6, PlainStep
<1>7. CASE rec.active.kind = "package"
  <2> USE <1>7
  <2> DEFINE F == {"active", "phase", "reconciled", "bootSession", "packageRetry"}
  <2> /\ Kept(rec, rec', F) /\ rec'.active = NoExecution
      /\ rec'.phase \in {"pending", "verified"}
    <3>1. CASE absent
      <4>1. /\ Kept(rec, rec', {"active", "phase", "reconciled", "packageRetry"})
            /\ rec'.active = NoExecution /\ rec'.phase = "verified"
        BY <3>1, RebootAbsentFields DEF RebootAbsentChange
      <4> QED
        BY <4>1 DEF Kept, SameExcept
    <3>2. CASE ~absent
      <4>1. /\ Kept(rec, rec', {"active", "phase", "reconciled", "bootSession", "packageRetry"})
            /\ rec'.active = NoExecution /\ rec'.phase = "pending"
        BY <3>2, RebootPresentFields DEF RebootPresentChange
      <4> QED
        BY <4>1
    <3> QED
      BY <3>1, <3>2
  <2> rec'.selected = rec.selected /\ rec'.operationRetry = rec.operationRetry
    BY DEF Kept, SameExcept, WellFormed
  <2>3. rec.phase = "in_flight"
    BY DEF Coherent
  <2>4. Untouched'
    BY DEF IInv
  <2>5. F \cap Aside = {}
    BY DEF Aside
  <2>6. OutcomeTrue' /\ rec'.phase # "data_outcome"
    BY <2>3 DEF IInv, JournalTruthful, OutcomeTrue
  <2> HIDE DEF F
  <2> QED
    BY <2>4, <2>5, <2>6, PlainStep
<1>8. CASE rec.active.kind = "trash"
  <2> /\ Kept(rec, rec', {"active", "retired", "locked", "phase", "outcome", "moved"})
      /\ rec'.active = NoExecution /\ rec'.phase = "refresh" /\ Retiring(rec, rec')
    BY <1>8, RebootTrashFields DEF RebootTrashChange
  <2> /\ WellFormed(rec') /\ rec'.context = rec.context /\ rec'.selected = rec.selected
      /\ rec'.verified = rec.verified /\ rec'.teardownDone = rec.teardownDone
      /\ rec'.finalizing = rec.finalizing /\ rec'.operationRetry = rec.operationRetry
    BY DEF Kept, SameExcept, WellFormed
  <2>3. MovedAccounted' /\ OutcomeTrue'
    BY DEF IInv, JournalTruthful, MovedAccounted, OutcomeTrue, Retiring
  <2>4. Untouched'
    BY DEF IInv
  <2>5. rec'.verified # "opencodex" /\ (rec'.finalizing => pkg = "absent")
    BY DEF IInv, Outcomes, RemovalWhole
  <2> QED
    BY <2>3, <2>4, <2>5, JournalStep
<1> QED
  BY <1>6, <1>7, <1>8 DEF Kinds

\* A standalone writer records a native boundary for an intent whose teardown
\* was not complete.
LEMMA ProvenStep ==
  ASSUME IInv, kids' = {}, UNCHANGED <<context, local, pkg, home, boot, relay>>,
         rec.phase = "intent", ~rec.teardownDone, ~Integrated,
         NEW F, Kept(rec, rec', F), Valid(rec'),
         F \cap {"context", "phase", "selected", "retired", "locked", "finalizing"} = {},
         rec'.verified = box, StateOf(box) = "native", rec'.active.kind = "none",
         Command', Stage'
  PROVE  IInv'
<1> USE Zenon
<1> WellFormed(rec) /\ Coherent(rec) /\ Exists(rec)
  BY JournalCoherent DEF IInv, Exists
<1> /\ rec'.context = rec.context /\ rec'.phase = "intent" /\ rec'.selected = rec.selected
    /\ rec'.retired = rec.retired /\ rec'.locked = rec.locked
    /\ rec'.finalizing = rec.finalizing /\ WellFormed(rec')
  BY FieldNames DEF Kept, SameExcept, WellFormed
<1>3. home = Items
  BY DEF IInv, JournalTruthful, BoundaryProven
<1>4. InPlace
  BY <1>3 DEF InPlace, Coherent
<1>5. Untouched'
  BY <1>4 DEF Untouched, InPlace
<1>6. MovedAccounted' /\ OutcomeTrue' /\ rec'.phase # "data_outcome"
  BY DEF IInv, JournalTruthful, MovedAccounted, OutcomeTrue
<1>7. rec'.verified # "opencodex" /\ (rec'.finalizing => pkg = "absent")
  BY DEF IInv, RemovalWhole, StateOf
<1> QED
  BY <1>5, <1>6, <1>7, JournalStep

\* The confirmed reboot, in both contexts.
LEMMA ReconcileBootStep ==
  ASSUME IInv, ReconcileAfterBoot \/ ReconcileStandaloneAfterBoot
  PROVE  IInv'
<1> USE Zenon
<1> USE ReconcileStep
<1> VerifyAbsent \in BOOLEAN
  BY DEF VerifyAbsent
<1>2. CASE ReconcileAfterBoot
  <2> /\ UNCHANGED <<context, local, pkg, home, kids, boot, relay>>
      /\ CanReconcileActiveExecution(rec, boot) /\ ~local
      /\ Write(ReconcileActiveExecutionAfterBoot(rec, VerifyAbsent))
      /\ cmd' = [Idle EXCEPT !.pc = "recover", !.then = "idle"] \/ Done
    BY <1>2 DEF ReconcileAfterBoot, world, Done
  <2>2. CASE Done
    <3>1. Command' /\ cmd'.pc = "idle"
      BY <2>2, IdleCommand DEF Done, Command
    <3> QED
      BY <3>1, IdleStage
  <2>3. CASE cmd' = [Idle EXCEPT !.pc = "recover", !.then = "idle"]
    <3> Command' /\ cmd'.pc = "recover" /\ cmd'.then = "idle"
      BY <2>3, StartRecoverFields
    <3>2. Stage'
      BY RecoverStage
    <3> QED
      BY <3>2
  <2> QED
    BY <2>2, <2>3
<1>3. CASE ReconcileStandaloneAfterBoot
  <2> /\ UNCHANGED <<context, local, pkg, home, kids, boot, relay, cmd>>
      /\ CanReconcileActiveExecution(rec, boot) /\ ~Integrated /\ At("idle")
      /\ \/ /\ CanReconcileStandaloneTeardown(rec, boot) /\ VerifyNativeBoundary
            /\ Replace(ReconcileStandaloneTeardownAfterBoot(rec, box))
         \/ Write(ReconcileActiveExecutionAfterBoot(rec, VerifyAbsent))
    BY <1>3 DEF ReconcileStandaloneAfterBoot, world
  <2> Command' /\ cmd'.pc = "idle" /\ Stage'
    BY IdleStage DEF IInv, Command, At
  <2>3. CASE Write(ReconcileActiveExecutionAfterBoot(rec, VerifyAbsent))
    BY <2>3
  <2>4. CASE /\ CanReconcileStandaloneTeardown(rec, boot) /\ VerifyNativeBoundary
             /\ Replace(ReconcileStandaloneTeardownAfterBoot(rec, box))
    <3> USE <2>4
    <3> rec' = ReconcileStandaloneTeardownAfterBoot(rec, box) /\ Valid(rec')
      BY Written
    <3>2. WellFormed(rec)
      BY JournalCoherent DEF IInv
    <3> DEFINE F == {"active", "nativeState", "verified", "nativeRecovery", "operationRetry"}
    <3> Kept(rec, rec', F) /\ rec'.active = NoExecution /\ rec'.verified = box
      <4> DEFINE n == ReconcileStandaloneTeardownAfterBoot(rec, box)
      <4>1. /\ Kept(rec, n, {"active", "nativeState", "verified", "nativeRecovery",
                             "operationRetry"})
            /\ n.active = NoExecution /\ n.nativeState = "native" /\ n.verified = box
            /\ n.nativeRecovery = FALSE /\ n.operationRetry = TRUE
        BY <3>2, RebootStandaloneFields DEF RebootStandaloneChange
      <4> HIDE DEF n
      <4>2. rec' = n
        BY DEF n
      <4> QED
        BY <4>1, <4>2
    <3>4. rec'.active.kind = "none"
      <4>1. NoExecution.kind = "none"
        BY DEF NoExecution
      <4> QED
        BY <4>1
    <3>5. rec.phase = "intent" /\ ~rec.teardownDone /\ StateOf(box) = "native"
      BY DEF CanReconcileStandaloneTeardown, VerifyNativeBoundary
    <3>6. kids' = {}
      BY NoChild DEF IInv, CanReconcileActiveExecution
    <3>7. F \cap {"context", "phase", "selected", "retired", "locked", "finalizing"} = {}
      OBVIOUS
    <3> HIDE DEF F
    <3> QED
      BY <3>4, <3>5, <3>6, <3>7, ProvenStep
  <2> QED
    BY <2>3, <2>4
<1> QED
  BY <1>2, <1>3

\* A standalone recovery is released, cleared, or settled by a boundary.
LEMMA ReconcileRecoveryStep ==
  ASSUME IInv, ReconcileStandaloneRecovery
  PROVE  IInv'
<1> USE Written, Zenon
<1> /\ UNCHANGED <<context, local, pkg, home, kids, boot, relay, cmd>>
    /\ ~Integrated /\ At("idle") /\ ~Active(rec)
    /\ \/ rec.recoveryPending /\ Write(ReleaseRemovalRoutingGateForRecovery(rec))
       \/ Replace(ClearStandaloneNativeRecovery(rec))
       \/ /\ CanRecoverStandaloneTeardownBoundary(rec) /\ VerifyNativeBoundary
          /\ Replace(RecoverStandaloneTeardownNativeBoundary(rec, box))
  BY DEF ReconcileStandaloneRecovery, world
<1> Command' /\ cmd'.pc = "idle" /\ Stage'
  BY IdleStage DEF IInv, Command, At
<1> WellFormed(rec)
  BY JournalCoherent DEF IInv
<1>4. CASE rec.recoveryPending /\ Write(ReleaseRemovalRoutingGateForRecovery(rec))
  <2> USE <1>4
  <2> rec' = ReleaseRemovalRoutingGateForRecovery(rec) /\ Valid(rec')
    OBVIOUS
  <2>2. Kept(rec, rec', {"recoveryPending"})
    BY RecoveryReleaseFields DEF RecoveryReleaseChange
  <2>3. {"recoveryPending"} \cap Watched = {}
    BY DEF Watched, Aside
  <2> QED
    BY <2>2, <2>3, UnwatchedStep
<1>5. CASE Replace(ClearStandaloneNativeRecovery(rec))
  <2> rec' = ClearStandaloneNativeRecovery(rec) /\ Valid(rec')
    BY <1>5
  <2>2. Kept(rec, rec', {"nativeRecovery"})
    BY ClearNativeFields DEF ClearNativeChange
  <2>3. {"nativeRecovery"} \cap Watched = {}
    BY DEF Watched, Aside
  <2> QED
    BY <2>2, <2>3, UnwatchedStep
<1>6. CASE /\ CanRecoverStandaloneTeardownBoundary(rec) /\ VerifyNativeBoundary
           /\ Replace(RecoverStandaloneTeardownNativeBoundary(rec, box))
  <2> USE <1>6
  <2> rec' = RecoverStandaloneTeardownNativeBoundary(rec, box) /\ Valid(rec')
    OBVIOUS
  <2> DEFINE F == {"nativeState", "verified", "nativeRecovery", "operationRetry"}
  <2> Kept(rec, rec', F) /\ rec'.verified = box
    BY RecoverBoundaryFields DEF RecoverBoundaryChange
  <2>3. rec'.active = rec.active
    BY FieldNames DEF Kept, SameExcept, WellFormed
  <2>4. rec'.active.kind = "none"
    BY <2>3 DEF Active
  <2>5. rec.phase = "intent" /\ ~rec.teardownDone /\ StateOf(box) = "native"
    BY DEF CanRecoverStandaloneTeardownBoundary, VerifyNativeBoundary
  <2>6. kids' = {}
    BY NoChild DEF IInv
  <2>7. F \cap {"context", "phase", "selected", "retired", "locked", "finalizing"} = {}
    OBVIOUS
  <2> HIDE DEF F
  <2> QED
    BY <2>4, <2>5, <2>6, <2>7, ProvenStep
<1> QED
  BY <1>4, <1>5, <1>6

\* A command about to arm a child, on a selection in place.
LEMMA ReadyStage ==
  ASSUME cmd'.pc \in {"teardown", "trash"}, ~local', ~Active(rec'), InPlace',
         cmd'.pc = "teardown" => rec'.verified = ""
  PROVE  Stage'
  BY StageParts, Zenon DEF Stage, Preparing, At

\* The durable intent of a new removal.
LEMMA NewIntentStep ==
  ASSUME IInv, UNCHANGED <<context, local, pkg, home, kids, boot, relay>>, ~Exists(rec), ~local,
         pkg = "present", kids = {}, cmd.req.items \subseteq home,
         rec' = NewRemovalIntentRecord(context, cmd.req), Valid(rec'),
         Command', cmd'.pc = "teardown"
  PROVE  IInv'
<1> USE Zenon
<1> DEFINE n == NewRemovalIntentRecord(context, cmd.req)
<1>1. WellFormed(n)
  BY IntentShape
<1>2. n.context = context
  BY DEF NewRemovalIntentRecord, NoRecord
<1>3. n.phase = "intent" /\ n.selected = cmd.req.items /\ n.active = NoExecution
  BY DEF NewRemovalIntentRecord, NoRecord
<1>4. n.operationRetry = FALSE /\ n.finalizing = FALSE /\ n.verified = ""
  BY DEF NewRemovalIntentRecord, NoRecord
<1> /\ WellFormed(rec') /\ rec'.context = context /\ rec'.phase = "intent"
    /\ rec'.selected = cmd.req.items /\ rec'.active = NoExecution
    /\ rec'.operationRetry = FALSE /\ rec'.finalizing = FALSE /\ rec'.verified = ""
  BY <1>1, <1>3, <1>4, <1>2
<1> HIDE DEF n
<1> ~Active(rec') /\ rec'.active.kind = "none"
  <2>1. NoExecution.kind = "none"
    BY DEF NoExecution
  <2> QED
    BY <2>1 DEF Active
<1> home = Items /\ rec.finalizing = FALSE
  BY NoRecordShape, JournalCoherent DEF IInv, Outcomes
<1> Exists(rec')
  BY DEF Exists
<1>9. Types' /\ Journal'
  BY DEF IInv, Types, Journal, Integrated
<1>10. Children' /\ Untouched'
  BY DEF Children, Untouched
<1>11. Outcomes'
  BY DEF Outcomes
<1>12. InPlace'
  BY DEF InPlace
<1>13. Stage'
  BY <1>12, ReadyStage
<1>14. JournalTruthful'
  BY DEF JournalTruthful, MovedAccounted, OutcomeTrue, BoundaryProven
<1>15. RemovalWhole'
  BY DEF IInv, RemovalWhole, LocalHeldOff
<1> QED
  BY <1>9, <1>10, <1>11, <1>13, <1>14, <1>15 DEF IInv

\* Candidate checks and the intent.
LEMMA PrepareOperationStep ==
  ASSUME IInv, PrepareOperation
  PROVE  IInv'
<1> USE Zenon
<1> USE CommandStep, GotoFields
<1> UNCHANGED <<context, local, pkg, home, kids, boot, relay>> /\ At("prepare")
  BY DEF PrepareOperation, world
<1> ~local /\ ~Active(rec) /\ cmd.req.items \subseteq home
  BY NotLocal DEF IInv, Stage, Preparing, At
<1>3. kids = {}
  BY NoChild DEF IInv
<1> Command
  BY DEF IInv
<1>5. CASE Done /\ UNCHANGED rec
  BY <1>5, DoneStep
<1>6. CASE /\ Resolve /\ CanEnsureRemovalIntent(rec, cmd.req)
           /\ Write(EnsureRemovalIntent(rec, context, cmd.req))
           /\ IF rec.verified = "" THEN Goto("teardown")
              ELSE IF ~rec.teardownDone THEN Done
              ELSE IF ~VerifyRouting THEN Recovering("idle")
              ELSE Goto(AfterTeardown(cmd.req))
  <2> USE <1>6
  <2> rec' = EnsureRemovalIntent(rec, context, cmd.req) /\ Valid(rec')
    BY Written
  <2>2. CASE Exists(rec)
    <3> USE <2>2
    <3> rec' = rec
      BY DEF EnsureRemovalIntent
    <3>2. rec.selected = cmd.req.items
      BY DEF CanEnsureRemovalIntent, RemovalCleanupMatchesRequest
    <3>3. InPlace' /\ ~Active(rec')
      BY <3>2 DEF InPlace
    <3>4. \/ Done \/ Recovering("idle") \/ (Goto("teardown") /\ rec.verified = "")
          \/ Goto("trash") \/ Goto("package")
      BY DEF AfterTeardown
    <3>5. CASE Done
      BY <3>5, DoneStep
    <3>6. CASE Recovering("idle")
      <4> Command' /\ cmd'.pc = "recover" /\ cmd'.then = "idle"
        BY <3>6, RecoveringFields
      <4>2. Stage'
        BY RecoverStage
      <4> QED
        BY <4>2
    <3>7. CASE (Goto("teardown") /\ rec.verified = "") \/ Goto("trash")
      <4> /\ Command' /\ cmd'.pc \in {"teardown", "trash"}
          /\ cmd'.pc = "teardown" => rec'.verified = ""
        <5>1. CASE Goto("teardown") /\ rec.verified = ""
          BY <5>1
        <5>2. CASE Goto("trash")
          <6>1. Command' /\ cmd'.pc = "trash"
            BY <5>2
          <6> QED
            BY <6>1
        <5> QED
          BY <3>7, <5>1, <5>2
      <4>2. Stage'
        BY <3>3, ReadyStage
      <4> QED
        BY <4>2
    <3>8. CASE Goto("package")
      <4> Command' /\ cmd'.pc = "package"
        BY <3>8
      <4>2. Stage'
        BY FreeStage
      <4> QED
        BY <4>2
    <3> QED
      BY <3>4, <3>5, <3>6, <3>7, <3>8
  <2>3. CASE ~Exists(rec)
    <3> USE <2>3
    <3>1. rec' = NewRemovalIntentRecord(context, cmd.req)
      BY DEF EnsureRemovalIntent
    <3>2. rec.verified = ""
      BY NoRecordShape, JournalCoherent DEF IInv
    <3>3. Command' /\ cmd'.pc = "teardown"
      BY <3>2
    <3>4. pkg = "present"
      BY DEF Resolve
    <3> QED
      BY <1>3, <3>1, <3>3, <3>4, NewIntentStep
  <2> QED
    BY <2>2, <2>3
<1> QED
  BY <1>5, <1>6 DEF PrepareOperation

\* A stage that stops without a write.
LEMMA StoppedStep ==
  ASSUME IInv, ~local, UNCHANGED <<context, local, pkg, home, kids, boot, relay, rec>>,
         Done \/ Recovering("idle")
  PROVE  IInv'
<1>1. CASE Done
  BY <1>1, DoneStep
<1>2. CASE Recovering("idle")
  <2> Command' /\ cmd'.pc = "recover" /\ cmd'.then = "idle"
    BY <1>2, RecoveringFields DEF IInv
  <2>2. Stage'
    BY RecoverStage
  <2> QED
    BY <2>2, CommandStep
<1> QED
  BY <1>1, <1>2

\* A command whose child is armed and not yet started.
LEMMA LaunchStage ==
  ASSUME cmd'.pc = "launch", ~local', kids' = {}, Active(rec'), Armed', rec'.resolution = "",
         rec'.active.kind = "trash" => InPlace'
  PROVE  Stage'
  BY StageParts, Zenon DEF Stage, Launching, At

\* The witness of a child that is being armed.
LEMMA ArmedFields ==
  ASSUME NEW k \in Kinds, boot' = boot, rec'.attempt = rec.attempt + 1,
         rec'.active = [kind |-> k, attempt |-> rec.attempt + 1, boot |-> boot]
  PROVE  Armed' /\ Active(rec') /\ rec'.active.kind = k
<1> USE Zenon
<1> rec'.active.kind = k
  <2>1. [kind |-> k, attempt |-> rec.attempt + 1, boot |-> boot].kind = k
    OBVIOUS
  <2> QED
    BY <2>1
<1>2. rec'.active = [kind |-> rec'.active.kind, attempt |-> rec'.attempt, boot |-> boot']
  OBVIOUS
<1> QED
  BY <1>2 DEF Armed, Active, Kinds

\* The durable begin of a teardown or Trash child.
LEMMA BeginChildStep ==
  ASSUME IInv, NEW k \in Kinds, BeginChild(k)
  PROVE  IInv'
<1> USE Zenon
<1> UNCHANGED <<context, local, pkg, home, kids, boot, relay>>
    /\ At(k) /\ k \in {"teardown", "trash"}
  BY DEF BeginChild, world
<1> ~Active(rec) /\ InPlace
  BY DEF IInv, Stage, Preparing, At
<1> ~local
  BY NotLocal DEF At
<1> kids' = {}
  BY NoChild DEF IInv
<1>5. CASE UNCHANGED rec /\ (Done \/ Recovering("idle"))
  BY <1>5, StoppedStep
<1>6. CASE /\ CanBeginExecution(rec, k)
           /\ Write(BeginExecution(rec, k, boot)) /\ Goto("launch")
  <2> USE <1>6
  <2> rec' = BeginExecution(rec, k, boot) /\ Valid(rec')
    BY Written
  <2> WellFormed(rec)
    BY JournalCoherent DEF IInv
  <2> DEFINE F == {"attempt", "active", "operationRetry"}
  <2> /\ Kept(rec, rec', F) /\ rec'.attempt = rec.attempt + 1
      /\ rec'.active = [kind |-> k, attempt |-> rec.attempt + 1, boot |-> boot]
    <3>1. CASE k = "teardown"
      BY <3>1, TeardownBeginFields DEF TeardownBeginChange
    <3>2. CASE k = "trash"
      <4>1. /\ Kept(rec, rec', {"attempt", "active"}) /\ rec'.attempt = rec.attempt + 1
            /\ rec'.active = [kind |-> k, attempt |-> rec.attempt + 1, boot |-> boot]
        BY <3>2, TrashBeginFields DEF TrashBeginChange
      <4> QED
        BY <4>1 DEF Kept, SameExcept
    <3> QED
      BY <3>1, <3>2
  <2> /\ rec'.phase = rec.phase /\ rec'.selected = rec.selected
      /\ rec'.resolution = rec.resolution /\ rec'.outcome = rec.outcome
    BY FieldNames DEF Kept, SameExcept, WellFormed
  <2> /\ Exists(rec) /\ rec.phase = "intent" /\ rec.resolution = ""
    BY DEF CanBeginExecution, ValidateExecutionSource, Quiet
  <2>6. Armed' /\ Active(rec')
    BY ArmedFields
  <2> InPlace'
    BY DEF InPlace
  <2>8. Untouched'
    BY DEF Untouched
  <2>9. OutcomeTrue' /\ rec'.phase # "data_outcome"
    BY DEF OutcomeTrue
  <2> Command' /\ cmd'.pc = "launch"
    BY GotoFields DEF IInv
  <2>11. Stage'
    BY <2>6, LaunchStage
  <2>12. F \cap Aside = {}
    BY DEF Aside
  <2> HIDE DEF F
  <2> QED
    BY <2>8, <2>9, <2>11, <2>12, PlainStep
<1> QED
  BY <1>5, <1>6 DEF BeginChild

\* The durable begin of the package child.
LEMMA BeginPackageStep ==
  ASSUME IInv, BeginPackage
  PROVE  IInv'
<1> USE Zenon
<1> UNCHANGED <<context, local, pkg, home, kids, boot, relay>> /\ At("uninstall")
  BY DEF BeginPackage, world
<1> ~local
  BY NotLocal DEF At
<1>3. CASE UNCHANGED rec /\ Done
  BY <1>3, StoppedStep
<1>4. CASE /\ CanBeginExecution(rec, "package")
           /\ Write(BeginExecution(rec, "package", boot)) /\ Goto("launch")
  <2> USE <1>4
  <2> rec' = BeginExecution(rec, "package", boot) /\ Valid(rec')
    BY Written
  <2> WellFormed(rec) /\ Coherent(rec)
    BY JournalCoherent DEF IInv
  <2> /\ Exists(rec) /\ ~Active(rec) /\ rec.resolution = "" /\ ~rec.finalizing
      /\ rec.phase \in {"pending", "verified"}
    BY DEF CanBeginExecution, ValidateExecutionSource, Quiet
  <2> kids' = {}
    BY NoChild DEF IInv
  <2> /\ Kept(rec, rec', {"attempt", "active", "packageAttempt", "phase", "bootSession",
                      "reconciled", "packageRetry", "released", "finalizing"})
      /\ rec'.attempt = rec.attempt + 1
      /\ rec'.active = [kind |-> "package", attempt |-> rec.attempt + 1, boot |-> boot]
      /\ rec'.phase = "in_flight" /\ rec'.finalizing = FALSE
    <3>1. PackageArmed(rec, rec', boot)
      BY PackageBeginFields
    <3> QED
      BY <3>1 DEF PackageArmed
  <2> /\ WellFormed(rec') /\ rec'.context = rec.context /\ rec'.retired = rec.retired
      /\ rec'.locked = rec.locked /\ rec'.verified = rec.verified
      /\ rec'.teardownDone = rec.teardownDone /\ rec'.selected = rec.selected
      /\ rec'.resolution = rec.resolution /\ rec'.operationRetry = rec.operationRetry
    BY FieldNames DEF Kept, SameExcept, WellFormed
  <2> Armed' /\ Active(rec') /\ rec'.active.kind = "package"
    BY ArmedFields DEF Kinds
  <2>8. Untouched'
    BY DEF IInv, Untouched, InPlace
  <2>9. MovedAccounted' /\ OutcomeTrue' /\ rec'.phase # "data_outcome"
    BY DEF IInv, JournalTruthful, MovedAccounted, OutcomeTrue
  <2> Command' /\ cmd'.pc = "launch"
    BY GotoFields DEF IInv
  <2>11. Stage'
    BY LaunchStage
  <2>12. rec'.verified # "opencodex"
    BY DEF IInv, Outcomes
  <2> QED
    BY <2>8, <2>9, <2>11, <2>12, JournalStep
<1> QED
  BY <1>3, <1>4 DEF BeginPackage

\* The package stage: pending.
LEMMA PreparePackageStep ==
  ASSUME IInv, PreparePackageRemoval
  PROVE  IInv'
<1> USE Zenon
<1> UNCHANGED <<context, local, pkg, home, kids, boot, relay>> /\ At("package")
  BY DEF PreparePackageRemoval, world
<1> ~local
  BY NotLocal DEF At
<1>3. CASE UNCHANGED rec /\ (Done \/ Recovering("idle"))
  BY <1>3, StoppedStep
<1>4. CASE /\ CanPrepareRemovalPackageCleanup(rec)
           /\ Write(PrepareRemovalPackageCleanup(rec)) /\ Goto("uninstall")
  <2> USE <1>4
  <2> rec' = PrepareRemovalPackageCleanup(rec) /\ Valid(rec')
    BY Written
  <2> WellFormed(rec) /\ Coherent(rec)
    BY JournalCoherent DEF IInv
  <2> Exists(rec) /\ ~Active(rec) /\ Moved
    BY DEF CanPrepareRemovalPackageCleanup, Quiet, IInv, Outcomes, Coherent,
       Moved
  <2>4. kids' = {}
    BY NoChild DEF IInv
  <2> Kept(rec, rec', {"phase", "packageRetry"}) /\ rec'.phase = "pending"
    BY PrepareFields DEF PrepareChange
  <2> rec'.active = rec.active /\ rec'.operationRetry = rec.operationRetry
      /\ rec'.selected = rec.selected
    BY FieldNames DEF Kept, SameExcept, WellFormed
  <2>7. Untouched'
    BY UntouchedKept DEF IInv, Active
  <2>8. OutcomeTrue' /\ rec'.phase # "data_outcome"
    BY DEF OutcomeTrue, Moved
  <2> Command' /\ cmd'.pc = "uninstall"
    BY GotoFields DEF IInv
  <2>10. Stage'
    BY FreeStage
  <2>11. {"phase", "packageRetry"} \cap Aside = {}
    BY DEF Aside
  <2> QED
    BY <2>4, <2>7, <2>8, <2>10, <2>11, PlainStep
<1> QED
  BY <1>3, <1>4 DEF PreparePackageRemoval

\* The witness of a child that is proven gone is cleared.
LEMMA FinishStep ==
  ASSUME IInv, kids' = {}, UNCHANGED <<context, local, pkg, home, boot, relay>>,
         NEW started \in BOOLEAN, NEW clean \in BOOLEAN, ~started \/ clean,
         Finish(started, clean), Command', Stage'
  PROVE  IInv'
<1> USE Zenon
<1> CanFinishExecution(rec) /\ Write(FinishExecution(rec, started, clean))
  BY DEF Finish
<1> rec' = FinishExecution(rec, started, clean) /\ Valid(rec')
  BY Written
<1> WellFormed(rec) /\ Coherent(rec)
  BY JournalCoherent DEF IInv
<1> Exists(rec) /\ rec.active.kind \in Kinds
  BY JournalCoherent, NoRecordShape DEF IInv, Coherent, CanFinishExecution
<1> DEFINE F == {"active", "phase", "bootSession", "reconciled", "packageRetry"}
<1> /\ Kept(rec, rec', F) /\ rec'.active = NoExecution
    /\ \/ rec.active.kind # "package" /\ rec'.phase = rec.phase
       \/ rec.active.kind = "package" /\ rec'.phase \in {"pending", "verified"}
  <2>1. CASE rec.active.kind # "package"
    <3> USE <2>1
    <3> Kept(rec, rec', {"active"}) /\ rec'.active = NoExecution
      BY FinishFields DEF FinishChange
    <3>2. rec'.phase = rec.phase
      BY FieldNames DEF Kept, SameExcept, WellFormed
    <3> QED
      BY <3>2 DEF Kept, SameExcept
  <2>2. CASE rec.active.kind = "package" /\ started
    <3> USE <2>2
    <3>1. /\ Kept(rec, rec', {"active", "phase"}) /\ rec'.active = NoExecution
          /\ rec'.phase = "verified"
      BY FinishPackageFields DEF FinishPackageChange
    <3> QED
      BY <3>1 DEF Kept, SameExcept
  <2>3. CASE rec.active.kind = "package" /\ ~started
    <3> USE <2>3
    <3>1. PackageUnarmed(rec, rec')
      BY UnstartedPackageFields
    <3> QED
      BY <3>1 DEF PackageUnarmed
  <2> QED
    BY <2>1, <2>2, <2>3
<1> rec'.selected = rec.selected /\ rec'.operationRetry = rec.operationRetry
    /\ rec'.outcome = rec.outcome
  BY FieldNames DEF Kept, SameExcept, WellFormed
<1>7. NoExecution.kind = "none"
  BY DEF NoExecution
<1>8. Untouched'
  BY <1>7, UntouchedKept DEF IInv
<1>9. \/ rec.active.kind # "package" /\ rec.phase = "intent"
      \/ rec.active.kind = "package" /\ rec.phase = "in_flight"
  BY DEF Coherent, Kinds
<1>10. OutcomeTrue' /\ rec'.phase # "data_outcome"
  BY <1>9 DEF IInv, JournalTruthful, OutcomeTrue
<1>11. F \cap Aside = {}
  BY DEF Aside
<1> HIDE DEF F
<1> QED
  BY <1>8, <1>10, <1>11, PlainStep

\* The candidate changed before the start.
LEMMA RefuseCandidateStep ==
  ASSUME IInv, RefuseCandidate
  PROVE  IInv'
<1> USE Zenon
<1> UNCHANGED <<context, local, pkg, home, kids, boot, relay>> /\ At("launch")
    /\ Finish(FALSE, FALSE) /\ Done
  BY DEF RefuseCandidate
<1>2. kids' = {}
  BY DEF IInv, Stage, Launching
<1>3. Command' /\ cmd'.pc = "idle"
  BY IdleCommand DEF Done, Command
<1> QED
  BY <1>2, <1>3, IdleStage, FinishStep

\* A child that failed, or was refused, and is proven gone.
LEMMA ChildFailedStep ==
  ASSUME IInv, (\E k \in Kinds : ChildFailed(k)) \/ TeardownRefused
  PROVE  IInv'
<1> USE Zenon
<1> /\ UNCHANGED <<context, local, pkg, home, boot, relay>> /\ At("wait") /\ Reap
    /\ Finish(TRUE, TRUE) /\ (Recovering("idle") \/ Done)
  BY DEF ChildFailed, TeardownRefused, Waiting
<1> kids' = {}
  BY ReapAll DEF IInv
<1>3. ~local
  BY NotLocal DEF At
<1>4. CASE Done
  <2>1. Command' /\ cmd'.pc = "idle"
    BY <1>4, IdleCommand DEF Done, Command
  <2> QED
    BY <2>1, IdleStage, FinishStep
<1>5. CASE Recovering("idle")
  <2> Command' /\ cmd'.pc = "recover" /\ cmd'.then = "idle"
    BY <1>5, RecoveringFields DEF IInv
  <2>2. Stage'
    BY <1>3, RecoverStage
  <2> QED
    BY <2>2, FinishStep
<1> QED
  BY <1>4, <1>5

\* A child that may still run leaves the record as it is.
LEMMA ChildUnprovenStep ==
  ASSUME IInv, ChildUnproven
  PROVE  IInv'
<1> USE Zenon
<1> /\ UNCHANGED <<context, local, pkg, home, kids, boot, relay>> /\ At("wait")
    /\ Finish(TRUE, FALSE) /\ Recovering("idle")
  BY DEF ChildUnproven
<1>2. ~local
  BY NotLocal DEF At
<1>3. rec' = FinishExecution(rec, TRUE, FALSE)
  BY Written DEF Finish
<1>4. rec' = rec
  BY <1>3 DEF FinishExecution
<1> QED
  BY <1>2, <1>4, StoppedStep

\* A valid Trash receipt.
LEMMA TrashFinishedStep ==
  ASSUME IInv, NEW status \in DataOutcomes, TrashFinished(status)
  PROVE  IInv'
<1> USE Zenon
<1> /\ UNCHANGED <<context, local, pkg, home, boot, relay>> /\ At("wait") /\ Reap
    /\ Finish(TRUE, TRUE) /\ rec.active.kind = "trash"
    /\ ParseUpstreamTrash(status, rec.selected \ home)
    /\ cmd' = [cmd EXCEPT !.pc = IF VerifyRouting THEN "record" ELSE "recover",
                          !.then = "record", !.why = status, !.flag = VerifyRouting]
  BY DEF TrashFinished, Waiting
<1>2. kids' = {}
  BY ReapAll DEF IInv
<1>3. ~local
  BY NotLocal DEF At
<1> Command' /\ cmd'.pc \in {"record", "recover"} /\ cmd'.then = "record" /\ cmd'.why = status
  BY DEF IInv, Command
<1>5. rec'.selected = rec.selected
  <2>1. rec' = FinishExecution(rec, TRUE, TRUE)
    BY Written DEF Finish
  <2> WellFormed(rec)
    BY JournalCoherent DEF IInv
  <2>3. Kept(rec, rec', {"active"})
    BY <2>1, FinishFields DEF FinishChange
  <2> QED
    BY <2>3, FieldNames DEF Kept, SameExcept, WellFormed
<1>6. status = "completed" => Moved'
  BY <1>5 DEF ParseUpstreamTrash, Moved
<1>7. Recording'
  BY <1>6 DEF Recording, At
<1>8. Stage'
  BY <1>3, <1>7, StageParts DEF Stage
<1> QED
  BY <1>2, <1>8, FinishStep

\* npm returned.
LEMMA PackageFinishedStep ==
  ASSUME IInv, NEW succeeded \in BOOLEAN, PackageFinished(succeeded)
  PROVE  IInv'
<1> USE Zenon
<1> /\ UNCHANGED <<context, local, pkg, home, boot, relay>> /\ At("wait") /\ Reap
    /\ Finish(TRUE, TRUE)
    /\ cmd' = [cmd EXCEPT !.pc = IF VerifyRouting THEN "verify" ELSE "recover",
                          !.then = "verify", !.flag = succeeded /\ VerifyRouting]
  BY DEF PackageFinished, Waiting
<1>2. kids' = {}
  BY ReapAll DEF IInv
<1>3. ~local
  BY NotLocal DEF At
<1> Command' /\ cmd'.pc \in {"verify", "recover"} /\ cmd'.then = "verify"
  BY DEF IInv, Command
<1>5. Stage'
  BY <1>3, RecoverStage, FreeStage
<1> QED
  BY <1>2, <1>5, FinishStep

\* The teardown completed.
LEMMA TeardownCompletedStep ==
  ASSUME IInv, TeardownCompleted
  PROVE  IInv'
<1> USE Zenon
<1> /\ UNCHANGED <<context, local, pkg, home, boot, relay>> /\ At("wait") /\ Reap
    /\ rec.active.kind = "teardown"
    /\ IF Integrated
       THEN /\ Finish(TRUE, TRUE)
            /\ IF VerifyRouting THEN Goto(AfterTeardown(cmd.req)) ELSE Recovering("idle")
       ELSE IF StateOf(box) = "native" /\ CanCompleteStandaloneTeardown(rec)
            THEN /\ Replace(CompleteStandaloneTeardown(rec, box))
                 /\ Goto(AfterTeardown(cmd.req))
            ELSE UNCHANGED rec /\ Recovering("idle")
  BY DEF TeardownCompleted, Waiting
<1> kids' = {}
  BY ReapAll DEF IInv
<1> ~local
  BY NotLocal DEF At
<1> WellFormed(rec) /\ Command /\ InPlace
  BY JournalCoherent DEF IInv, Untouched
<1> NoExecution.kind = "none"
  BY DEF NoExecution
<1>6. ASSUME NEW F, Kept(rec, rec', F), "selected" \notin F, rec'.active = NoExecution,
             Goto(AfterTeardown(cmd.req))
      PROVE  Command' /\ Stage'
  <2> USE <1>6
  <2>1. Command' /\ cmd'.pc \in {"trash", "package"}
    BY GotoFields DEF AfterTeardown
  <2>2. rec'.selected = rec.selected
    BY FieldNames DEF Kept, SameExcept, WellFormed
  <2>3. InPlace'
    BY <2>2 DEF InPlace
  <2>4. ~Active(rec')
    BY DEF Active
  <2> QED
    BY <2>1, <2>3, <2>4, FreeStage, ReadyStage
<1> USE <1>6
<1>7. CASE Integrated
  <2> USE <1>7
  <2> rec' = FinishExecution(rec, TRUE, TRUE) /\ Finish(TRUE, TRUE)
    BY Written DEF Finish
  <2>2. Kept(rec, rec', {"active"}) /\ rec'.active = NoExecution
    BY FinishFields DEF FinishChange
  <2>3. CASE Goto(AfterTeardown(cmd.req))
    <3>1. Command' /\ Stage'
      BY <2>2, <2>3
    <3> QED
      BY <3>1, FinishStep
  <2>4. CASE Recovering("idle")
    <3> Command' /\ cmd'.pc = "recover" /\ cmd'.then = "idle"
      BY <2>4, RecoveringFields
    <3>2. Stage'
      BY RecoverStage
    <3> QED
      BY <3>2, FinishStep
  <2> QED
    BY <2>3, <2>4
<1>8. CASE /\ ~Integrated /\ StateOf(box) = "native" /\ CanCompleteStandaloneTeardown(rec)
           /\ Replace(CompleteStandaloneTeardown(rec, box)) /\ Goto(AfterTeardown(cmd.req))
  <2> USE <1>8
  <2> rec' = CompleteStandaloneTeardown(rec, box) /\ Valid(rec')
    BY Written
  <2> DEFINE F == {"active", "teardownDone", "nativeState", "verified"}
  <2> Kept(rec, rec', F) /\ rec'.active = NoExecution
    BY CompleteFields DEF CompleteChange
  <2>3. rec'.verified = box
    BY FieldNames DEF WellFormed, CompleteStandaloneTeardown
  <2>4. Command' /\ Stage'
    OBVIOUS
  <2>5. rec'.active.kind = "none"
    OBVIOUS
  <2>6. rec.phase = "intent" /\ ~rec.teardownDone
    BY DEF CanCompleteStandaloneTeardown
  <2>7. F \cap {"context", "phase", "selected", "retired", "locked", "finalizing"} = {}
    OBVIOUS
  <2> HIDE DEF F
  <2> QED
    BY <2>3, <2>4, <2>5, <2>6, <2>7, ProvenStep
<1>9. CASE UNCHANGED rec /\ Recovering("idle")
  <2> USE <1>9
  <2> Command' /\ cmd'.pc = "recover" /\ cmd'.then = "idle"
    BY RecoveringFields
  <2>2. Stage'
    BY RecoverStage
  <2>3. Children'
    BY DEF Children
  <2>4. boot' \in Nat \ {0}
    BY DEF IInv, Types
  <2> QED
    BY <2>2, <2>3, <2>4, ChildrenStep
<1> QED
  BY <1>7, <1>8, <1>9

\* A command that ends, with its last write.
LEMMA DoneFields ==
  ASSUME Done
  PROVE  Command' /\ cmd'.pc = "idle" /\ Stage'
<1>1. Command' /\ cmd'.pc = "idle"
  BY IdleCommand, Zenon DEF Done, Command
<1> QED
  BY <1>1, IdleStage

\* The outcome of a Trash child is recorded.
LEMMA RecordOutcomeStep ==
  ASSUME IInv, RecordDataOutcome
  PROVE  IInv'
<1> USE Zenon
<1> DEFINE moved == Cardinality(rec.selected \ home)
<1> /\ UNCHANGED <<context, local, pkg, home, kids, boot, relay>> /\ At("record")
    /\ CanRecordRemovalDataOutcome(rec)
    /\ Write(RecordRemovalDataOutcome(rec, moved, cmd.why))
    /\ Goto("refresh") \/ Goto("package") \/ Done
  <2>1. /\ UNCHANGED <<context, local, pkg, home, kids, boot, relay>> /\ At("record")
        /\ CanRecordRemovalDataOutcome(rec)
        /\ Write(RecordRemovalDataOutcome(rec, moved, cmd.why))
    BY DEF RecordDataOutcome, world
  <2>2. (CASE cmd.why = "unsupported" -> Goto("refresh")
           [] cmd.why = "completed" /\ cmd.flag -> Goto("package")
           [] OTHER -> Done)
    BY DEF RecordDataOutcome
  <2>3. Goto("refresh") \/ Goto("package") \/ Done
    BY <2>2
  <2> QED
    BY <2>1, <2>3
<1> HIDE DEF moved
<1> rec' = RecordRemovalDataOutcome(rec, moved, cmd.why) /\ Valid(rec')
  BY Written
<1> WellFormed(rec) /\ Coherent(rec) /\ Command
  BY JournalCoherent DEF IInv
<1> Exists(rec) /\ ~Active(rec) /\ ~local
  BY NotLocal DEF CanRecordRemovalDataOutcome, Quiet, At
<1>5. kids' = {}
  BY NoChild DEF IInv
<1> DEFINE F == {"phase", "moved", "outcome"}
<1>6. SameExcept(rec, rec', F)
  BY DEF WellFormed, RecordRemovalDataOutcome, SameExcept
<1> rec'.phase = "data_outcome" /\ rec'.outcome = cmd.why
  BY FieldNames DEF WellFormed, RecordRemovalDataOutcome
<1>8. rec' = [f \in Fields |-> rec'[f]]
  BY DEF WellFormed, RecordRemovalDataOutcome
<1> Kept(rec, rec', F)
  BY <1>6, <1>8, KeptShape
<1> rec'.active = rec.active /\ rec'.operationRetry = rec.operationRetry
    /\ rec'.selected = rec.selected
  BY FieldNames DEF Kept, SameExcept, WellFormed
<1>11. Untouched'
  BY UntouchedKept DEF IInv, Active
<1>12. rec'.outcome = "completed" => Moved'
  BY DEF IInv, Stage, Recording, Moved
<1>13. OutcomeTrue'
  BY DEF OutcomeTrue
<1>14. F \cap Aside = {}
  BY DEF Aside
<1> HIDE DEF F
<1>15. Command' /\ Stage'
  <2>1. CASE Done
    BY <2>1, DoneFields
  <2>2. CASE Goto("package")
    <3>1. Command' /\ cmd'.pc = "package"
      BY <2>2, GotoFields
    <3> QED
      BY <3>1, FreeStage
  <2>3. CASE Goto("refresh")
    <3> Command' /\ cmd'.pc = "refresh"
      BY <2>3, GotoFields
    <3>2. Recording'
      BY DEF Recording, At
    <3> QED
      BY <3>2, StageParts DEF Stage
  <2> QED
    BY <2>1, <2>2, <2>3
<1> QED
  BY <1>5, <1>11, <1>12, <1>13, <1>14, <1>15, PlainStep

\* The recovery mark of an unproven step.
LEMMA RequireRecoveryStep ==
  ASSUME IInv, RequireRoutingRecovery
  PROVE  IInv'
<1> USE Zenon
<1> /\ UNCHANGED <<context, local, pkg, home, kids, boot, relay>> /\ At("recover")
    /\ UNCHANGED rec \/ Replace(MarkStandaloneNativeRecovery(rec))
    /\ IF cmd.then = "idle" THEN Done ELSE Goto(cmd.then)
  BY DEF RequireRoutingRecovery, world
<1> ~local
  BY NotLocal DEF At
<1> WellFormed(rec) /\ Command
  BY JournalCoherent DEF IInv
<1>4. cmd.then \in {"idle", "record", "verify"}
  BY DEF IInv, Stage, Recording
<1>5. ASSUME rec'.selected = rec.selected
      PROVE  Command' /\ Stage'
  <2>1. CASE Done
    BY <2>1, DoneFields
  <2>2. CASE Goto("verify")
    <3>1. Command' /\ cmd'.pc = "verify"
      BY <2>2, GotoFields
    <3> QED
      BY <3>1, FreeStage
  <2>3. CASE cmd.then = "record" /\ Goto("record")
    <3> USE <2>3
    <3> Command' /\ cmd'.pc = "record" /\ cmd'.why = cmd.why
      BY GotoFields
    <3>2. cmd.why = "completed" => Moved'
      BY <1>5 DEF IInv, Stage, Recording, Moved
    <3>3. Recording'
      BY <3>2 DEF Recording, At
    <3> QED
      BY <3>3, StageParts DEF Stage
  <2> QED
    BY <1>4, <2>1, <2>2, <2>3
<1> USE <1>5
<1>6. CASE UNCHANGED rec
  <2> USE <1>6
  <2>1. Command' /\ Stage'
    OBVIOUS
  <2> QED
    BY <2>1, CommandStep
<1>7. CASE Replace(MarkStandaloneNativeRecovery(rec))
  <2> rec' = MarkStandaloneNativeRecovery(rec) /\ Valid(rec')
    BY <1>7, Written
  <2> Kept(rec, rec', {"nativeRecovery"})
    BY MarkNativeFields DEF MarkNativeChange
  <2>3. rec'.selected = rec.selected
    BY FieldNames DEF Kept, SameExcept, WellFormed
  <2>4. Command' /\ Stage'
    BY <2>3
  <2>5. {"nativeRecovery"} \cap Watched = {}
    BY DEF Watched, Aside
  <2> QED
    BY <2>4, <2>5, UnwatchedStep
<1> QED
  BY <1>6, <1>7

\* An unproven outcome is marked.
LEMMA MarkResolutionStep ==
  ASSUME IInv, MarkResolution
  PROVE  IInv'
<1> USE Zenon
<1> /\ UNCHANGED <<context, local, pkg, home, kids, boot, relay>> /\ At("mark")
    /\ CanMarkRemovalExecutionResolution(rec, cmd.why, cmd.flag)
    /\ Write(MarkRemovalExecutionResolution(rec, cmd.why, cmd.flag))
    /\ Goto("park")
  BY DEF MarkResolution, world
<1> rec' = MarkRemovalExecutionResolution(rec, cmd.why, cmd.flag) /\ Valid(rec')
  BY Written
<1> WellFormed(rec) /\ Coherent(rec) /\ Command
  BY JournalCoherent DEF IInv
<1> Exists(rec) /\ cmd.why # ""
  BY JournalCoherent, NoRecordShape DEF IInv,
     CanMarkRemovalExecutionResolution, ValidResolutionForKind
<1>5. ~local
  BY NotLocal DEF At
<1> kids' = {} /\ (cmd.why = "pre_start_routing_changed" /\ rec.active.kind = "trash" => InPlace)
  BY DEF IInv, Stage, Launching
<1> DEFINE F == {"resolution", "requires"}
<1>7. SameExcept(rec, rec', F)
  BY DEF WellFormed, MarkRemovalExecutionResolution, SameExcept
<1> rec'.resolution = cmd.why
  BY FieldNames DEF WellFormed, MarkRemovalExecutionResolution
<1>9. rec' = [f \in Fields |-> rec'[f]]
  BY DEF WellFormed, MarkRemovalExecutionResolution
<1> Kept(rec, rec', F)
  BY <1>7, <1>9, KeptShape
<1> /\ rec'.active = rec.active /\ rec'.operationRetry = rec.operationRetry
    /\ rec'.selected = rec.selected /\ rec'.phase = rec.phase /\ rec'.outcome = rec.outcome
  BY FieldNames DEF Kept, SameExcept, WellFormed
<1>12. Untouched'
  BY DEF IInv, Untouched, InPlace
<1>13. OutcomeTrue' /\ (rec'.phase = "data_outcome" /\ rec'.outcome = "completed" => Moved')
  BY DEF IInv, JournalTruthful, OutcomeTrue, Outcomes, Moved
<1>14. F \cap Aside = {}
  BY DEF Aside
<1> HIDE DEF F
<1> Command' /\ cmd'.pc = "park"
  BY GotoFields
<1>16. Resolving'
  BY DEF Resolving, At
<1>17. Stage'
  BY <1>5, <1>16, StageParts DEF Stage
<1> QED
  BY <1>12, <1>13, <1>14, <1>17, PlainStep

\* The park of a marked resolution.
LEMMA ParkMarkedStep ==
  ASSUME IInv, ParkMarked
  PROVE  IInv'
<1> USE Zenon
<1> /\ UNCHANGED <<context, local, pkg, home, kids, boot, relay>> /\ At("park") /\ Goto("clear")
    /\ \/ ~rec.requires /\ UNCHANGED rec
       \/ rec.requires /\ Integrated /\ parked' = TRUE /\ UNCHANGED rec
       \/ ~Integrated /\ Replace(MarkStandaloneNativeRecovery(rec))
  BY DEF ParkMarked, world
<1> ~local /\ rec.resolution # ""
  BY NotLocal DEF At, IInv, Stage, Resolving
<1> WellFormed(rec) /\ Command
  BY JournalCoherent DEF IInv
<1> Command' /\ cmd'.pc = "clear"
  BY GotoFields
<1>5. CASE UNCHANGED rec /\ (~rec.requires \/ (Integrated /\ parked' = TRUE))
  <2> USE <1>5
  <2>1. Resolving'
    BY DEF Resolving, At, Integrated
  <2>2. Stage'
    BY <2>1, StageParts DEF Stage
  <2> QED
    BY <2>2, CommandStep
<1>6. CASE ~Integrated /\ Replace(MarkStandaloneNativeRecovery(rec))
  <2> USE <1>6
  <2> rec' = MarkStandaloneNativeRecovery(rec) /\ Valid(rec')
    BY Written
  <2> Kept(rec, rec', {"nativeRecovery"}) /\ rec'.nativeRecovery = TRUE
    BY MarkNativeFields DEF MarkNativeChange
  <2>3. rec'.resolution = rec.resolution
    BY FieldNames DEF Kept, SameExcept, WellFormed
  <2>4. Resolving'
    BY <2>3 DEF Resolving, Integrated
  <2>5. Stage'
    BY <2>4, StageParts DEF Stage
  <2>6. {"nativeRecovery"} \cap Watched = {}
    BY DEF Watched, Aside
  <2> QED
    BY <2>5, <2>6, UnwatchedStep
<1> QED
  BY <1>5, <1>6

\* A marked resolution is applied and its witness cleared.
LEMMA ResolveMarkedStep ==
  ASSUME IInv, ResolveMarked
  PROVE  IInv'
<1> USE FieldNames, UntouchedKept, Zenon
<1> /\ UNCHANGED <<context, local, pkg, home, kids, boot, relay>> /\ At("clear") /\ Done
    /\ Write(ResolvedRemovalExecutionRecord(rec))
  BY DEF ResolveMarked, world
<1> rec' = ResolvedRemovalExecutionRecord(rec) /\ Valid(rec')
  BY Written
<1> WellFormed(rec) /\ Coherent(rec)
  BY JournalCoherent DEF IInv
<1> rec.resolution # ""
  BY DEF IInv, Stage, Resolving
<1> Exists(rec) /\ rec.active.kind \in Kinds /\ ~rec.finalizing
    /\ ValidResolutionForKind(rec.active.kind, rec.resolution)
  BY JournalCoherent, NoRecordShape DEF IInv, Coherent
<1> kids' = {}
  BY NoChild DEF IInv
<1> Command' /\ Stage'
  BY DoneFields
<1> NoExecution.kind = "none"
  BY DEF NoExecution
<1> rec.verified # "opencodex"
  BY DEF IInv, Outcomes
<1>10. CASE rec.resolution = "trash_receipt_invalid"
  <2> /\ Kept(rec, rec', {"active", "resolution", "requires", "recoveryPending", "retired",
                      "locked", "phase", "outcome", "moved", "operationRetry", "packageRetry"})
      /\ rec'.active = NoExecution /\ rec'.phase = "refresh" /\ rec'.operationRetry = FALSE
      /\ Retiring(rec, rec')
    BY <1>10, ResolvedTrashFields DEF ResolvedTrashChange
  <2> /\ WellFormed(rec') /\ rec'.context = rec.context /\ rec'.selected = rec.selected
      /\ rec'.verified = rec.verified /\ rec'.teardownDone = rec.teardownDone
      /\ rec'.finalizing = rec.finalizing
    BY DEF Kept, SameExcept, WellFormed
  <2>3. MovedAccounted' /\ OutcomeTrue'
    BY DEF IInv, JournalTruthful, MovedAccounted, OutcomeTrue, Retiring
  <2>4. Untouched'
    BY DEF IInv
  <2> QED
    BY <2>3, <2>4, JournalStep
<1>11. CASE rec.resolution # "trash_receipt_invalid" /\ rec.active.kind = "package"
  <2> USE <1>11
  <2> /\ Kept(rec, rec', {"active", "resolution", "requires", "recoveryPending", "phase",
                      "bootSession", "reconciled", "packageRetry", "released",
                      "finalizing"})
      /\ rec'.active = NoExecution /\ rec'.phase = "pending" /\ rec'.finalizing = FALSE
    BY ResolvedPackageFields DEF ResolvedPackageChange
  <2> /\ WellFormed(rec') /\ rec'.context = rec.context /\ rec'.selected = rec.selected
      /\ rec'.verified = rec.verified /\ rec'.teardownDone = rec.teardownDone
      /\ rec'.retired = rec.retired /\ rec'.locked = rec.locked
      /\ rec'.operationRetry = rec.operationRetry
    BY DEF Kept, SameExcept, WellFormed
  <2>3. rec.phase = "in_flight"
    BY DEF Coherent
  <2>4. MovedAccounted' /\ OutcomeTrue'
    BY <2>3 DEF IInv, JournalTruthful, MovedAccounted, OutcomeTrue
  <2>5. Untouched'
    BY DEF IInv
  <2> QED
    BY <2>4, <2>5, JournalStep
<1>12. CASE rec.resolution # "trash_receipt_invalid" /\ rec.active.kind # "package"
  <2> USE <1>12
  <2> DEFINE F == {"active", "resolution", "requires", "recoveryPending", "phase",
                   "operationRetry", "packageRetry"}
  <2> Kept(rec, rec', F) /\ rec'.active = NoExecution /\ rec'.phase = "intent"
    BY ResolvedRetryFields DEF ResolvedRetryChange
  <2>2. rec'.selected = rec.selected
    BY DEF Kept, SameExcept, WellFormed
  <2>3. InPlace
    BY DEF IInv, Untouched, ValidResolutionForKind, Kinds
  <2>4. Untouched'
    BY <2>2, <2>3 DEF IInv
  <2>5. OutcomeTrue' /\ rec'.phase # "data_outcome"
    BY DEF OutcomeTrue
  <2>6. F \cap Aside = {}
    BY DEF Aside
  <2> HIDE DEF F
  <2> QED
    BY <2>4, <2>5, <2>6, PlainStep
<1> QED
  BY <1>10, <1>11, <1>12

\* The finalization witness is armed.
LEMMA AllowFinalizationStep ==
  ASSUME IInv, AllowFinalization
  PROVE  IInv'
<1> USE Zenon
<1> UNCHANGED <<context, local, pkg, home, kids, boot, relay>> /\ At("release")
  BY DEF AllowFinalization, world
<1> ~local
  BY NotLocal DEF At
<1>3. CASE UNCHANGED rec /\ (Done \/ Recovering("idle"))
  BY <1>3, StoppedStep
<1>4. CASE /\ VerifyAbsent /\ CanReleaseForFinalization(rec)
           /\ Write(ReleaseRemovalRoutingGateForFinalization(rec))
           /\ Goto("profile") \/ Goto("emit")
  <2> USE <1>4
  <2> rec' = ReleaseRemovalRoutingGateForFinalization(rec) /\ Valid(rec')
    BY Written
  <2> WellFormed(rec) /\ Coherent(rec) /\ Command
    BY JournalCoherent DEF IInv
  <2> Exists(rec) /\ ~Active(rec) /\ rec.phase = "verified" /\ pkg = "absent"
    BY DEF CanReleaseForFinalization, Quiet, VerifyAbsent
  <2>4. kids' = {}
    BY NoChild DEF IInv
  <2> Kept(rec, rec', {"released", "finalizing"}) /\ rec'.finalizing = TRUE
    BY FinalizationFields DEF FinalizationChange
  <2> /\ WellFormed(rec') /\ rec'.context = rec.context /\ rec'.selected = rec.selected
      /\ rec'.verified = rec.verified /\ rec'.teardownDone = rec.teardownDone
      /\ rec'.retired = rec.retired /\ rec'.locked = rec.locked
      /\ rec'.operationRetry = rec.operationRetry /\ rec'.active = rec.active
      /\ rec'.phase = rec.phase
    BY FieldNames DEF Kept, SameExcept, WellFormed
  <2>7. MovedAccounted' /\ OutcomeTrue' /\ rec'.phase # "data_outcome"
    BY DEF IInv, JournalTruthful, MovedAccounted, OutcomeTrue
  <2>8. Untouched'
    BY UntouchedKept DEF IInv, Active
  <2>9. rec'.verified # "opencodex"
    BY DEF IInv, Outcomes
  <2> Command' /\ cmd'.pc \in {"profile", "emit"}
    BY GotoFields
  <2>11. Finalizing'
    BY DEF Finalizing, At
  <2>12. Stage'
    BY <2>11, StageParts DEF Stage
  <2> QED
    BY <2>4, <2>7, <2>8, <2>9, <2>12, JournalStep
<1> QED
  BY <1>3, <1>4 DEF AllowFinalization

\* The gate is released by a routing recovery.
LEMMA ReleaseGateStep ==
  ASSUME IInv, ReleaseRecoveredRemovalRoutingToken
  PROVE  IInv'
<1> USE Zenon
<1> /\ UNCHANGED <<context, local, pkg, home, kids, boot, relay>> /\ Done
    /\ UNCHANGED rec \/ Write(ReleaseRemovalRoutingGateForRecovery(rec))
  BY DEF ReleaseRecoveredRemovalRoutingToken, world
<1>2. CASE UNCHANGED rec
  BY <1>2, DoneStep
<1>3. CASE Write(ReleaseRemovalRoutingGateForRecovery(rec))
  <2> rec' = ReleaseRemovalRoutingGateForRecovery(rec) /\ Valid(rec')
    BY <1>3, Written
  <2> WellFormed(rec)
    BY JournalCoherent DEF IInv
  <2>3. Kept(rec, rec', {"recoveryPending", "released"})
    <3>1. CASE rec.recoveryPending
      <4>1. Kept(rec, rec', {"recoveryPending"})
        BY <3>1, RecoveryReleaseFields DEF RecoveryReleaseChange
      <4> QED
        BY <4>1 DEF Kept, SameExcept
    <3>2. CASE ~rec.recoveryPending
      <4>1. Kept(rec, rec', {"released"})
        BY <3>2, VerifiedReleaseFields DEF VerifiedReleaseChange
      <4> QED
        BY <4>1 DEF Kept, SameExcept
    <3> QED
      BY <3>1, <3>2
  <2>4. {"recoveryPending", "released"} \cap Watched = {}
    BY DEF Watched, Aside
  <2>5. Command' /\ Stage'
    BY DoneFields
  <2> QED
    BY <2>3, <2>4, <2>5, UnwatchedStep
<1> QED
  BY <1>2, <1>3

-----------------------------------------------------------------------------
(* The invariant. *)

\* An installed package and no journal.
LEMMA InitInvariant == Init => IInv
<1> SUFFICES ASSUME Init PROVE IInv
  OBVIOUS
<1> /\ rec = NoRecord /\ ~local /\ pkg = "present" /\ home = Items /\ kids = {} /\ boot = 1
    /\ context \in {"integrated", "standalone"} /\ relay \in {RelayAssets, {}}
    /\ (~Integrated => relay = {}) /\ cmd = Idle
  BY DEF Init
<1>2. Types
  <2>1. boot \in Nat \ {0}
    OBVIOUS
  <2>2. home \subseteq Items /\ relay \subseteq RelayAssets
    BY Zenon
  <2> QED
    BY <2>1, <2>2, Zenon DEF Types
<1> Command /\ cmd.pc = "idle"
  BY IdleCommand, Zenon DEF Command
<1>4. Journal
  BY NoRecordShape, Zenon DEF Journal
<1>5. Children
  BY Zenon DEF Children
<1>6. rec.active.kind = "none"
  BY NoRecordShape, Zenon DEF Active
<1>7. Untouched /\ Outcomes
  BY <1>6, NoRecordShape, Zenon DEF Untouched, Outcomes
<1>8. Stage
  BY Zenon DEF Stage, OffLocal, Preparing, Launching, Recording, Resolving,
     Finalizing, Handing, At
<1>9. JournalTruthful
  BY NoRecordShape, Zenon DEF JournalTruthful, MovedAccounted, OutcomeTrue,
     BoundaryProven, Exists
<1>10. RemovalWhole
  BY NoRecordShape, Zenon DEF RemovalWhole, LocalHeldOff, RelayAssets
<1> QED
  BY <1>2, <1>4, <1>5, <1>7, <1>8, <1>9, <1>10 DEF IInv

\* Every invocation.
LEMMA InvokeStep ==
  ASSUME IInv, Invoke
  PROVE  IInv'
<1> USE Zenon
<1>1. CASE \E m \in Requests : Supersede(m)
  BY <1>1, SupersedeStep
<1>2. CASE ResumeIntent \/ ResumePackage \/ ResumeVerified \/ ResumeMarked
  BY <1>2, ResumeIntentStep, ResumePackageStep, ResumeMarkedStep
<1>3. CASE MarkRefresh \/ AdvanceOutcome
  BY <1>3, RefreshStep, AdvanceOutcomeStep
<1>4. CASE ReconcileAfterBoot \/ ReconcileStandaloneAfterBoot \/ ReconcileStandaloneRecovery
  BY <1>4, ReconcileBootStep, ReconcileRecoveryStep
<1>5. CASE AcknowledgeTerminal
  BY <1>5, AcknowledgeStep
<1>6. CASE ModeRecover \/ PrepareRemovalRoutingRecovery
  BY <1>6, RoutingCommandStep
<1> QED
  BY <1>1, <1>2, <1>3, <1>4, <1>5, <1>6 DEF Invoke

\* Every step of a command.
LEMMA AdvanceStep ==
  ASSUME IInv, Advance
  PROVE  IInv'
<1> USE Zenon
<1>1. CASE PrepareOperation \/ (\E k \in Kinds : BeginChild(k))
  BY <1>1, PrepareOperationStep, BeginChildStep
<1>2. CASE PreparePackageRemoval \/ BeginPackage
  BY <1>2, PreparePackageStep, BeginPackageStep
<1>3. CASE RefuseRouting \/ LaunchChild
  BY <1>3, LaunchRefusedStep, LaunchChildStep
<1>4. CASE TeardownCompleted \/ TrashFinished("completed") \/ PackageFinished(TRUE)
  BY <1>4, TeardownCompletedStep, TrashFinishedStep, PackageFinishedStep DEF DataOutcomes
<1>5. CASE RecordDataOutcome \/ MarkDataRefresh \/ VerifyRemoved
  BY <1>5, RecordOutcomeStep, RefreshStep, EndingStep
<1>6. CASE RequireRoutingRecovery \/ MarkResolution \/ ParkMarked \/ ResolveMarked
  BY <1>6, RequireRecoveryStep, MarkResolutionStep, ParkMarkedStep,
     ResolveMarkedStep
<1>7. CASE AllowFinalization \/ FinalizeRelay \/ EmitTerminalReceipt
  BY <1>7, AllowFinalizationStep, FinalizeRelayStep, EndingStep
<1>8. CASE ExecuteRemovalRoutingRecovery \/ ReleaseRecoveredRemovalRoutingToken
  BY <1>8, RoutingCommandStep, ReleaseGateStep
<1>9. CASE HandoffProfile \/ HandoffRecord
  BY <1>9, HandoffProfileStep, HandoffRecordStep
<1> QED
  BY <1>1, <1>2, <1>3, <1>4, <1>5, <1>6, <1>7, <1>8, <1>9 DEF Advance

\* Every failure.
LEMMA FailStep ==
  ASSUME IInv, Fail
  PROVE  IInv'
<1> USE Zenon
<1>1. CASE RefuseCandidate \/ LaunchFailed
  BY <1>1, RefuseCandidateStep, LaunchRefusedStep
<1>2. CASE \E k \in Kinds : ChildFailed(k) \/ ReceiptInvalid(k)
  BY <1>2, ChildFailedStep, ReceiptInvalidStep
<1>3. CASE ChildUnproven \/ TeardownRefused
  BY <1>3, ChildUnprovenStep, ChildFailedStep
<1>4. CASE \E s \in DataOutcomes \ {"completed"} : TrashFinished(s)
  BY <1>4, TrashFinishedStep
<1>5. CASE PackageFinished(FALSE)
  BY <1>5, PackageFinishedStep
<1>6. CASE EditBoundary \/ HandoffRefused \/ OutcomeWriteFails \/ Crash
  BY <1>6, BoundaryStep, HandoffStep, EndingStep
<1> QED
  BY <1>1, <1>2, <1>3, <1>4, <1>5, <1>6 DEF Fail

\* Every step.
LEMMA NextInvariant ==
  ASSUME IInv, [Next]_vars
  PROVE  IInv'
<1> USE Zenon
<1>1. CASE Invoke \/ Advance \/ Fail
  BY <1>1, InvokeStep, AdvanceStep, FailStep
<1>2. CASE Reboot \/ SwitchBackend \/ RestoreBoundary
  BY <1>2, RebootStep, SwitchBackendStep, BoundaryStep
<1>3. CASE StartHandoff \/ \E m \in Requests : StartRemoval(m)
  BY <1>3, HandoffStep, StartRemovalStep
<1>4. CASE \E k \in kids : Teardown(k) \/ Trash(k) \/ Uninstall(k) \/ ChildExit(k)
  BY <1>4, BoundaryStep, TrashStep, UninstallStep, ChildExitStep
<1>5. CASE UNCHANGED vars
  <2> UNCHANGED <<context, rec, parked, local, pkg, home, kids, boot, relay, cmd>>
    BY <1>5 DEF vars
  <2>2. Command' /\ Stage'
    BY BesideStage DEF IInv, Command
  <2> QED
    BY <2>2, CommandStep
<1> QED
  BY <1>1, <1>2, <1>3, <1>4, <1>5 DEF Next

\* The invariant holds in every reachable state.
THEOREM RemovalInvariant == Spec => []IInv
<1>1. IInv /\ [Next]_vars => IInv'
  BY NextInvariant
<1> QED
  BY <1>1, InitInvariant, PTL DEF Spec

\* A mutating child that may be alive is always the execution the journal
\* names, of this boot, whatever crashed or rebooted (BeginExecution,
\* FinishExecution and the reaping of runNPM).
THEOREM ChildrenWitnessed == Spec => []LiveChildWitnessed
<1>1. IInv => LiveChildWitnessed
  BY Zenon DEF IInv, Children, Named, LiveChildWitnessed
<1> QED
  BY <1>1, RemovalInvariant, PTL

\* What the journal says of the data and of the boundary is true of the disk
\* in every reachable state.
THEOREM JournalIsTruthful == Spec => []JournalTruthful
<1>1. IInv => JournalTruthful
  BY DEF IInv
<1> QED
  BY <1>1, RemovalInvariant, PTL

\* A removal whose journal is gone is whole, and until it is the local
\* OpenCodex is kept out of service.
THEOREM RemovalIsWhole == Spec => []RemovalWhole
<1>1. IInv => RemovalWhole
  BY DEF IInv
<1> QED
  BY <1>1, RemovalInvariant, PTL

-----------------------------------------------------------------------------
(* Action properties. *)

\* Only the launch of a command adds a child.
LEMMA OnlyLaunchStarts ==
  ASSUME [Next]_vars, ~LaunchChild
  PROVE  kids' \subseteq kids
<1> USE Zenon
<1>1. CASE Invoke
  BY <1>1 DEF Invoke, Supersede, ResumeIntent, MarkRefresh, AdvanceOutcome,
     ResumePackage, ResumeVerified, ResumeMarked, ReconcileAfterBoot,
     ReconcileStandaloneAfterBoot, ReconcileStandaloneRecovery,
     AcknowledgeTerminal, ModeRecover, PrepareRemovalRoutingRecovery
<1>2. CASE Advance
  <2>1. CASE \/ PrepareOperation \/ (\E k \in Kinds : BeginChild(k)) \/ PreparePackageRemoval
             \/ BeginPackage \/ RefuseRouting
    BY <2>1 DEF PrepareOperation, BeginChild, PreparePackageRemoval,
       BeginPackage, RefuseRouting
  <2>2. CASE TeardownCompleted \/ TrashFinished("completed") \/ PackageFinished(TRUE)
    <3>1. Reap
      BY <2>2 DEF TeardownCompleted, TrashFinished, PackageFinished
    <3> QED
      BY <3>1 DEF Reap
  <2>3. CASE \/ RecordDataOutcome \/ MarkDataRefresh \/ VerifyRemoved \/ RequireRoutingRecovery
             \/ MarkResolution \/ ParkMarked \/ ResolveMarked
    BY <2>3 DEF RecordDataOutcome, MarkDataRefresh, VerifyRemoved,
       RequireRoutingRecovery, MarkResolution, ParkMarked, ResolveMarked
  <2>4. CASE \/ AllowFinalization \/ FinalizeRelay \/ EmitTerminalReceipt
             \/ ExecuteRemovalRoutingRecovery \/ ReleaseRecoveredRemovalRoutingToken
             \/ HandoffProfile \/ HandoffRecord
    BY <2>4 DEF AllowFinalization, FinalizeRelay, EmitTerminalReceipt,
       ExecuteRemovalRoutingRecovery, ReleaseRecoveredRemovalRoutingToken,
       HandoffProfile, HandoffRecord
  <2> QED
    BY <1>2, <2>1, <2>2, <2>3, <2>4 DEF Advance
<1>3. CASE Fail
  <2>1. CASE \/ RefuseCandidate \/ LaunchFailed \/ ChildUnproven \/ EditBoundary
             \/ HandoffRefused \/ OutcomeWriteFails \/ Crash
    BY <2>1 DEF RefuseCandidate, LaunchFailed, ChildUnproven, EditBoundary,
       HandoffRefused, OutcomeWriteFails, Crash
  <2>2. CASE \/ (\E k \in Kinds : ChildFailed(k) \/ ReceiptInvalid(k)) \/ TeardownRefused
             \/ (\E s \in DataOutcomes \ {"completed"} : TrashFinished(s)) \/ PackageFinished(FALSE)
    <3>1. Reap
      BY <2>2 DEF ChildFailed, ReceiptInvalid, TeardownRefused,
         TrashFinished, PackageFinished
    <3> QED
      BY <3>1 DEF Reap
  <2> QED
    BY <1>3, <2>1, <2>2 DEF Fail
<1>4. CASE Reboot \/ SwitchBackend \/ RestoreBoundary \/ StartHandoff
           \/ \E m \in Requests : StartRemoval(m)
  BY <1>4 DEF Reboot, SwitchBackend, RestoreBoundary, StartHandoff,
     StartRemoval
<1>5. CASE \E k \in kids : Teardown(k) \/ Trash(k) \/ Uninstall(k) \/ ChildExit(k)
  BY <1>5 DEF Teardown, Trash, Uninstall, ChildExit
<1>6. CASE UNCHANGED vars
  BY <1>6 DEF vars
<1> QED
  BY <1>1, <1>2, <1>3, <1>4, <1>5, <1>6 DEF Next

\* A Trash child is started only on items that are all still in place: the
\* command that launches it holds a record armed on such a selection
\* (beginMutation and the refresh of an ambiguous outcome).
THEOREM ItemsMovedOnce == Spec => NeverMovedTwice
<1> USE Zenon
<1>1. ASSUME IInv, [Next]_vars
      PROVE  \A k \in kids' \ kids : k.kind = "trash" => k.items \subseteq home
  <2> USE <1>1
  <2>1. CASE ~LaunchChild
    BY <2>1, OnlyLaunchStarts
  <2>2. CASE LaunchChild
    <3> DEFINE c == [kind |-> rec.active.kind, attempt |-> rec.attempt,
                     items |-> IF rec.active.kind = "trash" THEN rec.selected ELSE {}]
    <3> kids' = kids \cup {c} /\ At("launch")
      BY <2>2 DEF LaunchChild
    <3>2. rec.active.kind = "trash" => rec.selected \subseteq home
      BY DEF IInv, Stage, Launching, InPlace
    <3>3. c.kind = "trash" => c.items \subseteq home
      BY <3>2
    <3> HIDE DEF c
    <3> QED
      BY <3>3
  <2> QED
    BY <2>1, <2>2
<1>2. IInv /\ [Next]_vars =>
        [\A k \in kids' \ kids : k.kind = "trash" => k.items \subseteq home]_vars
  BY <1>1
<1> QED
  BY <1>2, RemovalInvariant, PTL DEF Spec, NeverMovedTwice

\* A record whose resolution requires recovery is an execution no other step
\* of the command may write over.
LEMMA RequiringRecord ==
  ASSUME IInv, rec.requires
  PROVE  /\ Exists(rec) /\ rec.resolution # "" /\ Active(rec) /\ ~Quiet(rec) /\ ~rec.finalizing
         /\ rec.phase \notin {"data_outcome", "refresh"}
         /\ ~At("prepare") /\ ~At("refresh") /\ ~At("journal")
<1> USE Zenon
<1> WellFormed(rec) /\ Coherent(rec)
  BY JournalCoherent DEF IInv
<1>2. Exists(rec)
  BY JournalCoherent, NoRecordShape DEF IInv
<1> rec.resolution # "" /\ Active(rec) /\ rec.active.kind \in Kinds
  BY DEF Coherent
<1> ~rec.finalizing /\ rec.phase \notin {"data_outcome", "refresh"}
  BY DEF Coherent, Kinds
<1>5. ~At("prepare") /\ ~At("refresh") /\ ~At("journal")
  BY DEF IInv, Stage, Preparing, Recording, Finalizing
<1> QED
  BY <1>2, <1>5 DEF Quiet

\* Only the resolution of the mark clears it.
LEMMA OnlyResolveClears ==
  ASSUME IInv, [Next]_vars, rec.requires, ~ResolveMarked
  PROVE  rec'.requires
<1> USE FieldNames, Zenon
<1> /\ Exists(rec) /\ rec.resolution # "" /\ Active(rec) /\ ~Quiet(rec) /\ ~rec.finalizing
    /\ rec.phase \notin {"data_outcome", "refresh"}
    /\ ~At("prepare") /\ ~At("refresh") /\ ~At("journal")
  BY RequiringRecord
<1> WellFormed(rec)
  BY JournalCoherent DEF IInv
<1>3. CASE UNCHANGED rec
  BY <1>3
<1> USE <1>3
<1>4. ASSUME NEW started, NEW clean, Finish(started, clean)
      PROVE  FALSE
  BY <1>4 DEF Finish, CanFinishExecution
<1> USE <1>4
<1>5. CASE Invoke
  <2>1. UNCHANGED rec
    <3>1. CASE \E m \in Requests : Supersede(m)
      BY <3>1 DEF Supersede, CanSupersedeRemovalDataRefresh
    <3>2. CASE ResumeIntent \/ ResumePackage \/ ResumeVerified \/ ResumeMarked
      BY <3>2 DEF ResumeIntent, ResumePackage, ResumeVerified, ResumeMarked
    <3>3. CASE MarkRefresh \/ AdvanceOutcome
      BY <3>3 DEF MarkRefresh, AdvanceOutcome,
         CanMarkRemovalDataRefreshRequired, CanAdvanceRemovalDataOutcome
    <3>4. CASE ReconcileAfterBoot \/ ReconcileStandaloneAfterBoot \/ ReconcileStandaloneRecovery
      BY <3>4 DEF ReconcileAfterBoot, ReconcileStandaloneAfterBoot,
         ReconcileStandaloneRecovery, CanReconcileActiveExecution
    <3>5. CASE AcknowledgeTerminal
      BY <3>5 DEF AcknowledgeTerminal, StandaloneTerminalRemovalReplayReady,
         RemovalFinalizationAdmission
    <3>6. CASE ModeRecover \/ PrepareRemovalRoutingRecovery
      BY <3>6 DEF ModeRecover, PrepareRemovalRoutingRecovery
    <3> QED
      BY <1>5, <3>1, <3>2, <3>3, <3>4, <3>5, <3>6 DEF Invoke
  <2> QED
    BY <2>1
<1>6. CASE Advance
  <2>1. CASE PrepareOperation \/ (\E k \in Kinds : BeginChild(k)) \/ PreparePackageRemoval
             \/ BeginPackage \/ RefuseRouting \/ LaunchChild
    <3>1. UNCHANGED rec
      BY <2>1 DEF PrepareOperation, BeginChild, PreparePackageRemoval,
         BeginPackage, RefuseRouting, LaunchChild, CanBeginExecution,
         CanPrepareRemovalPackageCleanup
    <3> QED
      BY <3>1
  <2>2. CASE TeardownCompleted \/ TrashFinished("completed") \/ PackageFinished(TRUE)
    <3>1. UNCHANGED rec
      BY <2>2 DEF TeardownCompleted, TrashFinished, PackageFinished,
         CanCompleteStandaloneTeardown
    <3> QED
      BY <3>1
  <2>3. CASE RecordDataOutcome \/ MarkDataRefresh \/ VerifyRemoved \/ MarkResolution
             \/ AllowFinalization
    <3>1. UNCHANGED rec
      BY <2>3 DEF RecordDataOutcome, MarkDataRefresh, VerifyRemoved,
         MarkResolution, AllowFinalization, CanRecordRemovalDataOutcome,
         CanMarkRemovalExecutionResolution, CanReleaseForFinalization
    <3> QED
      BY <3>1
  <2>4. CASE RequireRoutingRecovery \/ ParkMarked
    <3>1. CASE Replace(MarkStandaloneNativeRecovery(rec))
      <4>1. rec' = MarkStandaloneNativeRecovery(rec)
        BY <3>1, Written
      <4>2. Kept(rec, rec', {"nativeRecovery"})
        BY <4>1, MarkNativeFields DEF MarkNativeChange
      <4> QED
        BY <4>2 DEF Kept, SameExcept, WellFormed
    <3> QED
      BY <2>4, <3>1 DEF RequireRoutingRecovery, ParkMarked
  <2>5. CASE FinalizeRelay \/ EmitTerminalReceipt \/ ExecuteRemovalRoutingRecovery
             \/ HandoffProfile \/ HandoffRecord
    <3>1. UNCHANGED rec
      BY <2>5 DEF FinalizeRelay, EmitTerminalReceipt,
         ExecuteRemovalRoutingRecovery, HandoffProfile, HandoffRecord
    <3> QED
      BY <3>1
  <2>6. CASE ReleaseRecoveredRemovalRoutingToken
    <3>1. CASE Write(ReleaseRemovalRoutingGateForRecovery(rec))
      <4> rec' = ReleaseRemovalRoutingGateForRecovery(rec)
        BY <3>1, Written
      <4>2. CASE rec.recoveryPending
        <5>1. Kept(rec, rec', {"recoveryPending"})
          BY <4>2, RecoveryReleaseFields DEF RecoveryReleaseChange
        <5> QED
          BY <5>1 DEF Kept, SameExcept, WellFormed
      <4>3. CASE ~rec.recoveryPending
        <5>1. Kept(rec, rec', {"released"})
          BY <4>3, VerifiedReleaseFields DEF VerifiedReleaseChange
        <5> QED
          BY <5>1 DEF Kept, SameExcept, WellFormed
      <4> QED
        BY <4>2, <4>3
    <3> QED
      BY <2>6, <3>1 DEF ReleaseRecoveredRemovalRoutingToken
  <2> QED
    BY <1>6, <2>1, <2>2, <2>3, <2>4, <2>5, <2>6 DEF Advance
<1>7. CASE Fail
  <2>1. UNCHANGED rec
    BY <1>7 DEF Fail, RefuseCandidate, LaunchFailed, ChildUnproven,
       EditBoundary, HandoffRefused, OutcomeWriteFails, Crash, ChildFailed, ReceiptInvalid,
       TeardownRefused, TrashFinished, PackageFinished
  <2> QED
    BY <2>1
<1>8. CASE Reboot \/ SwitchBackend \/ RestoreBoundary \/ StartHandoff
           \/ \E m \in Requests : StartRemoval(m)
  <2>1. UNCHANGED rec
    BY <1>8 DEF Reboot, SwitchBackend, RestoreBoundary, StartHandoff,
       StartRemoval
  <2> QED
    BY <2>1
<1>9. CASE \E k \in kids : Teardown(k) \/ Trash(k) \/ Uninstall(k) \/ ChildExit(k)
  <2>1. UNCHANGED rec
    BY <1>9 DEF Teardown, Trash, Uninstall, ChildExit
  <2> QED
    BY <2>1
<1>10. CASE UNCHANGED vars
  BY <1>10 DEF vars
<1> QED
  BY <1>5, <1>6, <1>7, <1>8, <1>9, <1>10 DEF Next

\* The witness of a result that requires recovery is cleared only after the
\* recovery is durable, whatever crash or reboot came between
\* (resolveMarkedExecution parks first).
THEOREM ClearedAfterPark == Spec => ParkedBeforeCleared
<1>1. ASSUME IInv, [Next]_vars, rec.requires, ~rec'.requires
      PROVE  IF Integrated THEN parked ELSE rec.nativeRecovery
  <2> USE <1>1
  <2>1. ResolveMarked
    BY OnlyResolveClears
  <2>2. At("clear")
    BY <2>1, Zenon DEF ResolveMarked
  <2> QED
    BY <2>2, Zenon DEF IInv, Stage, Resolving
<1>2. IInv /\ [Next]_vars =>
        [rec.requires /\ ~rec'.requires => IF Integrated THEN parked ELSE rec.nativeRecovery]_vars
  BY <1>1
<1> QED
  BY <1>2, RemovalInvariant, PTL DEF Spec, ParkedBeforeCleared

=============================================================================
