-------------------------- MODULE ProjectQuotaProofs --------------------------
(***************************************************************************)
(* Proofs that no two runs are charged to one project, that a running      *)
(* command has the limits it asked for and that every limit and every tree *)
(* has a manifest, for any coordinators, runs, projects, limits and        *)
(* faults.                                                                 *)
(***************************************************************************)
EXTENDS ProjectQuota, TLAPS

------------------------------------------------------------------------------
(* The invariant *)

\* The steps of rollback, of prepare with its rollback, of cleanup, and of all
\* that a broker does for a run.
Undoing == {"undo_tree", "undo_limit", "undo_manifest"}
Installing == {"create", "identify", "limit", "assign", "verify"} \cup Undoing
Removing == {"mark", "remove", "wait", "clear", "unlist"}
Work == Preparing \cup RollingBack \cup Cleaning

\* The steps that are made under the lock of the mount.
Locked == {"allocate"} \cup Installing \cup Removing

\* The broker of r is at one of the steps S for r.
On(r, S) == pc[SpoolOf[r]].run = r /\ pc[SpoolOf[r]].at \in S

\* Nothing was done for r yet.
Fresh(r) == manifest[r] = NoManifest /\ tree[r] = None /\ open[r] = None /\ row[r].handle = None

\* No other run is charged to p.
Alone(r, p) == \A q \in Runs \ {r} : p \notin ChargedTo(q)

\* A run has the state that the broker's step says.
RowInv(r) ==
    /\ row[r].status = "queued" => Fresh(r) /\ r \notin live
    /\ On(r, Work) => row[r].status = "running" /\ r \notin live
    /\ On(r, {"lock", "allocate"}) => Fresh(r)
    /\ On(r, {"save", "expose"}) => Listed(r)
    /\ On(r, {"expose", "enter"} \cup Removing) => row[r].handle # None

\* What a run is charged to is in its manifest, and its handle names that.
ChargeInv(r) ==
    /\ tree[r] \in Projects => tree[r] = manifest[r].project
    /\ tree[r] # None \/ open[r] # None => Listed(r)
    /\ open[r] # None => open[r] = manifest[r].project
    /\ row[r].handle # None /\ Listed(r) => row[r].handle = manifest[r].project

\* Whoever works on the mount has its lock.
LockInv(r) == On(r, Locked) => lock = SpoolOf[r]

\* From the allocation to the end of prepare or of its rollback the project is
\* the run's own: it was free when it was chosen and the lock is still held.
InstallInv(r) ==
    LET p == manifest[r].project IN
    On(r, Installing) =>
        /\ Listed(r) /\ row[r].handle = None /\ open[r] = None
        /\ Alone(r, p) /\ limits[p] \in {0, Hard[r]}
        /\ On(r, {"create", "identify", "limit"}) => limits[p] = 0 /\ tree[r] \in {Plain, None}
        /\ On(r, {"undo_limit", "undo_manifest"}) => tree[r] = None
        /\ On(r, {"undo_manifest"}) => limits[p] = 0

\* Limits are cleared when nobody is charged to the project.
RemoveInv(r) ==
    LET p == row[r].handle IN
    /\ On(r, {"remove"}) => Listed(r)
    /\ On(r, {"wait", "clear", "unlist"}) => tree[r] = None
    /\ On(r, {"clear", "unlist"}) => ~Used(p)
    /\ On(r, {"unlist"}) => limits[p] = 0

\* What holds of every run by itself.
RunInv(r) == RowInv(r) /\ ChargeInv(r) /\ LockInv(r) /\ InstallInv(r) /\ RemoveInv(r)

\* The inductive invariant.
IInv == Accounted /\ ProjectsDistinct /\ \A r \in Runs : RunInv(r)

------------------------------------------------------------------------------
(* Types *)

\* Where a broker is before and after a step of an operation.
LEMMA GotoStep ==
    ASSUME TypeOK, NEW s \in Spools, NEW r \in Runs, NEW a, NEW b, At(s, r, a), Goto(s, b)
    PROVE  /\ SpoolOf[r] = s /\ pc[s].at = a /\ pc[s].run = r
           /\ pc'[s].at = b /\ pc'[s].run = r
           /\ \A x \in Spools : x # s => pc'[x] = pc[x]
  BY DEF TypeOK, At, Goto

\* The types, variable by variable.
PcType == pc \in [Spools -> [at : {"down", "idle"} \cup Work, run : Runs \cup {None}]]
RowType == row \in [Runs -> [status : {"queued", "running", "ended"}, handle : Projects \cup {None}]]
ManifestType == manifest \in [Runs -> Manifest \cup {NoManifest}]

\* Every step keeps the type of the program counters.
LEMMA PcTypes ==
    ASSUME TypeOK, NEW s \in Spools,
           \/ \E b \in Work : Goto(s, b)
           \/ Return(s)
           \/ \E r \in Runs, b \in Work : pc' = [pc EXCEPT ![s] = [at |-> b, run |-> r]]
           \/ pc' = [pc EXCEPT ![s] = Down]
           \/ UNCHANGED pc
    PROVE  PcType'
<1> USE DEF PcType, TypeOK, Work
<1>1. CASE \E b \in Work : Goto(s, b)
  BY <1>1 DEF Goto
<1>2. CASE Return(s)
  BY <1>2 DEF Return, Idle
<1>3. CASE \E r \in Runs, b \in Work : pc' = [pc EXCEPT ![s] = [at |-> b, run |-> r]]
  BY <1>3
<1>4. CASE pc' = [pc EXCEPT ![s] = Down]
  BY <1>4 DEF Down
<1> QED
  BY <1>1, <1>2, <1>3, <1>4

\* A listed manifest is one, and its project is a project.
LEMMA ListedType ==
    ASSUME TypeOK, NEW r \in Runs, Listed(r)
    PROVE  manifest[r] \in Manifest /\ manifest[r].project \in Projects
  BY DEF TypeOK, Listed, Manifest

\* The manifests that prepare, its rollback and cleanup write.
LEMMA WriteType ==
    ASSUME TypeOK, NEW r \in Runs, NEW m \in Manifest \cup {NoManifest}, manifest' = [manifest EXCEPT ![r] = m]
    PROVE  ManifestType' /\ manifest'[r] = m /\ \A q \in Runs \ {r} : manifest'[q] = manifest[q]
  BY DEF TypeOK, ManifestType

\* A change of phase keeps the project.
LEMMA Rephased ==
    ASSUME NEW m \in Manifest, NEW a \in Phases, NEW k \in BOOLEAN
    PROVE  /\ [m EXCEPT !.phase = a] \in Manifest /\ [m EXCEPT !.phase = a].project = m.project
           /\ [m EXCEPT !.phase = a, !.known = k] \in Manifest
           /\ [m EXCEPT !.phase = a, !.known = k].project = m.project
  BY DEF Manifest

\* A manifest is not the absent one.
LEMMA ManifestIsOne ==
    ASSUME NEW m \in Manifest
    PROVE  m # NoManifest
  BY QuotaConstantsOK DEF Manifest, NoManifest, Phases, None

\* A step that a broker makes for a run.
OperationStep(s, r) ==
    \/ Prepare(s, r) \/ Rollback(s, r) \/ Cleanup(s, r)
    \/ PrepareFails(s, r) \/ PrepareGivesUp(s, r)

\* Operations keep the type of the program counters.
LEMMA StepPcType ==
    ASSUME IInv, NEW s \in Spools, NEW r \in Runs, OperationStep(s, r)
    PROVE  PcType'
<1> USE QuotaConstantsOK DEF IInv, Accounted, Work, Preparing, RollingBack, Cleaning
<1>1. CASE Admit(s, r)
  BY <1>1, PcTypes DEF Admit
<1>2. CASE PrepareLock(s, r)
  BY <1>2, PcTypes DEF PrepareLock, Lock
<1>3. CASE AllocateProject(s, r)
  BY <1>3, PcTypes DEF AllocateProject, AllocateFrom, Available, Write, Unlock
<1>4. CASE CreateTree(s, r)
  BY <1>4, PcTypes DEF CreateTree, SetAttributes
<1>5. CASE RecordTree(s, r)
  BY <1>5, PcTypes DEF RecordTree, Write
<1>6. CASE InstallLimits(s, r)
  BY <1>6, PcTypes DEF InstallLimits, Fault
<1>7. CASE AssignTree(s, r)
  BY <1>7, PcTypes DEF AssignTree, SetAttributes
<1>8. CASE Ready(s, r)
  BY <1>8, PcTypes DEF Ready, Write, Unlock
<1>9. CASE SaveHandle(s, r)
  BY <1>9, PcTypes DEF SaveHandle, Handle
<1>10. CASE Expose(s, r)
  BY <1>10, PcTypes DEF Expose, Fault
<1>11. CASE RollbackTree(s, r)
  BY <1>11, PcTypes DEF RollbackTree, SetAttributes
<1>12. CASE RollbackLimits(s, r)
  BY <1>12, PcTypes DEF RollbackLimits, SetQuota, Unlock
<1>13. CASE RollbackManifest(s, r)
  BY <1>13, PcTypes DEF RollbackManifest, Unlist, Unlock
<1>14. CASE FailRun(s, r)
  BY <1>14, PcTypes DEF FailRun
<1>15. CASE Finish(s, r)
  BY <1>15, PcTypes DEF Finish
<1>16. CASE CleanupLock(s, r)
  BY <1>16, PcTypes DEF CleanupLock, Lock
<1>17. CASE MarkCleaning(s, r)
  BY <1>17, PcTypes DEF MarkCleaning, Write
<1>18. CASE RemoveTree(s, r)
  BY <1>18, PcTypes DEF RemoveTree, SetAttributes, Fault, GiveUp, Unlock
<1>19. CASE AwaitUsage(s, r)
  BY <1>19, PcTypes DEF AwaitUsage, GiveUp, Unlock
<1>20. CASE ClearLimits(s, r)
  BY <1>20, PcTypes DEF ClearLimits, SetQuota, GiveUp, Unlock, Fault
<1>21. CASE RemoveManifest(s, r)
  BY <1>21, PcTypes DEF RemoveManifest, Unlist, Unlock
<1>22. CASE DropHandle(s, r)
  BY <1>22, PcTypes DEF DropHandle
<1>23. CASE EndRun(s, r)
  BY <1>23, PcTypes DEF EndRun
<1>24. CASE Interrupt(s, r)
  BY <1>24, PcTypes DEF Interrupt
<1>25. CASE PrepareFails(s, r)
  BY <1>25, PcTypes DEF PrepareFails, Fault
<1>26. CASE PrepareGivesUp(s, r)
  BY <1>26, PcTypes DEF PrepareGivesUp, Fault, Unlock
<1> QED
  BY <1>1, <1>2, <1>3, <1>4, <1>5, <1>6, <1>7, <1>8, <1>9, <1>10, <1>11, <1>12, <1>13, <1>14, <1>15,
     <1>16, <1>17, <1>18, <1>19, <1>20, <1>21, <1>22, <1>23, <1>24, <1>25, <1>26 DEF OperationStep,
         Prepare, Rollback, Cleanup

\* Operations keep the type of the rows.
LEMMA StepRowType ==
    ASSUME IInv, NEW s \in Spools, NEW r \in Runs, OperationStep(s, r)
    PROVE  RowType'
<1> USE QuotaConstantsOK DEF IInv, Accounted, RowType
<1>1. CASE Admit(s, r)
  BY <1>1 DEF Admit, TypeOK
<1>2. CASE PrepareLock(s, r)
  BY <1>2 DEF PrepareLock, Lock, TypeOK
<1>3. CASE AllocateProject(s, r)
  BY <1>3 DEF AllocateProject, AllocateFrom, Available, Write, Unlock, TypeOK
<1>4. CASE CreateTree(s, r)
  BY <1>4 DEF CreateTree, SetAttributes, TypeOK
<1>5. CASE RecordTree(s, r)
  BY <1>5 DEF RecordTree, Write, TypeOK
<1>6. CASE InstallLimits(s, r)
  BY <1>6 DEF InstallLimits, Fault, TypeOK
<1>7. CASE AssignTree(s, r)
  BY <1>7 DEF AssignTree, SetAttributes, TypeOK
<1>8. CASE Ready(s, r)
  BY <1>8 DEF Ready, Write, Unlock, TypeOK
<1>9. CASE SaveHandle(s, r)
  <2>1. On(r, {"save", "expose"})
    BY <1>9 DEF SaveHandle, At, On
  <2>2. Listed(r)
    BY <2>1 DEF RunInv, RowInv
  <2>3. manifest[r].project \in Projects
    BY <2>2, ListedType
  <2> QED
    BY <1>9, <2>3 DEF SaveHandle, Handle, TypeOK
<1>10. CASE Expose(s, r)
  BY <1>10 DEF Expose, Fault, TypeOK
<1>11. CASE RollbackTree(s, r)
  BY <1>11 DEF RollbackTree, SetAttributes, TypeOK
<1>12. CASE RollbackLimits(s, r)
  BY <1>12 DEF RollbackLimits, SetQuota, Unlock, TypeOK
<1>13. CASE RollbackManifest(s, r)
  BY <1>13 DEF RollbackManifest, Unlist, Unlock, TypeOK
<1>14. CASE FailRun(s, r)
  BY <1>14 DEF FailRun, TypeOK
<1>15. CASE Finish(s, r)
  BY <1>15 DEF Finish, TypeOK
<1>16. CASE CleanupLock(s, r)
  BY <1>16 DEF CleanupLock, Lock, TypeOK
<1>17. CASE MarkCleaning(s, r)
  BY <1>17 DEF MarkCleaning, Write, TypeOK
<1>18. CASE RemoveTree(s, r)
  BY <1>18 DEF RemoveTree, SetAttributes, Fault, GiveUp, Unlock, TypeOK
<1>19. CASE AwaitUsage(s, r)
  BY <1>19 DEF AwaitUsage, GiveUp, Unlock, TypeOK
<1>20. CASE ClearLimits(s, r)
  BY <1>20 DEF ClearLimits, SetQuota, GiveUp, Unlock, Fault, TypeOK
<1>21. CASE RemoveManifest(s, r)
  BY <1>21 DEF RemoveManifest, Unlist, Unlock, TypeOK
<1>22. CASE DropHandle(s, r)
  BY <1>22 DEF DropHandle, TypeOK
<1>23. CASE EndRun(s, r)
  BY <1>23 DEF EndRun, TypeOK
<1>24. CASE Interrupt(s, r)
  BY <1>24 DEF Interrupt, TypeOK
<1>25. CASE PrepareFails(s, r)
  BY <1>25 DEF PrepareFails, Fault, TypeOK
<1>26. CASE PrepareGivesUp(s, r)
  BY <1>26 DEF PrepareGivesUp, Fault, Unlock, TypeOK
<1> QED
  BY <1>1, <1>2, <1>3, <1>4, <1>5, <1>6, <1>7, <1>8, <1>9, <1>10, <1>11, <1>12, <1>13, <1>14, <1>15,
     <1>16, <1>17, <1>18, <1>19, <1>20, <1>21, <1>22, <1>23, <1>24, <1>25, <1>26 DEF OperationStep,
         Prepare, Rollback, Cleanup

\* Operations keep the type of the manifests.
LEMMA StepManifestType ==
    ASSUME IInv, NEW s \in Spools, NEW r \in Runs, OperationStep(s, r)
    PROVE  ManifestType'
<1> USE QuotaConstantsOK DEF IInv, Accounted, disk
<1>1. CASE Admit(s, r)
  BY <1>1 DEF Admit, TypeOK, ManifestType
<1>2. CASE PrepareLock(s, r)
  BY <1>2 DEF PrepareLock, Lock, TypeOK, ManifestType
<1>3. CASE AllocateProject(s, r)
  <2>1. CASE \E p \in Projects : Write(r, [phase |-> "allocating", project |-> p, known |-> FALSE])
    BY <2>1, WriteType DEF Write, Manifest, Phases
  <2> QED
    BY <1>3, <2>1 DEF AllocateProject, AllocateFrom, Available, TypeOK, ManifestType
<1>4. CASE CreateTree(s, r)
  BY <1>4 DEF CreateTree, SetAttributes, TypeOK, ManifestType
<1>5. CASE RecordTree(s, r)
  <2>1. On(r, Installing)
    BY <1>5 DEF RecordTree, At, On, Installing
  <2>2. Listed(r)
    BY <2>1 DEF RunInv, InstallInv
  <2> QED
    BY <1>5, <2>2, ListedType, Rephased, WriteType DEF RecordTree, Write, Phases
<1>6. CASE InstallLimits(s, r)
  BY <1>6 DEF InstallLimits, Fault, TypeOK, ManifestType
<1>7. CASE AssignTree(s, r)
  BY <1>7 DEF AssignTree, SetAttributes, TypeOK, ManifestType
<1>8. CASE Ready(s, r)
  <2>1. On(r, Installing)
    BY <1>8 DEF Ready, At, On, Installing
  <2>2. Listed(r)
    BY <2>1 DEF RunInv, InstallInv
  <2>3. CASE Write(r, [manifest[r] EXCEPT !.phase = "ready"])
    BY <2>2, <2>3, ListedType, Rephased, WriteType DEF Write, Phases
  <2> QED
    BY <1>8, <2>3 DEF Ready, TypeOK, ManifestType
<1>9. CASE SaveHandle(s, r)
  BY <1>9 DEF SaveHandle, Handle, TypeOK, ManifestType
<1>10. CASE Expose(s, r)
  BY <1>10 DEF Expose, Fault, TypeOK, ManifestType
<1>11. CASE RollbackTree(s, r)
  BY <1>11 DEF RollbackTree, SetAttributes, TypeOK, ManifestType
<1>12. CASE RollbackLimits(s, r)
  BY <1>12 DEF RollbackLimits, SetQuota, Unlock, TypeOK, ManifestType
<1>13. CASE RollbackManifest(s, r)
  BY <1>13 DEF RollbackManifest, Unlist, Unlock, TypeOK, ManifestType
<1>14. CASE FailRun(s, r)
  BY <1>14 DEF FailRun, TypeOK, ManifestType
<1>15. CASE Finish(s, r)
  BY <1>15 DEF Finish, TypeOK, ManifestType
<1>16. CASE CleanupLock(s, r)
  BY <1>16 DEF CleanupLock, Lock, TypeOK, ManifestType
<1>17. CASE MarkCleaning(s, r)
  <2>1. CASE Listed(r) /\ Write(r, [manifest[r] EXCEPT !.phase = "cleaning"])
    BY <2>1, ListedType, Rephased, WriteType DEF Write, Phases
  <2> QED
    BY <1>17, <2>1 DEF MarkCleaning, Resolves, TypeOK, ManifestType
<1>18. CASE RemoveTree(s, r)
  BY <1>18 DEF RemoveTree, SetAttributes, Fault, GiveUp, Unlock, TypeOK, ManifestType
<1>19. CASE AwaitUsage(s, r)
  BY <1>19 DEF AwaitUsage, GiveUp, Unlock, TypeOK, ManifestType
<1>20. CASE ClearLimits(s, r)
  BY <1>20 DEF ClearLimits, SetQuota, GiveUp, Unlock, Fault, TypeOK, ManifestType
<1>21. CASE RemoveManifest(s, r)
  BY <1>21 DEF RemoveManifest, Unlist, Unlock, TypeOK, ManifestType
<1>22. CASE DropHandle(s, r)
  BY <1>22 DEF DropHandle, TypeOK, ManifestType
<1>23. CASE EndRun(s, r)
  BY <1>23 DEF EndRun, TypeOK, ManifestType
<1>24. CASE Interrupt(s, r)
  BY <1>24 DEF Interrupt, TypeOK, ManifestType
<1>25. CASE PrepareFails(s, r)
  BY <1>25 DEF PrepareFails, Fault, TypeOK, ManifestType
<1>26. CASE PrepareGivesUp(s, r)
  BY <1>26 DEF PrepareGivesUp, Fault, Unlock, TypeOK, ManifestType
<1> QED
  BY <1>1, <1>2, <1>3, <1>4, <1>5, <1>6, <1>7, <1>8, <1>9, <1>10, <1>11, <1>12, <1>13, <1>14, <1>15,
     <1>16, <1>17, <1>18, <1>19, <1>20, <1>21, <1>22, <1>23, <1>24, <1>25, <1>26 DEF OperationStep,
         Prepare, Rollback, Cleanup

\* A broker that installs or undoes an allocation has one.
LEMMA InstallingHas ==
    ASSUME IInv, NEW s \in Spools, NEW r \in Runs, NEW a \in Installing, At(s, r, a)
    PROVE  Listed(r) /\ manifest[r] \in Manifest /\ manifest[r].project \in Projects /\ Hard[r] \in Nat \ {0}
<1>1. On(r, Installing)
  BY DEF At, On
<1>2. Listed(r)
  BY <1>1 DEF IInv, RunInv, InstallInv
<1> QED
  BY <1>2, ListedType, QuotaConstantsOK DEF IInv, Accounted

\* A broker that removes an allocation has its handle.
LEMMA RemovingHas ==
    ASSUME IInv, NEW s \in Spools, NEW r \in Runs, NEW a \in Removing, At(s, r, a)
    PROVE  row[r].handle \in Projects /\ row[r].handle # None
<1>1. On(r, {"expose", "enter"} \cup Removing)
  BY DEF At, On
<1>2. row[r].handle # None
  BY <1>1 DEF IInv, RunInv, RowInv
<1> QED
  BY <1>2 DEF IInv, Accounted, TypeOK

\* The types of the mount and of the rest.
RestType ==
    /\ tree \in [Runs -> Projects \cup {Plain, None}]
    /\ open \in [Runs -> Projects \cup {None}]
    /\ limits \in [Projects -> Nat]
    /\ lock \in Spools \cup {None}
    /\ live \subseteq Runs
    /\ faults \in 0 .. MaxFaults

\* Operations keep the types of the mount and of the rest.
LEMMA StepRestType ==
    ASSUME IInv, NEW s \in Spools, NEW r \in Runs, OperationStep(s, r)
    PROVE  RestType'
<1> USE QuotaConstantsOK DEF IInv, Accounted, disk, RestType
<1>1. CASE Admit(s, r)
  BY <1>1 DEF Admit, TypeOK
<1>2. CASE PrepareLock(s, r)
  BY <1>2 DEF PrepareLock, Lock, TypeOK
<1>3. CASE AllocateProject(s, r)
  BY <1>3 DEF AllocateProject, AllocateFrom, Available, Write, Unlock, TypeOK
<1>4. CASE CreateTree(s, r)
  BY <1>4 DEF CreateTree, SetAttributes, TypeOK
<1>5. CASE RecordTree(s, r)
  BY <1>5 DEF RecordTree, Write, TypeOK
<1>6. CASE InstallLimits(s, r)
  <2>1. Listed(r) /\ manifest[r].project \in Projects /\ Hard[r] \in Nat
    BY <1>6, InstallingHas DEF InstallLimits, Installing, Undoing
  <2> QED
    BY <1>6, <2>1 DEF InstallLimits, Fault, TypeOK
<1>7. CASE AssignTree(s, r)
  <2>1. Listed(r) /\ manifest[r].project \in Projects /\ Hard[r] \in Nat
    BY <1>7, InstallingHas DEF AssignTree, Installing, Undoing
  <2> QED
    BY <1>7, <2>1 DEF AssignTree, SetAttributes, TypeOK
<1>8. CASE Ready(s, r)
  BY <1>8 DEF Ready, Write, Unlock, TypeOK
<1>9. CASE SaveHandle(s, r)
  BY <1>9 DEF SaveHandle, Handle, TypeOK
<1>10. CASE Expose(s, r)
  BY <1>10 DEF Expose, Fault, TypeOK
<1>11. CASE RollbackTree(s, r)
  BY <1>11 DEF RollbackTree, SetAttributes, TypeOK
<1>12. CASE RollbackLimits(s, r)
  <2>1. Listed(r) /\ manifest[r].project \in Projects /\ Hard[r] \in Nat
    BY <1>12, InstallingHas DEF RollbackLimits, Installing, Undoing
  <2> QED
    BY <1>12, <2>1 DEF RollbackLimits, SetQuota, Unlock, TypeOK
<1>13. CASE RollbackManifest(s, r)
  BY <1>13 DEF RollbackManifest, Unlist, Unlock, TypeOK
<1>14. CASE FailRun(s, r)
  BY <1>14 DEF FailRun, TypeOK
<1>15. CASE Finish(s, r)
  BY <1>15 DEF Finish, TypeOK
<1>16. CASE CleanupLock(s, r)
  BY <1>16 DEF CleanupLock, Lock, TypeOK
<1>17. CASE MarkCleaning(s, r)
  BY <1>17 DEF MarkCleaning, Write, TypeOK
<1>18. CASE RemoveTree(s, r)
  <2>1. row[r].handle \in Projects
    BY <1>18, RemovingHas DEF RemoveTree, Removing
  <2>2. tree' \in [Runs -> Projects \cup {Plain, None}]
    BY <1>18 DEF RemoveTree, SetAttributes, TypeOK
  <2>3. open' \in [Runs -> Projects \cup {None}]
    BY <1>18, <2>1 DEF RemoveTree, TypeOK
  <2> QED
    BY <1>18, <2>2, <2>3 DEF RemoveTree, Fault, GiveUp, Unlock, TypeOK
<1>19. CASE AwaitUsage(s, r)
  BY <1>19 DEF AwaitUsage, GiveUp, Unlock, TypeOK
<1>20. CASE ClearLimits(s, r)
  <2>1. row[r].handle \in Projects
    BY <1>20, RemovingHas DEF ClearLimits, Removing
  <2> QED
    BY <1>20, <2>1 DEF ClearLimits, SetQuota, GiveUp, Unlock, Fault, TypeOK
<1>21. CASE RemoveManifest(s, r)
  BY <1>21 DEF RemoveManifest, Unlist, Unlock, TypeOK
<1>22. CASE DropHandle(s, r)
  BY <1>22 DEF DropHandle, TypeOK
<1>23. CASE EndRun(s, r)
  BY <1>23 DEF EndRun, TypeOK
<1>24. CASE Interrupt(s, r)
  BY <1>24 DEF Interrupt, TypeOK
<1>25. CASE PrepareFails(s, r)
  BY <1>25 DEF PrepareFails, Fault, TypeOK
<1>26. CASE PrepareGivesUp(s, r)
  BY <1>26 DEF PrepareGivesUp, Fault, Unlock, TypeOK
<1> QED
  BY <1>1, <1>2, <1>3, <1>4, <1>5, <1>6, <1>7, <1>8, <1>9, <1>10, <1>11, <1>12, <1>13, <1>14, <1>15,
     <1>16, <1>17, <1>18, <1>19, <1>20, <1>21, <1>22, <1>23, <1>24, <1>25, <1>26 DEF OperationStep,
         Prepare, Rollback, Cleanup

\* Every step keeps the types.
LEMMA NextTypeOK ==
    ASSUME IInv, [Next]_vars
    PROVE  TypeOK'
<1> USE QuotaConstantsOK DEF IInv, Accounted
<1>1. ASSUME NEW s \in Spools, NEW r \in Runs, OperationStep(s, r)
      PROVE  TypeOK'
  BY <1>1, StepPcType, StepRowType, StepManifestType, StepRestType DEF PcType, RowType,
         ManifestType, RestType, TypeOK, Work
<1>2. ASSUME NEW s \in Spools, Boot(s) \/ Crash(s)
      PROVE  TypeOK'
  <2>1. PcType'
    BY <1>2, PcTypes DEF Boot, Crash, Return
  <2> QED
    BY <1>2, <2>1 DEF Boot, Crash, Fault, disk, PcType, TypeOK, Work
<1>3. ASSUME NEW r \in Runs, WorkerEnds(r) \/ FilesClosed(r)
      PROVE  TypeOK'
  BY <1>3 DEF WorkerEnds, FilesClosed, disk, TypeOK
<1>4. CASE UNCHANGED vars
  BY <1>4 DEF vars, TypeOK
<1> QED
  BY <1>1, <1>2, <1>3, <1>4 DEF Next, Broker, OperationStep

------------------------------------------------------------------------------
(* What a step for one run leaves to the others *)

\* What a step of broker s for run r does not touch: the records of other runs,
\* the lock in other hands and, without the lock, the mount.
Frame(s, r) ==
    /\ SpoolOf[r] = s
    /\ \A q \in Runs \ {r} :
          /\ row'[q] = row[q] /\ manifest'[q] = manifest[q] /\ tree'[q] = tree[q] /\ open'[q] = open[q]
          /\ q \in live' <=> q \in live
          /\ SpoolOf[q] # s => pc'[SpoolOf[q]] = pc[SpoolOf[q]]
          /\ SpoolOf[q] = s => ~On(q, Work)'
    /\ lock' = lock \/ lock \in {None, s}
    /\ lock = s \/ (limits' = limits /\ tree' = tree /\ open' = open)

\* What a step of broker s for run r does to the mount and to the manifest of r.
Effect(r) ==
    /\ \A c \in Projects : c \in ChargedTo(r)' => c \in ChargedTo(r) \/ Alone(r, c)
    /\ \A p \in Projects : limits'[p] = limits[p] \/ Alone(r, p)
    /\ \A p \in Projects : limits'[p] # 0 => limits[p] # 0 \/ (Listed(r)' /\ manifest'[r].project = p)
    /\ Listed(r) => \/ Listed(r)' /\ manifest'[r].project = manifest[r].project
                    \/ limits'[manifest[r].project] = 0
    /\ tree'[r] # None => Listed(r)'
    /\ r \in live' => row'[r].handle # None /\ Enforced(r, row[r].handle)'

\* A broker at a locked step holds the lock.
LEMMA HoldsLock ==
    ASSUME IInv, NEW s \in Spools, NEW r \in Runs, NEW a \in Locked, At(s, r, a)
    PROVE  lock = s
<1>1. On(r, Locked) /\ SpoolOf[r] = s
  BY DEF At, On
<1> QED
  BY <1>1 DEF IInv, RunInv, LockInv

\* Operations change the records of one run, and the mount under the lock.
LEMMA StepFrame ==
    ASSUME IInv, NEW s \in Spools, NEW r \in Runs, OperationStep(s, r)
    PROVE  Frame(s, r)
<1> USE QuotaConstantsOK DEF IInv, Accounted, TypeOK, disk, Frame, On, At, Goto, Return, Idle,
              Work, Preparing, RollingBack, Cleaning
<1>1. CASE Admit(s, r)
  BY <1>1 DEF Admit
<1>2. CASE PrepareLock(s, r)
  BY <1>2 DEF PrepareLock, Lock
<1>3. CASE AllocateProject(s, r)
  <2>1. lock = s
    BY <1>3, HoldsLock DEF AllocateProject, AllocateFrom, Locked, Installing, Undoing, Removing
  <2> QED
    BY <1>3, <2>1 DEF AllocateProject, AllocateFrom, Available, Write, Unlock
<1>4. CASE CreateTree(s, r)
  <2>1. lock = s
    BY <1>4, HoldsLock DEF CreateTree, Locked, Installing, Undoing, Removing
  <2> QED
    BY <1>4, <2>1 DEF CreateTree, SetAttributes
<1>5. CASE RecordTree(s, r)
  <2>1. lock = s
    BY <1>5, HoldsLock DEF RecordTree, Locked, Installing, Undoing, Removing
  <2> QED
    BY <1>5, <2>1 DEF RecordTree, Write
<1>6. CASE InstallLimits(s, r)
  <2>1. lock = s
    BY <1>6, HoldsLock DEF InstallLimits, Locked, Installing, Undoing, Removing
  <2> QED
    BY <1>6, <2>1 DEF InstallLimits, Fault
<1>7. CASE AssignTree(s, r)
  <2>1. lock = s
    BY <1>7, HoldsLock DEF AssignTree, Locked, Installing, Undoing, Removing
  <2> QED
    BY <1>7, <2>1 DEF AssignTree, SetAttributes
<1>8. CASE Ready(s, r)
  <2>1. lock = s
    BY <1>8, HoldsLock DEF Ready, Locked, Installing, Undoing, Removing
  <2> QED
    BY <1>8, <2>1 DEF Ready, Write, Unlock
<1>9. CASE SaveHandle(s, r)
  BY <1>9 DEF SaveHandle, Handle
<1>10. CASE Expose(s, r)
  BY <1>10 DEF Expose, Fault
<1>11. CASE RollbackTree(s, r)
  <2>1. lock = s
    BY <1>11, HoldsLock DEF RollbackTree, Locked, Installing, Undoing, Removing
  <2> QED
    BY <1>11, <2>1 DEF RollbackTree, SetAttributes
<1>12. CASE RollbackLimits(s, r)
  <2>1. lock = s
    BY <1>12, HoldsLock DEF RollbackLimits, Locked, Installing, Undoing, Removing
  <2> QED
    BY <1>12, <2>1 DEF RollbackLimits, SetQuota, Unlock
<1>13. CASE RollbackManifest(s, r)
  <2>1. lock = s
    BY <1>13, HoldsLock DEF RollbackManifest, Locked, Installing, Undoing, Removing
  <2> QED
    BY <1>13, <2>1 DEF RollbackManifest, Unlist, Unlock
<1>14. CASE FailRun(s, r)
  BY <1>14 DEF FailRun
<1>15. CASE Finish(s, r)
  BY <1>15 DEF Finish
<1>16. CASE CleanupLock(s, r)
  BY <1>16 DEF CleanupLock, Lock
<1>17. CASE MarkCleaning(s, r)
  <2>1. lock = s
    BY <1>17, HoldsLock DEF MarkCleaning, Locked, Installing, Undoing, Removing
  <2> QED
    BY <1>17, <2>1 DEF MarkCleaning, Write
<1>18. CASE RemoveTree(s, r)
  <2>1. lock = s
    BY <1>18, HoldsLock DEF RemoveTree, Locked, Installing, Undoing, Removing
  <2> QED
    BY <1>18, <2>1 DEF RemoveTree, SetAttributes, Fault, GiveUp, Unlock
<1>19. CASE AwaitUsage(s, r)
  <2>1. lock = s
    BY <1>19, HoldsLock DEF AwaitUsage, Locked, Installing, Undoing, Removing
  <2> QED
    BY <1>19, <2>1 DEF AwaitUsage, GiveUp, Unlock
<1>20. CASE ClearLimits(s, r)
  <2>1. lock = s
    BY <1>20, HoldsLock DEF ClearLimits, Locked, Installing, Undoing, Removing
  <2> QED
    BY <1>20, <2>1 DEF ClearLimits, SetQuota, GiveUp, Unlock, Fault
<1>21. CASE RemoveManifest(s, r)
  <2>1. lock = s
    BY <1>21, HoldsLock DEF RemoveManifest, Locked, Installing, Undoing, Removing
  <2> QED
    BY <1>21, <2>1 DEF RemoveManifest, Unlist, Unlock
<1>22. CASE DropHandle(s, r)
  BY <1>22 DEF DropHandle
<1>23. CASE EndRun(s, r)
  BY <1>23 DEF EndRun
<1>24. CASE Interrupt(s, r)
  BY <1>24 DEF Interrupt
<1>25. CASE PrepareFails(s, r)
  BY <1>25 DEF PrepareFails, Fault
<1>26. CASE PrepareGivesUp(s, r)
  <2>1. lock = s
    BY <1>26, HoldsLock DEF PrepareGivesUp, Locked, Installing, Undoing, Removing
  <2> QED
    BY <1>26, <2>1 DEF PrepareGivesUp, Fault, Unlock
<1> QED
  BY <1>1, <1>2, <1>3, <1>4, <1>5, <1>6, <1>7, <1>8, <1>9, <1>10, <1>11, <1>12, <1>13, <1>14, <1>15,
     <1>16, <1>17, <1>18, <1>19, <1>20, <1>21, <1>22, <1>23, <1>24, <1>25, <1>26 DEF OperationStep,
         Prepare, Rollback, Cleanup

\* The state of the other runs stays what their brokers' steps say.
LEMMA OthersKeep ==
    ASSUME IInv, NEW s \in Spools, NEW r \in Runs, Frame(s, r), NEW q \in Runs, q # r
    PROVE  RunInv(q)'
<1>1. /\ row'[q] = row[q] /\ manifest'[q] = manifest[q] /\ tree'[q] = tree[q] /\ open'[q] = open[q]
      /\ q \in live' <=> q \in live
  BY DEF Frame
<1>2. RunInv(q) /\ SpoolOf[q] \in Spools
  BY QuotaConstantsOK DEF IInv
<1>3. ASSUME NEW S, S \subseteq Work, On(q, S)'
      PROVE  On(q, S) /\ SpoolOf[q] # s
  BY <1>3 DEF Frame, On
<1>4. RowInv(q)'
  BY <1>1, <1>2, <1>3 DEF RunInv, RowInv, Fresh, Listed, Work, Preparing, RollingBack, Cleaning,
         Removing
<1>5. ChargeInv(q)'
  BY <1>1, <1>2 DEF RunInv, ChargeInv, Listed
<1>6. ASSUME On(q, Locked)'
      PROVE  /\ lock = SpoolOf[q] /\ lock' = lock /\ limits' = limits
             /\ tree' = tree /\ open' = open
  <2>1. On(q, Locked) /\ SpoolOf[q] # s
    BY <1>3, <1>6 DEF Locked, Installing, Undoing, Removing, Work, Preparing, RollingBack, Cleaning
  <2>2. lock = SpoolOf[q] /\ lock # None
    BY <1>2, <2>1, QuotaConstantsOK DEF RunInv, LockInv
  <2> QED
    BY <2>1, <2>2 DEF Frame
<1>7. LockInv(q)'
  BY <1>6 DEF LockInv
<1>8. InstallInv(q)'
  <2>1. SUFFICES ASSUME On(q, Installing)'
                 PROVE  InstallInv(q)'
    BY DEF InstallInv
  <2>2. On(q, Locked)'
    BY <2>1 DEF On, Locked
  <2>3. On(q, Installing)
    BY <1>3, <2>1 DEF Installing, Undoing, Work, Preparing, RollingBack, Cleaning
  <2>4. \A S \in {{"create", "identify", "limit"}, {"undo_limit", "undo_manifest"}, {"undo_manifest"}} :
            On(q, S)' => On(q, S)
    BY <1>3 DEF Work, Preparing, RollingBack, Cleaning
  <2>5. \A p : Alone(q, p) => Alone(q, p)'
    BY <1>6, <2>2 DEF Alone, ChargedTo
  <2> QED
    BY <1>1, <1>2, <1>6, <2>2, <2>3, <2>4, <2>5 DEF RunInv, InstallInv, Listed
<1>9. RemoveInv(q)'
  <2>1. \A S \in {{"remove"}, {"wait", "clear", "unlist"}, {"clear", "unlist"}, {"unlist"}} :
            On(q, S)' => On(q, S) /\ On(q, Locked)'
    BY <1>3 DEF Work, Preparing, RollingBack, Cleaning, On, Locked, Removing
  <2>2. \A p : On(q, Locked)' /\ Used(p)' => Used(p)
    BY <1>6 DEF Used, ChargedTo
  <2> QED
    BY <1>1, <1>2, <1>6, <2>1, <2>2 DEF RunInv, RemoveInv, Listed
<1> QED
  BY <1>4, <1>5, <1>7, <1>8, <1>9 DEF RunInv

\* What holds of all runs together.
LEMMA TogetherKeep ==
    ASSUME IInv, NEW s \in Spools, NEW r \in Runs, Frame(s, r), Effect(r), TypeOK'
    PROVE  ProjectsDistinct' /\ RunningIsLimited' /\ EverythingListed'
<1> USE QuotaConstantsOK DEF IInv, Accounted
<1>1. \A q \in Runs \ {r} :
          /\ row'[q] = row[q] /\ manifest'[q] = manifest[q] /\ tree'[q] = tree[q] /\ open'[q] = open[q]
          /\ q \in live' <=> q \in live
  BY DEF Frame
<1>2. \A q \in Runs : ChargedTo(q) \subseteq Projects /\ ChargedTo(q)' \subseteq Projects
  BY DEF ChargedTo, TypeOK
<1>3. \A q \in Runs \ {r} : ChargedTo(q)' = ChargedTo(q)
  BY <1>1 DEF ChargedTo
<1>4. \A q \in Runs \ {r} : ChargedTo(q) \cap ChargedTo(r)' = {}
  BY <1>2 DEF Effect, Alone, ProjectsDistinct
<1>5. ProjectsDistinct'
  <2>1. ASSUME NEW x \in Runs, NEW q \in Runs, x # q
        PROVE  ChargedTo(x)' \cap ChargedTo(q)' = {}
    <3>1. CASE x = r
      BY <1>3, <1>4, <2>1, <3>1
    <3>2. CASE q = r
      BY <1>3, <1>4, <2>1, <3>2
    <3>3. CASE x # r /\ q # r
      BY <1>3, <2>1, <3>3 DEF ProjectsDistinct
    <3> QED
      BY <3>1, <3>2, <3>3
  <2> QED
    BY <2>1 DEF ProjectsDistinct
<1>6. RunningIsLimited'
  <2>1. ASSUME NEW q \in live', q # r
        PROVE  row'[q].handle # None /\ Enforced(q, row[q].handle)'
    <3>1. q \in Runs /\ q \in live /\ row'[q] = row[q] /\ tree'[q] = tree[q]
      BY <1>1, <2>1 DEF TypeOK
    <3>2. row[q].handle # None /\ tree[q] = row[q].handle /\ limits[row[q].handle] = Hard[q]
      BY <3>1 DEF RunningIsLimited, Enforced
    <3>3. row[q].handle \in Projects
      BY <3>1, <3>2 DEF TypeOK
    <3>4. row[q].handle \in ChargedTo(q)
      BY <3>2, <3>3 DEF ChargedTo
    <3>5. limits'[row[q].handle] = limits[row[q].handle]
      BY <2>1, <3>1, <3>3, <3>4 DEF Effect, Alone
    <3> QED
      BY <3>1, <3>2, <3>5 DEF Enforced
  <2> QED
    BY <2>1 DEF RunningIsLimited, Effect
<1>7. \A q \in Runs : tree'[q] # None => Listed(q)'
  BY <1>1 DEF Effect, EverythingListed, Listed
<1>8. ASSUME NEW p \in Projects, limits'[p] # 0
      PROVE  \E q \in Runs : Listed(q)' /\ manifest'[q].project = p
  <2>1. CASE limits[p] # 0
    <3>1. PICK q \in Runs : Listed(q) /\ manifest[q].project = p
      BY <2>1 DEF EverythingListed
    <3> QED
      BY <1>1, <1>8, <3>1 DEF Effect, Listed
  <2> QED
    BY <1>8, <2>1 DEF Effect
<1>9. EverythingListed'
  BY <1>7, <1>8 DEF EverythingListed
<1> QED
  BY <1>5, <1>6, <1>9

------------------------------------------------------------------------------
(* What a step does for its own run *)

\* A step that leaves the mount and the manifests alone and starts no worker.
LEMMA QuietEffect ==
    ASSUME IInv, NEW r \in Runs, UNCHANGED disk, live' = live, row'[r].handle = row[r].handle \/ r \notin live
    PROVE  Effect(r)
  BY DEF IInv, Accounted, TypeOK, RunningIsLimited, EverythingListed, Effect, Listed, ChargedTo,
         Enforced, disk

\* The command of a run that its broker is busy with is not alive.
LEMMA BusyIsNotLive ==
    ASSUME IInv, NEW s \in Spools, NEW r \in Runs, NEW a \in Work, At(s, r, a)
    PROVE  r \notin live /\ row[r].status = "running" /\ RunInv(r)
<1>1. On(r, Work)
  BY DEF At, On
<1> QED
  BY <1>1 DEF IInv, RunInv, RowInv

\* A change of phase leaves the run listed with the same project.
LEMMA PhaseWritten ==
    ASSUME TypeOK, NEW r \in Runs, Listed(r), NEW a \in Phases,
           \/ Write(r, [manifest[r] EXCEPT !.phase = a])
           \/ Write(r, [manifest[r] EXCEPT !.phase = a, !.known = TRUE])
    PROVE  Listed(r)' /\ manifest'[r].project = manifest[r].project
<1> DEFINE m == [manifest[r] EXCEPT !.phase = a]
           n == [manifest[r] EXCEPT !.phase = a, !.known = TRUE]
<1>1. manifest[r] \in Manifest
  BY ListedType
<1>2. /\ m \in Manifest /\ m.project = manifest[r].project
      /\ n \in Manifest /\ n.project = manifest[r].project
  BY <1>1, Rephased
<1>3. m # NoManifest /\ n # NoManifest
  BY <1>2, ManifestIsOne
<1>4. manifest'[r] = m \/ manifest'[r] = n
  BY <1>2, WriteType DEF Write
<1> QED
  BY <1>2, <1>3, <1>4 DEF Listed

\* A step that only changes a phase.
LEMMA PhaseEffect ==
    ASSUME IInv, NEW r \in Runs, r \notin live, Listed(r), Listed(r)', manifest'[r].project = manifest[r].project,
           UNCHANGED <<tree, open, limits, live>>
    PROVE  Effect(r)
  BY DEF Effect, ChargedTo, Enforced, Listed

\* What each operation does to the mount and to its run's manifest.
LEMMA StepEffect ==
    ASSUME IInv, NEW s \in Spools, NEW r \in Runs, OperationStep(s, r)
    PROVE  Effect(r)
<1> USE QuotaConstantsOK DEF IInv, Accounted, disk
<1>1. CASE Admit(s, r)
  BY <1>1, QuietEffect, BusyIsNotLive DEF Admit, TypeOK, Work, Preparing, RollingBack, Cleaning
<1>2. CASE PrepareLock(s, r)
  BY <1>2, QuietEffect, BusyIsNotLive DEF PrepareLock, Lock, TypeOK, Work, Preparing, RollingBack,
         Cleaning
<1>3. CASE AllocateProject(s, r)
  <2>1. r \notin live /\ RunInv(r)
    BY <1>3, BusyIsNotLive DEF AllocateProject, AllocateFrom, Available, Write, Unlock, Work,
           Preparing, RollingBack, Cleaning
  <2>2. SpoolOf[r] = s /\ pc[s].run = r
    BY <1>3 DEF AllocateProject, AllocateFrom, At
  <2> QED
    BY <1>3, <2>1, <2>2 DEF AllocateProject, AllocateFrom, Available, Write, Unlock, Effect, Listed,
           ChargedTo, Enforced, Alone, TypeOK, RunInv, ChargeInv, InstallInv, RowInv, RemoveInv, On,
           Installing, Undoing, Removing, At, Used, EverythingListed, Fresh
<1>4. CASE CreateTree(s, r)
  <2>1. r \notin live /\ RunInv(r)
    BY <1>4, BusyIsNotLive DEF CreateTree, SetAttributes, Work, Preparing, RollingBack, Cleaning
  <2>2. SpoolOf[r] = s /\ pc[s].run = r
    BY <1>4 DEF CreateTree, At
  <2> QED
    BY <1>4, <2>1, <2>2 DEF CreateTree, SetAttributes, Effect, Listed, ChargedTo, Enforced, Alone,
           TypeOK, RunInv, ChargeInv, InstallInv, RowInv, RemoveInv, On, Installing, Undoing,
           Removing, At, Used, EverythingListed, Fresh
<1>5. CASE RecordTree(s, r)
  <2>1. r \notin live /\ TypeOK
    BY <1>5, BusyIsNotLive DEF RecordTree, Write, Work, Preparing, RollingBack, Cleaning
  <2>2. CASE Write(r, [manifest[r] EXCEPT !.phase = "allocated", !.known = TRUE])
    <3>1. Listed(r)
      BY <1>5, InstallingHas DEF RecordTree, Installing
    <3>2. Listed(r)' /\ manifest'[r].project = manifest[r].project
      BY <2>1, <2>2, <3>1, PhaseWritten DEF Phases
    <3> QED
      BY <1>5, <2>1, <3>1, <3>2, PhaseEffect DEF RecordTree
  <2> QED
    BY <1>5, <2>2 DEF RecordTree
<1>6. CASE InstallLimits(s, r)
  <2>1. r \notin live /\ RunInv(r)
    BY <1>6, BusyIsNotLive DEF InstallLimits, Fault, Work, Preparing, RollingBack, Cleaning
  <2>2. SpoolOf[r] = s /\ pc[s].run = r
    BY <1>6 DEF InstallLimits, At
  <2> QED
    BY <1>6, <2>1, <2>2 DEF InstallLimits, Fault, Effect, Listed, ChargedTo, Enforced, Alone,
           TypeOK, RunInv, ChargeInv, InstallInv, RowInv, RemoveInv, On, Installing, Undoing,
           Removing, At, Used, EverythingListed, Fresh
<1>7. CASE AssignTree(s, r)
  <2>1. r \notin live /\ RunInv(r)
    BY <1>7, BusyIsNotLive DEF AssignTree, SetAttributes, Work, Preparing, RollingBack, Cleaning
  <2>2. SpoolOf[r] = s /\ pc[s].run = r
    BY <1>7 DEF AssignTree, At
  <2> QED
    BY <1>7, <2>1, <2>2 DEF AssignTree, SetAttributes, Effect, Listed, ChargedTo, Enforced, Alone,
           TypeOK, RunInv, ChargeInv, InstallInv, RowInv, RemoveInv, On, Installing, Undoing,
           Removing, At, Used, EverythingListed, Fresh
<1>8. CASE Ready(s, r)
  <2>1. r \notin live /\ TypeOK
    BY <1>8, BusyIsNotLive DEF Ready, Write, Unlock, Work, Preparing, RollingBack, Cleaning
  <2>2. CASE Write(r, [manifest[r] EXCEPT !.phase = "ready"])
    <3>1. Listed(r)
      BY <1>8, InstallingHas DEF Ready, Installing
    <3>2. Listed(r)' /\ manifest'[r].project = manifest[r].project
      BY <2>1, <2>2, <3>1, PhaseWritten DEF Phases
    <3> QED
      BY <1>8, <2>1, <3>1, <3>2, PhaseEffect DEF Ready
  <2> QED
    BY <1>8, <2>1, <2>2, QuietEffect DEF Ready
<1>9. CASE SaveHandle(s, r)
  BY <1>9, QuietEffect, BusyIsNotLive DEF SaveHandle, Handle, TypeOK, Work, Preparing, RollingBack,
         Cleaning
<1>10. CASE Expose(s, r)
  <2>1. r \notin live /\ RunInv(r) /\ TypeOK
    BY <1>10, BusyIsNotLive DEF Expose, Work, Preparing, RollingBack, Cleaning
  <2>2. CASE live' = live
    BY <1>10, <2>1, <2>2, QuietEffect DEF Expose
  <2>3. CASE Usable(r) /\ live' = live \cup {r}
    <3>1. /\ row' = row /\ manifest' = manifest /\ tree' = tree /\ open' = open /\ limits' = limits
          /\ Listed(r) /\ manifest[r].project = row[r].handle /\ Enforced(r, row[r].handle)
      BY <1>10, <2>3 DEF Expose, Usable, Resolves, Handle
    <3>2. row[r].handle # None
      BY <2>1, <3>1, ListedType, QuotaConstantsOK
    <3> QED
      BY <3>1, <3>2 DEF Effect, Listed, ChargedTo, Enforced
  <2> QED
    BY <1>10, <2>2, <2>3 DEF Expose, Fault
<1>11. CASE RollbackTree(s, r)
  <2>1. r \notin live /\ RunInv(r)
    BY <1>11, BusyIsNotLive DEF RollbackTree, SetAttributes, Work, Preparing, RollingBack, Cleaning
  <2>2. SpoolOf[r] = s /\ pc[s].run = r
    BY <1>11 DEF RollbackTree, At
  <2> QED
    BY <1>11, <2>1, <2>2 DEF RollbackTree, SetAttributes, Effect, Listed, ChargedTo, Enforced,
           Alone, TypeOK, RunInv, ChargeInv, InstallInv, RowInv, RemoveInv, On, Installing, Undoing,
           Removing, At, Used, EverythingListed, Fresh
<1>12. CASE RollbackLimits(s, r)
  <2>1. r \notin live /\ RunInv(r)
    BY <1>12, BusyIsNotLive DEF RollbackLimits, SetQuota, Unlock, Work, Preparing, RollingBack,
           Cleaning
  <2>2. SpoolOf[r] = s /\ pc[s].run = r
    BY <1>12 DEF RollbackLimits, At
  <2> QED
    BY <1>12, <2>1, <2>2 DEF RollbackLimits, SetQuota, Unlock, Effect, Listed, ChargedTo, Enforced,
           Alone, TypeOK, RunInv, ChargeInv, InstallInv, RowInv, RemoveInv, On, Installing, Undoing,
           Removing, At, Used, EverythingListed, Fresh
<1>13. CASE RollbackManifest(s, r)
  <2>1. r \notin live /\ RunInv(r)
    BY <1>13, BusyIsNotLive DEF RollbackManifest, Unlist, Unlock, Work, Preparing, RollingBack,
           Cleaning
  <2>2. SpoolOf[r] = s /\ pc[s].run = r
    BY <1>13 DEF RollbackManifest, At
  <2> QED
    BY <1>13, <2>1, <2>2 DEF RollbackManifest, Unlist, Unlock, Effect, Listed, ChargedTo, Enforced,
           Alone, TypeOK, RunInv, ChargeInv, InstallInv, RowInv, RemoveInv, On, Installing, Undoing,
           Removing, At, Used, EverythingListed, Fresh
<1>14. CASE FailRun(s, r)
  BY <1>14, QuietEffect, BusyIsNotLive DEF FailRun, TypeOK, Work, Preparing, RollingBack, Cleaning
<1>15. CASE Finish(s, r)
  BY <1>15, QuietEffect, BusyIsNotLive DEF Finish, TypeOK, Work, Preparing, RollingBack, Cleaning
<1>16. CASE CleanupLock(s, r)
  BY <1>16, QuietEffect, BusyIsNotLive DEF CleanupLock, Lock, TypeOK, Work, Preparing, RollingBack,
         Cleaning
<1>17. CASE MarkCleaning(s, r)
  <2>1. r \notin live /\ TypeOK
    BY <1>17, BusyIsNotLive DEF MarkCleaning, Write, Work, Preparing, RollingBack, Cleaning
  <2>2. CASE Resolves(r) /\ Write(r, [manifest[r] EXCEPT !.phase = "cleaning"])
    <3>1. Listed(r)
      BY <1>17, <2>2 DEF MarkCleaning, Resolves
    <3>2. Listed(r)' /\ manifest'[r].project = manifest[r].project
      BY <2>1, <2>2, <3>1, PhaseWritten DEF Phases
    <3> QED
      BY <1>17, <2>1, <3>1, <3>2, PhaseEffect DEF MarkCleaning
  <2> QED
    BY <1>17, <2>1, <2>2, QuietEffect DEF MarkCleaning
<1>18. CASE RemoveTree(s, r)
  <2>1. r \notin live /\ RunInv(r)
    BY <1>18, BusyIsNotLive DEF RemoveTree, SetAttributes, Fault, GiveUp, Unlock, Work, Preparing,
           RollingBack, Cleaning
  <2>2. SpoolOf[r] = s /\ pc[s].run = r
    BY <1>18 DEF RemoveTree, At
  <2> QED
    BY <1>18, <2>1, <2>2 DEF RemoveTree, SetAttributes, Fault, GiveUp, Unlock, Effect, Listed,
           ChargedTo, Enforced, Alone, TypeOK, RunInv, ChargeInv, InstallInv, RowInv, RemoveInv, On,
           Installing, Undoing, Removing, At, Used, EverythingListed, Fresh
<1>19. CASE AwaitUsage(s, r)
  BY <1>19, QuietEffect, BusyIsNotLive DEF AwaitUsage, GiveUp, Unlock, TypeOK, Work, Preparing,
         RollingBack, Cleaning
<1>20. CASE ClearLimits(s, r)
  <2>1. r \notin live /\ RunInv(r)
    BY <1>20, BusyIsNotLive DEF ClearLimits, SetQuota, GiveUp, Unlock, Fault, Work, Preparing,
           RollingBack, Cleaning
  <2>2. SpoolOf[r] = s /\ pc[s].run = r
    BY <1>20 DEF ClearLimits, At
  <2> QED
    BY <1>20, <2>1, <2>2 DEF ClearLimits, SetQuota, GiveUp, Unlock, Fault, Effect, Listed,
           ChargedTo, Enforced, Alone, TypeOK, RunInv, ChargeInv, InstallInv, RowInv, RemoveInv, On,
           Installing, Undoing, Removing, At, Used, EverythingListed, Fresh
<1>21. CASE RemoveManifest(s, r)
  <2>1. r \notin live /\ RunInv(r)
    BY <1>21, BusyIsNotLive DEF RemoveManifest, Unlist, Unlock, Work, Preparing, RollingBack,
           Cleaning
  <2>2. SpoolOf[r] = s /\ pc[s].run = r
    BY <1>21 DEF RemoveManifest, At
  <2> QED
    BY <1>21, <2>1, <2>2 DEF RemoveManifest, Unlist, Unlock, Effect, Listed, ChargedTo, Enforced,
           Alone, TypeOK, RunInv, ChargeInv, InstallInv, RowInv, RemoveInv, On, Installing, Undoing,
           Removing, At, Used, EverythingListed, Fresh
<1>22. CASE DropHandle(s, r)
  BY <1>22, QuietEffect, BusyIsNotLive DEF DropHandle, TypeOK, Work, Preparing, RollingBack,
         Cleaning
<1>23. CASE EndRun(s, r)
  BY <1>23, QuietEffect, BusyIsNotLive DEF EndRun, TypeOK, Work, Preparing, RollingBack, Cleaning
<1>24. CASE Interrupt(s, r)
  BY <1>24, QuietEffect, BusyIsNotLive DEF Interrupt, TypeOK, Work, Preparing, RollingBack, Cleaning
<1>25. CASE PrepareFails(s, r)
  BY <1>25, QuietEffect, BusyIsNotLive DEF PrepareFails, Fault, TypeOK, Work, Preparing,
         RollingBack, Cleaning
<1>26. CASE PrepareGivesUp(s, r)
  BY <1>26, QuietEffect, BusyIsNotLive DEF PrepareGivesUp, Fault, Unlock, TypeOK, Work, Preparing,
         RollingBack, Cleaning
<1> QED
  BY <1>1, <1>2, <1>3, <1>4, <1>5, <1>6, <1>7, <1>8, <1>9, <1>10, <1>11, <1>12, <1>13, <1>14, <1>15,
     <1>16, <1>17, <1>18, <1>19, <1>20, <1>21, <1>22, <1>23, <1>24, <1>25, <1>26 DEF OperationStep,
         Prepare, Rollback, Cleanup

\* Other runs are charged as before.
LEMMA AloneKept ==
    ASSUME NEW s \in Spools, NEW r \in Runs, Frame(s, r), NEW p
    PROVE  Alone(r, p)' <=> Alone(r, p)
  BY DEF Frame, Alone, ChargedTo

\* A project that nobody is charged to stays so when its run is not charged to it.
LEMMA UsedKept ==
    ASSUME NEW s \in Spools, NEW r \in Runs, Frame(s, r), NEW p, ~Used(p), p \notin ChargedTo(r)'
    PROVE  ~Used(p)'
  BY DEF Frame, Used, ChargedTo

\* The parts that are about the locked steps hold elsewhere.
LEMMA Unlocked ==
    ASSUME NEW r \in Runs, ~On(r, Locked)'
    PROVE  LockInv(r)' /\ InstallInv(r)' /\ RemoveInv(r)'
<1>1. \A S : S \subseteq Locked => ~On(r, S)'
  BY DEF On
<1>2. /\ Installing \subseteq Locked /\ {"remove"} \subseteq Locked /\ {"wait", "clear", "unlist"} \subseteq Locked
      /\ {"clear", "unlist"} \subseteq Locked /\ {"unlist"} \subseteq Locked
  BY DEF Locked, Removing
<1> QED
  BY <1>1, <1>2 DEF LockInv, InstallInv, RemoveInv

\* What a run is charged to and what names it are left alone, or the handle is dropped.
LEMMA ChargeKept ==
    ASSUME NEW r \in Runs, ChargeInv(r), tree'[r] = tree[r], open'[r] = open[r],
           Listed(r)' <=> Listed(r), manifest'[r].project = manifest[r].project,
           row'[r].handle \in {row[r].handle, None}
    PROVE  ChargeInv(r)'
  BY DEF ChargeInv

\* Operations keep the state of their run what the broker's step says.
LEMMA StepOwn ==
    ASSUME IInv, NEW s \in Spools, NEW r \in Runs, OperationStep(s, r), Frame(s, r)
    PROVE  RunInv(r)'
<1> USE QuotaConstantsOK DEF IInv, Accounted, disk
<1>1. CASE Admit(s, r)
  <2>1. SpoolOf[r] = s /\ TypeOK /\ RunInv(r) /\ pc'[s].run = r /\ pc'[s].at = "lock"
    BY <1>1 DEF Admit, TypeOK
  <2>2. ~On(r, Locked)'
    BY <2>1 DEF On, Locked, Installing, Undoing, Removing
  <2>3. ChargeInv(r)'
    BY <1>1, <2>1, ChargeKept DEF Admit, RunInv, Listed, TypeOK
  <2>4. RowInv(r)'
    BY <1>1, <2>1 DEF Admit, RunInv, RowInv, Fresh, TypeOK, On, Work, Preparing, RollingBack,
           Cleaning, Locked, Installing, Undoing, Removing
  <2> QED
    BY <2>2, <2>3, <2>4, Unlocked DEF RunInv
<1>2. CASE PrepareLock(s, r)
  <2>1. r \notin live /\ row[r].status = "running" /\ RunInv(r)
    BY <1>2, BusyIsNotLive DEF PrepareLock, Lock, Work, Preparing, RollingBack, Cleaning, Locked,
           Installing, Undoing, Removing
  <2>2. SpoolOf[r] = s /\ pc[s].run = r /\ pc[s].at = "lock" /\ pc'[s].run = r /\ pc'[s].at = "allocate"
    BY <1>2, GotoStep DEF PrepareLock, Lock
  <2>3. RowInv(r)'
    BY <1>2, <2>1, <2>2 DEF PrepareLock, Lock, TypeOK, RunInv, RowInv, Fresh, Listed, InstallInv,
           RemoveInv, ChargeInv, On, Work, Preparing, RollingBack, Cleaning, Locked, Installing,
           Undoing, Removing
  <2>4. ChargeInv(r)'
    BY <1>2, <2>1, <2>2 DEF PrepareLock, Lock, TypeOK, RunInv, ChargeInv, Listed, RowInv, Fresh,
           InstallInv, Handle, On, Work, Preparing, RollingBack, Cleaning, Locked, Installing,
           Undoing, Removing
  <2>5. LockInv(r)'
    BY <1>2, <2>1, <2>2 DEF PrepareLock, Lock, TypeOK, RunInv, LockInv, On, Work, Preparing,
           RollingBack, Cleaning, Locked, Installing, Undoing, Removing
  <2>6. InstallInv(r)'
    BY <1>2, <2>1, <2>2, AloneKept DEF PrepareLock, Lock, TypeOK, RunInv, InstallInv, ChargeInv,
           Listed, RowInv, Fresh, Enforced, On, Work, Preparing, RollingBack, Cleaning, Locked,
           Installing, Undoing, Removing
  <2>7. RemoveInv(r)'
    BY <1>2, <2>1, <2>2, UsedKept DEF PrepareLock, Lock, TypeOK, RunInv, RemoveInv, InstallInv,
           ChargeInv, Listed, RowInv, On, Work, Preparing, RollingBack, Cleaning, Locked,
           Installing, Undoing, Removing
  <2> QED
    BY <2>3, <2>4, <2>5, <2>6, <2>7 DEF RunInv
<1>3. CASE AllocateProject(s, r)
  <2>1. r \notin live /\ row[r].status = "running" /\ RunInv(r) /\ TypeOK
    BY <1>3, BusyIsNotLive DEF AllocateProject, AllocateFrom, Available, Write, Unlock, Work,
           Preparing, RollingBack, Cleaning, Locked, Installing, Undoing, Removing
  <2>2. SpoolOf[r] = s /\ pc[s].run = r /\ pc[s].at = "allocate"
    BY <1>3, <2>1 DEF AllocateProject, AllocateFrom, At
  <2>3. ASSUME NEW p \in Available(s), Write(r, [phase |-> "allocating", project |-> p, known |-> FALSE]),
               Goto(s, "create"), UNCHANGED lock
        PROVE  RunInv(r)'
    <3>1. pc'[s].run = r /\ pc'[s].at = "create"
      BY <1>3, <2>1, <2>3, GotoStep DEF AllocateProject, AllocateFrom
    <3>2. p \in Projects /\ limits[p] = 0 /\ ~Used(p)
      BY <2>3 DEF Available, Unlimited
    <3>3. manifest'[r] \in Manifest /\ manifest'[r].project = p
      <4> DEFINE m == [phase |-> "allocating", project |-> p, known |-> FALSE]
      <4>1. m \in Manifest /\ m.project = p
        BY <3>2 DEF Manifest, Phases
      <4>2. manifest'[r] = m
        BY <2>1, <2>3, <4>1, WriteType DEF Write
      <4> QED
        BY <4>1, <4>2
    <3>4. Listed(r)'
      BY <3>3, ManifestIsOne DEF Listed
    <3>5. Fresh(r) /\ lock = s
      BY <2>1, <2>2 DEF RunInv, RowInv, LockInv, On, Locked
    <3>6. UNCHANGED <<row, tree, open, limits, live>>
      BY <1>3 DEF AllocateProject, AllocateFrom
    <3>7. Alone(r, p)'
      BY <3>2, <3>6 DEF Used, Alone, ChargedTo
    <3>8. RowInv(r)'
      BY <2>1, <2>2, <3>1, <3>6 DEF RowInv, On, Work, Preparing, RollingBack, Cleaning, Locked,
             Installing, Undoing, Removing
    <3>9. ChargeInv(r)'
      BY <3>3, <3>4, <3>5, <3>6, QuotaConstantsOK DEF ChargeInv, Fresh
    <3>10. LockInv(r)'
      BY <2>2, <2>3, <3>5 DEF LockInv
    <3>11. InstallInv(r)'
      BY <2>2, <3>1, <3>2, <3>3, <3>4, <3>5, <3>6, <3>7 DEF InstallInv, On, Fresh
    <3>12. RemoveInv(r)'
      BY <2>2, <3>1 DEF RemoveInv, On
    <3> QED
      BY <3>8, <3>9, <3>10, <3>11, <3>12 DEF RunInv
  <2>4. CASE Goto(s, "fail") /\ UNCHANGED manifest
    <3>1. pc'[s].run = r /\ pc'[s].at = "fail"
      BY <1>3, <2>1, <2>4, GotoStep DEF AllocateProject, AllocateFrom
    <3>2. RowInv(r)'
      BY <1>3, <2>1, <2>2, <2>4, <3>1 DEF AllocateProject, AllocateFrom, RunInv, RowInv, Fresh,
             Listed, InstallInv, On, Work, Preparing, RollingBack, Cleaning, Locked, Installing,
             Undoing, Removing
    <3>3. ChargeInv(r)'
      BY <1>3, <2>1, <2>2, <2>4, <3>1, ChargeKept DEF AllocateProject, AllocateFrom, RunInv, Listed
    <3>4. ~On(r, Locked)'
      BY <2>2, <3>1 DEF On, Locked, Installing, Undoing, Removing
    <3> QED
      BY <3>2, <3>3, <3>4, Unlocked DEF RunInv
  <2> QED
    BY <1>3, <2>3, <2>4 DEF AllocateProject, AllocateFrom
<1>4. CASE CreateTree(s, r)
  <2>1. r \notin live /\ row[r].status = "running" /\ RunInv(r)
    BY <1>4, BusyIsNotLive DEF CreateTree, SetAttributes, Work, Preparing, RollingBack, Cleaning,
           Locked, Installing, Undoing, Removing
  <2>2. SpoolOf[r] = s /\ pc[s].run = r /\ pc[s].at = "create" /\ pc'[s].run = r /\ pc'[s].at = "identify"
    BY <1>4, GotoStep DEF CreateTree, SetAttributes
  <2>3. RowInv(r)'
    BY <1>4, <2>1, <2>2 DEF CreateTree, SetAttributes, TypeOK, RunInv, RowInv, Fresh, Listed,
           InstallInv, RemoveInv, ChargeInv, On, Work, Preparing, RollingBack, Cleaning, Locked,
           Installing, Undoing, Removing
  <2>4. ChargeInv(r)'
    BY <1>4, <2>1, <2>2 DEF CreateTree, SetAttributes, TypeOK, RunInv, ChargeInv, Listed, RowInv,
           Fresh, InstallInv, Handle, On, Work, Preparing, RollingBack, Cleaning, Locked,
           Installing, Undoing, Removing
  <2>5. LockInv(r)'
    BY <1>4, <2>1, <2>2 DEF CreateTree, SetAttributes, TypeOK, RunInv, LockInv, On, Work, Preparing,
           RollingBack, Cleaning, Locked, Installing, Undoing, Removing
  <2>6. InstallInv(r)'
    BY <1>4, <2>1, <2>2, AloneKept DEF CreateTree, SetAttributes, TypeOK, RunInv, InstallInv,
           ChargeInv, Listed, RowInv, Fresh, Enforced, On, Work, Preparing, RollingBack, Cleaning,
           Locked, Installing, Undoing, Removing
  <2>7. RemoveInv(r)'
    BY <1>4, <2>1, <2>2, UsedKept DEF CreateTree, SetAttributes, TypeOK, RunInv, RemoveInv,
           InstallInv, ChargeInv, Listed, RowInv, On, Work, Preparing, RollingBack, Cleaning,
           Locked, Installing, Undoing, Removing
  <2> QED
    BY <2>3, <2>4, <2>5, <2>6, <2>7 DEF RunInv
<1>5. CASE RecordTree(s, r)
  <2>1. r \notin live /\ row[r].status = "running" /\ RunInv(r) /\ TypeOK
    BY <1>5, BusyIsNotLive DEF RecordTree, Write, Work, Preparing, RollingBack, Cleaning, Locked,
           Installing, Undoing, Removing
  <2>2. SpoolOf[r] = s /\ pc[s].run = r /\ pc[s].at = "identify"
    BY <1>5, <2>1 DEF RecordTree, At
  <2>3. CASE RecordTree(s, r)
    <3>1. pc'[s].run = r /\ pc'[s].at = "limit"
      BY <1>5, <2>1, <2>3, GotoStep DEF RecordTree
    <3>2. Listed(r) /\ Listed(r)' /\ manifest'[r].project = manifest[r].project
      BY <1>5, <2>1, <2>3, InstallingHas, PhaseWritten DEF RecordTree, Installing, Phases
    <3>3. RowInv(r)'
      BY <1>5, <2>1, <2>2, <2>3, <3>1, <3>2 DEF RecordTree, RunInv, RowInv, Fresh, Listed,
             InstallInv, On, Work, Preparing, RollingBack, Cleaning, Locked, Installing, Undoing,
             Removing
    <3>4. ChargeInv(r)'
      BY <1>5, <2>1, <2>2, <2>3, <3>1, <3>2, ChargeKept DEF RecordTree, RunInv
    <3>5. LockInv(r)'
      BY <1>5, <2>1, <2>2, <2>3, <3>1, <3>2 DEF RecordTree, RunInv, LockInv, On, Locked, Installing,
             Undoing, Removing
    <3>6. InstallInv(r)'
      BY <1>5, <2>1, <2>2, <2>3, <3>1, <3>2, AloneKept DEF RecordTree, RunInv, InstallInv, On, Work,
             Preparing, RollingBack, Cleaning, Locked, Installing, Undoing, Removing
    <3>7. RemoveInv(r)'
      BY <1>5, <2>1, <2>2, <2>3, <3>1, <3>2, UsedKept DEF RecordTree, RunInv, RemoveInv, On, Work,
             Preparing, RollingBack, Cleaning, Locked, Installing, Undoing, Removing
    <3> QED
      BY <3>3, <3>4, <3>5, <3>6, <3>7 DEF RunInv
  <2> QED
    BY <1>5, <2>3 DEF RecordTree
<1>6. CASE InstallLimits(s, r)
  <2>1. r \notin live /\ row[r].status = "running" /\ RunInv(r)
    BY <1>6, BusyIsNotLive DEF InstallLimits, Fault, Work, Preparing, RollingBack, Cleaning, Locked,
           Installing, Undoing, Removing
  <2>2. SpoolOf[r] = s /\ pc[s].run = r /\ pc[s].at = "limit" /\ pc'[s].run = r /\ pc'[s].at \in {"assign", "undo_tree"}
    BY <1>6, GotoStep DEF InstallLimits, Fault
  <2>3. RowInv(r)'
    BY <1>6, <2>1, <2>2 DEF InstallLimits, Fault, TypeOK, RunInv, RowInv, Fresh, Listed, InstallInv,
           RemoveInv, ChargeInv, On, Work, Preparing, RollingBack, Cleaning, Locked, Installing,
           Undoing, Removing
  <2>4. ChargeInv(r)'
    BY <1>6, <2>1, <2>2 DEF InstallLimits, Fault, TypeOK, RunInv, ChargeInv, Listed, RowInv, Fresh,
           InstallInv, Handle, On, Work, Preparing, RollingBack, Cleaning, Locked, Installing,
           Undoing, Removing
  <2>5. LockInv(r)'
    BY <1>6, <2>1, <2>2 DEF InstallLimits, Fault, TypeOK, RunInv, LockInv, On, Work, Preparing,
           RollingBack, Cleaning, Locked, Installing, Undoing, Removing
  <2>6. InstallInv(r)'
    BY <1>6, <2>1, <2>2, AloneKept DEF InstallLimits, Fault, TypeOK, RunInv, InstallInv, ChargeInv,
           Listed, RowInv, Fresh, Enforced, On, Work, Preparing, RollingBack, Cleaning, Locked,
           Installing, Undoing, Removing
  <2>7. RemoveInv(r)'
    BY <1>6, <2>1, <2>2, UsedKept DEF InstallLimits, Fault, TypeOK, RunInv, RemoveInv, InstallInv,
           ChargeInv, Listed, RowInv, On, Work, Preparing, RollingBack, Cleaning, Locked,
           Installing, Undoing, Removing
  <2> QED
    BY <2>3, <2>4, <2>5, <2>6, <2>7 DEF RunInv
<1>7. CASE AssignTree(s, r)
  <2>1. r \notin live /\ row[r].status = "running" /\ RunInv(r)
    BY <1>7, BusyIsNotLive DEF AssignTree, SetAttributes, Work, Preparing, RollingBack, Cleaning,
           Locked, Installing, Undoing, Removing
  <2>2. SpoolOf[r] = s /\ pc[s].run = r /\ pc[s].at = "assign" /\ pc'[s].run = r /\ pc'[s].at = "verify"
    BY <1>7, GotoStep DEF AssignTree, SetAttributes
  <2>3. RowInv(r)'
    BY <1>7, <2>1, <2>2 DEF AssignTree, SetAttributes, TypeOK, RunInv, RowInv, Fresh, Listed,
           InstallInv, RemoveInv, ChargeInv, On, Work, Preparing, RollingBack, Cleaning, Locked,
           Installing, Undoing, Removing
  <2>4. ChargeInv(r)'
    BY <1>7, <2>1, <2>2 DEF AssignTree, SetAttributes, TypeOK, RunInv, ChargeInv, Listed, RowInv,
           Fresh, InstallInv, Handle, On, Work, Preparing, RollingBack, Cleaning, Locked,
           Installing, Undoing, Removing
  <2>5. LockInv(r)'
    BY <1>7, <2>1, <2>2 DEF AssignTree, SetAttributes, TypeOK, RunInv, LockInv, On, Work, Preparing,
           RollingBack, Cleaning, Locked, Installing, Undoing, Removing
  <2>6. InstallInv(r)'
    BY <1>7, <2>1, <2>2, AloneKept DEF AssignTree, SetAttributes, TypeOK, RunInv, InstallInv,
           ChargeInv, Listed, RowInv, Fresh, Enforced, On, Work, Preparing, RollingBack, Cleaning,
           Locked, Installing, Undoing, Removing
  <2>7. RemoveInv(r)'
    BY <1>7, <2>1, <2>2, UsedKept DEF AssignTree, SetAttributes, TypeOK, RunInv, RemoveInv,
           InstallInv, ChargeInv, Listed, RowInv, On, Work, Preparing, RollingBack, Cleaning,
           Locked, Installing, Undoing, Removing
  <2> QED
    BY <2>3, <2>4, <2>5, <2>6, <2>7 DEF RunInv
<1>8. CASE Ready(s, r)
  <2>1. r \notin live /\ row[r].status = "running" /\ RunInv(r) /\ TypeOK
    BY <1>8, BusyIsNotLive DEF Ready, Write, Unlock, Work, Preparing, RollingBack, Cleaning, Locked,
           Installing, Undoing, Removing
  <2>2. SpoolOf[r] = s /\ pc[s].run = r /\ pc[s].at = "verify"
    BY <1>8, <2>1 DEF Ready, At
  <2>3. CASE Write(r, [manifest[r] EXCEPT !.phase = "ready"]) /\ Goto(s, "save")
    <3>1. pc'[s].run = r /\ pc'[s].at = "save"
      BY <1>8, <2>1, <2>3, GotoStep DEF Ready
    <3>2. Listed(r) /\ Listed(r)' /\ manifest'[r].project = manifest[r].project
      BY <1>8, <2>1, <2>3, InstallingHas, PhaseWritten DEF Ready, Installing, Phases
    <3>3. RowInv(r)'
      BY <1>8, <2>1, <2>2, <2>3, <3>1, <3>2 DEF Ready, RunInv, RowInv, Fresh, Listed, InstallInv,
             On, Work, Preparing, RollingBack, Cleaning, Locked, Installing, Undoing, Removing
    <3>4. ChargeInv(r)'
      BY <1>8, <2>1, <2>2, <2>3, <3>1, <3>2, ChargeKept DEF Ready, RunInv
    <3>5. ~On(r, Locked)'
      BY <2>2, <3>1 DEF On, Locked, Installing, Undoing, Removing
    <3> QED
      BY <3>3, <3>4, <3>5, Unlocked DEF RunInv
  <2>4. CASE Goto(s, "undo_tree") /\ UNCHANGED <<manifest, lock>>
    <3>1. pc'[s].run = r /\ pc'[s].at = "undo_tree"
      BY <1>8, <2>1, <2>4, GotoStep DEF Ready
    <3>2. RowInv(r)'
      BY <1>8, <2>1, <2>2, <2>4, <3>1 DEF Ready, RunInv, RowInv, Fresh, Listed, InstallInv, On,
             Work, Preparing, RollingBack, Cleaning, Locked, Installing, Undoing, Removing
    <3>3. ChargeInv(r)'
      BY <1>8, <2>1, <2>2, <2>4, <3>1, ChargeKept DEF Ready, RunInv, Listed
    <3>4. LockInv(r)'
      BY <1>8, <2>1, <2>2, <2>4, <3>1 DEF Ready, RunInv, LockInv, On, Locked, Installing, Undoing,
             Removing
    <3>5. InstallInv(r)'
      BY <1>8, <2>1, <2>2, <2>4, <3>1, AloneKept DEF Ready, RunInv, InstallInv, On, Work, Preparing,
             RollingBack, Cleaning, Locked, Installing, Undoing, Removing, Listed
    <3>6. RemoveInv(r)'
      BY <1>8, <2>1, <2>2, <2>4, <3>1, UsedKept DEF Ready, RunInv, RemoveInv, On, Work, Preparing,
             RollingBack, Cleaning, Locked, Installing, Undoing, Removing
    <3> QED
      BY <3>2, <3>3, <3>4, <3>5, <3>6 DEF RunInv
  <2> QED
    BY <1>8, <2>3, <2>4 DEF Ready
<1>9. CASE SaveHandle(s, r)
  <2>1. r \notin live /\ row[r].status = "running" /\ RunInv(r) /\ TypeOK
    BY <1>9, BusyIsNotLive DEF SaveHandle, Handle, Work, Preparing, RollingBack, Cleaning, Locked,
           Installing, Undoing, Removing
  <2>2. SpoolOf[r] = s /\ pc[s].run = r /\ pc[s].at = "save"
    BY <1>9, <2>1 DEF SaveHandle, At
  <2>3. CASE SaveHandle(s, r)
    <3>1. pc'[s].run = r /\ pc'[s].at = "expose"
      BY <1>9, <2>1, <2>3, GotoStep DEF SaveHandle
    <3>2. /\ Listed(r) /\ row'[r].handle = manifest[r].project /\ row'[r].handle # None
          /\ row'[r].status = "running"
      <4>1. Listed(r)
        BY <2>1, <2>2 DEF RunInv, RowInv, On
      <4>2. manifest[r].project \in Projects
        BY <2>1, <4>1, ListedType
      <4> QED
        BY <1>9, <2>1, <4>1, <4>2, QuotaConstantsOK DEF SaveHandle, Handle, TypeOK
    <3>3. RowInv(r)'
      BY <1>9, <2>1, <2>2, <2>3, <3>1, <3>2 DEF SaveHandle, RunInv, RowInv, Fresh, Listed,
             InstallInv, On, Work, Preparing, RollingBack, Cleaning, Locked, Installing, Undoing,
             Removing
    <3>4. ChargeInv(r)'
      BY <1>9, <2>1, <2>2, <2>3, <3>1, <3>2 DEF SaveHandle, RunInv, ChargeInv, Listed
    <3>5. ~On(r, Locked)'
      BY <2>2, <3>1 DEF On, Locked, Installing, Undoing, Removing
    <3> QED
      BY <3>3, <3>4, <3>5, Unlocked DEF RunInv
  <2> QED
    BY <1>9, <2>3 DEF SaveHandle
<1>10. CASE Expose(s, r)
  <2>1. r \notin live /\ row[r].status = "running" /\ RunInv(r) /\ TypeOK
    BY <1>10, BusyIsNotLive DEF Expose, Fault, Work, Preparing, RollingBack, Cleaning, Locked,
           Installing, Undoing, Removing
  <2>2. SpoolOf[r] = s /\ pc[s].run = r /\ pc[s].at = "expose"
    BY <1>10, <2>1 DEF Expose, At
  <2>3. CASE Goto(s, "enter") /\ UNCHANGED live
    <3>1. pc'[s].run = r /\ pc'[s].at = "enter"
      BY <1>10, <2>1, <2>3, GotoStep DEF Expose
    <3>2. RowInv(r)'
      BY <1>10, <2>1, <2>2, <2>3, <3>1 DEF Expose, RunInv, RowInv, Fresh, Listed, InstallInv, On,
             Work, Preparing, RollingBack, Cleaning, Locked, Installing, Undoing, Removing
    <3>3. ChargeInv(r)'
      BY <1>10, <2>1, <2>2, <2>3, <3>1, ChargeKept DEF Expose, RunInv, Listed
    <3>4. ~On(r, Locked)'
      BY <2>2, <3>1 DEF On, Locked, Installing, Undoing, Removing
    <3> QED
      BY <3>2, <3>3, <3>4, Unlocked DEF RunInv
  <2>4. CASE Return(s) /\ live' = live \cup {r}
    <3>1. \A S : ~On(r, S)'
      BY <2>1, <2>2, <2>4, QuotaConstantsOK DEF Return, On, Idle, TypeOK
    <3>2. ChargeInv(r)'
      BY <1>10, <2>1, ChargeKept DEF Expose, RunInv, Listed
    <3>3. RowInv(r)'
      BY <1>10, <2>1, <3>1 DEF Expose, RowInv
    <3> QED
      BY <3>1, <3>2, <3>3, Unlocked DEF RunInv
  <2> QED
    BY <1>10, <2>3, <2>4 DEF Expose
<1>11. CASE RollbackTree(s, r)
  <2>1. r \notin live /\ row[r].status = "running" /\ RunInv(r)
    BY <1>11, BusyIsNotLive DEF RollbackTree, SetAttributes, Work, Preparing, RollingBack, Cleaning,
           Locked, Installing, Undoing, Removing
  <2>2. SpoolOf[r] = s /\ pc[s].run = r /\ pc[s].at = "undo_tree" /\ pc'[s].run = r /\ pc'[s].at = "undo_limit"
    BY <1>11, GotoStep DEF RollbackTree, SetAttributes
  <2>3. RowInv(r)'
    BY <1>11, <2>1, <2>2 DEF RollbackTree, SetAttributes, TypeOK, RunInv, RowInv, Fresh, Listed,
           InstallInv, RemoveInv, ChargeInv, On, Work, Preparing, RollingBack, Cleaning, Locked,
           Installing, Undoing, Removing
  <2>4. ChargeInv(r)'
    BY <1>11, <2>1, <2>2 DEF RollbackTree, SetAttributes, TypeOK, RunInv, ChargeInv, Listed, RowInv,
           Fresh, InstallInv, Handle, On, Work, Preparing, RollingBack, Cleaning, Locked,
           Installing, Undoing, Removing
  <2>5. LockInv(r)'
    BY <1>11, <2>1, <2>2 DEF RollbackTree, SetAttributes, TypeOK, RunInv, LockInv, On, Work,
           Preparing, RollingBack, Cleaning, Locked, Installing, Undoing, Removing
  <2>6. InstallInv(r)'
    BY <1>11, <2>1, <2>2, AloneKept DEF RollbackTree, SetAttributes, TypeOK, RunInv, InstallInv,
           ChargeInv, Listed, RowInv, Fresh, Enforced, On, Work, Preparing, RollingBack, Cleaning,
           Locked, Installing, Undoing, Removing
  <2>7. RemoveInv(r)'
    BY <1>11, <2>1, <2>2, UsedKept DEF RollbackTree, SetAttributes, TypeOK, RunInv, RemoveInv,
           InstallInv, ChargeInv, Listed, RowInv, On, Work, Preparing, RollingBack, Cleaning,
           Locked, Installing, Undoing, Removing
  <2> QED
    BY <2>3, <2>4, <2>5, <2>6, <2>7 DEF RunInv
<1>12. CASE RollbackLimits(s, r)
  <2>1. r \notin live /\ row[r].status = "running" /\ RunInv(r) /\ TypeOK
    BY <1>12, BusyIsNotLive DEF RollbackLimits, SetQuota, Unlock, Work, Preparing, RollingBack,
           Cleaning, Locked, Installing, Undoing, Removing
  <2>2. SpoolOf[r] = s /\ pc[s].run = r /\ pc[s].at = "undo_limit"
    BY <1>12, <2>1 DEF RollbackLimits, At
  <2>3. CASE SetQuota(manifest[r].project, 0) /\ Goto(s, "undo_manifest") /\ UNCHANGED lock
    <3>1. pc'[s].run = r /\ pc'[s].at = "undo_manifest"
      BY <1>12, <2>1, <2>3, GotoStep DEF RollbackLimits
    <3>2. limits'[manifest[r].project] = 0
      BY <1>12, <2>1, <2>3, InstallingHas DEF RollbackLimits, Installing, Undoing, SetQuota, TypeOK
    <3>3. RowInv(r)'
      BY <1>12, <2>1, <2>2, <2>3, <3>1, <3>2 DEF RollbackLimits, RunInv, RowInv, Fresh, Listed,
             InstallInv, On, Work, Preparing, RollingBack, Cleaning, Locked, Installing, Undoing,
             Removing
    <3>4. ChargeInv(r)'
      BY <1>12, <2>1, <2>2, <2>3, <3>1, <3>2, ChargeKept DEF RollbackLimits, RunInv, Listed
    <3>5. LockInv(r)'
      BY <1>12, <2>1, <2>2, <2>3, <3>1, <3>2 DEF RollbackLimits, RunInv, LockInv, On, Locked,
             Installing, Undoing, Removing
    <3>6. InstallInv(r)'
      BY <1>12, <2>1, <2>2, <2>3, <3>1, <3>2, AloneKept DEF RollbackLimits, RunInv, InstallInv, On,
             Work, Preparing, RollingBack, Cleaning, Locked, Installing, Undoing, Removing, Listed
    <3>7. RemoveInv(r)'
      BY <1>12, <2>1, <2>2, <2>3, <3>1, <3>2, UsedKept DEF RollbackLimits, RunInv, RemoveInv, On,
             Work, Preparing, RollingBack, Cleaning, Locked, Installing, Undoing, Removing
    <3> QED
      BY <3>3, <3>4, <3>5, <3>6, <3>7 DEF RunInv
  <2>4. CASE Unlock /\ Goto(s, "fail")
    <3>1. pc'[s].run = r /\ pc'[s].at = "fail"
      BY <1>12, <2>1, <2>4, GotoStep DEF RollbackLimits
    <3>2. RowInv(r)'
      BY <1>12, <2>1, <2>2, <2>4, <3>1 DEF RollbackLimits, RunInv, RowInv, Fresh, Listed,
             InstallInv, On, Work, Preparing, RollingBack, Cleaning, Locked, Installing, Undoing,
             Removing
    <3>3. ChargeInv(r)'
      BY <1>12, <2>1, <2>2, <2>4, <3>1, ChargeKept DEF RollbackLimits, RunInv, Listed
    <3>4. ~On(r, Locked)'
      BY <2>2, <3>1 DEF On, Locked, Installing, Undoing, Removing
    <3> QED
      BY <3>2, <3>3, <3>4, Unlocked DEF RunInv
  <2> QED
    BY <1>12, <2>3, <2>4 DEF RollbackLimits
<1>13. CASE RollbackManifest(s, r)
  <2>1. r \notin live /\ row[r].status = "running" /\ RunInv(r)
    BY <1>13, BusyIsNotLive DEF RollbackManifest, Unlist, Unlock, Work, Preparing, RollingBack,
           Cleaning, Locked, Installing, Undoing, Removing
  <2>2. SpoolOf[r] = s /\ pc[s].run = r /\ pc[s].at = "undo_manifest" /\ pc'[s].run = r /\ pc'[s].at = "fail"
    BY <1>13, GotoStep DEF RollbackManifest, Unlist, Unlock
  <2>3. RowInv(r)'
    BY <1>13, <2>1, <2>2 DEF RollbackManifest, Unlist, Unlock, TypeOK, RunInv, RowInv, Fresh,
           Listed, InstallInv, RemoveInv, ChargeInv, On, Work, Preparing, RollingBack, Cleaning,
           Locked, Installing, Undoing, Removing
  <2>4. ChargeInv(r)'
    BY <1>13, <2>1, <2>2 DEF RollbackManifest, Unlist, Unlock, TypeOK, RunInv, ChargeInv, Listed,
           RowInv, Fresh, InstallInv, Handle, On, Work, Preparing, RollingBack, Cleaning, Locked,
           Installing, Undoing, Removing
  <2>5. LockInv(r)'
    BY <1>13, <2>1, <2>2 DEF RollbackManifest, Unlist, Unlock, TypeOK, RunInv, LockInv, On, Work,
           Preparing, RollingBack, Cleaning, Locked, Installing, Undoing, Removing
  <2>6. InstallInv(r)'
    BY <1>13, <2>1, <2>2, AloneKept DEF RollbackManifest, Unlist, Unlock, TypeOK, RunInv,
           InstallInv, ChargeInv, Listed, RowInv, Fresh, Enforced, On, Work, Preparing, RollingBack,
           Cleaning, Locked, Installing, Undoing, Removing
  <2>7. RemoveInv(r)'
    BY <1>13, <2>1, <2>2, UsedKept DEF RollbackManifest, Unlist, Unlock, TypeOK, RunInv, RemoveInv,
           InstallInv, ChargeInv, Listed, RowInv, On, Work, Preparing, RollingBack, Cleaning,
           Locked, Installing, Undoing, Removing
  <2> QED
    BY <2>3, <2>4, <2>5, <2>6, <2>7 DEF RunInv
<1>14. CASE FailRun(s, r)
  <2>1. SpoolOf[r] = s /\ TypeOK /\ RunInv(r) /\ pc'[s] = Idle
    BY <1>14 DEF FailRun, At, Return, TypeOK
  <2>2. \A S : ~On(r, S)'
    BY <2>1, QuotaConstantsOK DEF On, Idle
  <2>3. ChargeInv(r)'
    BY <1>14, <2>1, ChargeKept DEF FailRun, RunInv, Listed, TypeOK
  <2>4. RowInv(r)'
    BY <1>14, <2>1, <2>2 DEF FailRun, RunInv, RowInv, Fresh, TypeOK
  <2> QED
    BY <2>2, <2>3, <2>4, Unlocked DEF RunInv
<1>15. CASE Finish(s, r)
  <2>1. SpoolOf[r] = s /\ TypeOK /\ RunInv(r) /\ pc'[s].run = r /\ pc'[s].at = "enter"
    BY <1>15 DEF Finish, TypeOK
  <2>2. ~On(r, Locked)'
    BY <2>1 DEF On, Locked, Installing, Undoing, Removing
  <2>3. ChargeInv(r)'
    BY <1>15, <2>1, ChargeKept DEF Finish, RunInv, Listed, TypeOK
  <2>4. RowInv(r)'
    BY <1>15, <2>1 DEF Finish, RunInv, RowInv, Fresh, TypeOK, On, Work, Preparing, RollingBack,
           Cleaning, Locked, Installing, Undoing, Removing
  <2> QED
    BY <2>2, <2>3, <2>4, Unlocked DEF RunInv
<1>16. CASE CleanupLock(s, r)
  <2>1. r \notin live /\ row[r].status = "running" /\ RunInv(r)
    BY <1>16, BusyIsNotLive DEF CleanupLock, Lock, Work, Preparing, RollingBack, Cleaning, Locked,
           Installing, Undoing, Removing
  <2>2. SpoolOf[r] = s /\ pc[s].run = r /\ pc[s].at = "enter" /\ pc'[s].run = r /\ pc'[s].at = "mark"
    BY <1>16, GotoStep DEF CleanupLock, Lock
  <2>3. RowInv(r)'
    BY <1>16, <2>1, <2>2 DEF CleanupLock, Lock, TypeOK, RunInv, RowInv, Fresh, Listed, InstallInv,
           RemoveInv, ChargeInv, On, Work, Preparing, RollingBack, Cleaning, Locked, Installing,
           Undoing, Removing
  <2>4. ChargeInv(r)'
    BY <1>16, <2>1, <2>2 DEF CleanupLock, Lock, TypeOK, RunInv, ChargeInv, Listed, RowInv, Fresh,
           InstallInv, Handle, On, Work, Preparing, RollingBack, Cleaning, Locked, Installing,
           Undoing, Removing
  <2>5. LockInv(r)'
    BY <1>16, <2>1, <2>2 DEF CleanupLock, Lock, TypeOK, RunInv, LockInv, On, Work, Preparing,
           RollingBack, Cleaning, Locked, Installing, Undoing, Removing
  <2>6. InstallInv(r)'
    BY <1>16, <2>1, <2>2, AloneKept DEF CleanupLock, Lock, TypeOK, RunInv, InstallInv, ChargeInv,
           Listed, RowInv, Fresh, Enforced, On, Work, Preparing, RollingBack, Cleaning, Locked,
           Installing, Undoing, Removing
  <2>7. RemoveInv(r)'
    BY <1>16, <2>1, <2>2, UsedKept DEF CleanupLock, Lock, TypeOK, RunInv, RemoveInv, InstallInv,
           ChargeInv, Listed, RowInv, On, Work, Preparing, RollingBack, Cleaning, Locked,
           Installing, Undoing, Removing
  <2> QED
    BY <2>3, <2>4, <2>5, <2>6, <2>7 DEF RunInv
<1>17. CASE MarkCleaning(s, r)
  <2>1. r \notin live /\ row[r].status = "running" /\ RunInv(r) /\ TypeOK
    BY <1>17, BusyIsNotLive DEF MarkCleaning, Write, Work, Preparing, RollingBack, Cleaning, Locked,
           Installing, Undoing, Removing
  <2>2. SpoolOf[r] = s /\ pc[s].run = r /\ pc[s].at = "mark"
    BY <1>17, <2>1 DEF MarkCleaning, At
  <2>3. CASE Resolves(r) /\ Write(r, [manifest[r] EXCEPT !.phase = "cleaning"]) /\ Goto(s, "remove")
    <3>1. pc'[s].run = r /\ pc'[s].at = "remove"
      BY <1>17, <2>1, <2>3, GotoStep DEF MarkCleaning
    <3>2. Listed(r) /\ Listed(r)' /\ manifest'[r].project = manifest[r].project
      BY <1>17, <2>1, <2>3, PhaseWritten DEF Resolves, Phases
    <3>3. RowInv(r)'
      BY <1>17, <2>1, <2>2, <2>3, <3>1, <3>2 DEF MarkCleaning, RunInv, RowInv, Fresh, Listed,
             InstallInv, On, Work, Preparing, RollingBack, Cleaning, Locked, Installing, Undoing,
             Removing
    <3>4. ChargeInv(r)'
      BY <1>17, <2>1, <2>2, <2>3, <3>1, <3>2, ChargeKept DEF MarkCleaning, RunInv
    <3>5. LockInv(r)'
      BY <1>17, <2>1, <2>2, <2>3, <3>1, <3>2 DEF MarkCleaning, RunInv, LockInv, On, Locked,
             Installing, Undoing, Removing
    <3>6. InstallInv(r)'
      BY <1>17, <2>1, <2>2, <2>3, <3>1, <3>2, AloneKept DEF MarkCleaning, RunInv, InstallInv, On,
             Work, Preparing, RollingBack, Cleaning, Locked, Installing, Undoing, Removing
    <3>7. RemoveInv(r)'
      BY <1>17, <2>1, <2>2, <2>3, <3>1, <3>2, UsedKept DEF MarkCleaning, RunInv, RemoveInv, On,
             Work, Preparing, RollingBack, Cleaning, Locked, Installing, Undoing, Removing
    <3> QED
      BY <3>3, <3>4, <3>5, <3>6, <3>7 DEF RunInv
  <2>4. CASE tree[r] = None /\ Goto(s, "wait") /\ UNCHANGED manifest
    <3>1. pc'[s].run = r /\ pc'[s].at = "wait"
      BY <1>17, <2>1, <2>4, GotoStep DEF MarkCleaning
    <3>2. RowInv(r)'
      BY <1>17, <2>1, <2>2, <2>4, <3>1 DEF MarkCleaning, RunInv, RowInv, Fresh, Listed, InstallInv,
             On, Work, Preparing, RollingBack, Cleaning, Locked, Installing, Undoing, Removing
    <3>3. ChargeInv(r)'
      BY <1>17, <2>1, <2>2, <2>4, <3>1, ChargeKept DEF MarkCleaning, RunInv, Listed
    <3>4. LockInv(r)'
      BY <1>17, <2>1, <2>2, <2>4, <3>1 DEF MarkCleaning, RunInv, LockInv, On, Locked, Installing,
             Undoing, Removing
    <3>5. InstallInv(r)'
      BY <1>17, <2>1, <2>2, <2>4, <3>1, AloneKept DEF MarkCleaning, RunInv, InstallInv, On, Work,
             Preparing, RollingBack, Cleaning, Locked, Installing, Undoing, Removing
    <3>6. RemoveInv(r)'
      BY <1>17, <2>1, <2>2, <2>4, <3>1, UsedKept DEF MarkCleaning, RunInv, RemoveInv, On, Work,
             Preparing, RollingBack, Cleaning, Locked, Installing, Undoing, Removing
    <3> QED
      BY <3>2, <3>3, <3>4, <3>5, <3>6 DEF RunInv
  <2> QED
    BY <1>17, <2>3, <2>4 DEF MarkCleaning
<1>18. CASE RemoveTree(s, r)
  <2>1. r \notin live /\ row[r].status = "running" /\ RunInv(r) /\ TypeOK
    BY <1>18, BusyIsNotLive DEF RemoveTree, SetAttributes, Fault, GiveUp, Unlock, Work, Preparing,
           RollingBack, Cleaning, Locked, Installing, Undoing, Removing
  <2>2. SpoolOf[r] = s /\ pc[s].run = r /\ pc[s].at = "remove"
    BY <1>18, <2>1 DEF RemoveTree, At
  <2>3. CASE /\ Enforced(r, row[r].handle)
             /\ SetAttributes(r, None)
             /\ UNCHANGED open \/ open' = [open EXCEPT ![r] = row[r].handle]
             /\ Goto(s, "wait")
             /\ UNCHANGED lock
    <3>1. pc'[s].run = r /\ pc'[s].at = "wait"
      BY <1>18, <2>1, <2>3, GotoStep DEF RemoveTree
    <3>2. /\ row[r].handle \in Projects /\ Listed(r) /\ row[r].handle = manifest[r].project
          /\ tree'[r] = None /\ open'[r] \in {open[r], row[r].handle}
      <4>1. row[r].handle \in Projects /\ row[r].handle # None
        BY <1>18, RemovingHas DEF RemoveTree, Removing
      <4>2. Listed(r) /\ row[r].handle = manifest[r].project
        BY <2>1, <2>2, <4>1 DEF RunInv, RemoveInv, ChargeInv, On
      <4>3. tree'[r] = None
        BY <2>1, <2>3 DEF SetAttributes, TypeOK
      <4>4. open'[r] = open[r] \/ open'[r] = row[r].handle
        BY <2>1, <2>3 DEF TypeOK
      <4> QED
        BY <4>1, <4>2, <4>3, <4>4
    <3>3. RowInv(r)'
      BY <1>18, <2>1, <2>2, <2>3, <3>1, <3>2 DEF RemoveTree, RunInv, RowInv, Fresh, Listed,
             InstallInv, On, Work, Preparing, RollingBack, Cleaning, Locked, Installing, Undoing,
             Removing
    <3>4. ChargeInv(r)'
      BY <1>18, <2>1, <2>2, <2>3, <3>1, <3>2, QuotaConstantsOK DEF RemoveTree, RunInv, ChargeInv,
             Listed
    <3>5. LockInv(r)'
      BY <1>18, <2>1, <2>2, <2>3, <3>1, <3>2 DEF RemoveTree, RunInv, LockInv, On, Locked,
             Installing, Undoing, Removing
    <3>6. InstallInv(r)'
      BY <1>18, <2>1, <2>2, <2>3, <3>1, <3>2, AloneKept DEF RemoveTree, RunInv, InstallInv, On,
             Work, Preparing, RollingBack, Cleaning, Locked, Installing, Undoing, Removing
    <3>7. RemoveInv(r)'
      BY <1>18, <2>1, <2>2, <2>3, <3>1, <3>2, UsedKept DEF RemoveTree, RunInv, RemoveInv, On, Work,
             Preparing, RollingBack, Cleaning, Locked, Installing, Undoing, Removing
    <3> QED
      BY <3>3, <3>4, <3>5, <3>6, <3>7 DEF RunInv
  <2>4. CASE Goto(s, "drop") /\ UNCHANGED <<tree, open>>
    <3>1. pc'[s].run = r /\ pc'[s].at = "drop"
      BY <1>18, <2>1, <2>4, GotoStep DEF RemoveTree
    <3>2. RowInv(r)'
      BY <1>18, <2>1, <2>2, <2>4, <3>1 DEF RemoveTree, RunInv, RowInv, Fresh, Listed, InstallInv,
             On, Work, Preparing, RollingBack, Cleaning, Locked, Installing, Undoing, Removing
    <3>3. ChargeInv(r)'
      BY <1>18, <2>1, <2>2, <2>4, <3>1, ChargeKept DEF RemoveTree, RunInv, Listed
    <3>4. ~On(r, Locked)'
      BY <2>2, <3>1 DEF On, Locked, Installing, Undoing, Removing
    <3> QED
      BY <3>2, <3>3, <3>4, Unlocked DEF RunInv
  <2> QED
    BY <1>18, <2>3, <2>4 DEF RemoveTree, GiveUp
<1>19. CASE AwaitUsage(s, r)
  <2>1. r \notin live /\ row[r].status = "running" /\ RunInv(r) /\ TypeOK
    BY <1>19, BusyIsNotLive DEF AwaitUsage, GiveUp, Unlock, Work, Preparing, RollingBack, Cleaning,
           Locked, Installing, Undoing, Removing
  <2>2. SpoolOf[r] = s /\ pc[s].run = r /\ pc[s].at = "wait"
    BY <1>19, <2>1 DEF AwaitUsage, At
  <2>3. CASE ~Used(row[r].handle) /\ Goto(s, "clear") /\ UNCHANGED lock
    <3>1. pc'[s].run = r /\ pc'[s].at = "clear"
      BY <1>19, <2>1, <2>3, GotoStep DEF AwaitUsage
    <3>2. ~Used(row[r].handle)' /\ row' = row
      BY <1>19, <2>3 DEF AwaitUsage, Used, ChargedTo
    <3>3. RowInv(r)'
      BY <1>19, <2>1, <2>2, <2>3, <3>1, <3>2 DEF AwaitUsage, RunInv, RowInv, Fresh, Listed,
             InstallInv, On, Work, Preparing, RollingBack, Cleaning, Locked, Installing, Undoing,
             Removing
    <3>4. ChargeInv(r)'
      BY <1>19, <2>1, <2>2, <2>3, <3>1, <3>2, ChargeKept DEF AwaitUsage, RunInv, Listed
    <3>5. LockInv(r)'
      BY <1>19, <2>1, <2>2, <2>3, <3>1, <3>2 DEF AwaitUsage, RunInv, LockInv, On, Locked,
             Installing, Undoing, Removing
    <3>6. InstallInv(r)'
      BY <1>19, <2>1, <2>2, <2>3, <3>1, <3>2, AloneKept DEF AwaitUsage, RunInv, InstallInv, On,
             Work, Preparing, RollingBack, Cleaning, Locked, Installing, Undoing, Removing
    <3>7. RemoveInv(r)'
      BY <1>19, <2>1, <2>2, <2>3, <3>1, <3>2, UsedKept DEF AwaitUsage, RunInv, RemoveInv, On, Work,
             Preparing, RollingBack, Cleaning, Locked, Installing, Undoing, Removing
    <3> QED
      BY <3>3, <3>4, <3>5, <3>6, <3>7 DEF RunInv
  <2>4. CASE Goto(s, "drop")
    <3>1. pc'[s].run = r /\ pc'[s].at = "drop"
      BY <1>19, <2>1, <2>4, GotoStep DEF AwaitUsage
    <3>2. RowInv(r)'
      BY <1>19, <2>1, <2>2, <2>4, <3>1 DEF AwaitUsage, RunInv, RowInv, Fresh, Listed, InstallInv,
             On, Work, Preparing, RollingBack, Cleaning, Locked, Installing, Undoing, Removing
    <3>3. ChargeInv(r)'
      BY <1>19, <2>1, <2>2, <2>4, <3>1, ChargeKept DEF AwaitUsage, RunInv, Listed
    <3>4. ~On(r, Locked)'
      BY <2>2, <3>1 DEF On, Locked, Installing, Undoing, Removing
    <3> QED
      BY <3>2, <3>3, <3>4, Unlocked DEF RunInv
  <2> QED
    BY <1>19, <2>3, <2>4 DEF AwaitUsage, GiveUp
<1>20. CASE ClearLimits(s, r)
  <2>1. r \notin live /\ row[r].status = "running" /\ RunInv(r) /\ TypeOK
    BY <1>20, BusyIsNotLive DEF ClearLimits, SetQuota, GiveUp, Unlock, Fault, Work, Preparing,
           RollingBack, Cleaning, Locked, Installing, Undoing, Removing
  <2>2. SpoolOf[r] = s /\ pc[s].run = r /\ pc[s].at = "clear"
    BY <1>20, <2>1 DEF ClearLimits, At
  <2>3. CASE SetQuota(row[r].handle, 0) /\ Goto(s, "unlist") /\ UNCHANGED lock
    <3>1. pc'[s].run = r /\ pc'[s].at = "unlist"
      BY <1>20, <2>1, <2>3, GotoStep DEF ClearLimits
    <3>2. ~Used(row[r].handle)' /\ row' = row /\ limits'[row[r].handle] = 0 /\ tree'[r] = None
      BY <1>20, <2>1, <2>2, <2>3, RemovingHas DEF ClearLimits, Removing, RunInv, RemoveInv, On,
             Used, ChargedTo, SetQuota, TypeOK
    <3>3. RowInv(r)'
      BY <1>20, <2>1, <2>2, <2>3, <3>1, <3>2 DEF ClearLimits, RunInv, RowInv, Fresh, Listed,
             InstallInv, On, Work, Preparing, RollingBack, Cleaning, Locked, Installing, Undoing,
             Removing
    <3>4. ChargeInv(r)'
      BY <1>20, <2>1, <2>2, <2>3, <3>1, <3>2, ChargeKept DEF ClearLimits, RunInv, Listed
    <3>5. LockInv(r)'
      BY <1>20, <2>1, <2>2, <2>3, <3>1, <3>2 DEF ClearLimits, RunInv, LockInv, On, Locked,
             Installing, Undoing, Removing
    <3>6. InstallInv(r)'
      BY <1>20, <2>1, <2>2, <2>3, <3>1, <3>2, AloneKept DEF ClearLimits, RunInv, InstallInv, On,
             Work, Preparing, RollingBack, Cleaning, Locked, Installing, Undoing, Removing
    <3>7. RemoveInv(r)'
      BY <1>20, <2>1, <2>2, <2>3, <3>1, <3>2, UsedKept DEF ClearLimits, RunInv, RemoveInv, On, Work,
             Preparing, RollingBack, Cleaning, Locked, Installing, Undoing, Removing
    <3> QED
      BY <3>3, <3>4, <3>5, <3>6, <3>7 DEF RunInv
  <2>4. CASE Goto(s, "drop")
    <3>1. pc'[s].run = r /\ pc'[s].at = "drop"
      BY <1>20, <2>1, <2>4, GotoStep DEF ClearLimits
    <3>2. RowInv(r)'
      BY <1>20, <2>1, <2>2, <2>4, <3>1 DEF ClearLimits, RunInv, RowInv, Fresh, Listed, InstallInv,
             On, Work, Preparing, RollingBack, Cleaning, Locked, Installing, Undoing, Removing
    <3>3. ChargeInv(r)'
      BY <1>20, <2>1, <2>2, <2>4, <3>1, ChargeKept DEF ClearLimits, RunInv, Listed
    <3>4. ~On(r, Locked)'
      BY <2>2, <3>1 DEF On, Locked, Installing, Undoing, Removing
    <3> QED
      BY <3>2, <3>3, <3>4, Unlocked DEF RunInv
  <2> QED
    BY <1>20, <2>3, <2>4 DEF ClearLimits, GiveUp
<1>21. CASE RemoveManifest(s, r)
  <2>1. r \notin live /\ row[r].status = "running" /\ RunInv(r) /\ TypeOK
    BY <1>21, BusyIsNotLive DEF RemoveManifest, Unlist, Unlock, Work, Preparing, RollingBack,
           Cleaning, Locked, Installing, Undoing, Removing
  <2>2. SpoolOf[r] = s /\ pc[s].run = r /\ pc[s].at = "unlist"
    BY <1>21, <2>1 DEF RemoveManifest, At
  <2>3. CASE RemoveManifest(s, r)
    <3>1. pc'[s].run = r /\ pc'[s].at = "drop"
      BY <1>21, <2>1, <2>3, GotoStep DEF RemoveManifest
    <3>2. row[r].handle \in Projects /\ tree[r] = None /\ open[r] = None
      BY <1>21, <2>1, <2>2, RemovingHas DEF RemoveManifest, Removing, RunInv, RemoveInv, ChargeInv,
             On, Used, ChargedTo, TypeOK
    <3>3. RowInv(r)'
      BY <1>21, <2>1, <2>2, <2>3, <3>1, <3>2 DEF RemoveManifest, RunInv, RowInv, Fresh, Listed,
             InstallInv, On, Work, Preparing, RollingBack, Cleaning, Locked, Installing, Undoing,
             Removing
    <3>4. ChargeInv(r)'
      BY <1>21, <2>1, <2>2, <2>3, <3>1, <3>2 DEF RemoveManifest, Unlist, ChargeInv, Listed, TypeOK
    <3>5. ~On(r, Locked)'
      BY <2>2, <3>1 DEF On, Locked, Installing, Undoing, Removing
    <3> QED
      BY <3>3, <3>4, <3>5, Unlocked DEF RunInv
  <2> QED
    BY <1>21, <2>3 DEF RemoveManifest
<1>22. CASE DropHandle(s, r)
  <2>1. r \notin live /\ row[r].status = "running" /\ RunInv(r)
    BY <1>22, BusyIsNotLive DEF DropHandle, Work, Preparing, RollingBack, Cleaning, Locked,
           Installing, Undoing, Removing
  <2>2. SpoolOf[r] = s /\ pc[s].run = r /\ pc[s].at = "drop" /\ pc'[s].run = r /\ pc'[s].at = "end"
    BY <1>22, GotoStep DEF DropHandle
  <2>3. RowInv(r)'
    BY <1>22, <2>1, <2>2 DEF DropHandle, TypeOK, RunInv, RowInv, Fresh, Listed, InstallInv,
           RemoveInv, ChargeInv, On, Work, Preparing, RollingBack, Cleaning, Locked, Installing,
           Undoing, Removing
  <2>4. ChargeInv(r)'
    BY <1>22, <2>1, <2>2 DEF DropHandle, TypeOK, RunInv, ChargeInv, Listed, RowInv, Fresh,
           InstallInv, Handle, On, Work, Preparing, RollingBack, Cleaning, Locked, Installing,
           Undoing, Removing
  <2>5. LockInv(r)'
    BY <1>22, <2>1, <2>2 DEF DropHandle, TypeOK, RunInv, LockInv, On, Work, Preparing, RollingBack,
           Cleaning, Locked, Installing, Undoing, Removing
  <2>6. InstallInv(r)'
    BY <1>22, <2>1, <2>2, AloneKept DEF DropHandle, TypeOK, RunInv, InstallInv, ChargeInv, Listed,
           RowInv, Fresh, Enforced, On, Work, Preparing, RollingBack, Cleaning, Locked, Installing,
           Undoing, Removing
  <2>7. RemoveInv(r)'
    BY <1>22, <2>1, <2>2, UsedKept DEF DropHandle, TypeOK, RunInv, RemoveInv, InstallInv, ChargeInv,
           Listed, RowInv, On, Work, Preparing, RollingBack, Cleaning, Locked, Installing, Undoing,
           Removing
  <2> QED
    BY <2>3, <2>4, <2>5, <2>6, <2>7 DEF RunInv
<1>23. CASE EndRun(s, r)
  <2>1. SpoolOf[r] = s /\ TypeOK /\ RunInv(r) /\ pc'[s] = Idle
    BY <1>23 DEF EndRun, At, Return, TypeOK
  <2>2. \A S : ~On(r, S)'
    BY <2>1, QuotaConstantsOK DEF On, Idle
  <2>3. ChargeInv(r)'
    BY <1>23, <2>1, ChargeKept DEF EndRun, RunInv, Listed, TypeOK
  <2>4. RowInv(r)'
    BY <1>23, <2>1, <2>2 DEF EndRun, RunInv, RowInv, Fresh, TypeOK
  <2> QED
    BY <2>2, <2>3, <2>4, Unlocked DEF RunInv
<1>24. CASE Interrupt(s, r)
  <2>1. SpoolOf[r] = s /\ TypeOK /\ RunInv(r) /\ pc'[s] = Idle
    BY <1>24 DEF Interrupt, At, Return, TypeOK
  <2>2. \A S : ~On(r, S)'
    BY <2>1, QuotaConstantsOK DEF On, Idle
  <2>3. ChargeInv(r)'
    BY <1>24, <2>1, ChargeKept DEF Interrupt, RunInv, Listed, TypeOK
  <2>4. RowInv(r)'
    BY <1>24, <2>1, <2>2 DEF Interrupt, RunInv, RowInv, Fresh, TypeOK
  <2> QED
    BY <2>2, <2>3, <2>4, Unlocked DEF RunInv
<1>25. CASE PrepareFails(s, r)
  <2>1. PICK a \in {"create", "identify", "limit", "assign", "verify"} : At(s, r, a)
    BY <1>25 DEF PrepareFails
  <2>2. r \notin live /\ row[r].status = "running" /\ RunInv(r) /\ TypeOK
    BY <2>1, BusyIsNotLive DEF Work, Preparing, RollingBack, Cleaning, Locked, Installing, Undoing,
           Removing
  <2>3. SpoolOf[r] = s /\ pc[s].run = r /\ pc[s].at = a /\ pc'[s].run = r /\ pc'[s].at = "undo_tree"
    BY <1>25, <2>1, <2>2, GotoStep DEF PrepareFails
  <2>4. RowInv(r)'
    BY <1>25, <2>2, <2>3 DEF PrepareFails, RunInv, RowInv, On, Work, Preparing, RollingBack,
           Cleaning, Locked, Installing, Undoing, Removing
  <2>5. ChargeInv(r)'
    BY <1>25, <2>2, ChargeKept DEF PrepareFails, RunInv, Listed
  <2>6. LockInv(r)'
    BY <1>25, <2>2, <2>3 DEF PrepareFails, RunInv, LockInv, On, Locked, Installing
  <2>7. InstallInv(r)'
    BY <1>25, <2>2, <2>3, AloneKept DEF PrepareFails, RunInv, InstallInv, On, Listed, Installing,
           Undoing
  <2>8. RemoveInv(r)'
    BY <2>3 DEF RemoveInv, On
  <2> QED
    BY <2>4, <2>5, <2>6, <2>7, <2>8 DEF RunInv
<1>26. CASE PrepareGivesUp(s, r)
  <2>1. PICK a \in {"allocate", "undo_tree", "undo_limit", "undo_manifest"} : At(s, r, a)
    BY <1>26 DEF PrepareGivesUp
  <2>2. r \notin live /\ row[r].status = "running" /\ RunInv(r) /\ TypeOK
    BY <2>1, BusyIsNotLive DEF Work, Preparing, RollingBack, Cleaning, Locked, Installing, Undoing,
           Removing
  <2>3. SpoolOf[r] = s /\ pc[s].run = r /\ pc[s].at = a /\ pc'[s].run = r /\ pc'[s].at = "fail"
    BY <1>26, <2>1, <2>2, GotoStep DEF PrepareGivesUp
  <2>4. RowInv(r)'
    BY <1>26, <2>2, <2>3 DEF PrepareGivesUp, RunInv, RowInv, Fresh, Listed, InstallInv, On, Work,
           Preparing, RollingBack, Cleaning, Locked, Installing, Undoing, Removing
  <2>5. ChargeInv(r)'
    BY <1>26, <2>2, ChargeKept DEF PrepareGivesUp, RunInv, Listed
  <2>6. ~On(r, Locked)'
    BY <2>3 DEF On, Locked, Installing, Undoing, Removing
  <2> QED
    BY <2>4, <2>5, <2>6, Unlocked DEF RunInv
<1> QED
  BY <1>1, <1>2, <1>3, <1>4, <1>5, <1>6, <1>7, <1>8, <1>9, <1>10, <1>11, <1>12, <1>13, <1>14, <1>15,
     <1>16, <1>17, <1>18, <1>19, <1>20, <1>21, <1>22, <1>23, <1>24, <1>25, <1>26 DEF OperationStep,
         Prepare, Rollback, Cleanup

\* Every step of a broker for a run keeps the invariant.
LEMMA OperationKeeps ==
    ASSUME IInv, NEW s \in Spools, NEW r \in Runs, OperationStep(s, r), TypeOK'
    PROVE  IInv'
<1>1. Frame(s, r) /\ Effect(r)
  BY StepFrame, StepEffect
<1>2. \A q \in Runs : RunInv(q)'
  BY <1>1, OthersKeep, StepOwn
<1>3. ProjectsDistinct' /\ RunningIsLimited' /\ EverythingListed'
  BY <1>1, TogetherKeep
<1> QED
  BY <1>2, <1>3 DEF IInv, Accounted

------------------------------------------------------------------------------
(* Crashes, restarts and the ends of workers *)

\* A step that leaves the records and the mount alone, and ends broker s or
\* leaves the brokers alone.
LEMMA RestKeeps ==
    ASSUME IInv, TypeOK', UNCHANGED <<row, manifest, tree, limits>>, live' \subseteq live,
           \A q \in Runs : open'[q] \in {open[q], None},
           \A q \in Runs : \A S : S \subseteq Work /\ On(q, S)' => On(q, S) /\ (lock' = lock \/ lock # SpoolOf[q])
    PROVE  IInv'
<1> USE DEF IInv, Accounted
<1>1. \A q \in Runs : ChargedTo(q)' \subseteq ChargedTo(q)
  BY DEF ChargedTo
<1>2. ProjectsDistinct'
  BY <1>1 DEF ProjectsDistinct
<1>3. RunningIsLimited' /\ EverythingListed'
  BY DEF RunningIsLimited, EverythingListed, Enforced, Listed
<1>4. ASSUME NEW q \in Runs
      PROVE  RunInv(q)'
  <2>1. RunInv(q)
    OBVIOUS
  <2>2. \A S : S \subseteq Work /\ On(q, S)' => On(q, S)
    OBVIOUS
  <2>3. RowInv(q)'
    BY <2>1, <2>2 DEF RunInv, RowInv, Fresh, Listed, Work, Preparing, RollingBack, Cleaning,
           Removing
  <2>4. ChargeInv(q)'
    BY <2>1 DEF RunInv, ChargeInv, Listed
  <2>5. Locked \subseteq Work /\ Installing \subseteq Work
    BY DEF Locked, Installing, Undoing, Removing, Work, Preparing, RollingBack, Cleaning
  <2>6. LockInv(q)'
    BY <2>1, <2>5 DEF RunInv, LockInv
  <2>7. \A p : /\ Alone(q, p) => Alone(q, p)'
               /\ ~Used(p) => ~Used(p)'
    BY <1>1 DEF Alone, Used
  <2>8. InstallInv(q)'
    <3>1. \A S \in {{"create", "identify", "limit"}, {"undo_limit", "undo_manifest"}, {"undo_manifest"}} :
              On(q, S)' => On(q, S)
      BY <2>2 DEF Work, Preparing, RollingBack, Cleaning
    <3> QED
      BY <2>1, <2>2, <2>5, <2>7, <3>1 DEF RunInv, InstallInv, Listed
  <2>9. RemoveInv(q)'
    <3>1. \A S \in {{"remove"}, {"wait", "clear", "unlist"}, {"clear", "unlist"}, {"unlist"}} :
              On(q, S)' => On(q, S)
      BY <2>2 DEF Work, Preparing, RollingBack, Cleaning
    <3> QED
      BY <2>1, <2>7, <3>1 DEF RunInv, RemoveInv, Listed
  <2> QED
    BY <2>3, <2>4, <2>6, <2>8, <2>9 DEF RunInv
<1> QED
  BY <1>2, <1>3, <1>4

\* The initial state.
LEMMA InitIInv == Init => IInv
<1> SUFFICES ASSUME Init
             PROVE  IInv
  OBVIOUS
<1> USE QuotaConstantsOK DEF Init
<1>1. TypeOK
  BY DEF TypeOK, Idle
<1>2. RunningIsLimited /\ EverythingListed /\ ProjectsDistinct
  BY DEF RunningIsLimited, EverythingListed, ProjectsDistinct, ChargedTo
<1>3. ASSUME NEW r \in Runs
      PROVE  RunInv(r)
  <2>1. \A S : ~On(r, S)
    BY DEF On, Idle
  <2>2. ~(None \in Projects)
    OBVIOUS
  <2>3. Fresh(r) /\ r \notin live /\ tree[r] = None /\ open[r] = None
    BY DEF Fresh
  <2> QED
    BY <2>1, <2>2, <2>3 DEF RunInv, RowInv, ChargeInv, LockInv, InstallInv, RemoveInv, Fresh
<1> QED
  BY <1>1, <1>2, <1>3 DEF IInv, Accounted

\* Every step keeps the invariant.
LEMMA NextIInv ==
    ASSUME IInv, [Next]_vars
    PROVE  IInv'
<1>1. TypeOK /\ TypeOK'
  BY NextTypeOK DEF IInv, Accounted
<1> USE QuotaConstantsOK
<1>2. ASSUME NEW s \in Spools, NEW r \in Runs, OperationStep(s, r)
      PROVE  IInv'
  BY <1>1, <1>2, OperationKeeps
<1>3. ASSUME NEW s \in Spools, Boot(s) \/ Crash(s)
      PROVE  IInv'
  <2>1. \A x \in Spools : x # s => pc'[x] = pc[x]
    BY <1>1, <1>3 DEF Boot, Crash, TypeOK
  <2>2. pc'[s].run = None
    BY <1>1, <1>3 DEF Boot, Crash, TypeOK, Idle, Down
  <2>3. ASSUME NEW q \in Runs, NEW S, On(q, S)'
        PROVE  On(q, S) /\ (lock' = lock \/ lock # SpoolOf[q])
    <3>1. SpoolOf[q] # s /\ SpoolOf[q] \in Spools
      BY <2>2, <2>3 DEF On
    <3>2. On(q, S)
      BY <2>1, <2>3, <3>1 DEF On
    <3>3. lock' = lock \/ lock = s
      BY <1>3 DEF Boot, Crash
    <3> QED
      BY <3>1, <3>2, <3>3
  <2>4. UNCHANGED <<row, manifest, tree, open, limits, live>>
    BY <1>3 DEF Boot, Crash, disk
  <2> QED
    BY <1>1, <2>3, <2>4, RestKeeps
<1>4. ASSUME NEW r \in Runs, WorkerEnds(r) \/ FilesClosed(r)
      PROVE  IInv'
  <2>1. UNCHANGED <<row, manifest, tree, limits, lock, pc>> /\ live' \subseteq live
    BY <1>4 DEF WorkerEnds, FilesClosed, disk
  <2>2. \A q \in Runs : open'[q] \in {open[q], None}
    BY <1>1, <1>4 DEF WorkerEnds, FilesClosed, disk, TypeOK
  <2>3. \A q \in Runs : \A S : On(q, S)' => On(q, S)
    BY <2>1 DEF On
  <2> QED
    BY <1>1, <2>1, <2>2, <2>3, RestKeeps
<1>5. CASE UNCHANGED vars
  <2>1. UNCHANGED <<row, manifest, tree, open, limits, lock, pc, live>>
    BY <1>5 DEF vars
  <2>2. \A q \in Runs : \A S : On(q, S)' => On(q, S)
    BY <2>1 DEF On
  <2> QED
    BY <1>1, <2>1, <2>2, RestKeeps
<1> QED
  BY <1>2, <1>3, <1>4, <1>5 DEF Next, Broker, OperationStep

------------------------------------------------------------------------------
(* The theorems *)

\* The strengthened invariant: who holds the mount's lock, what the step of
\* each broker says of its run, and that what a run is charged to is named by
\* its manifest and its handle.
THEOREM QuotaInvariant == Spec => []IInv
<1>1. Init => IInv
  BY InitIInv
<1>2. IInv /\ [Next]_vars => IInv'
  BY NextIInv
<1> QED
  BY <1>1, <1>2, PTL DEF Spec

\* No two runs are ever charged to one project, for any number of coordinators
\* that share the mount, whatever crashes and leftovers come between:
\* allocate_project rejects a candidate with limits or usage under the lock.
THEOREM ProjectsAlwaysDistinct == Spec => []ProjectsDistinct
<1>1. IInv => ProjectsDistinct
  BY DEF IInv
<1> QED
  BY QuotaInvariant, <1>1, PTL

\* A live command always has the limits it asked for, and every limit and every
\* tree has a manifest: no cleanup, rollback or crash of any coordinator leaves
\* one that the metadata does not name.
THEOREM AlwaysAccounted == Spec => []Accounted
<1>1. IInv => Accounted
  BY DEF IInv
<1> QED
  BY QuotaInvariant, <1>1, PTL
===============================================================================
