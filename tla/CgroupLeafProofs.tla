--------------------------- MODULE CgroupLeafProofs ---------------------------
(***************************************************************************)
(* Proofs that the cgroup backend accounts for every group and every       *)
(* process in it, for any number of runs, faults and roots.                *)
(***************************************************************************)
EXTENDS CgroupLeaf, FiniteSetTheorems, TLAPS

------------------------------------------------------------------------------
(* The invariant *)

\* The broker is inside a call for one run.
Working == pc.at \in Preparing \cup Undoing \cup Ending \cup OwnerSteps

\* The run that the broker works on runs without a worker, and what is prepared,
\* undone or taken away has no process.
WorkInv ==
    /\ Working => pc.run \in Runs /\ pc.run \notin live /\ row[pc.run].status = "running"
    /\ pc.at \in Preparing \cup {"unleaf", "target", "unlist"} => pc.run \notin inside
    /\ \A r \in Runs : row[r].status = "queued" =>
          r \notin inside \cup leaves \cup live /\ manifest[r] = 0 /\ row[r].handle = 0

\* The runs for which ensure_owner was called: each has made at most one group.
Tried == {r \in Runs : row[r].status # "queued" /\ pc # [at |-> "ensure", run |-> r]}
\* Owner groups are numbered as they are made.
MadeInv == made <= Cardinality(Tried) /\ owner <= made

\* The record names the present root and owner group from ensure_owner to the
\* attach, and names a root without leaves once the root is another.
RecordInv ==
    /\ owner = 0 => leaves = {}
    /\ record # NoRecord => record.root <= root /\ (RootReused => leaves = {})
    /\ pc.at = "record" => owner # 0 /\ leaves = {} /\ live = {} /\ (record # NoRecord => ~RootReused)
    /\ pc.at \in {"enable", "leaf", "configure", "list", "save", "attach"} =>
          owner # 0 /\ record = [root |-> root, owner |-> owner]
    /\ pc.at \in {"configure", "list", "save", "attach"} => pc.run \in leaves
    /\ pc.at \in {"save", "attach"} => manifest[pc.run] = owner
    /\ pc.at = "attach" => row[pc.run].handle = owner
    /\ pc.at \in {"owner_remove", "owner_forget"} => Listed = {}
    /\ pc.at = "owner_forget" => owner = 0
    /\ pc.at = "abandon" => live = {} /\ leaves = {}

\* A live worker runs for its row, which has its handle.
LiveHasHandle == \A r \in live : row[r].status = "running" /\ row[r].handle # 0

\* What a broker that has met no fault knows: the record and the owner group
\* are there together, every leaf has a manifest and every manifest a handle
\* that resolves, and the group goes when the last manifest has gone.
FaultFree ==
    /\ pc.at \notin {"down", "abandon", "unleaf", "fail"}
    /\ pc.at \in OwnerSteps => ret = "drop"
    /\ pc.at = "record" => record = NoRecord
    /\ pc.at \notin {"record", "owner_forget"} =>
          \/ record = NoRecord /\ owner = 0
          \/ owner # 0 /\ record = [root |-> root, owner |-> owner]
    /\ pc.at = "owner_remove" => owner # 0
    /\ \A r \in leaves : manifest[r] # 0 \/ (pc.run = r /\ pc.at \in {"configure", "list"})
    /\ \A r \in Runs : manifest[r] # 0 =>
          /\ row[r].status = "running" /\ owner = manifest[r]
          /\ pc.run = r => pc.at \in {"save", "attach", "finish", "clean", "target", "unlist"}
    /\ \A r \in Runs : row[r].status = "running" => pc.run = r \/ row[r].handle # 0
    /\ \A r \in Runs : row[r].handle # 0 =>
          manifest[r] = row[r].handle \/ (pc.run = r /\ pc.at \in OwnerSteps \cup {"drop"})
    /\ pc.at \in {"finish", "clean"} => row[pc.run].handle # 0
    /\ pc.at = "clean" => pc.run \notin inside
    /\ pc.at \in {"target", "unlist"} => pc.run \notin leaves
    /\ pc.at \in {"idle", "ensure", "drop", "end"} /\ Listed = {} => owner = 0

\* Without a fault that stays so.
FaultFreeInv == faults = 0 => FaultFree

\* The inductive invariant.
IInv ==
    /\ TypeOK /\ WorkInv /\ MadeInv /\ RecordInv /\ LiveHasHandle /\ LiveIsKnown /\ InsideIsListed
    /\ FaultFreeInv

------------------------------------------------------------------------------
(* Steps of the broker *)

\* A step of an operation leaves the run in hand.
LEMMA GotoFrom ==
    ASSUME NEW r, NEW s, NEW t, At(r, s), Goto(t)
    PROVE  /\ pc.at = s /\ pc.run = r
           /\ pc' = [at |-> t, run |-> r] /\ pc'.at = t /\ pc'.run = r
  BY DEF At, Goto

\* Handles are numbers, and 0 stands for none.
LEMMA HandlesNat == Cardinality(Runs) \in Nat /\ 0 \in Handles /\ Handles \subseteq Nat
<1>1. Cardinality(Runs) \in Nat
  BY LeafConstantsOK, FS_CardinalityType
<1> QED
  BY <1>1 DEF Handles

\* The runs that have called ensure_owner are finitely many.
LEMMA TriedFinite ==
    /\ IsFiniteSet(Tried) /\ Cardinality(Tried) \in Nat /\ Cardinality(Tried) <= Cardinality(Runs)
<1>1. Tried \in SUBSET Runs
  BY DEF Tried
<1>2. IsFiniteSet(Tried) /\ Cardinality(Tried) <= Cardinality(Runs)
  BY <1>1, LeafConstantsOK, FS_Subset
<1> QED
  BY <1>2, FS_CardinalityType

\* A run that makes an owner group was not counted before.
LEMMA TriedGrows ==
    ASSUME NEW r \in Runs, r \notin Tried, Tried' = Tried \cup {r}
    PROVE  Cardinality(Tried') = Cardinality(Tried) + 1
<1>1. IsFiniteSet(Tried)
  BY TriedFinite
<1> QED
  BY <1>1, FS_AddElement


\* Every step keeps the types.
LEMMA NextTypeOK ==
    ASSUME IInv, [Next]_vars
    PROVE  TypeOK'
<1> USE LeafConstantsOK, HandlesNat DEF IInv, TypeOK, groups, metadata, Idle, Down, Preparing,
        Undoing, Ending, OwnerSteps, At, Goto
<1>1. ASSUME NEW r \in Runs, Admit(r)
      PROVE  TypeOK'
  BY <1>1 DEF Admit
<1>2. ASSUME NEW r \in Runs, EnsureOwner(r)
      PROVE  TypeOK'
  <2>1. r \in Runs \ Tried /\ made <= Cardinality(Tried)
    BY <1>2 DEF EnsureOwner, Tried, MadeInv
  <2>2. Cardinality(Tried \cup {r}) = Cardinality(Tried) + 1 /\ Cardinality(Tried \cup {r}) <= Cardinality(Runs)
    <3>1. IsFiniteSet(Tried) /\ Tried \cup {r} \in SUBSET Runs
      BY TriedFinite DEF Tried
    <3> QED
      BY <2>1, <3>1, FS_AddElement, FS_Subset
  <2>3. made \in Nat /\ made + 1 \in Handles
    BY <2>1, <2>2, TriedFinite DEF Handles
  <2>4. owner' \in Handles /\ made' \in Handles
    BY <1>2, <2>3 DEF EnsureOwner, CreateOwner
  <2> QED
    BY <1>2, <2>4, GotoFrom DEF EnsureOwner
<1>3. ASSUME NEW r \in Runs, RecordOwner(r)
      PROVE  TypeOK'
  <2>1. owner' \in Handles
    BY <1>3 DEF RecordOwner
  <2>2. record' \in [root : 1 .. MaxRoots, owner : Handles] \cup {NoRecord}
    BY <1>3 DEF RecordOwner
  <2>3. faults' \in 0 .. MaxFaults
    BY <1>3 DEF RecordOwner, Fault
  <2>4. pc' \in [at : {"enable", "fail"}, run : Runs]
    BY <1>3, GotoFrom DEF RecordOwner
  <2> QED
    BY <1>3, <2>1, <2>2, <2>3, <2>4 DEF RecordOwner
<1>4. ASSUME NEW r \in Runs, EnableControllers(r)
      PROVE  TypeOK'
  BY <1>4, GotoFrom DEF EnableControllers, Fault
<1>5. ASSUME NEW r \in Runs, CreateLeaf(r)
      PROVE  TypeOK'
  BY <1>5, GotoFrom DEF CreateLeaf, Fault
<1>6. ASSUME NEW r \in Runs, Configure(r)
      PROVE  TypeOK'
  BY <1>6, GotoFrom DEF Configure, Fault
<1>7. ASSUME NEW r \in Runs, WriteManifest(r)
      PROVE  TypeOK'
  BY <1>7, GotoFrom DEF WriteManifest, Fault
<1>8. ASSUME NEW r \in Runs, UndoLeaf(r)
      PROVE  TypeOK'
  BY <1>8, GotoFrom DEF UndoLeaf, Fault, WorkInv
<1>9. ASSUME NEW r \in Runs, FailRun(r)
      PROVE  TypeOK'
  BY <1>9, GotoFrom DEF FailRun
<1>10. ASSUME NEW r \in Runs, SaveHandle(r)
      PROVE  TypeOK'
  BY <1>10, GotoFrom DEF SaveHandle
<1>11. ASSUME NEW r \in Runs, Attach(r)
      PROVE  TypeOK'
  <2>1. r \in leaves
    BY <1>11 DEF Attach, RecordInv
  <2> QED
    BY <1>11, <2>1, GotoFrom DEF Attach, Fault
<1>12. ASSUME NEW r \in Runs, ObserveEnd(r)
      PROVE  TypeOK'
  BY <1>12 DEF ObserveEnd
<1>13. ASSUME NEW r \in Runs, Finish(r)
      PROVE  TypeOK'
  BY <1>13, GotoFrom DEF Finish, Fault
<1>14. ASSUME NEW r \in Runs, RemoveLeaf(r)
      PROVE  TypeOK'
  BY <1>14, GotoFrom DEF RemoveLeaf, Fault
<1>15. ASSUME NEW r \in Runs, RemoveTarget(r)
      PROVE  TypeOK'
  BY <1>15, GotoFrom DEF RemoveTarget, Fault
<1>16. ASSUME NEW r \in Runs, RemoveManifest(r)
      PROVE  TypeOK'
  <2>1. manifest' \in [Runs -> Handles]
    BY <1>16 DEF RemoveManifest, Fault
  <2> QED
    BY <1>16, <2>1, GotoFrom DEF RemoveManifest, Fault
<1>17. ASSUME NEW r \in Runs, DropHandle(r)
      PROVE  TypeOK'
  <2>1. row' \in [Runs -> [status : {"queued", "running", "ended"}, handle : Handles]]
    BY <1>17 DEF DropHandle
  <2> QED
    BY <1>17, <2>1, GotoFrom DEF DropHandle
<1>18. ASSUME NEW r \in Runs, EndRun(r)
      PROVE  TypeOK'
  BY <1>18, GotoFrom DEF EndRun
<1>19. ASSUME NEW r \in Runs, Interrupt(r)
      PROVE  TypeOK'
  BY <1>19 DEF Interrupt
<1>20. ASSUME NEW r \in Runs, CheckOwner(r)
      PROVE  TypeOK'
  BY <1>20, GotoFrom DEF CheckOwner
<1>21. ASSUME NEW r \in Runs, RemoveOwner(r)
      PROVE  TypeOK'
  <2>1. owner' \in Handles
    BY <1>21 DEF RemoveOwner, Fault
  <2> QED
    BY <1>21, <2>1, GotoFrom DEF RemoveOwner, Fault
<1>22. ASSUME NEW r \in Runs, ForgetOwner(r)
      PROVE  TypeOK'
  BY <1>22, GotoFrom DEF ForgetOwner, Fault
<1>23. ASSUME NEW r \in Runs, WorkerEnds(r)
      PROVE  TypeOK'
  BY <1>23 DEF WorkerEnds
<1>24. ASSUME NEW r \in Runs, Escape(r)
      PROVE  TypeOK'
  BY <1>24 DEF Escape, Fault
<1>25. ASSUME NEW r \in Runs, DescendantsEnd(r)
      PROVE  TypeOK'
  BY <1>25 DEF DescendantsEnd
<1>26. CASE AbandonReusedRoot
  <2>1. manifest' \in [Runs -> Handles]
    BY <1>26 DEF AbandonReusedRoot
  <2> QED
    BY <1>26, <2>1 DEF AbandonReusedRoot
<1>27. CASE Boot
  BY <1>27 DEF Boot
<1>28. CASE Crash
  BY <1>28 DEF Crash, Fault
<1>29. CASE RootRecreated
  <2>1. root' \in 1 .. MaxRoots /\ owner' \in Handles
    BY <1>29 DEF RootRecreated
  <2> QED
    BY <1>29, <2>1 DEF RootRecreated
<1>30. CASE UNCHANGED vars
  BY <1>30 DEF vars
<1> QED
  BY <1>1, <1>2, <1>3, <1>4, <1>5, <1>6, <1>7, <1>8, <1>9, <1>10, <1>11, <1>12, <1>13, <1>14, <1>15, <1>16,
     <1>17, <1>18, <1>19, <1>20, <1>21, <1>22, <1>23, <1>24, <1>25, <1>26, <1>27, <1>28, <1>29, <1>30
     DEF Next, Broker, Prepare, Clean

\* The count of the owner groups stays below that of the runs that have asked
\* for one.
LEMMA MadeKept ==
    ASSUME IInv, Tried \subseteq Tried', made' = made, owner' \in {0, owner}
    PROVE  MadeInv'
<1>1. /\ IsFiniteSet(Tried') /\ Cardinality(Tried') \in Nat
  <2>1. Tried' \in SUBSET Runs
    BY DEF Tried
  <2>2. IsFiniteSet(Tried')
    BY <2>1, LeafConstantsOK, FS_Subset
  <2> QED
    BY <2>2, FS_CardinalityType
<1>2. Cardinality(Tried) <= Cardinality(Tried') /\ Cardinality(Tried) \in Nat
  BY <1>1, FS_Subset, FS_CardinalityType
<1> QED
  BY <1>1, <1>2, HandlesNat DEF IInv, TypeOK, MadeInv

\* Every step keeps the count of owner groups.
LEMMA NextMadeInv ==
    ASSUME IInv, [Next]_vars
    PROVE  MadeInv'
<1> USE MadeKept DEF IInv, TypeOK, groups, metadata, Idle, Down, Tried
<1>1. ASSUME NEW r \in Runs, Admit(r)
      PROVE  MadeInv'
  BY <1>1 DEF Admit
<1>2. ASSUME NEW r \in Runs, EnsureOwner(r)
      PROVE  MadeInv'
  <2>1. r \in Runs \ Tried /\ r \in Tried' /\ Tried' = Tried \cup {r}
    BY <1>2, GotoFrom DEF EnsureOwner, WorkInv, Working, Preparing, At
  <2>2. Cardinality(Tried') = Cardinality(Tried) + 1 /\ Cardinality(Tried) \in Nat
    BY <2>1, TriedGrows, TriedFinite
  <2>3. made \in Nat /\ owner \in Nat
    BY HandlesNat
  <2> QED
    BY <1>2, <2>2, <2>3 DEF EnsureOwner, CreateOwner, MadeInv
<1>3. ASSUME NEW r \in Runs, RecordOwner(r)
      PROVE  MadeInv'
  BY <1>3, GotoFrom DEF RecordOwner, Fault
<1>4. ASSUME NEW r \in Runs, EnableControllers(r)
      PROVE  MadeInv'
  BY <1>4, GotoFrom DEF EnableControllers, Fault
<1>5. ASSUME NEW r \in Runs, CreateLeaf(r)
      PROVE  MadeInv'
  BY <1>5, GotoFrom DEF CreateLeaf, Fault
<1>6. ASSUME NEW r \in Runs, Configure(r)
      PROVE  MadeInv'
  BY <1>6, GotoFrom DEF Configure, Fault
<1>7. ASSUME NEW r \in Runs, WriteManifest(r)
      PROVE  MadeInv'
  BY <1>7, GotoFrom DEF WriteManifest, Fault
<1>8. ASSUME NEW r \in Runs, UndoLeaf(r)
      PROVE  MadeInv'
  BY <1>8, GotoFrom DEF UndoLeaf, Fault
<1>9. ASSUME NEW r \in Runs, FailRun(r)
      PROVE  MadeInv'
  BY <1>9, GotoFrom DEF FailRun
<1>10. ASSUME NEW r \in Runs, SaveHandle(r)
      PROVE  MadeInv'
  BY <1>10, GotoFrom DEF SaveHandle
<1>11. ASSUME NEW r \in Runs, Attach(r)
      PROVE  MadeInv'
  BY <1>11, GotoFrom DEF Attach, Fault
<1>12. ASSUME NEW r \in Runs, ObserveEnd(r)
      PROVE  MadeInv'
  BY <1>12 DEF ObserveEnd
<1>13. ASSUME NEW r \in Runs, Finish(r)
      PROVE  MadeInv'
  BY <1>13, GotoFrom DEF Finish, Fault
<1>14. ASSUME NEW r \in Runs, RemoveLeaf(r)
      PROVE  MadeInv'
  BY <1>14, GotoFrom DEF RemoveLeaf, Fault
<1>15. ASSUME NEW r \in Runs, RemoveTarget(r)
      PROVE  MadeInv'
  BY <1>15, GotoFrom DEF RemoveTarget, Fault
<1>16. ASSUME NEW r \in Runs, RemoveManifest(r)
      PROVE  MadeInv'
  BY <1>16, GotoFrom DEF RemoveManifest, Fault
<1>17. ASSUME NEW r \in Runs, DropHandle(r)
      PROVE  MadeInv'
  BY <1>17, GotoFrom DEF DropHandle
<1>18. ASSUME NEW r \in Runs, EndRun(r)
      PROVE  MadeInv'
  BY <1>18, GotoFrom DEF EndRun
<1>19. ASSUME NEW r \in Runs, Interrupt(r)
      PROVE  MadeInv'
  BY <1>19 DEF Interrupt
<1>20. ASSUME NEW r \in Runs, CheckOwner(r)
      PROVE  MadeInv'
  BY <1>20, GotoFrom DEF CheckOwner
<1>21. ASSUME NEW r \in Runs, RemoveOwner(r)
      PROVE  MadeInv'
  BY <1>21, GotoFrom DEF RemoveOwner, Fault
<1>22. ASSUME NEW r \in Runs, ForgetOwner(r)
      PROVE  MadeInv'
  BY <1>22, GotoFrom DEF ForgetOwner, Fault
<1>23. ASSUME NEW r \in Runs, WorkerEnds(r)
      PROVE  MadeInv'
  BY <1>23 DEF WorkerEnds
<1>24. ASSUME NEW r \in Runs, Escape(r)
      PROVE  MadeInv'
  BY <1>24 DEF Escape, Fault
<1>25. ASSUME NEW r \in Runs, DescendantsEnd(r)
      PROVE  MadeInv'
  BY <1>25 DEF DescendantsEnd
<1>26. CASE AbandonReusedRoot
  BY <1>26 DEF AbandonReusedRoot
<1>27. CASE Boot
  BY <1>27 DEF Boot
<1>28. CASE Crash
  BY <1>28 DEF Crash, Fault
<1>29. CASE RootRecreated
  BY <1>29 DEF RootRecreated
<1>30. CASE UNCHANGED vars
  BY <1>30 DEF vars
<1> QED
  BY <1>1, <1>2, <1>3, <1>4, <1>5, <1>6, <1>7, <1>8, <1>9, <1>10, <1>11, <1>12, <1>13, <1>14, <1>15, <1>16,
     <1>17, <1>18, <1>19, <1>20, <1>21, <1>22, <1>23, <1>24, <1>25, <1>26, <1>27, <1>28, <1>29, <1>30
     DEF Next, Broker, Prepare, Clean

\* Every step keeps what holds of the run in hand.
LEMMA NextWorkInv ==
    ASSUME IInv, [Next]_vars
    PROVE  WorkInv'
<1> USE LeafConstantsOK DEF IInv, TypeOK, groups, metadata, Idle, Down, WorkInv, Working,
        Preparing, Undoing, Ending, OwnerSteps
<1>1. ASSUME NEW r \in Runs, Admit(r)
      PROVE  WorkInv'
  BY <1>1 DEF Admit
<1>2. ASSUME NEW r \in Runs, EnsureOwner(r)
      PROVE  WorkInv'
  BY <1>2, GotoFrom DEF EnsureOwner, CreateOwner
<1>3. ASSUME NEW r \in Runs, RecordOwner(r)
      PROVE  WorkInv'
  BY <1>3, GotoFrom DEF RecordOwner, Fault
<1>4. ASSUME NEW r \in Runs, EnableControllers(r)
      PROVE  WorkInv'
  BY <1>4, GotoFrom DEF EnableControllers, Fault
<1>5. ASSUME NEW r \in Runs, CreateLeaf(r)
      PROVE  WorkInv'
  BY <1>5, GotoFrom DEF CreateLeaf, Fault
<1>6. ASSUME NEW r \in Runs, Configure(r)
      PROVE  WorkInv'
  BY <1>6, GotoFrom DEF Configure, Fault
<1>7. ASSUME NEW r \in Runs, WriteManifest(r)
      PROVE  WorkInv'
  BY <1>7, GotoFrom DEF WriteManifest, Fault
<1>8. ASSUME NEW r \in Runs, UndoLeaf(r)
      PROVE  WorkInv'
  BY <1>8, GotoFrom DEF UndoLeaf, Fault
<1>9. ASSUME NEW r \in Runs, FailRun(r)
      PROVE  WorkInv'
  BY <1>9, GotoFrom DEF FailRun, At
<1>10. ASSUME NEW r \in Runs, SaveHandle(r)
      PROVE  WorkInv'
  BY <1>10, GotoFrom DEF SaveHandle
<1>11. ASSUME NEW r \in Runs, Attach(r)
      PROVE  WorkInv'
  BY <1>11, GotoFrom DEF Attach, Fault, At
<1>12. ASSUME NEW r \in Runs, ObserveEnd(r)
      PROVE  WorkInv'
  BY <1>12 DEF ObserveEnd
<1>13. ASSUME NEW r \in Runs, Finish(r)
      PROVE  WorkInv'
  BY <1>13, GotoFrom DEF Finish, Fault
<1>14. ASSUME NEW r \in Runs, RemoveLeaf(r)
      PROVE  WorkInv'
  BY <1>14, GotoFrom DEF RemoveLeaf, Fault
<1>15. ASSUME NEW r \in Runs, RemoveTarget(r)
      PROVE  WorkInv'
  BY <1>15, GotoFrom DEF RemoveTarget, Fault
<1>16. ASSUME NEW r \in Runs, RemoveManifest(r)
      PROVE  WorkInv'
  BY <1>16, GotoFrom DEF RemoveManifest, Fault
<1>17. ASSUME NEW r \in Runs, DropHandle(r)
      PROVE  WorkInv'
  BY <1>17, GotoFrom DEF DropHandle
<1>18. ASSUME NEW r \in Runs, EndRun(r)
      PROVE  WorkInv'
  BY <1>18, GotoFrom DEF EndRun, At
<1>19. ASSUME NEW r \in Runs, Interrupt(r)
      PROVE  WorkInv'
  BY <1>19 DEF Interrupt
<1>20. ASSUME NEW r \in Runs, CheckOwner(r)
      PROVE  WorkInv'
  BY <1>20, GotoFrom DEF CheckOwner
<1>21. ASSUME NEW r \in Runs, RemoveOwner(r)
      PROVE  WorkInv'
  BY <1>21, GotoFrom DEF RemoveOwner, Fault
<1>22. ASSUME NEW r \in Runs, ForgetOwner(r)
      PROVE  WorkInv'
  BY <1>22, GotoFrom DEF ForgetOwner, Fault
<1>23. ASSUME NEW r \in Runs, WorkerEnds(r)
      PROVE  WorkInv'
  BY <1>23 DEF WorkerEnds
<1>24. ASSUME NEW r \in Runs, Escape(r)
      PROVE  WorkInv'
  BY <1>24 DEF Escape, Fault
<1>25. ASSUME NEW r \in Runs, DescendantsEnd(r)
      PROVE  WorkInv'
  BY <1>25 DEF DescendantsEnd
<1>26. CASE AbandonReusedRoot
  BY <1>26 DEF AbandonReusedRoot
<1>27. CASE Boot
  BY <1>27 DEF Boot
<1>28. CASE Crash
  BY <1>28 DEF Crash, Fault
<1>29. CASE RootRecreated
  BY <1>29 DEF RootRecreated
<1>30. CASE UNCHANGED vars
  BY <1>30 DEF vars
<1> QED
  BY <1>1, <1>2, <1>3, <1>4, <1>5, <1>6, <1>7, <1>8, <1>9, <1>10, <1>11, <1>12, <1>13, <1>14, <1>15, <1>16,
     <1>17, <1>18, <1>19, <1>20, <1>21, <1>22, <1>23, <1>24, <1>25, <1>26, <1>27, <1>28, <1>29, <1>30
     DEF Next, Broker, Prepare, Clean

\* The run that the broker works on has no live worker.
LEMMA InHand ==
    ASSUME IInv, NEW r, NEW s \in Preparing \cup Undoing \cup Ending \cup OwnerSteps, At(r, s)
    PROVE  r \notin live /\ row[r].status = "running"
  BY DEF IInv, WorkInv, Working, At

\* Every step keeps what the record says.
LEMMA NextRecordInv ==
    ASSUME IInv, TypeOK', [Next]_vars
    PROVE  RecordInv'
<1> USE LeafConstantsOK DEF IInv, TypeOK, groups, metadata, Idle, Down, RecordInv, RootReused, Listed
<1>1. ASSUME NEW r \in Runs, Admit(r)
      PROVE  RecordInv'
  BY <1>1 DEF Admit
<1>2. ASSUME NEW r \in Runs, EnsureOwner(r)
      PROVE  RecordInv'
  <2>1. CASE OwnerRefused
    BY <1>2, <2>1, GotoFrom DEF EnsureOwner
  <2>2. CASE ~OwnerRefused /\ owner # 0
    <3>1. record = [root |-> root, owner |-> owner]
      BY <2>2 DEF OwnerRefused, OwnerReused
    <3> QED
      BY <1>2, <2>2, <3>1, GotoFrom DEF EnsureOwner
  <2>3. CASE ~OwnerRefused /\ owner = 0
    <3>1. live = {}
      BY <2>3 DEF OwnerRefused, LiveIsKnown, LiveHasHandle
    <3>2. record # NoRecord => ~RootReused
      BY <2>3 DEF OwnerRefused
    <3>3. made \in Nat
      BY HandlesNat
    <3> QED
      BY <1>2, <2>3, <3>1, <3>2, <3>3, GotoFrom DEF EnsureOwner, CreateOwner
  <2> QED
    BY <1>2, <2>1, <2>2, <2>3 DEF EnsureOwner
<1>3. ASSUME NEW r \in Runs, RecordOwner(r)
      PROVE  RecordInv'
  BY <1>3, GotoFrom DEF RecordOwner, Fault
<1>4. ASSUME NEW r \in Runs, EnableControllers(r)
      PROVE  RecordInv'
  BY <1>4, GotoFrom DEF EnableControllers, Fault
<1>5. ASSUME NEW r \in Runs, CreateLeaf(r)
      PROVE  RecordInv'
  BY <1>5, GotoFrom DEF CreateLeaf, Fault
<1>6. ASSUME NEW r \in Runs, Configure(r)
      PROVE  RecordInv'
  BY <1>6, GotoFrom DEF Configure, Fault
<1>7. ASSUME NEW r \in Runs, WriteManifest(r)
      PROVE  RecordInv'
  BY <1>7, GotoFrom DEF WriteManifest, Fault
<1>8. ASSUME NEW r \in Runs, UndoLeaf(r)
      PROVE  RecordInv'
  BY <1>8, GotoFrom DEF UndoLeaf, Fault
<1>9. ASSUME NEW r \in Runs, FailRun(r)
      PROVE  RecordInv'
  BY <1>9, GotoFrom DEF FailRun, At
<1>10. ASSUME NEW r \in Runs, SaveHandle(r)
      PROVE  RecordInv'
  BY <1>10, GotoFrom DEF SaveHandle
<1>11. ASSUME NEW r \in Runs, Attach(r)
      PROVE  RecordInv'
  BY <1>11, GotoFrom DEF Attach, Fault, At
<1>12. ASSUME NEW r \in Runs, ObserveEnd(r)
      PROVE  RecordInv'
  BY <1>12 DEF ObserveEnd
<1>13. ASSUME NEW r \in Runs, Finish(r)
      PROVE  RecordInv'
  BY <1>13, GotoFrom DEF Finish, Fault
<1>14. ASSUME NEW r \in Runs, RemoveLeaf(r)
      PROVE  RecordInv'
  BY <1>14, GotoFrom DEF RemoveLeaf, Fault
<1>15. ASSUME NEW r \in Runs, RemoveTarget(r)
      PROVE  RecordInv'
  BY <1>15, GotoFrom DEF RemoveTarget, Fault
<1>16. ASSUME NEW r \in Runs, RemoveManifest(r)
      PROVE  RecordInv'
  BY <1>16, GotoFrom DEF RemoveManifest, Fault
<1>17. ASSUME NEW r \in Runs, DropHandle(r)
      PROVE  RecordInv'
  BY <1>17, GotoFrom DEF DropHandle
<1>18. ASSUME NEW r \in Runs, EndRun(r)
      PROVE  RecordInv'
  BY <1>18, GotoFrom DEF EndRun, At
<1>19. ASSUME NEW r \in Runs, Interrupt(r)
      PROVE  RecordInv'
  BY <1>19 DEF Interrupt
<1>20. ASSUME NEW r \in Runs, CheckOwner(r)
      PROVE  RecordInv'
  BY <1>20, GotoFrom DEF CheckOwner
<1>21. ASSUME NEW r \in Runs, RemoveOwner(r)
      PROVE  RecordInv'
  BY <1>21, GotoFrom DEF RemoveOwner, Fault
<1>22. ASSUME NEW r \in Runs, ForgetOwner(r)
      PROVE  RecordInv'
  BY <1>22, GotoFrom DEF ForgetOwner, Fault
<1>23. ASSUME NEW r \in Runs, WorkerEnds(r)
      PROVE  RecordInv'
  BY <1>23 DEF WorkerEnds
<1>24. ASSUME NEW r \in Runs, Escape(r)
      PROVE  RecordInv'
  BY <1>24 DEF Escape, Fault
<1>25. ASSUME NEW r \in Runs, DescendantsEnd(r)
      PROVE  RecordInv'
  BY <1>25 DEF DescendantsEnd
<1>26. CASE AbandonReusedRoot
  BY <1>26 DEF AbandonReusedRoot
<1>27. CASE Boot
  <2>1. CASE \E r \in SavedHandles : ~Resolves(r)
    <3>1. PICK r \in SavedHandles : ~Resolves(r)
      BY <2>1
    <3>2. record # NoRecord /\ RootReused
      BY <1>27, <3>1 DEF Boot, CanStart, Recoverable, ResolvesReused
    <3>3. live = {} /\ leaves = {}
      BY <1>27, <3>2 DEF Boot, CanStart, Recoverable, Resolves, ResolvesReused, SavedHandles, LiveHasHandle
    <3>4. pc'.at = "abandon"
      BY <1>27, <2>1 DEF Boot
    <3> QED
      BY <1>27, <3>3, <3>4 DEF Boot
  <2>2. CASE ~\E r \in SavedHandles : ~Resolves(r)
    BY <1>27, <2>2 DEF Boot
  <2> QED
    BY <2>1, <2>2
<1>28. CASE Crash
  BY <1>28 DEF Crash, Fault
<1>29. CASE RootRecreated
  BY <1>29, HandlesNat DEF RootRecreated
<1>30. CASE UNCHANGED vars
  BY <1>30 DEF vars
<1> QED
  BY <1>1, <1>2, <1>3, <1>4, <1>5, <1>6, <1>7, <1>8, <1>9, <1>10, <1>11, <1>12, <1>13, <1>14, <1>15, <1>16,
     <1>17, <1>18, <1>19, <1>20, <1>21, <1>22, <1>23, <1>24, <1>25, <1>26, <1>27, <1>28, <1>29, <1>30
     DEF Next, Broker, Prepare, Clean

\* Every step keeps what leads to a live worker.
LEMMA NextLive ==
    ASSUME IInv, TypeOK', [Next]_vars
    PROVE  LiveHasHandle' /\ LiveIsKnown'
<1> USE LeafConstantsOK DEF IInv, TypeOK, groups, metadata, Idle, Down, LiveHasHandle,
        LiveIsKnown, RootReused
<1>1. ASSUME NEW r \in Runs, Admit(r)
      PROVE  LiveHasHandle' /\ LiveIsKnown'
  BY <1>1 DEF Admit
<1>2. ASSUME NEW r \in Runs, EnsureOwner(r)
      PROVE  LiveHasHandle' /\ LiveIsKnown'
  BY <1>2, GotoFrom DEF EnsureOwner, CreateOwner
<1>3. ASSUME NEW r \in Runs, RecordOwner(r)
      PROVE  LiveHasHandle' /\ LiveIsKnown'
  BY <1>3, GotoFrom DEF RecordOwner, Fault, RecordInv
<1>4. ASSUME NEW r \in Runs, EnableControllers(r)
      PROVE  LiveHasHandle' /\ LiveIsKnown'
  BY <1>4, GotoFrom DEF EnableControllers, Fault
<1>5. ASSUME NEW r \in Runs, CreateLeaf(r)
      PROVE  LiveHasHandle' /\ LiveIsKnown'
  BY <1>5, GotoFrom DEF CreateLeaf, Fault
<1>6. ASSUME NEW r \in Runs, Configure(r)
      PROVE  LiveHasHandle' /\ LiveIsKnown'
  BY <1>6, GotoFrom DEF Configure, Fault
<1>7. ASSUME NEW r \in Runs, WriteManifest(r)
      PROVE  LiveHasHandle' /\ LiveIsKnown'
  BY <1>7, GotoFrom, InHand DEF WriteManifest, Fault, Preparing, Undoing, Ending, OwnerSteps
<1>8. ASSUME NEW r \in Runs, UndoLeaf(r)
      PROVE  LiveHasHandle' /\ LiveIsKnown'
  BY <1>8, GotoFrom, InHand DEF UndoLeaf, Fault, Preparing, Undoing, Ending, OwnerSteps
<1>9. ASSUME NEW r \in Runs, FailRun(r)
      PROVE  LiveHasHandle' /\ LiveIsKnown'
  BY <1>9, GotoFrom, InHand DEF FailRun, Preparing, Undoing, Ending, OwnerSteps
<1>10. ASSUME NEW r \in Runs, SaveHandle(r)
      PROVE  LiveHasHandle' /\ LiveIsKnown'
  BY <1>10, GotoFrom DEF SaveHandle
<1>11. ASSUME NEW r \in Runs, Attach(r)
      PROVE  LiveHasHandle' /\ LiveIsKnown'
  <2>1. At(r, "attach")
    BY <1>11 DEF Attach
  <2>2. /\ row[r].status = "running" /\ row[r].handle = owner /\ owner # 0 /\ manifest[r] = owner
        /\ record # NoRecord /\ r \in leaves
    BY <2>1, InHand DEF RecordInv, At, Preparing, NoRecord
  <2> QED
    BY <1>11, <2>2 DEF Attach
<1>12. ASSUME NEW r \in Runs, ObserveEnd(r)
      PROVE  LiveHasHandle' /\ LiveIsKnown'
  BY <1>12 DEF ObserveEnd
<1>13. ASSUME NEW r \in Runs, Finish(r)
      PROVE  LiveHasHandle' /\ LiveIsKnown'
  BY <1>13, GotoFrom DEF Finish, Fault
<1>14. ASSUME NEW r \in Runs, RemoveLeaf(r)
      PROVE  LiveHasHandle' /\ LiveIsKnown'
  BY <1>14, GotoFrom, InHand DEF RemoveLeaf, Fault, Preparing, Undoing, Ending, OwnerSteps
<1>15. ASSUME NEW r \in Runs, RemoveTarget(r)
      PROVE  LiveHasHandle' /\ LiveIsKnown'
  BY <1>15, GotoFrom DEF RemoveTarget, Fault
<1>16. ASSUME NEW r \in Runs, RemoveManifest(r)
      PROVE  LiveHasHandle' /\ LiveIsKnown'
  BY <1>16, GotoFrom, InHand DEF RemoveManifest, Fault, Preparing, Undoing, Ending, OwnerSteps
<1>17. ASSUME NEW r \in Runs, DropHandle(r)
      PROVE  LiveHasHandle' /\ LiveIsKnown'
  BY <1>17, GotoFrom, InHand DEF DropHandle, Preparing, Undoing, Ending, OwnerSteps
<1>18. ASSUME NEW r \in Runs, EndRun(r)
      PROVE  LiveHasHandle' /\ LiveIsKnown'
  BY <1>18, GotoFrom, InHand DEF EndRun, Preparing, Undoing, Ending, OwnerSteps
<1>19. ASSUME NEW r \in Runs, Interrupt(r)
      PROVE  LiveHasHandle' /\ LiveIsKnown'
  BY <1>19 DEF Interrupt
<1>20. ASSUME NEW r \in Runs, CheckOwner(r)
      PROVE  LiveHasHandle' /\ LiveIsKnown'
  BY <1>20, GotoFrom DEF CheckOwner
<1>21. ASSUME NEW r \in Runs, RemoveOwner(r)
      PROVE  LiveHasHandle' /\ LiveIsKnown'
  BY <1>21, GotoFrom DEF RemoveOwner, Fault
<1>22. ASSUME NEW r \in Runs, ForgetOwner(r)
      PROVE  LiveHasHandle' /\ LiveIsKnown'
  BY <1>22, GotoFrom DEF ForgetOwner, Fault, RecordInv, Listed
<1>23. ASSUME NEW r \in Runs, WorkerEnds(r)
      PROVE  LiveHasHandle' /\ LiveIsKnown'
  BY <1>23 DEF WorkerEnds
<1>24. ASSUME NEW r \in Runs, Escape(r)
      PROVE  LiveHasHandle' /\ LiveIsKnown'
  BY <1>24 DEF Escape, Fault
<1>25. ASSUME NEW r \in Runs, DescendantsEnd(r)
      PROVE  LiveHasHandle' /\ LiveIsKnown'
  BY <1>25 DEF DescendantsEnd
<1>26. CASE AbandonReusedRoot
  BY <1>26 DEF AbandonReusedRoot, RecordInv
<1>27. CASE Boot
  BY <1>27 DEF Boot
<1>28. CASE Crash
  BY <1>28 DEF Crash, Fault
<1>29. CASE RootRecreated
  <2>1. record # NoRecord => RootReused'
    BY <1>29 DEF RootRecreated, RecordInv
  <2> QED
    BY <1>29, <2>1 DEF RootRecreated
<1>30. CASE UNCHANGED vars
  BY <1>30 DEF vars
<1> QED
  BY <1>1, <1>2, <1>3, <1>4, <1>5, <1>6, <1>7, <1>8, <1>9, <1>10, <1>11, <1>12, <1>13, <1>14, <1>15, <1>16,
     <1>17, <1>18, <1>19, <1>20, <1>21, <1>22, <1>23, <1>24, <1>25, <1>26, <1>27, <1>28, <1>29, <1>30
     DEF Next, Broker, Prepare, Clean

\* Every step keeps the manifests of the leaves with processes.
LEMMA NextInside ==
    ASSUME IInv, TypeOK', [Next]_vars
    PROVE  InsideIsListed'
<1> USE LeafConstantsOK DEF IInv, TypeOK, groups, metadata, Idle, Down, InsideIsListed, Listed
<1>1. ASSUME NEW r \in Runs, Admit(r)
      PROVE  InsideIsListed'
  BY <1>1 DEF Admit, WorkInv
<1>2. ASSUME NEW r \in Runs, EnsureOwner(r)
      PROVE  InsideIsListed'
  BY <1>2, GotoFrom DEF EnsureOwner, CreateOwner
<1>3. ASSUME NEW r \in Runs, RecordOwner(r)
      PROVE  InsideIsListed'
  BY <1>3, GotoFrom DEF RecordOwner, Fault
<1>4. ASSUME NEW r \in Runs, EnableControllers(r)
      PROVE  InsideIsListed'
  BY <1>4, GotoFrom DEF EnableControllers, Fault
<1>5. ASSUME NEW r \in Runs, CreateLeaf(r)
      PROVE  InsideIsListed'
  BY <1>5, GotoFrom DEF CreateLeaf, Fault
<1>6. ASSUME NEW r \in Runs, Configure(r)
      PROVE  InsideIsListed'
  BY <1>6, GotoFrom DEF Configure, Fault
<1>7. ASSUME NEW r \in Runs, WriteManifest(r)
      PROVE  InsideIsListed'
  BY <1>7, GotoFrom DEF WriteManifest, Fault, RecordInv
<1>8. ASSUME NEW r \in Runs, UndoLeaf(r)
      PROVE  InsideIsListed'
  BY <1>8, GotoFrom DEF UndoLeaf, Fault
<1>9. ASSUME NEW r \in Runs, FailRun(r)
      PROVE  InsideIsListed'
  BY <1>9, GotoFrom DEF FailRun
<1>10. ASSUME NEW r \in Runs, SaveHandle(r)
      PROVE  InsideIsListed'
  BY <1>10, GotoFrom DEF SaveHandle
<1>11. ASSUME NEW r \in Runs, Attach(r)
      PROVE  InsideIsListed'
  BY <1>11, GotoFrom DEF Attach, Fault, RecordInv, At
<1>12. ASSUME NEW r \in Runs, ObserveEnd(r)
      PROVE  InsideIsListed'
  BY <1>12 DEF ObserveEnd
<1>13. ASSUME NEW r \in Runs, Finish(r)
      PROVE  InsideIsListed'
  BY <1>13, GotoFrom DEF Finish, Fault
<1>14. ASSUME NEW r \in Runs, RemoveLeaf(r)
      PROVE  InsideIsListed'
  BY <1>14, GotoFrom DEF RemoveLeaf, Fault
<1>15. ASSUME NEW r \in Runs, RemoveTarget(r)
      PROVE  InsideIsListed'
  BY <1>15, GotoFrom DEF RemoveTarget, Fault
<1>16. ASSUME NEW r \in Runs, RemoveManifest(r)
      PROVE  InsideIsListed'
  BY <1>16, GotoFrom DEF RemoveManifest, Fault, WorkInv
<1>17. ASSUME NEW r \in Runs, DropHandle(r)
      PROVE  InsideIsListed'
  BY <1>17, GotoFrom DEF DropHandle
<1>18. ASSUME NEW r \in Runs, EndRun(r)
      PROVE  InsideIsListed'
  BY <1>18, GotoFrom DEF EndRun
<1>19. ASSUME NEW r \in Runs, Interrupt(r)
      PROVE  InsideIsListed'
  BY <1>19 DEF Interrupt
<1>20. ASSUME NEW r \in Runs, CheckOwner(r)
      PROVE  InsideIsListed'
  BY <1>20, GotoFrom DEF CheckOwner
<1>21. ASSUME NEW r \in Runs, RemoveOwner(r)
      PROVE  InsideIsListed'
  BY <1>21, GotoFrom DEF RemoveOwner, Fault
<1>22. ASSUME NEW r \in Runs, ForgetOwner(r)
      PROVE  InsideIsListed'
  BY <1>22, GotoFrom DEF ForgetOwner, Fault
<1>23. ASSUME NEW r \in Runs, WorkerEnds(r)
      PROVE  InsideIsListed'
  BY <1>23 DEF WorkerEnds
<1>24. ASSUME NEW r \in Runs, Escape(r)
      PROVE  InsideIsListed'
  BY <1>24 DEF Escape, Fault
<1>25. ASSUME NEW r \in Runs, DescendantsEnd(r)
      PROVE  InsideIsListed'
  BY <1>25 DEF DescendantsEnd
<1>26. CASE AbandonReusedRoot
  BY <1>26 DEF AbandonReusedRoot, RecordInv
<1>27. CASE Boot
  BY <1>27 DEF Boot
<1>28. CASE Crash
  BY <1>28 DEF Crash, Fault
<1>29. CASE RootRecreated
  BY <1>29 DEF RootRecreated
<1>30. CASE UNCHANGED vars
  BY <1>30 DEF vars
<1> QED
  BY <1>1, <1>2, <1>3, <1>4, <1>5, <1>6, <1>7, <1>8, <1>9, <1>10, <1>11, <1>12, <1>13, <1>14, <1>15, <1>16,
     <1>17, <1>18, <1>19, <1>20, <1>21, <1>22, <1>23, <1>24, <1>25, <1>26, <1>27, <1>28, <1>29, <1>30
     DEF Next, Broker, Prepare, Clean

\* Without a fault every saved handle of a run that is not being cleaned up
\* resolves.
LEMMA FaultFreeResolves ==
    ASSUME IInv, FaultFree, NEW r \in Runs, row[r].handle # 0,
           pc.at \notin OwnerSteps \cup {"record", "drop"}
    PROVE  Resolves(r)
<1>1. manifest[r] = row[r].handle /\ owner = manifest[r]
  BY DEF FaultFree
<1>2. record = [root |-> root, owner |-> owner]
  BY <1>1 DEF FaultFree, OwnerSteps
<1>3. owner \in Nat
  BY HandlesNat DEF IInv, TypeOK
<1> QED
  BY <1>1, <1>2, <1>3 DEF Resolves, NoRecord, RootReused, OwnerReused

\* Without manifests there are no leaves then, and nobody is in one.
LEMMA FaultFreeEmpty ==
    ASSUME IInv, FaultFree, Listed = {}, pc.at \notin {"configure", "list"}
    PROVE  leaves = {} /\ inside = {}
  BY DEF IInv, TypeOK, FaultFree, Listed

\* Every step keeps what holds of a broker without faults.
LEMMA NextFaultFree ==
    ASSUME IInv, TypeOK', [Next]_vars
    PROVE  FaultFreeInv'
<1> USE LeafConstantsOK DEF IInv, TypeOK, groups, metadata, Idle, Down, FaultFreeInv, FaultFree,
        Preparing, Undoing, Ending, OwnerSteps, Listed
<1>1. ASSUME NEW r \in Runs, Admit(r)
      PROVE  FaultFreeInv'
  BY <1>1 DEF Admit
<1>2. ASSUME NEW r \in Runs, EnsureOwner(r)
      PROVE  FaultFreeInv'
  <2> SUFFICES ASSUME faults' = 0, FaultFree
               PROVE  FaultFree'
    BY <1>2 DEF EnsureOwner

  <2>1. pc.at = "ensure" /\ pc.run = r
    BY <1>2 DEF EnsureOwner, At
  <2>2. ~OwnerRefused
    BY <2>1 DEF OwnerRefused, RootReused, OwnerReused, NoRecord
  <2>3. CASE owner # 0
    BY <1>2, <2>1, <2>2, <2>3, GotoFrom DEF EnsureOwner
  <2>4. CASE owner = 0
    <3>1. record = NoRecord /\ \A q \in Runs : manifest[q] = 0
      BY <2>1, <2>4
    <3>2. leaves = {}
      BY <2>1, <3>1
    <3>3. pc' = [at |-> "record", run |-> r] /\ UNCHANGED <<record, leaves, manifest, row, ret>>
      BY <1>2, <2>2, <2>4, GotoFrom DEF EnsureOwner
    <3> QED
      BY <2>1, <3>1, <3>2, <3>3
  <2> QED
    BY <2>3, <2>4
<1>3. ASSUME NEW r \in Runs, RecordOwner(r)
      PROVE  FaultFreeInv'
  <2> SUFFICES ASSUME faults' = 0, FaultFree
               PROVE  FaultFree'
    BY <1>3 DEF RecordOwner, Fault

  <2>1. /\ record' = [root |-> root, owner |-> owner] /\ owner' = owner /\ root' = root
        /\ pc' = [at |-> "enable", run |-> r] /\ pc.at = "record" /\ pc.run = r
        /\ UNCHANGED <<leaves, manifest, row, ret>>
    BY <1>3, GotoFrom DEF RecordOwner, Fault
  <2>2. owner # 0
    BY <2>1 DEF RecordInv
  <2> QED
    BY <2>1, <2>2
<1>4. ASSUME NEW r \in Runs, EnableControllers(r)
      PROVE  FaultFreeInv'
  BY <1>4, GotoFrom DEF EnableControllers, Fault
<1>5. ASSUME NEW r \in Runs, CreateLeaf(r)
      PROVE  FaultFreeInv'
  BY <1>5, GotoFrom DEF CreateLeaf, Fault
<1>6. ASSUME NEW r \in Runs, Configure(r)
      PROVE  FaultFreeInv'
  BY <1>6, GotoFrom DEF Configure, Fault
<1>7. ASSUME NEW r \in Runs, WriteManifest(r)
      PROVE  FaultFreeInv'
  <2> SUFFICES ASSUME faults' = 0, FaultFree
               PROVE  FaultFree'
    BY <1>7 DEF WriteManifest, Fault

  <2>1. /\ manifest' = [manifest EXCEPT ![r] = owner]
        /\ pc' = [at |-> "save", run |-> r] /\ pc.at = "list" /\ pc.run = r
        /\ UNCHANGED <<root, owner, leaves, record, row, ret>>
    BY <1>7, GotoFrom DEF WriteManifest, Fault
  <2>2. owner # 0 /\ row[r].status = "running" /\ row[r].handle = 0
    BY <1>7, <2>1, InHand DEF RecordInv, WriteManifest
  <2> QED
    BY <2>1, <2>2
<1>8. ASSUME NEW r \in Runs, UndoLeaf(r)
      PROVE  FaultFreeInv'
  BY <1>8, GotoFrom DEF UndoLeaf, Fault
<1>9. ASSUME NEW r \in Runs, FailRun(r)
      PROVE  FaultFreeInv'
  BY <1>9, GotoFrom DEF FailRun, At
<1>10. ASSUME NEW r \in Runs, SaveHandle(r)
      PROVE  FaultFreeInv'
  BY <1>10, GotoFrom DEF SaveHandle
<1>11. ASSUME NEW r \in Runs, Attach(r)
      PROVE  FaultFreeInv'
  <2> SUFFICES ASSUME faults' = 0, FaultFree
               PROVE  FaultFree'
    BY <1>11 DEF Attach, Fault

  <2>1. /\ pc' = Idle /\ pc.at = "attach" /\ pc.run = r
        /\ UNCHANGED <<root, owner, leaves, record, manifest, row, ret>>
    BY <1>11 DEF Attach, Fault, At
  <2>2. row[r].handle = owner /\ manifest[r] = owner /\ owner # 0
    BY <2>1 DEF RecordInv
  <2> QED
    BY <2>1, <2>2
<1>12. ASSUME NEW r \in Runs, ObserveEnd(r)
      PROVE  FaultFreeInv'
  BY <1>12 DEF ObserveEnd
<1>13. ASSUME NEW r \in Runs, Finish(r)
      PROVE  FaultFreeInv'
  <2> SUFFICES ASSUME faults' = 0, FaultFree
               PROVE  FaultFree'
    BY <1>13 DEF Finish, Fault

  <2>1. pc' = [at |-> "clean", run |-> r] /\ pc.at = "finish" /\ pc.run = r
        /\ UNCHANGED <<root, owner, leaves, record, manifest, row, ret>>
    BY <1>13, GotoFrom DEF Finish
  <2>2. Resolves(r)
    BY <2>1, FaultFreeResolves
  <2>3. r \notin inside'
    BY <1>13, <2>2 DEF Finish, Fault
  <2> QED
    BY <2>1, <2>3
<1>14. ASSUME NEW r \in Runs, RemoveLeaf(r)
      PROVE  FaultFreeInv'
  <2> SUFFICES ASSUME faults' = 0, FaultFree
               PROVE  FaultFree'
    BY <1>14 DEF RemoveLeaf, Fault

  <2>1. pc.at = "clean" /\ pc.run = r /\ r \notin inside
    BY <1>14 DEF RemoveLeaf, Fault, At
  <2>2. Resolves(r)
    BY <2>1, FaultFreeResolves
  <2>3. /\ leaves' = leaves \ {r} /\ pc' = [at |-> "target", run |-> r]
        /\ UNCHANGED <<root, owner, record, manifest, row, ret>>
    BY <1>14, <2>1, <2>2, GotoFrom DEF RemoveLeaf, Fault
  <2> QED
    BY <2>1, <2>3
<1>15. ASSUME NEW r \in Runs, RemoveTarget(r)
      PROVE  FaultFreeInv'
  BY <1>15, GotoFrom DEF RemoveTarget, Fault
<1>16. ASSUME NEW r \in Runs, RemoveManifest(r)
      PROVE  FaultFreeInv'
  <2> SUFFICES ASSUME faults' = 0, FaultFree
               PROVE  FaultFree'
    BY <1>16 DEF RemoveManifest, Fault

  <2>1. /\ manifest' = [manifest EXCEPT ![r] = 0] /\ ret' = "drop"
        /\ pc' = [at |-> "owner_check", run |-> r] /\ pc.at = "unlist" /\ pc.run = r
        /\ UNCHANGED <<root, owner, leaves, record, row>>
    BY <1>16, GotoFrom DEF RemoveManifest, Fault
  <2>2. r \notin leaves
    BY <2>1
  <2> QED
    BY <2>1, <2>2
<1>17. ASSUME NEW r \in Runs, DropHandle(r)
      PROVE  FaultFreeInv'
  BY <1>17, GotoFrom DEF DropHandle
<1>18. ASSUME NEW r \in Runs, EndRun(r)
      PROVE  FaultFreeInv'
  <2> SUFFICES ASSUME faults' = 0, FaultFree
               PROVE  FaultFree'
    BY <1>18 DEF EndRun

  <2>1. /\ row' = [row EXCEPT ![r].status = "ended"] /\ pc' = Idle /\ pc.at = "end" /\ pc.run = r
        /\ UNCHANGED <<root, owner, leaves, record, manifest, ret>>
    BY <1>18 DEF EndRun, At
  <2>2. manifest[r] = 0 /\ row[r].handle = 0
    BY <2>1
  <2> QED
    BY <2>1, <2>2
<1>19. ASSUME NEW r \in Runs, Interrupt(r)
      PROVE  FaultFreeInv'
  BY <1>19 DEF Interrupt
<1>20. ASSUME NEW r \in Runs, CheckOwner(r)
      PROVE  FaultFreeInv'
  <2> SUFFICES ASSUME faults' = 0, FaultFree
               PROVE  FaultFree'
    BY <1>20 DEF CheckOwner

  <2>1. /\ pc.at = "owner_check" /\ pc.run = r /\ ret = "drop"
        /\ UNCHANGED <<root, owner, leaves, record, manifest, row, ret>>
    BY <1>20 DEF CheckOwner, At
  <2>2. CASE Listed # {}
    <3>1. pc' = [at |-> "drop", run |-> r]
      BY <1>20, <2>1, <2>2, GotoFrom DEF CheckOwner
    <3> QED
      BY <2>1, <2>2, <3>1
  <2>3. CASE Listed = {} /\ record = NoRecord
    <3>1. pc' = [at |-> "drop", run |-> r] /\ owner = 0
      BY <1>20, <2>1, <2>3, GotoFrom DEF CheckOwner, NoRecord
    <3> QED
      BY <2>1, <2>3, <3>1
  <2>4. CASE Listed = {} /\ record # NoRecord
    <3>1. inside = {}
      BY <2>1, <2>4, FaultFreeEmpty
    <3>2. owner # 0 /\ ~RootReused /\ ~OwnerReused
      BY <2>1, <2>4 DEF RootReused, OwnerReused
    <3>3. pc' = [at |-> "owner_remove", run |-> r]
      BY <1>20, <2>1, <2>4, <3>1, <3>2, GotoFrom DEF CheckOwner
    <3> QED
      BY <2>1, <2>4, <3>2, <3>3
  <2> QED
    BY <2>2, <2>3, <2>4
<1>21. ASSUME NEW r \in Runs, RemoveOwner(r)
      PROVE  FaultFreeInv'
  <2> SUFFICES ASSUME faults' = 0, FaultFree
               PROVE  FaultFree'
    BY <1>21 DEF RemoveOwner, Fault

  <2>1. pc.at = "owner_remove" /\ pc.run = r /\ Listed = {}
    BY <1>21 DEF RemoveOwner, Fault, At, RecordInv
  <2>2. leaves = {}
    BY <2>1, FaultFreeEmpty
  <2>3. /\ owner' = 0 /\ pc' = [at |-> "owner_forget", run |-> r]
        /\ UNCHANGED <<root, leaves, record, manifest, row, ret>>
    BY <1>21, <2>2, GotoFrom DEF RemoveOwner, Fault
  <2> QED
    BY <2>1, <2>2, <2>3
<1>22. ASSUME NEW r \in Runs, ForgetOwner(r)
      PROVE  FaultFreeInv'
  <2> SUFFICES ASSUME faults' = 0, FaultFree
               PROVE  FaultFree'
    BY <1>22 DEF ForgetOwner, Fault

  <2>1. pc.at = "owner_forget" /\ pc.run = r /\ Listed = {} /\ owner = 0 /\ ret = "drop"
    BY <1>22 DEF ForgetOwner, Fault, At, RecordInv
  <2>2. /\ record' = NoRecord /\ pc' = [at |-> "drop", run |-> r]
        /\ UNCHANGED <<root, owner, leaves, manifest, row, ret>>
    BY <1>22, <2>1, GotoFrom DEF ForgetOwner, Fault
  <2> QED
    BY <2>1, <2>2
<1>23. ASSUME NEW r \in Runs, WorkerEnds(r)
      PROVE  FaultFreeInv'
  BY <1>23 DEF WorkerEnds
<1>24. ASSUME NEW r \in Runs, Escape(r)
      PROVE  FaultFreeInv'
  BY <1>24 DEF Escape, Fault
<1>25. ASSUME NEW r \in Runs, DescendantsEnd(r)
      PROVE  FaultFreeInv'
  BY <1>25 DEF DescendantsEnd
<1>26. CASE AbandonReusedRoot
  BY <1>26 DEF AbandonReusedRoot
<1>27. CASE Boot
  BY <1>27 DEF Boot
<1>28. CASE Crash
  BY <1>28 DEF Crash, Fault
<1>29. CASE RootRecreated
  BY <1>29 DEF RootRecreated
<1>30. CASE UNCHANGED vars
  BY <1>30 DEF vars
<1> QED
  BY <1>1, <1>2, <1>3, <1>4, <1>5, <1>6, <1>7, <1>8, <1>9, <1>10, <1>11, <1>12, <1>13, <1>14, <1>15, <1>16,
     <1>17, <1>18, <1>19, <1>20, <1>21, <1>22, <1>23, <1>24, <1>25, <1>26, <1>27, <1>28, <1>29, <1>30
     DEF Next, Broker, Prepare, Clean

------------------------------------------------------------------------------
(* Theorems *)

\* Initially the invariant holds.
LEMMA InitIInv == Init => IInv
<1> SUFFICES ASSUME Init PROVE IInv
  OBVIOUS
<1> USE DEF Init, Idle
<1>1. TypeOK
  BY LeafConstantsOK, HandlesNat DEF TypeOK
<1>2. WorkInv /\ RecordInv /\ LiveHasHandle /\ LiveIsKnown /\ InsideIsListed
  BY DEF WorkInv, Working, Preparing, Undoing, Ending, OwnerSteps, RecordInv, LiveHasHandle, LiveIsKnown,
     InsideIsListed
<1>3. MadeInv
  BY TriedFinite DEF MadeInv
<1>4. FaultFree
  BY DEF FaultFree, OwnerSteps, Listed
<1> QED
  BY <1>1, <1>2, <1>3, <1>4 DEF IInv, FaultFreeInv

\* The inductive invariant holds in every state of every behaviour.
THEOREM LeafInvariant == Spec => []IInv
<1>1. IInv /\ [Next]_vars => IInv'
  <2> SUFFICES ASSUME IInv, [Next]_vars PROVE IInv'
    OBVIOUS
  <2>1. TypeOK'
    BY NextTypeOK
  <2> QED
    BY <2>1, NextMadeInv, NextWorkInv, NextRecordInv, NextLive, NextInside, NextFaultFree DEF IInv
<1> QED
  BY <1>1, InitIInv, PTL DEF Spec

\* Groups and metadata account for each other: a live worker's leaf and what
\* leads to it stay, a process in a leaf has a manifest, and the last cleanup
\* without faults leaves nothing.
THEOREM AlwaysAccounted == Spec => []Accounted
<1>1. IInv => Accounted
  <2> SUFFICES ASSUME IInv PROVE NothingIsLeft
    BY DEF IInv, Accounted
  <2> SUFFICES ASSUME faults = 0, pc = Idle, \A r \in Runs : row[r].status # "running"
               PROVE  owner = 0 /\ leaves = {} /\ record = NoRecord /\ Listed = {}
    BY DEF NothingIsLeft
  <2>1. FaultFree /\ pc.at = "idle"
    BY DEF IInv, FaultFreeInv, Idle
  <2>2. Listed = {}
    BY <2>1 DEF FaultFree, Listed
  <2>3. owner = 0 /\ record = NoRecord
    BY <2>1, <2>2 DEF FaultFree
  <2> QED
    BY <2>1, <2>2, <2>3, FaultFreeEmpty
<1> QED
  BY <1>1, LeafInvariant, PTL
===============================================================================
