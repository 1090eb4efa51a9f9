---------------------------- MODULE RecoveryProofs ----------------------------
(***************************************************************************)
(* Proofs that maintenance and recovery keep their invariants and that     *)
(* nothing but the current proof starts in a recovery, for any work,       *)
(* proofs and drains and any bounds on attempts, recoveries and faults.    *)
(***************************************************************************)
EXTENDS Recovery, FiniteSetTheorems, TLAPS

\* A proof that is queued or runs is the one on record; a recovery without a
\* proof is guarded, and a parked one has no proof that could still be admitted.
LiveProofIsCurrent ==
    /\ \A p \in Proofs : p \in Live => rec # NoRec /\ p = rec.proof
    /\ rec # NoRec =>
          /\ rec.phase = "guarded" => rec.proof = None
          /\ rec.phase = "verifying" => rec.proof \in Proofs
          /\ rec.phase = "parked" => rec.proof \notin Queued

\* Every proof of a recovery has used up an attempt.
AttemptsCounted ==
    rec # NoRec => IsFiniteSet(used) /\ Cardinality(used) <= rec.attempts

\* What complete has answered is about a recovery that has ended, and is the
\* recorded result if it is about the last one.
AnswersRecorded ==
    /\ last.id <= begun
    /\ rec # NoRec => rec.id = begun
    /\ \A x \in told : /\ x[1] <= begun
                       /\ rec # NoRec => x[1] # rec.id
                       /\ x[1] = last.id => x[2] = last.state

\* Only a broker has a row in hand, and a row that it could admit is eligible
\* now, whatever came after the pick.
PickIsEligible ==
    /\ pick # None => owner = "broker"
    /\ pick \in Queued => rec = NoRec \/ (rec.phase = "verifying" /\ pick = rec.proof)

\* Between its idle check and its look at the marker a broker has nothing in
\* hand, and what ordinary work is live was accepted in the meantime.
IdleIsBounded ==
    idle => owner = "broker" /\ pick = None /\ Live \cap Jobs \subseteq late

------------------------------------------------------------------------------
(* Types *)

\* The records of an active recovery.
Recoveries == [id : Ids, proof : Proofs \cup {None}, attempts : 0 .. MaxAttempts,
               phase : {"guarded", "verifying", "parked"},
               drain : {Open} \cup [state : DrainStates, id : Drains]]

\* The identity of a new proof belongs to no row yet.
LEMMA NewProofIsAbsent ==
    ASSUME NEW p \in NewProof
    PROVE  p \in Proofs /\ status[p] = "absent"
<1>1. PICK q \in Unused : p = CHOOSE x \in Unused : TRUE
  BY DEF NewProof
<1>2. p \in Unused
  BY <1>1
<1> QED
  BY <1>2 DEF Unused

\* Initially the variables have their types.
LEMMA InitTypeOK == Init => TypeOK
<1> SUFFICES ASSUME Init PROVE TypeOK
  OBVIOUS
<1>1. /\ begun \in 0 .. MaxRecoveries /\ faults \in 0 .. MaxFaults
      /\ status \in [Runs -> {"absent", "queued", "running", "deleted"} \cup Terminal]
  BY RecoveryConstantsOK DEF Init
<1>2. /\ {cancel, known, alive, own} \subseteq SUBSET Runs
      /\ used \subseteq Proofs /\ told \subseteq Ids \X ({"open"} \cup DrainStates)
      /\ enforced \subseteq Proofs /\ late \subseteq Jobs /\ idle \in BOOLEAN
  BY DEF Init
<1> QED
  BY <1>1, <1>2 DEF Init, TypeOK

\* Every step keeps the types and the marker.
LEMMA NextTypeOK ==
    ASSUME TypeOK, MarkerIsWhole, LiveProofIsCurrent, [Next]_vars
    PROVE  TypeOK'
<1> USE RecoveryConstantsOK DEF TypeOK, Recoveries, Runs, Set, marker, records, rows, broker, history
<1>1. CASE HelperEndsBroker
  BY <1>1 DEF HelperEndsBroker
<1>2. CASE Admit
  BY <1>2 DEF Admit, Queued
<1>3. CASE Start
  BY <1>3 DEF Start, Running, Terminal
<1>4. CASE Yield
  <2>1. idle' \in BOOLEAN
    BY <1>4 DEF Yield
  <2>2. late' \subseteq Jobs /\ owner' \in {None, "broker", "holder", "installer"} /\ own' \subseteq Runs
    BY <1>4 DEF Yield
  <2>3. meta' \in {Open} \cup [state : DrainStates, id : Drains] \cup [state : {"recovering"}, id : Ids]
    BY <1>4 DEF Yield, Open, DrainStates
  <2> QED
    BY <1>4, <2>1, <2>2, <2>3 DEF Yield
<1>5. ASSUME NEW r \in Runs, Pick(r)
      PROVE  TypeOK'
  BY <1>5 DEF Pick
<1>6. ASSUME NEW r \in Runs, Observe(r)
      PROVE  TypeOK'
  BY <1>6 DEF Observe, Verdict, Terminal
<1>7. CASE Boot
  BY <1>7 DEF Boot, Open, DrainStates
<1>8. CASE Crash
  <2>1. idle' \in BOOLEAN
    BY <1>8 DEF Crash
  <2> QED
    BY <1>8, <2>1 DEF Crash, Fault
<1>9. CASE RecoverHold
  <2>1. CASE rec # NoRec
    BY <1>9, <2>1 DEF RecoverHold, Prepare
  <2>2. CASE rec = NoRec
    <3>1. begun + 1 \in Ids /\ begun + 1 \in 0 .. MaxRecoveries
      BY <1>9, <2>2 DEF RecoverHold, Ids
    <3>2. meta \in {Open} \cup [state : DrainStates, id : Drains]
      BY <2>2 DEF MarkerIsWhole
    <3>3. rec' \in Recoveries
      BY <1>9, <2>2, <3>1, <3>2 DEF RecoverHold, Prepare
    <3> QED
      BY <1>9, <2>2, <3>1, <3>3 DEF RecoverHold, Prepare
  <2> QED
    BY <2>1, <2>2
<1>10. CASE DrainHold
  BY <1>10 DEF DrainHold
<1>11. CASE HolderEnds
  BY <1>11 DEF HolderEnds
<1>12. CASE Complete
  <2>1. rec \in Recoveries
    BY <1>12 DEF Complete
  <2>2. /\ meta' \in {Open} \cup [state : DrainStates, id : Drains]
        /\ meta'.state \in {"open"} \cup DrainStates
        /\ guards' \in BOOLEAN
    BY <1>12, <2>1 DEF Complete, Restore, Open, DrainStates
  <2>3. rec.proof \in Proofs
    BY <1>12 DEF Complete, Proven, LiveProofIsCurrent
  <2>4. last' \in [id : Ids, proof : Proofs, state : {"open"} \cup DrainStates, drain : Drains \cup {None}]
    BY <1>12, <2>1, <2>2, <2>3 DEF Complete, Open
  <2>5. told' \subseteq Ids \X ({"open"} \cup DrainStates)
    BY <1>12, <2>1, <2>2 DEF Complete
  <2> QED
    BY <1>12, <2>2, <2>4, <2>5 DEF Complete
<1>13. CASE Park
  BY <1>13 DEF Park, Fault, NoRec, Queued, Running, Terminal
<1>14. CASE HelperChanges
  BY <1>14 DEF HelperChanges, Fault
<1>15. CASE DrainStatus
  BY <1>15 DEF DrainStatus, DrainStates, Open
<1>16. CASE Clear
  BY <1>16 DEF Clear, Terminal
<1>17. ASSUME NEW j \in Jobs, Submit(j)
      PROVE  TypeOK'
  BY <1>17 DEF Submit
<1>18. ASSUME NEW r \in Runs, Cancel(r)
      PROVE  TypeOK'
  BY <1>18 DEF Cancel, Terminal
<1>19. ASSUME NEW r \in Runs, WorkerEnds(r)
      PROVE  TypeOK'
  BY <1>19 DEF WorkerEnds
<1>20. ASSUME NEW d \in Drains, BeginDrain(d)
      PROVE  TypeOK'
  BY <1>20 DEF BeginDrain, DrainStates
<1>21. ASSUME NEW d \in Drains, Resume(d)
      PROVE  TypeOK'
  BY <1>21 DEF Resume
<1>22. ASSUME NEW p \in NewProof, SubmitProof(p)
      PROVE  TypeOK'
  <2>1. p \in Proofs
    BY NewProofIsAbsent
  <2>2. rec \in Recoveries
    BY <1>22 DEF SubmitProof
  <2>3. rec' \in Recoveries
    <3>1. CASE rec.attempts = MaxAttempts
      BY <1>22, <2>2, <3>1 DEF SubmitProof
    <3>2. CASE rec.attempts # MaxAttempts
      <4>1. rec.attempts + 1 \in 0 .. MaxAttempts
        BY <2>2, <3>2
      <4>2. rec' = [rec EXCEPT !.proof = p, !.attempts = rec.attempts + 1, !.phase = "verifying"]
        BY <1>22, <3>2 DEF SubmitProof
      <4> QED
        BY <2>1, <2>2, <4>1, <4>2
    <3> QED
      BY <3>1, <3>2
  <2>4. /\ status' \in [Runs -> {"absent", "queued", "running", "deleted"} \cup Terminal]
        /\ used' \subseteq Proofs
    BY <1>22, <2>1 DEF SubmitProof
  <2> QED
    BY <1>22, <2>3, <2>4 DEF SubmitProof
<1>23. ASSUME NEW id \in Ids, CompleteAgain(id)
      PROVE  TypeOK'
  BY <1>23 DEF CompleteAgain, NoLast, Ids
<1>24. CASE FindIdle
  BY <1>24 DEF FindIdle
<1>25. CASE UNCHANGED vars
  BY <1>25 DEF vars
<1> QED
  BY <1>1, <1>2, <1>3, <1>4, <1>5, <1>6, <1>7, <1>8, <1>9, <1>10, <1>11, <1>12, <1>13,
     <1>14, <1>15, <1>16, <1>17, <1>18, <1>19, <1>20, <1>21, <1>22, <1>23, <1>24, <1>25
     DEF Next, Pump
------------------------------------------------------------------------------
(* The invariant *)

\* The inductive invariant.
IInv ==
    /\ MarkerHolds /\ LiveProofIsCurrent /\ AttemptsCounted
    /\ AnswersRecorded /\ CompletionAgrees /\ PickIsEligible /\ IdleIsBounded

\* A step that touches neither the marker nor a record, and adds no work.
Quiet ==
    /\ UNCHANGED <<marker, records, history>>
    /\ Queued' \subseteq Queued /\ Live' \subseteq Live
    /\ owner' = "installer" => owner = "installer"
    /\ pick' # None => pick' = pick /\ owner' = "broker"
    /\ idle' => idle /\ UNCHANGED <<owner, pick>>

\* The running and the ended life of a run is not its queued one.
LEMMA NewStatus ==
    ASSUME TypeOK, NEW r \in Runs, NEW s, Set(r, s)
    PROVE  /\ s \notin {"queued", "running"} => Queued' \subseteq Queued /\ Live' \subseteq Live
           /\ s = "running" /\ r \in Queued => Queued' \subseteq Queued /\ Live' \subseteq Live
           /\ s = "queued" => Live' = Live \cup {r} /\ Queued' \subseteq Queued \cup {r}
  BY DEF TypeOK, Set, Live, Queued, Running

\* Without a change of a status the same runs are live.
LEMMA SameStatus ==
    ASSUME UNCHANGED status
    PROVE  Queued' = Queued /\ Running' = Running /\ Live' = Live
  BY DEF Live, Queued, Running

\* A quiet step keeps the invariant.
LEMMA QuietKeeps ==
    ASSUME IInv, TypeOK', Quiet
    PROVE  IInv'
<1> USE DEF IInv, MarkerHolds, Quiet, marker, records, history
<1>1. MarkerHolds'
  <2>1. MarkerIsWhole' /\ DrainIntentKept'
    BY DEF MarkerIsWhole, DrainIntentKept
  <2>2. DrainedIsEmpty' /\ HeldIsDrained'
    BY DEF DrainedIsEmpty, HeldIsDrained
  <2> QED
    BY <2>1, <2>2
<1>2. LiveProofIsCurrent'
  BY DEF LiveProofIsCurrent
<1>3. AttemptsCounted' /\ AnswersRecorded' /\ CompletionAgrees'
  BY DEF AttemptsCounted, AnswersRecorded, CompletionAgrees
<1>4. PickIsEligible'
  BY RecoveryConstantsOK DEF PickIsEligible, Queued
<1>5. IdleIsBounded'
  BY DEF IdleIsBounded
<1> QED
  BY <1>1, <1>2, <1>3, <1>4, <1>5

\* The steps of a broker that only moves a row on, of a worker and of a holder
\* that lets go are quiet.
LEMMA QuietSteps ==
    ASSUME TypeOK, PickIsEligible, IdleIsBounded,
           \/ HelperEndsBroker \/ Admit \/ Start \/ Crash \/ HolderEnds \/ HelperChanges \/ Clear
           \/ \E r \in Runs : Observe(r) \/ Cancel(r) \/ WorkerEnds(r)
    PROVE  Quiet
<1> USE DEF Quiet, None, marker, records, rows, broker, history
<1>1. CASE HelperEndsBroker
  BY <1>1, SameStatus DEF HelperEndsBroker
<1>2. CASE Admit
  <2>1. pick \in Runs
    BY <1>2 DEF Admit, TypeOK
  <2>2. Queued' \subseteq Queued /\ Live' \subseteq Live
    BY <1>2, <2>1, NewStatus DEF Admit, Live, Queued, Running
  <2> QED
    BY <1>2, <2>1, <2>2 DEF Admit, IdleIsBounded, Running
<1>3. CASE Start
  <2>1. pick \in Runs
    BY <1>3 DEF Start, Running
  <2>2. Queued' \subseteq Queued /\ Live' \subseteq Live
    BY <1>3, <2>1, NewStatus DEF Start, Live, Queued, Running
  <2> QED
    BY <1>3, <2>1, <2>2 DEF Start, IdleIsBounded, Running
<1>4. CASE Crash
  BY <1>4, SameStatus DEF Crash
<1>5. CASE HolderEnds
  BY <1>5, SameStatus DEF HolderEnds, PickIsEligible, IdleIsBounded
<1>6. CASE HelperChanges
  BY <1>6, SameStatus DEF HelperChanges, PickIsEligible
<1>7. CASE Clear
  <2>1. Queued' \subseteq Queued /\ Live' \subseteq Live
    BY <1>7 DEF Clear, Live, Queued, Running, TypeOK
  <2> QED
    BY <1>7, <2>1 DEF Clear, PickIsEligible
<1>8. ASSUME NEW r \in Runs, Observe(r)
      PROVE  Quiet
  <2>1. Queued' \subseteq Queued /\ Live' \subseteq Live
    <3>1. CASE UNCHANGED status
      BY <3>1, SameStatus
    <3>2. CASE \E s \in Terminal : Set(r, s)
      BY <3>2, NewStatus DEF Terminal
    <3> QED
      BY <1>8, <3>1, <3>2 DEF Observe, Verdict, Terminal
  <2> QED
    BY <1>8, <2>1 DEF Observe, PickIsEligible
<1>9. ASSUME NEW r \in Runs, Cancel(r)
      PROVE  Quiet
  <2>1. Queued' \subseteq Queued /\ Live' \subseteq Live
    BY <1>9, NewStatus DEF Cancel, Live, Queued, Running
  <2> QED
    BY <1>9, <2>1 DEF Cancel, PickIsEligible
<1>10. ASSUME NEW r \in Runs, WorkerEnds(r)
      PROVE  Quiet
  BY <1>10, SameStatus DEF WorkerEnds, PickIsEligible
<1> QED
  BY <1>1, <1>2, <1>3, <1>4, <1>5, <1>6, <1>7, <1>8, <1>9, <1>10

\* Every step keeps the invariant.
LEMMA NextIInv ==
    ASSUME IInv, [Next]_vars
    PROVE  IInv'
<1> USE DEF IInv, MarkerHolds, None, marker, records, rows, broker, history
<1> TypeOK'
  BY NextTypeOK
<1>1. ASSUME NEW r \in Runs, Pick(r)
      PROVE  IInv'
  <2>1. Queued' = Queued /\ Live' = Live
    BY <1>1, SameStatus DEF Pick
  <2>2. MarkerIsWhole' /\ DrainIntentKept'
    BY <1>1, RecoveryConstantsOK DEF Pick, MarkerIsWhole, DrainIntentKept, TypeOK, Open, DrainStates, NoRec
  <2>3. DrainedIsEmpty' /\ HeldIsDrained'
    BY <1>1, <2>1 DEF Pick, DrainedIsEmpty, HeldIsDrained, TypeOK, Open, DrainStates
  <2>4. LiveProofIsCurrent' /\ PickIsEligible'
    BY <1>1, <2>1 DEF Pick, LiveProofIsCurrent, PickIsEligible, Eligible
  <2>5. AttemptsCounted' /\ AnswersRecorded' /\ CompletionAgrees'
    BY <1>1 DEF Pick, AttemptsCounted, AnswersRecorded, CompletionAgrees
  <2>6. IdleIsBounded'
    BY <1>1, <2>1 DEF Pick, IdleIsBounded
  <2> QED
    BY <2>2, <2>3, <2>4, <2>5, <2>6
<1>2. CASE Yield
  <2>1. Queued' = Queued /\ Live' = Live
    BY <1>2, SameStatus DEF Yield
  <2>2. MarkerIsWhole' /\ DrainIntentKept'
    BY <1>2, RecoveryConstantsOK DEF Yield, MarkerIsWhole, DrainIntentKept, TypeOK, Open, DrainStates, NoRec
  <2>3. DrainedIsEmpty' /\ HeldIsDrained'
    <3>1. owner' # "installer" /\ (meta.state \notin DrainStates => meta' = meta)
      BY <1>2 DEF Yield, IdleIsBounded
    <3>2. CASE meta.state \in DrainStates
      <4>1. rec = NoRec /\ late' = late
        BY <1>2, <3>2 DEF Yield, MarkerIsWhole, DrainStates
      <4>2. Live \subseteq late
        BY <1>2, <4>1 DEF Yield, LiveProofIsCurrent, IdleIsBounded, Live, Queued, Running, Runs
      <4> QED
        BY <2>1, <3>1, <4>1, <4>2 DEF DrainedIsEmpty, HeldIsDrained
    <3>3. CASE meta.state \notin DrainStates
      BY <3>1, <3>3 DEF DrainedIsEmpty, HeldIsDrained, DrainStates
    <3> QED
      BY <3>2, <3>3
  <2>4. LiveProofIsCurrent' /\ PickIsEligible'
    BY <1>2, <2>1 DEF Yield, LiveProofIsCurrent, PickIsEligible, IdleIsBounded
  <2>5. AttemptsCounted' /\ AnswersRecorded' /\ CompletionAgrees'
    BY <1>2 DEF Yield, AttemptsCounted, AnswersRecorded, CompletionAgrees
  <2>6. IdleIsBounded'
    BY <1>2, <2>1 DEF Yield, IdleIsBounded
  <2> QED
    BY <2>2, <2>3, <2>4, <2>5, <2>6
<1>3. CASE Boot
  <2>1. Queued' = Queued /\ Live' = Live
    BY <1>3, SameStatus DEF Boot
  <2>2. MarkerIsWhole' /\ DrainIntentKept'
    BY <1>3, RecoveryConstantsOK DEF Boot, MarkerIsWhole, DrainIntentKept, TypeOK, Open, DrainStates, NoRec
  <2>3. DrainedIsEmpty' /\ HeldIsDrained'
    BY <1>3, <2>1 DEF Boot, DrainedIsEmpty, HeldIsDrained, TypeOK, Open, DrainStates
  <2>4. LiveProofIsCurrent' /\ PickIsEligible'
    BY <1>3, <2>1 DEF Boot, LiveProofIsCurrent, PickIsEligible, Eligible
  <2>5. AttemptsCounted' /\ AnswersRecorded' /\ CompletionAgrees'
    BY <1>3 DEF Boot, AttemptsCounted, AnswersRecorded, CompletionAgrees
  <2>6. IdleIsBounded'
    BY <1>3, <2>1 DEF Boot, IdleIsBounded
  <2> QED
    BY <2>2, <2>3, <2>4, <2>5, <2>6
<1>4. CASE DrainHold
  <2>1. Queued' = Queued /\ Live' = Live
    BY <1>4, SameStatus DEF DrainHold
  <2>2. MarkerIsWhole' /\ DrainIntentKept'
    BY <1>4, RecoveryConstantsOK DEF DrainHold, MarkerIsWhole, DrainIntentKept, TypeOK, Open, DrainStates, NoRec
  <2>3. DrainedIsEmpty' /\ HeldIsDrained'
    BY <1>4, <2>1 DEF DrainHold, DrainedIsEmpty, HeldIsDrained, TypeOK, Open, DrainStates
  <2>4. LiveProofIsCurrent' /\ PickIsEligible'
    BY <1>4, <2>1 DEF DrainHold, LiveProofIsCurrent, PickIsEligible, Eligible
  <2>5. AttemptsCounted' /\ AnswersRecorded' /\ CompletionAgrees'
    BY <1>4 DEF DrainHold, AttemptsCounted, AnswersRecorded, CompletionAgrees
  <2>6. IdleIsBounded'
    BY <1>4, <2>1 DEF DrainHold, IdleIsBounded
  <2> QED
    BY <2>2, <2>3, <2>4, <2>5, <2>6
<1>5. CASE DrainStatus
  <2>1. Queued' = Queued /\ Live' = Live
    BY <1>5, SameStatus DEF DrainStatus
  <2>2. MarkerIsWhole' /\ DrainIntentKept'
    BY <1>5, RecoveryConstantsOK DEF DrainStatus, MarkerIsWhole, DrainIntentKept, TypeOK, Open, DrainStates, NoRec
  <2>3. DrainedIsEmpty' /\ HeldIsDrained'
    BY <1>5, <2>1 DEF DrainStatus, DrainedIsEmpty, HeldIsDrained, TypeOK, Open, DrainStates
  <2>4. LiveProofIsCurrent' /\ PickIsEligible'
    BY <1>5, <2>1 DEF DrainStatus, LiveProofIsCurrent, PickIsEligible, Eligible
  <2>5. AttemptsCounted' /\ AnswersRecorded' /\ CompletionAgrees'
    BY <1>5 DEF DrainStatus, AttemptsCounted, AnswersRecorded, CompletionAgrees
  <2>6. IdleIsBounded'
    BY <1>5, <2>1 DEF DrainStatus, IdleIsBounded
  <2> QED
    BY <2>2, <2>3, <2>4, <2>5, <2>6
<1>6. ASSUME NEW d \in Drains, BeginDrain(d)
      PROVE  IInv'
  <2>1. Queued' = Queued /\ Live' = Live
    BY <1>6, SameStatus DEF BeginDrain
  <2>2. MarkerIsWhole' /\ DrainIntentKept'
    BY <1>6, RecoveryConstantsOK DEF BeginDrain, MarkerIsWhole, DrainIntentKept, TypeOK, Open, DrainStates, NoRec
  <2>3. DrainedIsEmpty' /\ HeldIsDrained'
    BY <1>6, <2>1 DEF BeginDrain, DrainedIsEmpty, HeldIsDrained, TypeOK, Open, DrainStates
  <2>4. LiveProofIsCurrent' /\ PickIsEligible'
    BY <1>6, <2>1 DEF BeginDrain, LiveProofIsCurrent, PickIsEligible, Eligible
  <2>5. AttemptsCounted' /\ AnswersRecorded' /\ CompletionAgrees'
    BY <1>6 DEF BeginDrain, AttemptsCounted, AnswersRecorded, CompletionAgrees
  <2>6. IdleIsBounded'
    BY <1>6, <2>1 DEF BeginDrain, IdleIsBounded
  <2> QED
    BY <2>2, <2>3, <2>4, <2>5, <2>6
<1>7. ASSUME NEW d \in Drains, Resume(d)
      PROVE  IInv'
  <2>1. Queued' = Queued /\ Live' = Live
    BY <1>7, SameStatus DEF Resume
  <2>2. MarkerIsWhole' /\ DrainIntentKept'
    BY <1>7, RecoveryConstantsOK DEF Resume, MarkerIsWhole, DrainIntentKept, TypeOK, Open, DrainStates, NoRec
  <2>3. DrainedIsEmpty' /\ HeldIsDrained'
    BY <1>7, <2>1 DEF Resume, DrainedIsEmpty, HeldIsDrained, TypeOK, Open, DrainStates
  <2>4. LiveProofIsCurrent' /\ PickIsEligible'
    BY <1>7, <2>1 DEF Resume, LiveProofIsCurrent, PickIsEligible, Eligible
  <2>5. AttemptsCounted' /\ AnswersRecorded' /\ CompletionAgrees'
    BY <1>7 DEF Resume, AttemptsCounted, AnswersRecorded, CompletionAgrees
  <2>6. IdleIsBounded'
    BY <1>7, <2>1 DEF Resume, IdleIsBounded
  <2> QED
    BY <2>2, <2>3, <2>4, <2>5, <2>6
<1>8. ASSUME NEW j \in Jobs, Submit(j)
      PROVE  IInv'
  <2>1. rec = NoRec
    BY <1>8 DEF Submit, MarkerIsWhole, Open
  <2>2. Live' = Live \cup {j} /\ j \notin Proofs
    BY <1>8, RecoveryConstantsOK, NewStatus DEF Submit, Runs
  <2>3. MarkerIsWhole' /\ DrainIntentKept'
    BY <1>8 DEF Submit, MarkerIsWhole, DrainIntentKept
  <2>4. DrainedIsEmpty' /\ HeldIsDrained'
    BY <1>8 DEF Submit, DrainedIsEmpty, HeldIsDrained, Open
  <2>5. LiveProofIsCurrent' /\ PickIsEligible'
    BY <1>8, <2>1, <2>2 DEF Submit, LiveProofIsCurrent, PickIsEligible
  <2>6. AttemptsCounted' /\ AnswersRecorded' /\ CompletionAgrees'
    BY <1>8 DEF Submit, AttemptsCounted, AnswersRecorded, CompletionAgrees
  <2>7. IdleIsBounded'
    BY <1>8, <2>2 DEF Submit, IdleIsBounded
  <2> QED
    BY <2>3, <2>4, <2>5, <2>6, <2>7
<1>9. CASE RecoverHold
  <2>1. Queued' = Queued /\ Running' = Running /\ Live' = Live
    BY <1>9, SameStatus DEF RecoverHold
  <2>2. CASE rec # NoRec
    BY <1>9, <2>1, <2>2 DEF RecoverHold, Prepare, MarkerIsWhole, DrainIntentKept, DrainedIsEmpty,
       HeldIsDrained, LiveProofIsCurrent, AttemptsCounted, AnswersRecorded, CompletionAgrees, PickIsEligible,
       IdleIsBounded
  <2>3. CASE rec = NoRec
    <3>1. /\ begun' = begun + 1 /\ used' = {} /\ guards' = TRUE
          /\ rec' = [id |-> begun + 1, proof |-> None, attempts |-> 0, phase |-> "guarded", drain |-> meta]
          /\ meta' = [state |-> "recovering", id |-> begun + 1]
          /\ owner = None /\ owner' = "holder"
          /\ UNCHANGED <<last, pick, intent, told>>
      BY <1>9, <2>3 DEF RecoverHold, Prepare
    <3>2. begun \in Nat /\ rec' # NoRec
      BY <3>1, RecoveryConstantsOK DEF TypeOK, NoRec
    <3>3. MarkerIsWhole' /\ DrainIntentKept'
      BY <2>3, <3>1, <3>2 DEF MarkerIsWhole, DrainIntentKept, Open
    <3>4. DrainedIsEmpty' /\ HeldIsDrained'
      BY <3>1 DEF DrainedIsEmpty, HeldIsDrained
    <3>5. LiveProofIsCurrent' /\ PickIsEligible'
      BY <2>1, <2>3, <3>1, RecoveryConstantsOK DEF LiveProofIsCurrent, PickIsEligible, Queued
    <3>6. AttemptsCounted'
      BY <3>1, FS_EmptySet DEF AttemptsCounted
    <3>7. AnswersRecorded' /\ CompletionAgrees'
      <4>1. last.id \in Nat /\ \A x \in told : x[1] \in Nat
        BY RecoveryConstantsOK DEF TypeOK, Ids, NoLast
      <4> QED
        BY <3>1, <3>2, <4>1 DEF AnswersRecorded, CompletionAgrees
    <3>8. IdleIsBounded'
      BY <1>9 DEF RecoverHold, IdleIsBounded
    <3> QED
      BY <3>3, <3>4, <3>5, <3>6, <3>7, <3>8
  <2> QED
    BY <2>2, <2>3
<1>10. CASE Complete
  <2>1. Queued' = Queued /\ Running' = Running /\ Live' = Live
    BY <1>10, SameStatus DEF Complete
  <2>2. rec \in Recoveries /\ rec' = NoRec /\ owner = "broker"
    BY <1>10 DEF Complete, TypeOK, Recoveries
  <2>3. /\ meta'.state \in {"open"} \cup DrainStates
        /\ meta'.id = rec.drain.id
        /\ meta' = Open <=> rec.drain = Open
        /\ meta'.state = "drained" => Live = {}
    BY <1>10, <2>2 DEF Complete, Restore, Recoveries, Open, DrainStates
  <2>4. MarkerIsWhole' /\ DrainIntentKept'
    BY <1>10, <2>2, <2>3, RecoveryConstantsOK
       DEF Complete, Restore, MarkerIsWhole, DrainIntentKept, DrainStates, Open, TypeOK
  <2>5. DrainedIsEmpty' /\ HeldIsDrained'
    BY <1>10, <2>1, <2>2, <2>3 DEF Complete, DrainedIsEmpty, HeldIsDrained
  <2>6. LiveProofIsCurrent'
    <3>1. Proofs \cap Live = {}
      BY <1>10, <2>2 DEF Complete, Proven, Enforced, LiveProofIsCurrent, Live, Queued, Running
    <3> QED
      BY <2>1, <2>2, <3>1 DEF LiveProofIsCurrent
  <2>7. PickIsEligible' /\ AttemptsCounted'
    BY <1>10, <2>2 DEF Complete, PickIsEligible, AttemptsCounted
  <2>8. AnswersRecorded' /\ CompletionAgrees'
    <3>1. /\ last'.id = rec.id /\ last'.state = meta'.state
          /\ told' = told \cup {<<rec.id, meta'.state>>} /\ begun' = begun
      BY <1>10 DEF Complete
    <3>2. rec.id = begun /\ begun \in Nat /\ \A x \in told : x[1] <= begun /\ x[1] # rec.id
      BY <2>2, <1>10, RecoveryConstantsOK DEF Complete, AnswersRecorded, TypeOK
    <3> QED
      BY <2>2, <3>1, <3>2 DEF AnswersRecorded, CompletionAgrees
  <2>9. IdleIsBounded'
    BY <1>10, <2>1 DEF Complete, IdleIsBounded
  <2> QED
    BY <2>4, <2>5, <2>6, <2>7, <2>8, <2>9
<1>11. CASE Park
  <2>1. rec \in Recoveries /\ rec' = [rec EXCEPT !.phase = "parked"]
    BY <1>11 DEF Park, TypeOK, Recoveries
  <2>2. rec' # NoRec /\ rec'.id = rec.id /\ rec'.proof = rec.proof /\ rec'.attempts = rec.attempts
        /\ rec'.phase = "parked" /\ rec'.drain = rec.drain
    BY <2>1 DEF Recoveries, NoRec, Ids
  <2>3. /\ Queued' = Queued \ {rec.proof} /\ Live' \subseteq Live
    BY <1>11 DEF Park, Live, Queued, Running
  <2>4. MarkerIsWhole' /\ DrainIntentKept'
    BY <1>11, <2>2 DEF Park, MarkerIsWhole, DrainIntentKept
  <2>5. DrainedIsEmpty' /\ HeldIsDrained'
    BY <1>11, <2>3 DEF Park, DrainedIsEmpty, HeldIsDrained
  <2>6. LiveProofIsCurrent' /\ PickIsEligible'
    BY <1>11, <2>2, <2>3 DEF Park, LiveProofIsCurrent, PickIsEligible
  <2>7. AttemptsCounted' /\ AnswersRecorded' /\ CompletionAgrees'
    BY <1>11, <2>2 DEF Park, AttemptsCounted, AnswersRecorded, CompletionAgrees
  <2>8. IdleIsBounded'
    BY <1>11, <2>3 DEF Park, IdleIsBounded
  <2> QED
    BY <2>4, <2>5, <2>6, <2>7, <2>8
<1>12. ASSUME NEW p \in NewProof, SubmitProof(p)
      PROVE  IInv'
  <2>1. p \in Proofs /\ p \in Runs /\ status[p] = "absent"
    BY NewProofIsAbsent DEF Runs
  <2>2. rec \in Recoveries /\ rec' # NoRec /\ rec'.id = rec.id /\ rec'.drain = rec.drain
    <3>1. rec \in Recoveries /\ rec # NoRec
      BY <1>12 DEF SubmitProof, TypeOK, Recoveries
    <3>2. rec.id # 0 /\ NoRec.id = 0
      BY <3>1 DEF Recoveries, NoRec, Ids
    <3>3. rec'.id = rec.id /\ rec'.drain = rec.drain
      BY <1>12, <3>1 DEF SubmitProof, Recoveries
    <3> QED
      BY <3>1, <3>2, <3>3
  <2>3. Queued' \subseteq Queued \cup {p} /\ Live' \subseteq Live \cup {p}
    BY <1>12, <2>1, NewStatus, SameStatus DEF SubmitProof
  <2>4. MarkerIsWhole' /\ DrainIntentKept'
    BY <1>12, <2>2 DEF SubmitProof, MarkerIsWhole, DrainIntentKept
  <2>5. DrainedIsEmpty' /\ HeldIsDrained'
    BY <1>12 DEF SubmitProof, MarkerIsWhole, DrainedIsEmpty, HeldIsDrained
  <2>6. AnswersRecorded' /\ CompletionAgrees'
    BY <1>12, <2>2 DEF SubmitProof, AnswersRecorded, CompletionAgrees
  <2>7. rec.proof \notin Queued
    <3>1. rec # NoRec /\ ~Current /\ None \notin Runs
      BY <1>12, RecoveryConstantsOK DEF SubmitProof
    <3>2. rec.phase \in {"guarded", "verifying", "parked"}
      BY <2>2 DEF Recoveries
    <3> QED
      BY <3>1, <3>2 DEF Current, LiveProofIsCurrent, Queued
  <2>a. IdleIsBounded'
    BY <1>12, <2>1, <2>3, RecoveryConstantsOK DEF SubmitProof, IdleIsBounded
  <2>8. CASE rec.attempts = MaxAttempts
    <3>1. /\ rec'.proof = rec.proof /\ rec'.attempts = rec.attempts /\ rec'.phase = "parked"
          /\ UNCHANGED <<status, used>>
      BY <1>12, <2>2, <2>8 DEF SubmitProof, Recoveries
    <3>2. LiveProofIsCurrent' /\ PickIsEligible'
      BY <1>12, <2>2, <2>7, <3>1, SameStatus DEF SubmitProof, LiveProofIsCurrent, PickIsEligible
    <3>3. AttemptsCounted'
      BY <1>12, <3>1 DEF SubmitProof, AttemptsCounted
    <3> QED
      BY <2>4, <2>5, <2>6, <2>a, <3>2, <3>3
  <2>9. CASE rec.attempts # MaxAttempts
    <3>1. /\ rec'.proof = p /\ rec'.attempts = rec.attempts + 1 /\ rec'.phase = "verifying"
          /\ used' = used \cup {p} /\ Running = {}
      BY <1>12, <2>2, <2>9 DEF SubmitProof, Recoveries
    <3>2. Proofs \cap Live = {}
      BY <2>7, <3>1 DEF LiveProofIsCurrent, Live
    <3>3. LiveProofIsCurrent'
      BY <2>1, <2>2, <2>3, <3>1, <3>2 DEF LiveProofIsCurrent
    <3>4. PickIsEligible'
      BY <1>12, <2>2, <2>3, <3>1, <3>2 DEF SubmitProof, PickIsEligible, Live, LiveProofIsCurrent, Recoveries
    <3>5. AttemptsCounted'
      <4>1. IsFiniteSet(used) /\ Cardinality(used) <= rec.attempts /\ Cardinality(used) \in Nat
        BY <1>12, FS_CardinalityType DEF SubmitProof, AttemptsCounted
      <4>2. /\ IsFiniteSet(used')
            /\ Cardinality(used') \in {Cardinality(used), Cardinality(used) + 1}
        BY <3>1, <4>1, FS_AddElement
      <4> QED
        BY <2>2, <3>1, <4>1, <4>2, RecoveryConstantsOK DEF AttemptsCounted, Recoveries
    <3> QED
      BY <2>4, <2>5, <2>6, <2>a, <3>3, <3>4, <3>5
  <2> QED
    BY <2>8, <2>9
<1>13. ASSUME NEW id \in Ids, CompleteAgain(id)
      PROVE  IInv'
  <2>1. Queued' = Queued /\ Live' = Live
    BY <1>13, SameStatus DEF CompleteAgain
  <2>2. MarkerHolds' /\ LiveProofIsCurrent' /\ AttemptsCounted' /\ PickIsEligible' /\ IdleIsBounded'
    BY <1>13, <2>1 DEF CompleteAgain, MarkerIsWhole, DrainIntentKept, DrainedIsEmpty,
       HeldIsDrained, LiveProofIsCurrent, AttemptsCounted, PickIsEligible, IdleIsBounded
  <2>3. AnswersRecorded' /\ CompletionAgrees'
    BY <1>13 DEF CompleteAgain, AnswersRecorded, CompletionAgrees
  <2> QED
    BY <2>2, <2>3
<1>14. CASE Quiet
  BY <1>14, QuietKeeps
<1>15. CASE UNCHANGED vars
  BY <1>15, QuietKeeps, SameStatus DEF vars, Quiet, PickIsEligible
<1>16. CASE FindIdle
  <2>1. Queued' = Queued /\ Live' = Live /\ Live = {}
    BY <1>16, SameStatus DEF FindIdle
  <2>2. MarkerIsWhole' /\ DrainIntentKept'
    BY <1>16 DEF FindIdle, MarkerIsWhole, DrainIntentKept
  <2>3. DrainedIsEmpty' /\ HeldIsDrained' /\ IdleIsBounded'
    BY <1>16, <2>1 DEF FindIdle, DrainedIsEmpty, HeldIsDrained, IdleIsBounded
  <2>4. LiveProofIsCurrent' /\ PickIsEligible'
    BY <1>16, <2>1 DEF FindIdle, LiveProofIsCurrent, PickIsEligible
  <2>5. AttemptsCounted' /\ AnswersRecorded' /\ CompletionAgrees'
    BY <1>16 DEF FindIdle, AttemptsCounted, AnswersRecorded, CompletionAgrees
  <2> QED
    BY <2>2, <2>3, <2>4, <2>5
<1> QED
  BY <1>1, <1>2, <1>3, <1>4, <1>5, <1>6, <1>7, <1>8, <1>9, <1>10, <1>11, <1>12, <1>13,
     <1>14, <1>15, <1>16, QuietSteps DEF Next, Pump

\* Initially the invariant holds.
LEMMA InitIInv == Init => IInv
<1> SUFFICES ASSUME Init PROVE IInv
  OBVIOUS
<1>1. TypeOK
  BY InitTypeOK
<1>2. Live = {} /\ Queued = {}
  BY DEF Init, Live, Queued, Running
<1>3. MarkerIsWhole /\ DrainIntentKept /\ DrainedIsEmpty /\ HeldIsDrained
  BY <1>2 DEF Init, MarkerIsWhole, DrainIntentKept, DrainedIsEmpty, HeldIsDrained, Open, NoRec, None
<1>4. LiveProofIsCurrent /\ AttemptsCounted /\ PickIsEligible
  BY <1>2 DEF Init, LiveProofIsCurrent, AttemptsCounted, PickIsEligible
<1>6. IdleIsBounded
  BY DEF Init, IdleIsBounded
<1>5. AnswersRecorded /\ CompletionAgrees
  BY DEF Init, AnswersRecorded, CompletionAgrees, NoLast
<1> QED
  BY <1>1, <1>3, <1>4, <1>5, <1>6 DEF IInv, MarkerHolds

\* The invariant bounds the proofs.
LEMMA IInvBoundsProofs == IInv => RetriesAreHarmless
<1> SUFFICES ASSUME IInv PROVE ProofsAreBounded
  BY DEF IInv, RetriesAreHarmless
<1>1. Cardinality(Proofs \cap Live) <= 1
  <2>1. Proofs \cap Live \subseteq {rec.proof}
    BY DEF IInv, LiveProofIsCurrent
  <2>2. IsFiniteSet({rec.proof}) /\ Cardinality({rec.proof}) = 1
    BY FS_Singleton
  <2> QED
    BY <2>1, <2>2, FS_Subset
<1>2. ASSUME rec # NoRec
      PROVE  Cardinality(used) <= MaxAttempts
  <2>1. IsFiniteSet(used) /\ Cardinality(used) <= rec.attempts
    BY <1>2 DEF IInv, AttemptsCounted
  <2>2. rec.attempts \in Nat /\ rec.attempts <= MaxAttempts
    BY <1>2, RecoveryConstantsOK DEF IInv, MarkerHolds, TypeOK
  <2> QED
    BY <2>1, <2>2, FS_CardinalityType, RecoveryConstantsOK
<1> QED
  BY <1>1, <1>2 DEF ProofsAreBounded

\* A row that starts was admitted, and a row that is admitted was in hand.
LEMMA StepStartsProof ==
    ASSUME IInv, [Next]_vars, NEW r \in Runs, status[r] # "running", status'[r] = "running"
    PROVE  rec = NoRec \/ (rec.phase = "verifying" /\ r = rec.proof)
<1> USE DEF IInv, MarkerHolds, TypeOK, Set, marker, records, rows, broker, history
<1>1. CASE Admit
  <2>1. r = pick /\ pick \in Queued
    BY <1>1 DEF Admit, Queued, Running
  <2> QED
    BY <2>1 DEF PickIsEligible
<1>2. CASE Start \/ Park \/ Clear
  BY <1>2 DEF Start, Park, Clear, Running, Queued, Terminal
<1>3. CASE \/ HelperEndsBroker \/ FindIdle \/ Yield \/ Boot \/ Crash \/ RecoverHold \/ DrainHold \/ HolderEnds
           \/ Complete \/ HelperChanges \/ DrainStatus
  BY <1>3 DEF HelperEndsBroker, FindIdle, Yield, Boot, Crash, RecoverHold, DrainHold, HolderEnds, Complete,
     HelperChanges, DrainStatus
<1>4. CASE \E q \in Runs : Pick(q) \/ WorkerEnds(q)
  BY <1>4 DEF Pick, WorkerEnds
<1>5. CASE \E q \in Runs : Observe(q) \/ Cancel(q)
  BY <1>5 DEF Observe, Verdict, Cancel
<1>6. CASE \E j \in Jobs : Submit(j)
  BY <1>6 DEF Submit, Runs
<1>7. CASE \E d \in Drains : BeginDrain(d) \/ Resume(d)
  BY <1>7 DEF BeginDrain, Resume
<1>8. CASE \E p \in NewProof : SubmitProof(p)
  BY <1>8, NewProofIsAbsent DEF SubmitProof, Runs
<1>9. CASE \E id \in Ids : CompleteAgain(id)
  BY <1>9 DEF CompleteAgain
<1>10. CASE UNCHANGED vars
  BY <1>10 DEF vars
<1> QED
  BY <1>1, <1>2, <1>3, <1>4, <1>5, <1>6, <1>7, <1>8, <1>9, <1>10 DEF Next, Pump

------------------------------------------------------------------------------
(* Theorems *)

\* The inductive invariant holds in every state of every behaviour.
THEOREM RecoveryInvariant == Spec => []IInv
<1>1. IInv /\ [Next]_vars => IInv'
  BY NextIInv
<1> QED
  BY <1>1, InitIInv, PTL DEF Spec

\* The maintenance marker, its triggers and the recovery record agree, a drain
\* stays in force through recoveries until it is resumed, a spool that an
\* installer holds has no work, and one that is marked drained has none but what
\* was accepted between the idle check and the mark.
THEOREM MarkerAlwaysHolds == Spec => []MarkerHolds
<1>1. IInv => MarkerHolds
  BY DEF IInv
<1> QED
  BY <1>1, RecoveryInvariant, PTL

\* Whatever is parked, continued, repeated or crashes: at most one proof is
\* live, a recovery submits at most the allowed number, and complete gives one
\* answer for each recovery.
THEOREM RetriesAlwaysHarmless == Spec => []RetriesAreHarmless
  BY IInvBoundsProofs, RecoveryInvariant, PTL

\* Nothing but the current proof of a recovery starts while it is active.
THEOREM OnlyProofEverStarts == Spec => OnlyProofStarts
<1>1. IInv /\ [Next]_vars =>
        [\A r \in Runs : status[r] # "running" /\ status'[r] = "running" =>
           rec = NoRec \/ (rec.phase = "verifying" /\ r = rec.proof)]_vars
  BY StepStartsProof
<1> QED
  BY <1>1, RecoveryInvariant, PTL DEF Spec, OnlyProofStarts
=============================================================================
