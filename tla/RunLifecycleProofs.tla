-------------------------- MODULE RunLifecycleProofs --------------------------
(***************************************************************************)
(* Proofs that no process of a run outlives its running row unless the     *)
(* receipt says that its leaf could not be ended, that a passed run did    *)
(* what it claims, that a stop decides the verdict, and that a run keeps   *)
(* what JobLife promises, for any kind of run, with a leaf or without one, *)
(* and any number of crashes and busy databases.                           *)
(***************************************************************************)
EXTENDS RunLifecycle, TLAPS

------------------------------------------------------------------------------
(* The invariant *)

\* The worker may yet start the command.
Startable == proc = "pending" /\ pipe = "released"

\* Nothing was done for a run in the queue.
QueuedInv ==
    row.status = "queued" =>
        /\ pc \in {"none", "idle"} /\ pipe = "none"
        /\ row.cancel = "no" /\ row.reported = None

\* The owner starts a worker: it is not released yet.
StartInv ==
    pc \in Starting =>
        /\ row.status = "running" /\ ~child
        /\ pc \in {"admitted", "prepared"} => pipe = "none"
        /\ pc \notin {"admitted", "prepared"} => pipe = "open"
        /\ pc \in {"identified", "verified", "releasing"} => row.known

\* A worker is released after its identity was written, and by no later owner.
PipeInv ==
    /\ pipe = "none" => proc = "none"
    /\ pipe = "open" => pc \in Starting
    /\ pipe = "released" => row.known /\ row.status # "queued"

\* The command is started once, by a released worker.
RanInv ==
    /\ ran \in {0, 1}
    /\ ran = 1 => pipe = "released" /\ proc \notin {"none", "pending"}
    /\ CommandAlive => ran = 1

\* What the owner holds of its child is what became of it.
ChildInv ==
    /\ child => pipe = "released" /\ row.status = "running"
    /\ seen # None => child /\ seen = exit /\ proc = "gone"
    /\ exit # None => proc \in {"zombie", "gone"}

\* The command of the run succeeded.
Earned == ran = 1 /\ (kind # "land" => exit = "0") /\ (kind = "land" => published)

\* A success that is known anywhere is one.
SuccessInv ==
    /\ exit = "0" => Earned
    /\ result = "0" => published
    /\ row.reported # None => ran = 1
    /\ row.reported = "0" => published
    /\ verdict.status = "passed" => Earned

\* The worker has ended, and what is left of its leaf is on record.
Over == proc # "running" /\ ~Startable /\ (group => "finish" \in undone)

\* A verdict is about a run whose worker is over.
FinishInv ==
    /\ pc = "drained" => row.status = "running"
    /\ pc = "finishing" => row.status = "running" /\ verdict.status \in Terminal
    /\ pc # "finishing" => verdict = NoVerdict
    /\ pc \in {"drained", "finishing"} \/ row.status \in Terminal => Over
    /\ row.status \in Terminal => pc \in {"none", "idle"}
    /\ verdict.status = "cancelled" => row.cancel # "no"

\* A land publishes when it can no longer be cancelled.
PublishInv ==
    /\ script # "none" => proc = "running" /\ kind = "land"
    /\ script = "publishing" => row.phase = "publishing" /\ row.cancel = "no"
    /\ published =>
          /\ kind = "land" /\ ran = 1 /\ row.cancel = "no"
          /\ script \in {"none", "report", "end", "quit"}
          /\ row.status = "running" => row.phase = "publishing"

\* The inductive invariant.
IInv ==
    /\ TypeOK /\ QueuedInv /\ StartInv /\ PipeInv /\ RanInv /\ ChildInv /\ SuccessInv
    /\ FinishInv /\ PublishInv
    /\ PassedIsEarned /\ StopHonoured

------------------------------------------------------------------------------
(* Types *)

\* What the owner has decided.
VerdictType == verdict \in [status : Terminal \cup {None}, reason : Reasons]

\* What the owner knows and does.
OwnerType ==
    /\ pc \in {"none", "idle", "drained", "finishing"} \cup Starting
    /\ child \in BOOLEAN
    /\ seen \in Codes \cup {None}
    /\ leaf \in {"none", "held", "cancelled"}
    /\ undone \subseteq {"cancel", "finish"}

\* The worker process and its group.
WorkerType ==
    /\ proc \in {"none", "pending", "running", "zombie", "gone"}
    /\ mine \in BOOLEAN
    /\ pipe \in {"none", "open", "released", "closed"}
    /\ exit \in Codes \cup {None}
    /\ group \in BOOLEAN /\ signalled \in BOOLEAN

\* The script of a land, and history.
LandType ==
    /\ kind \in Kinds
    /\ script \in {"none", "preflight", "gating", "gated", "publishing", "report", "end", "quit"}
    /\ result \in Codes \cup {None}
    /\ ran \in Nat
    /\ published \in BOOLEAN
    /\ faults \in 0 .. MaxFaults

\* The types by who owns the variable.
LEMMA TypeParts == TypeOK <=> row \in Row /\ VerdictType /\ OwnerType /\ WorkerType /\ LandType
  BY DEF TypeOK, VerdictType, OwnerType, WorkerType, LandType

\* The updates of the row.
LEMMA RowUpdates ==
    ASSUME row \in Row
    PROVE  /\ \A st \in {"running"} \cup Terminal : [row EXCEPT !.status = st] \in Row
           /\ \A st \in Terminal, c \in {"client", "stop"} : [row EXCEPT !.status = st, !.cancel = c] \in Row
           /\ \A c \in {"client", "stop"} : [row EXCEPT !.cancel = c] \in Row
           /\ \A ph \in {"none", "preflight"} : [row EXCEPT !.status = "running", !.phase = ph] \in Row
           /\ [row EXCEPT !.known = TRUE] \in Row
           /\ \A st \in Terminal, why \in Reasons :
                 [row EXCEPT !.status = st, !.reason = why, !.phase = "none"] \in Row
           /\ [row EXCEPT !.phase = "gating"] \in Row
           /\ [row EXCEPT !.gate = "red"] \in Row
           /\ \A ph \in {"gating", "publishing"} : [row EXCEPT !.phase = ph, !.gate = "green"] \in Row
           /\ \A code \in Codes \cup {None} : [row EXCEPT !.reported = code] \in Row
  BY DEF Row

\* A decision is a verdict.
LEMMA Decisions ==
    /\ \A st \in Terminal, why \in Reasons : Decide(st, why) => VerdictType'
    /\ VerdictType /\ UNCHANGED verdict => VerdictType'
  BY DEF Decide, VerdictType

\* The verdicts and the reasons that occur.
LEMMA ReasonsGiven ==
    /\ Terminal = {"passed", "failed", "cancelled", "interrupted"}
    /\ \A why \in {"", "memory-oom", "broker-stopped", "worker-result-lost", "resource-enforcement-failed",
                   "worker-start-failed", "broker-worker-handshake-failed"} : why \in Reasons
    /\ \A code : FailureReason(code) \in Reasons
<1>1. \A code : FailureReason(code) \in {"", "gate-failed", "stale-main", "avoided-commit", "merge-error"}
  BY DEF FailureReason
<1> QED
  BY <1>1 DEF Terminal, Reasons

\* What a kill through the leaf does to the processes.
LEMMA LeafKill ==
    ASSUME NEW done, KillLeaf(done), TypeOK
    PROVE  /\ \/ UNCHANGED <<proc, exit, script>>
              \/ /\ proc \in {"pending", "running"} /\ proc' \in {"zombie", "gone"}
                 /\ exit' = "killed" /\ script' = "none"
           /\ (group' => group) /\ group' \in BOOLEAN /\ signalled' \in BOOLEAN
           /\ done => ~group'
<1>1. CASE AllDie /\ UNCHANGED signalled
  BY <1>1 DEF AllDie, TypeOK
<1>2. CASE ~done /\ signalled' \in {signalled, TRUE} /\ UNCHANGED <<proc, exit, script, group>>
  BY <1>2 DEF TypeOK
<1> QED
  BY <1>1, <1>2 DEF KillLeaf

\* What is saved of it.
LEMMA StageSaved ==
    ASSUME TypeOK, NEW stage, NEW done, NEW state, NEW next, SaveStage(stage, done, state, next)
    PROVE  /\ \/ leaf' = state /\ pc' = next /\ (IF done THEN undone' = undone ELSE undone' = undone \cup {stage})
              \/ UNCHANGED <<leaf, undone, pc>>
           /\ faults' \in 0 .. MaxFaults
<1>1. faults \in 0 .. MaxFaults /\ MaxFaults \in Nat
  BY LifecycleConstantsOK DEF TypeOK
<1>2. faults < MaxFaults /\ faults' = faults + 1 => faults' \in 0 .. MaxFaults
  BY <1>1
<1> QED
  BY <1>1, <1>2 DEF SaveStage

\* What the steps through the leaf leave alone, and what they may do.
LEMMA LeafSteps ==
    ASSUME TypeOK, CancelResources \/ FinishResources
    PROVE  /\ UNCHANGED <<kind, row, child, seen, verdict, mine, pipe, result, ran, published>>
           /\ row.status = "running" /\ pc = "idle"
           /\ \/ UNCHANGED <<proc, exit, script>>
              \/ /\ proc \in {"pending", "running"} /\ proc' \in {"zombie", "gone"}
                 /\ exit' = "killed" /\ script' = "none"
           /\ (group' => group) /\ group' \in BOOLEAN /\ signalled' \in BOOLEAN
           /\ faults' \in 0 .. MaxFaults
<1>1. PICK done \in BOOLEAN : /\ KillLeaf(done)
                             /\ \/ SaveStage("cancel", done, "cancelled", "idle")
                                \/ SaveStage("finish", done, "none", "drained")
  BY DEF CancelResources, FinishResources
<1>2. faults' \in 0 .. MaxFaults
  BY <1>1, StageSaved
<1>3. UNCHANGED <<kind, row, child, seen, verdict, mine, pipe, result, ran, published>>
  BY DEF CancelResources, FinishResources
<1>4. row.status = "running" /\ pc = "idle"
  BY DEF CancelResources, FinishResources, Observing
<1> QED
  BY <1>1, <1>2, <1>3, <1>4, LeafKill

\* A stop through the leaf is recorded if it fails.
LEMMA StopSaved ==
    ASSUME TypeOK, CancelResources
    PROVE  /\ pc' = "idle"
           /\ leaf' \in {leaf, "cancelled"}
           /\ undone' \in {undone, undone \cup {"cancel"}}
<1>1. PICK done \in BOOLEAN : SaveStage("cancel", done, "cancelled", "idle")
  BY DEF CancelResources
<1>2. pc = "idle"
  BY DEF CancelResources, Observing
<1> QED
  BY <1>1, <1>2, StageSaved

\* The leaf is given back empty, or with a record that it is not.
LEMMA FinishSaved ==
    ASSUME TypeOK, FinishResources
    PROVE  \/ pc' = "idle" /\ leaf' = leaf /\ undone' = undone
           \/ pc' = "drained" /\ leaf' = "none" /\ undone' = undone /\ ~group'
           \/ pc' = "drained" /\ leaf' = "none" /\ undone' = undone \cup {"finish"}
<1>1. PICK done \in BOOLEAN : KillLeaf(done) /\ SaveStage("finish", done, "none", "drained")
  BY DEF FinishResources
<1>2. done => ~group'
  BY <1>1, LeafKill
<1>3. pc = "idle"
  BY DEF FinishResources, Observing
<1> QED
  BY <1>1, <1>2, <1>3, StageSaved

\* Every step keeps the type of the row.
LEMMA NextRowType ==
    ASSUME IInv, [Next]_vars
    PROVE  row' \in Row
<1> USE TypeParts, RowUpdates DEF IInv, owner, worker, land, resources
<1>1. CASE Cancel
  BY <1>1 DEF Cancel, Authoritative, Terminal
<1>2. CASE RequestInterruption
  BY <1>2 DEF RequestInterruption, Authoritative
<1>3. CASE StartOwner
  BY <1>3 DEF StartOwner
<1>4. CASE Crash
  BY <1>4 DEF Crash
<1>5. CASE Busy
  BY <1>5 DEF Busy, DropPending
<1>6. CASE Admit
  BY <1>6 DEF Admit
<1>7. CASE Prepare
  BY <1>7 DEF Prepare, GiveUp, Decide
<1>8. CASE Spawn
  BY <1>8 DEF Spawn, GiveUp, Decide
<1>9. CASE CommitIdentity
  BY <1>9 DEF CommitIdentity
<1>10. CASE VerifySetup
  BY <1>10 DEF VerifySetup, GiveUp, Decide, DropPending
<1>11. CASE CheckCancel
  BY <1>11 DEF CheckCancel, GiveUp, Decide, DropPending
<1>12. CASE Release
  BY <1>12 DEF Release, GiveUp, Decide, DropPending
<1>13. CASE SignalCancel
  BY <1>13 DEF SignalCancel, Observing, SameWorkerProcess
<1>14. CASE Reap
  BY <1>14 DEF Reap, Observing
<1>15. CASE DrainGroup
  BY <1>15 DEF DrainGroup, Observing, WorkerEnded, SameWorkerProcess
<1>16. CASE DecideFinished
  BY <1>16 DEF DecideFinished, Drained, Observing, WorkerEnded, GroupDrained, SameWorkerProcess, Decide,
         FailureReason
<1>17. CASE FinishRun
  <2>1. pc = "finishing" /\ verdict.status \in Terminal /\ verdict.reason \in Reasons
    BY <1>17, TypeParts DEF FinishRun, FinishInv, VerdictType
  <2>2. /\ "cancelled" \in Terminal /\ "interrupted" \in Terminal
        /\ "" \in Reasons /\ "broker-stopped" \in Reasons
    BY DEF Terminal, Reasons
  <2> QED
    BY <1>17, <2>1, <2>2 DEF FinishRun
<1>18. CASE PendingEOF
  BY <1>18 DEF PendingEOF
<1>19. CASE Exec
  BY <1>19 DEF Exec
<1>20. CASE Fork
  BY <1>20 DEF Fork
<1>21. CASE Exit
  BY <1>21 DEF Exit, Ends
<1>22. CASE Killed
  BY <1>22 DEF Killed, Ends
<1>23. CASE GroupEnds
  BY <1>23 DEF GroupEnds
<1>24. CASE KillGroup
  BY <1>24 DEF KillGroup, AllDie
<1>25. CASE CallbackFails
  BY <1>25 DEF CallbackFails, Script
<1>26. CASE PreflightRefuses
  BY <1>26 DEF PreflightRefuses, Script
<1>27. CASE ReuseGate
  BY <1>27 DEF ReuseGate, Callback, Script
<1>28. CASE StartGate
  BY <1>28 DEF StartGate, Callback, Script
<1>29. CASE GateGreen
  BY <1>29 DEF GateGreen, Script
<1>30. CASE GateRed
  BY <1>30 DEF GateRed, Callback, Script
<1>31. CASE AvoidedRefuses
  BY <1>31 DEF AvoidedRefuses, Script
<1>32. CASE StartPublishing
  BY <1>32 DEF StartPublishing, Callback, Script
<1>33. CASE Publish
  BY <1>33 DEF Publish, Script
<1>34. CASE Report
  BY <1>34 DEF Report, Callback, Script, ReportAccepted, LandType
<1>35. CASE UNCHANGED vars
  BY <1>35 DEF vars
<1>36. CASE CancelResources
  BY <1>36, LeafSteps
<1>37. CASE FinishResources
  BY <1>37, LeafSteps
<1> QED
  BY <1>1, <1>2, <1>3, <1>4, <1>5, <1>6, <1>7, <1>8, <1>9, <1>10, <1>11, <1>12, <1>13, <1>14, <1>15,
     <1>16, <1>17, <1>18, <1>19, <1>20, <1>21, <1>22, <1>23, <1>24, <1>25, <1>26, <1>27, <1>28,
     <1>29, <1>30, <1>31, <1>32, <1>33, <1>34, <1>35, <1>36, <1>37 DEF Next, StartStep, ObserveStep, ProcessStep,
         ScriptStep

\* Every step keeps the type of the verdict.
LEMMA NextVerdictType ==
    ASSUME IInv, [Next]_vars
    PROVE  VerdictType'
<1> USE TypeParts DEF IInv, owner, worker, land, resources
<1>1. CASE Cancel
  BY <1>1 DEF Cancel, Authoritative, VerdictType
<1>2. CASE RequestInterruption
  BY <1>2 DEF RequestInterruption, Authoritative, VerdictType
<1>3. CASE StartOwner
  BY <1>3 DEF StartOwner, VerdictType
<1>4. CASE Crash
  BY <1>4 DEF Crash, VerdictType, NoVerdict, Reasons
<1>5. CASE Busy
  BY <1>5 DEF Busy, DropPending, VerdictType, NoVerdict, Reasons
<1>6. CASE Admit
  BY <1>6 DEF Admit, VerdictType
<1>7. CASE Prepare
  BY <1>7, Decisions, ReasonsGiven DEF Prepare, GiveUp, worker
<1>8. CASE Spawn
  BY <1>8, Decisions, ReasonsGiven DEF Spawn, GiveUp, worker
<1>9. CASE CommitIdentity
  BY <1>9 DEF CommitIdentity, VerdictType
<1>10. CASE VerifySetup
  BY <1>10, Decisions, ReasonsGiven DEF VerifySetup, GiveUp, worker
<1>11. CASE CheckCancel
  BY <1>11, Decisions, ReasonsGiven DEF CheckCancel, GiveUp, worker
<1>12. CASE Release
  BY <1>12, Decisions, ReasonsGiven DEF Release, GiveUp, worker
<1>13. CASE SignalCancel
  BY <1>13 DEF SignalCancel, Observing, SameWorkerProcess, VerdictType
<1>14. CASE Reap
  BY <1>14 DEF Reap, Observing, VerdictType
<1>15. CASE DrainGroup
  BY <1>15 DEF DrainGroup, Observing, WorkerEnded, SameWorkerProcess, VerdictType
<1>16. CASE DecideFinished
  BY <1>16, Decisions, ReasonsGiven DEF DecideFinished, worker
<1>17. CASE FinishRun
  BY <1>17 DEF FinishRun, VerdictType, NoVerdict, Reasons
<1>18. CASE PendingEOF
  BY <1>18 DEF PendingEOF, VerdictType
<1>19. CASE Exec
  BY <1>19 DEF Exec, VerdictType
<1>20. CASE Fork
  BY <1>20 DEF Fork, VerdictType
<1>21. CASE Exit
  BY <1>21 DEF Exit, Ends, VerdictType
<1>22. CASE Killed
  BY <1>22 DEF Killed, Ends, VerdictType
<1>23. CASE GroupEnds
  BY <1>23 DEF GroupEnds, VerdictType
<1>24. CASE KillGroup
  BY <1>24 DEF KillGroup, AllDie, VerdictType
<1>25. CASE CallbackFails
  BY <1>25 DEF CallbackFails, Script, VerdictType
<1>26. CASE PreflightRefuses
  BY <1>26 DEF PreflightRefuses, Script, VerdictType
<1>27. CASE ReuseGate
  BY <1>27 DEF ReuseGate, Callback, Script, VerdictType
<1>28. CASE StartGate
  BY <1>28 DEF StartGate, Callback, Script, VerdictType
<1>29. CASE GateGreen
  BY <1>29 DEF GateGreen, Script, VerdictType
<1>30. CASE GateRed
  BY <1>30 DEF GateRed, Callback, Script, VerdictType
<1>31. CASE AvoidedRefuses
  BY <1>31 DEF AvoidedRefuses, Script, VerdictType
<1>32. CASE StartPublishing
  BY <1>32 DEF StartPublishing, Callback, Script, VerdictType
<1>33. CASE Publish
  BY <1>33 DEF Publish, Script, VerdictType
<1>34. CASE Report
  BY <1>34 DEF Report, Callback, Script, ReportAccepted, VerdictType
<1>35. CASE UNCHANGED vars
  BY <1>35 DEF vars, VerdictType
<1>36. CASE CancelResources
  BY <1>36, LeafSteps DEF VerdictType
<1>37. CASE FinishResources
  BY <1>37, LeafSteps DEF VerdictType
<1> QED
  BY <1>1, <1>2, <1>3, <1>4, <1>5, <1>6, <1>7, <1>8, <1>9, <1>10, <1>11, <1>12, <1>13, <1>14, <1>15,
     <1>16, <1>17, <1>18, <1>19, <1>20, <1>21, <1>22, <1>23, <1>24, <1>25, <1>26, <1>27, <1>28,
     <1>29, <1>30, <1>31, <1>32, <1>33, <1>34, <1>35, <1>36, <1>37 DEF Next, StartStep, ObserveStep, ProcessStep,
         ScriptStep

\* Every step keeps the types of the owner.
LEMMA NextOwnerType ==
    ASSUME IInv, [Next]_vars
    PROVE  OwnerType'
<1> USE TypeParts DEF IInv, owner, worker, land, resources, OwnerType, Starting
<1>1. CASE Cancel
  BY <1>1 DEF Cancel, Authoritative
<1>2. CASE RequestInterruption
  BY <1>2 DEF RequestInterruption, Authoritative
<1>3. CASE StartOwner
  BY <1>3 DEF StartOwner
<1>4. CASE Crash
  BY <1>4 DEF Crash
<1>5. CASE Busy
  BY <1>5 DEF Busy, DropPending
<1>6. CASE Admit
  BY <1>6 DEF Admit
<1>7. CASE Prepare
  BY <1>7 DEF Prepare, GiveUp, Decide
<1>8. CASE Spawn
  BY <1>8 DEF Spawn, GiveUp, Decide
<1>9. CASE CommitIdentity
  BY <1>9 DEF CommitIdentity
<1>10. CASE VerifySetup
  BY <1>10 DEF VerifySetup, GiveUp, Decide, DropPending
<1>11. CASE CheckCancel
  BY <1>11 DEF CheckCancel, GiveUp, Decide, DropPending
<1>12. CASE Release
  BY <1>12 DEF Release, GiveUp, Decide, DropPending
<1>13. CASE SignalCancel
  BY <1>13 DEF SignalCancel, Observing, SameWorkerProcess
<1>14. CASE Reap
  BY <1>14 DEF Reap, Observing, WorkerType
<1>15. CASE DrainGroup
  BY <1>15 DEF DrainGroup, Observing, WorkerEnded, SameWorkerProcess
<1>16. CASE DecideFinished
  BY <1>16 DEF DecideFinished, Drained, Observing, WorkerEnded, GroupDrained, SameWorkerProcess, Decide,
         FailureReason
<1>17. CASE FinishRun
  BY <1>17 DEF FinishRun
<1>18. CASE PendingEOF
  BY <1>18 DEF PendingEOF
<1>19. CASE Exec
  BY <1>19 DEF Exec
<1>20. CASE Fork
  BY <1>20 DEF Fork
<1>21. CASE Exit
  BY <1>21 DEF Exit, Ends
<1>22. CASE Killed
  BY <1>22 DEF Killed, Ends
<1>23. CASE GroupEnds
  BY <1>23 DEF GroupEnds
<1>24. CASE KillGroup
  BY <1>24 DEF KillGroup, AllDie
<1>25. CASE CallbackFails
  BY <1>25 DEF CallbackFails, Script
<1>26. CASE PreflightRefuses
  BY <1>26 DEF PreflightRefuses, Script
<1>27. CASE ReuseGate
  BY <1>27 DEF ReuseGate, Callback, Script
<1>28. CASE StartGate
  BY <1>28 DEF StartGate, Callback, Script
<1>29. CASE GateGreen
  BY <1>29 DEF GateGreen, Script
<1>30. CASE GateRed
  BY <1>30 DEF GateRed, Callback, Script
<1>31. CASE AvoidedRefuses
  BY <1>31 DEF AvoidedRefuses, Script
<1>32. CASE StartPublishing
  BY <1>32 DEF StartPublishing, Callback, Script
<1>33. CASE Publish
  BY <1>33 DEF Publish, Script
<1>34. CASE Report
  BY <1>34 DEF Report, Callback, Script, ReportAccepted
<1>35. CASE UNCHANGED vars
  BY <1>35 DEF vars
<1>36. CASE CancelResources
  BY <1>36, LeafSteps, StopSaved
<1>37. CASE FinishResources
  BY <1>37, LeafSteps, FinishSaved
<1> QED
  BY <1>1, <1>2, <1>3, <1>4, <1>5, <1>6, <1>7, <1>8, <1>9, <1>10, <1>11, <1>12, <1>13, <1>14, <1>15,
     <1>16, <1>17, <1>18, <1>19, <1>20, <1>21, <1>22, <1>23, <1>24, <1>25, <1>26, <1>27, <1>28,
     <1>29, <1>30, <1>31, <1>32, <1>33, <1>34, <1>35, <1>36, <1>37 DEF Next, StartStep, ObserveStep, ProcessStep,
         ScriptStep

\* Every step keeps the types of the worker.
LEMMA NextWorkerType ==
    ASSUME IInv, [Next]_vars
    PROVE  WorkerType'
<1> USE TypeParts DEF IInv, owner, worker, land, resources, WorkerType
<1>1. CASE Cancel
  BY <1>1 DEF Cancel, Authoritative
<1>2. CASE RequestInterruption
  BY <1>2 DEF RequestInterruption, Authoritative
<1>3. CASE StartOwner
  BY <1>3 DEF StartOwner
<1>4. CASE Crash
  BY <1>4 DEF Crash
<1>5. CASE Busy
  BY <1>5 DEF Busy, DropPending
<1>6. CASE Admit
  BY <1>6 DEF Admit
<1>7. CASE Prepare
  BY <1>7 DEF Prepare, GiveUp, Decide
<1>8. CASE Spawn
  BY <1>8 DEF Spawn, GiveUp, Decide
<1>9. CASE CommitIdentity
  BY <1>9 DEF CommitIdentity
<1>10. CASE VerifySetup
  BY <1>10 DEF VerifySetup, GiveUp, Decide, DropPending
<1>11. CASE CheckCancel
  BY <1>11 DEF CheckCancel, GiveUp, Decide, DropPending
<1>12. CASE Release
  BY <1>12 DEF Release, GiveUp, Decide, DropPending
<1>13. CASE SignalCancel
  BY <1>13 DEF SignalCancel, Observing, SameWorkerProcess
<1>14. CASE Reap
  BY <1>14 DEF Reap, Observing
<1>15. CASE DrainGroup
  BY <1>15 DEF DrainGroup, Observing, WorkerEnded, SameWorkerProcess
<1>16. CASE DecideFinished
  BY <1>16 DEF DecideFinished, Drained, Observing, WorkerEnded, GroupDrained, SameWorkerProcess, Decide,
         FailureReason
<1>17. CASE FinishRun
  BY <1>17 DEF FinishRun
<1>18. CASE PendingEOF
  BY <1>18 DEF PendingEOF
<1>19. CASE Exec
  BY <1>19 DEF Exec
<1>20. CASE Fork
  BY <1>20 DEF Fork
<1>21. CASE Exit
  BY <1>21 DEF Exit, Ends, LandType, Codes
<1>22. CASE Killed
  BY <1>22 DEF Killed, Ends, Codes
<1>23. CASE GroupEnds
  BY <1>23 DEF GroupEnds
<1>24. CASE KillGroup
  BY <1>24 DEF KillGroup, AllDie, Codes
<1>25. CASE CallbackFails
  BY <1>25 DEF CallbackFails, Script
<1>26. CASE PreflightRefuses
  BY <1>26 DEF PreflightRefuses, Script
<1>27. CASE ReuseGate
  BY <1>27 DEF ReuseGate, Callback, Script
<1>28. CASE StartGate
  BY <1>28 DEF StartGate, Callback, Script
<1>29. CASE GateGreen
  BY <1>29 DEF GateGreen, Script
<1>30. CASE GateRed
  BY <1>30 DEF GateRed, Callback, Script
<1>31. CASE AvoidedRefuses
  BY <1>31 DEF AvoidedRefuses, Script
<1>32. CASE StartPublishing
  BY <1>32 DEF StartPublishing, Callback, Script
<1>33. CASE Publish
  BY <1>33 DEF Publish, Script
<1>34. CASE Report
  BY <1>34 DEF Report, Callback, Script, ReportAccepted
<1>35. CASE UNCHANGED vars
  BY <1>35 DEF vars
<1>36. CASE CancelResources
  BY <1>36, LeafSteps DEF Codes
<1>37. CASE FinishResources
  BY <1>37, LeafSteps DEF Codes
<1> QED
  BY <1>1, <1>2, <1>3, <1>4, <1>5, <1>6, <1>7, <1>8, <1>9, <1>10, <1>11, <1>12, <1>13, <1>14, <1>15,
     <1>16, <1>17, <1>18, <1>19, <1>20, <1>21, <1>22, <1>23, <1>24, <1>25, <1>26, <1>27, <1>28,
     <1>29, <1>30, <1>31, <1>32, <1>33, <1>34, <1>35, <1>36, <1>37 DEF Next, StartStep, ObserveStep, ProcessStep,
         ScriptStep

\* Every step keeps the types of the land worker.
LEMMA NextLandType ==
    ASSUME IInv, [Next]_vars
    PROVE  LandType'
<1> USE TypeParts DEF IInv, owner, worker, land, resources, LandType
<1>1. CASE Cancel
  BY <1>1 DEF Cancel, Authoritative
<1>2. CASE RequestInterruption
  BY <1>2 DEF RequestInterruption, Authoritative
<1>3. CASE StartOwner
  BY <1>3 DEF StartOwner
<1>4. CASE Crash
  BY <1>4, LifecycleConstantsOK DEF Crash
<1>5. CASE Busy
  BY <1>5, LifecycleConstantsOK DEF Busy, DropPending
<1>6. CASE Admit
  BY <1>6 DEF Admit
<1>7. CASE Prepare
  BY <1>7 DEF Prepare, GiveUp, Decide
<1>8. CASE Spawn
  BY <1>8 DEF Spawn, GiveUp, Decide
<1>9. CASE CommitIdentity
  BY <1>9 DEF CommitIdentity
<1>10. CASE VerifySetup
  BY <1>10 DEF VerifySetup, GiveUp, Decide, DropPending
<1>11. CASE CheckCancel
  BY <1>11 DEF CheckCancel, GiveUp, Decide, DropPending
<1>12. CASE Release
  BY <1>12 DEF Release, GiveUp, Decide, DropPending
<1>13. CASE SignalCancel
  BY <1>13 DEF SignalCancel, Observing, SameWorkerProcess
<1>14. CASE Reap
  BY <1>14 DEF Reap, Observing
<1>15. CASE DrainGroup
  BY <1>15 DEF DrainGroup, Observing, WorkerEnded, SameWorkerProcess
<1>16. CASE DecideFinished
  BY <1>16 DEF DecideFinished, Drained, Observing, WorkerEnded, GroupDrained, SameWorkerProcess, Decide,
         FailureReason
<1>17. CASE FinishRun
  BY <1>17 DEF FinishRun
<1>18. CASE PendingEOF
  BY <1>18 DEF PendingEOF
<1>19. CASE Exec
  BY <1>19 DEF Exec
<1>20. CASE Fork
  BY <1>20 DEF Fork
<1>21. CASE Exit
  BY <1>21 DEF Exit, Ends
<1>22. CASE Killed
  BY <1>22 DEF Killed, Ends
<1>23. CASE GroupEnds
  BY <1>23 DEF GroupEnds
<1>24. CASE KillGroup
  BY <1>24 DEF KillGroup, AllDie
<1>25. CASE CallbackFails
  BY <1>25 DEF CallbackFails, Script
<1>26. CASE PreflightRefuses
  BY <1>26 DEF PreflightRefuses, Script, Codes
<1>27. CASE ReuseGate
  BY <1>27 DEF ReuseGate, Callback, Script
<1>28. CASE StartGate
  BY <1>28 DEF StartGate, Callback, Script
<1>29. CASE GateGreen
  BY <1>29 DEF GateGreen, Script
<1>30. CASE GateRed
  BY <1>30 DEF GateRed, Callback, Script, Codes
<1>31. CASE AvoidedRefuses
  BY <1>31 DEF AvoidedRefuses, Script, Codes
<1>32. CASE StartPublishing
  BY <1>32 DEF StartPublishing, Callback, Script
<1>33. CASE Publish
  BY <1>33 DEF Publish, Script, Codes
<1>34. CASE Report
  BY <1>34 DEF Report, Callback, Script, ReportAccepted
<1>35. CASE UNCHANGED vars
  BY <1>35 DEF vars
<1>36. CASE CancelResources
  BY <1>36, LeafSteps
<1>37. CASE FinishResources
  BY <1>37, LeafSteps
<1> QED
  BY <1>1, <1>2, <1>3, <1>4, <1>5, <1>6, <1>7, <1>8, <1>9, <1>10, <1>11, <1>12, <1>13, <1>14, <1>15,
     <1>16, <1>17, <1>18, <1>19, <1>20, <1>21, <1>22, <1>23, <1>24, <1>25, <1>26, <1>27, <1>28,
     <1>29, <1>30, <1>31, <1>32, <1>33, <1>34, <1>35, <1>36, <1>37 DEF Next, StartStep, ObserveStep, ProcessStep,
         ScriptStep

------------------------------------------------------------------------------
(* The parts of the invariant *)

\* What a decision is.
LEMMA Decided ==
    ASSUME NEW st, NEW why, Decide(st, why)
    PROVE  pc' = "finishing" /\ verdict'.status = st
  BY DEF Decide

\* What the start of a worker decides.
LEMMA StartVerdict ==
    ASSUME Prepare \/ Spawn \/ VerifySetup \/ CheckCancel \/ Release
    PROVE  /\ pc' # "finishing" => verdict' = verdict /\ pc' # "drained"
           /\ pc' = "finishing" => \/ verdict'.status = "failed"
                                   \/ verdict'.status = "cancelled" /\ row.cancel # "no"
<1>1. \/ pc' # "finishing" /\ pc' # "drained" /\ verdict' = verdict
      \/ \E why : Decide("failed", why)
      \/ Decide("cancelled", "") /\ row.cancel # "no"
  BY DEF Prepare, Spawn, VerifySetup, CheckCancel, Release, GiveUp
<1>2. CASE \E why : Decide("failed", why)
  BY <1>2, Decided
<1>3. CASE Decide("cancelled", "") /\ row.cancel # "no"
  BY <1>3, Decided
<1> QED
  BY <1>1, <1>2, <1>3

\* What the end of a worker decides.
LEMMA EndVerdict ==
    ASSUME DecideFinished
    PROVE  /\ pc' = "finishing" /\ verdict'.status \in Terminal
           /\ verdict'.status = "cancelled" => row.cancel # "no"
           /\ verdict'.status = "passed" =>
                 (IF kind = "land" /\ row.reported # None THEN row.reported ELSE seen) = "0"
<1> DEFINE code == IF kind = "land" /\ row.reported # None THEN row.reported ELSE seen
<1>1. \/ row.cancel = "client" /\ Decide("cancelled", "")
      \/ code = "0" /\ Decide("passed", "")
      \/ \E why : Decide("failed", why)
      \/ \E why : Decide("interrupted", why)
  BY DEF DecideFinished
<1>2. CASE row.cancel = "client" /\ Decide("cancelled", "")
  <2>1. pc' = "finishing" /\ verdict'.status = "cancelled"
    BY <1>2, Decided
  <2> QED
    BY <1>2, <2>1 DEF Terminal
<1>3. CASE code = "0" /\ Decide("passed", "")
  <2>1. pc' = "finishing" /\ verdict'.status = "passed"
    BY <1>3, Decided
  <2> QED
    BY <1>3, <2>1 DEF Terminal
<1>4. CASE \E why : Decide("failed", why)
  BY <1>4, Decided DEF Terminal
<1>5. CASE \E why : Decide("interrupted", why)
  BY <1>5, Decided DEF Terminal
<1> QED
  BY <1>1, <1>2, <1>3, <1>4, <1>5

\* The absence of a verdict is no verdict.
LEMMA Undecided == NoVerdict.status = "none"
  BY DEF NoVerdict, None

\* A worker that is not released is dropped.
LEMMA Dropped ==
    ASSUME DropPending, pipe # "released", ~CommandAlive
    PROVE  /\ pipe' # "open" /\ pipe' # "released" /\ ~CommandAlive'
           /\ (pipe' = "none" <=> pipe = "none") /\ (proc' = "none" <=> proc = "none") /\ proc' # "pending"
           /\ UNCHANGED <<mine, exit, group, signalled>>
<1>1. proc' \in {"none", "gone"} /\ (proc' = "none" <=> proc = "none")
  BY DEF DropPending
<1>2. group' = group
  BY DEF DropPending
<1> QED
  BY <1>1, <1>2 DEF DropPending, CommandAlive

\* Nothing is done for a run before it is admitted.
LEMMA NextQueued ==
    ASSUME IInv, [Next]_vars
    PROVE  QueuedInv'
<1> USE DEF IInv, TypeOK, owner, worker, land, resources, QueuedInv, PipeInv, Starting
<1>1. CASE Cancel
  BY <1>1 DEF Cancel, Authoritative, Row
<1>2. CASE RequestInterruption
  BY <1>2 DEF RequestInterruption, Authoritative, Row
<1>3. CASE StartOwner
  BY <1>3 DEF StartOwner
<1>4. CASE Crash
  BY <1>4 DEF Crash
<1>5. CASE Busy
  BY <1>5 DEF Busy, DropPending
<1>6. CASE Admit
  BY <1>6 DEF Admit, Row
<1>7. CASE Prepare
  BY <1>7 DEF Prepare, GiveUp, Decide
<1>8. CASE Spawn
  BY <1>8 DEF Spawn, GiveUp, Decide
<1>9. CASE CommitIdentity
  BY <1>9 DEF CommitIdentity, Row
<1>10. CASE VerifySetup
  BY <1>10 DEF VerifySetup, GiveUp, Decide, DropPending
<1>11. CASE CheckCancel
  BY <1>11 DEF CheckCancel, GiveUp, Decide, DropPending
<1>12. CASE Release
  BY <1>12 DEF Release, GiveUp, Decide, DropPending
<1>13. CASE SignalCancel
  BY <1>13 DEF SignalCancel, Observing, SameWorkerProcess
<1>14. CASE Reap
  BY <1>14 DEF Reap, Observing
<1>15. CASE DrainGroup
  BY <1>15 DEF DrainGroup, Observing, WorkerEnded, SameWorkerProcess
<1>16. CASE DecideFinished
  BY <1>16 DEF DecideFinished, Drained, Observing, WorkerEnded, GroupDrained, SameWorkerProcess, Decide,
         FailureReason
<1>17. CASE FinishRun
  BY <1>17 DEF FinishRun, Row, FinishInv, Terminal
<1>18. CASE PendingEOF
  BY <1>18 DEF PendingEOF
<1>19. CASE Exec
  BY <1>19 DEF Exec
<1>20. CASE Fork
  BY <1>20 DEF Fork
<1>21. CASE Exit
  BY <1>21 DEF Exit, Ends
<1>22. CASE Killed
  BY <1>22 DEF Killed, Ends
<1>23. CASE GroupEnds
  BY <1>23 DEF GroupEnds
<1>24. CASE KillGroup
  BY <1>24 DEF KillGroup, AllDie
<1>25. CASE CallbackFails
  BY <1>25 DEF CallbackFails, Script
<1>26. CASE PreflightRefuses
  BY <1>26 DEF PreflightRefuses, Script
<1>27. CASE ReuseGate
  BY <1>27 DEF ReuseGate, Callback, Script, Row
<1>28. CASE StartGate
  BY <1>28 DEF StartGate, Callback, Script, Row
<1>29. CASE GateGreen
  BY <1>29 DEF GateGreen, Script
<1>30. CASE GateRed
  BY <1>30 DEF GateRed, Callback, Script, Row
<1>31. CASE AvoidedRefuses
  BY <1>31 DEF AvoidedRefuses, Script
<1>32. CASE StartPublishing
  BY <1>32 DEF StartPublishing, Callback, Script, Row
<1>33. CASE Publish
  BY <1>33 DEF Publish, Script
<1>34. CASE Report
  BY <1>34 DEF Report, Callback, Script, ReportAccepted, Row
<1>35. CASE UNCHANGED vars
  BY <1>35 DEF vars
<1>36. CASE CancelResources
  BY <1>36, LeafSteps, StopSaved
<1>37. CASE FinishResources
  BY <1>37, LeafSteps, FinishSaved
<1> QED
  BY <1>1, <1>2, <1>3, <1>4, <1>5, <1>6, <1>7, <1>8, <1>9, <1>10, <1>11, <1>12, <1>13, <1>14, <1>15,
     <1>16, <1>17, <1>18, <1>19, <1>20, <1>21, <1>22, <1>23, <1>24, <1>25, <1>26, <1>27, <1>28,
     <1>29, <1>30, <1>31, <1>32, <1>33, <1>34, <1>35, <1>36, <1>37 DEF Next, StartStep, ObserveStep, ProcessStep,
         ScriptStep

\* A worker that is being started is not released.
LEMMA NextStart ==
    ASSUME IInv, [Next]_vars
    PROVE  StartInv'
<1> USE DEF IInv, TypeOK, owner, worker, land, resources, StartInv, QueuedInv, ChildInv, Starting, FinishInv
<1>1. CASE Cancel
  BY <1>1 DEF Cancel, Authoritative, Row
<1>2. CASE RequestInterruption
  BY <1>2 DEF RequestInterruption, Authoritative, Row
<1>3. CASE StartOwner
  BY <1>3 DEF StartOwner
<1>4. CASE Crash
  BY <1>4 DEF Crash
<1>5. CASE Busy
  BY <1>5 DEF Busy, DropPending
<1>6. CASE Admit
  BY <1>6 DEF Admit, Row
<1>7. CASE Prepare
  BY <1>7 DEF Prepare, GiveUp, Decide
<1>8. CASE Spawn
  BY <1>8 DEF Spawn, GiveUp, Decide
<1>9. CASE CommitIdentity
  BY <1>9 DEF CommitIdentity, Row
<1>10. CASE VerifySetup
  BY <1>10 DEF VerifySetup, GiveUp, Decide, DropPending
<1>11. CASE CheckCancel
  BY <1>11 DEF CheckCancel, GiveUp, Decide, DropPending
<1>12. CASE Release
  BY <1>12 DEF Release, GiveUp, Decide, DropPending
<1>13. CASE SignalCancel
  BY <1>13 DEF SignalCancel, Observing, SameWorkerProcess
<1>14. CASE Reap
  BY <1>14 DEF Reap, Observing
<1>15. CASE DrainGroup
  BY <1>15 DEF DrainGroup, Observing, WorkerEnded, SameWorkerProcess
<1>16. CASE DecideFinished
  BY <1>16 DEF DecideFinished, Drained, Observing, WorkerEnded, GroupDrained, SameWorkerProcess, Decide,
         FailureReason
<1>17. CASE FinishRun
  BY <1>17 DEF FinishRun, Row
<1>18. CASE PendingEOF
  BY <1>18 DEF PendingEOF
<1>19. CASE Exec
  BY <1>19 DEF Exec
<1>20. CASE Fork
  BY <1>20 DEF Fork
<1>21. CASE Exit
  BY <1>21 DEF Exit, Ends
<1>22. CASE Killed
  BY <1>22 DEF Killed, Ends
<1>23. CASE GroupEnds
  BY <1>23 DEF GroupEnds
<1>24. CASE KillGroup
  BY <1>24 DEF KillGroup, AllDie
<1>25. CASE CallbackFails
  BY <1>25 DEF CallbackFails, Script
<1>26. CASE PreflightRefuses
  BY <1>26 DEF PreflightRefuses, Script
<1>27. CASE ReuseGate
  BY <1>27 DEF ReuseGate, Callback, Script, Row
<1>28. CASE StartGate
  BY <1>28 DEF StartGate, Callback, Script, Row
<1>29. CASE GateGreen
  BY <1>29 DEF GateGreen, Script
<1>30. CASE GateRed
  BY <1>30 DEF GateRed, Callback, Script, Row
<1>31. CASE AvoidedRefuses
  BY <1>31 DEF AvoidedRefuses, Script
<1>32. CASE StartPublishing
  BY <1>32 DEF StartPublishing, Callback, Script, Row
<1>33. CASE Publish
  BY <1>33 DEF Publish, Script
<1>34. CASE Report
  <2>1. row'.status = row.status /\ row'.known = row.known /\ UNCHANGED <<owner, worker>>
    BY <1>34 DEF Report, Callback, Script, Row
  <2> QED
    BY <2>1
<1>35. CASE UNCHANGED vars
  BY <1>35 DEF vars
<1>36. CASE CancelResources
  BY <1>36, LeafSteps, StopSaved
<1>37. CASE FinishResources
  BY <1>37, LeafSteps, FinishSaved
<1> QED
  BY <1>1, <1>2, <1>3, <1>4, <1>5, <1>6, <1>7, <1>8, <1>9, <1>10, <1>11, <1>12, <1>13, <1>14, <1>15,
     <1>16, <1>17, <1>18, <1>19, <1>20, <1>21, <1>22, <1>23, <1>24, <1>25, <1>26, <1>27, <1>28,
     <1>29, <1>30, <1>31, <1>32, <1>33, <1>34, <1>35, <1>36, <1>37 DEF Next, StartStep, ObserveStep, ProcessStep,
         ScriptStep

\* A worker is released after its identity was written.
LEMMA NextPipe ==
    ASSUME IInv, [Next]_vars
    PROVE  PipeInv'
<1> USE DEF IInv, TypeOK, owner, worker, land, resources, PipeInv, QueuedInv, StartInv, Starting, FinishInv,
            Terminal
<1>1. CASE Cancel
  BY <1>1 DEF Cancel, Authoritative, Row
<1>2. CASE RequestInterruption
  BY <1>2 DEF RequestInterruption, Authoritative, Row
<1>3. CASE StartOwner
  BY <1>3 DEF StartOwner
<1>4. CASE Crash
  BY <1>4 DEF Crash
<1>5. CASE Busy
  BY <1>5 DEF Busy, DropPending
<1>6. CASE Admit
  <2>1. row.status = "queued" /\ pipe = "none" /\ proc = "none" /\ UNCHANGED worker
    BY <1>6 DEF Admit
  <2> QED
    BY <2>1
<1>7. CASE Prepare
  BY <1>7 DEF Prepare, GiveUp, Decide
<1>8. CASE Spawn
  BY <1>8 DEF Spawn, GiveUp, Decide
<1>9. CASE CommitIdentity
  BY <1>9 DEF CommitIdentity, Row
<1>10. CASE VerifySetup
  BY <1>10 DEF VerifySetup, GiveUp, Decide, DropPending
<1>11. CASE CheckCancel
  BY <1>11 DEF CheckCancel, GiveUp, Decide, DropPending
<1>12. CASE Release
  BY <1>12 DEF Release, GiveUp, Decide, DropPending
<1>13. CASE SignalCancel
  BY <1>13 DEF SignalCancel, Observing, SameWorkerProcess
<1>14. CASE Reap
  BY <1>14 DEF Reap, Observing
<1>15. CASE DrainGroup
  BY <1>15 DEF DrainGroup, Observing, WorkerEnded, SameWorkerProcess
<1>16. CASE DecideFinished
  BY <1>16 DEF DecideFinished, Drained, Observing, WorkerEnded, GroupDrained, SameWorkerProcess, Decide,
         FailureReason
<1>17. CASE FinishRun
  BY <1>17 DEF FinishRun, Row
<1>18. CASE PendingEOF
  BY <1>18 DEF PendingEOF
<1>19. CASE Exec
  BY <1>19 DEF Exec
<1>20. CASE Fork
  BY <1>20 DEF Fork
<1>21. CASE Exit
  BY <1>21 DEF Exit, Ends
<1>22. CASE Killed
  BY <1>22 DEF Killed, Ends
<1>23. CASE GroupEnds
  BY <1>23 DEF GroupEnds
<1>24. CASE KillGroup
  BY <1>24 DEF KillGroup, AllDie
<1>25. CASE CallbackFails
  BY <1>25 DEF CallbackFails, Script
<1>26. CASE PreflightRefuses
  BY <1>26 DEF PreflightRefuses, Script
<1>27. CASE ReuseGate
  BY <1>27 DEF ReuseGate, Callback, Script, Row
<1>28. CASE StartGate
  BY <1>28 DEF StartGate, Callback, Script, Row
<1>29. CASE GateGreen
  BY <1>29 DEF GateGreen, Script
<1>30. CASE GateRed
  BY <1>30 DEF GateRed, Callback, Script, Row
<1>31. CASE AvoidedRefuses
  BY <1>31 DEF AvoidedRefuses, Script
<1>32. CASE StartPublishing
  BY <1>32 DEF StartPublishing, Callback, Script, Row
<1>33. CASE Publish
  BY <1>33 DEF Publish, Script
<1>34. CASE Report
  BY <1>34 DEF Report, Callback, Script, ReportAccepted, Row
<1>35. CASE UNCHANGED vars
  BY <1>35 DEF vars
<1>36. CASE CancelResources
  BY <1>36, LeafSteps, StopSaved
<1>37. CASE FinishResources
  BY <1>37, LeafSteps, FinishSaved
<1> QED
  BY <1>1, <1>2, <1>3, <1>4, <1>5, <1>6, <1>7, <1>8, <1>9, <1>10, <1>11, <1>12, <1>13, <1>14, <1>15,
     <1>16, <1>17, <1>18, <1>19, <1>20, <1>21, <1>22, <1>23, <1>24, <1>25, <1>26, <1>27, <1>28,
     <1>29, <1>30, <1>31, <1>32, <1>33, <1>34, <1>35, <1>36, <1>37 DEF Next, StartStep, ObserveStep, ProcessStep,
         ScriptStep

\* The command is started once.
LEMMA NextRan ==
    ASSUME IInv, [Next]_vars
    PROVE  RanInv'
<1> USE DEF IInv, TypeOK, owner, worker, land, resources, RanInv, PipeInv, QueuedInv, StartInv, Starting,
            CommandAlive
<1>1. CASE Cancel
  BY <1>1 DEF Cancel, Authoritative, Row
<1>2. CASE RequestInterruption
  BY <1>2 DEF RequestInterruption, Authoritative, Row
<1>3. CASE StartOwner
  BY <1>3 DEF StartOwner
<1>4. CASE Crash
  BY <1>4 DEF Crash
<1>5. CASE Busy
  BY <1>5 DEF Busy, DropPending
<1>6. CASE Admit
  BY <1>6 DEF Admit, Row
<1>7. CASE Prepare
  BY <1>7 DEF Prepare, GiveUp, Decide
<1>8. CASE Spawn
  BY <1>8 DEF Spawn, GiveUp, Decide
<1>9. CASE CommitIdentity
  BY <1>9 DEF CommitIdentity, Row
<1>10. CASE VerifySetup
  BY <1>10 DEF VerifySetup, GiveUp, Decide, DropPending
<1>11. CASE CheckCancel
  <2>1. ran = 0 /\ ~CommandAlive /\ pipe # "released" /\ ran' = ran
    BY <1>11 DEF CheckCancel
  <2>2. CASE DropPending
    BY <2>1, <2>2, Dropped
  <2>3. CASE UNCHANGED worker
    BY <2>1, <2>3
  <2> QED
    BY <1>11, <2>2, <2>3 DEF CheckCancel
<1>12. CASE Release
  BY <1>12 DEF Release, GiveUp, Decide, DropPending
<1>13. CASE SignalCancel
  BY <1>13 DEF SignalCancel, Observing, SameWorkerProcess
<1>14. CASE Reap
  BY <1>14 DEF Reap, Observing
<1>15. CASE DrainGroup
  BY <1>15 DEF DrainGroup, Observing, WorkerEnded, SameWorkerProcess
<1>16. CASE DecideFinished
  BY <1>16 DEF DecideFinished, Drained, Observing, WorkerEnded, GroupDrained, SameWorkerProcess, Decide,
         FailureReason
<1>17. CASE FinishRun
  BY <1>17 DEF FinishRun, Row
<1>18. CASE PendingEOF
  BY <1>18 DEF PendingEOF
<1>19. CASE Exec
  BY <1>19 DEF Exec
<1>20. CASE Fork
  BY <1>20 DEF Fork
<1>21. CASE Exit
  BY <1>21 DEF Exit, Ends
<1>22. CASE Killed
  BY <1>22 DEF Killed, Ends
<1>23. CASE GroupEnds
  BY <1>23 DEF GroupEnds
<1>24. CASE KillGroup
  BY <1>24 DEF KillGroup, AllDie
<1>25. CASE CallbackFails
  BY <1>25 DEF CallbackFails, Script
<1>26. CASE PreflightRefuses
  BY <1>26 DEF PreflightRefuses, Script
<1>27. CASE ReuseGate
  BY <1>27 DEF ReuseGate, Callback, Script, Row
<1>28. CASE StartGate
  BY <1>28 DEF StartGate, Callback, Script, Row
<1>29. CASE GateGreen
  BY <1>29 DEF GateGreen, Script
<1>30. CASE GateRed
  BY <1>30 DEF GateRed, Callback, Script, Row
<1>31. CASE AvoidedRefuses
  BY <1>31 DEF AvoidedRefuses, Script
<1>32. CASE StartPublishing
  BY <1>32 DEF StartPublishing, Callback, Script, Row
<1>33. CASE Publish
  BY <1>33 DEF Publish, Script
<1>34. CASE Report
  BY <1>34 DEF Report, Callback, Script, ReportAccepted, Row
<1>35. CASE UNCHANGED vars
  BY <1>35 DEF vars
<1>36. CASE CancelResources
  BY <1>36, LeafSteps
<1>37. CASE FinishResources
  BY <1>37, LeafSteps
<1> QED
  BY <1>1, <1>2, <1>3, <1>4, <1>5, <1>6, <1>7, <1>8, <1>9, <1>10, <1>11, <1>12, <1>13, <1>14, <1>15,
     <1>16, <1>17, <1>18, <1>19, <1>20, <1>21, <1>22, <1>23, <1>24, <1>25, <1>26, <1>27, <1>28,
     <1>29, <1>30, <1>31, <1>32, <1>33, <1>34, <1>35, <1>36, <1>37 DEF Next, StartStep, ObserveStep, ProcessStep,
         ScriptStep

\* The owner's records of its child are right.
LEMMA NextChild ==
    ASSUME IInv, [Next]_vars
    PROVE  ChildInv'
<1> USE DEF IInv, TypeOK, owner, worker, land, resources, ChildInv, RanInv, PipeInv, QueuedInv, StartInv,
            Starting, FinishInv, None
<1>1. CASE Cancel
  BY <1>1 DEF Cancel, Authoritative, Row
<1>2. CASE RequestInterruption
  BY <1>2 DEF RequestInterruption, Authoritative, Row
<1>3. CASE StartOwner
  BY <1>3 DEF StartOwner
<1>4. CASE Crash
  BY <1>4 DEF Crash
<1>5. CASE Busy
  BY <1>5 DEF Busy, DropPending
<1>6. CASE Admit
  BY <1>6 DEF Admit, Row
<1>7. CASE Prepare
  BY <1>7 DEF Prepare, GiveUp, Decide
<1>8. CASE Spawn
  BY <1>8 DEF Spawn, GiveUp, Decide
<1>9. CASE CommitIdentity
  BY <1>9 DEF CommitIdentity, Row
<1>10. CASE VerifySetup
  BY <1>10 DEF VerifySetup, GiveUp, Decide, DropPending
<1>11. CASE CheckCancel
  BY <1>11 DEF CheckCancel, GiveUp, Decide, DropPending
<1>12. CASE Release
  BY <1>12 DEF Release, GiveUp, Decide, DropPending
<1>13. CASE SignalCancel
  BY <1>13 DEF SignalCancel, Observing, SameWorkerProcess
<1>14. CASE Reap
  BY <1>14 DEF Reap, Observing
<1>15. CASE DrainGroup
  BY <1>15 DEF DrainGroup, Observing, WorkerEnded, SameWorkerProcess
<1>16. CASE DecideFinished
  BY <1>16 DEF DecideFinished, Drained, Observing, WorkerEnded, GroupDrained, SameWorkerProcess, Decide,
         FailureReason
<1>17. CASE FinishRun
  BY <1>17 DEF FinishRun, Row
<1>18. CASE PendingEOF
  BY <1>18 DEF PendingEOF
<1>19. CASE Exec
  BY <1>19 DEF Exec
<1>20. CASE Fork
  BY <1>20 DEF Fork
<1>21. CASE Exit
  BY <1>21 DEF Exit, Ends
<1>22. CASE Killed
  BY <1>22 DEF Killed, Ends
<1>23. CASE GroupEnds
  BY <1>23 DEF GroupEnds
<1>24. CASE KillGroup
  BY <1>24 DEF KillGroup, AllDie
<1>25. CASE CallbackFails
  BY <1>25 DEF CallbackFails, Script
<1>26. CASE PreflightRefuses
  BY <1>26 DEF PreflightRefuses, Script
<1>27. CASE ReuseGate
  BY <1>27 DEF ReuseGate, Callback, Script, Row
<1>28. CASE StartGate
  BY <1>28 DEF StartGate, Callback, Script, Row
<1>29. CASE GateGreen
  BY <1>29 DEF GateGreen, Script
<1>30. CASE GateRed
  BY <1>30 DEF GateRed, Callback, Script, Row
<1>31. CASE AvoidedRefuses
  BY <1>31 DEF AvoidedRefuses, Script
<1>32. CASE StartPublishing
  BY <1>32 DEF StartPublishing, Callback, Script, Row
<1>33. CASE Publish
  BY <1>33 DEF Publish, Script
<1>34. CASE Report
  BY <1>34 DEF Report, Callback, Script, ReportAccepted, Row
<1>35. CASE UNCHANGED vars
  BY <1>35 DEF vars
<1>36. CASE CancelResources
  BY <1>36, LeafSteps, StopSaved
<1>37. CASE FinishResources
  BY <1>37, LeafSteps, FinishSaved
<1> QED
  BY <1>1, <1>2, <1>3, <1>4, <1>5, <1>6, <1>7, <1>8, <1>9, <1>10, <1>11, <1>12, <1>13, <1>14, <1>15,
     <1>16, <1>17, <1>18, <1>19, <1>20, <1>21, <1>22, <1>23, <1>24, <1>25, <1>26, <1>27, <1>28,
     <1>29, <1>30, <1>31, <1>32, <1>33, <1>34, <1>35, <1>36, <1>37 DEF Next, StartStep, ObserveStep, ProcessStep,
         ScriptStep

\* A success that is known anywhere is one.
LEMMA NextSuccess ==
    ASSUME IInv, [Next]_vars
    PROVE  SuccessInv'
<1> USE DEF IInv, TypeOK, owner, worker, land, resources, SuccessInv, Earned, RanInv, ChildInv, PublishInv,
            QueuedInv, None, NoVerdict, CommandAlive
<1>1. CASE Cancel
  BY <1>1 DEF Cancel, Authoritative, Row
<1>2. CASE RequestInterruption
  BY <1>2 DEF RequestInterruption, Authoritative, Row
<1>3. CASE StartOwner
  BY <1>3 DEF StartOwner
<1>4. CASE Crash
  BY <1>4 DEF Crash
<1>5. CASE Busy
  BY <1>5 DEF Busy, DropPending
<1>6. CASE Admit
  BY <1>6 DEF Admit, Row
<1>7. CASE Prepare
  <2>1. verdict'.status # "passed"
    BY <1>7, StartVerdict, Undecided DEF Prepare, StartInv, FinishInv, Starting
  <2>2. UNCHANGED <<kind, row, exit, result, ran, published>>
    BY <1>7, Dropped DEF Prepare, DropPending
  <2> QED
    BY <2>1, <2>2
<1>8. CASE Spawn
  <2>1. verdict'.status # "passed"
    BY <1>8, StartVerdict, Undecided DEF Spawn, StartInv, FinishInv, Starting
  <2>2. UNCHANGED <<kind, row, exit, result, ran, published>>
    BY <1>8, Dropped DEF Spawn, DropPending
  <2> QED
    BY <2>1, <2>2
<1>9. CASE CommitIdentity
  BY <1>9 DEF CommitIdentity, Row
<1>10. CASE VerifySetup
  <2>1. verdict'.status # "passed"
    BY <1>10, StartVerdict, Undecided DEF VerifySetup, StartInv, FinishInv, Starting
  <2>2. UNCHANGED <<kind, row, exit, result, ran, published>>
    BY <1>10, Dropped DEF VerifySetup, DropPending
  <2> QED
    BY <2>1, <2>2
<1>11. CASE CheckCancel
  <2>1. verdict'.status # "passed"
    BY <1>11, StartVerdict, Undecided DEF CheckCancel, StartInv, FinishInv, Starting
  <2>2. UNCHANGED <<kind, row, exit, result, ran, published>>
    BY <1>11, Dropped DEF CheckCancel, DropPending
  <2> QED
    BY <2>1, <2>2
<1>12. CASE Release
  <2>1. verdict'.status # "passed"
    BY <1>12, StartVerdict, Undecided DEF Release, StartInv, FinishInv, Starting
  <2>2. UNCHANGED <<kind, row, exit, result, ran, published>>
    BY <1>12, Dropped DEF Release, DropPending
  <2> QED
    BY <2>1, <2>2
<1>13. CASE SignalCancel
  BY <1>13 DEF SignalCancel, Observing, SameWorkerProcess
<1>14. CASE Reap
  BY <1>14 DEF Reap, Observing
<1>15. CASE DrainGroup
  BY <1>15 DEF DrainGroup, Observing, WorkerEnded, SameWorkerProcess
<1>16. CASE DecideFinished
  <2>1. verdict'.status = "passed" => Earned
    BY <1>16, EndVerdict
  <2>2. UNCHANGED <<kind, row, exit, result, ran, published>>
    BY <1>16 DEF DecideFinished
  <2> QED
    BY <2>1, <2>2
<1>17. CASE FinishRun
  BY <1>17 DEF FinishRun, Row
<1>18. CASE PendingEOF
  BY <1>18 DEF PendingEOF
<1>19. CASE Exec
  BY <1>19 DEF Exec
<1>20. CASE Fork
  BY <1>20 DEF Fork
<1>21. CASE Exit
  BY <1>21 DEF Exit, Ends
<1>22. CASE Killed
  BY <1>22 DEF Killed, Ends
<1>23. CASE GroupEnds
  BY <1>23 DEF GroupEnds
<1>24. CASE KillGroup
  BY <1>24 DEF KillGroup, AllDie
<1>25. CASE CallbackFails
  BY <1>25 DEF CallbackFails, Script
<1>26. CASE PreflightRefuses
  BY <1>26 DEF PreflightRefuses, Script
<1>27. CASE ReuseGate
  BY <1>27 DEF ReuseGate, Callback, Script, Row
<1>28. CASE StartGate
  BY <1>28 DEF StartGate, Callback, Script, Row
<1>29. CASE GateGreen
  BY <1>29 DEF GateGreen, Script
<1>30. CASE GateRed
  BY <1>30 DEF GateRed, Callback, Script, Row
<1>31. CASE AvoidedRefuses
  BY <1>31 DEF AvoidedRefuses, Script
<1>32. CASE StartPublishing
  BY <1>32 DEF StartPublishing, Callback, Script, Row
<1>33. CASE Publish
  BY <1>33 DEF Publish, Script
<1>34. CASE Report
  BY <1>34 DEF Report, Callback, Script, ReportAccepted, Row
<1>35. CASE UNCHANGED vars
  BY <1>35 DEF vars
<1>36. CASE CancelResources
  BY <1>36, LeafSteps
<1>37. CASE FinishResources
  BY <1>37, LeafSteps
<1> QED
  BY <1>1, <1>2, <1>3, <1>4, <1>5, <1>6, <1>7, <1>8, <1>9, <1>10, <1>11, <1>12, <1>13, <1>14, <1>15,
     <1>16, <1>17, <1>18, <1>19, <1>20, <1>21, <1>22, <1>23, <1>24, <1>25, <1>26, <1>27, <1>28,
     <1>29, <1>30, <1>31, <1>32, <1>33, <1>34, <1>35, <1>36, <1>37 DEF Next, StartStep, ObserveStep, ProcessStep,
         ScriptStep

\* A verdict is about a run whose processes are gone.
LEMMA NextFinish ==
    ASSUME IInv, [Next]_vars
    PROVE  FinishInv'
<1> USE DEF IInv, TypeOK, owner, worker, land, resources, FinishInv, Over, CommandAlive, Startable, RanInv, PipeInv,
            ChildInv, StartInv, QueuedInv, Starting, Terminal
<1>1. CASE Cancel
  BY <1>1 DEF Cancel, Authoritative, Row
<1>2. CASE RequestInterruption
  BY <1>2 DEF RequestInterruption, Authoritative, Row
<1>3. CASE StartOwner
  BY <1>3 DEF StartOwner
<1>4. CASE Crash
  <2>1. /\ pc' = "none" /\ verdict' = NoVerdict /\ UNCHANGED <<row, group, undone>>
        /\ (proc' = proc \/ proc' = "gone") /\ (pipe' = pipe \/ pipe' = "closed")
    BY <1>4 DEF Crash
  <2> QED
    BY <2>1, Undecided
<1>5. CASE Busy
  <2>1. pc' = "idle" /\ verdict' = NoVerdict /\ row' = row /\ row.status = "running"
    BY <1>5 DEF Busy
  <2> QED
    BY <2>1, Undecided
<1>6. CASE Admit
  BY <1>6 DEF Admit, Row
<1>7. CASE Prepare
  <2>1. row.status = "running" /\ ~CommandAlive /\ pipe # "released" /\ row' = row /\ verdict = NoVerdict
    BY <1>7 DEF Prepare
  <2>2. CASE pc' = "finishing"
    <3>1. verdict'.status \in {"failed", "cancelled"} /\ (verdict'.status = "cancelled" => row.cancel # "no")
      BY <1>7, <2>2, StartVerdict
    <3>2. ~CommandAlive' /\ ~Startable'
      BY <1>7, <2>1, <2>2, Dropped DEF Prepare
    <3> QED
      BY <2>1, <2>2, <3>1, <3>2
  <2>3. CASE pc' # "finishing"
    <3>1. verdict' = verdict /\ pc' # "drained"
      BY <1>7, <2>3, StartVerdict
    <3> QED
      BY <2>1, <2>3, <3>1, Undecided DEF NoVerdict
  <2> QED
    BY <2>2, <2>3
<1>8. CASE Spawn
  <2>1. row.status = "running" /\ ~CommandAlive /\ pipe # "released" /\ row' = row /\ verdict = NoVerdict
    BY <1>8 DEF Spawn
  <2>2. CASE pc' = "finishing"
    <3>1. verdict'.status \in {"failed", "cancelled"} /\ (verdict'.status = "cancelled" => row.cancel # "no")
      BY <1>8, <2>2, StartVerdict
    <3>2. ~CommandAlive' /\ ~Startable'
      BY <1>8, <2>1, <2>2, Dropped DEF Spawn
    <3> QED
      BY <2>1, <2>2, <3>1, <3>2
  <2>3. CASE pc' # "finishing"
    <3>1. verdict' = verdict /\ pc' # "drained"
      BY <1>8, <2>3, StartVerdict
    <3> QED
      BY <2>1, <2>3, <3>1, Undecided DEF NoVerdict
  <2> QED
    BY <2>2, <2>3
<1>9. CASE CommitIdentity
  BY <1>9 DEF CommitIdentity, Row
<1>10. CASE VerifySetup
  <2>1. row.status = "running" /\ ~CommandAlive /\ pipe # "released" /\ row' = row /\ verdict = NoVerdict
    BY <1>10 DEF VerifySetup
  <2>2. CASE pc' = "finishing"
    <3>1. verdict'.status \in {"failed", "cancelled"} /\ (verdict'.status = "cancelled" => row.cancel # "no")
      BY <1>10, <2>2, StartVerdict
    <3>2. ~CommandAlive' /\ ~Startable'
      BY <1>10, <2>1, <2>2, Dropped DEF VerifySetup
    <3> QED
      BY <2>1, <2>2, <3>1, <3>2
  <2>3. CASE pc' # "finishing"
    <3>1. verdict' = verdict /\ pc' # "drained"
      BY <1>10, <2>3, StartVerdict
    <3> QED
      BY <2>1, <2>3, <3>1, Undecided DEF NoVerdict
  <2> QED
    BY <2>2, <2>3
<1>11. CASE CheckCancel
  <2>1. row.status = "running" /\ ~CommandAlive /\ pipe # "released" /\ row' = row /\ verdict = NoVerdict
    BY <1>11 DEF CheckCancel
  <2>2. CASE pc' = "finishing"
    <3>1. verdict'.status \in {"failed", "cancelled"} /\ (verdict'.status = "cancelled" => row.cancel # "no")
      BY <1>11, <2>2, StartVerdict
    <3>2. ~CommandAlive' /\ ~Startable'
      BY <1>11, <2>1, <2>2, Dropped DEF CheckCancel
    <3> QED
      BY <2>1, <2>2, <3>1, <3>2
  <2>3. CASE pc' # "finishing"
    <3>1. verdict' = verdict /\ pc' # "drained"
      BY <1>11, <2>3, StartVerdict
    <3> QED
      BY <2>1, <2>3, <3>1, Undecided DEF NoVerdict
  <2> QED
    BY <2>2, <2>3
<1>12. CASE Release
  <2>1. row.status = "running" /\ ~CommandAlive /\ pipe # "released" /\ row' = row /\ verdict = NoVerdict
    BY <1>12 DEF Release
  <2>2. CASE pc' = "finishing"
    <3>1. verdict'.status \in {"failed", "cancelled"} /\ (verdict'.status = "cancelled" => row.cancel # "no")
      BY <1>12, <2>2, StartVerdict
    <3>2. ~CommandAlive' /\ ~Startable'
      BY <1>12, <2>1, <2>2, Dropped DEF Release
    <3> QED
      BY <2>1, <2>2, <3>1, <3>2
  <2>3. CASE pc' # "finishing"
    <3>1. verdict' = verdict /\ pc' # "drained"
      BY <1>12, <2>3, StartVerdict
    <3> QED
      BY <2>1, <2>3, <3>1, Undecided DEF NoVerdict
  <2> QED
    BY <2>2, <2>3
<1>13. CASE SignalCancel
  BY <1>13 DEF SignalCancel, Observing, SameWorkerProcess
<1>14. CASE Reap
  BY <1>14 DEF Reap, Observing
<1>15. CASE DrainGroup
  BY <1>15 DEF DrainGroup, Observing, WorkerEnded, SameWorkerProcess
<1>16. CASE DecideFinished
  <2>1. /\ pc' = "finishing"
        /\ verdict'.status \in Terminal /\ (verdict'.status = "cancelled" => row.cancel # "no")
    BY <1>16, EndVerdict
  <2>2. row' = row /\ row.status = "running" /\ UNCHANGED <<worker, undone>>
    BY <1>16 DEF DecideFinished, Drained, Observing
  <2>3. Over
    BY <1>16 DEF DecideFinished, Drained, WorkerEnded, SameWorkerProcess, GroupDrained
  <2> QED
    BY <2>1, <2>2, <2>3
<1>17. CASE FinishRun
  <2>1. pc = "finishing" /\ pc' = "idle" /\ verdict' = NoVerdict /\ UNCHANGED <<worker, undone>>
    BY <1>17 DEF FinishRun
  <2> QED
    BY <2>1, Undecided
<1>18. CASE PendingEOF
  BY <1>18 DEF PendingEOF
<1>19. CASE Exec
  BY <1>19 DEF Exec
<1>20. CASE Fork
  BY <1>20 DEF Fork
<1>21. CASE Exit
  BY <1>21 DEF Exit, Ends
<1>22. CASE Killed
  BY <1>22 DEF Killed, Ends
<1>23. CASE GroupEnds
  BY <1>23 DEF GroupEnds
<1>24. CASE KillGroup
  BY <1>24 DEF KillGroup, AllDie
<1>25. CASE CallbackFails
  BY <1>25 DEF CallbackFails, Script
<1>26. CASE PreflightRefuses
  BY <1>26 DEF PreflightRefuses, Script
<1>27. CASE ReuseGate
  BY <1>27 DEF ReuseGate, Callback, Script, Row
<1>28. CASE StartGate
  BY <1>28 DEF StartGate, Callback, Script, Row
<1>29. CASE GateGreen
  BY <1>29 DEF GateGreen, Script
<1>30. CASE GateRed
  BY <1>30 DEF GateRed, Callback, Script, Row
<1>31. CASE AvoidedRefuses
  BY <1>31 DEF AvoidedRefuses, Script
<1>32. CASE StartPublishing
  BY <1>32 DEF StartPublishing, Callback, Script, Row
<1>33. CASE Publish
  BY <1>33 DEF Publish, Script
<1>34. CASE Report
  BY <1>34 DEF Report, Callback, Script, ReportAccepted, Row
<1>35. CASE UNCHANGED vars
  BY <1>35 DEF vars
<1>36. CASE CancelResources
  BY <1>36, LeafSteps, StopSaved
<1>37. CASE FinishResources
  <2>1. proc # "running" /\ ~Startable
    BY <1>37 DEF FinishResources, WorkerEnded, SameWorkerProcess
  <2>2. proc' # "running" /\ ~Startable'
    BY <1>37, <2>1, LeafSteps
  <2>3. pc' = "drained" => (group' => "finish" \in undone')
    BY <1>37, FinishSaved
  <2>4. pc' \in {"idle", "drained"}
    BY <1>37, FinishSaved
  <2>5. row.status = "running" /\ pc = "idle" /\ UNCHANGED <<row, verdict>>
    BY <1>37, LeafSteps
  <2> QED
    BY <2>2, <2>3, <2>4, <2>5
<1> QED
  BY <1>1, <1>2, <1>3, <1>4, <1>5, <1>6, <1>7, <1>8, <1>9, <1>10, <1>11, <1>12, <1>13, <1>14, <1>15,
     <1>16, <1>17, <1>18, <1>19, <1>20, <1>21, <1>22, <1>23, <1>24, <1>25, <1>26, <1>27, <1>28,
     <1>29, <1>30, <1>31, <1>32, <1>33, <1>34, <1>35, <1>36, <1>37 DEF Next, StartStep, ObserveStep, ProcessStep,
         ScriptStep

\* A land publishes when it can no longer be cancelled.
LEMMA NextPublish ==
    ASSUME IInv, [Next]_vars
    PROVE  PublishInv'
<1> USE DEF IInv, TypeOK, owner, worker, land, resources, PublishInv, RanInv, ChildInv, QueuedInv,
            CommandAlive, StartInv, PipeInv, Starting
<1>1. CASE Cancel
  BY <1>1 DEF Cancel, Authoritative, Row
<1>2. CASE RequestInterruption
  BY <1>2 DEF RequestInterruption, Authoritative, Row
<1>3. CASE StartOwner
  BY <1>3 DEF StartOwner
<1>4. CASE Crash
  BY <1>4 DEF Crash
<1>5. CASE Busy
  BY <1>5 DEF Busy, DropPending
<1>6. CASE Admit
  BY <1>6 DEF Admit, Row
<1>7. CASE Prepare
  BY <1>7 DEF Prepare, GiveUp, Decide
<1>8. CASE Spawn
  BY <1>8 DEF Spawn, GiveUp, Decide
<1>9. CASE CommitIdentity
  BY <1>9 DEF CommitIdentity, Row
<1>10. CASE VerifySetup
  BY <1>10 DEF VerifySetup, GiveUp, Decide, DropPending
<1>11. CASE CheckCancel
  BY <1>11 DEF CheckCancel, GiveUp, Decide, DropPending
<1>12. CASE Release
  BY <1>12 DEF Release, GiveUp, Decide, DropPending
<1>13. CASE SignalCancel
  BY <1>13 DEF SignalCancel, Observing, SameWorkerProcess
<1>14. CASE Reap
  BY <1>14 DEF Reap, Observing
<1>15. CASE DrainGroup
  BY <1>15 DEF DrainGroup, Observing, WorkerEnded, SameWorkerProcess
<1>16. CASE DecideFinished
  BY <1>16 DEF DecideFinished, Drained, Observing, WorkerEnded, GroupDrained, SameWorkerProcess, Decide,
         FailureReason
<1>17. CASE FinishRun
  <2>1. row'.status # "running" /\ row'.cancel = row.cancel
    BY <1>17 DEF FinishRun, FinishInv, Terminal, Row
  <2>2. script = "none"
    BY <1>17 DEF FinishRun, FinishInv, Over
  <2> QED
    BY <1>17, <2>1, <2>2 DEF FinishRun
<1>18. CASE PendingEOF
  BY <1>18 DEF PendingEOF
<1>19. CASE Exec
  BY <1>19 DEF Exec
<1>20. CASE Fork
  BY <1>20 DEF Fork
<1>21. CASE Exit
  BY <1>21 DEF Exit, Ends
<1>22. CASE Killed
  BY <1>22 DEF Killed, Ends
<1>23. CASE GroupEnds
  BY <1>23 DEF GroupEnds
<1>24. CASE KillGroup
  BY <1>24 DEF KillGroup, AllDie
<1>25. CASE CallbackFails
  BY <1>25 DEF CallbackFails, Script
<1>26. CASE PreflightRefuses
  BY <1>26 DEF PreflightRefuses, Script
<1>27. CASE ReuseGate
  BY <1>27 DEF ReuseGate, Callback, Script, Row
<1>28. CASE StartGate
  BY <1>28 DEF StartGate, Callback, Script, Row
<1>29. CASE GateGreen
  BY <1>29 DEF GateGreen, Script
<1>30. CASE GateRed
  BY <1>30 DEF GateRed, Callback, Script, Row
<1>31. CASE AvoidedRefuses
  BY <1>31 DEF AvoidedRefuses, Script
<1>32. CASE StartPublishing
  BY <1>32 DEF StartPublishing, Callback, Script, Row
<1>33. CASE Publish
  BY <1>33 DEF Publish, Script
<1>34. CASE Report
  BY <1>34 DEF Report, Callback, Script, ReportAccepted, Row
<1>35. CASE UNCHANGED vars
  BY <1>35 DEF vars
<1>36. CASE CancelResources
  BY <1>36, LeafSteps
<1>37. CASE FinishResources
  BY <1>37, LeafSteps
<1> QED
  BY <1>1, <1>2, <1>3, <1>4, <1>5, <1>6, <1>7, <1>8, <1>9, <1>10, <1>11, <1>12, <1>13, <1>14, <1>15,
     <1>16, <1>17, <1>18, <1>19, <1>20, <1>21, <1>22, <1>23, <1>24, <1>25, <1>26, <1>27, <1>28,
     <1>29, <1>30, <1>31, <1>32, <1>33, <1>34, <1>35, <1>36, <1>37 DEF Next, StartStep, ObserveStep, ProcessStep,
         ScriptStep

\* A run that passed has earned it.
LEMMA NextPassed ==
    ASSUME IInv, [Next]_vars
    PROVE  PassedIsEarned'
<1> USE DEF IInv, TypeOK, owner, worker, land, resources, PassedIsEarned, SuccessInv, FinishInv, Over, Earned,
            RanInv, ChildInv, Terminal, QueuedInv, CommandAlive
<1>1. CASE Cancel
  BY <1>1 DEF Cancel, Authoritative, Row
<1>2. CASE RequestInterruption
  BY <1>2 DEF RequestInterruption, Authoritative, Row
<1>3. CASE StartOwner
  BY <1>3 DEF StartOwner
<1>4. CASE Crash
  BY <1>4 DEF Crash
<1>5. CASE Busy
  BY <1>5 DEF Busy, DropPending
<1>6. CASE Admit
  BY <1>6 DEF Admit, Row
<1>7. CASE Prepare
  BY <1>7 DEF Prepare, GiveUp, Decide
<1>8. CASE Spawn
  BY <1>8 DEF Spawn, GiveUp, Decide
<1>9. CASE CommitIdentity
  BY <1>9 DEF CommitIdentity, Row
<1>10. CASE VerifySetup
  BY <1>10 DEF VerifySetup, GiveUp, Decide, DropPending
<1>11. CASE CheckCancel
  BY <1>11 DEF CheckCancel, GiveUp, Decide, DropPending
<1>12. CASE Release
  BY <1>12 DEF Release, GiveUp, Decide, DropPending
<1>13. CASE SignalCancel
  BY <1>13 DEF SignalCancel, Observing, SameWorkerProcess
<1>14. CASE Reap
  BY <1>14 DEF Reap, Observing
<1>15. CASE DrainGroup
  BY <1>15 DEF DrainGroup, Observing, WorkerEnded, SameWorkerProcess
<1>16. CASE DecideFinished
  BY <1>16 DEF DecideFinished, Drained, Observing, WorkerEnded, GroupDrained, SameWorkerProcess, Decide,
         FailureReason
<1>17. CASE FinishRun
  BY <1>17 DEF FinishRun, Row
<1>18. CASE PendingEOF
  BY <1>18 DEF PendingEOF
<1>19. CASE Exec
  BY <1>19 DEF Exec
<1>20. CASE Fork
  BY <1>20 DEF Fork
<1>21. CASE Exit
  BY <1>21 DEF Exit, Ends
<1>22. CASE Killed
  BY <1>22 DEF Killed, Ends
<1>23. CASE GroupEnds
  BY <1>23 DEF GroupEnds
<1>24. CASE KillGroup
  BY <1>24 DEF KillGroup, AllDie
<1>25. CASE CallbackFails
  BY <1>25 DEF CallbackFails, Script
<1>26. CASE PreflightRefuses
  BY <1>26 DEF PreflightRefuses, Script
<1>27. CASE ReuseGate
  BY <1>27 DEF ReuseGate, Callback, Script, Row
<1>28. CASE StartGate
  BY <1>28 DEF StartGate, Callback, Script, Row
<1>29. CASE GateGreen
  BY <1>29 DEF GateGreen, Script
<1>30. CASE GateRed
  BY <1>30 DEF GateRed, Callback, Script, Row
<1>31. CASE AvoidedRefuses
  BY <1>31 DEF AvoidedRefuses, Script
<1>32. CASE StartPublishing
  BY <1>32 DEF StartPublishing, Callback, Script, Row
<1>33. CASE Publish
  BY <1>33 DEF Publish, Script
<1>34. CASE Report
  BY <1>34 DEF Report, Callback, Script, ReportAccepted, Row
<1>35. CASE UNCHANGED vars
  BY <1>35 DEF vars
<1>36. CASE CancelResources
  BY <1>36, LeafSteps
<1>37. CASE FinishResources
  BY <1>37, LeafSteps
<1> QED
  BY <1>1, <1>2, <1>3, <1>4, <1>5, <1>6, <1>7, <1>8, <1>9, <1>10, <1>11, <1>12, <1>13, <1>14, <1>15,
     <1>16, <1>17, <1>18, <1>19, <1>20, <1>21, <1>22, <1>23, <1>24, <1>25, <1>26, <1>27, <1>28,
     <1>29, <1>30, <1>31, <1>32, <1>33, <1>34, <1>35, <1>36, <1>37 DEF Next, StartStep, ObserveStep, ProcessStep,
         ScriptStep

\* A stop decides the verdict.
LEMMA NextHonoured ==
    ASSUME IInv, [Next]_vars
    PROVE  StopHonoured'
<1> USE DEF IInv, TypeOK, owner, worker, land, resources, StopHonoured, FinishInv, Terminal
<1>1. CASE Cancel
  BY <1>1 DEF Cancel, Authoritative, Row
<1>2. CASE RequestInterruption
  BY <1>2 DEF RequestInterruption, Authoritative, Row
<1>3. CASE StartOwner
  BY <1>3 DEF StartOwner
<1>4. CASE Crash
  BY <1>4 DEF Crash
<1>5. CASE Busy
  BY <1>5 DEF Busy, DropPending
<1>6. CASE Admit
  BY <1>6 DEF Admit, Row
<1>7. CASE Prepare
  BY <1>7 DEF Prepare, GiveUp, Decide
<1>8. CASE Spawn
  BY <1>8 DEF Spawn, GiveUp, Decide
<1>9. CASE CommitIdentity
  BY <1>9 DEF CommitIdentity, Row
<1>10. CASE VerifySetup
  BY <1>10 DEF VerifySetup, GiveUp, Decide, DropPending
<1>11. CASE CheckCancel
  BY <1>11 DEF CheckCancel, GiveUp, Decide, DropPending
<1>12. CASE Release
  BY <1>12 DEF Release, GiveUp, Decide, DropPending
<1>13. CASE SignalCancel
  BY <1>13 DEF SignalCancel, Observing, SameWorkerProcess
<1>14. CASE Reap
  BY <1>14 DEF Reap, Observing
<1>15. CASE DrainGroup
  BY <1>15 DEF DrainGroup, Observing, WorkerEnded, SameWorkerProcess
<1>16. CASE DecideFinished
  BY <1>16 DEF DecideFinished, Drained, Observing, WorkerEnded, GroupDrained, SameWorkerProcess, Decide,
         FailureReason
<1>17. CASE FinishRun
  BY <1>17 DEF FinishRun, Row
<1>18. CASE PendingEOF
  BY <1>18 DEF PendingEOF
<1>19. CASE Exec
  BY <1>19 DEF Exec
<1>20. CASE Fork
  BY <1>20 DEF Fork
<1>21. CASE Exit
  BY <1>21 DEF Exit, Ends
<1>22. CASE Killed
  BY <1>22 DEF Killed, Ends
<1>23. CASE GroupEnds
  BY <1>23 DEF GroupEnds
<1>24. CASE KillGroup
  BY <1>24 DEF KillGroup, AllDie
<1>25. CASE CallbackFails
  BY <1>25 DEF CallbackFails, Script
<1>26. CASE PreflightRefuses
  BY <1>26 DEF PreflightRefuses, Script
<1>27. CASE ReuseGate
  BY <1>27 DEF ReuseGate, Callback, Script, Row
<1>28. CASE StartGate
  BY <1>28 DEF StartGate, Callback, Script, Row
<1>29. CASE GateGreen
  BY <1>29 DEF GateGreen, Script
<1>30. CASE GateRed
  BY <1>30 DEF GateRed, Callback, Script, Row
<1>31. CASE AvoidedRefuses
  BY <1>31 DEF AvoidedRefuses, Script
<1>32. CASE StartPublishing
  BY <1>32 DEF StartPublishing, Callback, Script, Row
<1>33. CASE Publish
  BY <1>33 DEF Publish, Script
<1>34. CASE Report
  BY <1>34 DEF Report, Callback, Script, ReportAccepted, Row
<1>35. CASE UNCHANGED vars
  BY <1>35 DEF vars
<1>36. CASE CancelResources
  BY <1>36, LeafSteps
<1>37. CASE FinishResources
  BY <1>37, LeafSteps
<1> QED
  BY <1>1, <1>2, <1>3, <1>4, <1>5, <1>6, <1>7, <1>8, <1>9, <1>10, <1>11, <1>12, <1>13, <1>14, <1>15,
     <1>16, <1>17, <1>18, <1>19, <1>20, <1>21, <1>22, <1>23, <1>24, <1>25, <1>26, <1>27, <1>28,
     <1>29, <1>30, <1>31, <1>32, <1>33, <1>34, <1>35, <1>36, <1>37 DEF Next, StartStep, ObserveStep, ProcessStep,
         ScriptStep

------------------------------------------------------------------------------
(* The theorems *)

\* The initial states.
LEMMA InitIInv == Init => IInv
<1> SUFFICES ASSUME Init
             PROVE  IInv
  OBVIOUS
<1>1. row \in Row /\ VerdictType
  BY DEF Init, Row, VerdictType, NoVerdict, Reasons, None
<1>2. OwnerType /\ WorkerType
  BY DEF Init, OwnerType, WorkerType
<1>3. LandType
  <2>1. kind \in Kinds /\ script = "none" /\ result = None /\ published \in BOOLEAN /\ ran = 0 /\ faults = 0
    BY Zenon DEF Init
  <2>2. 0 \in Nat /\ 0 \in 0 .. MaxFaults
    BY LifecycleConstantsOK
  <2> QED
    BY <2>1, <2>2, Zenon DEF LandType
<1>4. QueuedInv /\ StartInv /\ PipeInv
  BY DEF Init, QueuedInv, StartInv, PipeInv, Starting
<1>5. ~CommandAlive
  BY DEF Init, CommandAlive
<1>6. RanInv /\ ChildInv
  <2>1. ran = 0 /\ ~child /\ seen = None /\ exit = None
    BY Zenon DEF Init
  <2>2. RanInv
    BY <1>5, <2>1 DEF RanInv
  <2> QED
    BY <2>1, <2>2 DEF ChildInv
<1>7. SuccessInv /\ FinishInv /\ PublishInv
  BY Undecided DEF Init, SuccessInv, FinishInv, PublishInv, Terminal, None
<1>8. PassedIsEarned /\ StopHonoured
  BY DEF Init, PassedIsEarned, StopHonoured, Terminal
<1> QED
  BY <1>1, <1>2, <1>3, <1>4, <1>6, <1>7, <1>8, TypeParts DEF IInv

\* Every step keeps the invariant.
LEMMA NextIInv ==
    ASSUME IInv, [Next]_vars
    PROVE  IInv'
<1>1. TypeOK'
  <2>1. row' \in Row /\ VerdictType' /\ OwnerType' /\ WorkerType' /\ LandType'
    BY NextRowType, NextVerdictType, NextOwnerType, NextWorkerType, NextLandType
  <2> QED
    BY <2>1 DEF TypeOK, VerdictType, OwnerType, WorkerType, LandType
<1> QED
  BY <1>1, NextQueued, NextStart, NextPipe, NextRan, NextChild, NextSuccess, NextFinish,
     NextPublish, NextPassed, NextHonoured DEF IInv

\* The strengthened invariant: a worker is released once, after its identity was
\* written; the owner's records of its child, the land's report and the forge
\* agree; and a decision is about a run whose worker has ended and whose other
\* processes are gone or on record.
THEOREM LifecycleInvariant == Spec => []IInv
<1>1. Init => IInv
  BY InitIInv
<1>2. IInv /\ [Next]_vars => IInv'
  BY NextIInv
<1> QED
  BY <1>1, <1>2, PTL DEF Spec

\* The invariant says when a process may exist.
LEMMA InvHeld ==
    ASSUME IInv
    PROVE  Coherent
<1>1. CommandAlive => pipe = "released" /\ row.status # "queued"
  BY DEF IInv, RanInv, PipeInv
<1>2. CommandAlive /\ row.status \in Terminal => "finish" \in undone
  BY DEF IInv, FinishInv, Over, CommandAlive
<1>3. row.status \in {"queued", "running"} \cup Terminal
  BY DEF IInv, TypeOK, Row
<1> QED
  BY <1>1, <1>2, <1>3 DEF IInv, Coherent, AllocationHeld

\* No process of the command outlives the running row that pays for it, however
\* often owners crash and are replaced, except what a leaf's failed finish left
\* behind: the receipt names that.
THEOREM AllocationAlwaysHeld == Spec => []Coherent
<1>1. IInv => Coherent
  BY InvHeld
<1> QED
  BY LifecycleInvariant, <1>1, PTL

\* A run that is recorded as passed did what it claims: a result that was lost or
\* never reported is not taken for success.
THEOREM PassedAlwaysEarned == Spec => []PassedIsEarned
<1>1. IInv => PassedIsEarned
  BY DEF IInv
<1> QED
  BY LifecycleInvariant, <1>1, PTL

\* A stop that was requested while the run was live decides its verdict, and a
\* land that was stopped has not changed the forge.
THEOREM StopAlwaysKept == Spec => []StopKept
<1>1. IInv => StopKept
  BY DEF IInv, StopKept, StoppedUnpublished, PublishInv
<1> QED
  BY LifecycleInvariant, <1>1, PTL

------------------------------------------------------------------------------
(* The run implements JobLife *)

\* The initial states.
LEMMA JobInit == Init => Job!Init
<1> SUFFICES ASSUME Init
             PROVE  Job!Init
  OBVIOUS
<1>1. row.status = "queued" /\ published = FALSE /\ ran = 0 /\ CommandAlive = FALSE
  BY Zenon DEF Init, CommandAlive
<1>2. (ran > 0) = FALSE
  BY <1>1
<1>3. undone = {}
  BY Zenon DEF Init
<1>4. ("finish" \in undone) = FALSE
  BY <1>3
<1> QED
  BY <1>1, <1>2, <1>4 DEF Job!Init

\* A step that touches neither the status, nor the command, nor the forge.
LEMMA JobStutters ==
    ASSUME row'.status = row.status, ran' = ran, CommandAlive' <=> CommandAlive, published' = published,
           "finish" \in undone' <=> "finish" \in undone
    PROVE  UNCHANGED Job!vars
<1>1. CommandAlive' = CommandAlive
  BY DEF CommandAlive
<1>2. ("finish" \in undone') = ("finish" \in undone)
  OBVIOUS
<1> QED
  BY <1>1, <1>2 DEF Job!vars

\* The command's last process ends, or another one is left.
LEMMA JobVanishes ==
    ASSUME row'.status = row.status, ran' = ran, published' = published, CommandAlive' => CommandAlive,
           "finish" \in undone' <=> "finish" \in undone
    PROVE  [Job!Next]_(Job!vars)
<1>1. CASE CommandAlive' <=> CommandAlive
  BY <1>1, JobStutters
<1>2. CASE CommandAlive /\ ~CommandAlive'
  <2>1. CommandAlive' = FALSE /\ ("finish" \in undone') = ("finish" \in undone)
    BY <1>2 DEF CommandAlive
  <2> QED
    BY <1>2, <2>1 DEF Job!Next, Job!Vanish
<1> QED
  BY <1>1, <1>2

\* It is noted that something could not be ended.
LEMMA JobNotes ==
    ASSUME row.status = "running", row' = row, ran' = ran, published' = published,
           CommandAlive' => CommandAlive, "finish" \in undone'
    PROVE  [Job!Next]_(Job!vars)
<1>1. CommandAlive' \in {CommandAlive, FALSE}
  BY DEF CommandAlive
<1>2. ("finish" \in undone') = TRUE
  OBVIOUS
<1> QED
  BY <1>1, <1>2 DEF Job!Next, Job!Note

\* Every step is one of JobLife's, or changes nothing of it.
LEMMA JobNext ==
    ASSUME IInv, [Next]_vars
    PROVE  [Job!Next]_(Job!vars)
<1> USE DEF IInv, TypeOK, owner, worker, land, resources
<1>1. CASE Cancel
  <2>1. UNCHANGED <<ran, published, undone>> /\ CommandAlive' = CommandAlive
    BY <1>1 DEF Cancel, CommandAlive
  <2>2. CASE row.status = "queued" /\ row'.status = "cancelled"
    BY <2>1, <2>2 DEF Job!Next, Job!Withdraw
  <2>3. CASE row'.status = row.status
    BY <2>1, <2>3, JobStutters
  <2> QED
    BY <1>1, <2>2, <2>3 DEF Cancel, Row
<1>2. CASE RequestInterruption
  BY <1>2, JobStutters DEF RequestInterruption, Authoritative, Row, CommandAlive
<1>3. CASE StartOwner
  BY <1>3, JobStutters DEF StartOwner, CommandAlive
<1>4. CASE Crash
  BY <1>4, JobStutters DEF Crash, CommandAlive
<1>5. CASE Busy
  <2>1. UNCHANGED <<row, ran, published, undone>>
    BY <1>5 DEF Busy
  <2>2. CASE pc \in Starting /\ DropPending
    <3>1. pipe # "released" /\ ~CommandAlive
      BY <2>2 DEF StartInv, RanInv, Starting
    <3> QED
      BY <2>1, <2>2, <3>1, Dropped, JobStutters
  <2>3. CASE UNCHANGED worker
    BY <2>1, <2>3, JobStutters DEF CommandAlive
  <2> QED
    BY <1>5, <2>2, <2>3 DEF Busy
<1>6. CASE Admit
  <2>1. UNCHANGED <<ran, published, undone>> /\ CommandAlive' = CommandAlive
    BY <1>6 DEF Admit, CommandAlive
  <2>2. row.status = "queued" /\ row'.status = "running"
    BY <1>6 DEF Admit, Row
  <2> QED
    BY <2>1, <2>2 DEF Job!Next, Job!Admit
<1>7. CASE Prepare
  BY <1>7, JobStutters DEF Prepare, GiveUp, Decide, CommandAlive
<1>8. CASE Spawn
  <2>1. ~CommandAlive /\ ran' = ran /\ UNCHANGED <<row, published, undone>>
    BY <1>8 DEF Spawn, StartInv, RanInv, Starting
  <2>2. ~CommandAlive'
    BY <1>8, <2>1 DEF Spawn, CommandAlive
  <2> QED
    BY <2>1, <2>2, JobStutters
<1>9. CASE CommitIdentity
  BY <1>9, JobStutters DEF CommitIdentity, Row, CommandAlive
<1>10. CASE VerifySetup
  <2>1. pipe # "released" /\ ~CommandAlive /\ UNCHANGED <<row, ran, published, undone>>
    BY <1>10 DEF VerifySetup, StartInv, RanInv, Starting
  <2>2. ~CommandAlive'
    BY <1>10, <2>1, Dropped DEF VerifySetup, CommandAlive
  <2> QED
    BY <2>1, <2>2, JobStutters
<1>11. CASE CheckCancel
  <2>1. pipe # "released" /\ ~CommandAlive /\ UNCHANGED <<row, ran, published, undone>>
    BY <1>11 DEF CheckCancel, StartInv, RanInv, Starting
  <2>2. ~CommandAlive'
    BY <1>11, <2>1, Dropped DEF CheckCancel, CommandAlive
  <2> QED
    BY <2>1, <2>2, JobStutters
<1>12. CASE Release
  <2>1. pipe # "released" /\ ~CommandAlive /\ UNCHANGED <<row, ran, published, undone>>
    BY <1>12 DEF Release, StartInv, RanInv, Starting
  <2>2. ~CommandAlive'
    BY <1>12, <2>1, Dropped DEF Release, CommandAlive
  <2> QED
    BY <2>1, <2>2, JobStutters
<1>13. CASE SignalCancel
  BY <1>13, JobStutters DEF SignalCancel, Observing, SameWorkerProcess, CommandAlive
<1>14. CASE Reap
  BY <1>14, JobStutters DEF Reap, Observing, CommandAlive
<1>15. CASE DrainGroup
  BY <1>15, JobStutters DEF DrainGroup, Observing, WorkerEnded, SameWorkerProcess, CommandAlive
<1>16. CASE DecideFinished
  BY <1>16, JobStutters DEF DecideFinished, Drained, Observing, WorkerEnded, GroupDrained, SameWorkerProcess,
         Decide, FailureReason, CommandAlive
<1>17. CASE FinishRun
  <2>1. /\ row.status = "running" /\ (~CommandAlive \/ "finish" \in undone)
        /\ CommandAlive' = CommandAlive /\ UNCHANGED <<ran, published, undone>>
    BY <1>17 DEF FinishRun, FinishInv, Over, CommandAlive
  <2>2. row'.status \in Terminal
    BY <1>17 DEF FinishRun, FinishInv, Terminal, Row
  <2>3. row'.status = "passed" => ran > 0
    <3>1. row'.status = "passed" => ran = 1
      BY <1>17 DEF FinishRun, FinishInv, SuccessInv, Earned, Row
    <3> QED
      BY <3>1
  <2>4. row'.status = "cancelled" => ~published
    BY <1>17 DEF FinishRun, FinishInv, PublishInv, Row
  <2>5. Job!End
    BY <2>1, <2>2, <2>3, <2>4 DEF Job!End, Terminal
  <2> QED
    BY <2>5 DEF Job!Next
<1>18. CASE PendingEOF
  BY <1>18, JobStutters DEF PendingEOF, CommandAlive
<1>19. CASE Exec
  <2>1. row.status = "running" /\ row'.status = "running"
    <3>1. row.status \in {"queued", "running"} \cup Terminal
      BY DEF Row
    <3> QED
      BY <1>19, <3>1 DEF Exec, PipeInv, FinishInv, Over, Startable
  <2>2. ran = 0 /\ ran' = 1
    BY <1>19 DEF Exec, RanInv
  <2>3. (ran > 0) = FALSE /\ (ran' > 0) = TRUE
    BY <2>2
  <2>4. CommandAlive' = TRUE /\ UNCHANGED <<published, undone>>
    BY <1>19 DEF Exec, CommandAlive
  <2> QED
    BY <2>1, <2>3, <2>4 DEF Job!Next, Job!Begin
<1>20. CASE Fork
  BY <1>20, JobStutters DEF Fork, CommandAlive
<1>21. CASE Exit
  BY <1>21, JobVanishes DEF Exit, Ends, CommandAlive
<1>22. CASE Killed
  BY <1>22, JobVanishes DEF Killed, Ends, CommandAlive
<1>23. CASE GroupEnds
  BY <1>23, JobVanishes DEF GroupEnds, CommandAlive
<1>24. CASE KillGroup
  BY <1>24, JobVanishes DEF KillGroup, AllDie, CommandAlive
<1>25. CASE CallbackFails
  BY <1>25, JobStutters DEF CallbackFails, Script, CommandAlive
<1>26. CASE PreflightRefuses
  BY <1>26, JobStutters DEF PreflightRefuses, Script, CommandAlive
<1>27. CASE ReuseGate
  BY <1>27, JobStutters DEF ReuseGate, Callback, Script, Row, CommandAlive
<1>28. CASE StartGate
  BY <1>28, JobStutters DEF StartGate, Callback, Script, Row, CommandAlive
<1>29. CASE GateGreen
  BY <1>29, JobStutters DEF GateGreen, Script, CommandAlive
<1>30. CASE GateRed
  BY <1>30, JobStutters DEF GateRed, Callback, Script, Row, CommandAlive
<1>31. CASE AvoidedRefuses
  BY <1>31, JobStutters DEF AvoidedRefuses, Script, CommandAlive
<1>32. CASE StartPublishing
  BY <1>32, JobStutters DEF StartPublishing, Callback, Script, Row, CommandAlive
<1>33. CASE Publish
  <2>1. UNCHANGED <<row, ran, undone>> /\ CommandAlive' = CommandAlive
    BY <1>33 DEF Publish, Script, CommandAlive
  <2>2. ~published /\ CommandAlive
    BY <1>33 DEF Publish, Script, PublishInv, CommandAlive
  <2>3. row.status = "running"
    <3>1. row.status \in {"queued", "running"} \cup Terminal /\ proc = "running"
      BY <1>33 DEF Publish, Script, Row
    <3> QED
      BY <2>2, <3>1 DEF RanInv, PipeInv, FinishInv, Over
  <2>4. CASE published' = published
    BY <2>1, <2>4, JobStutters
  <2>5. CASE published' = TRUE
    BY <2>1, <2>2, <2>3, <2>5 DEF Job!Next, Job!Publish
  <2> QED
    BY <1>33, <2>2, <2>4, <2>5 DEF Publish
<1>34. CASE Report
  BY <1>34, JobStutters DEF Report, Callback, Script, ReportAccepted, Row, CommandAlive
<1>35. CASE UNCHANGED vars
  BY <1>35, JobStutters DEF vars, CommandAlive
<1>36. CASE CancelResources
  <2>1. UNCHANGED <<row, ran, published>> /\ (CommandAlive' => CommandAlive)
    BY <1>36, LeafSteps DEF CommandAlive
  <2>2. "finish" \in undone' <=> "finish" \in undone
    BY <1>36, StopSaved
  <2> QED
    BY <2>1, <2>2, JobVanishes
<1>37. CASE FinishResources
  <2>1. /\ row.status = "running" /\ UNCHANGED <<row, ran, published>>
        /\ CommandAlive' => CommandAlive
    BY <1>37, LeafSteps DEF CommandAlive
  <2>2. CASE "finish" \in undone' <=> "finish" \in undone
    BY <2>1, <2>2, JobVanishes
  <2>3. CASE "finish" \in undone'
    BY <2>1, <2>3, JobNotes
  <2> QED
    BY <1>37, <2>2, <2>3, FinishSaved
<1> QED
  BY <1>1, <1>2, <1>3, <1>4, <1>5, <1>6, <1>7, <1>8, <1>9, <1>10, <1>11, <1>12, <1>13, <1>14, <1>15,
     <1>16, <1>17, <1>18, <1>19, <1>20, <1>21, <1>22, <1>23, <1>24, <1>25, <1>26, <1>27, <1>28,
     <1>29, <1>30, <1>31, <1>32, <1>33, <1>34, <1>35, <1>36, <1>37 DEF Next, StartStep, ObserveStep, ProcessStep,
         ScriptStep

\* The run keeps what JobLife promises: its command is started at most once and
\* only while it counts as running, and a verdict is given once, when nothing of
\* the command is left or its receipt says that the rest could not be ended.
THEOREM RunImplementsJob == Spec => JobSpec
<1>1. Init => Job!Init
  BY JobInit
<1>2. IInv /\ [Next]_vars => [Job!Next]_(Job!vars)
  BY JobNext
<1> QED
  BY <1>1, <1>2, LifecycleInvariant, PTL DEF Spec, JobSpec, Job!Spec
===============================================================================
