---------------------------- MODULE RunLifecycle -----------------------------
(***************************************************************************)
(* One run from admission to its verdict: the owner that starts and        *)
(* observes its worker, the worker process and its process group, the land *)
(* worker's callbacks, clients that cancel, and owners that crash and are  *)
(* replaced at any point in between.  The run may have a cgroup leaf, and  *)
(* then its processes are ended through it and not through their group.    *)
(*                                                                         *)
(* Scheduler says which run is admitted; here the run is admitted when the *)
(* owner gets to it.  What a publication does at the forge is not modelled *)
(* beyond whether it took effect.                                          *)
(***************************************************************************)
EXTENDS Naturals

CONSTANTS
    Kinds,      \* the kinds of runs to consider
    MaxFaults   \* bound on crashes and busy databases

ASSUME LifecycleConstantsOK ==
    /\ Kinds \subseteq {"check", "full", "merge", "land"}
    /\ MaxFaults \in Nat

VARIABLES
    kind,       \* of the run
    row,        \* the row of the runs table
    pc,         \* what the owner does next; "none" when there is no owner
    child,      \* the run is in the owner's map of children
    seen,       \* the exit status that the owner has collected from its child
    verdict,    \* what the owner is about to record
    proc,       \* the worker process
    mine,       \* the worker is a child process of the current owner
    pipe,       \* the control pipe, as the worker sees it
    exit,       \* the exit status of the worker
    group,      \* other members of the worker's process group, or of its leaf, are alive
    signalled,  \* the processes are being ended
    leaf,       \* the cgroup backend's entry in resource_state
    undone,     \* the stages that the resource receipt records as failed
    script,     \* where the land worker is
    result,     \* what the land worker is about to report
    ran,        \* how often the command was started
    published,  \* a publication took effect
    faults      \* crashes and busy databases so far

owner  == <<pc, child, seen, verdict>>
worker == <<proc, mine, pipe, exit, group, signalled>>
land   == <<script, result, published>>
resources == <<leaf, undone>>
vars   == <<kind, row, pc, child, seen, verdict, proc, mine, pipe, exit, group,
            signalled, leaf, undone, script, result, ran, published, faults>>

Terminal == {"passed", "failed", "cancelled", "interrupted"}

\* Exit statuses: success, a red gate or failing command, the stable codes of a
\* land that refuses, any other error, death by a signal.
Codes == {"0", "red", "stale", "avoided", "error", "killed"}
None == "none"

Reasons == {"", "gate-failed", "memory-oom", "stale-main", "avoided-commit", "merge-error", "broker-stopped",
            "worker-result-lost", "resource-enforcement-failed", "worker-start-failed",
            "broker-worker-handshake-failed"}

Row == [status : {"queued", "running"} \cup Terminal,
        phase : {"none", "preflight", "gating", "publishing"},
        cancel : {"no", "client", "stop"},   \* cancel_requested, and who asked
        known : BOOLEAN,                     \* worker_pid and worker_start_token are set
        gate : {"none", "green", "red"},     \* gate_exit_status
        reported : Codes \cup {None},        \* reported_exit_status
        reason : Reasons]                    \* failure_reason

Starting == {"admitted", "prepared", "spawned", "identified", "verified", "releasing"}

TypeOK ==
    /\ kind \in Kinds
    /\ row \in Row
    /\ pc \in {"none", "idle", "drained", "finishing"} \cup Starting
    /\ child \in BOOLEAN
    /\ seen \in Codes \cup {None}
    /\ verdict \in [status : Terminal \cup {None}, reason : Reasons]
    /\ proc \in {"none", "pending", "running", "zombie", "gone"}
    /\ mine \in BOOLEAN
    /\ pipe \in {"none", "open", "released", "closed"}
    /\ exit \in Codes \cup {None}
    /\ group \in BOOLEAN /\ signalled \in BOOLEAN
    /\ leaf \in {"none", "held", "cancelled"}
    /\ undone \subseteq {"cancel", "finish"}
    /\ script \in {"none", "preflight", "gating", "gated", "publishing", "report", "end", "quit"}
    /\ result \in Codes \cup {None}
    /\ ran \in Nat
    /\ published \in BOOLEAN
    /\ faults \in 0 .. MaxFaults

NoVerdict == [status |-> None, reason |-> ""]

------------------------------------------------------------------------------
(* Clients, and an owner that stops *)

Authoritative == kind = "merge" \/ (kind = "land" /\ row.phase = "publishing")

Cancel ==
    /\ \/ /\ row.status = "queued"
          /\ row' = [row EXCEPT !.status = "cancelled", !.cancel = "client"]
       \/ /\ row.status = "running"
          /\ ~Authoritative
          /\ row.cancel = "no"
          /\ row' = [row EXCEPT !.cancel = "client"]
    /\ UNCHANGED <<kind, resources, owner, worker, land, ran, faults>>

\* A stopping owner ends what runs and is not publishing.
RequestInterruption ==
    /\ pc = "idle"
    /\ row.status = "running"
    /\ row.cancel = "no"
    /\ ~Authoritative
    /\ row' = [row EXCEPT !.cancel = "stop"]
    /\ UNCHANGED <<kind, resources, owner, worker, land, ran, faults>>

------------------------------------------------------------------------------
(* The owner starts the worker *)

\* The worker dies with the owner's end of its control pipe before it is released.
DropPending ==
    /\ proc' = IF proc = "none" THEN "none" ELSE "gone"
    /\ pipe' = IF pipe = "open" THEN "closed" ELSE pipe
    /\ UNCHANGED <<mine, exit, group, signalled>>

Decide(s, why) == pc' = "finishing" /\ verdict' = [status |-> s, reason |-> why]

\* A start that is given up first gives back what was prepared.
GiveUp(s, why) == Decide(s, why) /\ leaf' = "none"

\* Mutant: a run whose worker is gone is started again.
AdmitAgain ==
    /\ pc = "idle"
    /\ row.status = "queued" \/ (row.status = "running" /\ proc = "gone" /\ ~child)
    /\ row' = [row EXCEPT !.status = "running", !.known = FALSE,
                          !.phase = IF kind = "land" THEN "preflight" ELSE "none"]
    /\ pc' = "admitted"
    /\ UNCHANGED <<kind, resources, child, seen, verdict, worker, land, ran, faults>>

Admit ==
    /\ pc = "idle"
    /\ row.status = "queued"
    /\ row' = [row EXCEPT !.status = "running",
                          !.phase = IF kind = "land" THEN "preflight" ELSE "none"]
    /\ pc' = "admitted"
    /\ UNCHANGED <<kind, resources, child, seen, verdict, worker, land, ran, faults>>

\* A cancellation that came first is honoured before anything is started, and so
\* is a resource that cannot be enforced.  A run that asks for it gets a leaf.
Prepare ==
    /\ pc = "admitted"
    /\ \/ row.cancel # "no" /\ GiveUp("cancelled", "")
       \/ row.cancel = "no" /\ GiveUp("failed", "resource-enforcement-failed")
       \/ row.cancel = "no" /\ pc' = "prepared" /\ leaf' \in {"none", "held"} /\ UNCHANGED verdict
    /\ UNCHANGED <<kind, undone, row, child, seen, worker, land, ran, faults>>

Spawn ==
    /\ pc = "prepared"
    /\ \/ /\ GiveUp("failed", "worker-start-failed")
          /\ UNCHANGED worker
       \/ /\ pc' = "spawned"
          /\ proc' = "pending" /\ mine' = TRUE /\ pipe' = "open"
          /\ UNCHANGED <<verdict, exit, group, signalled, leaf>>
    /\ UNCHANGED <<kind, undone, row, child, seen, land, ran, faults>>

\* Mutant: the worker's identity is not written before the worker is released.
CommitIdentityLater ==
    /\ pc = "spawned"
    /\ pc' = "identified"
    /\ UNCHANGED <<kind, resources, row, child, seen, verdict, worker, land, ran, faults>>

CommitIdentity ==
    /\ pc = "spawned"
    /\ row' = [row EXCEPT !.known = TRUE]
    /\ pc' = "identified"
    /\ UNCHANGED <<kind, resources, child, seen, verdict, worker, land, ran, faults>>

\* attach_resources and verify_setup.  The worker enters the leaf; a leaf that is
\* not required is given up when that fails.
VerifySetup ==
    /\ pc = "identified"
    /\ \/ /\ GiveUp("failed", "resource-enforcement-failed")
          /\ DropPending
       \/ /\ proc = "pending"
          /\ pc' = "verified"
          /\ leaf' \in {leaf, "none"}
          /\ UNCHANGED <<verdict, worker>>
    /\ UNCHANGED <<kind, undone, row, child, seen, land, ran, faults>>

CheckCancel ==
    /\ pc = "verified"
    /\ \/ /\ row.cancel # "no"
          /\ GiveUp("cancelled", "")
          /\ DropPending
       \/ /\ row.cancel = "no"
          /\ pc' = "releasing"
          /\ UNCHANGED <<verdict, worker, leaf>>
    /\ UNCHANGED <<kind, undone, row, child, seen, land, ran, faults>>

Release ==
    /\ pc = "releasing"
    /\ \/ /\ proc = "pending"
          /\ pipe' = "released"
          /\ child' = TRUE
          /\ pc' = "idle"
          /\ UNCHANGED <<verdict, proc, mine, exit, group, signalled, leaf>>
       \/ /\ proc # "pending"
          /\ GiveUp("failed", "broker-worker-handshake-failed")
          /\ DropPending
          /\ UNCHANGED child
    /\ UNCHANGED <<kind, undone, row, seen, land, ran, faults>>

------------------------------------------------------------------------------
(* The owner observes the worker *)

Observing == pc = "idle" /\ row.status = "running"

\* same_worker_process: the recorded worker lives and is not a zombie.
SameWorkerProcess == row.known /\ proc \in {"pending", "running"}

\* Mutant: a worker that another owner started is not signalled.
SignalCancelOwn ==
    /\ Observing
    /\ row.cancel # "no"
    /\ leaf = "none"
    /\ row.known
    /\ child
    /\ ~signalled
    /\ signalled' = TRUE
    /\ UNCHANGED <<kind, resources, row, owner, proc, mine, pipe, exit, group, land, ran, faults>>

\* signal_cancel: SIGTERM, and SIGKILL when the grace is over.
SignalCancel ==
    /\ Observing
    /\ row.cancel # "no"
    /\ leaf = "none"
    /\ row.known
    /\ child \/ SameWorkerProcess
    /\ ~signalled
    /\ signalled' = TRUE
    /\ UNCHANGED <<kind, resources, row, owner, proc, mine, pipe, exit, group, land, ran, faults>>

AllDie ==
    LET lives == proc \in {"pending", "running"} IN
    /\ proc' = IF lives THEN (IF mine THEN "zombie" ELSE "gone") ELSE proc
    /\ exit' = IF lives THEN "killed" ELSE exit
    /\ script' = IF lives THEN "none" ELSE script
    /\ group' = FALSE

\* kill_and_wait on the leaf.  A failure may find that everything is dead, that
\* nothing was done, or that what was killed lingers.
KillLeaf(done) ==
    \/ AllDie /\ UNCHANGED signalled
    \/ ~done /\ signalled' \in {signalled, TRUE} /\ UNCHANGED <<proc, exit, script, group>>

\* What the backend did is saved, failed or not; a busy database ends the pass
\* before that.
SaveStage(stage, done, state, next) ==
    \/ /\ leaf' = state
       /\ undone' = IF done THEN undone ELSE undone \cup {stage}
       /\ pc' = next
       /\ UNCHANGED faults
    \/ /\ faults < MaxFaults
       /\ faults' = faults + 1
       /\ UNCHANGED <<leaf, undone, pc>>

\* cancel_resources: a stop through the leaf is tried once.
CancelResources ==
    /\ Observing
    /\ row.cancel # "no"
    /\ leaf = "held"
    /\ child \/ SameWorkerProcess
    /\ \E done \in BOOLEAN : KillLeaf(done) /\ SaveStage("cancel", done, "cancelled", "idle")
    /\ UNCHANGED <<kind, row, child, seen, verdict, mine, pipe, result, ran, published>>

\* Mutant: death by a signal has no exit code and counts as 0.
ReapUnsigned ==
    /\ Observing
    /\ child
    /\ proc = "zombie"
    /\ proc' = "gone"
    /\ seen' = IF exit = "killed" THEN "0" ELSE exit
    /\ UNCHANGED <<kind, resources, row, pc, child, verdict, mine, pipe, exit, group, signalled, land,
                   ran, faults>>

\* try_wait.
Reap ==
    /\ Observing
    /\ child
    /\ proc = "zombie"
    /\ proc' = "gone"
    /\ seen' = exit
    /\ UNCHANGED <<kind, resources, row, pc, child, verdict, mine, pipe, exit, group, signalled, land,
                   ran, faults>>

\* The worker is known to have ended: its child's status was collected, or no
\* such process lives.
WorkerEnded == IF child THEN seen # None ELSE ~SameWorkerProcess

\* Mutant: the owner waits for the rest of the group without ending it.
DrainGroupPatiently ==
    /\ Observing
    /\ WorkerEnded
    /\ leaf = "none"
    /\ row.known
    /\ group
    /\ ~signalled
    /\ UNCHANGED vars

\* drain_finished_process_group: what the worker left behind is ended first.
DrainGroup ==
    /\ Observing
    /\ WorkerEnded
    /\ leaf = "none"
    /\ row.known
    /\ group
    /\ ~signalled
    /\ signalled' = TRUE
    /\ UNCHANGED <<kind, resources, row, owner, proc, mine, pipe, exit, group, land, ran, faults>>

\* finish_and_cleanup_resources: what is in the leaf is ended first, if it can be.
FinishResources ==
    /\ Observing
    /\ WorkerEnded
    /\ leaf # "none"
    /\ \E done \in BOOLEAN : KillLeaf(done) /\ SaveStage("finish", done, "none", "drained")
    /\ UNCHANGED <<kind, row, child, seen, verdict, mine, pipe, result, ran, published>>

\* Nothing is left of the group that the row names; a row without identity names
\* none.  What was left in a leaf need not be in the group.
GroupDrained == row.known => ~group \/ "finish" \in undone

\* The owner is done with the processes of a worker that has ended.
Drained == pc = "drained" \/ (Observing /\ WorkerEnded /\ leaf = "none" /\ GroupDrained)

\* publication_failure_reason; the other stable codes are like merge-error.
FailureReason(code) ==
    CASE kind \notin {"merge", "land"} -> ""
      [] kind = "land" /\ row.phase = "gating" /\ row.gate # "none" -> "gate-failed"
      [] OTHER -> CASE code = "stale"   -> "stale-main"
                    [] code = "avoided" -> "avoided-commit"
                    [] OTHER            -> "merge-error"

\* A land's own report counts before the exit status of its worker.  The kernel may
\* have noted an out-of-memory kill, which counts before other reasons; an owner
\* that has adopted the worker does not look.
DecideFinished ==
    /\ Drained
    /\ LET code == IF kind = "land" /\ row.reported # None THEN row.reported ELSE seen
       IN  \/ row.cancel = "client" /\ Decide("cancelled", "")
           \/ row.cancel = "stop" /\ Decide("interrupted", "broker-stopped")
           \/ row.cancel = "no" /\ code = "0" /\ Decide("passed", "")
           \/ row.cancel = "no" /\ code \notin {"0", None} /\ Decide("failed", FailureReason(code))
           \/ row.cancel = "no" /\ code \notin {"0", None} /\ child /\ Decide("failed", "memory-oom")
           \/ row.cancel = "no" /\ code = None /\ Decide("interrupted", "worker-result-lost")
    /\ UNCHANGED <<kind, resources, row, child, seen, worker, land, ran, faults>>

\* Mutant: the verdict is written without another look at cancel_requested.
FinishRunStale ==
    /\ pc = "finishing"
    /\ row.status = "running"
    /\ row' = [row EXCEPT !.status = verdict.status, !.reason = verdict.reason, !.phase = "none"]
    /\ pc' = "idle" /\ child' = FALSE /\ seen' = None /\ verdict' = NoVerdict
    /\ UNCHANGED <<kind, resources, worker, land, ran, faults>>

\* The terminal transaction looks at cancel_requested once more.
FinishRun ==
    /\ pc = "finishing"
    /\ row.status = "running"
    /\ LET v == CASE row.cancel = "client" -> [status |-> "cancelled", reason |-> ""]
                  [] row.cancel = "stop"   -> [status |-> "interrupted", reason |-> "broker-stopped"]
                  [] OTHER                 -> verdict
       IN  row' = [row EXCEPT !.status = v.status, !.reason = v.reason, !.phase = "none"]
    /\ pc' = "idle" /\ child' = FALSE /\ seen' = None /\ verdict' = NoVerdict
    /\ UNCHANGED <<kind, resources, worker, land, ran, faults>>

------------------------------------------------------------------------------
(* Owners come and go *)

StartOwner ==
    /\ pc = "none"
    /\ pc' = "idle"
    /\ UNCHANGED <<kind, resources, row, child, seen, verdict, worker, land, ran, faults>>

\* The kernel closes the pipes and hands the worker to init, which reaps it.
Crash ==
    /\ pc # "none"
    /\ faults < MaxFaults
    /\ faults' = faults + 1
    /\ pc' = "none" /\ child' = FALSE /\ seen' = None /\ verdict' = NoVerdict
    /\ mine' = FALSE
    /\ signalled' = FALSE
    /\ proc' = IF proc = "zombie" THEN "gone" ELSE proc
    /\ pipe' = IF pipe = "open" THEN "closed" ELSE pipe
    /\ UNCHANGED <<kind, resources, row, exit, group, land, ran>>

\* A busy database ends the pass: a worker that was not released is dropped, a
\* verdict that was not written is decided again.  Only the commit of the worker's
\* identity is tried until it succeeds.
Busy ==
    /\ pc \in (Starting \ {"spawned"}) \cup {"drained", "finishing"}
    /\ faults < MaxFaults
    /\ faults' = faults + 1
    /\ pc' = "idle"
    /\ verdict' = NoVerdict
    /\ IF pc \in Starting THEN DropPending ELSE UNCHANGED worker
    /\ UNCHANGED <<kind, resources, row, child, seen, land, ran>>

------------------------------------------------------------------------------
(* The worker process *)

\* The end of file on the control pipe: the launcher exits without running anything.
PendingEOF ==
    /\ proc = "pending"
    /\ pipe = "closed"
    /\ proc' = "gone"
    /\ UNCHANGED <<kind, resources, row, owner, mine, pipe, exit, group, signalled, land, ran, faults>>

Exec ==
    /\ proc = "pending"
    /\ pipe = "released"
    /\ proc' = "running"
    /\ ran' = ran + 1
    /\ script' = IF kind = "land" THEN "preflight" ELSE "none"
    /\ UNCHANGED <<kind, resources, row, owner, mine, pipe, exit, group, signalled, result, published,
                   faults>>

Fork ==
    /\ proc = "running"
    /\ ~group
    /\ group' = TRUE
    /\ UNCHANGED <<kind, resources, row, owner, proc, mine, pipe, exit, signalled, land, ran, faults>>

\* A worker that has ended is a zombie until its parent, if it still lives, reaps it.
Ends(code) ==
    /\ proc' = IF mine THEN "zombie" ELSE "gone"
    /\ exit' = code
    /\ script' = "none"
    /\ UNCHANGED <<kind, resources, row, owner, mine, pipe, group, signalled, result, ran, published, faults>>

Exit ==
    /\ proc = "running"
    /\ \/ kind # "land" /\ \E code \in {"0", "red"} : Ends(code)
       \/ kind = "land" /\ script = "end" /\ Ends(result)
       \/ kind = "land" /\ script = "quit" /\ Ends("error")

Killed ==
    /\ proc \in {"pending", "running"}
    /\ Ends("killed")

GroupEnds ==
    /\ group
    /\ group' = FALSE
    /\ UNCHANGED <<kind, resources, row, owner, proc, mine, pipe, exit, signalled, land, ran, faults>>

\* SIGKILL ends every process of the group or the leaf.
KillGroup ==
    /\ signalled
    /\ proc \in {"pending", "running"} \/ group
    /\ AllDie
    /\ UNCHANGED <<kind, resources, row, owner, mine, pipe, signalled, result, ran, published, faults>>

------------------------------------------------------------------------------
(* The land worker *)

Script(from, to) ==
    /\ proc = "running"
    /\ script = from
    /\ script' \in to
    /\ UNCHANGED <<kind, resources, owner, worker, ran, faults>>

\* A worker whose callback fails gives up without a report, also when the callback
\* took effect and only its answer was lost.
Callback(from, to) == Script(from, {to, "quit"})

\* A callback has no effect when the land was cancelled, no owner is found in time
\* or the database is busy.
CallbackFails ==
    \E s \in {"preflight", "gating", "gated", "report"} :
        /\ Script(s, {"quit"})
        /\ UNCHANGED <<row, result, published>>

\* A refusal before the gate, with its stable code.
PreflightRefuses ==
    /\ Script("preflight", {"report"})
    /\ result' \in {"stale", "avoided", "error"}
    /\ UNCHANGED <<row, published>>

\* reuse_gate: the owner's records already hold the verdict.
ReuseGate ==
    /\ Callback("preflight", "gated")
    /\ row.cancel = "no" /\ row.phase = "preflight"
    /\ row' = [row EXCEPT !.phase = "gating", !.gate = "green"]
    /\ UNCHANGED <<result, published>>

StartGate ==
    /\ Callback("preflight", "gating")
    /\ row.cancel = "no"
    /\ row' = [row EXCEPT !.phase = "gating"]
    /\ UNCHANGED <<result, published>>

GateGreen ==
    /\ Script("gating", {"gated"})
    /\ UNCHANGED <<row, result, published>>

GateRed ==
    /\ Callback("gating", "report")
    /\ row.cancel = "no"
    /\ row' = [row EXCEPT !.gate = "red"]
    /\ result' = "red"
    /\ UNCHANGED published

\* The second avoided-commit check, after the gate.
AvoidedRefuses ==
    /\ Script("gated", {"report"})
    /\ result' \in {"avoided", "error"}
    /\ UNCHANGED <<row, published>>

StartPublishing ==
    /\ Callback("gated", "publishing")
    /\ row.cancel = "no" /\ row.gate # "red"
    /\ row' = [row EXCEPT !.phase = "publishing", !.gate = "green"]
    /\ UNCHANGED <<result, published>>

\* A publication that fails may have taken effect all the same.
Publish ==
    /\ Script("publishing", {"report"})
    /\ \/ result' = "0" /\ published' = TRUE
       \/ result' \in {"stale", "error"} /\ published' \in BOOLEAN
    /\ UNCHANGED row

ReportAccepted ==
    /\ row.reported = None
    /\ \/ row.phase = "preflight"
       \/ row.phase = "gating" /\ row.gate # "none"
       \/ row.phase = "publishing" /\ row.gate = "green"

\* report_land_result; a refused report makes the worker give up.
Report ==
    \/ /\ Callback("report", "end")
       /\ ReportAccepted
       /\ row' = [row EXCEPT !.reported = result]
       /\ UNCHANGED <<result, published>>
    \/ /\ Script("report", {"quit"})
       /\ ~ReportAccepted
       /\ UNCHANGED <<row, result, published>>

------------------------------------------------------------------------------
Init ==
    /\ kind \in Kinds
    /\ row = [status |-> "queued", phase |-> "none", cancel |-> "no", known |-> FALSE,
              gate |-> "none", reported |-> None, reason |-> ""]
    /\ pc = "none" /\ child = FALSE /\ seen = None /\ verdict = NoVerdict
    /\ proc = "none" /\ mine = FALSE /\ pipe = "none" /\ exit = None
    /\ group = FALSE /\ signalled = FALSE
    /\ leaf = "none" /\ undone = {}
    /\ script = "none" /\ result = None
    /\ ran = 0 /\ published = FALSE /\ faults = 0

StartStep == Admit \/ Prepare \/ Spawn \/ CommitIdentity \/ VerifySetup \/ CheckCancel \/ Release

ObserveStep ==
    \/ SignalCancel \/ CancelResources
    \/ Reap \/ DrainGroup \/ FinishResources
    \/ DecideFinished \/ FinishRun

ScriptStep ==
    \/ CallbackFails
    \/ PreflightRefuses
    \/ ReuseGate
    \/ StartGate
    \/ GateGreen
    \/ GateRed
    \/ AvoidedRefuses
    \/ StartPublishing
    \/ Publish
    \/ Report

ProcessStep == PendingEOF \/ Exec \/ Fork \/ Exit \/ Killed \/ GroupEnds \/ KillGroup

Next ==
    \/ Cancel
    \/ RequestInterruption
    \/ StartStep
    \/ ObserveStep
    \/ StartOwner
    \/ Crash
    \/ Busy
    \/ ProcessStep
    \/ ScriptStep

Spec == Init /\ [][Next]_vars

\* An owner is started when there is none and keeps working; the kernel delivers
\* SIGKILL and the end of file, and a released launcher starts the command.
\* Nothing makes the command itself end.
Fairness ==
    /\ WF_vars(StartOwner)
    /\ WF_vars(StartStep)
    /\ WF_vars(ObserveStep)
    /\ WF_vars(KillGroup)
    /\ WF_vars(PendingEOF)
    /\ WF_vars(Exec)

FairSpec == Spec /\ Fairness

------------------------------------------------------------------------------
(* Properties *)

CommandAlive == proc = "running" \/ group

\* "allocation is held until the complete worker process group is gone": whatever
\* crashes, no process of the command outlives the running row that pays for it,
\* unless the run's receipt records that its leaf could not be ended.
AllocationHeld == CommandAlive => row.status = "running" \/ "finish" \in undone

\* Types, and an allocation for every process that could be ended.
Coherent == TypeOK /\ AllocationHeld

\* A passed run did what it claims: its command exited with 0, and a land has
\* published.  A result that was lost is never taken for success.
PassedIsEarned ==
    row.status = "passed" =>
        /\ ran = 1
        /\ kind # "land" => exit = "0"
        /\ kind = "land" => published

\* A stop that was requested while the run was live decides its verdict, also when
\* the request comes between the owner's decision and the terminal transaction.
StopHonoured ==
    row.status \in Terminal =>
        /\ row.cancel = "client" => row.status = "cancelled"
        /\ row.cancel = "stop" => row.status = "interrupted"

\* A land that was cancelled or stopped has not changed the forge.
StoppedUnpublished ==
    row.status \in Terminal /\ row.cancel # "no" => ~published

\* A stop decides the verdict and keeps the forge as it was.
StopKept == StopHonoured /\ StoppedUnpublished

\* The detailed run keeps what JobLife promises.
Job == INSTANCE JobLife WITH
           status <- row.status, begun <- (ran > 0), alive <- CommandAlive,
           noted <- ("finish" \in undone)

JobSpec == Job!Spec

\* A stop request ends the run even if its command ignores everything but SIGKILL.
\* One through a leaf is tried once, and a failure of it is in the run's receipt.
StopTakesEffect ==
    (row.status = "running" /\ row.cancel # "no") ~> (row.status \in Terminal \/ "cancel" \in undone)

\* A run whose worker has ended gets its verdict.
EndIsRecorded ==
    (row.status = "running" /\ proc \in {"zombie", "gone"}) ~> row.status \in Terminal
=============================================================================
