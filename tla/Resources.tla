------------------------------ MODULE Resources -------------------------------
(***************************************************************************)
(* The broker's side of resource enforcement for one run: what it asks of  *)
(* the cgroup and the quota backend between admission and verdict, what it *)
(* saves in the row (the private state of each backend and the receipt),   *)
(* and what a replacement broker makes of a row it finds.                  *)
(*                                                                         *)
(* A backend call is one step with an outcome; CgroupLeaf and ProjectQuota *)
(* have its inside.  The receipt is saved by one statement together with   *)
(* the backends' state; the broker works on a copy in between and may die  *)
(* between any two calls.                                                  *)
(***************************************************************************)
EXTENDS Naturals

CONSTANTS
    Contracts,  \* the modes of the bindings to consider
    MaxFaults   \* bound on crashes and failing calls

Names == {"memory", "tmp", "disk"}     \* a controller, tmpfs scratch, quota scratch
Backends == {"cgroup", "quota"}
BackendOf == [n \in Names |-> IF n = "disk" THEN "quota" ELSE "cgroup"]
None == "none"

\* resource_contract: one run has one scratch provider.
Contract(m) == m["tmp"] = "off" \/ m["disk"] = "off"

ASSUME ResourcesConstantsOK ==
    /\ Contracts \subseteq [Names -> {"off", "best", "required"}]
    /\ \A m \in Contracts : Contract(m)
    /\ MaxFaults \in Nat

VARIABLES
    mode,       \* of the run's bindings
    able,       \* the bindings that the probed capabilities support
    row,        \* the row: status, identity, stop request, state, receipt
    copy,       \* the state and receipt that the broker works on
    pc,         \* what the broker does; "down" or "failed" when there is none
    ret,        \* where a cancellation and a cleanup return to
    verdict,    \* what the broker has decided to record, or None
    setup,      \* the scratch that the worker is told to set up
    isolate,    \* the worker is told to isolate itself in its cgroup
    alloc,      \* the backends whose allocation exists
    worker,     \* the worker process
    child,      \* it is a child of this broker
    exit,       \* its exit status
    code,       \* the result of its setup
    scratch,    \* the scratch that its environment names
    kids,       \* descendants are alive
    inLeaf,     \* the worker and its descendants are in the leaf
    killed,     \* the leaf has been told to die
    oom,        \* the leaf has counted an out-of-memory kill
    faults

broker  == <<pc, ret, verdict>>
launch  == <<setup, isolate>>
process == <<worker, child, exit, code, scratch, kids, inLeaf, killed, oom>>
fixed   == <<mode, able>>
vars    == <<mode, able, row, copy, broker, launch, alloc, process, faults>>

Held == [held : BOOLEAN, finished : BOOLEAN, cancelled : BOOLEAN]   \* BackendState
Free == [held |-> FALSE, finished |-> FALSE, cancelled |-> FALSE]
Stages == {"probe", "prepare", "attach", "usage", "finish", "cancel", "cleanup"}
Statuses == {"recorded", "applied", "unapplied", "failed", "oom"}
Record == [state : [Backends -> Held], applied : SUBSET Names,
           events : SUBSET (Names \X Stages \X Statuses)]
Blank == [state |-> [b \in Backends |-> Free], applied |-> {}, events |-> {}]

Verdicts == {None, "passed", "failed", "memory-oom", "enforcement", "start", "handshake",
             "cancelled", "interrupted"}
Starting == {"probe", "prepare_cgroup", "prepare_quota", "prepared", "setup_tmpfs", "setup_quota", "spawn",
             "identify", "attach", "verify", "record", "release"}

TypeOK ==
    /\ mode \in Contracts
    /\ able \subseteq Names
    /\ row \in [status : {"queued", "running"} \cup Verdicts, known : BOOLEAN, cancel : BOOLEAN, saved : Record]
    /\ copy \in Record
    /\ pc \in {"down", "failed", "idle", "cancel", "finish", "cleanup", "verdict"} \cup Starting
    /\ ret \in [cancel : {None, "idle", "finish", "cleanup"}, clean : {None, "verdict", "verify", "spawn"}]
    /\ verdict \in Verdicts
    /\ setup \in {None, "tmp", "disk"} /\ scratch \in {None, "tmp", "disk"}
    /\ alloc \subseteq Backends
    /\ worker \in {"none", "pending", "ready", "running", "gone"}
    /\ exit \in {None, "ok", "red"}
    /\ code \in {"ok", "mount", "namespace", "error"}
    /\ {isolate, child, kids, inLeaf, killed, oom} \subseteq BOOLEAN
    /\ faults \in 0 .. MaxFaults

Init ==
    /\ mode \in Contracts
    /\ able \in SUBSET {n \in Names : mode[n] # "off"}
    /\ row = [status |-> "queued", known |-> FALSE, cancel |-> FALSE, saved |-> Blank]
    /\ copy = Blank
    /\ pc = "idle" /\ ret = [cancel |-> None, clean |-> None] /\ verdict = None
    /\ setup = None /\ isolate = FALSE
    /\ alloc = {}
    /\ worker = "none" /\ child = FALSE /\ exit = None /\ code = "ok" /\ scratch = None
    /\ kids = FALSE /\ inLeaf = FALSE /\ killed = FALSE /\ oom = FALSE
    /\ faults = 0

------------------------------------------------------------------------------
(* Receipts *)

Required(n) == mode[n] = "required"
Wanted(b) == {n \in Names : BackendOf[n] = b /\ mode[n] # "off"}
Eligible(b) == Wanted(b) \cap able

\* What a receipt says of a binding that could not be applied.
Missed(n) == IF Required(n) THEN "failed" ELSE "unapplied"

Note(c, ns, stage, status) == [c EXCEPT !.events = @ \cup (ns \X {stage} \X {status})]
NoteMissed(c, ns, stage) == [c EXCEPT !.events = @ \cup {<<n, stage, Missed(n)>> : n \in ns}]
RefusedBy(ns) == \E n \in ns : Required(n)
Holding(c) == {b \in Backends : c.state[b].held}

\* The names that a backend's stored state covers are the eligible ones.
Covered(b) == Eligible(b)

Save(c) == row' = [row EXCEPT !.saved = c]
Fault == faults < MaxFaults /\ faults' = faults + 1

\* The backends in the order of their names.
FirstOf(S) == IF "cgroup" \in S THEN "cgroup" ELSE "quota"

Alive == worker \in {"pending", "ready", "running"}
Populated == inLeaf /\ (Alive \/ kids)

\* The broker gives up a worker that it has not released.
DropPending == worker' = IF worker \in {"pending", "ready"} THEN "gone" ELSE worker

------------------------------------------------------------------------------
(* prepare_resources *)

Admit ==
    /\ pc = "idle" /\ row.status = "queued"
    /\ row' = [row EXCEPT !.status = "running"]
    /\ pc' = "probe"
    /\ copy' = row.saved
    /\ UNCHANGED <<fixed, ret, verdict, launch, alloc, process, faults>>

Probe ==
    LET lacking == {n \in Names : mode[n] # "off"} \ able IN
    /\ pc = "probe"
    /\ IF row.cancel
       THEN verdict' = "cancelled" /\ pc' = "verdict" /\ UNCHANGED copy
       ELSE /\ copy' = NoteMissed(copy, lacking, "probe")
            /\ pc' = IF RefusedBy(lacking) THEN "prepared" ELSE "prepare_cgroup"
            /\ UNCHANGED verdict
    /\ UNCHANGED <<fixed, row, ret, launch, alloc, process, faults>>

Prepare(b) ==
    /\ pc = IF b = "cgroup" THEN "prepare_cgroup" ELSE "prepare_quota"
    /\ pc' = IF b = "cgroup" THEN "prepare_quota" ELSE "prepared"
    /\ IF Eligible(b) = {}
       THEN UNCHANGED <<copy, alloc, faults>>
       ELSE \/ /\ alloc' = alloc \cup {b}
               /\ copy' = Note([copy EXCEPT !.state[b].held = TRUE], Eligible(b), "prepare", "recorded")
               /\ UNCHANGED faults
            \/ /\ Fault
               /\ copy' = NoteMissed(copy, Eligible(b), "prepare")
               /\ UNCHANGED alloc
    /\ UNCHANGED <<fixed, row, ret, verdict, launch, process>>

Prepared ==
    /\ pc = "prepared"
    /\ IF \E n \in Names, stage \in Stages : <<n, stage, "failed">> \in copy.events
       THEN pc' = "cleanup" /\ verdict' = "enforcement" /\ ret' = [ret EXCEPT !.clean = "verdict"] /\ UNCHANGED row
       ELSE Save(copy) /\ pc' = "setup_tmpfs" /\ UNCHANGED <<verdict, ret>>
    /\ UNCHANGED <<fixed, copy, launch, alloc, process, faults>>

------------------------------------------------------------------------------
(* prepare_worker_setup *)

\* What is prepared is finished and cleaned up before the run is refused.
Abandon(v) == pc' = "finish" /\ verdict' = v /\ ret' = [ret EXCEPT !.clean = "verdict"]

SetupTmpfs ==
    LET cgroup == copy.state["cgroup"].held
        tmpfs == cgroup /\ "tmp" \in Covered("cgroup") IN
    /\ pc = "setup_tmpfs"
    /\ isolate' = cgroup
    /\ \/ /\ setup' = IF tmpfs THEN "tmp" ELSE None
          /\ pc' = "setup_quota"
          /\ UNCHANGED <<row, copy, verdict, ret, faults>>
       \/ /\ tmpfs /\ Fault
          /\ copy' = NoteMissed(copy, {"tmp"}, "attach")
          /\ Save(copy')
          /\ setup' = None
          /\ IF Required("tmp") THEN Abandon("enforcement")
                                ELSE pc' = "setup_quota" /\ UNCHANGED <<verdict, ret>>
    /\ UNCHANGED <<fixed, alloc, process>>

\* scratch_path fails: the quota is cleaned up alone, and the run goes on
\* without it if it may and if the cleanup succeeded.
SetupQuota ==
    LET quota == copy.state["quota"].held
        noted == NoteMissed([copy EXCEPT !.state["quota"] = Free], {"disk"}, "attach") IN
    /\ pc = "setup_quota"
    /\ \/ /\ setup' = IF quota THEN "disk" ELSE setup
          /\ pc' = "spawn"
          /\ UNCHANGED <<row, copy, verdict, ret, alloc, faults>>
       \/ /\ quota /\ Fault
          /\ \E cleaned \in BOOLEAN :
                /\ alloc' = IF cleaned THEN alloc \ {"quota"} ELSE alloc
                /\ copy' = Note(noted, {"disk"}, "cleanup", IF cleaned THEN "recorded" ELSE "failed")
                /\ IF Required("disk") \/ ~cleaned THEN Abandon("enforcement")
                                                   ELSE pc' = "spawn" /\ UNCHANGED <<verdict, ret>>
          /\ Save(copy')
          /\ UNCHANGED setup
    /\ UNCHANGED <<fixed, isolate, process>>

------------------------------------------------------------------------------
(* The worker: spawned, attached, set up, released *)

Spawn ==
    /\ pc = "spawn"
    /\ \/ /\ worker' = "pending" /\ child' = TRUE /\ pc' = "identify"
          /\ UNCHANGED <<verdict, ret, faults>>
       \/ /\ Fault /\ Abandon("start") /\ UNCHANGED <<worker, child>>
    /\ UNCHANGED <<fixed, row, copy, launch, alloc, exit, code, scratch, kids, inLeaf, killed, oom>>

Identify ==
    /\ pc = "identify"
    /\ row' = [row EXCEPT !.known = TRUE]
    /\ pc' = "attach"
    /\ UNCHANGED <<fixed, copy, ret, verdict, launch, alloc, process, faults>>

\* The tmpfs and the quota are applied by the worker's setup, not here.
Attached(c) ==
    [Note(c, Covered("cgroup") \ {"tmp"}, "attach", "applied") EXCEPT
        !.applied = @ \cup (Covered("cgroup") \ {"tmp"})]

\* attach_resources.  The kernel may have taken the process when attach fails.
Attach ==
    /\ pc = "attach"
    /\ \/ /\ ~copy.state["cgroup"].held
          /\ Save(copy)
          /\ pc' = "verify"
          /\ UNCHANGED <<copy, inLeaf, verdict, ret, faults>>
       \/ /\ copy.state["cgroup"].held
          /\ inLeaf' = TRUE
          /\ copy' = Attached(copy)
          /\ Save(copy')
          /\ pc' = "verify"
          /\ UNCHANGED <<verdict, ret, faults>>
       \/ /\ copy.state["cgroup"].held /\ Fault
          /\ inLeaf' \in BOOLEAN
          /\ copy' = NoteMissed(copy, Covered("cgroup"), "attach")
          /\ pc' = "cancel"
          /\ ret' = [cancel |-> "cleanup", clean |-> IF RefusedBy(Covered("cgroup")) THEN "verdict" ELSE "verify"]
          /\ verdict' = IF RefusedBy(Covered("cgroup")) THEN "enforcement" ELSE None
          /\ UNCHANGED row
    /\ UNCHANGED <<fixed, launch, alloc, worker, child, exit, code, scratch, kids, killed, oom>>

\* The worker's own setup and its report.  A worker that was killed reports nothing.
VerifySetup ==
    /\ pc = "verify"
    /\ \/ /\ worker = "pending" /\ code' = "ok" /\ UNCHANGED faults
       \/ /\ worker = "pending" /\ Fault
          /\ \/ isolate /\ code' = "namespace"
             \/ setup = "tmp" /\ code' = "mount"
             \/ code' = "error"
       \/ worker = "gone" /\ code' = "error" /\ UNCHANGED faults
    /\ worker' = IF worker = "pending" THEN "ready" ELSE worker
    /\ pc' = "record"
    /\ UNCHANGED <<fixed, row, copy, ret, verdict, launch, alloc, child, exit, scratch, kids, inLeaf, killed, oom>>

\* The worker is stopped through its resources and then dropped.
StopStart(v) ==
    /\ pc' = "cancel"
    /\ ret' = [cancel |-> "finish", clean |-> "verdict"]
    /\ verdict' = v

\* The broker ends with an error; the worker it holds dies with it.
OwnerFails ==
    /\ pc' = "failed"
    /\ DropPending
    /\ child' = FALSE
    /\ UNCHANGED <<row, copy, ret, verdict>>

\* record_worker_setup_failure
Affected == IF ~copy.state["cgroup"].held THEN {}
            ELSE IF code = "namespace" THEN Covered("cgroup") ELSE Covered("cgroup") \cap {"tmp"}
QuotaAffected == IF copy.state["quota"].held THEN {"disk"} ELSE {}

\* Mutant: only a failed isolation refuses the run.
SetupRefusedNamespace == code = "namespace" /\ Affected # {}

SetupRefused ==
    \/ code = "namespace" /\ Affected # {}
    \/ RefusedBy(Affected)
    \/ QuotaAffected # {}

SetupFailed ==
    NoteMissed([copy EXCEPT !.applied = @ \ (QuotaAffected \cup IF code = "namespace" THEN Affected ELSE {})],
               Affected \cup QuotaAffected, "attach")

RecordSetupFailure ==
    /\ pc = "record" /\ code \in {"namespace", "mount"}
    /\ \/ /\ Affected \cup QuotaAffected = {}
          /\ OwnerFails                                   \* unrelated setup refusal
       \/ /\ Affected \cup QuotaAffected # {}
          /\ copy' = SetupFailed
          /\ Save(copy')
          /\ IF SetupRefused THEN StopStart("enforcement") ELSE pc' = "release" /\ UNCHANGED <<ret, verdict>>
          /\ UNCHANGED <<worker, child>>
    /\ UNCHANGED <<fixed, launch, alloc, exit, code, scratch, kids, inLeaf, killed, oom, faults>>

\* The handshake fails, or the worker could not drop its privileges.
RecordSetupError ==
    /\ pc = "record" /\ code = "error"
    /\ IF QuotaAffected # {}
       THEN copy' = SetupFailed /\ Save(copy') /\ StopStart("enforcement")
       ELSE StopStart("handshake") /\ UNCHANGED <<copy, row>>
    /\ UNCHANGED <<fixed, launch, alloc, process, faults>>

\* record_worker_setup
RecordSetup ==
    LET got == IF setup = None THEN {} ELSE {setup} IN
    /\ pc = "record" /\ code = "ok"
    /\ \/ /\ \A n \in got : copy.state[BackendOf[n]].held
          /\ copy' = [Note(copy, got, "attach", "applied") EXCEPT !.applied = @ \cup got]
          /\ Save(copy')
          /\ pc' = "release"
          /\ UNCHANGED <<ret, verdict, worker, child>>
       \/ /\ \E n \in got : ~copy.state[BackendOf[n]].held
          /\ OwnerFails                                   \* lost its state
    /\ UNCHANGED <<fixed, launch, alloc, exit, code, scratch, kids, inLeaf, killed, oom, faults>>

Release ==
    /\ pc = "release"
    /\ \/ /\ row.cancel
          /\ StopStart("cancelled")
          /\ UNCHANGED <<worker, scratch, faults>>
       \/ /\ ~row.cancel /\ worker = "ready"
          /\ worker' = "running"
          /\ scratch' = IF code = "ok" THEN setup ELSE None
          /\ pc' = "idle"
          /\ UNCHANGED <<ret, verdict, faults>>
       \/ /\ ~row.cancel                                  \* the worker died
          /\ IF worker = "ready" THEN Fault ELSE UNCHANGED faults
          /\ worker' = "gone"
          /\ StopStart("handshake")
          /\ UNCHANGED scratch
    /\ UNCHANGED <<fixed, row, copy, launch, alloc, child, exit, code, kids, inLeaf, killed, oom>>

------------------------------------------------------------------------------
(* The run *)

\* A client's request to stop the run.
Cancel ==
    /\ row.status = "running" /\ ~row.cancel
    /\ row' = [row EXCEPT !.cancel = TRUE]
    /\ UNCHANGED <<fixed, copy, broker, launch, alloc, process, faults>>

WorkerEnds ==
    /\ worker = "running"
    /\ worker' = "gone"
    /\ exit' \in {"ok", "red"}
    /\ kids' \in BOOLEAN
    /\ UNCHANGED <<fixed, row, copy, broker, launch, alloc, child, code, scratch, inLeaf, killed, oom, faults>>

MemoryExhausted ==
    /\ worker = "running" /\ inLeaf /\ "memory" \in Covered("cgroup") /\ ~oom
    /\ oom' = TRUE
    /\ UNCHANGED <<fixed, row, copy, broker, launch, alloc, worker, child, exit, code, scratch, kids, inLeaf,
                   killed, faults>>

KidsEnd ==
    /\ kids
    /\ kids' = FALSE
    /\ UNCHANGED <<fixed, row, copy, broker, launch, alloc, worker, child, exit, code, scratch, inLeaf,
                   killed, oom, faults>>

\* Processes that were killed through their leaf are gone at last.
Reaped ==
    /\ killed /\ Populated
    /\ worker' = "gone" /\ kids' = FALSE
    /\ exit' = IF exit = None THEN "red" ELSE exit
    /\ UNCHANGED <<fixed, row, copy, broker, launch, alloc, child, code, scratch, inLeaf, killed, oom, faults>>

------------------------------------------------------------------------------
(* observe *)

Observing == pc = "idle" /\ row.status = "running"

\* merge_measurement: what is measured counts for the applied bindings only.
Measured(c) == IF oom /\ "memory" \in c.applied THEN Note(c, {"memory"}, "usage", "oom") ELSE c

CaptureUsage ==
    /\ Observing
    /\ "cgroup" \in Holding(row.saved) /\ ~row.saved.state["cgroup"].finished
    /\ Measured(row.saved) # row.saved
    /\ Save(Measured(row.saved))
    /\ UNCHANGED <<fixed, copy, broker, launch, alloc, process, faults>>

\* Mutant: only the broker's own children are stopped.
ObserveCancelChild ==
    /\ Observing
    /\ worker = "running" /\ row.cancel /\ child
    /\ \E b \in Holding(row.saved) : ~row.saved.state[b].cancelled
    /\ copy' = row.saved
    /\ pc' = "cancel"
    /\ ret' = [ret EXCEPT !.cancel = "idle"]
    /\ UNCHANGED <<fixed, row, verdict, launch, alloc, process, faults>>

ObserveCancel ==
    /\ Observing
    /\ worker = "running" /\ row.cancel
    /\ \E b \in Holding(row.saved) : ~row.saved.state[b].cancelled
    /\ copy' = row.saved
    /\ pc' = "cancel"
    /\ ret' = [ret EXCEPT !.cancel = "idle"]
    /\ UNCHANGED <<fixed, row, verdict, launch, alloc, process, faults>>

\* Without a leaf the process group is signalled until it is gone: to stop the
\* run, or to drain what its worker left behind.
SignalGroup ==
    /\ Observing
    /\ "cgroup" \notin Holding(row.saved)
    /\ (worker = "running" /\ row.cancel) \/ (~Alive /\ kids)
    /\ worker' = "gone" /\ kids' = FALSE
    /\ exit' = IF exit = None THEN "red" ELSE exit
    /\ UNCHANGED <<fixed, row, copy, broker, launch, alloc, child, code, scratch, inLeaf, killed, oom, faults>>

\* Mutant: the leader's end is the run's end.
ObserveEndEarly ==
    /\ Observing
    /\ ~Alive
    /\ copy' = row.saved
    /\ ret' = [ret EXCEPT !.clean = "verdict"]
    /\ pc' = IF Holding(row.saved) = {} THEN "verdict" ELSE "finish"
    /\ UNCHANGED <<fixed, row, verdict, launch, alloc, process, faults>>

ObserveEnd ==
    /\ Observing
    /\ ~Alive
    /\ "cgroup" \in Holding(row.saved) \/ ~kids
    /\ copy' = row.saved
    /\ ret' = [ret EXCEPT !.clean = "verdict"]
    /\ pc' = IF Holding(row.saved) = {} THEN "verdict" ELSE "finish"
    /\ UNCHANGED <<fixed, row, verdict, launch, alloc, process, faults>>

------------------------------------------------------------------------------
(* cancel_resources, finish_and_cleanup_resources, cleanup_resource_records *)

Empty ==
    /\ worker' = IF inLeaf /\ Alive THEN "gone" ELSE worker
    /\ kids' = (kids /\ ~inLeaf)
    /\ exit' = IF inLeaf /\ Alive THEN "red" ELSE exit

\* kill_and_wait and its failures: the kill is refused, or its victims linger.
KillLeaf(b, c, stage) ==
    \/ /\ Empty
       /\ copy' = Note(c, Covered(b), stage, "recorded")
       /\ UNCHANGED <<killed, faults>>
    \/ /\ Fault
       /\ killed' \in {killed, TRUE}
       /\ copy' = Note(c, Covered(b), stage, "failed")
       /\ UNCHANGED <<worker, kids, exit>>

CancelBackend ==
    LET todo == {b \in Holding(copy) : ~copy.state[b].cancelled}
        b == FirstOf(todo) IN
    /\ pc = "cancel" /\ todo # {}
    /\ IF b = "cgroup"
       THEN KillLeaf(b, [copy EXCEPT !.state[b].cancelled = TRUE], "cancel")
       ELSE /\ copy' = Note([copy EXCEPT !.state[b].cancelled = TRUE], Covered(b), "cancel", "recorded")
            /\ UNCHANGED <<worker, kids, exit, killed, faults>>
    /\ UNCHANGED <<fixed, row, broker, launch, alloc, child, code, scratch, inLeaf, oom>>

CancelDone ==
    /\ pc = "cancel" /\ \A b \in Holding(copy) : copy.state[b].cancelled
    /\ Save(copy)
    /\ pc' = ret.cancel
    /\ IF ret.cancel = "finish" THEN DropPending ELSE UNCHANGED worker
    /\ UNCHANGED <<fixed, copy, ret, verdict, launch, alloc, child, exit, code, scratch, kids, inLeaf, killed,
                   oom, faults>>

FinishBackend ==
    LET todo == {b \in Holding(copy) : ~copy.state[b].finished}
        b == FirstOf(todo)
        done == [copy EXCEPT !.state[b].finished = TRUE] IN
    /\ pc = "finish" /\ todo # {}
    /\ IF b = "cgroup"
       THEN \/ /\ Empty
               /\ copy' = Note(Measured(done), Covered(b), "finish", "recorded")
               /\ UNCHANGED <<killed, faults>>
            \/ /\ Fault
               /\ killed' \in {killed, TRUE}
               /\ copy' = Note(done, Covered(b), "finish", "failed")
               /\ UNCHANGED <<worker, kids, exit>>
       ELSE /\ copy' = Note(done, Covered(b), "finish", "recorded")
            /\ UNCHANGED <<worker, kids, exit, killed, faults>>
    /\ UNCHANGED <<fixed, row, broker, launch, alloc, child, code, scratch, inLeaf, oom>>

FinishDone ==
    /\ pc = "finish" /\ \A b \in Holding(copy) : copy.state[b].finished
    /\ Save(copy)
    /\ pc' = "cleanup"
    /\ UNCHANGED <<fixed, copy, ret, verdict, launch, alloc, process, faults>>

\* The cgroup's cleanup needs its manifest and an empty leaf; the quota's has
\* nothing to do where nothing is left.
CleanupPossible(b) == b = "cgroup" => b \in alloc /\ ~Populated

CleanupBackend ==
    LET b == FirstOf(Holding(copy)) IN
    /\ pc = "cleanup" /\ Holding(copy) # {}
    /\ \/ /\ CleanupPossible(b)
          /\ alloc' = alloc \ {b}
          /\ copy' = Note([copy EXCEPT !.state[b] = Free], Covered(b), "cleanup", "recorded")
          /\ UNCHANGED faults
       \/ /\ IF CleanupPossible(b) THEN Fault ELSE UNCHANGED faults
          /\ copy' = Note([copy EXCEPT !.state[b] = Free], Covered(b), "cleanup", "failed")
          /\ UNCHANGED alloc
    /\ UNCHANGED <<fixed, row, broker, launch, process>>

CleanupDone ==
    /\ pc = "cleanup" /\ Holding(copy) = {}
    /\ Save(copy)
    /\ pc' = ret.clean
    /\ UNCHANGED <<fixed, copy, ret, verdict, launch, alloc, process, faults>>

\* What observe makes of the reloaded row.
Observed ==
    IF row.cancel THEN "cancelled"
    ELSE IF ~child THEN "interrupted"
    ELSE IF exit = "ok" THEN "passed"
    ELSE IF <<"memory", "usage", "oom">> \in row.saved.events THEN "memory-oom" ELSE "failed"

\* finish_run
EndRun ==
    /\ pc = "verdict"
    /\ row' = [row EXCEPT !.status = IF verdict = None THEN Observed ELSE verdict]
    /\ pc' = "idle"
    /\ DropPending
    /\ UNCHANGED <<fixed, copy, ret, verdict, launch, alloc, child, exit, code, scratch, kids, inLeaf, killed,
                   oom, faults>>

------------------------------------------------------------------------------
(* Crash and recovery *)

Crash ==
    /\ pc \notin {"down", "failed"} /\ row.status = "running"
    /\ Fault
    /\ pc' = "down"
    /\ DropPending
    /\ child' = FALSE
    /\ UNCHANGED <<fixed, row, copy, ret, verdict, launch, alloc, exit, code, scratch, kids, inLeaf, killed, oom>>

\* validate_recovery: the cgroup backend wants the manifest of a stored handle;
\* the quota backend accepts that everything is gone.
CanStart == "cgroup" \in Holding(row.saved) => "cgroup" \in alloc

Boot ==
    /\ pc \in {"down", "failed"}
    /\ CanStart
    /\ pc' = "idle"
    /\ verdict' = None
    /\ copy' = Blank
    /\ ret' = [cancel |-> None, clean |-> None]
    /\ UNCHANGED <<fixed, row, launch, alloc, process, faults>>

------------------------------------------------------------------------------

Start ==
    \/ Admit \/ Probe \/ Prepare("cgroup") \/ Prepare("quota") \/ Prepared \/ SetupTmpfs \/ SetupQuota \/ Spawn
    \/ Identify \/ Attach \/ VerifySetup \/ RecordSetupFailure \/ RecordSetupError \/ RecordSetup \/ Release

Observe ==
    \/ CaptureUsage \/ ObserveCancel \/ SignalGroup \/ ObserveEnd \/ CancelBackend \/ CancelDone
    \/ FinishBackend \/ FinishDone \/ CleanupBackend \/ CleanupDone \/ EndRun

Next ==
    \/ Start \/ Observe \/ Boot \/ Crash
    \/ Cancel \/ WorkerEnds \/ MemoryExhausted \/ KidsEnd \/ Reaped

Spec == Init /\ [][Next]_vars

\* A broker keeps going and is replaced; SIGKILL takes effect.  Neither the
\* command nor its descendants need to end by themselves.
Fairness == WF_vars(Start \/ Observe) /\ WF_vars(Boot) /\ WF_vars(Reaped)

FairSpec == Spec /\ Fairness

------------------------------------------------------------------------------
(* Properties *)

Ended == row.status \notin {"queued", "running"}
Told(n, stage, status) == <<n, stage, status>> \in row.saved.events

\* No command runs without what its contract requires: each required binding is
\* in the saved receipt's applied set when the worker is released.
RequiredIsApplied ==
    worker = "running" => \A n \in Names : Required(n) => n \in row.saved.applied

\* What the receipt calls applied is in force while the command runs: it is in
\* its leaf, its tmpfs is mounted, its allocation exists.
AppliedIsInForce ==
    worker = "running" => \A n \in row.saved.applied :
        /\ BackendOf[n] \in alloc
        /\ BackendOf[n] = "cgroup" => inLeaf
        /\ n = "tmp" => code = "ok" /\ scratch = "tmp"

\* A command is never given the path of scratch that was taken down, whichever
\* backend failed on the way to its release.
ScratchExists ==
    worker = "running" /\ scratch # None => BackendOf[scratch] \in alloc

\* An allocation that outlives its run is named in the receipt as a failed
\* cleanup, unless the broker died before it could save that it was prepared:
\* that is before it has a worker.
LeftoversAreNamed ==
    Ended => \A b \in alloc : \A n \in Covered(b) :
        \/ Told(n, "cleanup", "failed")
        \/ worker = "none" /\ ~Told(n, "prepare", "recorded")

\* A run ends after its processes, except where the receipt says that ending
\* them failed.
EndedIsEmpty ==
    Ended /\ (Alive \/ kids) => \E n \in Covered("cgroup") : Told(n, "finish", "failed") \/ Told(n, "cancel", "failed")

\* The verdict blames memory if and only if the enforced limit was hit and the
\* leaf could be read.
OomIsNamed ==
    /\ row.status = "memory-oom" => oom /\ "memory" \in row.saved.applied
    /\ row.status = "failed" /\ oom /\ "memory" \in row.saved.applied => Told("memory", "finish", "failed")

\* The receipt can be believed: what it calls applied is, what is required is
\* applied, and it names the limit that ended the command.
ReceiptIsTrue == TypeOK /\ RequiredIsApplied /\ AppliedIsInForce /\ ScratchExists /\ OomIsNamed

\* What outlives a run is on record.
EndIsClean == LeftoversAreNamed /\ EndedIsEmpty

\* A stop request ends the run whatever its command does and whoever owns it,
\* unless the receipt says that it could not be delivered or no broker can start.
CancelTakesEffect ==
    row.status = "running" /\ row.cancel ~>
        Ended \/ ~CanStart \/ \E n \in Names : Told(n, "cancel", "failed")
=============================================================================
