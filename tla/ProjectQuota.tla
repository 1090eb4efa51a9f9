----------------------------- MODULE ProjectQuota -----------------------------
(***************************************************************************)
(* Project-quota scratch: coordinators (spools) that share one mount, each *)
(* with a broker that prepares, hands out, cleans up and recovers the      *)
(* allocations of its runs.  The quota records of the mount are shared;    *)
(* manifests and rows are private to a spool.                              *)
(*                                                                         *)
(* Every durable effect is a step of its own and a broker may die after    *)
(* any of them.  Faults: broker crashes, operations that fail, limits that *)
(* the kernel accepts and does not install, processes that keep the files  *)
(* of a removed tree open.  A tree that somebody else replaces and a mount *)
(* that changes are not modelled.                                          *)
(*                                                                         *)
(* A run is prepared once, when it leaves the queue, so that prepare never *)
(* meets a manifest of its own run; a row that is left without its handle  *)
(* is only ever interrupted.                                               *)
(***************************************************************************)
EXTENDS Naturals

CONSTANTS
    Spools,     \* coordinators on the mount
    Runs,       \* runs that request persistent scratch
    SpoolOf,    \* the coordinator of a run
    Projects,   \* the project IDs that random_project_id may return
    Hard,       \* the hard limits that a run requests
    MaxFaults   \* bound on crashes and failing operations

None == "none"
Plain == "plain"

ASSUME QuotaConstantsOK ==
    /\ SpoolOf \in [Runs -> Spools]
    /\ Projects \cap {None, Plain} = {}
    /\ Hard \in [Runs -> Nat \ {0}]
    /\ MaxFaults \in Nat
    /\ None \notin Spools \cup Runs

VARIABLES
    row,        \* status and saved handle of each run
    manifest,   \* the private manifest of each run
    tree,       \* the project of each run's tree; Plain before it has one, None if there is no tree
    open,       \* the project that removed files of the run are still charged to, or None
    limits,     \* the hard limits of each project; 0 for none
    lock,       \* who holds the mount-wide lock
    pc,         \* what each broker does; "down" when the spool has none
    live,       \* the runs whose worker is alive
    faults

vars == <<row, manifest, tree, open, limits, lock, pc, live, faults>>
disk == <<manifest, tree, open, limits>>

Phases == {"allocating", "allocated", "ready", "cleaning"}
Manifest == [phase : Phases, project : Projects, known : BOOLEAN]   \* known: path_device and path_inode are set
NoManifest == [phase |-> None, project |-> None, known |-> FALSE]

\* The fields of a handle that can differ between two handles of a run.
Handle(m) == m.project

Preparing == {"lock", "allocate", "create", "identify", "limit", "assign", "verify", "save", "expose"}
RollingBack == {"undo_tree", "undo_limit", "undo_manifest", "fail"}
Cleaning == {"enter", "mark", "remove", "wait", "clear", "unlist", "drop", "end"}

TypeOK ==
    /\ row \in [Runs -> [status : {"queued", "running", "ended"}, handle : Projects \cup {None}]]
    /\ manifest \in [Runs -> Manifest \cup {NoManifest}]
    /\ tree \in [Runs -> Projects \cup {Plain, None}]
    /\ open \in [Runs -> Projects \cup {None}]
    /\ limits \in [Projects -> Nat]
    /\ lock \in Spools \cup {None}
    /\ pc \in [Spools -> [at : {"down", "idle"} \cup Preparing \cup RollingBack \cup Cleaning,
                          run : Runs \cup {None}]]
    /\ live \subseteq Runs
    /\ faults \in 0 .. MaxFaults

Idle == [at |-> "idle", run |-> None]
Down == [at |-> "down", run |-> None]

Init ==
    /\ row = [r \in Runs |-> [status |-> "queued", handle |-> None]]
    /\ manifest = [r \in Runs |-> NoManifest]
    /\ tree = [r \in Runs |-> None]
    /\ open = [r \in Runs |-> None]
    /\ limits = [p \in Projects |-> 0]
    /\ lock = None
    /\ pc = [s \in Spools |-> Idle]
    /\ live = {}
    /\ faults = 0

------------------------------------------------------------------------------
(* The quota records of the kernel *)

ChargedTo(r) == {tree[r], open[r]} \ {Plain, None}
Used(p) == \E r \in Runs : p \in ChargedTo(r)
Unlimited(p) == limits[p] = 0
SetQuota(p, h) == limits' = [limits EXCEPT ![p] = h]
SetAttributes(r, p) == tree' = [tree EXCEPT ![r] = p]

\* The tree is charged to its project and the project has the limits of the run.
Enforced(r, p) == tree[r] = p /\ limits[p] = Hard[r]

------------------------------------------------------------------------------
(* Where a broker is in an operation *)

At(s, r, step) == pc[s] = [at |-> step, run |-> r] /\ SpoolOf[r] = s
Goto(s, step) == pc' = [pc EXCEPT ![s].at = step]
Return(s) == pc' = [pc EXCEPT ![s] = Idle]
Unlock == lock' = None
Fault == faults < MaxFaults /\ faults' = faults + 1

Lock(s, r, from, to) ==
    /\ At(s, r, from)
    /\ lock = None
    /\ lock' = s
    /\ Goto(s, to)
    /\ UNCHANGED <<row, disk, live, faults>>

Listed(r) == manifest[r] # NoManifest
Write(r, m) == manifest' = [manifest EXCEPT ![r] = m]
Unlist(r) == manifest' = [manifest EXCEPT ![r] = NoManifest]

------------------------------------------------------------------------------
(* prepare *)

\* The admission commit.
Admit(s, r) ==
    /\ pc[s] = Idle
    /\ SpoolOf[r] = s
    /\ row[r].status = "queued"
    /\ row' = [row EXCEPT ![r].status = "running"]
    /\ pc' = [pc EXCEPT ![s] = [at |-> "lock", run |-> r]]
    /\ UNCHANGED <<disk, lock, live, faults>>

PrepareLock(s, r) == Lock(s, r, "lock", "allocate")

\* The identities that the spool's own manifests name.
Occupied(s) == {manifest[q].project : q \in {q \in Runs : SpoolOf[q] = s /\ Listed(q)}}
Available(s) == {p \in Projects \ Occupied(s) : Unlimited(p) /\ ~Used(p)}

\* Mutant: the quota record of the candidate is not looked at.
AvailableUnseen(s) == Projects \ Occupied(s)

AllocateFrom(s, r, candidates) ==
    /\ At(s, r, "allocate")
    /\ \/ \E p \in candidates :
             /\ Write(r, [phase |-> "allocating", project |-> p, known |-> FALSE])
             /\ Goto(s, "create")
             /\ UNCHANGED lock
       \/ /\ candidates = {}             \* quota-project-id-exhausted
          /\ Goto(s, "fail")
          /\ Unlock
          /\ UNCHANGED manifest
    /\ UNCHANGED <<row, tree, open, limits, live, faults>>

AllocateProjectUnseen(s, r) == AllocateFrom(s, r, AvailableUnseen(s))
AllocateProject(s, r) == AllocateFrom(s, r, Available(s))

CreateTree(s, r) ==
    /\ At(s, r, "create")
    /\ SetAttributes(r, Plain)
    /\ Goto(s, "identify")
    /\ UNCHANGED <<row, manifest, open, limits, lock, live, faults>>

RecordTree(s, r) ==
    /\ At(s, r, "identify")
    /\ Write(r, [manifest[r] EXCEPT !.phase = "allocated", !.known = TRUE])
    /\ Goto(s, "limit")
    /\ UNCHANGED <<row, tree, open, limits, lock, live, faults>>

\* set_quota does not read back: the limits may not be in force afterwards.
InstallLimits(s, r) ==
    LET p == manifest[r].project
        fresh == Unlimited(p) /\ ~Used(p) IN
    /\ At(s, r, "limit")
    /\ \/ limits' = (IF fresh THEN [limits EXCEPT ![p] = Hard[r]] ELSE limits) /\ UNCHANGED faults
       \/ Fault /\ UNCHANGED limits
    /\ Goto(s, IF fresh \/ limits[p] = Hard[r] THEN "assign" ELSE "undo_tree")    \* quota-project-collision
    /\ UNCHANGED <<row, manifest, tree, open, lock, live>>

AssignTree(s, r) ==
    /\ At(s, r, "assign")
    /\ SetAttributes(r, manifest[r].project)
    /\ Goto(s, "verify")
    /\ UNCHANGED <<row, manifest, open, limits, lock, live, faults>>

Ready(s, r) ==
    /\ At(s, r, "verify")
    /\ \/ /\ Enforced(r, manifest[r].project)
          /\ Write(r, [manifest[r] EXCEPT !.phase = "ready"])
          /\ Unlock
          /\ Goto(s, "save")
       \/ /\ ~Enforced(r, manifest[r].project)     \* quota-enforcement-unverified
          /\ Goto(s, "undo_tree")
          /\ UNCHANGED <<manifest, lock>>
    /\ UNCHANGED <<row, tree, open, limits, live, faults>>

\* An operation of the mount or the file system fails and prepare rolls back.
PrepareFails(s, r) ==
    /\ \E step \in {"create", "identify", "limit", "assign", "verify"} : At(s, r, step)
    /\ Fault
    /\ Goto(s, "undo_tree")
    /\ UNCHANGED <<row, disk, lock, live>>

------------------------------------------------------------------------------
(* rollback of the manifest that prepare wrote *)

RollbackTree(s, r) ==
    /\ At(s, r, "undo_tree")
    /\ SetAttributes(r, None)
    /\ Goto(s, "undo_limit")
    /\ UNCHANGED <<row, manifest, open, limits, lock, live, faults>>

RollbackLimits(s, r) ==
    LET p == manifest[r].project IN
    /\ At(s, r, "undo_limit")
    /\ IF ~Used(p) /\ limits[p] \in {0, Hard[r]}
       THEN SetQuota(p, 0) /\ Goto(s, "undo_manifest") /\ UNCHANGED lock
       ELSE Unlock /\ Goto(s, "fail") /\ UNCHANGED limits     \* quota-rollback-refused
    /\ UNCHANGED <<row, manifest, tree, open, live, faults>>

RollbackManifest(s, r) ==
    /\ At(s, r, "undo_manifest")
    /\ Unlist(r)
    /\ Unlock
    /\ Goto(s, "fail")
    /\ UNCHANGED <<row, tree, open, limits, live, faults>>

\* The write of the manifest fails, or a step of the rollback: what is there stays.
PrepareGivesUp(s, r) ==
    /\ \E step \in {"allocate", "undo_tree", "undo_limit", "undo_manifest"} : At(s, r, step)
    /\ Fault
    /\ Unlock
    /\ Goto(s, "fail")
    /\ UNCHANGED <<row, disk, live>>

\* A required allocation is missing: the run ends before its command starts.
FailRun(s, r) ==
    /\ At(s, r, "fail")
    /\ row' = [row EXCEPT ![r].status = "ended"]
    /\ Return(s)
    /\ UNCHANGED <<disk, lock, live, faults>>

------------------------------------------------------------------------------
(* The run uses its scratch *)

SaveHandle(s, r) ==
    /\ At(s, r, "save")
    /\ row' = [row EXCEPT ![r].handle = Handle(manifest[r])]
    /\ Goto(s, "expose")
    /\ UNCHANGED <<disk, lock, live, faults>>

\* resolve: the manifest is the one the handle names.
Resolves(r) == Listed(r) /\ Handle(manifest[r]) = row[r].handle

\* scratch_path, and the worker that gets the path.
Usable(r) == Resolves(r) /\ manifest[r].phase = "ready" /\ Enforced(r, row[r].handle)
Expose(s, r) ==
    /\ At(s, r, "expose")
    /\ \/ /\ IF Usable(r) THEN live' = live \cup {r} /\ Return(s)
                         ELSE Goto(s, "enter") /\ UNCHANGED live
          /\ UNCHANGED faults
       \/ Fault /\ Goto(s, "enter") /\ UNCHANGED live       \* the worker cannot be started
    /\ UNCHANGED <<row, disk, lock>>

\* The worker and its process group are gone.
WorkerEnds(r) ==
    /\ r \in live
    /\ live' = live \ {r}
    /\ UNCHANGED <<row, disk, lock, pc, faults>>

------------------------------------------------------------------------------
(* cleanup, after the worker *)

Finish(s, r) ==
    /\ pc[s] = Idle
    /\ SpoolOf[r] = s
    /\ row[r].status = "running" /\ row[r].handle # None
    /\ r \notin live
    /\ pc' = [pc EXCEPT ![s] = [at |-> "enter", run |-> r]]
    /\ UNCHANGED <<row, disk, lock, live, faults>>

CleanupLock(s, r) == Lock(s, r, "enter", "mark")

\* cleanup gives up: the error goes to the receipt and the handle is dropped.
GiveUp(s) == Unlock /\ Goto(s, "drop")

MarkCleaning(s, r) ==
    /\ At(s, r, "mark")
    /\ \/ /\ Resolves(r)
          /\ Write(r, [manifest[r] EXCEPT !.phase = "cleaning"])
          /\ Goto(s, "remove")
       \/ /\ ~Listed(r) /\ tree[r] = None
          /\ Goto(s, "wait")
          /\ UNCHANGED manifest
    /\ UNCHANGED <<row, tree, open, limits, lock, live, faults>>

\* A process that left the worker's group may keep files of the tree open.
RemoveTree(s, r) ==
    /\ At(s, r, "remove")
    /\ \/ /\ Enforced(r, row[r].handle)
          /\ SetAttributes(r, None)
          /\ \/ UNCHANGED <<open, faults>>
             \/ Fault /\ open' = [open EXCEPT ![r] = row[r].handle]
          /\ Goto(s, "wait")
          /\ UNCHANGED lock
       \/ Fault /\ GiveUp(s) /\ UNCHANGED <<tree, open>>
    /\ UNCHANGED <<row, manifest, limits, live>>

\* Mutant: no deadline.
AwaitUsageForever(s, r) ==
    /\ At(s, r, "wait")
    /\ ~Used(row[r].handle)
    /\ Goto(s, "clear")
    /\ UNCHANGED <<row, disk, lock, live, faults>>

\* Mutant: the limits are cleared whatever is charged to them.
AwaitUsageNot(s, r) ==
    /\ At(s, r, "wait")
    /\ Goto(s, "clear")
    /\ UNCHANGED <<row, disk, lock, live, faults>>

AwaitUsage(s, r) ==
    /\ At(s, r, "wait")
    /\ \/ ~Used(row[r].handle) /\ Goto(s, "clear") /\ UNCHANGED lock
       \/ Used(row[r].handle) /\ GiveUp(s)          \* quota-usage-still-live
    /\ UNCHANGED <<row, disk, live, faults>>

ClearLimits(s, r) ==
    LET p == row[r].handle IN
    /\ At(s, r, "clear")
    /\ \/ limits[p] \in {0, Hard[r]} /\ SetQuota(p, 0) /\ Goto(s, "unlist") /\ UNCHANGED <<lock, faults>>
       \/ limits[p] \notin {0, Hard[r]} /\ GiveUp(s) /\ UNCHANGED <<limits, faults>>  \* quota-enforcement-changed
       \/ Fault /\ GiveUp(s) /\ UNCHANGED limits    \* the call fails, or cannot be verified
    /\ UNCHANGED <<row, manifest, tree, open, live>>

RemoveManifest(s, r) ==
    /\ At(s, r, "unlist")
    /\ Unlist(r)
    /\ Unlock
    /\ Goto(s, "drop")
    /\ UNCHANGED <<row, tree, open, limits, live, faults>>

\* cleanup_resource_records removes the backend whether or not its cleanup succeeded.
DropHandle(s, r) ==
    /\ At(s, r, "drop")
    /\ row' = [row EXCEPT ![r].handle = None]
    /\ Goto(s, "end")
    /\ UNCHANGED <<disk, lock, live, faults>>

EndRun(s, r) ==
    /\ At(s, r, "end")
    /\ row' = [row EXCEPT ![r].status = "ended"]
    /\ Return(s)
    /\ UNCHANGED <<disk, lock, live, faults>>

\* The last process that held files of a removed tree is gone.
FilesClosed(r) ==
    /\ open[r] # None
    /\ open' = [open EXCEPT ![r] = None]
    /\ UNCHANGED <<row, manifest, tree, limits, lock, pc, live, faults>>

------------------------------------------------------------------------------
(* Crash and recovery *)

Crash(s) ==
    /\ pc[s] # Down
    /\ Fault
    /\ pc' = [pc EXCEPT ![s] = Down]
    /\ lock' = IF lock = s THEN None ELSE lock
    /\ UNCHANGED <<row, disk, live>>

\* validate_recovery of a saved handle.
Recoverable(r) ==
    \/ ~Listed(r) /\ tree[r] = None
    \/ Resolves(r) /\ Enforced(r, row[r].handle)

SavedHandles(s) == {r \in Runs : SpoolOf[r] = s /\ row[r].handle # None}

CanStart(s) == \A r \in SavedHandles(s) : Recoverable(r)

\* A broker that meets a handle it cannot verify does not start.
Boot(s) ==
    /\ pc[s] = Down
    /\ CanStart(s)
    /\ pc' = [pc EXCEPT ![s] = Idle]
    /\ UNCHANGED <<row, disk, lock, live, faults>>

\* A running row without worker and without handle.
Interrupt(s, r) ==
    /\ pc[s] = Idle
    /\ SpoolOf[r] = s
    /\ row[r].status = "running" /\ row[r].handle = None
    /\ row' = [row EXCEPT ![r].status = "ended"]
    /\ UNCHANGED <<disk, lock, pc, live, faults>>

------------------------------------------------------------------------------

Prepare(s, r) ==
    \/ Admit(s, r) \/ PrepareLock(s, r) \/ AllocateProject(s, r) \/ CreateTree(s, r) \/ RecordTree(s, r)
    \/ InstallLimits(s, r) \/ AssignTree(s, r) \/ Ready(s, r) \/ SaveHandle(s, r) \/ Expose(s, r)

Rollback(s, r) ==
    RollbackTree(s, r) \/ RollbackLimits(s, r) \/ RollbackManifest(s, r) \/ FailRun(s, r)

Cleanup(s, r) ==
    \/ Finish(s, r) \/ CleanupLock(s, r) \/ MarkCleaning(s, r) \/ RemoveTree(s, r) \/ AwaitUsage(s, r)
    \/ ClearLimits(s, r) \/ RemoveManifest(s, r) \/ DropHandle(s, r) \/ EndRun(s, r) \/ Interrupt(s, r)

Broker(s) == \E r \in Runs : Prepare(s, r) \/ Rollback(s, r) \/ Cleanup(s, r)

Next ==
    \/ \E s \in Spools :
          \/ Broker(s) \/ Boot(s) \/ Crash(s)
          \/ \E r \in Runs : PrepareFails(s, r) \/ PrepareGivesUp(s, r)
    \/ \E r \in Runs : WorkerEnds(r) \/ FilesClosed(r)

Spec == Init /\ [][Next]_vars

\* Brokers keep going and are restarted, commands end, and the lock, which every
\* holder releases, is obtained in the end.  Nothing closes a leftover's files.
Fairness ==
    /\ \A s \in Spools : SF_vars(Broker(s)) /\ WF_vars(Boot(s))
    /\ WF_vars(\E r \in Runs : WorkerEnds(r))

FairSpec == Spec /\ Fairness

------------------------------------------------------------------------------
(* Properties *)

\* No two runs are charged to one project, whichever coordinators they belong
\* to and whatever earlier brokers left behind: allocate_project looks at its
\* own manifests and at the mount's quota record, under the mount's lock.
ProjectsDistinct ==
    \A r, q \in Runs : r # q => ChargedTo(r) \cap ChargedTo(q) = {}

\* A live command's scratch is charged to the project its row names and has
\* the limits it asked for: nobody's cleanup or rollback takes them away, and
\* a path whose limits were not in force was never handed out.
RunningIsLimited ==
    \A r \in live : row[r].handle # None /\ Enforced(r, row[r].handle)

\* Limits and trees have a manifest from before they exist until after they
\* are gone, so that no crash leaves an unaccounted one.
EverythingListed ==
    /\ \A p \in Projects : limits[p] # 0 => \E r \in Runs : Listed(r) /\ manifest[r].project = p
    /\ \A r \in Runs : tree[r] # None => Listed(r)

\* Types, limits and manifests together: what the mount holds is accounted for
\* in the metadata at every step, and limited while a command uses it.
Accounted == TypeOK /\ RunningIsLimited /\ EverythingListed

Settled(r) == row[r].status = "ended" \/ (pc[SpoolOf[r]] = Down /\ ~CanStart(SpoolOf[r]))

\* Every run ends, also beside leftovers that keep its usage up for ever and
\* with the lock in other hands, unless its coordinator cannot start again.
RunsEnd == <>[](\A r \in Runs : Settled(r))
=============================================================================
