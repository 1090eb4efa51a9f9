------------------------------ MODULE CgroupLeaf ------------------------------
(***************************************************************************)
(* The cgroup backend of one coordinator: the owner group under the        *)
(* delegated root, a leaf for each run below it, and the private metadata  *)
(* (owner.json and one manifest for each run) by which a later broker      *)
(* knows them again.  Runs share the owner group: the first prepare makes  *)
(* it and the last cleanup removes it.                                     *)
(*                                                                         *)
(* Every durable effect is a step of its own and the broker may die after  *)
(* any of them.  While there is no broker systemd may recreate the root,   *)
(* which takes every group and every process in it along; a process that   *)
(* has moved itself out of its leaf survives.                              *)
(*                                                                         *)
(* Group identities (device and inode) are not reused.  The controllers'   *)
(* values, the samples and the block devices of a request are left out: a  *)
(* setting that cannot be verified is a failure of Configure.  A run is    *)
(* prepared once, so prepare never meets a manifest of its own run.        *)
(***************************************************************************)
EXTENDS Naturals, FiniteSets

CONSTANTS
    Runs,       \* runs with a binding that the backend enforces
    MaxFaults,  \* bound on crashes, failing calls and escapes
    MaxRoots    \* bound on the incarnations of the delegated root

NoRun == "none"

ASSUME LeafConstantsOK ==
    MaxFaults \in Nat /\ MaxRoots \in Nat \ {0} /\ IsFiniteSet(Runs) /\ NoRun \notin Runs

VARIABLES
    root,       \* the incarnation of the delegated root
    owner,      \* the identity of the owner group; 0 if there is none
    made,       \* the owner groups made so far
    leaves,     \* the runs whose leaf exists
    inside,     \* the runs with processes in their leaf
    record,     \* owner.json
    manifest,   \* the handle in the manifest of each run; 0 if there is none
    row,        \* status and saved handle of each run
    live,       \* the runs whose worker is alive
    pc,         \* what the broker does
    ret,        \* where cleanup_owner returns to
    faults

groups == <<root, owner, made, leaves>>
metadata == <<record, manifest>>
vars == <<groups, inside, metadata, row, live, pc, ret, faults>>

\* What tells two handles of one run apart is the owner group they name.
Handles == 0 .. Cardinality(Runs)
NoRecord == [root |-> 0, owner |-> 0]

Idle == [at |-> "idle", run |-> NoRun]
Down == [at |-> "down", run |-> NoRun]
Preparing == {"ensure", "record", "enable", "leaf", "configure", "list", "save", "attach"}
Undoing == {"unleaf", "fail"}
Ending == {"finish", "clean", "target", "unlist", "drop", "end"}
OwnerSteps == {"owner_check", "owner_remove", "owner_forget"}

TypeOK ==
    /\ root \in 1 .. MaxRoots
    /\ owner \in Handles /\ made \in Handles
    /\ leaves \subseteq Runs /\ inside \subseteq leaves
    /\ record \in [root : 1 .. MaxRoots, owner : Handles] \cup {NoRecord}
    /\ manifest \in [Runs -> Handles]
    /\ row \in [Runs -> [status : {"queued", "running", "ended"}, handle : Handles]]
    /\ live \subseteq Runs
    /\ pc \in [at : {"idle", "down", "abandon"} \cup Preparing \cup Undoing \cup Ending \cup OwnerSteps,
               run : Runs \cup {NoRun}]
    /\ ret \in {"fail", "drop"}
    /\ faults \in 0 .. MaxFaults

Init ==
    /\ root = 1 /\ owner = 0 /\ made = 0 /\ leaves = {} /\ inside = {}
    /\ record = NoRecord
    /\ manifest = [r \in Runs |-> 0]
    /\ row = [r \in Runs |-> [status |-> "queued", handle |-> 0]]
    /\ live = {}
    /\ pc = Idle /\ ret = "fail"
    /\ faults = 0

------------------------------------------------------------------------------

At(r, step) == pc = [at |-> step, run |-> r]
Goto(step) == pc' = [pc EXCEPT !.at = step]
Fault == faults < MaxFaults /\ faults' = faults + 1

Listed == {r \in Runs : manifest[r] # 0}

\* validate_owner_record
RootReused == record.root # root
OwnerReused == owner # 0 /\ owner # record.owner

CreateOwner == made' = made + 1 /\ owner' = made + 1

------------------------------------------------------------------------------
(* prepare *)

Admit(r) ==
    /\ pc = Idle /\ row[r].status = "queued"
    /\ row' = [row EXCEPT ![r].status = "running"]
    /\ pc' = [at |-> "ensure", run |-> r]
    /\ UNCHANGED <<groups, inside, metadata, live, ret, faults>>

\* Whether ensure_owner has to make the group, and whether it refuses.
OwnerRefused ==
    IF record = NoRecord THEN owner # 0                     \* owner-collision
    ELSE RootReused \/ OwnerReused \/ (owner = 0 /\ Listed # {})

EnsureOwner(r) ==
    /\ At(r, "ensure")
    /\ \/ /\ OwnerRefused
          /\ Goto("fail")
          /\ UNCHANGED <<owner, made>>
       \/ /\ ~OwnerRefused /\ owner # 0
          /\ Goto("enable")
          /\ UNCHANGED <<owner, made>>
       \/ /\ ~OwnerRefused /\ owner = 0
          /\ CreateOwner
          /\ Goto("record")
    /\ UNCHANGED <<root, leaves, inside, metadata, row, live, ret, faults>>

\* The first group whose record cannot be written is removed again; one that
\* replaces a recorded group is not.
RecordOwner(r) ==
    /\ At(r, "record")
    /\ \/ /\ record' = [root |-> root, owner |-> owner]
          /\ Goto("enable")
          /\ UNCHANGED <<owner, faults>>
       \/ /\ Fault
          /\ owner' = IF record = NoRecord THEN 0 ELSE owner
          /\ Goto("fail")
          /\ UNCHANGED record
    /\ UNCHANGED <<root, made, leaves, inside, manifest, row, live, ret>>

EnableControllers(r) ==
    /\ At(r, "enable")
    /\ \/ Goto("leaf") /\ UNCHANGED <<ret, faults>>
       \/ Fault /\ Goto("owner_check") /\ ret' = "fail"
    /\ UNCHANGED <<groups, inside, metadata, row, live>>

CreateLeaf(r) ==
    /\ At(r, "leaf")
    /\ \/ leaves' = leaves \cup {r} /\ Goto("configure") /\ UNCHANGED faults
       \/ Fault /\ Goto("fail") /\ UNCHANGED leaves
    /\ UNCHANGED <<root, owner, made, inside, metadata, row, live, ret>>

Configure(r) ==
    /\ At(r, "configure")
    /\ \/ Goto("list") /\ UNCHANGED faults
       \/ Fault /\ Goto("unleaf")
    /\ UNCHANGED <<groups, inside, metadata, row, live, ret>>

WriteManifest(r) ==
    /\ At(r, "list")
    /\ \/ manifest' = [manifest EXCEPT ![r] = owner] /\ Goto("save") /\ UNCHANGED faults
       \/ Fault /\ Goto("unleaf") /\ UNCHANGED manifest
    /\ UNCHANGED <<groups, inside, record, row, live, ret>>

UndoLeaf(r) ==
    /\ At(r, "unleaf")
    /\ \/ leaves' = leaves \ {r} /\ UNCHANGED faults
       \/ Fault /\ UNCHANGED leaves
    /\ Goto("owner_check")
    /\ ret' = "fail"
    /\ UNCHANGED <<root, owner, made, inside, metadata, row, live>>

\* A required binding is missing: the run ends without its command.
FailRun(r) ==
    /\ At(r, "fail")
    /\ row' = [row EXCEPT ![r].status = "ended"]
    /\ pc' = Idle
    /\ UNCHANGED <<groups, inside, metadata, live, ret, faults>>

------------------------------------------------------------------------------
(* cleanup_owner, in prepare and in cleanup *)

CheckOwner(r) ==
    /\ At(r, "owner_check")
    /\ Goto(IF Listed # {} \/ record = NoRecord \/ RootReused \/ OwnerReused \/ inside # {} THEN ret
            ELSE IF owner = 0 THEN "owner_forget" ELSE "owner_remove")
    /\ UNCHANGED <<groups, inside, metadata, row, live, ret, faults>>

\* A group with a leaf in it cannot be removed.
RemoveOwner(r) ==
    /\ At(r, "owner_remove")
    /\ \/ leaves = {} /\ owner' = 0 /\ Goto("owner_forget") /\ UNCHANGED faults
       \/ leaves # {} /\ Goto(ret) /\ UNCHANGED <<owner, faults>>
       \/ Fault /\ Goto(ret) /\ UNCHANGED owner
    /\ UNCHANGED <<root, made, leaves, inside, metadata, row, live, ret>>

ForgetOwner(r) ==
    /\ At(r, "owner_forget")
    /\ \/ record' = NoRecord /\ UNCHANGED faults
       \/ Fault /\ UNCHANGED record
    /\ Goto(ret)
    /\ UNCHANGED <<groups, inside, manifest, row, live, ret>>

------------------------------------------------------------------------------
(* The run *)

SaveHandle(r) ==
    /\ At(r, "save")
    /\ row' = [row EXCEPT ![r].handle = manifest[r]]
    /\ Goto("attach")
    /\ UNCHANGED <<groups, inside, metadata, live, ret, faults>>

\* A worker that could not be attached is dropped and what was prepared is finished.
Attach(r) ==
    /\ At(r, "attach")
    /\ \/ inside' = inside \cup {r} /\ live' = live \cup {r} /\ pc' = Idle /\ UNCHANGED faults
       \/ Fault /\ Goto("finish") /\ UNCHANGED <<inside, live>>
    /\ UNCHANGED <<groups, metadata, row, ret>>

\* The worker ends; descendants may stay in the leaf.
WorkerEnds(r) ==
    /\ r \in live
    /\ live' = live \ {r}
    /\ inside' \in {inside, inside \ {r}}
    /\ UNCHANGED <<groups, metadata, row, pc, ret, faults>>

\* The worker and its descendants move to a group of their own.
Escape(r) ==
    /\ r \in live \cap inside
    /\ Fault
    /\ inside' = inside \ {r}
    /\ UNCHANGED <<groups, metadata, row, live, pc, ret>>

\* The last descendant of a worker that has ended is gone.
DescendantsEnd(r) ==
    /\ r \in inside \ live
    /\ inside' = inside \ {r}
    /\ UNCHANGED <<groups, metadata, row, live, pc, ret, faults>>

------------------------------------------------------------------------------
(* finish and cleanup *)

\* resolve with allow_missing: the handle is the manifest's, the record names
\* this root and this owner group.
Resolves(r) ==
    /\ manifest[r] # 0 /\ manifest[r] = row[r].handle
    /\ record # NoRecord /\ ~RootReused /\ ~OwnerReused
    /\ owner # 0 => owner = row[r].handle

\* Mutant: a row is settled through its metadata only.
ObserveEndResolved(r) ==
    /\ pc = Idle
    /\ row[r].status = "running" /\ row[r].handle # 0
    /\ r \notin live /\ Resolves(r)
    /\ pc' = [at |-> "finish", run |-> r]
    /\ UNCHANGED <<groups, inside, metadata, row, live, ret, faults>>

ObserveEnd(r) ==
    /\ pc = Idle
    /\ row[r].status = "running" /\ row[r].handle # 0
    /\ r \notin live
    /\ pc' = [at |-> "finish", run |-> r]
    /\ UNCHANGED <<groups, inside, metadata, row, live, ret, faults>>

\* kill_and_wait; its failure is recorded and cleanup follows all the same.
Finish(r) ==
    /\ At(r, "finish")
    /\ \/ /\ inside' = IF Resolves(r) THEN inside \ {r} ELSE inside
          /\ UNCHANGED faults
       \/ /\ Fault /\ UNCHANGED inside
    /\ Goto("clean")
    /\ UNCHANGED <<groups, metadata, row, live, ret>>

RemoveLeaf(r) ==
    /\ At(r, "clean")
    /\ \/ /\ Resolves(r) /\ r \notin inside
          /\ Goto("target") /\ leaves' = leaves \ {r} /\ UNCHANGED faults
       \/ /\ ~(Resolves(r) /\ r \notin inside)           \* manifest-missing, root-reused, leaf-populated
          /\ Goto("drop") /\ UNCHANGED <<leaves, faults>>
       \/ /\ Fault
          /\ Goto("drop") /\ UNCHANGED leaves
    /\ UNCHANGED <<root, owner, made, inside, metadata, row, live, ret>>

\* The tmpfs report and mount point.
RemoveTarget(r) ==
    /\ At(r, "target")
    /\ \/ Goto("unlist") /\ UNCHANGED faults
       \/ Fault /\ Goto("drop")
    /\ UNCHANGED <<groups, inside, metadata, row, live, ret>>

RemoveManifest(r) ==
    /\ At(r, "unlist")
    /\ \/ /\ manifest' = [manifest EXCEPT ![r] = 0]
          /\ Goto("owner_check") /\ ret' = "drop"
          /\ UNCHANGED faults
       \/ /\ Fault
          /\ Goto("drop") /\ UNCHANGED <<manifest, ret>>
    /\ UNCHANGED <<groups, inside, record, row, live>>

DropHandle(r) ==
    /\ At(r, "drop")
    /\ row' = [row EXCEPT ![r].handle = 0]
    /\ Goto("end")
    /\ UNCHANGED <<groups, inside, metadata, live, ret, faults>>

EndRun(r) ==
    /\ At(r, "end")
    /\ row' = [row EXCEPT ![r].status = "ended"]
    /\ pc' = Idle
    /\ UNCHANGED <<groups, inside, metadata, live, ret, faults>>

\* A running row without handle and without worker.
Interrupt(r) ==
    /\ pc = Idle
    /\ row[r].status = "running" /\ row[r].handle = 0
    /\ row' = [row EXCEPT ![r].status = "ended"]
    /\ UNCHANGED <<groups, inside, metadata, live, pc, ret, faults>>

------------------------------------------------------------------------------
(* Crash and recovery *)

Crash ==
    /\ pc # Down
    /\ Fault
    /\ pc' = Down
    /\ UNCHANGED <<groups, inside, metadata, row, live, ret>>

\* systemd makes the service's group anew.
RootRecreated ==
    /\ pc = Down /\ root < MaxRoots
    /\ root' = root + 1 /\ owner' = 0 /\ leaves' = {} /\ inside' = {}
    /\ live' = live \ inside
    /\ UNCHANGED <<made, metadata, row, pc, ret, faults>>

SavedHandles == {r \in Runs : row[r].handle # 0}

\* resolve gets to the record of a root that is gone.
ResolvesReused(r) == manifest[r] = row[r].handle /\ record # NoRecord /\ RootReused

\* Mutant: the worker is not looked at.
RecoverableReused(r) == Resolves(r) \/ ResolvesReused(r)

\* validate_recovery, and what a broker tolerates.
Recoverable(r) == Resolves(r) \/ (ResolvesReused(r) /\ r \notin live)

CanStart == \A r \in SavedHandles : Recoverable(r)

Boot ==
    /\ pc = Down
    /\ CanStart
    /\ pc' = IF \E r \in SavedHandles : ~Resolves(r) THEN [Idle EXCEPT !.at = "abandon"] ELSE Idle
    /\ UNCHANGED <<groups, inside, metadata, row, live, ret, faults>>

\* abandon_reused_root: the directory with the metadata is moved away.
AbandonReusedRoot ==
    /\ pc.at = "abandon"
    /\ record' = NoRecord
    /\ manifest' = [r \in Runs |-> 0]
    /\ pc' = Idle
    /\ UNCHANGED <<groups, inside, row, live, ret, faults>>

------------------------------------------------------------------------------

Prepare(r) ==
    \/ Admit(r) \/ EnsureOwner(r) \/ RecordOwner(r) \/ EnableControllers(r) \/ CreateLeaf(r) \/ Configure(r)
    \/ WriteManifest(r) \/ UndoLeaf(r) \/ FailRun(r) \/ SaveHandle(r) \/ Attach(r)

Clean(r) ==
    \/ ObserveEnd(r) \/ Finish(r) \/ RemoveLeaf(r) \/ RemoveTarget(r) \/ RemoveManifest(r) \/ DropHandle(r)
    \/ EndRun(r) \/ Interrupt(r) \/ CheckOwner(r) \/ RemoveOwner(r) \/ ForgetOwner(r)

Broker == AbandonReusedRoot \/ \E r \in Runs : Prepare(r) \/ Clean(r)

Next ==
    \/ Broker \/ Boot \/ Crash \/ RootRecreated
    \/ \E r \in Runs : WorkerEnds(r) \/ Escape(r) \/ DescendantsEnd(r)

Spec == Init /\ [][Next]_vars

\* The broker keeps going and is restarted; workers end.
Fairness == WF_vars(Broker) /\ WF_vars(Boot) /\ WF_vars(\E r \in Runs : WorkerEnds(r))

FairSpec == Spec /\ Fairness

------------------------------------------------------------------------------
(* Properties *)

\* A worker's leaf and everything that leads to it stay while it is alive: the
\* cleanup of other runs, a failed prepare or a boot takes neither the shared
\* owner group nor the metadata away.  A worker that outlived the root it was
\* started under keeps its metadata too, which is why that boot is refused.
LiveIsKnown ==
    \A r \in live : row[r].handle # 0 =>
        /\ manifest[r] = row[r].handle
        /\ record # NoRecord
        /\ ~RootReused => owner = row[r].handle /\ r \in leaves

\* A process in a leaf can be found again as long as its row has not ended: the
\* leaf has a manifest.
InsideIsListed ==
    \A r \in inside : row[r].status = "running" => r \in Listed

\* The last cleanup leaves nothing behind.
NothingIsLeft ==
    faults = 0 /\ pc = Idle /\ (\A r \in Runs : row[r].status # "running") =>
        owner = 0 /\ leaves = {} /\ record = NoRecord /\ Listed = {}

\* Groups and metadata account for each other at every step and across every
\* crash and every new root.
Accounted == TypeOK /\ LiveIsKnown /\ InsideIsListed /\ NothingIsLeft

\* Every run ends, unless the broker cannot start again.
RunsEnd ==
    <>[](pc = Down /\ ~CanStart) \/ <>[](\A r \in Runs : row[r].status = "ended")
=============================================================================
