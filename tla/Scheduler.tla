------------------------------ MODULE Scheduler ------------------------------
(***************************************************************************)
(* The coordinator's queue and the one broker that owns it.                *)
(*                                                                         *)
(* The queue is a SQLite table of runs that clients, land workers and the  *)
(* broker change in separate write transactions.  The broker holds the     *)
(* owner lock, loads the table, decides with its own copy which queued run *)
(* to start, and starts it in a later transaction.  A drain closes the     *)
(* queue to submissions until the owner has finished what was accepted.    *)
(*                                                                         *)
(* What happens between the admission of a run and its terminal status     *)
(* (process identity, adoption, process groups) is the subject of          *)
(* RunLifecycle; here a running row simply ends at some time.              *)
(***************************************************************************)
EXTENDS Integers, FiniteSets

CONSTANTS
    Runs,        \* run IDs; the client draws a fresh UUID for every run
    Repos,       \* repository IDs, naturals because the broker orders them
    Worktrees,   \* worktree IDs
    Heads,       \* a branch together with the commit at its head
    Names,       \* resource names
    Requests,    \* the submissions that clients may make
    Capacities,  \* the capacity maps that a broker may be configured with
    MaxUnits,    \* bound on the units a request names
    MaxFaults,   \* bound on crashes, busy databases and stop signals
    MaxDrains,   \* bound on drains
    NoRun        \* no run

Kinds == {"check", "full", "merge", "land"}

NoRepo == -1

\* What a submission says, as far as scheduling is concerned.  A name that the
\* request does not mention has zero units.
Request == [kind : Kinds, repo : Repos, worktree : Worktrees, head : Heads,
            units : [Names -> 0 .. MaxUnits]]

Capacity == [Names -> Nat]

\* The lock file before any broker has published its capacities in it.
NoCapacity == [n \in Names |-> 0]

ASSUME ConstantsOK ==
    /\ IsFiniteSet(Runs) /\ NoRun \notin Runs
    /\ Repos \subseteq Nat
    /\ MaxUnits \in Nat /\ MaxFaults \in Nat /\ MaxDrains \in Nat
    /\ Requests \subseteq Request /\ Requests # {}
    /\ \A q \in Requests : \E n \in Names : q.units[n] > 0
    /\ Capacities \subseteq Capacity

VARIABLES
    rows,       \* the runs table, and the requests that clients are about to insert
    nextSeq,    \* the next value of the AUTOINCREMENT column sequence
    marker,     \* the durable maintenance state
    published,  \* the capacities in the lock file, left there by the last publish
    pc,         \* what the owner does next; "none" when nobody holds the owner lock
    caps,       \* the owner's configured capacities
    pick,       \* the run the owner has decided to start
    last,       \* last_repository
    hasLive,    \* whether the owner saw a queued or running row
    faults,     \* crashes, busy databases and stop signals so far
    drains      \* drains so far

table  == <<rows, nextSeq, marker>>
owner  == <<pc, caps, pick, last, hasLive>>
vars   == <<rows, nextSeq, marker, published, pc, caps, pick, last, hasLive,
            faults, drains>>

Terminal == {"passed", "failed", "cancelled", "interrupted"}

\* "absent": no request yet.  "offered": a client has validated the request
\* against the live owner and has still to insert it.  "cleared": the row was
\* deleted.  The other statuses are those of the runs table.
Statuses == {"absent", "offered", "queued", "running", "cleared"} \cup Terminal

\* cancel is cancel_requested together with who asked: a client, or a broker
\* that is stopping (failure_reason = broker-stopped).
Row == [status : Statuses, req : Request, seq : Nat, gate : Runs \cup {NoRun},
        phase : {"none", "preflight", "gating", "publishing"},
        cancel : {"no", "client", "stop"}]

PCs == {"none", "boot", "bootmarker", "pump", "observe", "admit", "picked",
        "started", "check", "marker", "stopping"}

TypeOK ==
    /\ rows \in [Runs -> Row]
    /\ nextSeq \in Nat
    /\ marker \in {"open", "draining", "drained"}
    /\ published \in Capacity
    /\ pc \in PCs
    /\ caps \in Capacity
    /\ pick \in Runs \cup {NoRun}
    /\ last \in Repos \cup {NoRepo}
    /\ hasLive \in BOOLEAN
    /\ faults \in 0 .. MaxFaults
    /\ drains \in 0 .. MaxDrains

------------------------------------------------------------------------------
(* The table, as a reader sees it *)

Active == {r \in Runs : rows[r].status = "running"}
Queued == {r \in Runs : rows[r].status = "queued"}
Live   == Active \cup Queued

Barrier(r) == rows[r].req.kind \in {"merge", "land"}

SameRepo(a, b)     == rows[a].req.repo = rows[b].req.repo
SameWorktree(a, b) == rows[a].req.worktree = rows[b].req.worktree
Earlier(a, b)      == rows[a].seq < rows[b].seq

\* The sum of the units of name n over S, as the number of the pairs
\* <<run, i>> with 1 <= i <= units.
Allocation(S, n) ==
    Cardinality({t \in S \X (1 .. MaxUnits) : t[2] <= rows[t[1]].req.units[n]})

\* The reasons "repository:..." of blocked_by.  A barrier waits for other
\* barriers and for its worktree; ordinary work waits for its worktree's barrier.
LaneBlockedBy(r, c) ==
    /\ SameRepo(r, c)
    /\ IF Barrier(r) THEN Barrier(c) \/ SameWorktree(r, c)
                     ELSE Barrier(c) /\ SameWorktree(r, c)

\* Mutant: an earlier queued run no longer holds back a later one.
LaneBlockedByActiveOnly(r) ==
    \E c \in Active : LaneBlockedBy(r, c)

\* Mutant: a barrier that waits in the queue is seen, one that runs is not.
LaneBlockedByQueuedOnly(r) ==
    \E c \in Queued : Earlier(c, r) /\ LaneBlockedBy(r, c)

LaneBlocked(r) ==
    \E c \in Active \cup {q \in Queued : Earlier(q, r)} : LaneBlockedBy(r, c)

\* Mutant: the request alone is compared with the capacity.
ResourceBlockedAlone(r) ==
    \E n \in Names : rows[r].req.units[n] > caps[n]

\* The reasons "resource:..." of blocked_by.
ResourceBlocked(r) ==
    \E n \in Names :
        /\ rows[r].req.units[n] > 0
        /\ Allocation(Active, n) + rows[r].req.units[n] > caps[n]

Admissible(r) == r \in Queued /\ ~LaneBlocked(r) /\ ~ResourceBlocked(r)

\* The first admissible run of every repository.
LaneHeads ==
    {r \in Runs : /\ Admissible(r)
                  /\ ~\E c \in Runs : /\ Admissible(c)
                                      /\ SameRepo(c, r) /\ Earlier(c, r)}

\* Mutant: the repositories have a fixed order and no rotation.
NextAdmissibleByRepository ==
    {r \in LaneHeads : ~\E c \in LaneHeads : rows[c].req.repo < rows[r].req.repo}

\* next_admissible: the heads of the repositories after the last one served go
\* first, each part in queue order.
NextAdmissible ==
    LET after == {r \in LaneHeads : rows[r].req.repo > last}
        turn  == IF last # NoRepo /\ after # {} THEN after ELSE LaneHeads
    IN  {r \in turn : ~\E c \in turn : Earlier(c, r)}

\* validate_active: what the owner demands of the running rows before it acts.
ActiveValid ==
    /\ \A n \in Names : Allocation(Active, n) <= caps[n]
    /\ \A a, b \in Active :
          (a # b /\ Barrier(a) /\ SameRepo(a, b))
              => ~Barrier(b) /\ ~SameWorktree(a, b)

------------------------------------------------------------------------------
(* Clients *)

\* A client reads the capacities that the lock file publishes and checks its
\* request against them.  It holds no lock: by the time it inserts the row the
\* owner may be gone, and while a new owner boots the file still holds what the
\* previous one published.
Offer(r, q) ==
    /\ rows[r].status = "absent"
    /\ \A n \in Names : q.units[n] <= published[n]
    /\ rows' = [rows EXCEPT ![r] = [@ EXCEPT !.status = "offered", !.req = q]]
    /\ UNCHANGED <<nextSeq, marker, published, owner, faults, drains>>

\* A passed full gate of the same repository and head.  native_gate_floor is 1
\* in a database that the native broker created.
GateMatches(g, q) ==
    /\ rows[g].status = "passed"
    /\ rows[g].req.kind = "full"
    /\ rows[g].req.repo = q.repo
    /\ rows[g].req.head = q.head
    /\ rows[g].seq >= 1

\* The receipt is the one the client names or the latest one: any that matches.
Gates(q) == IF q.kind = "merge" THEN {g \in Runs : GateMatches(g, q)} ELSE {NoRun}

Submit(r) ==
    /\ rows[r].status = "offered"
    /\ marker = "open"
    /\ \E g \in Gates(rows[r].req) :
          rows' = [rows EXCEPT ![r] = [@ EXCEPT !.status = "queued",
                                                !.seq = nextSeq, !.gate = g]]
    /\ nextSeq' = nextSeq + 1
    /\ UNCHANGED <<marker, published, owner, faults, drains>>

\* Publication is authoritative: a merge, or a land in its publishing phase.
Authoritative(r) ==
    \/ rows[r].req.kind = "merge"
    \/ rows[r].req.kind = "land" /\ rows[r].phase = "publishing"

\* The owner is looked up before the transaction, so it may be gone by now.
Cancel(r) ==
    /\ \/ /\ rows[r].status = "queued"
          /\ rows' = [rows EXCEPT ![r] = [@ EXCEPT !.status = "cancelled",
                                                   !.cancel = "client"]]
       \/ /\ rows[r].status = "running"
          /\ ~Authoritative(r)
          /\ rows[r].cancel = "no"
          /\ rows' = [rows EXCEPT ![r] = [@ EXCEPT !.cancel = "client"]]
    /\ UNCHANGED <<nextSeq, marker, published, owner, faults, drains>>

\* Mutant: clear looks only at running rows.
ClearKeepingRunning ==
    /\ marker = "open"
    /\ Active = {}
    /\ \E r \in Runs : rows[r].status \in Terminal
    /\ rows' = [r \in Runs |-> IF rows[r].status \in Terminal
                               THEN [rows[r] EXCEPT !.status = "cleared"]
                               ELSE rows[r]]
    /\ UNCHANGED <<nextSeq, marker, published, owner, faults, drains>>

Clear ==
    /\ marker = "open"
    /\ Live = {}
    /\ \E r \in Runs : rows[r].status \in Terminal
    /\ rows' = [r \in Runs |-> IF rows[r].status \in Terminal
                               THEN [rows[r] EXCEPT !.status = "cleared"]
                               ELSE rows[r]]
    /\ UNCHANGED <<nextSeq, marker, published, owner, faults, drains>>

\* Mutant: a cancelled land may still reach its publishing phase.
AdvanceLandCancelled(r) ==
    /\ rows[r].status = "running"
    /\ rows[r].req.kind = "land"
    /\ rows[r].phase # "publishing"
    /\ rows' = [rows EXCEPT ![r] = [@ EXCEPT !.phase = "publishing"]]
    /\ UNCHANGED <<nextSeq, marker, published, owner, faults, drains>>

\* advance_land_phase, called by the land's worker.
AdvanceLand(r) ==
    /\ rows[r].status = "running"
    /\ rows[r].req.kind = "land"
    /\ rows[r].cancel = "no"
    /\ \/ /\ rows[r].phase = "preflight"
          /\ rows' = [rows EXCEPT ![r] = [@ EXCEPT !.phase = "gating"]]
       \/ /\ rows[r].phase \in {"preflight", "gating"}
          /\ rows' = [rows EXCEPT ![r] = [@ EXCEPT !.phase = "publishing"]]
    /\ UNCHANGED <<nextSeq, marker, published, owner, faults, drains>>

------------------------------------------------------------------------------
(* Maintenance *)

BeginDrain ==
    /\ drains < MaxDrains
    /\ marker = "open"
    /\ marker' = "draining"
    /\ drains' = drains + 1
    /\ UNCHANGED <<rows, nextSeq, published, owner, faults>>

DrainStatus ==
    /\ marker = "draining"
    /\ Live = {}
    /\ pc = "none"
    /\ marker' = "drained"
    /\ UNCHANGED <<rows, nextSeq, published, owner, faults, drains>>

\* Resume takes the owner lock for the length of its transaction.
Resume ==
    /\ pc = "none"
    /\ marker # "open"
    /\ Live = {}
    /\ marker' = "open"
    /\ UNCHANGED <<rows, nextSeq, published, owner, faults, drains>>

------------------------------------------------------------------------------
(* The owner *)

\* The process ends: the lock is released, the memory is lost.
Exit ==
    /\ pc' = "none"
    /\ caps' = NoCapacity
    /\ pick' = NoRun
    /\ last' = NoRepo
    /\ hasLive' = FALSE

AcquireOwner ==
    /\ pc = "none"
    /\ pc' = "boot"
    /\ caps' \in Capacities
    /\ UNCHANGED <<table, published, pick, last, hasLive, faults, drains>>

\* Broker::start loads the runs first ...
BootLoad ==
    /\ pc = "boot"
    /\ pc' = "bootmarker"
    /\ hasLive' = (Live # {})
    /\ UNCHANGED <<table, published, caps, pick, last, faults, drains>>

\* Mutant: a drained queue with live rows is taken for a draining one.
BootMarkerLax ==
    /\ pc = "bootmarker"
    /\ \/ /\ marker # "open" /\ ~hasLive
          /\ marker' = "drained"
          /\ Exit
          /\ UNCHANGED published
       \/ /\ hasLive \/ marker = "open"
          /\ pc' = "pump"
          /\ published' = caps
          /\ hasLive' = FALSE
          /\ UNCHANGED <<marker, caps, pick, last>>
    /\ UNCHANGED <<rows, nextSeq, faults, drains>>

\* Mutant: an owner that finds the queue closed does not serve it.
BootMarkerClosed ==
    /\ pc = "bootmarker"
    /\ \/ /\ marker # "open"
          /\ Exit
          /\ UNCHANGED published
       \/ /\ marker = "open"
          /\ pc' = "pump"
          /\ published' = caps
          /\ hasLive' = FALSE
          /\ UNCHANGED <<caps, pick, last>>
    /\ UNCHANGED <<rows, nextSeq, marker, faults, drains>>

\* ... and reads the marker afterwards; a broker that may serve publishes its
\* capacities.
BootMarker ==
    /\ pc = "bootmarker"
    /\ \/ /\ marker = "drained" /\ hasLive
          /\ Exit
          /\ UNCHANGED <<marker, published>>
       \/ /\ marker # "open" /\ ~hasLive
          /\ marker' = "drained"
          /\ Exit
          /\ UNCHANGED published
       \/ /\ marker = "open" \/ (marker = "draining" /\ hasLive)
          /\ pc' = "pump"
          /\ published' = caps
          /\ hasLive' = FALSE
          /\ UNCHANGED <<marker, caps, pick, last>>
    /\ UNCHANGED <<rows, nextSeq, faults, drains>>

\* pump_once and observe_active_once refuse to go on when the running rows
\* break the owner's rules.
ActiveInvalid ==
    /\ pc \in {"pump", "admit", "stopping"}
    /\ ~ActiveValid
    /\ Exit
    /\ UNCHANGED <<table, published, faults, drains>>

Pump ==
    /\ pc = "pump"
    /\ ActiveValid
    /\ pc' = "observe"
    /\ UNCHANGED <<table, published, caps, pick, last, hasLive, faults, drains>>

\* The statuses finish_run may write: a requested stop wins over any verdict.
Outcomes(r) ==
    CASE rows[r].cancel = "client" -> {"cancelled"}
      [] rows[r].cancel = "stop"   -> {"interrupted"}
      [] OTHER                     -> {"passed", "failed", "interrupted"}

\* observe records the end of a run; start_worker does when it fails or finds
\* that the run it has just admitted is to be cancelled.
Finish(r) ==
    /\ rows[r].status = "running"
    /\ \/ pc = "observe"
       \/ pc = "stopping" /\ ActiveValid
       \/ pc = "started" /\ r = pick
    /\ \E s \in Outcomes(r) :
          rows' = [rows EXCEPT ![r] = [@ EXCEPT !.status = s, !.phase = "none"]]
    /\ UNCHANGED <<nextSeq, marker, published, owner, faults, drains>>

ObserveEnd ==
    /\ pc = "observe"
    /\ pc' = "admit"
    /\ UNCHANGED <<table, published, caps, pick, last, hasLive, faults, drains>>

Pick ==
    /\ pc = "admit"
    /\ ActiveValid
    /\ \/ \E r \in NextAdmissible : pick' = r /\ pc' = "picked"
       \/ NextAdmissible = {} /\ pick' = NoRun /\ pc' = "check"
    /\ UNCHANGED <<table, published, caps, last, hasLive, faults, drains>>

\* The admission transaction of start_worker.  It reads the row again: the pick
\* may have been cancelled, or cancelled and cleared, in the meantime.
StartWorker ==
    /\ pc = "picked"
    /\ \/ /\ rows[pick].status = "queued"
          /\ rows' = [rows EXCEPT ![pick] =
                        [@ EXCEPT !.status = "running",
                                  !.phase = IF rows[pick].req.kind = "land"
                                            THEN "preflight" ELSE "none"]]
          /\ pc' = "started"
          /\ UNCHANGED <<caps, pick, last, hasLive>>
       \/ /\ rows[pick].status \in Terminal
          /\ pc' = "started"
          /\ UNCHANGED <<rows, caps, pick, last, hasLive>>
       \/ /\ rows[pick].status = "cleared"
          /\ Exit
          /\ UNCHANGED rows
    /\ UNCHANGED <<nextSeq, marker, published, faults, drains>>

\* start_worker returns and the repository has had its turn.
StartDone ==
    /\ pc = "started"
    /\ pc' = "admit"
    /\ pick' = NoRun
    /\ last' = rows[pick].req.repo
    /\ UNCHANGED <<table, published, caps, hasLive, faults, drains>>

\* serve looks for live rows ...
CheckLive ==
    /\ pc = "check"
    /\ pc' = "marker"
    /\ hasLive' = (Live # {})
    /\ UNCHANGED <<table, published, caps, pick, last, faults, drains>>

\* ... then, in another transaction, at the marker.
CheckMarker ==
    /\ pc = "marker"
    /\ \/ /\ ~hasLive /\ marker # "open"
          /\ marker' = "drained"
          /\ Exit
       \/ /\ ~hasLive /\ marker = "open"         \* idle timeout
          /\ Exit
          /\ UNCHANGED marker
       \/ /\ hasLive \/ marker = "open"
          /\ pc' = "pump"
          /\ hasLive' = FALSE
          /\ UNCHANGED <<marker, caps, pick, last>>
    /\ UNCHANGED <<rows, nextSeq, published, faults, drains>>

\* A stop signal is noticed at the head of the loop and after the pump.
StopSignal ==
    /\ pc \in {"pump", "check"}
    /\ faults < MaxFaults
    /\ faults' = faults + 1
    /\ pc' = "stopping"
    /\ UNCHANGED <<table, published, caps, pick, last, hasLive, drains>>

\* The grace period is over or a second signal has come.
RequestInterruption ==
    /\ pc = "stopping"
    /\ LET ended == {r \in Active : rows[r].cancel = "no" /\ ~Authoritative(r)}
       IN  /\ ended # {}
           /\ rows' = [r \in Runs |-> IF r \in ended
                                      THEN [rows[r] EXCEPT !.cancel = "stop"]
                                      ELSE rows[r]]
    /\ UNCHANGED <<nextSeq, marker, published, owner, faults, drains>>

StopDone ==
    /\ pc = "stopping"
    /\ Active = {}
    /\ Exit
    /\ UNCHANGED <<table, published, faults, drains>>

\* The database stays locked past the configured timeout.  The pump is retried;
\* the reads that serve makes itself are not.
Busy ==
    /\ faults < MaxFaults
    /\ faults' = faults + 1
    /\ \/ /\ pc \in {"observe", "admit", "picked", "started"}
          /\ pc' = "pump"
          /\ pick' = NoRun
          /\ UNCHANGED <<caps, last, hasLive>>
       \/ /\ pc \in {"check", "marker"}
          /\ Exit
    /\ UNCHANGED <<table, published, drains>>

Crash ==
    /\ pc # "none"
    /\ faults < MaxFaults
    /\ faults' = faults + 1
    /\ Exit
    /\ UNCHANGED <<table, published, drains>>

------------------------------------------------------------------------------
\* The request of an absent row means nothing.
Blank == [status |-> "absent", req |-> CHOOSE q \in Requests : TRUE, seq |-> 0,
          gate |-> NoRun, phase |-> "none", cancel |-> "no"]

\* An empty table, no lock holder.
Init ==
    /\ rows = [r \in Runs |-> Blank]
    /\ nextSeq = 1
    /\ marker = "open"
    /\ published = NoCapacity
    /\ pc = "none"
    /\ caps = NoCapacity
    /\ pick = NoRun
    /\ last = NoRepo
    /\ hasLive = FALSE
    /\ faults = 0
    /\ drains = 0

Client ==
    \/ \E r \in Runs : \/ \E q \in Requests : Offer(r, q)
                       \/ Submit(r)
                       \/ Cancel(r)
                       \/ AdvanceLand(r)
    \/ Clear
    \/ BeginDrain
    \/ DrainStatus
    \/ Resume

\* What the owner does by itself, the end of a run aside.
OwnerStep ==
    \/ BootLoad
    \/ BootMarker
    \/ ActiveInvalid
    \/ Pump
    \/ ObserveEnd
    \/ Pick
    \/ StartWorker
    \/ StartDone
    \/ CheckLive
    \/ CheckMarker
    \/ RequestInterruption
    \/ StopDone

Next ==
    \/ Client
    \/ AcquireOwner
    \/ OwnerStep
    \/ \E r \in Runs : Finish(r)
    \/ StopSignal
    \/ Busy
    \/ Crash

Spec == Init /\ [][Next]_vars

\* The owner's loop never stops by itself; somebody starts an owner when there
\* is none (every client call that finds no owner does, and so does the managed
\* service); every worker ends, and each pass of the owner observes every
\* running row, so that an ended worker is recorded when the loop reaches it.
Fairness ==
    /\ WF_vars(AcquireOwner)
    /\ WF_vars(OwnerStep)
    /\ \A r \in Runs : SF_vars(Finish(r))

FairSpec == Spec /\ Fairness

------------------------------------------------------------------------------
(* Properties *)

\* In a repository no two barriers run at once and nothing else runs in a
\* running barrier's worktree (blocked_by and validate_active in store.rs and
\* broker.rs), although the owner decides on an older copy of the table and may
\* be replaced between any two steps.
LaneExclusion ==
    \A a, b \in Active :
        (a # b /\ SameRepo(a, b) /\ Barrier(a))
            => ~Barrier(b) /\ ~SameWorktree(a, b)

\* Once an owner has accepted the running rows it never admits more than its
\* capacities allow (blocked_by, start_worker): the running requests together
\* fit at every step of its pump.
CapacityRespected ==
    pc \in {"observe", "admit", "picked", "started", "check", "marker"}
        => \A n \in Names : Allocation(Active, n) <= caps[n]

\* A land or merge is admitted in submission order among the barriers of its
\* repository and behind earlier work of its worktree, and no work is admitted
\* ahead of an earlier barrier of its worktree, even when rows were submitted
\* or cancelled between the decision and the admission.
NoOvertaking ==
    [][\A r \in Runs :
          (rows[r].status = "queued" /\ rows'[r].status = "running")
              => \A c \in Queued : Earlier(c, r) => ~LaneBlockedBy(r, c)]_vars

\* The full-gate receipt that a submitted merge names stays in the table, passed
\* and for the merge's repository and head, for as long as the merge is queued
\* or running: clear removes history only when nothing is live.
MergeReceiptHeld ==
    \A m \in Live :
        rows[m].req.kind = "merge"
            => /\ rows[m].gate \in Runs
               /\ GateMatches(rows[m].gate, rows[m].req)

\* A terminal row never changes again until clear deletes it: neither a late
\* cancel, an owner that acts on an old copy, nor a stopping owner rewrites a verdict.
TerminalIsFinal ==
    [][\A r \in Runs :
          rows[r].status \in Terminal
              => \/ rows'[r] = rows[r]
                 \/ rows'[r] = [rows[r] EXCEPT !.status = "cleared"]]_vars

\* Cancellation and the transition to publishing exclude each other: a running
\* merge, or a land that is publishing, carries no stop request, neither from a
\* client nor from an owner that is shutting down.
PublicationUncancelled ==
    \A r \in Active : Authoritative(r) => rows[r].cancel = "no"

\* While the queue is drained nothing runs: no owner serves a drained queue.
DrainedRunsNothing ==
    marker = "drained" => Active = {} /\ pc \in {"none", "boot", "bootmarker"}

------------------------------------------------------------------------------
(* The inductive invariant behind the safety properties *)

\* A row that was inserted has a sequence number below the next one.
SequenceBelowNext ==
    \A r \in Runs : rows[r].status \notin {"absent", "offered"} => rows[r].seq < nextSeq

\* Only a running row can carry a stop request that has still to take effect.
WaitingUncancelled ==
    \A r \in Runs : rows[r].status \in {"absent", "offered", "queued"} => rows[r].cancel = "no"

\* The owner's pick was inserted, and while it is still queued the decision holds:
\* no running or earlier queued row blocks it and it fits the capacities.
PickHolds ==
    /\ pc \in {"picked", "started"} => pick \in Runs
    /\ pc = "picked" => rows[pick].status \notin {"absent", "offered", "running"}
    /\ (pc = "picked" /\ rows[pick].status = "queued") =>
          /\ \A c \in Active : ~LaneBlockedBy(pick, c)
          /\ \A c \in Queued : Earlier(c, pick) => ~LaneBlockedBy(pick, c)
          /\ ~ResourceBlocked(pick)

\* Nothing runs while the owner believes that nothing is live.
NothingLiveSeen ==
    pc \in {"bootmarker", "marker"} /\ ~hasLive => Active = {}

IndInv ==
    /\ TypeOK
    /\ SequenceBelowNext
    /\ WaitingUncancelled
    /\ PickHolds
    /\ NothingLiveSeen
    /\ LaneExclusion
    /\ CapacityRespected
    /\ MergeReceiptHeld
    /\ PublicationUncancelled
    /\ DrainedRunsNothing

------------------------------------------------------------------------------
(* What the documentation says and the code does not do; what must happen *)

\* "Once no live row remains, the owner commits `drained`" (docs/coordinator.md):
\* a drained queue holds no accepted work.  The code looks for live rows and
\* marks the queue in different transactions.
DrainedHoldsNothing == marker = "drained" => Live = {}

\* Asks for no more of anything than any other request.
Smallest(r) == \A q \in Requests : \A n \in Names : rows[r].req.units[n] <= q.units[n]

\* Fits whenever another queued run does, and so does what it may have to wait for.
NeedsNoReserve(r) ==
    Smallest(r) /\ \A c \in Queued : SameRepo(c, r) /\ Earlier(c, r) => Smallest(c)

\* "Lane rotation keeps one repository from monopolizing admission", while
\* "greedy backfill can delay a large request" (docs/coordinator.md): no stream of
\* requests of any repository keeps a queued run waiting for ever that is no
\* larger than others and stands behind no larger one in its repository.
QueuedIsServed ==
    \A r \in Runs : (r \in Queued /\ NeedsNoReserve(r)) ~> r \notin Queued

\* A drain comes to its end: every accepted run is finished, whether or not the
\* owner crashes and has to be replaced, and the queue is marked drained.
DrainCompletes == marker = "draining" ~> marker # "draining"
=============================================================================
