----------------------------- MODULE MCScheduler -----------------------------
(* Small instances of Scheduler for TLC. *)
EXTENDS Scheduler, TLC

CONSTANTS w1, w2, h1

\* One unit of the implicit resource "jobs" and some "cpu".
Units(cpu) == [jobs |-> 1, cpu |-> cpu]

Ask(kind, repo, worktree, cpu) ==
    [kind |-> kind, repo |-> repo, worktree |-> worktree, head |-> h1, units |-> Units(cpu)]

MCNames == {"jobs", "cpu"}

\* A gate, the merge that needs it and a land.
GateRequests ==
    {Ask("full", 1, w1, 1), Ask("merge", 1, w1, 1), Ask("land", 1, w1, 1)}

\* A gate and a land in one worktree, the merge that needs the gate in another, and a
\* large request of another repository.
MixedRequests ==
    {Ask("full", 1, w1, 1), Ask("land", 1, w1, 1), Ask("merge", 1, w2, 1), Ask("check", 2, w1, 2)}

\* A small request of one repository; a small barrier and a large request in one
\* worktree of another.
ServeRequests ==
    {Ask("check", 1, w1, 1), Ask("land", 2, w1, 1), Ask("check", 2, w1, 2)}

Large == [jobs |-> 2, cpu |-> 2]
Small == [jobs |-> 2, cpu |-> 1]

OneCapacity == {Large}
TwoCapacities == {Large, Small}

RunSymmetry == Permutations(Runs)

------------------------------------------------------------------------------
(* An endless stream of requests.  A run that has ended and that no live merge names
   as its receipt has no influence on scheduling, and of the sequence numbers only
   their order has: while the owner observes, its ID becomes that of a new run,
   and the numbers close up.  The stream has no end, and a pass of the owner meets at
   most as many requests as there are IDs. *)

Inserted == {r \in Runs : rows[r].status \notin {"absent", "offered"}}

Reuse(r) ==
    /\ pc = "observe" /\ rows[r].status \in Terminal
    /\ \A m \in Live : rows[m].gate # r
    /\ LET kept == Inserted \ {r}
           Place(x) == Cardinality({y \in kept : ~Earlier(x, y)})
       IN  /\ rows' = [x \in Runs |-> IF x = r THEN Blank
                                     ELSE IF x \in kept THEN [rows[x] EXCEPT !.seq = Place(x)]
                                     ELSE rows[x]]
           /\ nextSeq' = Cardinality(kept) + 1
    /\ UNCHANGED <<marker, published, owner, faults, drains>>

\* Clients that submit and neither cancel nor clear, and an owner without faults.
StreamNext ==
    \/ \E r \in Runs : Submit(r) \/ Reuse(r) \/ Finish(r) \/ \E q \in Requests : Offer(r, q)
    \/ AcquireOwner
    \/ OwnerStep

StreamSpec == Init /\ [][StreamNext]_vars /\ Fairness
=============================================================================
