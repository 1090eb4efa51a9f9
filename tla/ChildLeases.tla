----------------------------- MODULE ChildLeases -----------------------------
(***************************************************************************)
(* The CPU tokens of one running job and the processes of its tree that    *)
(* lease shares of them.  The leases are rows of the queue's database;     *)
(* their owners insert and end them, and the broker's pump, in one write   *)
(* transaction per pass, ends the leases whose owners are lost and grants  *)
(* free tokens in the order of the requests.  The oldest request that does *)
(* not fit may be passed by a younger one that does, but only once.        *)
(*                                                                         *)
(* Leases of different jobs do not meet.                                   *)
(***************************************************************************)
EXTENDS Integers, FiniteSets

CONSTANTS
    Leases,    \* slots for leases: an ended lease leaves its slot to a new one
    Budget,    \* the parent's cpu units
    Requests   \* the pairs requested, minimum that owners may ask for

ASSUME LeaseConstantsOK ==
    /\ IsFiniteSet(Leases)
    /\ Budget \in Nat \ {0}
    /\ Requests \subseteq [requested : Nat \ {0}, minimum : Nat \ {0}]
    /\ \A q \in Requests : q.minimum <= q.requested

VARIABLES
    lease,   \* the table child_cpu_leases
    owner,   \* the process that owns the lease
    parent,  \* the job runs, is not cancelled and its worker lives
    lock,    \* the broker is inside its write transaction
    credit   \* history: how many younger leases may still be granted first

leaseVars == <<lease, owner, parent, lock, credit>>

\* older is what the sequence column says: which of those that wait were inserted before.
Lease == [status : {"ended", "waiting", "active"}, requested : Nat \ {0}, minimum : Nat \ {0},
          granted : 0 .. Budget, bypass : Nat, older : SUBSET Leases]

LeaseTypeOK ==
    /\ lease \in [Leases -> Lease]
    /\ owner \in [Leases -> {"child", "orphan", "gone"}]
    /\ parent \in BOOLEAN
    /\ lock \in {"free", "held"}
    /\ credit \in [Leases -> Int]

Waiting == {l \in Leases : lease[l].status = "waiting"}
Active  == {l \in Leases : lease[l].status = "active"}
Live    == Waiting \cup Active

Older(a, b) == a \in lease[b].older

------------------------------------------------------------------------------
(* The owners of leases *)

\* An empty slot.
NoLease == [status |-> "ended", requested |-> 1, minimum |-> 1, granted |-> 0, bypass |-> 0,
          older |-> {}]

\* The leases S become released or cancelled: no grant depends on such a row.
End(S) ==
    /\ lease' = [l \in Leases |-> IF l \in S THEN NoLease
                                             ELSE [lease[l] EXCEPT !.older = @ \ S]]
    /\ owner' = [l \in Leases |-> IF l \in S THEN "gone" ELSE owner[l]]
    /\ credit' = [l \in Leases |-> IF l \in S THEN 0 ELSE credit[l]]

\* request_child_cpu_lease: a descendant of the worker asks for tokens.
Request(l, q) ==
    /\ lock = "free"
    /\ parent
    /\ lease[l].status = "ended"
    /\ q.minimum <= Budget
    /\ lease' = [lease EXCEPT ![l] =
                    [status |-> "waiting", requested |-> q.requested, minimum |-> q.minimum,
                     granted |-> 0, bypass |-> 0, older |-> Waiting]]
    /\ owner' = [owner EXCEPT ![l] = "child"]
    /\ credit' = [credit EXCEPT ![l] = Cardinality(Waiting) + 1]
    /\ UNCHANGED <<parent, lock>>

\* finish_child_cpu_lease: release, cancellation or a timeout, by the live owner.
Finish(l) ==
    /\ lock = "free"
    /\ l \in Live
    /\ owner[l] # "gone"
    /\ End({l})
    /\ UNCHANGED <<parent, lock>>

OwnerExits(l) ==
    /\ l \in Live
    /\ owner[l] # "gone"
    /\ owner' = [owner EXCEPT ![l] = "gone"]
    /\ UNCHANGED <<lease, parent, lock, credit>>

\* A process between the worker and the owner exits, and the owner is reparented.
OwnerOrphaned(l) ==
    /\ l \in Live
    /\ owner[l] = "child"
    /\ owner' = [owner EXCEPT ![l] = "orphan"]
    /\ UNCHANGED <<lease, parent, lock, credit>>

\* The worker ends, or the job is cancelled; the latter cannot happen while the
\* broker holds the write lock but makes no difference there.
ParentEnds ==
    /\ parent
    /\ parent' = FALSE
    /\ UNCHANGED <<lease, owner, lock, credit>>

------------------------------------------------------------------------------
(* maintain_child_cpu_leases; a broker that dies inside leaves no trace *)

Valid(l) == parent /\ owner[l] = "child"

\* Mutant: only what waits is taken from owners that are lost.
ReclaimWaiting ==
    /\ lock = "free"
    /\ Live # {}
    /\ End({l \in Waiting : ~Valid(l)})
    /\ lock' = "held"
    /\ UNCHANGED parent

Reclaim ==
    /\ lock = "free"
    /\ Live # {}
    /\ End({l \in Live : ~Valid(l)})
    /\ lock' = "held"
    /\ UNCHANGED parent

\* The sum of the grants, as the number of pairs <<lease, i>> with 1 <= i <= granted.
Tokens == {t \in Active \X (1 .. Budget) : t[2] <= lease[t[1]].granted}

\* Mutant: every active lease counts as one token.
AvailablePerLease == Budget - Cardinality(Active)

Available == Budget - Cardinality(Tokens)

\* waiting[0].
Head == {l \in Waiting : ~\E c \in Waiting : Older(c, l)}

\* The waiting leases that fit, and among them the oldest.
Fits == {l \in Waiting : lease[l].minimum <= Available}

FirstFit == {l \in Fits : ~\E c \in Fits : Older(c, l)}

\* Mutant: the head takes what there is.
SelectedHungry == IF Available > 0 THEN Head ELSE {}

\* Mutant: the bypass count is looked at before it is seen whether the head fits.
SelectedStuck == {l \in FirstFit : \E h \in Head : lease[h].bypass < 1}

\* selected_index: the head if it fits, otherwise the first that does unless the
\* head has been passed before.
Selected ==
    {l \in FirstFit : \E h \in Head : l = h \/ lease[h].bypass < 1}

Smaller(a, b) == IF a <= b THEN a ELSE b

\* granted.
GrantSize(l) == Smaller(lease[l].requested, Available)

\* Mutant: passing the head is not counted.
BypassedNever(l) == {}

\* selected_index > 0: the head is passed.
Bypassed(l) == Head \ {l}

\* One turn of the loop.
Grant(l) ==
    /\ lock = "held"
    /\ l \in Selected
    /\ lease' = [c \in Leases |->
                    IF c = l
                    THEN [lease[c] EXCEPT !.status = "active", !.granted = GrantSize(l),
                                          !.older = {}]
                    ELSE [lease[c] EXCEPT !.bypass = IF c \in Bypassed(l) THEN @ + 1 ELSE @,
                                          !.older = @ \ {l}]]
    /\ credit' = [c \in Leases |-> IF c = l THEN 0
                                   ELSE IF Older(c, l) THEN credit[c] - 1 ELSE credit[c]]
    /\ UNCHANGED <<owner, parent, lock>>

Commit ==
    /\ lock = "held"
    /\ Selected = {}
    /\ lock' = "free"
    /\ UNCHANGED <<lease, owner, parent, credit>>

------------------------------------------------------------------------------
LeaseInit ==
    /\ lease = [l \in Leases |-> NoLease]
    /\ owner = [l \in Leases |-> "gone"]
    /\ parent = TRUE
    /\ lock = "free"
    /\ credit = [l \in Leases |-> 0]

Maintain == Reclaim \/ (\E l \in Leases : Grant(l)) \/ Commit

LeaseNext ==
    \/ \E l \in Leases : \/ \E q \in Requests : Request(l, q)
                         \/ Finish(l)
                         \/ OwnerExits(l)
                         \/ OwnerOrphaned(l)
    \/ ParentEnds
    \/ Maintain

LeaseSpec == LeaseInit /\ [][LeaseNext]_leaseVars

\* The holder of tokens returns them or exits in the end.
HolderLeaves(l) == l \in Active /\ (Finish(l) \/ OwnerExits(l))

\* The broker goes on pumping; owners that only wait may wait for ever.
LeaseFairness ==
    /\ WF_leaseVars(Maintain)
    /\ \A l \in Leases : WF_leaseVars(HolderLeaves(l))

LeaseFairSpec == LeaseSpec /\ LeaseFairness

------------------------------------------------------------------------------
(* Properties *)

\* "Active grants for a run never total more than its declared parent CPU
\* allocation" (docs/coordinator.md), while owners come, go and are orphaned.
BudgetRespected == Cardinality(Tokens) <= Budget

\* Every live row passes the structural check of child_lease_from_row and
\* validate_child_cpu_leases: one that did not would stop every later broker.
LeasesCoherent ==
    \A l \in Live :
        /\ lease[l].minimum <= lease[l].requested
        /\ lease[l].minimum <= Budget
        /\ lease[l].bypass <= 1
        /\ l \in Waiting => lease[l].granted = 0
        /\ l \in Active => lease[l].granted \in lease[l].minimum .. lease[l].requested

\* A request is overtaken at most once for each request that waited before it, and
\* once more: the bounded bypass of maintain_child_cpu_leases adds up for the
\* requests behind the head, but no further.
OvertakingBounded == \A w \in Waiting : credit[w] >= 0

\* A request is granted or ended in the end, also a large one beside a stream of
\* small ones.
WaitingIsServed == \A l \in Leases : l \in Waiting ~> l \notin Waiting

\* The lease of an owner that is lost, or of a parent that ended, is ended: its tokens
\* return to the budget although nobody calls finish_child_cpu_lease for it.
LostIsReclaimed == \A l \in Leases : (l \in Live /\ ~Valid(l)) ~> l \notin Live

------------------------------------------------------------------------------
(* The inductive invariant behind the safety properties *)

\* The leases that wait are in a strict total order.
OrderTotal ==
    /\ \A l \in Leases : lease[l].older \subseteq Waiting \ {l}
    /\ \A a, b \in Waiting : /\ ~(Older(a, b) /\ Older(b, a))
                             /\ a # b => Older(a, b) \/ Older(b, a)

\* The requests at or before w that were not passed yet pay for what may still overtake w.
Unspent(w) == {a \in Waiting : (a = w \/ Older(a, w)) /\ lease[a].bypass = 0}

CreditCovers == \A w \in Waiting : Cardinality(Unspent(w)) <= credit[w]

LeaseInv ==
    /\ LeaseTypeOK
    /\ OrderTotal
    /\ LeasesCoherent
    /\ BudgetRespected
    /\ CreditCovers
=============================================================================
