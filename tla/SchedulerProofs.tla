--------------------------- MODULE SchedulerProofs ---------------------------
(***************************************************************************)
(* Proofs that the scheduler keeps its invariants for every set of runs,   *)
(* requests and capacities and any number of crashes and drains.           *)
(***************************************************************************)
EXTENDS Scheduler, FiniteSetTheorems, TLAPS

------------------------------------------------------------------------------
(* The allocation is the sum of the units *)

\* The pairs that Allocation counts.
Pairs(S, n) == {t \in S \X (1 .. MaxUnits) : t[2] <= rows[t[1]].req.units[n]}

\* The interval 1 .. k has k elements.
LEMMA IntervalCount ==
    ASSUME NEW k \in Nat
    PROVE  IsFiniteSet(1 .. k) /\ Cardinality(1 .. k) = k
<1>1. 1 \in Int /\ k \in Int
  OBVIOUS
<1>2. /\ IsFiniteSet(1 .. k)
      /\ Cardinality(1 .. k) = IF 1 > k THEN 0 ELSE k - 1 + 1
  BY <1>1, FS_Interval
<1> QED
  BY <1>2

\* Allocation of a set of runs is a natural number.
LEMMA AllocationNat ==
    ASSUME TypeOK, NEW n \in Names, NEW S \in SUBSET Runs
    PROVE  /\ IsFiniteSet(Pairs(S, n))
           /\ Allocation(S, n) = Cardinality(Pairs(S, n))
           /\ Allocation(S, n) \in Nat
<1>1. IsFiniteSet(S)
  BY ConstantsOK, FS_Subset
<1>2. IsFiniteSet(S \X (1 .. MaxUnits))
  <2>1. IsFiniteSet(1 .. MaxUnits)
    BY ConstantsOK, IntervalCount
  <2> QED
    BY <1>1, <2>1, FS_Product
<1>3. Pairs(S, n) \in SUBSET (S \X (1 .. MaxUnits))
  BY DEF Pairs
<1>4. IsFiniteSet(Pairs(S, n))
  BY <1>2, <1>3, FS_Subset
<1> QED
  BY <1>4, FS_CardinalityType DEF Allocation, Pairs

\* Admitting run r adds exactly its units.
LEMMA AllocationAdd ==
    ASSUME TypeOK, NEW n \in Names, NEW S \in SUBSET Runs, NEW r \in Runs, r \notin S
    PROVE  Allocation(S \cup {r}, n) = Allocation(S, n) + rows[r].req.units[n]
<1> DEFINE u == rows[r].req.units[n]
           P == {r} \X (1 .. u)
<1>1. u \in 0 .. MaxUnits
  BY DEF TypeOK, Row, Request
<1>2. IsFiniteSet(P) /\ Cardinality(P) = u
  <2>1. IsFiniteSet({r}) /\ Cardinality({r}) = 1
    BY FS_Singleton
  <2>2. IsFiniteSet(1 .. u) /\ Cardinality(1 .. u) = u
    <3>1. u \in Nat
      BY <1>1, ConstantsOK
    <3> HIDE DEF u
    <3> QED
      BY <3>1, IntervalCount
  <2>3. IsFiniteSet(P) /\ Cardinality(P) = 1 * u
    BY <2>1, <2>2, FS_Product
  <2> QED
    BY <2>3, <1>1, ConstantsOK
<1>3. Pairs(S \cup {r}, n) = Pairs(S, n) \cup P
  BY <1>1, ConstantsOK DEF Pairs
<1>4. Pairs(S, n) \cap P = {}
  BY DEF Pairs
<1>5. Cardinality(Pairs(S, n) \cup P)
        = Cardinality(Pairs(S, n)) + Cardinality(P) - Cardinality(Pairs(S, n) \cap P)
  BY <1>2, AllocationNat, FS_Union
<1>6. Cardinality(Pairs(S, n) \cap P) = 0
  BY <1>4, FS_EmptySet
<1>7. Cardinality(Pairs(S, n) \cup P) = Cardinality(Pairs(S, n)) + u
  BY <1>1, <1>2, <1>5, <1>6, AllocationNat, ConstantsOK
<1>8. Allocation(S \cup {r}, n) = Cardinality(Pairs(S \cup {r}, n))
  BY AllocationNat
<1> QED
  BY <1>3, <1>7, <1>8, AllocationNat

\* When all runs that run after a step are in T, the names are allocated no more
\* than T's requests ask for.
LEMMA AllocationWithin ==
    ASSUME TypeOK, TypeOK', NEW n \in Names, NEW T \in SUBSET Runs, Active' \subseteq T,
           \A r \in Active' : rows'[r].req = rows[r].req
    PROVE  /\ Allocation(Active, n)' <= Allocation(T, n)
           /\ Allocation(Active, n)' \in Nat /\ Allocation(T, n) \in Nat
<1> DEFINE Q == {t \in Active' \X (1 .. MaxUnits) : t[2] <= rows'[t[1]].req.units[n]}
<1>1. Active' \in SUBSET Runs
  OBVIOUS
<1>2. /\ IsFiniteSet(Pairs(T, n)) /\ Allocation(T, n) = Cardinality(Pairs(T, n))
      /\ Allocation(T, n) \in Nat
  BY AllocationNat
<1>3. Q \in SUBSET Pairs(T, n)
  BY DEF Pairs
<1>4. IsFiniteSet(Q) /\ Cardinality(Q) <= Cardinality(Pairs(T, n))
  BY <1>2, <1>3, FS_Subset
<1>5. Allocation(Active, n)' = Cardinality(Q) /\ Cardinality(Q) \in Nat
  BY <1>4, FS_CardinalityType DEF Allocation
<1> QED
  BY <1>2, <1>4, <1>5

------------------------------------------------------------------------------
(* Types *)

\* The initial state has the declared types.
LEMMA InitType == Init => TypeOK
<1> SUFFICES ASSUME Init PROVE TypeOK
  OBVIOUS
<1>1. Blank \in Row
  <2>1. (CHOOSE q \in Requests : TRUE) \in Request
    BY ConstantsOK
  <2> QED
    BY <2>1 DEF Blank, Row, Statuses, Terminal
<1>2. rows \in [Runs -> Row]
  BY <1>1 DEF Init
<1>3. published \in Capacity /\ caps \in Capacity
  BY DEF Init, Capacity, NoCapacity
<1>4. faults \in 0 .. MaxFaults /\ drains \in 0 .. MaxDrains /\ nextSeq \in Nat
  BY ConstantsOK DEF Init
<1> QED
  BY <1>2, <1>3, <1>4 DEF Init, TypeOK, PCs

\* An exiting owner leaves well-typed variables behind.
LEMMA ExitType ==
    ASSUME Exit
    PROVE  /\ pc' \in PCs /\ caps' \in Capacity /\ pick' \in Runs \cup {NoRun}
           /\ last' \in Repos \cup {NoRepo} /\ hasLive' \in BOOLEAN
BY DEF Exit, PCs, Capacity, NoCapacity

\* A client's step keeps the types.
LEMMA ClientType == ASSUME TypeOK, Client PROVE TypeOK'
<1> USE DEF TypeOK, owner
<1>1. CASE \E r \in Runs : \E q \in Requests : Offer(r, q)
  <2>1. PICK r \in Runs, q \in Requests : Offer(r, q)
    BY <1>1
  <2>2. rows' \in [Runs -> Row]
    BY <2>1, ConstantsOK DEF Offer, Row, Statuses
  <2> QED
    BY <2>1, <2>2 DEF Offer
<1>2. CASE \E r \in Runs : Submit(r)
  <2>1. PICK r \in Runs : Submit(r)
    BY <1>2
  <2>2. PICK g \in Gates(rows[r].req) :
            rows' = [rows EXCEPT ![r] = [@ EXCEPT !.status = "queued",
                                                  !.seq = nextSeq, !.gate = g]]
    BY <2>1 DEF Submit
  <2>3. g \in Runs \cup {NoRun}
    BY <2>2 DEF Gates
  <2>4. rows' \in [Runs -> Row]
    BY <2>2, <2>3 DEF Row, Statuses
  <2> QED
    BY <2>1, <2>4 DEF Submit
<1>3. CASE \E r \in Runs : Cancel(r)
  <2>1. PICK r \in Runs : Cancel(r)
    BY <1>3
  <2>2. PICK s \in Statuses, c \in {"no", "client", "stop"} :
            rows' = [rows EXCEPT ![r] = [@ EXCEPT !.status = s, !.cancel = c]]
    <3>1. CASE rows[r].status = "queued"
      BY <2>1, <3>1 DEF Cancel, Statuses, Terminal
    <3>2. CASE rows[r].status = "running"
      <4>1. rows' = [rows EXCEPT ![r] = [@ EXCEPT !.status = "running", !.cancel = "client"]]
        BY <2>1, <3>2 DEF Cancel, Row
      <4> QED
        BY <4>1 DEF Statuses
    <3> QED
      BY <2>1, <3>1, <3>2 DEF Cancel
  <2>3. rows' \in [Runs -> Row]
    BY <2>2 DEF Row
  <2> QED
    BY <2>1, <2>3 DEF Cancel
<1>4. CASE \E r \in Runs : AdvanceLand(r)
  <2>1. PICK r \in Runs : AdvanceLand(r)
    BY <1>4
  <2>2. rows' \in [Runs -> Row]
    BY <2>1 DEF AdvanceLand, Row
  <2> QED
    BY <2>1, <2>2 DEF AdvanceLand
<1>5. CASE Clear
  <2>1. rows' \in [Runs -> Row]
    BY <1>5 DEF Clear, Row, Statuses
  <2> QED
    BY <1>5, <2>1 DEF Clear
<1>6. CASE BeginDrain
  BY <1>6, ConstantsOK DEF BeginDrain
<1>7. CASE DrainStatus
  BY <1>7 DEF DrainStatus
<1>8. CASE Resume
  BY <1>8 DEF Resume
<1> QED
  BY <1>1, <1>2, <1>3, <1>4, <1>5, <1>6, <1>7, <1>8 DEF Client

\* A step of the owner keeps the types.
LEMMA OwnerType ==
    ASSUME TypeOK, PickHolds,
           AcquireOwner \/ OwnerStep \/ StopSignal \/ Busy \/ Crash
    PROVE  TypeOK'
<1> USE DEF TypeOK, table
<1>1. CASE AcquireOwner
  BY <1>1, ConstantsOK DEF AcquireOwner, PCs
<1>2. CASE BootLoad
  BY <1>2 DEF BootLoad, PCs
<1>3. CASE BootMarker
  BY <1>3, ExitType DEF BootMarker, PCs
<1>4. CASE ActiveInvalid
  BY <1>4, ExitType DEF ActiveInvalid
<1>5. CASE Pump \/ ObserveEnd
  BY <1>5 DEF Pump, ObserveEnd, PCs
<1>6. CASE Pick
  <2>1. NextAdmissible \subseteq Runs
    BY DEF NextAdmissible, LaneHeads
  <2> QED
    BY <1>6, <2>1 DEF Pick, PCs
<1>7. CASE StartWorker
  <2>1. rows' \in [Runs -> Row]
    <3>1. CASE rows' = rows
      BY <3>1
    <3>2. CASE rows' # rows
      <4> DEFINE p == IF rows[pick].req.kind = "land" THEN "preflight" ELSE "none"
      <4>1. p \in {"none", "preflight", "gating", "publishing"}
        OBVIOUS
      <4>2. pick \in Runs
        BY <1>7 DEF StartWorker, PickHolds
      <4>3. rows' = [rows EXCEPT ![pick] = [@ EXCEPT !.status = "running", !.phase = p]]
        BY <1>7, <3>2 DEF StartWorker
      <4> HIDE DEF p
      <4> QED
        BY <4>1, <4>2, <4>3 DEF Row, Statuses
    <3> QED
      BY <3>1, <3>2
  <2> QED
    BY <1>7, <2>1, ExitType DEF StartWorker, PCs
<1>8. CASE StartDone
  <2>1. rows[pick].req.repo \in Repos
    BY <1>8 DEF StartDone, PickHolds, Row, Request
  <2> QED
    BY <1>8, <2>1 DEF StartDone, PCs
<1>9. CASE CheckLive
  BY <1>9 DEF CheckLive, PCs
<1>10. CASE CheckMarker
  BY <1>10, ExitType DEF CheckMarker, PCs
<1>11. CASE RequestInterruption
  <2>1. rows' \in [Runs -> Row]
    BY <1>11 DEF RequestInterruption, Row
  <2> QED
    BY <1>11, <2>1 DEF RequestInterruption, owner
<1>12. CASE StopDone
  BY <1>12, ExitType DEF StopDone
<1>13. CASE StopSignal
  BY <1>13, ConstantsOK DEF StopSignal, PCs
<1>14. CASE Busy
  BY <1>14, ExitType, ConstantsOK DEF Busy, PCs
<1>15. CASE Crash
  BY <1>15, ExitType, ConstantsOK DEF Crash
<1> QED
  BY <1>1, <1>2, <1>3, <1>4, <1>5, <1>6, <1>7, <1>8, <1>9, <1>10, <1>11,
     <1>12, <1>13, <1>14, <1>15 DEF OwnerStep

\* Every step keeps the types.
LEMMA NextType == ASSUME TypeOK, PickHolds, [Next]_vars PROVE TypeOK'
<1>1. CASE \E r \in Runs : Finish(r)
  <2>1. PICK r \in Runs : Finish(r)
    BY <1>1
  <2>2. PICK s \in Outcomes(r) :
            rows' = [rows EXCEPT ![r] = [@ EXCEPT !.status = s, !.phase = "none"]]
    BY <2>1 DEF Finish
  <2>3. s \in Statuses
    BY DEF Outcomes, Statuses, Terminal
  <2>4. rows' \in [Runs -> Row]
    BY <2>2, <2>3 DEF TypeOK, Row
  <2> QED
    BY <2>1, <2>4 DEF TypeOK, Finish, owner
<1>2. CASE UNCHANGED vars
  BY <1>2 DEF TypeOK, vars
<1> QED
  BY <1>1, <1>2, ClientType, OwnerType DEF Next
------------------------------------------------------------------------------
(* What one step may do to one row *)

\* A client has validated its request.
Offered(r) ==
    /\ rows[r].status = "absent"
    /\ \E q \in Requests :
          rows'[r] = [rows[r] EXCEPT !.status = "offered", !.req = q]

\* The row is inserted, while the queue is open.
Inserted(r) ==
    /\ rows[r].status = "offered"
    /\ marker = "open"
    /\ nextSeq' = nextSeq + 1
    /\ \E g \in Gates(rows[r].req) :
          rows'[r] = [rows[r] EXCEPT !.status = "queued", !.seq = nextSeq, !.gate = g]

\* A queued run is cancelled at once.
Withdrawn(r) ==
    /\ rows[r].status = "queued"
    /\ rows'[r] = [rows[r] EXCEPT !.status = "cancelled", !.cancel = "client"]

\* A running one is asked to stop, unless it publishes.
AskedToStop(r) ==
    /\ rows[r].status = "running"
    /\ ~Authoritative(r)
    /\ \E c \in {"client", "stop"} : rows'[r] = [rows[r] EXCEPT !.cancel = c]

\* History is cleared while nothing is live.
Deleted(r) ==
    /\ rows[r].status \in Terminal
    /\ Live = {}
    /\ rows'[r] = [rows[r] EXCEPT !.status = "cleared"]

\* A land that is not asked to stop reports its phase.
Advanced(r) ==
    /\ rows[r].status = "running"
    /\ rows[r].cancel = "no"
    /\ \E p \in {"gating", "publishing"} : rows'[r] = [rows[r] EXCEPT !.phase = p]

\* The owner starts the run it has picked.
Admitted(r) ==
    /\ pc = "picked" /\ pc' = "started" /\ r = pick
    /\ caps' = caps
    /\ rows[r].status = "queued"
    /\ \E p \in {"preflight", "none"} :
          rows'[r] = [rows[r] EXCEPT !.status = "running", !.phase = p]

\* The owner records a verdict.
Ended(r) ==
    /\ rows[r].status = "running"
    /\ \E s \in Terminal : rows'[r] = [rows[r] EXCEPT !.status = s, !.phase = "none"]

\* Nothing else happens to a row.
RowStep(r) ==
    \/ rows'[r] = rows[r]
    \/ Offered(r)
    \/ Inserted(r)
    \/ Withdrawn(r)
    \/ AskedToStop(r)
    \/ Deleted(r)
    \/ Advanced(r)
    \/ Admitted(r)
    \/ Ended(r)

\* The sequence counter moves only when a client inserts a row.
LEMMA SequenceMoves ==
    ASSUME [Next]_vars, nextSeq' # nextSeq
    PROVE  \E r \in Runs : Submit(r)
<1>1. CASE Client
  BY <1>1 DEF Client, Offer, Cancel, AdvanceLand, Clear, BeginDrain, DrainStatus, Resume
<1>2. CASE OwnerStep
  BY <1>2 DEF OwnerStep, BootLoad, BootMarker, ActiveInvalid, Pump, ObserveEnd, Pick, StartWorker,
              StartDone, CheckLive, CheckMarker, RequestInterruption, StopDone, table
<1>3. CASE \/ AcquireOwner \/ StopSignal \/ Busy \/ Crash \/ UNCHANGED vars
           \/ \E r \in Runs : Finish(r)
  BY <1>3 DEF AcquireOwner, StopSignal, Busy, Crash, Finish, table, vars
<1> QED
  BY <1>1, <1>2, <1>3 DEF Next

\* Every step of the system changes every row in one of these ways, if at all,
\* and the sequence counter never goes back.
LEMMA NextRows ==
    ASSUME TypeOK, PickHolds, [Next]_vars
    PROVE  /\ \A r \in Runs : RowStep(r)
           /\ nextSeq' \in Nat /\ nextSeq' >= nextSeq
<1> USE DEF TypeOK
<1>1. ASSUME NEW r \in Runs, NEW q \in Requests, Offer(r, q)
      PROVE  \A x \in Runs : rows'[x] = rows[x] \/ Offered(x)
  BY <1>1 DEF Offer, Offered
<1>2. ASSUME NEW r \in Runs, Submit(r)
      PROVE  \A x \in Runs : rows'[x] = rows[x] \/ Inserted(x)
  BY <1>2 DEF Submit, Inserted
<1>3. ASSUME NEW r \in Runs, Cancel(r)
      PROVE  \A x \in Runs : rows'[x] = rows[x] \/ Withdrawn(x) \/ AskedToStop(x)
  BY <1>3 DEF Cancel, Withdrawn, AskedToStop
<1>4. ASSUME NEW r \in Runs, AdvanceLand(r)
      PROVE  \A x \in Runs : rows'[x] = rows[x] \/ Advanced(x)
  BY <1>4 DEF AdvanceLand, Advanced
<1>5. ASSUME Clear
      PROVE  \A x \in Runs : rows'[x] = rows[x] \/ Deleted(x)
  BY <1>5 DEF Clear, Deleted
<1>6. ASSUME NEW r \in Runs, Finish(r)
      PROVE  \A x \in Runs : rows'[x] = rows[x] \/ Ended(x)
  <2>1. Outcomes(r) \subseteq Terminal
    BY DEF Outcomes, Terminal
  <2> QED
    BY <1>6, <2>1 DEF Finish, Ended
<1>7. ASSUME StartWorker
      PROVE  \A x \in Runs : rows'[x] = rows[x] \/ Admitted(x)
  <2>1. pick \in Runs
    BY <1>7 DEF StartWorker, PickHolds
  <2> QED
    BY <1>7, <2>1 DEF StartWorker, Admitted
<1>8. ASSUME RequestInterruption
      PROVE  \A x \in Runs : rows'[x] = rows[x] \/ AskedToStop(x)
  BY <1>8 DEF RequestInterruption, AskedToStop, Active
<1>9. CASE nextSeq' = nextSeq
  <2>1. CASE rows' = rows
    BY <2>1, <1>9 DEF RowStep
  <2>2. CASE Client /\ rows' # rows
    BY <2>2, <1>9, <1>1, <1>2, <1>3, <1>4, <1>5
       DEF Client, RowStep, BeginDrain, DrainStatus, Resume
  <2>3. CASE OwnerStep /\ rows' # rows
    BY <2>3, <1>9, <1>7, <1>8
       DEF OwnerStep, RowStep, BootLoad, BootMarker, ActiveInvalid, Pump, ObserveEnd,
           Pick, StartDone, CheckLive, CheckMarker, StopDone, table
  <2>4. CASE \E r \in Runs : Finish(r)
    BY <2>4, <1>9, <1>6 DEF RowStep
  <2>5. CASE AcquireOwner \/ StopSignal \/ Busy \/ Crash \/ UNCHANGED vars
    BY <2>5, <1>9 DEF AcquireOwner, StopSignal, Busy, Crash, table, vars, RowStep
  <2> QED
    BY <2>1, <2>2, <2>3, <2>4, <2>5 DEF Next
<1>10. CASE nextSeq' # nextSeq
  <2>1. \E r \in Runs : Submit(r)
    BY <1>10, SequenceMoves
  <2>2. nextSeq' = nextSeq + 1
    BY <2>1 DEF Submit
  <2> QED
    BY <2>1, <2>2, <1>2 DEF RowStep
<1> QED
  BY <1>9, <1>10
------------------------------------------------------------------------------
(* The parts of the invariant that speak of rows alone *)

\* Inserted rows stay below the sequence counter, waiting rows carry no stop request.
LEMMA RowsWaiting ==
    ASSUME TypeOK, TypeOK', PickHolds, SequenceBelowNext, WaitingUncancelled, [Next]_vars
    PROVE  SequenceBelowNext' /\ WaitingUncancelled'
<1>1. /\ \A r \in Runs : RowStep(r)
      /\ nextSeq' \in Nat /\ nextSeq' >= nextSeq
  BY NextRows
<1> SUFFICES ASSUME NEW r \in Runs
             PROVE  /\ rows'[r].status \notin {"absent", "offered"} => rows'[r].seq < nextSeq'
                    /\ rows'[r].status \in {"absent", "offered", "queued"} => rows'[r].cancel = "no"
  BY DEF SequenceBelowNext, WaitingUncancelled
<1>2. rows[r] \in Row
  BY DEF TypeOK
<1>3. CASE rows'[r] = rows[r]
  BY <1>3, <1>1, <1>2 DEF Row, Terminal, SequenceBelowNext, WaitingUncancelled, TypeOK
<1>4. CASE Offered(r)
  BY <1>4, <1>1, <1>2 DEF Offered, Row, Terminal, SequenceBelowNext, WaitingUncancelled, TypeOK
<1>5. CASE Inserted(r)
  BY <1>5, <1>1, <1>2 DEF Inserted, Row, Terminal, SequenceBelowNext, WaitingUncancelled, TypeOK
<1>6. CASE Withdrawn(r)
  BY <1>6, <1>1, <1>2 DEF Withdrawn, Row, Terminal, SequenceBelowNext, WaitingUncancelled, TypeOK
<1>7. CASE AskedToStop(r)
  BY <1>7, <1>1, <1>2 DEF AskedToStop, Row, Terminal, SequenceBelowNext, WaitingUncancelled, TypeOK
<1>8. CASE Deleted(r)
  BY <1>8, <1>1, <1>2 DEF Deleted, Row, Terminal, SequenceBelowNext, WaitingUncancelled, TypeOK
<1>9. CASE Advanced(r)
  BY <1>9, <1>1, <1>2 DEF Advanced, Row, Terminal, SequenceBelowNext, WaitingUncancelled, TypeOK
<1>10. CASE Admitted(r)
  BY <1>10, <1>1, <1>2 DEF Admitted, Row, Terminal, SequenceBelowNext, WaitingUncancelled, TypeOK
<1>11. CASE Ended(r)
  BY <1>11, <1>1, <1>2 DEF Ended, Row, Terminal, SequenceBelowNext, WaitingUncancelled, TypeOK
<1> QED
  BY <1>1, <1>3, <1>4, <1>5, <1>6, <1>7, <1>8, <1>9, <1>10, <1>11 DEF RowStep

\* Publication and stop requests exclude each other.
LEMMA RowsPublication ==
    ASSUME TypeOK, TypeOK', PickHolds, WaitingUncancelled, PublicationUncancelled, [Next]_vars
    PROVE  PublicationUncancelled'
<1>1. \A r \in Runs : RowStep(r)
  BY NextRows
<1> SUFFICES ASSUME NEW r \in Runs, rows'[r].status = "running", Authoritative(r)'
             PROVE  rows'[r].cancel = "no"
  BY DEF PublicationUncancelled, Active
<1>2. rows[r] \in Row
  BY DEF TypeOK
<1>3. CASE rows'[r] = rows[r]
  BY <1>3, <1>2 DEF Row, Terminal, WaitingUncancelled, PublicationUncancelled, Authoritative, Active
<1>4. CASE Offered(r)
  BY <1>4, <1>2 DEF Offered, Row, Terminal, WaitingUncancelled, PublicationUncancelled, Authoritative, Active
<1>5. CASE Inserted(r)
  BY <1>5, <1>2 DEF Inserted, Row, Terminal, WaitingUncancelled, PublicationUncancelled, Authoritative, Active
<1>6. CASE Withdrawn(r)
  BY <1>6, <1>2 DEF Withdrawn, Row, Terminal, WaitingUncancelled, PublicationUncancelled, Authoritative, Active
<1>7. CASE AskedToStop(r)
  BY <1>7, <1>2 DEF AskedToStop, Row, Terminal, WaitingUncancelled, PublicationUncancelled, Authoritative, Active
<1>8. CASE Deleted(r)
  BY <1>8, <1>2 DEF Deleted, Row, Terminal, WaitingUncancelled, PublicationUncancelled, Authoritative, Active
<1>9. CASE Advanced(r)
  BY <1>9, <1>2 DEF Advanced, Row, Terminal, WaitingUncancelled, PublicationUncancelled, Authoritative, Active
<1>10. CASE Admitted(r)
  BY <1>10, <1>2 DEF Admitted, Row, Terminal, WaitingUncancelled, PublicationUncancelled, Authoritative, Active
<1>11. CASE Ended(r)
  BY <1>11, <1>2 DEF Ended, Row, Terminal, WaitingUncancelled, PublicationUncancelled, Authoritative, Active
<1> QED
  BY <1>1, <1>3, <1>4, <1>5, <1>6, <1>7, <1>8, <1>9, <1>10, <1>11 DEF RowStep

\* A live merge keeps its receipt.
LEMMA RowsReceipt ==
    ASSUME TypeOK, TypeOK', PickHolds, MergeReceiptHeld, [Next]_vars
    PROVE  MergeReceiptHeld'
<1>1. \A r \in Runs : RowStep(r)
  BY NextRows
<1> SUFFICES ASSUME NEW m \in Runs, rows'[m].status \in {"queued", "running"},
                    rows'[m].req.kind = "merge"
             PROVE  /\ rows'[m].gate \in Runs
                    /\ GateMatches(rows[m].gate, rows[m].req)'
  BY DEF MergeReceiptHeld, Live, Active, Queued
<1>2. /\ rows'[m].gate \in Runs
      /\ GateMatches(rows'[m].gate, rows'[m].req)
      /\ rows[m].status = "offered" \/ m \in Live
  <2>1. CASE Inserted(m)
    BY <2>1 DEF Inserted, Gates, TypeOK, Row
  <2>2. CASE ~Inserted(m)
    <3>0. rows[m] \in Row
      BY DEF TypeOK
    <3>1. m \in Live /\ rows'[m].req = rows[m].req /\ rows'[m].gate = rows[m].gate
      <4>1. CASE rows'[m] = rows[m]
        BY <4>1, <3>0 DEF Row, Terminal, Live, Active, Queued
      <4>2. CASE Offered(m)
        BY <4>2, <3>0 DEF Offered, Row, Terminal, Live, Active, Queued
      <4>3. CASE Withdrawn(m)
        BY <4>3, <3>0 DEF Withdrawn, Row, Terminal, Live, Active, Queued
      <4>4. CASE AskedToStop(m)
        BY <4>4, <3>0 DEF AskedToStop, Row, Terminal, Live, Active, Queued
      <4>5. CASE Deleted(m)
        BY <4>5, <3>0 DEF Deleted, Row, Terminal, Live, Active, Queued
      <4>6. CASE Advanced(m)
        BY <4>6, <3>0 DEF Advanced, Row, Terminal, Live, Active, Queued
      <4>7. CASE Admitted(m)
        BY <4>7, <3>0 DEF Admitted, Row, Terminal, Live, Active, Queued
      <4>8. CASE Ended(m)
        BY <4>8, <3>0 DEF Ended, Row, Terminal, Live, Active, Queued
      <4> QED
        BY <1>1, <2>2, <4>1, <4>2, <4>3, <4>4, <4>5, <4>6, <4>7, <4>8 DEF RowStep
    <3> QED
      BY <3>1 DEF MergeReceiptHeld
  <2> QED
    BY <2>1, <2>2
<1> DEFINE g == rows'[m].gate
<1>3. g \in Runs /\ rows[g].status = "passed"
  BY <1>2 DEF GateMatches
<1>4. rows'[g] = rows[g]
  <2>1. CASE Deleted(g)
    <3>1. Live = {} /\ rows[m].status = "offered"
      BY <2>1, <1>2 DEF Deleted
    <3>2. Inserted(m)
      BY <1>1, <3>1 DEF RowStep, Offered, Withdrawn, AskedToStop, Deleted, Advanced, Admitted,
                        Ended, TypeOK, Row, Terminal
    <3>3. nextSeq' # nextSeq
      BY <3>2 DEF Inserted, TypeOK
    <3>4. PICK r \in Runs : Submit(r)
      BY <3>3, SequenceMoves
    <3>5. rows'[g].status = "passed" \/ rows'[g].status = "queued"
      BY <3>4, <1>3 DEF Submit, TypeOK, Row
    <3> QED
      BY <3>5, <2>1, <1>3 DEF Deleted, TypeOK, Row
  <2>2. CASE ~Deleted(g)
    BY <2>2, <1>1, <1>3 DEF RowStep, Offered, Inserted, Withdrawn, AskedToStop, Advanced,
                            Admitted, Ended
  <2> QED
    BY <2>1, <2>2
<1> QED
  BY <1>2, <1>3, <1>4 DEF GateMatches
------------------------------------------------------------------------------
(* What one step may do to the running and the queued rows *)

\* Only the owner's pick starts running, only an insertion queues a row, and an
\* inserted row keeps its request and its place.
LEMMA LiveStep ==
    ASSUME TypeOK, PickHolds, [Next]_vars, NEW r \in Runs
    PROVE  /\ r \in Active' => r \in Active \/ Admitted(r)
           /\ r \in Queued' => r \in Queued \/ Inserted(r)
           /\ rows[r].status # "absent" => rows'[r].req = rows[r].req
           /\ rows[r].status \notin {"absent", "offered"} =>
                 rows'[r].seq = rows[r].seq /\ rows'[r].status \notin {"absent", "offered"}
<1>1. RowStep(r)
  BY NextRows
<1>2. rows[r] \in Row
  BY DEF TypeOK
<1>4. CASE rows'[r] = rows[r]
  BY <1>2, <1>4 DEF Active, Queued
<1>5. CASE Offered(r)
  BY <1>2, <1>5 DEF Offered, Row, Terminal, Active, Queued
<1>6. CASE Inserted(r)
  BY <1>2, <1>6 DEF Inserted, Row, Terminal, Active, Queued
<1>7. CASE Withdrawn(r)
  BY <1>2, <1>7 DEF Withdrawn, Row, Terminal, Active, Queued
<1>8. CASE AskedToStop(r)
  BY <1>2, <1>8 DEF AskedToStop, Row, Terminal, Active, Queued
<1>9. CASE Deleted(r)
  BY <1>2, <1>9 DEF Deleted, Row, Terminal, Active, Queued
<1>10. CASE Advanced(r)
  BY <1>2, <1>10 DEF Advanced, Row, Terminal, Active, Queued
<1>11. CASE Admitted(r)
  BY <1>2, <1>11 DEF Admitted, Row, Terminal, Active, Queued
<1>12. CASE Ended(r)
  BY <1>2, <1>12 DEF Ended, Row, Terminal, Active, Queued
<1> QED
  BY <1>1, <1>4, <1>5, <1>6, <1>7, <1>8, <1>9, <1>10, <1>11, <1>12 DEF RowStep

\* Where a pick comes from.
LEMMA PickStep ==
    ASSUME [Next]_vars
    PROVE  /\ pc' = "picked" =>
                 \/ pc = "picked" /\ pick' = pick /\ caps' = caps
                 \/ /\ pick' \in NextAdmissible /\ rows' = rows /\ caps' = caps
           /\ pc' = "started" => pc \in {"picked", "started"} /\ pick' = pick
<1> USE DEF table, owner
<1>1. CASE Client
  BY <1>1 DEF Client, Offer, Submit, Cancel, AdvanceLand, Clear, BeginDrain, DrainStatus, Resume
<1>2. CASE BootLoad \/ BootMarker \/ ActiveInvalid \/ Pump \/ ObserveEnd \/ CheckLive
           \/ CheckMarker \/ StopDone \/ StartDone
  BY <1>2 DEF BootLoad, BootMarker, ActiveInvalid, Pump, ObserveEnd, CheckLive, CheckMarker,
              StopDone, StartDone, Exit
<1>3. CASE Pick
  BY <1>3 DEF Pick
<1>4. CASE StartWorker
  BY <1>4 DEF StartWorker, Exit
<1>5. CASE RequestInterruption
  BY <1>5 DEF RequestInterruption
<1>6. CASE \E r \in Runs : Finish(r)
  BY <1>6 DEF Finish
<1>7. CASE AcquireOwner \/ StopSignal \/ Busy \/ Crash \/ UNCHANGED vars
  BY <1>7 DEF AcquireOwner, StopSignal, Busy, Crash, Exit, vars
<1> QED
  BY <1>1, <1>2, <1>3, <1>4, <1>5, <1>6, <1>7 DEF Next, OwnerStep

\* The states of an owner that has accepted the running rows.
Working == {"observe", "admit", "picked", "started", "check", "marker"}

\* An owner starts to work only when the running rows fit, and keeps its capacities.
LEMMA WorkingStep ==
    ASSUME [Next]_vars, pc' \in Working
    PROVE  \/ pc \in Working /\ caps' = caps
           \/ pc = "pump" /\ ActiveValid /\ rows' = rows /\ caps' = caps
<1> USE DEF table, owner, Working
<1>1. CASE Client
  BY <1>1 DEF Client, Offer, Submit, Cancel, AdvanceLand, Clear, BeginDrain, DrainStatus, Resume
<1>2. CASE BootLoad \/ BootMarker \/ ActiveInvalid \/ Pump \/ ObserveEnd \/ CheckLive
           \/ CheckMarker \/ StopDone \/ StartDone
  BY <1>2 DEF BootLoad, BootMarker, ActiveInvalid, Pump, ObserveEnd, CheckLive, CheckMarker,
              StopDone, StartDone, Exit
<1>3. CASE Pick
  BY <1>3 DEF Pick
<1>4. CASE StartWorker
  BY <1>4 DEF StartWorker, Exit
<1>5. CASE RequestInterruption
  BY <1>5 DEF RequestInterruption
<1>6. CASE \E r \in Runs : Finish(r)
  BY <1>6 DEF Finish
<1>7. CASE AcquireOwner \/ StopSignal \/ Busy \/ Crash \/ UNCHANGED vars
  BY <1>7 DEF AcquireOwner, StopSignal, Busy, Crash, Exit, vars
<1> QED
  BY <1>1, <1>2, <1>3, <1>4, <1>5, <1>6, <1>7 DEF Next, OwnerStep

\* An owner that waits to read the marker has just looked at the table, or has not moved.
LEMMA SeenStep ==
    ASSUME [Next]_vars, pc' \in {"bootmarker", "marker"}
    PROVE  \/ pc' = pc /\ hasLive' = hasLive
           \/ rows' = rows /\ hasLive' = (Live # {})
<1> USE DEF table, owner
<1>1. CASE Client
  BY <1>1 DEF Client, Offer, Submit, Cancel, AdvanceLand, Clear, BeginDrain, DrainStatus, Resume
<1>2. CASE BootLoad \/ BootMarker \/ ActiveInvalid \/ Pump \/ ObserveEnd \/ CheckLive
           \/ CheckMarker \/ StopDone \/ StartDone
  BY <1>2 DEF BootLoad, BootMarker, ActiveInvalid, Pump, ObserveEnd, CheckLive, CheckMarker,
              StopDone, StartDone, Exit
<1>3. CASE Pick \/ StartWorker \/ RequestInterruption
  BY <1>3 DEF Pick, StartWorker, RequestInterruption, Exit
<1>4. CASE \E r \in Runs : Finish(r)
  BY <1>4 DEF Finish
<1>5. CASE AcquireOwner \/ StopSignal \/ Busy \/ Crash \/ UNCHANGED vars
  BY <1>5 DEF AcquireOwner, StopSignal, Busy, Crash, Exit, vars
<1> QED
  BY <1>1, <1>2, <1>3, <1>4, <1>5 DEF Next, OwnerStep

\* How a queue comes to be drained, and who may act while it is.
LEMMA DrainedStep ==
    ASSUME [Next]_vars, marker' = "drained"
    PROVE  \/ /\ marker = "drained"
              /\ \/ pc' = pc
                 \/ pc' \in {"none", "boot"}
                 \/ pc = "boot" /\ pc' = "bootmarker"
                 \/ pc \notin {"none", "boot", "bootmarker"}
           \/ /\ rows' = rows /\ pc' = "none"
              /\ \/ pc \in {"bootmarker", "marker"} /\ ~hasLive
                 \/ Live = {}
<1> USE DEF table, owner
<1>1. CASE Client
  BY <1>1 DEF Client, Offer, Submit, Cancel, AdvanceLand, Clear, BeginDrain, DrainStatus, Resume
<1>2. CASE BootLoad \/ BootMarker \/ CheckMarker
  BY <1>2 DEF BootLoad, BootMarker, CheckMarker, Exit
<1>3. CASE ActiveInvalid \/ Pump \/ ObserveEnd \/ CheckLive \/ StopDone \/ StartDone
           \/ Pick \/ StartWorker \/ RequestInterruption
  BY <1>3 DEF ActiveInvalid, Pump, ObserveEnd, CheckLive, StopDone, StartDone, Pick, StartWorker,
              RequestInterruption, Exit
<1>4. CASE \E r \in Runs : Finish(r)
  BY <1>4 DEF Finish
<1>5. CASE AcquireOwner \/ StopSignal \/ Busy \/ Crash \/ UNCHANGED vars
  BY <1>5 DEF AcquireOwner, StopSignal, Busy, Crash, Exit, vars
<1> QED
  BY <1>1, <1>2, <1>3, <1>4, <1>5 DEF Next, OwnerStep
------------------------------------------------------------------------------
(* The parts of the invariant that tie the owner to the table *)

\* A run that runs after a step ran before it or is the pick just admitted.
LEMMA ActiveStep ==
    ASSUME TypeOK, PickHolds, [Next]_vars
    PROVE  /\ Active' \subseteq Runs /\ Active \subseteq Runs
           /\ \A r \in Active' : rows'[r].req = rows[r].req
           /\ \A r \in Active' : r \in Active \/ Admitted(r)
           /\ pc' # "started" \/ pc # "picked" => Active' \subseteq Active
<1>1. Active' \subseteq Runs /\ Active \subseteq Runs
  BY DEF Active
<1>2. ASSUME NEW r \in Active'
      PROVE  rows'[r].req = rows[r].req /\ (r \in Active \/ Admitted(r))
  <2>1. r \in Active \/ Admitted(r)
    BY <1>1, <1>2, LiveStep
  <2>2. rows[r].status # "absent"
    BY <2>1 DEF Active, Admitted
  <2> QED
    BY <1>1, <1>2, <2>1, <2>2, LiveStep
<1> QED
  BY <1>1, <1>2 DEF Admitted

\* The lanes stay exclusive: the pick was checked against the running rows, and
\* none has started since.
LEMMA LaneStep ==
    ASSUME TypeOK, PickHolds, LaneExclusion, [Next]_vars
    PROVE  LaneExclusion'
<1> SUFFICES ASSUME NEW a \in Active', NEW b \in Active', a # b,
                    SameRepo(a, b)', Barrier(a)'
             PROVE  ~Barrier(b)' /\ ~SameWorktree(a, b)'
  BY DEF LaneExclusion
<1>1. SameRepo(a, b) /\ Barrier(a)
  BY ActiveStep DEF SameRepo, Barrier
<1>2. (Barrier(b)' <=> Barrier(b)) /\ (SameWorktree(a, b)' <=> SameWorktree(a, b))
  BY ActiveStep DEF SameWorktree, Barrier
<1>3. CASE a \in Active /\ b \in Active
  BY <1>1, <1>2, <1>3 DEF LaneExclusion
<1>4. CASE Admitted(a) /\ b \in Active
  <2>1. ~LaneBlockedBy(a, b)
    BY <1>4 DEF PickHolds, Admitted
  <2> QED
    BY <1>1, <1>2, <2>1 DEF LaneBlockedBy
<1>5. CASE Admitted(b) /\ a \in Active
  <2>1. ~LaneBlockedBy(b, a)
    BY <1>5 DEF PickHolds, Admitted
  <2> QED
    BY <1>1, <1>2, <2>1 DEF LaneBlockedBy, SameRepo, SameWorktree
<1>6. ~(Admitted(a) /\ Admitted(b))
  BY DEF Admitted
<1> QED
  BY <1>3, <1>4, <1>5, <1>6, ActiveStep

\* The capacities stay respected: an admission adds what the pick was found to fit.
LEMMA CapacityStep ==
    ASSUME TypeOK, TypeOK', PickHolds, CapacityRespected, [Next]_vars
    PROVE  CapacityRespected'
<1> SUFFICES ASSUME pc' \in Working, NEW n \in Names
             PROVE  Allocation(Active, n)' <= caps'[n]
  BY DEF CapacityRespected, Working
<1>0. caps[n] \in Nat /\ Active \in SUBSET Runs
  BY ActiveStep DEF TypeOK, Capacity
<1>1. CASE pc = "pump" /\ ActiveValid /\ rows' = rows /\ caps' = caps
  <2>1. Allocation(Active, n) <= caps[n]
    BY <1>1 DEF ActiveValid
  <2>2. Allocation(Active, n)' = Allocation(Active, n)
    BY <1>1 DEF Allocation, Active
  <2> QED
    BY <1>1, <2>1, <2>2
<1>2. CASE pc \in Working /\ caps' = caps
  <2>1. Allocation(Active, n) <= caps[n]
    BY <1>2 DEF CapacityRespected, Working
  <2>2. CASE Active' \subseteq Active
    <3>1. /\ Allocation(Active, n)' <= Allocation(Active, n)
          /\ Allocation(Active, n)' \in Nat /\ Allocation(Active, n) \in Nat
      BY <1>0, <2>2, ActiveStep, AllocationWithin
    <3> QED
      BY <1>0, <1>2, <2>1, <3>1
  <2>3. CASE ~(Active' \subseteq Active)
    <3>1. PICK r \in Active' : Admitted(r)
      BY <2>3, ActiveStep
    <3>2. /\ pick \in Runs /\ pick \notin Active /\ ~ResourceBlocked(pick)
          /\ Active' \subseteq Active \cup {pick}
      BY <3>1, ActiveStep DEF Admitted, PickHolds, Active
    <3>3. Active \cup {pick} \in SUBSET Runs
      BY <1>0, <3>2
    <3>4. /\ Allocation(Active, n)' <= Allocation(Active \cup {pick}, n)
          /\ Allocation(Active, n)' \in Nat /\ Allocation(Active \cup {pick}, n) \in Nat
      BY <3>2, <3>3, ActiveStep, AllocationWithin
    <3>5. Allocation(Active \cup {pick}, n) = Allocation(Active, n) + rows[pick].req.units[n]
      BY <1>0, <3>2, AllocationAdd
    <3>6. rows[pick].req.units[n] \in Nat /\ Allocation(Active, n) \in Nat
      BY <1>0, <3>2, AllocationNat, ConstantsOK DEF TypeOK, Row, Request
    <3>7. Allocation(Active, n) + rows[pick].req.units[n] <= caps[n]
      BY <1>0, <2>1, <3>2, <3>6 DEF ResourceBlocked
    <3> QED
      BY <1>0, <1>2, <3>4, <3>5, <3>7
  <2> QED
    BY <2>2, <2>3
<1> QED
  BY <1>1, <1>2, WorkingStep

\* What the owner saw when it looked for live rows remains true of the running ones.
LEMMA SeenHolds ==
    ASSUME TypeOK, PickHolds, NothingLiveSeen, [Next]_vars
    PROVE  NothingLiveSeen'
<1> SUFFICES ASSUME pc' \in {"bootmarker", "marker"}, ~hasLive'
             PROVE  Active' = {}
  BY DEF NothingLiveSeen
<1>1. CASE pc' = pc /\ hasLive' = hasLive
  BY <1>1, ActiveStep DEF NothingLiveSeen
<1>2. CASE rows' = rows /\ hasLive' = (Live # {})
  BY <1>2 DEF Active, Live
<1> QED
  BY <1>1, <1>2, SeenStep

\* A drained queue stays idle.
LEMMA DrainedHolds ==
    ASSUME TypeOK, PickHolds, NothingLiveSeen, DrainedRunsNothing, [Next]_vars
    PROVE  DrainedRunsNothing'
<1> SUFFICES ASSUME marker' = "drained"
             PROVE  Active' = {} /\ pc' \in {"none", "boot", "bootmarker"}
  BY DEF DrainedRunsNothing
<1>1. CASE marker = "drained"
  <2>1. Active = {} /\ pc \in {"none", "boot", "bootmarker"}
    BY <1>1 DEF DrainedRunsNothing
  <2>2. pc' \in {"none", "boot", "bootmarker"}
    BY <2>1, DrainedStep
  <2> QED
    BY <2>1, <2>2, ActiveStep
<1>2. CASE marker # "drained"
  <2>1. /\ rows' = rows /\ pc' = "none"
        /\ (pc \in {"bootmarker", "marker"} /\ ~hasLive) \/ Live = {}
    BY <1>2, DrainedStep
  <2>2. Active = {}
    BY <2>1 DEF NothingLiveSeen, Live
  <2> QED
    BY <2>1, <2>2 DEF Active
<1> QED
  BY <1>1, <1>2

\* The owner's decision survives what clients do before it is carried out: rows
\* inserted since come later in the queue and no run has started.
LEMMA PickStays ==
    ASSUME TypeOK, TypeOK', PickHolds, SequenceBelowNext, [Next]_vars
    PROVE  PickHolds'
<1>1. NextAdmissible \subseteq Runs
  BY DEF NextAdmissible, LaneHeads
<1>2. pc' \in {"picked", "started"} => pick' \in Runs
  BY <1>1, PickStep DEF PickHolds
<1>3. ASSUME pc' = "picked", pc = "picked", pick' = pick, caps' = caps
      PROVE  /\ rows'[pick].status \notin {"absent", "offered", "running"}
             /\ rows'[pick].status = "queued" =>
                   /\ \A c \in Active' : ~LaneBlockedBy(pick, c)'
                   /\ \A c \in Queued' : Earlier(c, pick)' => ~LaneBlockedBy(pick, c)'
                   /\ ~ResourceBlocked(pick)'
  <2>1. pick \in Runs /\ rows[pick].status \notin {"absent", "offered", "running"}
    BY <1>3 DEF PickHolds
  <2>2. Active' \subseteq Active
    BY <1>3, ActiveStep
  <2>3. /\ rows'[pick].status \notin {"absent", "offered"}
        /\ rows'[pick].req = rows[pick].req /\ rows'[pick].seq = rows[pick].seq
    BY <2>1, LiveStep
  <2>4. rows'[pick].status # "running"
    BY <2>1, <2>2 DEF Active
  <2>5. ASSUME rows'[pick].status = "queued"
        PROVE  /\ \A c \in Active' : ~LaneBlockedBy(pick, c)'
               /\ \A c \in Queued' : Earlier(c, pick)' => ~LaneBlockedBy(pick, c)'
               /\ ~ResourceBlocked(pick)'
    <3>1. rows[pick].status = "queued"
      BY <2>1, <2>5, LiveStep DEF Queued, Inserted
    <3>2. ASSUME NEW c \in Active' PROVE ~LaneBlockedBy(pick, c)'
      <4>1. ~LaneBlockedBy(pick, c)
        BY <1>3, <2>2, <3>1 DEF PickHolds
      <4>2. rows'[c].req = rows[c].req
        BY ActiveStep
      <4> QED
        BY <1>3, <2>3, <4>1, <4>2 DEF LaneBlockedBy, SameRepo, SameWorktree, Barrier
    <3>3. ASSUME NEW c \in Queued', Earlier(c, pick)' PROVE ~LaneBlockedBy(pick, c)'
      <4>1. c \in Runs
        BY DEF Queued
      <4>2. CASE Inserted(c)
        <5>1. rows'[c].seq = nextSeq
          BY <4>1, <4>2 DEF Inserted, TypeOK, Row
        <5>2. rows'[pick].seq < nextSeq
          BY <2>1, <2>3 DEF SequenceBelowNext
        <5> QED
          BY <1>3, <2>1, <3>3, <5>1, <5>2 DEF Earlier, TypeOK, Row
      <4>3. CASE c \in Queued
        <5>1. rows'[c].req = rows[c].req /\ rows'[c].seq = rows[c].seq
          BY <4>1, <4>3, LiveStep DEF Queued
        <5>2. Earlier(c, pick)
          BY <1>3, <2>3, <3>3, <5>1 DEF Earlier
        <5>3. ~LaneBlockedBy(pick, c)
          BY <1>3, <3>1, <4>3, <5>2 DEF PickHolds
        <5> QED
          BY <1>3, <2>3, <5>1, <5>3 DEF LaneBlockedBy, SameRepo, SameWorktree, Barrier
      <4> QED
        BY <4>1, <4>2, <4>3, LiveStep
    <3>4. ASSUME NEW n \in Names, rows'[pick].req.units[n] > 0
          PROVE  ~(Allocation(Active, n)' + rows'[pick].req.units[n] > caps'[n])
      <4>1. ~(Allocation(Active, n) + rows[pick].req.units[n] > caps[n])
        BY <1>3, <2>3, <3>1, <3>4 DEF PickHolds, ResourceBlocked
      <4>2. Active \in SUBSET Runs
        BY ActiveStep
      <4>3. /\ Allocation(Active, n)' <= Allocation(Active, n)
            /\ Allocation(Active, n)' \in Nat /\ Allocation(Active, n) \in Nat
        BY <2>2, <4>2, ActiveStep, AllocationWithin
      <4>4. rows[pick].req.units[n] \in Nat /\ caps[n] \in Nat
        BY <2>1, ConstantsOK DEF TypeOK, Row, Request, Capacity
      <4> QED
        BY <1>3, <2>3, <4>1, <4>3, <4>4
    <3>5. ~ResourceBlocked(pick)'
      BY <1>3, <3>4 DEF ResourceBlocked
    <3> QED
      BY <3>2, <3>3, <3>5
  <2> QED
    BY <2>3, <2>4, <2>5
<1>4. ASSUME pick' \in NextAdmissible, rows' = rows, caps' = caps
      PROVE  /\ rows'[pick'].status = "queued"
             /\ \A c \in Active' : ~LaneBlockedBy(pick, c)'
             /\ \A c \in Queued' : Earlier(c, pick)' => ~LaneBlockedBy(pick, c)'
             /\ ~ResourceBlocked(pick)'
  <2>1. Admissible(pick')
    BY <1>4 DEF NextAdmissible, LaneHeads
  <2>2. pick' \in Queued /\ ~LaneBlocked(pick') /\ ~ResourceBlocked(pick')
    BY <2>1 DEF Admissible
  <2>3. ~ResourceBlocked(pick)'
    BY <1>4, <2>2 DEF ResourceBlocked, Allocation, Active
  <2>4. \A c \in Active \cup {q \in Queued : Earlier(q, pick')} : ~LaneBlockedBy(pick', c)
    BY <2>2 DEF LaneBlocked
  <2>5. /\ \A c \in Active' : ~LaneBlockedBy(pick, c)'
        /\ \A c \in Queued' : Earlier(c, pick)' => ~LaneBlockedBy(pick, c)'
    BY <1>4, <2>4 DEF Active, Queued, Earlier, LaneBlockedBy, SameRepo, SameWorktree, Barrier
  <2> QED
    BY <1>4, <2>2, <2>3, <2>5 DEF Queued
<1>5. pc' = "picked" =>
        /\ rows'[pick'].status \notin {"absent", "offered", "running"}
        /\ rows'[pick'].status = "queued" =>
              /\ \A c \in Active' : ~LaneBlockedBy(pick, c)'
              /\ \A c \in Queued' : Earlier(c, pick)' => ~LaneBlockedBy(pick, c)'
              /\ ~ResourceBlocked(pick)'
  BY <1>3, <1>4, PickStep
<1> QED
  BY <1>2, <1>5 DEF PickHolds

------------------------------------------------------------------------------
(* The theorems *)

\* The inductive invariant holds in the beginning.
LEMMA InitInv == Init => IndInv
<1> SUFFICES ASSUME Init PROVE IndInv
  OBVIOUS
<1>1. \A r \in Runs : rows[r].status = "absent" /\ rows[r].cancel = "no"
  BY DEF Init, Blank
<1>2. Active = {} /\ Queued = {}
  BY <1>1 DEF Active, Queued
<1> QED
  BY <1>1, <1>2, InitType
     DEF Init, IndInv, SequenceBelowNext, WaitingUncancelled, PickHolds, NothingLiveSeen,
         LaneExclusion, CapacityRespected, MergeReceiptHeld, PublicationUncancelled,
         DrainedRunsNothing, Live

\* Every step keeps the inductive invariant.
LEMMA NextInv == ASSUME IndInv, [Next]_vars PROVE IndInv'
<1> USE DEF IndInv
<1>1. TypeOK'
  BY NextType
<1>2. SequenceBelowNext' /\ WaitingUncancelled'
  BY <1>1, RowsWaiting
<1>3. PickHolds'
  BY <1>1, PickStays
<1>4. NothingLiveSeen'
  BY SeenHolds
<1>5. LaneExclusion'
  BY LaneStep
<1>6. CapacityRespected'
  BY <1>1, CapacityStep
<1>7. MergeReceiptHeld'
  BY <1>1, RowsReceipt
<1>8. PublicationUncancelled'
  BY <1>1, RowsPublication
<1>9. DrainedRunsNothing'
  BY DrainedHolds
<1> QED
  BY <1>1, <1>2, <1>3, <1>4, <1>5, <1>6, <1>7, <1>8, <1>9

\* Every reachable state satisfies the inductive invariant.
THEOREM Invariance == Spec => []IndInv
<1>1. Init => IndInv
  BY InitInv
<1>2. IndInv /\ [Next]_vars => IndInv'
  BY NextInv
<1> QED
  BY <1>1, <1>2, PTL DEF Spec

\* The variables always have their declared types.
THEOREM TypeCorrect == Spec => []TypeOK
<1>1. IndInv => TypeOK
  BY DEF IndInv
<1> QED
  BY <1>1, Invariance, PTL

\* No two barriers of a repository run at once, and nothing runs beside a barrier
\* in its worktree: blocked_by and start_worker keep what validate_active demands.
THEOREM LanesAreExclusive == Spec => []LaneExclusion
<1>1. IndInv => LaneExclusion
  BY DEF IndInv
<1> QED
  BY <1>1, Invariance, PTL

\* A working owner never allocates more than its configured capacities.
THEOREM CapacitiesAreRespected == Spec => []CapacityRespected
<1>1. IndInv => CapacityRespected
  BY DEF IndInv
<1> QED
  BY <1>1, Invariance, PTL

\* A live merge always has its passed gate receipt in the table.
THEOREM ReceiptsAreHeld == Spec => []MergeReceiptHeld
<1>1. IndInv => MergeReceiptHeld
  BY DEF IndInv
<1> QED
  BY <1>1, Invariance, PTL

\* Exactly one of cancellation and publication wins their race.
THEOREM PublicationIsUncancelled == Spec => []PublicationUncancelled
<1>1. IndInv => PublicationUncancelled
  BY DEF IndInv
<1> QED
  BY <1>1, Invariance, PTL

\* Nothing runs while the queue is drained.
THEOREM DrainedQueueIsIdle == Spec => []DrainedRunsNothing
<1>1. IndInv => DrainedRunsNothing
  BY DEF IndInv
<1> QED
  BY <1>1, Invariance, PTL

\* Lands and merges are admitted in submission order, and nothing passes an
\* earlier barrier of its worktree.
THEOREM NothingOvertakes == Spec => NoOvertaking
<1> DEFINE Ordered == \A r \in Runs :
              (rows[r].status = "queued" /\ rows'[r].status = "running")
                  => \A c \in Queued : Earlier(c, r) => ~LaneBlockedBy(r, c)
<1>1. IndInv /\ [Next]_vars => [Ordered]_vars
  <2> SUFFICES ASSUME IndInv, [Next]_vars, NEW r \in Runs,
                      rows[r].status = "queued", rows'[r].status = "running",
                      NEW c \in Queued, Earlier(c, r)
               PROVE  ~LaneBlockedBy(r, c)
    OBVIOUS
  <2>1. r \in Active' /\ r \notin Active
    BY DEF Active
  <2>2. Admitted(r)
    BY <2>1, ActiveStep DEF IndInv
  <2> QED
    BY <2>2 DEF IndInv, PickHolds, Admitted
<1> QED
  BY <1>1, Invariance, PTL DEF Spec, NoOvertaking

\* A verdict is final until clear deletes the row.
THEOREM VerdictsAreFinal == Spec => TerminalIsFinal
<1> DEFINE Final == \A r \in Runs :
              rows[r].status \in Terminal
                  => \/ rows'[r] = rows[r]
                     \/ rows'[r] = [rows[r] EXCEPT !.status = "cleared"]
<1>1. IndInv /\ [Next]_vars => [Final]_vars
  <2> SUFFICES ASSUME IndInv, [Next]_vars, NEW r \in Runs, rows[r].status \in Terminal
               PROVE  \/ rows'[r] = rows[r]
                      \/ rows'[r] = [rows[r] EXCEPT !.status = "cleared"]
    OBVIOUS
  <2>1. RowStep(r)
    BY NextRows DEF IndInv
  <2> QED
    BY <2>1 DEF RowStep, Offered, Inserted, Withdrawn, AskedToStop, Deleted, Advanced, Admitted,
                Ended, Terminal
<1> QED
  BY <1>1, Invariance, PTL DEF Spec, TerminalIsFinal
=============================================================================
