------------------------------- MODULE Recovery -------------------------------
(***************************************************************************)
(* Maintenance of a coordinator: the durable drain and its resume, and the *)
(* guarded recovery of a host whose broker cannot drain any more.          *)
(* Recovery takes the owner lock, proves that recorded workers are gone,   *)
(* replaces the drain marker by a recovery marker, lets a replacement      *)
(* broker admit nothing but one proof, and gives the original drain back   *)
(* (or opens the spool) when the proof has passed.                         *)
(*                                                                         *)
(* Each native command is one transaction.  Commands may be given at any   *)
(* time, by several operators, with any identity that was ever in use, and *)
(* again after an answer was lost.  The broker picks a row and admits it   *)
(* in two transactions, and it looks for live rows in one and reads and    *)
(* sets the drain marker in another.                                       *)
(***************************************************************************)
EXTENDS Naturals, FiniteSets

CONSTANTS
    Jobs,           \* ordinary work
    Proofs,         \* the run identities of proofs
    Drains,         \* drain identities
    MaxAttempts,    \* MAX_ATTEMPTS
    MaxRecoveries,  \* bound on the recoveries begun
    MaxFaults       \* bound on crashes, parks and changes of the helper

None == "none"
Runs == Jobs \cup Proofs

ASSUME RecoveryConstantsOK ==
    /\ Jobs \cap Proofs = {} /\ None \notin Runs \cup Drains
    /\ MaxAttempts \in Nat \ {0} /\ MaxRecoveries \in Nat /\ MaxFaults \in Nat

VARIABLES
    meta,       \* the maintenance marker: state and identity
    guards,     \* the triggers that refuse insertions
    rec,        \* host_recovery
    last,       \* host_recovery_last
    begun,      \* recoveries begun so far
    status,     \* of each run; "absent" before it is submitted
    cancel,     \* runs with a stop request
    known,      \* running rows with a worker identity
    enforced,   \* passed proofs whose receipt shows the cpu limit in force
    owner,      \* who holds the owner lock
    pick,       \* the row that the broker is about to admit or to start
    idle,       \* the broker has found no live row and not read the marker yet
    alive,      \* runs with a live worker
    own,        \* runs whose worker is a child of this broker
    helper,     \* the file of the proof helper
    intent,     \* history: the drain that was begun and not resumed
    used,       \* history: the proofs submitted in this recovery
    told,       \* history: the results that complete has returned
    late,       \* history: the work accepted since the last idle check, before the
                \*   marker was read
    faults

marker == <<meta, guards>>
records == <<rec, last, begun>>
rows == <<status, cancel, known, enforced>>
broker == <<owner, pick, idle, alive, own>>
history == <<intent, used, told, late>>
vars == <<marker, records, rows, broker, helper, history, faults>>

Open == [state |-> "open", id |-> None]
NoRec == [id |-> 0, proof |-> None, attempts |-> 0, phase |-> None, drain |-> Open]
NoLast == [id |-> 0, proof |-> None, state |-> None, drain |-> None]
Ids == 1 .. MaxRecoveries
DrainStates == {"draining", "drained"}
Terminal == {"passed", "failed", "cancelled", "interrupted"}

TypeOK ==
    /\ meta \in {Open} \cup [state : DrainStates, id : Drains] \cup [state : {"recovering"}, id : Ids]
    /\ guards \in BOOLEAN
    /\ rec \in {NoRec} \cup [id : Ids, proof : Proofs \cup {None}, attempts : 0 .. MaxAttempts,
                             phase : {"guarded", "verifying", "parked"},
                             drain : {Open} \cup [state : DrainStates, id : Drains]]
    /\ last \in {NoLast} \cup [id : Ids, proof : Proofs, state : {"open"} \cup DrainStates,
                               drain : Drains \cup {None}]
    /\ begun \in 0 .. MaxRecoveries
    /\ status \in [Runs -> {"absent", "queued", "running", "deleted"} \cup Terminal]
    /\ {cancel, known, alive, own} \subseteq SUBSET Runs
    /\ owner \in {None, "broker", "holder", "installer"}
    /\ pick \in Runs \cup {None}
    /\ idle \in BOOLEAN
    /\ helper \in {"bound", "changed"}
    /\ intent \in Drains \cup {None}
    /\ used \subseteq Proofs /\ enforced \subseteq Proofs
    /\ told \subseteq Ids \X ({"open"} \cup DrainStates)
    /\ late \subseteq Jobs
    /\ faults \in 0 .. MaxFaults

Init ==
    /\ meta = Open /\ guards = FALSE
    /\ rec = NoRec /\ last = NoLast /\ begun = 0
    /\ status = [r \in Runs |-> "absent"]
    /\ cancel = {} /\ known = {} /\ enforced = {} /\ alive = {} /\ own = {}
    /\ owner = None /\ pick = None /\ idle = FALSE
    /\ helper = "bound"
    /\ intent = None /\ used = {} /\ told = {} /\ late = {}
    /\ faults = 0

------------------------------------------------------------------------------

Queued == {r \in Runs : status[r] = "queued"}
Running == {r \in Runs : status[r] = "running"}
Live == Queued \cup Running
Fault == faults < MaxFaults /\ faults' = faults + 1
Set(r, s) == status' = [status EXCEPT ![r] = s]

------------------------------------------------------------------------------
(* Clients *)

Submit(j) ==
    /\ owner = "broker"
    /\ meta = Open
    /\ status[j] = "absent"
    /\ Set(j, "queued")
    /\ late' = IF idle THEN late \cup {j} ELSE late
    /\ UNCHANGED <<marker, records, cancel, known, enforced, broker, helper, intent, used, told, faults>>

Cancel(r) ==
    /\ owner = "broker"
    /\ r \in Live \ cancel
    /\ IF r \in Queued THEN Set(r, "cancelled") ELSE UNCHANGED status
    /\ cancel' = cancel \cup {r}
    /\ UNCHANGED <<marker, records, known, enforced, broker, helper, history, faults>>

Clear ==
    /\ owner = "broker"
    /\ meta = Open /\ Live = {}
    /\ \E r \in Runs : status[r] \in Terminal
    /\ status' = [r \in Runs |-> IF status[r] \in Terminal THEN "deleted" ELSE status[r]]
    /\ cancel' = {} /\ known' = {} /\ enforced' = {}
    /\ UNCHANGED <<marker, records, broker, helper, history, faults>>

------------------------------------------------------------------------------
(* The broker *)

\* A spool without live rows in a drain has no broker.
Boot ==
    /\ owner = None
    /\ IF meta.state \in DrainStates /\ Live = {}
       THEN meta.state = "draining" /\ meta' = [meta EXCEPT !.state = "drained"] /\ UNCHANGED owner
       ELSE meta.state # "drained" /\ owner' = "broker" /\ UNCHANGED meta
    /\ UNCHANGED <<guards, records, rows, pick, idle, alive, own, helper, history, faults>>

\* Mutant: work that was accepted before may start beside the proof.
EligibleWhenVerifying ==
    IF rec = NoRec \/ rec.phase = "verifying" THEN Queued ELSE {}

\* filter_queued
Eligible ==
    IF rec = NoRec THEN Queued
    ELSE IF rec.phase = "verifying" THEN Queued \cap {rec.proof} ELSE {}

HelperRefused == rec # NoRec /\ rec.phase = "verifying" /\ helper # "bound"

Pick(r) ==
    /\ owner = "broker" /\ pick = None /\ ~idle
    /\ ~HelperRefused
    /\ r \in Eligible
    /\ pick' = r
    /\ UNCHANGED <<marker, records, rows, owner, idle, alive, own, helper, history, faults>>

\* The error of filter_queued ends the broker.
HelperEndsBroker ==
    /\ owner = "broker" /\ pick = None /\ ~idle
    /\ HelperRefused
    /\ owner' = None /\ own' = {}
    /\ UNCHANGED <<marker, records, rows, pick, idle, alive, helper, history, faults>>

Admit ==
    /\ owner = "broker" /\ pick # None /\ pick \notin Running
    /\ IF pick \in Queued THEN Set(pick, "running") /\ UNCHANGED pick
                          ELSE pick' = None /\ UNCHANGED status
    /\ UNCHANGED <<marker, records, cancel, known, enforced, owner, idle, alive, own, helper, history,
                   faults>>

\* A row whose stop was requested in the meantime ends without a worker.
Start ==
    /\ owner = "broker" /\ pick \in Running
    /\ IF pick \in cancel
       THEN Set(pick, "cancelled") /\ UNCHANGED <<known, alive, own>>
       ELSE /\ known' = known \cup {pick} /\ alive' = alive \cup {pick} /\ own' = own \cup {pick}
            /\ UNCHANGED status
    /\ pick' = None
    /\ UNCHANGED <<marker, records, cancel, enforced, owner, idle, helper, history, faults>>

WorkerEnds(r) ==
    /\ r \in alive
    /\ alive' = alive \ {r}
    /\ UNCHANGED <<marker, records, rows, owner, pick, idle, own, helper, history, faults>>

\* The verdict of a worker that has ended; a proof that has passed has a
\* receipt that shows its limit in force, or has none.
Verdict(r) ==
    \E s \in IF r \in cancel THEN {"cancelled"} ELSE IF r \in own THEN {"passed", "failed"}
             ELSE {"interrupted"} :
      /\ Set(r, s)
      /\ enforced' \in {enforced, IF s = "passed" THEN enforced \cup ({r} \cap Proofs) ELSE enforced}

\* Mutant: a row without worker identity is left alone.
ObserveKnown(r) ==
    /\ owner = "broker" /\ r \in Running \cap known /\ pick # r /\ ~idle
    /\ \/ r \in alive /\ r \in cancel /\ alive' = alive \ {r} /\ UNCHANGED <<status, enforced, own>>
       \/ r \notin alive /\ Verdict(r) /\ own' = own \ {r} /\ UNCHANGED alive
    /\ UNCHANGED <<marker, records, cancel, known, owner, pick, idle, helper, history, faults>>

\* A stop request ends the worker; a worker that has ended ends its row.
Observe(r) ==
    /\ owner = "broker" /\ r \in Running /\ pick # r /\ ~idle
    /\ \/ r \in alive /\ r \in cancel /\ alive' = alive \ {r} /\ UNCHANGED <<status, enforced, own>>
       \/ r \notin alive /\ Verdict(r) /\ own' = own \ {r} /\ UNCHANGED alive
    /\ UNCHANGED <<marker, records, cancel, known, owner, pick, idle, helper, history, faults>>

\* has_live of the serve loop
FindIdle ==
    /\ owner = "broker" /\ pick = None /\ ~idle
    /\ Live = {}
    /\ idle' = TRUE /\ late' = {}
    /\ UNCHANGED <<marker, records, rows, owner, pick, alive, own, helper, intent, used, told, faults>>

\* After its idle check the broker reads the marker and looks at no row again:
\* in a drain it marks the spool drained and leaves; otherwise it goes on, or
\* leaves when it has been idle for long enough.
Yield ==
    /\ idle
    /\ idle' = FALSE
    /\ IF meta.state \in DrainStates
       THEN meta' = [meta EXCEPT !.state = "drained"] /\ owner' = None /\ UNCHANGED late
       ELSE owner' \in {owner, None} /\ late' = {} /\ UNCHANGED meta
    /\ own' = IF owner' = None THEN {} ELSE own
    /\ UNCHANGED <<guards, records, rows, pick, alive, helper, intent, used, told, faults>>

Crash ==
    /\ owner = "broker" /\ Fault
    /\ owner' = None /\ pick' = None /\ idle' = FALSE /\ own' = {}
    /\ UNCHANGED <<marker, records, rows, alive, helper, history>>

------------------------------------------------------------------------------
(* Drain *)

BeginDrain(d) ==
    /\ meta = Open
    /\ meta' = [state |-> "draining", id |-> d] /\ guards' = TRUE
    /\ intent' = d
    /\ UNCHANGED <<records, rows, broker, helper, used, told, late, faults>>

DrainStatus ==
    /\ meta.state = "draining" /\ Live = {} /\ owner = None
    /\ meta' = [meta EXCEPT !.state = "drained"]
    /\ UNCHANGED <<guards, records, rows, broker, helper, history, faults>>

\* The lock is held for the transaction only.
Resume(d) ==
    /\ owner = None
    /\ meta.state \in DrainStates /\ meta.id = d
    /\ Live = {}
    /\ meta' = Open /\ guards' = FALSE
    /\ intent' = None /\ late' = {}
    /\ UNCHANGED <<records, rows, broker, helper, used, told, faults>>

------------------------------------------------------------------------------
(* Recovery *)

\* prove_workers_gone
WorkersGone == Running \subseteq known /\ Running \cap alive = {}

\* Mutant: the drain is not kept.
PrepareForgets ==
    IF rec # NoRec THEN UNCHANGED <<rec, begun, meta, guards, used>>
    ELSE /\ begun' = begun + 1
         /\ rec' = [id |-> begun + 1, proof |-> None, attempts |-> 0, phase |-> "guarded", drain |-> Open]
         /\ meta' = [state |-> "recovering", id |-> begun + 1]
         /\ guards' = TRUE
         /\ used' = {}

\* prepare keeps the record of a recovery that goes on.
Prepare ==
    IF rec # NoRec THEN UNCHANGED <<rec, begun, meta, guards, used>>
    ELSE /\ begun' = begun + 1
         /\ rec' = [id |-> begun + 1, proof |-> None, attempts |-> 0, phase |-> "guarded", drain |-> meta]
         /\ meta' = [state |-> "recovering", id |-> begun + 1]
         /\ guards' = TRUE
         /\ used' = {}

\* The holder keeps the lock until its caller is done with the host.  A new
\* recovery is bound to the helper that is there.
RecoverHold ==
    /\ owner = None
    /\ WorkersGone
    /\ rec # NoRec => helper = "bound"
    /\ rec = NoRec => begun < MaxRecoveries /\ (meta.state = "drained" => Live = {})
    /\ Prepare
    /\ owner' = "holder" /\ helper' = "bound"
    /\ UNCHANGED <<last, rows, pick, idle, alive, own, intent, told, late, faults>>

\* drain_hold: an installer replaces the programs of a drained spool.
DrainHold ==
    /\ owner = None
    /\ meta.state = "drained" /\ Live = {}
    /\ owner' = "installer"
    /\ UNCHANGED <<marker, records, rows, pick, idle, alive, own, helper, history, faults>>

HolderEnds ==
    /\ owner \in {"holder", "installer"}
    /\ owner' = None
    /\ UNCHANGED <<marker, records, rows, pick, idle, alive, own, helper, history, faults>>

\* submit_proof with a proof p of its caller.  A live or passed proof of a
\* recovery that is verifying is the answer: nothing changes.
Current == rec.phase = "verifying" /\ status[rec.proof] \in {"queued", "running", "passed"}

\* The identity that a caller makes up for its proof is new.
Unused == {p \in Proofs : status[p] = "absent"}
NewProof == {CHOOSE p \in Unused : TRUE : q \in Unused}

\* Mutant: the attempts are not counted.
SubmitProofUncounted(p) ==
    /\ owner = "broker" /\ rec # NoRec /\ helper = "bound"
    /\ ~Current /\ Running = {}
    /\ Set(p, "queued")
    /\ rec' = [rec EXCEPT !.proof = p, !.phase = "verifying"]
    /\ used' = used \cup {p}
    /\ UNCHANGED <<marker, last, begun, cancel, known, enforced, broker, helper, intent, told, late, faults>>

SubmitProof(p) ==
    /\ owner = "broker" /\ rec # NoRec /\ helper = "bound"
    /\ ~Current
    /\ IF rec.attempts = MaxAttempts
       THEN rec.phase # "parked" /\ rec' = [rec EXCEPT !.phase = "parked"] /\ UNCHANGED <<status, used>>
       ELSE /\ Running = {}                                    \* host-recovery-settling
            /\ Set(p, "queued")
            /\ rec' = [rec EXCEPT !.proof = p, !.attempts = @ + 1, !.phase = "verifying"]
            /\ used' = used \cup {p}
    /\ UNCHANGED <<marker, last, begun, cancel, known, enforced, broker, helper, intent, told, late, faults>>

\* What complete demands of a proof: it has passed, and with the limit in force.
Enforced(p) == status[p] = "passed" /\ p \in enforced

\* complete of the active recovery
Proven ==
    /\ rec.phase = "verifying" /\ Enforced(rec.proof)
    /\ helper = "bound"
    /\ Running = {}

Restore ==
    /\ meta' = IF rec.drain = Open THEN Open
               ELSE [rec.drain EXCEPT !.state = IF Live = {} THEN "drained" ELSE "draining"]
    /\ guards' = (rec.drain # Open)

Complete ==
    /\ owner = "broker" /\ rec # NoRec
    /\ Proven
    /\ Restore
    /\ last' = [id |-> rec.id, proof |-> rec.proof, state |-> meta'.state, drain |-> rec.drain.id]
    /\ rec' = NoRec
    /\ told' = told \cup {<<rec.id, meta'.state>>}
    /\ UNCHANGED <<begun, rows, broker, helper, intent, used, late, faults>>

\* complete after it has committed: the recorded result, whatever came since.
CompleteAgain(id) ==
    /\ rec = NoRec /\ last.id = id
    /\ Enforced(last.proof)
    /\ told' = told \cup {<<id, last.state>>}
    /\ UNCHANGED <<marker, records, rows, broker, helper, intent, used, late, faults>>

\* park: a running proof is asked to stop, a queued one is cancelled.
Park ==
    /\ rec # NoRec /\ Fault
    /\ rec' = [rec EXCEPT !.phase = "parked"]
    /\ cancel' = IF rec.proof \in Running THEN cancel \cup {rec.proof} ELSE cancel
    /\ status' = [r \in Runs |-> IF r = rec.proof /\ r \in Queued THEN "cancelled" ELSE status[r]]
    /\ UNCHANGED <<marker, last, begun, known, enforced, broker, helper, history>>

\* The helper's file is replaced, or put back.
HelperChanges ==
    /\ Fault
    /\ helper' = IF helper = "bound" THEN "changed" ELSE "bound"
    /\ UNCHANGED <<marker, records, rows, broker, history>>

------------------------------------------------------------------------------

Pump == HelperEndsBroker \/ Admit \/ Start \/ FindIdle \/ Yield \/ \E r \in Runs : Pick(r) \/ Observe(r)

Next ==
    \/ Pump \/ Boot \/ Crash \/ RecoverHold \/ DrainHold \/ HolderEnds \/ Complete \/ Park \/ HelperChanges
    \/ DrainStatus \/ Clear
    \/ \E j \in Jobs : Submit(j)
    \/ \E r \in Runs : Cancel(r) \/ WorkerEnds(r)
    \/ \E d \in Drains : BeginDrain(d) \/ Resume(d)
    \/ \E p \in NewProof : SubmitProof(p)
    \/ \E id \in Ids : CompleteAgain(id)

Spec == Init /\ [][Next]_vars

\* The broker keeps going and is restarted, also between two holds; the holder's
\* caller lets go, workers end, and the operator repeats the proof and the
\* completion.
Fairness ==
    /\ WF_vars(Pump) /\ SF_vars(Boot) /\ WF_vars(HolderEnds)
    /\ WF_vars(\E r \in Runs : WorkerEnds(r))
    /\ SF_vars(\E p \in NewProof : SubmitProof(p)) /\ SF_vars(Complete)

FairSpec == Spec /\ Fairness

------------------------------------------------------------------------------
(* Properties *)

\* While a recovery is active nothing but its current proof starts, also when
\* it is parked, continued or completed between the broker's pick and its
\* admission.
OnlyProofStarts ==
    [][\A r \in Runs : status[r] # "running" /\ status'[r] = "running" =>
          rec = NoRec \/ (rec.phase = "verifying" /\ r = rec.proof)]_vars

\* A drain stays in force from its begin to the resume with its own identity,
\* through a recovery: it is the marker, or the recovery keeps it, and the
\* triggers that close submissions exist.
DrainIntentKept ==
    intent # None => guards /\ intent = IF rec = NoRec THEN meta.id ELSE rec.drain.id

\* The marker, the triggers and the recovery record agree, or every command of
\* the spool would be refused as broker-maintenance-invalid.
MarkerIsWhole ==
    /\ guards <=> meta # Open
    /\ meta.state = "recovering" <=> rec # NoRec
    /\ rec # NoRec => meta.id = rec.id

\* A spool that is marked drained has no work left, also one that a recovery
\* gave back, but for work that was accepted after the idle check of the broker
\* that then marked it; no broker starts on a spool with such work again.
DrainedIsEmpty == meta.state = "drained" => Live \subseteq late

\* While an installer holds a drained spool nothing is in it and nothing comes
\* in: neither a resume nor a recovery gets between its check and its end.
HeldIsDrained == owner = "installer" => meta.state = "drained" /\ Live = {}

\* Types, and a marker that every command of the spool can rely on and that
\* stands for the drain that is in force.
MarkerHolds == TypeOK /\ MarkerIsWhole /\ DrainIntentKept /\ DrainedIsEmpty /\ HeldIsDrained

\* One proof at a time, and no more than the allowed number for a recovery,
\* however often it is parked and continued.
ProofsAreBounded ==
    /\ Cardinality(Proofs \cap Live) <= 1
    /\ rec # NoRec => Cardinality(used) <= MaxAttempts

\* Whoever asks for the completion of a recovery, and whenever, gets one answer.
CompletionAgrees ==
    \A x, y \in told : x[1] = y[1] => x[2] = y[2]

\* Parking, continuing and asking again, in any order, add no proof and change
\* no answer.
RetriesAreHarmless == ProofsAreBounded /\ CompletionAgrees

\* The proof has passed and its receipt does not show the limit in force: it is
\* the answer to a further request for a proof, and complete refuses it.
Unenforced == rec.proof \in Proofs /\ status[rec.proof] = "passed" /\ rec.proof \notin enforced

\* A recovery that is not abandoned ends: the dead rows are settled, the proof
\* is admitted and completed.  Otherwise the attempts are used up, the helper is
\* not the one that it was bound to, or the proof passed without enforcement.
RecoveryEnds ==
    rec # NoRec ~> rec = NoRec \/ rec.attempts = MaxAttempts \/ helper # "bound" \/ Unenforced
=============================================================================
