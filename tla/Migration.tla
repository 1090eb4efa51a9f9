------------------------------ MODULE Migration -------------------------------
(***************************************************************************)
(* Migration of a spool to protocol 5 and its rollback to protocol 4: the  *)
(* backups, the two transactions of migrate, the read and the transaction  *)
(* of rollback, and what operators do around them.  Both hold the owner    *)
(* lock; the begin of a drain does not need it.                            *)
(*                                                                         *)
(* A migration may die or fail at any step and be repeated; a backup that  *)
(* it has not finished stays.  Protocols 1 to 3 are one, since their steps *)
(* to 4 are one transaction.  Every row is a full gate; the owner that     *)
(* serves protocols below 5 is not part of this repository and does what   *)
(* the native one does.  Leases go with their rows.  A recovery of the     *)
(* host is the subject of Recovery and does not happen here.               *)
(*                                                                         *)
(* A client that looked for an owner and commits after it has gone, which  *)
(* both transactions of migrate and that of rollback meet with a second    *)
(* look at the live rows, is left out; so is that the copy of the rows of  *)
(* protocol 1 makes the next sequence number follow those that are left.   *)
(***************************************************************************)
EXTENDS Naturals, Sequences, FiniteSets

CONSTANTS
    Drains,     \* drain identities
    MaxRuns,    \* bound on submissions
    MaxMoves,   \* bound on migrations and rollbacks that are committed
    MaxFaults   \* bound on those that die

None == "none"

ASSUME MigrationConstantsOK ==
    None \notin Drains /\ MaxRuns \in Nat /\ MaxMoves \in Nat /\ MaxFaults \in Nat

VARIABLES
    proto,      \* protocol of the database: 3, 4 or 5
    rows,       \* the runs table
    next,       \* the sequence number that the next row gets
    meta,       \* coordinator_meta
    guards,     \* the triggers that refuse insertions
    files,      \* the backups of protocol 3 and 4
    lock,       \* who holds the owner lock
    at,         \* the step of a migration
    seen,       \* the marker that a rollback has read
    moves,      \* history: migrations and rollbacks committed
    ended,      \* history: the runs that have ended
    cleared,    \* history: the runs that were cleared
    intent,     \* history: the drain that was begun and not resumed
    raced,      \* history: it was begun between a rollback's read and its transaction
    faults

database == <<proto, rows, next, meta, guards>>
holder == <<lock, at, seen>>
history == <<moves, ended, cleared, intent, raced>>
vars == <<database, files, holder, history, faults>>

Ids == 1 .. MaxRuns
Row == [id : Ids, seq : Ids, status : {"live", "done"}, era : 0 .. MaxMoves]
Meta == [marker : Drains \cup {None}, backup : Nat, floor : Nat, cutoff : Nat]
NoMeta == [marker |-> None, backup |-> 0, floor |-> 0, cutoff |-> 0]

TypeOK ==
    /\ proto \in 3 .. 5
    /\ rows \subseteq Row /\ next \in 1 .. MaxRuns + 1
    /\ meta \in Meta /\ guards \in BOOLEAN
    /\ DOMAIN files = {3, 4}
    /\ \A p \in {3, 4} : \A i \in DOMAIN files[p] :
          files[p][i].whole \in BOOLEAN /\ files[p][i].rows \subseteq Row /\ files[p][i].meta \in Meta
    /\ lock \in {None, "broker", "migrate", "rollback"}
    /\ at \in {None, "copy", "protect", "normalise", "native"}
    /\ seen \in Drains \cup {None}
    /\ moves \in 0 .. MaxMoves
    /\ cleared \subseteq ended /\ ended \subseteq Ids
    /\ intent \in Drains \cup {None}
    /\ raced \in BOOLEAN
    /\ faults \in 0 .. MaxFaults

\* A native spool that was never migrated has no backup.
Init ==
    /\ proto \in 3 .. 5
    /\ rows = {} /\ next = 1
    /\ meta = [NoMeta EXCEPT !.floor = IF proto = 5 THEN 1 ELSE 0]
    /\ guards = FALSE
    /\ files = [p \in {3, 4} |-> <<>>]
    /\ lock = None /\ at = None /\ seen = None
    /\ moves = 0 /\ ended = {} /\ cleared = {}
    /\ intent = None /\ raced = FALSE
    /\ faults = 0

Live == {r \in rows : r.status = "live"}
Done == {r \in rows : r.status = "done"}
MaxSeq(S) == CHOOSE n \in {0} \cup {r.seq : r \in S} : \A r \in S : r.seq <= n

------------------------------------------------------------------------------
(* Owner and clients *)

OwnerStarts ==
    /\ lock = None
    /\ meta.marker = None \/ Live # {}
    /\ lock' = "broker"
    /\ UNCHANGED <<database, files, at, seen, history, faults>>

OwnerStops ==
    /\ lock = "broker"
    /\ lock' = None
    /\ UNCHANGED <<database, files, at, seen, history, faults>>

\* Mutant: sequence without AUTOINCREMENT.
NextSeqReused == MaxSeq(rows) + 1

\* Numbers of deleted rows are not used again.
NextSeq == next

Submit ==
    /\ lock = "broker" /\ meta.marker = None
    /\ next <= MaxRuns
    /\ rows' = rows \cup {[id |-> next, seq |-> NextSeq, status |-> "live", era |-> moves]}
    /\ next' = next + 1
    /\ UNCHANGED <<proto, meta, guards, files, holder, history, faults>>

RunEnds(r) ==
    /\ lock = "broker" /\ r \in Live
    /\ rows' = (rows \ {r}) \cup {[r EXCEPT !.status = "done"]}
    /\ ended' = ended \cup {r.id}
    /\ UNCHANGED <<proto, next, meta, guards, files, holder, moves, cleared, intent, raced, faults>>

Clear ==
    /\ lock = "broker" /\ meta.marker = None
    /\ Live = {} /\ rows # {}
    /\ rows' = {}
    /\ cleared' = cleared \cup {r.id : r \in rows}
    /\ UNCHANGED <<proto, next, meta, guards, files, holder, moves, ended, intent, raced, faults>>

BeginDrain(d) ==
    /\ proto \in {4, 5}
    /\ meta.marker = None
    /\ meta' = [meta EXCEPT !.marker = d] /\ guards' = TRUE
    /\ intent' = d /\ raced' = (lock = "rollback")
    /\ UNCHANGED <<proto, rows, next, files, holder, moves, ended, cleared, faults>>

Resume(d) ==
    /\ lock = None
    /\ meta.marker = d /\ Live = {}
    /\ meta' = [meta EXCEPT !.marker = None] /\ guards' = FALSE
    /\ intent' = None /\ raced' = FALSE
    /\ UNCHANGED <<proto, rows, next, files, holder, moves, ended, cleared, faults>>

------------------------------------------------------------------------------
(* migrate *)

Migrate ==
    /\ lock = None
    /\ proto \in {3, 4} /\ Live = {}
    /\ moves < MaxMoves
    /\ lock' = "migrate" /\ at' = "copy"
    /\ UNCHANGED <<database, files, seen, history, faults>>

\* backup_database under a fresh name; an earlier backup that is not whole is refused.
Copy ==
    /\ at = "copy"
    /\ IF \A i \in DOMAIN files[proto] : files[proto][i].whole
       THEN /\ files' = [files EXCEPT ![proto] = Append(@, [whole |-> FALSE, rows |-> rows, meta |-> meta])]
            /\ at' = "protect" /\ UNCHANGED lock
       ELSE at' = None /\ lock' = None /\ UNCHANGED files
    /\ UNCHANGED <<database, seen, history, faults>>

Protect ==
    /\ at = "protect"
    /\ files' = [files EXCEPT ![proto][Len(files[proto])].whole = TRUE]
    /\ at' = IF proto = 4 THEN "native" ELSE "normalise"
    /\ UNCHANGED <<database, lock, seen, history, faults>>

\* migrate_protocol_1_to_2 .. 3_to_4; the baseline of a rollback is copied after it.
Normalise ==
    /\ at = "normalise"
    /\ proto' = 4
    /\ at' = "copy"
    /\ UNCHANGED <<rows, next, meta, guards, files, lock, seen, history, faults>>

\* Mutant: the first backup stays the baseline.
NativeFirstBackup ==
    /\ at = "native"
    /\ proto' = 5
    /\ meta' = [meta EXCEPT !.floor = MaxSeq(rows) + 1, !.backup = 1]
    /\ moves' = moves + 1
    /\ lock' = None /\ at' = None
    /\ UNCHANGED <<rows, next, guards, files, seen, ended, cleared, intent, raced, faults>>

\* The native fingerprint, the first sequence that may authorise a publication
\* and the name of the baseline, in one transaction.
Native ==
    /\ at = "native"
    /\ proto' = 5
    /\ meta' = [meta EXCEPT !.floor = MaxSeq(rows) + 1, !.backup = Len(files[4])]
    /\ moves' = moves + 1
    /\ lock' = None /\ at' = None
    /\ UNCHANGED <<rows, next, guards, files, seen, ended, cleared, intent, raced, faults>>

------------------------------------------------------------------------------
(* rollback *)

\* The marker is read before the transaction begins.
Rollback ==
    /\ lock = None
    /\ proto = 5 /\ Live = {}
    /\ meta.backup # 0
    /\ moves < MaxMoves
    /\ lock' = "rollback" /\ seen' = meta.marker
    /\ UNCHANGED <<database, files, at, history, faults>>

Baseline == files[4][meta.backup]

\* INSERT OR IGNORE of the terminal rows after the baseline's
Replayed == {r \in Done : \A b \in Baseline.rows : r.id # b.id /\ r.seq # b.seq}

RollbackCommit ==
    /\ lock = "rollback"
    /\ rows' = Baseline.rows \cup Replayed
    /\ meta' = [Baseline.meta EXCEPT !.marker = seen, !.cutoff = MaxSeq(rows)]
    /\ guards' = (seen # None)
    /\ proto' = 4
    /\ moves' = moves + 1
    /\ lock' = None /\ seen' = None
    /\ UNCHANGED <<next, files, at, ended, cleared, intent, raced, faults>>

\* An error or the end of the process
Dies ==
    /\ lock \in {"migrate", "rollback"}
    /\ faults < MaxFaults /\ faults' = faults + 1
    /\ lock' = None /\ at' = None /\ seen' = None
    /\ UNCHANGED <<database, files, history>>

------------------------------------------------------------------------------

Next ==
    \/ OwnerStarts \/ OwnerStops \/ Submit \/ Clear
    \/ Migrate \/ Copy \/ Protect \/ Normalise \/ Native
    \/ Rollback \/ RollbackCommit \/ Dies
    \/ \E r \in rows : RunEnds(r)
    \/ \E d \in Drains : BeginDrain(d) \/ Resume(d)

Spec == Init /\ [][Next]_vars

------------------------------------------------------------------------------
(* Properties *)

\* Authoritative results are not lost: what has ended stays in the table until
\* it is cleared, through every migration and rollback, complete or not
\* (docs/native_broker.md: "discarding no authoritative result").
HistoryKept ==
    \A id \in ended \ cleared : \E r \in Done : r.id = id

\* The marker is the drain that was begun and not resumed, also where a baseline
\* has another one, and the triggers agree with it; except for a drain that was
\* begun after a rollback had read the marker, which its transaction removes.
MarkerKept ==
    /\ guards <=> meta.marker # None
    /\ ~raced => meta.marker = intent

\* A migrated spool can be rolled back: the baseline it names is a whole
\* protocol-4 copy without live work and with every older row that is left.
RollbackPossible ==
    proto = 5 /\ meta.backup # 0 =>
        /\ meta.backup \in DOMAIN files[4]
        /\ Baseline.whole
        /\ \A b \in Baseline.rows : b.status = "done"
        /\ {r \in rows : r.era < moves} \subseteq Baseline.rows

\* No gate from before the migration can authorise a native publication.
FloorHolds ==
    proto = 5 => \A r \in rows : r.seq >= meta.floor => r.era = moves

\* After a rollback no gate from before it can authorise a publication, except
\* one that had been cleared and that the baseline brings back: the cutoff is
\* the greatest sequence of the rows that are left.
GatesInvalidated ==
    proto = 4 /\ moves > 0 =>
        \A r \in rows : r.era < moves /\ r.id \notin cleared => r.seq <= meta.cutoff

\* Types, and a spool that its next owner, whichever it is, can rely on.
SpoolIsWhole == TypeOK /\ MarkerKept /\ RollbackPossible /\ FloorHolds /\ GatesInvalidated
=============================================================================
