---------------------------- MODULE MigrationProofs ----------------------------
(***************************************************************************)
(* Proofs that no migration or rollback loses a result or the drain that   *)
(* is in force, for any drains and any bounds on runs, moves and faults.   *)
(***************************************************************************)
EXTENDS Migration, WellFoundedInduction, TLAPS

\* A copy of the tables.
Backup == [whole : BOOLEAN, rows : SUBSET Row, meta : Meta]

\* The backups are lists of copies.
FilesTyped == files \in [{3, 4} -> Seq(Backup)]

\* Types, with the backups as lists of copies.
Typed ==
    /\ FilesTyped
    /\ proto \in 3 .. 5 /\ rows \subseteq Row /\ next \in 1 .. MaxRuns + 1
    /\ meta \in Meta /\ guards \in BOOLEAN
    /\ lock \in {None, "broker", "migrate", "rollback"}
    /\ at \in {None, "copy", "protect", "normalise", "native"}
    /\ seen \in Drains \cup {None} /\ moves \in 0 .. MaxMoves
    /\ cleared \subseteq ended /\ ended \subseteq Ids
    /\ intent \in Drains \cup {None} /\ raced \in BOOLEAN /\ faults \in 0 .. MaxFaults

\* A row has one number, is as old as a move that was made, and is recorded as
\* ended when it is terminal.
RowsAgree ==
    \A r \in rows : r.id = r.seq /\ r.era <= moves /\ (r.status = "done" => r.id \in ended)

\* A backup holds ended runs only.
BackupsAreDone ==
    \A p \in {3, 4} : \A i \in DOMAIN files[p] : \A b \in files[p][i].rows :
        b.status = "done" /\ b.id = b.seq /\ b.id \in ended /\ b.era <= moves

\* The copy that was made last at protocol p.
LastBackup(p) == files[p][Len(files[p])]

\* While a migration goes on nothing is live, and the copy that it has made is
\* the table as it still is.
MigrationGoesOn ==
    /\ at # None <=> lock = "migrate"
    /\ lock = "migrate" => Live = {} /\ proto \in {3, 4} /\ moves < MaxMoves
    /\ at = "normalise" => proto = 3
    /\ at \in {"protect", "native"} => Len(files[proto]) # 0 /\ LastBackup(proto).rows = rows
    /\ at = "native" => proto = 4 /\ LastBackup(4).whole

\* While a rollback goes on its baseline stays named, and what it has read of
\* the marker is the drain in force unless one was begun in the meantime.
RollbackGoesOn ==
    lock = "rollback" => proto = 5 /\ meta.backup # 0 /\ moves < MaxMoves /\ (~raced => seen = intent)

\* No move leads back to protocol 3.
ThreeIsUnmoved == proto = 3 => moves = 0

\* The inductive invariant.
IInv ==
    /\ Typed /\ MarkerKept /\ RollbackPossible /\ FloorHolds /\ GatesInvalidated
    /\ HistoryKept /\ RowsAgree /\ BackupsAreDone
    /\ MigrationGoesOn /\ RollbackGoesOn /\ ThreeIsUnmoved

------------------------------------------------------------------------------
(* The greatest sequence number *)

\* A set of numbers that is not empty has a smallest one.
LEMMA Smallest ==
    ASSUME NEW T \in SUBSET Nat, T # {}
    PROVE  \E x \in T : \A y \in T : x <= y
<1> DEFINE R == OpToRel(<, Nat)
<1>1. PICK x \in T : \A y \in T : ~(<<y, x>> \in R)
  BY NatLessThanWellFounded, WFMin
<1>2. ASSUME NEW y \in T PROVE x <= y
  <2>1. ~(<<y, x>> \in {s \in Nat \X Nat : s[1] < s[2]})
    BY <1>1 DEF OpToRel
  <2> QED
    BY <2>1
<1> QED
  BY <1>2

\* MaxSeq is a bound of the sequence numbers, and one of them or 0.
LEMMA MaxSeqIsMax ==
    ASSUME NEW S \in SUBSET Row
    PROVE  /\ MaxSeq(S) \in Nat
           /\ \A r \in S : r.seq <= MaxSeq(S)
<1> DEFINE Bounds == {n \in Nat : \A r \in S : r.seq <= n}
           Seqs == {0} \cup {r.seq : r \in S}
<1>1. \A r \in S : r.seq \in Nat /\ r.seq <= MaxRuns
  BY MigrationConstantsOK DEF Row, Ids
<1>2. Seqs \subseteq Nat
  BY <1>1
<1>3. MaxRuns \in Bounds
  BY <1>1, MigrationConstantsOK
<1>4. PICK n \in Bounds : \A m \in Bounds : n <= m
  BY <1>3, Smallest
<1>5. n \in Seqs
  <2>1. SUFFICES ASSUME n \notin Seqs PROVE FALSE
    OBVIOUS
  <2>2. n \in Nat /\ n # 0 /\ \A r \in S : r.seq < n
    BY <1>1, <1>4, <2>1
  <2>3. n - 1 \in Bounds
    BY <1>1, <2>2
  <2> QED
    BY <1>4, <2>2, <2>3
<1>6. \E m \in Seqs : \A r \in S : r.seq <= m
  BY <1>4, <1>5
<1>7. MaxSeq(S) \in Seqs /\ \A r \in S : r.seq <= MaxSeq(S)
  BY <1>6 DEF MaxSeq
<1> QED
  BY <1>2, <1>7

------------------------------------------------------------------------------
(* Types *)

\* They include the types that TypeOK asks for.
LEMMA TypedIsTypeOK == Typed => TypeOK
<1> SUFFICES ASSUME Typed PROVE TypeOK
  OBVIOUS
<1>1. \A p \in {3, 4} : \A i \in DOMAIN files[p] : files[p][i] \in Backup
  BY DEF Typed, FilesTyped
<1>2. \A p \in {3, 4} : \A i \in DOMAIN files[p] :
        files[p][i].whole \in BOOLEAN /\ files[p][i].rows \subseteq Row /\ files[p][i].meta \in Meta
  BY <1>1 DEF Backup
<1>3. DOMAIN files = {3, 4}
  BY DEF Typed, FilesTyped
<1> QED
  BY <1>2, <1>3 DEF Typed, TypeOK

\* A baseline that can be rolled back to is a copy.
LEMMA BaselineTyped ==
    ASSUME FilesTyped, meta.backup \in DOMAIN files[4]
    PROVE  Baseline \in Backup /\ Baseline.rows \subseteq Row /\ Baseline.meta \in Meta
<1>1. Baseline \in Backup
  BY DEF FilesTyped, Baseline
<1> QED
  BY <1>1 DEF Backup

\* Every step keeps the types.
LEMMA NextTyped ==
    ASSUME IInv, [Next]_vars
    PROVE  Typed'
<1> USE MigrationConstantsOK DEF IInv, FilesTyped, Typed, database, holder, history
<1>1. CASE OwnerStarts \/ OwnerStops \/ Migrate \/ Rollback
  BY <1>1 DEF OwnerStarts, OwnerStops, Migrate, Rollback, Meta
<1>2. CASE Submit
  <2>1. [id |-> next, seq |-> NextSeq, status |-> "live", era |-> moves] \in Row
    BY <1>2 DEF Submit, NextSeq, Row, Ids
  <2> QED
    BY <1>2, <2>1 DEF Submit
<1>3. CASE Clear
  <2>1. {r.id : r \in rows} \subseteq ended
    BY <1>3 DEF Clear, RowsAgree, Live, Row
  <2> QED
    BY <1>3, <2>1 DEF Clear
<1>4. CASE Copy
  <2>1. CASE \A i \in DOMAIN files[proto] : files[proto][i].whole
    <3>1. [whole |-> FALSE, rows |-> rows, meta |-> meta] \in Backup
      BY DEF Backup
    <3>2. proto \in {3, 4}
      BY <1>4 DEF Copy, MigrationGoesOn, None
    <3>3. Append(files[proto], [whole |-> FALSE, rows |-> rows, meta |-> meta]) \in Seq(Backup)
      BY <3>1, <3>2
    <3>4. files' = [files EXCEPT ![proto] = Append(files[proto], [whole |-> FALSE, rows |-> rows, meta |-> meta])]
      BY <1>4, <2>1 DEF Copy
    <3>5. FilesTyped'
      BY <3>2, <3>3, <3>4
    <3> QED
      BY <1>4, <2>1, <3>5 DEF Copy
  <2>2. CASE ~\A i \in DOMAIN files[proto] : files[proto][i].whole
    BY <1>4, <2>2 DEF Copy
  <2> QED
    BY <2>1, <2>2
<1>5. CASE Protect
  <2> DEFINE last == Len(files[proto])
  <2>1. proto \in {3, 4} /\ last # 0
    BY <1>5 DEF Protect, MigrationGoesOn, None
  <2>2. files[proto] \in Seq(Backup) /\ last \in DOMAIN files[proto]
    BY <2>1
  <2>3. files[proto][last] \in Backup
    BY <2>2
  <2>4. [files[proto][last] EXCEPT !.whole = TRUE] \in Backup
    BY <2>3 DEF Backup
  <2>5. [files[proto] EXCEPT ![last] = [files[proto][last] EXCEPT !.whole = TRUE]] \in Seq(Backup)
    BY <2>2, <2>4
  <2>6. files' = [files EXCEPT ![proto] = [files[proto] EXCEPT ![last] = [files[proto][last] EXCEPT !.whole = TRUE]]]
    BY <1>5 DEF Protect
  <2>7. FilesTyped'
    BY <2>1, <2>5, <2>6
  <2> QED
    BY <1>5, <2>7 DEF Protect
<1>6. CASE Normalise
  BY <1>6 DEF Normalise
<1>7. CASE Native
  <2>1. MaxSeq(rows) + 1 \in Nat
    BY MaxSeqIsMax
  <2>2. proto = 4 /\ moves < MaxMoves /\ Len(files[4]) \in Nat
    BY <1>7 DEF Native, MigrationGoesOn, None
  <2>3. meta' \in Meta
    BY <1>7, <2>1, <2>2 DEF Native, Meta
  <2> QED
    BY <1>7, <2>2, <2>3 DEF Native
<1>8. CASE RollbackCommit
  <2>1. proto = 5 /\ meta.backup # 0 /\ moves < MaxMoves
    BY <1>8 DEF RollbackCommit, RollbackGoesOn
  <2>2. Baseline.rows \subseteq Row /\ Baseline.meta \in Meta
    BY <2>1, BaselineTyped DEF RollbackPossible
  <2>3. MaxSeq(rows) \in Nat
    BY MaxSeqIsMax
  <2>4. rows' \subseteq Row
    BY <1>8, <2>2 DEF RollbackCommit, Replayed, Done
  <2>5. meta' \in Meta
    BY <1>8, <2>2, <2>3 DEF RollbackCommit, Meta
  <2> QED
    BY <1>8, <2>1, <2>4, <2>5 DEF RollbackCommit
<1>9. CASE Dies
  BY <1>9 DEF Dies
<1>10. ASSUME NEW r \in rows, RunEnds(r)
      PROVE  Typed'
  <2>1. [r EXCEPT !.status = "done"] \in Row /\ r.id \in Ids
    BY DEF Row
  <2> QED
    BY <1>10, <2>1 DEF RunEnds
<1>11. ASSUME NEW d \in Drains, BeginDrain(d) \/ Resume(d)
      PROVE  Typed'
  BY <1>11 DEF BeginDrain, Resume, Meta
<1>12. CASE UNCHANGED vars
  BY <1>12 DEF vars
<1> QED
  BY <1>1, <1>2, <1>3, <1>4, <1>5, <1>6, <1>7, <1>8, <1>9, <1>10, <1>11, <1>12 DEF Next

------------------------------------------------------------------------------
(* The steps *)

\* The parts of the invariant about the database and its history alone.
SpoolInv ==
    /\ MarkerKept /\ FloorHolds /\ GatesInvalidated /\ HistoryKept /\ RowsAgree /\ ThreeIsUnmoved

\* They do not depend on anything else.
LEMMA SameSpool ==
    ASSUME SpoolInv, UNCHANGED <<database, history>>
    PROVE  SpoolInv'
  BY DEF SpoolInv, database, history, MarkerKept, FloorHolds, GatesInvalidated, HistoryKept, Done,
     RowsAgree, ThreeIsUnmoved

\* The same backups hold the same rows, which have ended.
LEMMA SameBackups ==
    ASSUME BackupsAreDone, UNCHANGED files, ended \subseteq ended',
           moves \in Nat, moves' \in Nat, moves <= moves', FilesTyped
    PROVE  BackupsAreDone'
<1> SUFFICES ASSUME NEW p \in {3, 4}, NEW i \in DOMAIN files[p], NEW b \in files[p][i].rows
             PROVE  b.status = "done" /\ b.id = b.seq /\ b.id \in ended' /\ b.era <= moves'
  BY DEF BackupsAreDone
<1>1. b \in Row
  <2>1. files[p][i] \in Backup
    BY DEF FilesTyped
  <2> QED
    BY <2>1 DEF Backup
<1>2. b.era \in Int
  BY <1>1 DEF Row
<1>3. b.status = "done" /\ b.id = b.seq /\ b.id \in ended /\ b.era <= moves
  BY DEF BackupsAreDone
<1> QED
  BY <1>2, <1>3

\* Taking and leaving the lock keeps the invariant: a migration starts without
\* live work, and a rollback with the marker that it reads.
LEMMA LockSteps ==
    ASSUME IInv, Typed',
           OwnerStarts \/ OwnerStops \/ Migrate \/ Rollback \/ Dies \/ UNCHANGED vars
    PROVE  IInv'
<1> USE DEF IInv
<1>1. UNCHANGED <<database, files, history>>
  BY DEF OwnerStarts, OwnerStops, Migrate, Rollback, Dies, vars
<1>2. SpoolInv'
  BY <1>1, SameSpool DEF SpoolInv
<1>3. BackupsAreDone'
  BY <1>1, SameBackups, MigrationConstantsOK DEF Typed, history
<1>4. RollbackPossible'
  BY <1>1 DEF RollbackPossible, Baseline, database, history
<1>5. MigrationGoesOn'
  <2>1. UNCHANGED <<proto, rows, files, moves>> /\ Live' = Live
    BY <1>1 DEF database, history, Live
  <2>2. at' = at \/ at' = "copy" \/ at' = None
    BY DEF OwnerStarts, OwnerStops, Migrate, Rollback, Dies, vars, holder
  <2>3. CASE OwnerStarts \/ OwnerStops \/ Rollback \/ UNCHANGED vars
    BY <2>1, <2>3 DEF OwnerStarts, OwnerStops, Rollback, vars, holder, MigrationGoesOn, None, LastBackup
  <2>4. CASE Migrate
    BY <2>1, <2>4 DEF Migrate, MigrationGoesOn, None, LastBackup
  <2>5. CASE Dies
    BY <2>1, <2>5 DEF Dies, MigrationGoesOn, None, LastBackup
  <2> QED
    BY <2>3, <2>4, <2>5
<1>6. RollbackGoesOn'
  <2>1. CASE Rollback
    BY <1>1, <2>1 DEF Rollback, RollbackGoesOn, MarkerKept, database, history
  <2>2. CASE OwnerStarts \/ OwnerStops \/ Migrate \/ Dies \/ UNCHANGED vars
    BY <1>1, <2>2 DEF OwnerStarts, OwnerStops, Migrate, Dies, RollbackGoesOn, vars, holder, database, history, None
  <2> QED
    BY <2>1, <2>2
<1> QED
  BY <1>2, <1>3, <1>4, <1>5, <1>6 DEF SpoolInv

\* A new row belongs to the current move.
LEMMA SubmitKeeps ==
    ASSUME IInv, Typed', Submit
    PROVE  IInv'
<1> USE DEF IInv, holder, history
<1> DEFINE n == [id |-> next, seq |-> NextSeq, status |-> "live", era |-> moves]
<1>1. rows' = rows \cup {n} /\ UNCHANGED <<proto, meta, guards, files, lock, at, seen, history>>
  BY DEF Submit
<1>2. moves \in Nat /\ n.era = moves /\ n.id = n.seq /\ n.status = "live"
  BY MigrationConstantsOK DEF Typed, NextSeq
<1>3. MarkerKept' /\ ThreeIsUnmoved'
  BY <1>1 DEF MarkerKept, ThreeIsUnmoved
<1>4. FloorHolds' /\ GatesInvalidated' /\ RowsAgree'
  BY <1>1, <1>2 DEF FloorHolds, GatesInvalidated, RowsAgree
<1>5. HistoryKept'
  BY <1>1 DEF HistoryKept, Done
<1>6. RollbackPossible'
  BY <1>1, <1>2 DEF RollbackPossible, Baseline
<1>7. BackupsAreDone'
  BY <1>1, <1>2, SameBackups DEF Typed
<1>8. MigrationGoesOn' /\ RollbackGoesOn'
  BY <1>1 DEF Submit, MigrationGoesOn, RollbackGoesOn, None
<1> QED
  BY <1>3, <1>4, <1>5, <1>6, <1>7, <1>8

\* A run that ends is recorded, and is younger than the baseline.
LEMMA RunEndsKeeps ==
    ASSUME IInv, Typed', NEW r \in rows, RunEnds(r)
    PROVE  IInv'
<1> USE DEF IInv, holder
<1> DEFINE d == [r EXCEPT !.status = "done"]
<1>1. /\ rows' = (rows \ {r}) \cup {d} /\ ended' = ended \cup {r.id} /\ r.status = "live" /\ lock = "broker"
      /\ UNCHANGED <<proto, meta, guards, files, lock, at, seen, moves, cleared, intent, raced>>
  BY DEF RunEnds, Live
<1>2. r \in Row /\ moves \in Nat
  BY MigrationConstantsOK DEF Typed
<1>3. d.id = r.id /\ d.seq = r.seq /\ d.era = r.era /\ d.status = "done"
  BY <1>2 DEF Row
<1>4. MarkerKept' /\ ThreeIsUnmoved'
  BY <1>1 DEF MarkerKept, ThreeIsUnmoved
<1>5. FloorHolds' /\ GatesInvalidated'
  BY <1>1, <1>3 DEF FloorHolds, GatesInvalidated
<1>6. RowsAgree'
  BY <1>1, <1>3 DEF RowsAgree
<1>7. HistoryKept'
  <2> SUFFICES ASSUME NEW id \in ended' \ cleared PROVE \E q \in rows' : q.status = "done" /\ q.id = id
    BY <1>1 DEF HistoryKept, Done
  <2>1. CASE id = r.id
    BY <1>1, <1>3, <2>1
  <2>2. CASE id # r.id
    <3>1. PICK q \in rows : q.status = "done" /\ q.id = id
      BY <1>1, <2>2 DEF HistoryKept, Done
    <3> QED
      BY <1>1, <3>1
  <2> QED
    BY <2>1, <2>2
<1>8. RollbackPossible'
  <2> SUFFICES ASSUME proto = 5, meta.backup # 0 PROVE RollbackPossible'
    BY <1>1 DEF RollbackPossible
  <2>1. ~(r.era < moves)
    BY <1>1 DEF RollbackPossible
  <2> QED
    BY <1>1, <1>3, <2>1 DEF RollbackPossible, Baseline
<1>9. BackupsAreDone'
  BY <1>1, <1>2, SameBackups DEF Typed
<1>10. MigrationGoesOn' /\ RollbackGoesOn'
  BY <1>1 DEF MigrationGoesOn, RollbackGoesOn, None
<1> QED
  BY <1>4, <1>5, <1>6, <1>7, <1>8, <1>9, <1>10

\* What is cleared is recorded as cleared.
LEMMA ClearKeeps ==
    ASSUME IInv, Typed', Clear
    PROVE  IInv'
<1> USE DEF IInv, holder
<1>1. /\ rows' = {} /\ cleared' = cleared \cup {r.id : r \in rows} /\ lock = "broker"
      /\ UNCHANGED <<proto, meta, guards, files, lock, at, seen, moves, ended, intent, raced>>
  BY DEF Clear
<1>2. MarkerKept' /\ ThreeIsUnmoved' /\ FloorHolds' /\ GatesInvalidated' /\ RowsAgree'
  BY <1>1 DEF MarkerKept, ThreeIsUnmoved, FloorHolds, GatesInvalidated, RowsAgree
<1>3. HistoryKept'
  BY <1>1 DEF HistoryKept, Done
<1>4. RollbackPossible'
  BY <1>1 DEF RollbackPossible, Baseline
<1>5. BackupsAreDone'
  BY <1>1, SameBackups, MigrationConstantsOK DEF Typed
<1>6. MigrationGoesOn' /\ RollbackGoesOn'
  BY <1>1 DEF MigrationGoesOn, RollbackGoesOn, None
<1> QED
  BY <1>2, <1>3, <1>4, <1>5, <1>6

\* A drain that begins behind a rollback's back is marked as raced.
LEMMA DrainKeeps ==
    ASSUME IInv, Typed', NEW d \in Drains, BeginDrain(d) \/ Resume(d)
    PROVE  IInv'
<1> USE DEF IInv, holder
<1>1. /\ UNCHANGED <<proto, rows, next, files, lock, at, seen, moves, ended, cleared>>
      /\ meta'.backup = meta.backup /\ meta'.floor = meta.floor /\ meta'.cutoff = meta.cutoff
  BY DEF BeginDrain, Resume, Typed, Meta
<1>2. MarkerKept'
  BY MigrationConstantsOK DEF BeginDrain, Resume, MarkerKept, Typed, Meta
<1>3. ThreeIsUnmoved' /\ FloorHolds' /\ GatesInvalidated' /\ RowsAgree' /\ HistoryKept'
  BY <1>1 DEF ThreeIsUnmoved, FloorHolds, GatesInvalidated, RowsAgree, HistoryKept, Done
<1>4. RollbackPossible'
  BY <1>1 DEF RollbackPossible, Baseline
<1>5. BackupsAreDone'
  BY <1>1, SameBackups, MigrationConstantsOK DEF Typed
<1>6. MigrationGoesOn'
  BY <1>1 DEF MigrationGoesOn, Live, LastBackup
<1>7. RollbackGoesOn'
  BY <1>1 DEF RollbackGoesOn, BeginDrain, Resume, None
<1> QED
  BY <1>2, <1>3, <1>4, <1>5, <1>6, <1>7

\* A copy holds the table, in which nothing is live.
LEMMA CopyKeeps ==
    ASSUME IInv, Typed', Copy
    PROVE  IInv'
<1> USE DEF IInv, database, history
<1> DEFINE c == [whole |-> FALSE, rows |-> rows, meta |-> meta]
<1>1. UNCHANGED <<database, seen, history>> /\ at = "copy"
  BY DEF Copy
<1>2. proto \in {3, 4} /\ lock = "migrate" /\ Live = {} /\ moves < MaxMoves
  BY <1>1 DEF MigrationGoesOn, None
<1>3. SpoolInv'
  BY <1>1, SameSpool DEF SpoolInv
<1>4. RollbackPossible' /\ RollbackGoesOn'
  BY <1>1, <1>2 DEF RollbackPossible, RollbackGoesOn, Copy, None
<1>5. CASE UNCHANGED files
  <2>1. BackupsAreDone'
    BY <1>1, <1>5, SameBackups, MigrationConstantsOK DEF Typed
  <2>2. (at' = None /\ lock' = None) \/ files' = [files EXCEPT ![proto] = Append(@, c)]
    BY DEF Copy
  <2>3. at' = None /\ lock' = None
    <3>1. files[proto] \in Seq(Backup)
      BY <1>2 DEF Typed, FilesTyped
    <3>2. Len(Append(files[proto], c)) # Len(files[proto])
      BY <3>1
    <3> QED
      BY <1>2, <1>5, <2>2, <3>2 DEF Typed, FilesTyped
  <2>4. MigrationGoesOn'
    BY <2>3 DEF MigrationGoesOn, None
  <2> QED
    BY <1>3, <1>4, <2>1, <2>4 DEF SpoolInv
<1>6. CASE files' = [files EXCEPT ![proto] = Append(@, c)] /\ at' = "protect" /\ lock' = lock
  <2>1. files[proto] \in Seq(Backup)
    BY <1>2 DEF Typed, FilesTyped
  <2>2. /\ files'[proto] = Append(files[proto], c)
        /\ \A p \in {3, 4} : p # proto => files'[p] = files[p]
    BY <1>2, <1>6 DEF Typed, FilesTyped
  <2>3. /\ Len(files'[proto]) = Len(files[proto]) + 1
        /\ files'[proto][Len(files[proto]) + 1] = c
        /\ DOMAIN files'[proto] = DOMAIN files[proto] \cup {Len(files[proto]) + 1}
        /\ \A i \in DOMAIN files[proto] : files'[proto][i] = files[proto][i]
    BY <2>1, <2>2
  <2>4. \A b \in rows : b.status = "done" /\ b.id = b.seq /\ b.id \in ended /\ b.era <= moves
    BY <1>2 DEF Live, RowsAgree, Typed, Row
  <2>5. BackupsAreDone'
    BY <1>1, <2>2, <2>3, <2>4 DEF BackupsAreDone
  <2>6. MigrationGoesOn'
    <3>1. Len(files'[proto']) # 0 /\ LastBackup(proto)'.rows = rows'
      BY <1>1, <2>1, <2>3 DEF LastBackup
    <3> QED
      BY <1>1, <1>2, <1>6, <3>1 DEF MigrationGoesOn, Live, None
  <2> QED
    BY <1>3, <1>4, <2>5, <2>6 DEF SpoolInv
<1> QED
  BY <1>5, <1>6 DEF Copy

\* A copy that is protected is the one that was made.
LEMMA ProtectKeeps ==
    ASSUME IInv, Typed', Protect
    PROVE  IInv'
<1> USE DEF IInv, database, history
<1> DEFINE n == Len(files[proto])
           f == [files[proto][n] EXCEPT !.whole = TRUE]
<1>1. UNCHANGED <<database, lock, seen, history>> /\ at = "protect"
  BY DEF Protect
<1>2. proto \in {3, 4} /\ lock = "migrate" /\ Live = {} /\ moves < MaxMoves /\ n # 0 /\ LastBackup(proto).rows = rows
  BY <1>1 DEF MigrationGoesOn, None
<1>3. SpoolInv'
  BY <1>1, SameSpool DEF SpoolInv
<1>4. RollbackPossible' /\ RollbackGoesOn'
  BY <1>1, <1>2 DEF RollbackPossible, RollbackGoesOn
<1>5. files[proto] \in Seq(Backup) /\ n \in DOMAIN files[proto] /\ files[proto][n] \in Backup
  BY <1>2 DEF Typed, FilesTyped
<1>6. files' = [files EXCEPT ![proto] = [files[proto] EXCEPT ![n] = f]]
  BY DEF Protect
<1>7. /\ files'[proto] = [files[proto] EXCEPT ![n] = f]
      /\ \A p \in {3, 4} : p # proto => files'[p] = files[p]
  BY <1>2, <1>6 DEF Typed, FilesTyped
<1>8. f.rows = files[proto][n].rows /\ f.whole = TRUE
  BY <1>5 DEF Backup
<1>9. /\ Len(files'[proto]) = n /\ files'[proto][n] = f
      /\ DOMAIN files'[proto] = DOMAIN files[proto]
      /\ \A i \in DOMAIN files[proto] : files'[proto][i].rows = files[proto][i].rows
  BY <1>5, <1>7, <1>8
<1>10. BackupsAreDone'
  <2> SUFFICES ASSUME NEW p \in {3, 4}, NEW i \in DOMAIN files'[p], NEW b \in files'[p][i].rows
               PROVE  b.status = "done" /\ b.id = b.seq /\ b.id \in ended /\ b.era <= moves
    BY <1>1 DEF BackupsAreDone
  <2>1. i \in DOMAIN files[p] /\ b \in files[p][i].rows
    BY <1>7, <1>9
  <2> QED
    BY <2>1 DEF BackupsAreDone
<1>11. MigrationGoesOn'
  <2>1. Len(files'[proto']) # 0 /\ LastBackup(proto)'.rows = rows' /\ LastBackup(proto)'.whole
    BY <1>1, <1>2, <1>8, <1>9 DEF LastBackup
  <2>2. at' = IF proto = 4 THEN "native" ELSE "normalise"
    BY DEF Protect
  <2> QED
    BY <1>1, <1>2, <2>1, <2>2 DEF MigrationGoesOn, Live, None
<1> QED
  BY <1>3, <1>4, <1>10, <1>11 DEF SpoolInv

\* The steps to protocol 4 do not touch a row.
LEMMA NormaliseKeeps ==
    ASSUME IInv, Typed', Normalise
    PROVE  IInv'
<1> USE DEF IInv, history
<1>1. /\ UNCHANGED <<rows, next, meta, guards, files, lock, seen, history>>
      /\ at = "normalise" /\ at' = "copy" /\ proto' = 4
  BY DEF Normalise
<1>2. proto = 3 /\ moves = 0 /\ lock = "migrate" /\ Live = {} /\ moves < MaxMoves
  BY <1>1 DEF MigrationGoesOn, ThreeIsUnmoved, None
<1>3. MarkerKept' /\ RollbackPossible' /\ FloorHolds' /\ GatesInvalidated' /\ ThreeIsUnmoved'
  BY <1>1, <1>2 DEF MarkerKept, RollbackPossible, FloorHolds, GatesInvalidated, ThreeIsUnmoved
<1>4. HistoryKept' /\ RowsAgree' /\ BackupsAreDone'
  BY <1>1 DEF HistoryKept, Done, RowsAgree, BackupsAreDone
<1>5. MigrationGoesOn' /\ RollbackGoesOn'
  BY <1>1, <1>2 DEF MigrationGoesOn, RollbackGoesOn, Live, None
<1> QED
  BY <1>3, <1>4, <1>5

\* The floor is above every row, and the baseline is the copy just made.
LEMMA NativeKeeps ==
    ASSUME IInv, Typed', Native
    PROVE  IInv'
<1> USE DEF IInv
<1>1. /\ UNCHANGED <<rows, next, guards, files, seen, ended, cleared, intent, raced>>
      /\ at = "native" /\ proto' = 5 /\ moves' = moves + 1 /\ lock' = None /\ at' = None
  BY DEF Native
<1>2. proto = 4 /\ Live = {} /\ Len(files[4]) # 0 /\ LastBackup(4).rows = rows /\ LastBackup(4).whole
  BY <1>1 DEF MigrationGoesOn, None
<1>3. meta'.floor = MaxSeq(rows) + 1 /\ meta'.backup = Len(files[4]) /\ meta'.marker = meta.marker
  BY DEF Native, Typed, Meta
<1>4. moves \in Nat /\ \A r \in rows : r \in Row /\ r.era \in Int /\ r.seq \in Int
  BY MigrationConstantsOK DEF Typed, Row, Ids
<1>5. MarkerKept' /\ ThreeIsUnmoved' /\ GatesInvalidated'
  BY <1>1, <1>3 DEF MarkerKept, ThreeIsUnmoved, GatesInvalidated
<1>6. FloorHolds'
  <2>1. MaxSeq(rows) \in Nat /\ \A r \in rows : r.seq <= MaxSeq(rows)
    BY MaxSeqIsMax DEF Typed
  <2> QED
    BY <1>1, <1>3, <1>4, <2>1 DEF FloorHolds
<1>7. HistoryKept' /\ RowsAgree'
  BY <1>1, <1>4 DEF HistoryKept, Done, RowsAgree
<1>8. BackupsAreDone'
  BY <1>1, <1>4, SameBackups DEF Typed
<1>9. RollbackPossible'
  <2>1. meta'.backup \in DOMAIN files'[4] /\ Baseline' = LastBackup(4)
    BY <1>1, <1>2, <1>3 DEF Baseline, LastBackup, Typed, FilesTyped
  <2>2. \A b \in rows : b.status = "done"
    BY <1>2, <1>4 DEF Live, Row
  <2> QED
    BY <1>1, <1>2, <2>1, <2>2 DEF RollbackPossible
<1>10. MigrationGoesOn' /\ RollbackGoesOn'
  BY <1>1 DEF MigrationGoesOn, RollbackGoesOn, None
<1> QED
  BY <1>5, <1>6, <1>7, <1>8, <1>9, <1>10

\* Every result is in the baseline or replayed, and what is not cleared has a
\* sequence number that the cutoff covers.
LEMMA RollbackKeeps ==
    ASSUME IInv, Typed', RollbackCommit
    PROVE  IInv'
<1> USE DEF IInv
<1>1. /\ UNCHANGED <<next, files, at, ended, cleared, intent, raced>>
      /\ lock = "rollback" /\ lock' = None /\ proto' = 4 /\ moves' = moves + 1
      /\ rows' = Baseline.rows \cup Replayed /\ guards' = (seen # None)
  BY DEF RollbackCommit
<1>2. proto = 5 /\ meta.backup # 0 /\ (~raced => seen = intent)
  BY <1>1 DEF RollbackGoesOn
<1>3. meta.backup \in DOMAIN files[4] /\ Baseline.rows \subseteq Row /\ Baseline.meta \in Meta
  BY <1>2, BaselineTyped DEF RollbackPossible, Typed
<1>4. \A b \in Baseline.rows : b.status = "done" /\ b.id = b.seq /\ b.id \in ended /\ b.era <= moves
  BY <1>3 DEF BackupsAreDone, Baseline
<1>5. \A r \in Done : r \in rows /\ r.status = "done" /\ r.id = r.seq /\ r.id \in ended /\ r.era <= moves
  BY DEF Done, RowsAgree
<1>6. moves \in Nat /\ \A r \in rows \cup Baseline.rows : r.era \in Int /\ r.seq \in Int
  BY <1>3, MigrationConstantsOK DEF Typed, Row, Ids
<1>7. MarkerKept' /\ ThreeIsUnmoved' /\ FloorHolds' /\ RollbackPossible'
  <2>1. meta'.marker = seen
    BY <1>3 DEF RollbackCommit, Meta
  <2>2. MarkerKept'
    BY <1>1, <1>2, <2>1 DEF MarkerKept
  <2>3. ThreeIsUnmoved' /\ FloorHolds' /\ RollbackPossible'
    BY <1>1 DEF ThreeIsUnmoved, FloorHolds, RollbackPossible
  <2> QED
    BY <2>2, <2>3
<1>8. RowsAgree'
  BY <1>1, <1>4, <1>5, <1>6 DEF RowsAgree, Replayed
<1>9. HistoryKept'
  <2> SUFFICES ASSUME NEW id \in ended \ cleared
               PROVE  \E q \in rows' : q.status = "done" /\ q.id = id
    BY <1>1 DEF HistoryKept, Done
  <2>1. PICK q \in Done : q.id = id
    BY DEF HistoryKept
  <2>2. CASE q \in Replayed
    BY <1>1, <1>5, <2>1, <2>2
  <2>3. CASE q \notin Replayed
    <3>1. PICK b \in Baseline.rows : q.id = b.id \/ q.seq = b.seq
      BY <2>3 DEF Replayed
    <3> QED
      BY <1>1, <1>4, <1>5, <2>1, <3>1
  <2> QED
    BY <2>2, <2>3
<1>10. GatesInvalidated'
  <2>1. /\ MaxSeq(rows) \in Nat /\ \A r \in rows : r.seq <= MaxSeq(rows)
        /\ meta'.cutoff = MaxSeq(rows)
    BY <1>3, MaxSeqIsMax DEF RollbackCommit, Meta, Typed
  <2> SUFFICES ASSUME NEW r \in Baseline.rows \cup Replayed, r.id \notin cleared
               PROVE  r.seq <= MaxSeq(rows)
    BY <1>1, <2>1 DEF GatesInvalidated
  <2>2. CASE r \in Replayed
    BY <1>5, <2>1, <2>2 DEF Replayed
  <2>3. CASE r \in Baseline.rows
    <3>1. PICK q \in Done : q.id = r.id
      BY <1>4, <2>3 DEF HistoryKept
    <3> QED
      BY <1>4, <1>5, <2>1, <2>3, <3>1
  <2> QED
    BY <2>2, <2>3
<1>11. BackupsAreDone'
  BY <1>1, <1>6, SameBackups DEF Typed
<1>12. MigrationGoesOn' /\ RollbackGoesOn'
  BY <1>1 DEF MigrationGoesOn, RollbackGoesOn, None
<1> QED
  BY <1>7, <1>8, <1>9, <1>10, <1>11, <1>12

------------------------------------------------------------------------------
(* Theorems *)

\* Initially the invariant holds.
LEMMA InitIInv == Init => IInv
<1> SUFFICES ASSUME Init PROVE IInv
  OBVIOUS
<1>1. FilesTyped /\ meta \in Meta /\ meta.marker = None /\ meta.backup = 0
  BY DEF Init, FilesTyped, NoMeta, Meta
<1>2. Typed
  <2>1. /\ proto \in 3 .. 5 /\ rows \subseteq Row /\ next \in 1 .. MaxRuns + 1
        /\ moves \in 0 .. MaxMoves /\ faults \in 0 .. MaxFaults
        /\ cleared \subseteq ended /\ ended \subseteq Ids
    BY MigrationConstantsOK DEF Init
  <2>2. guards \in BOOLEAN /\ raced \in BOOLEAN
    BY DEF Init
  <2> QED
    BY <1>1, <2>1, <2>2 DEF Init, Typed
<1>3. MarkerKept /\ RollbackPossible /\ FloorHolds /\ GatesInvalidated
  BY <1>1 DEF Init, MarkerKept, RollbackPossible, FloorHolds, GatesInvalidated
<1>4. HistoryKept /\ RowsAgree /\ BackupsAreDone /\ MigrationGoesOn /\ RollbackGoesOn /\ ThreeIsUnmoved
  BY DEF Init, HistoryKept, RowsAgree, BackupsAreDone, MigrationGoesOn, RollbackGoesOn, ThreeIsUnmoved, None
<1> QED
  BY <1>2, <1>3, <1>4 DEF IInv

\* The inductive invariant holds in every state of every behaviour.
THEOREM MigrationInvariant == Spec => []IInv
<1>1. IInv /\ [Next]_vars => IInv'
  <2> SUFFICES ASSUME IInv, [Next]_vars PROVE IInv'
    OBVIOUS
  <2>1. Typed'
    BY NextTyped
  <2> QED
    BY <2>1, LockSteps, SubmitKeeps, RunEndsKeeps, ClearKeeps, DrainKeeps, CopyKeeps, ProtectKeeps,
       NormaliseKeeps, NativeKeeps, RollbackKeeps DEF Next
<1> QED
  BY <1>1, InitIInv, PTL DEF Spec

\* No migration or rollback, complete or not, loses the result of a run that was
\* not cleared.
THEOREM HistoryAlwaysKept == Spec => []HistoryKept
<1>1. IInv => HistoryKept
  BY DEF IInv
<1> QED
  BY <1>1, MigrationInvariant, PTL

\* The marker stands for the drain in force, a migrated spool can be rolled
\* back, and no gate from the other side of a move can authorise a publication.
THEOREM SpoolAlwaysWhole == Spec => []SpoolIsWhole
<1>1. IInv => SpoolIsWhole
  BY TypedIsTypeOK DEF IInv, SpoolIsWhole
<1> QED
  BY <1>1, MigrationInvariant, PTL
==============================================================================
