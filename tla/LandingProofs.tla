----------------------------- MODULE LandingProofs -----------------------------
(***************************************************************************)
(* Proofs that what a worker publishes was tested, with everything that    *)
(* was on the target, that a land brings no avoided commit back, that a    *)
(* reported success has landed and that no push drops what another writer  *)
(* pushed, for any number of rounds, of other writers' moves, of failing   *)
(* calls and of submissions.                                               *)
(***************************************************************************)
EXTENDS Landing, TLAPS

------------------------------------------------------------------------------
(* The invariant *)

\* The commit graph: a commit reaches itself and what the commits it reaches do.
GraphInv ==
    /\ anc \in Seq(SUBSET Nat)
    /\ tree \in Seq(Nat) /\ Len(tree) = Len(anc)
    /\ \A c \in Commits :
          /\ tree[c] \in Commits
          /\ c \in anc[c] /\ anc[c] \subseteq Commits
          /\ \A d \in anc[c] : anc[d] \subseteq anc[c]

\* An update that may be applied: its head was tested on top of the target it
\* replaces, and it brings nothing else.
Good(u) ==
    /\ u.head \in passed /\ tree[u.to] = tree[u.head]
    /\ u.from \in anc[u.head] /\ u.head \in anc[u.to]
    /\ u.by = "publish" => anc[u.to] \cap given.avoid = {}

\* The places of a land before its publication begins, of the synchronization, of the
\* synchronization once the merge is made, and of the publication of a land or a merge.
LandPlaces == {"avoid1", "sync_local", "sync_meta", "sync_refs", "sync_merge", "sync_check", "sync_push",
               "sync_observe", "record", "gate", "gating", "avoid2", "publish"}
SyncPlaces == {"sync_local", "sync_meta", "sync_refs", "sync_merge", "sync_check", "sync_push",
               "sync_observe", "record"}
MergedPlaces == {"sync_check", "sync_push", "sync_observe", "record"}
PublishPlaces == {"create", "update", "observe"}

\* What the worker's place says of its variables.
PlaceInv ==
    /\ w.pc # "ended" => w.result = "none" /\ row = w.head
    /\ w.pc \in LandPlaces => w.mode = "land"
    /\ w.pc \in PublishPlaces => w.mode # "land"
    /\ w.pc \in SyncPlaces => w.attempt < Attempts
    /\ w.pc \in MergedPlaces \cup PublishPlaces \cup {"sync_merge"} => w.seen \in Commits
    /\ w.pc \in MergedPlaces => w.made \in Commits /\ w.head \in anc[w.made]
    /\ w.pc = "create" => w.seen \in anc[w.head]
    /\ w.pc \in {"update", "observe"} => w.made \in Commits /\ Good(Update)

\* The head was tested, or the checkout is no longer on it and stays so.
TestedInv ==
    /\ w.pc = "gating" /\ local = w.head /\ clean => w.made = w.head
    /\ w.pc \in {"avoid2", "publish"} \/ (w.mode = "publish" /\ w.pc = "local") =>
          (local = w.head /\ clean => w.head \in passed)
    /\ w.mode = "publish" /\ w.pc \notin {"local", "ended"} => w.head \in passed
    /\ w.mode = "merge" => w.head \in passed

\* A head that reaches an avoided commit is refused before its publication.
AvoidInv ==
    w.pc = "publish" \/ (w.mode = "publish" /\ w.pc # "ended") => anc[w.head] \cap given.avoid = {}

\* What was and what may still be applied.
LandedInv ==
    /\ \A u \in landings : Good(u)
    /\ late # <<>> => Good(late)

\* The target is remembered, and receipts are of gates that passed.
ReachedInv == anc[base] \subseteq reached /\ given.full \subseteq passed

\* The variables of the forge and of the gate.
ForgeInv ==
    /\ base \in Commits
    /\ late \in Updates \cup {<<>>}
    /\ passed \subseteq Commits /\ landings \subseteq Updates /\ reached \subseteq Commits
    /\ LandedInv /\ ReachedInv

\* The type of the worker's record.
WorkerType ==
    w \in [pc : Places, mode : Modes, head : Commits,
           replaced : Commits \cup {None}, attempt : 1 .. Attempts,
           merged : BOOLEAN, seen : Commits \cup {None}, made : Commits \cup {None}, result : Statuses]

\* What the worker knows.
WorkerInv == WorkerType /\ PlaceInv /\ TestedInv /\ AvoidInv /\ SuccessIsLanded

\* The bounds are kept.
UsedType == used \in [others : 0 .. MaxOthers, faults : 0 .. MaxFaults, runs : 0 .. MaxRuns]

\* The types of the rest.
RestType ==
    /\ source \in Commits \cup {None}
    /\ pr \in [state : {"OPEN", "DRAFT", "MERGED", "CLOSED"}, head : Commits]
    /\ local \in Commits
    /\ clean \in BOOLEAN
    /\ row \in Commits
    /\ given \in [avoid : SUBSET Commits, full : SUBSET Commits]
    /\ UsedType

\* The inductive invariant.
IInv == GraphInv /\ ForgeInv /\ WorkerInv /\ RestType

------------------------------------------------------------------------------
(* The commit graph *)

\* The commits are the positions of the graph.
LEMMA CommitsAre ==
    ASSUME GraphInv
    PROVE  Commits = 1 .. Len(anc) /\ New \in Nat /\ New \notin Commits /\ None \notin Commits
           /\ Commits \subseteq Nat /\ DOMAIN tree = Commits
  BY DEF GraphInv, Commits, New, None

\* The graph only grows: what a commit reaches and contains is settled.
Grown ==
    /\ GraphInv'
    /\ Commits \subseteq Commits'
    /\ \A c \in Commits : anc'[c] = anc[c] /\ tree'[c] = tree[c]

\* A new commit on known parents.
LEMMA CommitGrows ==
    ASSUME GraphInv, NEW P \in SUBSET Commits, NEW t \in Commits \cup {New}, Commit(P, t)
    PROVE  /\ Grown /\ New \in Commits' /\ tree'[New] = t
           /\ anc'[New] = (UNION {anc[p] : p \in P}) \cup {New}
           /\ Commits' = Commits \cup {New}
<1> DEFINE reach == (UNION {anc[p] : p \in P}) \cup {New}
<1>1. /\ Commits = 1 .. Len(anc) /\ New = Len(anc) + 1 /\ New \notin Commits /\ Len(anc) \in Nat
      /\ Commits \subseteq Nat /\ New \in Nat
  BY CommitsAre DEF GraphInv, New
<1>2. \A c \in Commits : anc[c] \subseteq Commits /\ c \in anc[c] /\ tree[c] \in Commits
                         /\ \A d \in anc[c] : anc[d] \subseteq anc[c]
  BY DEF GraphInv
<1>3. reach \subseteq Commits \cup {New} /\ New \in reach
  <2>1. \A x \in reach : x = New \/ \E p \in P : x \in anc[p]
    <3> SUFFICES ASSUME NEW x \in UNION {anc[p] : p \in P}
                 PROVE  \E p \in P : x \in anc[p]
      OBVIOUS
    <3>1. PICK S \in {anc[p] : p \in P} : x \in S
      OBVIOUS
    <3> QED
      BY <3>1
  <2> QED
    BY <1>2, <2>1
<1>4. reach \in SUBSET Nat /\ t \in Nat
  BY <1>1, <1>3
<1>5. anc' = Append(anc, reach) /\ tree' = Append(tree, t)
  BY DEF Commit
<1>6. /\ anc' \in Seq(SUBSET Nat) /\ Len(anc') = Len(anc) + 1 /\ anc'[New] = reach
      /\ \A c \in Commits : anc'[c] = anc[c]
  <2> HIDE DEF reach
  <2> QED
    BY <1>1, <1>4, <1>5 DEF GraphInv
<1>7. /\ tree' \in Seq(Nat) /\ Len(tree') = Len(anc) + 1 /\ tree'[New] = t
      /\ \A c \in Commits : tree'[c] = tree[c]
  BY <1>1, <1>4, <1>5 DEF GraphInv
<1>8. Commits' = Commits \cup {New}
  BY <1>1, <1>6 DEF Commits
<1>9. ASSUME NEW c \in Commits'
      PROVE  /\ tree'[c] \in Commits' /\ c \in anc'[c] /\ anc'[c] \subseteq Commits'
             /\ \A d \in anc'[c] : anc'[d] \subseteq anc'[c]
  <2>1. CASE c \in Commits
    BY <1>2, <1>6, <1>7, <1>8, <2>1
  <2>2. CASE c = New
    <3>1. \A d \in reach : d = New \/ \E S \in {anc[p] : p \in P} : d \in S
      OBVIOUS
    <3>2. \A p \in P : anc[p] \subseteq reach
      OBVIOUS
    <3>3. \A d \in reach : anc'[d] \subseteq reach
      <4> SUFFICES ASSUME NEW d \in reach
                   PROVE  anc'[d] \subseteq reach
        OBVIOUS
      <4>1. CASE d = New
        BY <1>6, <4>1
      <4>2. CASE \E S \in {anc[p] : p \in P} : d \in S
        <5>1. PICK p \in P : d \in anc[p]
          BY <4>2
        <5>2. d \in Commits /\ anc[d] \subseteq anc[p]
          BY <1>2, <5>1
        <5> QED
          BY <1>6, <3>2, <5>2
      <4> QED
        BY <3>1, <4>1, <4>2
    <3> QED
      BY <1>3, <1>6, <1>7, <1>8, <2>2, <3>3
  <2> QED
    BY <1>8, <2>1, <2>2
<1>10. GraphInv'
  BY <1>6, <1>7, <1>9 DEF GraphInv
<1> QED
  BY <1>6, <1>7, <1>8, <1>10 DEF Grown

\* Most steps leave the graph alone.
LEMMA SameGraph ==
    ASSUME GraphInv, UNCHANGED <<anc, tree>>
    PROVE  Grown /\ Commits' = Commits
  BY DEF GraphInv, Grown, Commits

\* Updates stay updates, and good.
LEMMA GoodKept ==
    ASSUME Grown, NEW u \in Updates, Good(u), passed \subseteq passed', given' = given
    PROVE  u \in Updates' /\ Good(u)'
<1>1. u.head \in Commits /\ u.to \in Commits /\ u.from \in Commits
  BY DEF Updates
<1>2. u \in Updates'
  BY DEF Updates, Grown
<1> QED
  BY <1>1, <1>2 DEF Good, Grown

\* The bounds are counted up to.
LEMMA SpendType ==
    ASSUME UsedType, LandingConstantsOK,
           \/ Other
           \/ Fault
           \/ used.runs < MaxRuns /\ Spend("runs")
           \/ UNCHANGED used
    PROVE  UsedType'
<1>1. CASE Other
  BY <1>1 DEF UsedType, LandingConstantsOK, Other, Spend
<1>2. CASE Fault
  BY <1>2 DEF UsedType, LandingConstantsOK, Fault, Spend
<1>3. CASE used.runs < MaxRuns /\ Spend("runs")
  BY <1>3 DEF UsedType, LandingConstantsOK, Spend
<1> QED
  BY <1>1, <1>2, <1>3 DEF UsedType

------------------------------------------------------------------------------
(* The worker's record *)

\* The worker goes on at p.
LEMMA Gone ==
    ASSUME WorkerType, Grown, NEW p \in Places, Go(p)
    PROVE  /\ WorkerType' /\ w'.pc = p
           /\ w'.mode = w.mode /\ w'.head = w.head /\ w'.attempt = w.attempt /\ w'.result = w.result
           /\ w'.seen = w.seen /\ w'.made = w.made
  BY DEF WorkerType, Grown, Go

\* The worker ends.
LEMMA Refused ==
    ASSUME WorkerType, Grown, NEW st \in Statuses, Refuse(st)
    PROVE  /\ WorkerType' /\ w'.pc = "ended" /\ w'.result = st
           /\ w'.mode = w.mode /\ w'.head = w.head
  BY DEF WorkerType, Grown, Refuse, Places

\* A worker that nobody touches.
LEMMA Untouched ==
    ASSUME WorkerType, Grown, UNCHANGED w
    PROVE  WorkerType'
  BY DEF WorkerType, Grown

\* A worker that ends has nothing left to keep but its success.
LEMMA RefuseKeeps ==
    ASSUME WorkerInv, Grown, NEW st \in Statuses, Refuse(st), st = "ok" => w.head \in reached',
           passed \subseteq passed'
    PROVE  WorkerInv'
<1>1. /\ WorkerType' /\ w'.pc = "ended" /\ w'.result = st
      /\ w'.mode = w.mode /\ w'.head = w.head
  BY Refused DEF WorkerInv
<1>2. PlaceInv'
  BY <1>1 DEF PlaceInv, LandPlaces, SyncPlaces, MergedPlaces, PublishPlaces
<1>3. TestedInv'
  BY <1>1 DEF WorkerInv, TestedInv
<1>4. AvoidInv'
  BY <1>1 DEF AvoidInv
<1>5. SuccessIsLanded'
  BY <1>1 DEF SuccessIsLanded
<1> QED
  BY <1>1, <1>2, <1>3, <1>4, <1>5 DEF WorkerInv

\* A worker that others work beside: the checkout never comes back to its head.
LEMMA BesideKeeps ==
    ASSUME WorkerInv, Grown, UNCHANGED <<w, row, passed, given>>, reached \subseteq reached',
           local' = local \/ local' \notin Commits, clean' => clean
    PROVE  WorkerInv'
<1>1. WorkerType' /\ w.head \in Commits
  BY Untouched DEF WorkerInv, WorkerType
<1>2. PlaceInv'
  <2>1. w.pc \in MergedPlaces => w.made \in Commits' /\ w.head \in anc'[w.made]
    BY DEF WorkerInv, PlaceInv, Grown
  <2>2. w.seen \in Commits => w.seen \in Commits'
    BY DEF Grown
  <2>3. w.pc = "create" => w.seen \in anc'[w.head]
    BY <1>1 DEF WorkerInv, PlaceInv, Grown
  <2>4. w.pc \in {"update", "observe"} => w.made \in Commits' /\ Good(Update)'
    <3> SUFFICES ASSUME w.pc \in {"update", "observe"}
                 PROVE  w.made \in Commits' /\ Good(Update)'
      OBVIOUS
    <3>1. w.made \in Commits /\ Good(Update) /\ w.seen \in Commits /\ w.mode \in Modes
      BY DEF WorkerInv, PlaceInv, PublishPlaces, WorkerType
    <3>2. Update \in Updates /\ Update' = Update
      BY <1>1, <3>1 DEF Update, Updates
    <3>3. Good(Update)'
      BY <3>1, <3>2, GoodKept DEF Good
    <3> QED
      BY <3>1, <3>3 DEF Grown
  <2> QED
    BY <2>1, <2>2, <2>3, <2>4 DEF WorkerInv, PlaceInv
<1>3. TestedInv'
  BY <1>1 DEF WorkerInv, TestedInv
<1>4. AvoidInv'
  BY <1>1 DEF WorkerInv, AvoidInv, Grown
<1>5. SuccessIsLanded'
  BY DEF WorkerInv, SuccessIsLanded
<1> QED
  BY <1>1, <1>2, <1>3, <1>4, <1>5 DEF WorkerInv

------------------------------------------------------------------------------
(* The worker's steps *)

\* The look for avoided commits before the preflight.
LEMMA FirstAvoidedKeeps ==
    ASSUME IInv, CheckAvoided("avoid1", "local")
    PROVE  WorkerInv'
<1> USE DEF IInv, WorkerInv
<1>1. /\ w.pc = "avoid1" /\ UNCHANGED <<given, reached, passed>>
      /\ w.result = "none" /\ row = w.head /\ w.head \in Commits
  BY DEF CheckAvoided, At, forge, checkout, history, PlaceInv, WorkerType
<1>2. Grown /\ UNCHANGED <<anc, tree>> /\ Commits' = Commits
  BY SameGraph DEF CheckAvoided
<1>3. CASE \E st \in Statuses \ {"ok"} : Refuse(st)
  BY <1>1, <1>2, <1>3, RefuseKeeps
<1>4. CASE Go("local")
  <2>1. /\ WorkerType' /\ w'.pc = "local"
        /\ w'.mode = w.mode /\ w'.head = w.head /\ w'.attempt = w.attempt /\ w'.result = w.result
        /\ w'.seen = w.seen /\ w'.made = w.made
    BY <1>2, <1>4, Gone DEF Places
  <2>2. UNCHANGED <<row, clean>> /\ local' = local
    BY <1>4 DEF CheckAvoided, checkout, forge, history
  <2>3. PlaceInv'
    BY <1>1, <1>2, <1>4, <2>1, <2>2 DEF PlaceInv, LandPlaces, SyncPlaces, MergedPlaces,
           PublishPlaces
  <2>4. TestedInv'
    BY <1>1, <1>2, <1>4, <2>1, <2>2 DEF TestedInv, PlaceInv, LandPlaces, SyncPlaces, MergedPlaces,
           PublishPlaces
  <2>5. AvoidInv'
    BY <1>1, <1>2, <1>4, <2>1, <2>2 DEF AvoidInv, PlaceInv, LandPlaces, SyncPlaces, MergedPlaces,
           PublishPlaces
  <2>6. SuccessIsLanded'
    BY <1>1, <1>2, <1>4, <2>1, <2>2 DEF SuccessIsLanded
  <2> QED
    BY <2>1, <2>3, <2>4, <2>5, <2>6
<1> QED
  BY <1>1, <1>3, <1>4 DEF CheckAvoided, Statuses

\* The look for avoided commits after the gate.
LEMMA SecondAvoidedKeeps ==
    ASSUME IInv, CheckAvoided("avoid2", "publish")
    PROVE  WorkerInv'
<1> USE DEF IInv, WorkerInv
<1>1. /\ w.pc = "avoid2" /\ UNCHANGED <<given, reached, passed>>
      /\ w.result = "none" /\ row = w.head /\ w.head \in Commits
  BY DEF CheckAvoided, At, forge, checkout, history, PlaceInv, WorkerType
<1>2. Grown /\ UNCHANGED <<anc, tree>> /\ Commits' = Commits
  BY SameGraph DEF CheckAvoided
<1>3. CASE \E st \in Statuses \ {"ok"} : Refuse(st)
  BY <1>1, <1>2, <1>3, RefuseKeeps
<1>4. CASE ~Reaches(w.head) /\ Go("publish")
  <2>1. /\ WorkerType' /\ w'.pc = "publish"
        /\ w'.mode = w.mode /\ w'.head = w.head /\ w'.attempt = w.attempt /\ w'.result = w.result
        /\ w'.seen = w.seen /\ w'.made = w.made
    BY <1>2, <1>4, Gone DEF Places
  <2>2. UNCHANGED <<row, clean>> /\ local' = local
    BY <1>4 DEF CheckAvoided, checkout, forge, history
  <2>3. PlaceInv'
    BY <1>1, <1>2, <1>4, <2>1, <2>2 DEF PlaceInv, LandPlaces, SyncPlaces, MergedPlaces,
           PublishPlaces
  <2>4. TestedInv'
    BY <1>1, <1>2, <1>4, <2>1, <2>2 DEF TestedInv, PlaceInv, LandPlaces, SyncPlaces, MergedPlaces,
           PublishPlaces
  <2>5. AvoidInv'
    BY <1>1, <1>2, <1>4, <2>1, <2>2 DEF AvoidInv, PlaceInv, LandPlaces, SyncPlaces, MergedPlaces,
           PublishPlaces, Reaches
  <2>6. SuccessIsLanded'
    BY <1>1, <1>2, <1>4, <2>1, <2>2 DEF SuccessIsLanded
  <2> QED
    BY <2>1, <2>3, <2>4, <2>5, <2>6
<1> QED
  BY <1>1, <1>3, <1>4 DEF CheckAvoided, Statuses

\* The checkout is looked at.
LEMMA CheckLocalKeeps ==
    ASSUME IInv, CheckLocal
    PROVE  WorkerInv'
<1> USE DEF IInv, WorkerInv
<1>1. /\ w.pc = "local" /\ UNCHANGED <<given, reached, passed>>
      /\ w.result = "none" /\ row = w.head /\ w.head \in Commits
  BY DEF CheckLocal, At, forge, checkout, history, PlaceInv, WorkerType
<1>2. Grown /\ UNCHANGED <<anc, tree>> /\ Commits' = Commits
  BY SameGraph DEF CheckLocal
<1>3. CASE \E st \in Statuses \ {"ok"} : Refuse(st)
  BY <1>1, <1>2, <1>3, RefuseKeeps
<1>4. CASE local = w.head /\ clean /\ Go("meta")
  <2>1. /\ WorkerType' /\ w'.pc = "meta"
        /\ w'.mode = w.mode /\ w'.head = w.head /\ w'.attempt = w.attempt /\ w'.result = w.result
        /\ w'.seen = w.seen /\ w'.made = w.made
    BY <1>2, <1>4, Gone DEF Places
  <2>2. UNCHANGED <<row, clean>> /\ local' = local
    BY <1>4 DEF CheckLocal, checkout, forge, history
  <2>3. PlaceInv'
    BY <1>1, <1>2, <1>4, <2>1, <2>2 DEF PlaceInv, LandPlaces, SyncPlaces, MergedPlaces,
           PublishPlaces
  <2>4. TestedInv'
    BY <1>1, <1>2, <1>4, <2>1, <2>2 DEF TestedInv, PlaceInv, LandPlaces, SyncPlaces, MergedPlaces,
           PublishPlaces
  <2>5. AvoidInv'
    BY <1>1, <1>2, <1>4, <2>1, <2>2 DEF AvoidInv, PlaceInv, LandPlaces, SyncPlaces, MergedPlaces,
           PublishPlaces
  <2>6. SuccessIsLanded'
    BY <1>1, <1>2, <1>4, <2>1, <2>2 DEF SuccessIsLanded
  <2> QED
    BY <2>1, <2>3, <2>4, <2>5, <2>6
<1> QED
  BY <1>1, <1>3, <1>4 DEF CheckLocal, Statuses

\* The metadata are read.
LEMMA ReadPullRequestKeeps ==
    ASSUME IInv, ReadPullRequest
    PROVE  WorkerInv'
<1> USE DEF IInv, WorkerInv
<1>1. /\ w.pc = "meta" /\ UNCHANGED <<given, reached, passed>>
      /\ w.result = "none" /\ row = w.head /\ w.head \in Commits
  BY DEF ReadPullRequest, At, forge, checkout, history, PlaceInv, WorkerType
<1>2. Grown /\ UNCHANGED <<anc, tree>> /\ Commits' = Commits
  BY SameGraph DEF ReadPullRequest
<1>3. CASE \E st \in Statuses \ {"ok"} : Refuse(st)
  BY <1>1, <1>2, <1>3, RefuseKeeps
<1>4. CASE w' = [w EXCEPT !.pc = "refs", !.merged = pr.state = "MERGED"]
  <2>1. /\ WorkerType' /\ w'.pc = "refs"
        /\ w'.mode = w.mode /\ w'.head = w.head /\ w'.attempt = w.attempt /\ w'.result = w.result
        /\ w'.seen = w.seen /\ w'.made = w.made
    BY <1>2, <1>4 DEF WorkerType, Places
  <2>2. UNCHANGED <<row, clean>> /\ local' = local
    BY <1>4 DEF ReadPullRequest, checkout, forge, history
  <2>3. PlaceInv'
    BY <1>1, <1>2, <1>4, <2>1, <2>2 DEF PlaceInv, LandPlaces, SyncPlaces, MergedPlaces,
           PublishPlaces
  <2>4. TestedInv'
    BY <1>1, <1>2, <1>4, <2>1, <2>2 DEF TestedInv, PlaceInv, LandPlaces, SyncPlaces, MergedPlaces,
           PublishPlaces
  <2>5. AvoidInv'
    BY <1>1, <1>2, <1>4, <2>1, <2>2 DEF AvoidInv, PlaceInv, LandPlaces, SyncPlaces, MergedPlaces,
           PublishPlaces
  <2>6. SuccessIsLanded'
    BY <1>1, <1>2, <1>4, <2>1, <2>2 DEF SuccessIsLanded
  <2> QED
    BY <2>1, <2>3, <2>4, <2>5, <2>6
<1> QED
  BY <1>1, <1>3, <1>4 DEF ReadPullRequest, MetaVerdict, Statuses

\* Synchronization looks at the checkout again.
LEMMA SyncLocalKeeps ==
    ASSUME IInv, SyncLocal
    PROVE  WorkerInv'
<1> USE DEF IInv, WorkerInv
<1>1. /\ w.pc = "sync_local" /\ UNCHANGED <<given, reached, passed>>
      /\ w.result = "none" /\ row = w.head /\ w.head \in Commits
  BY DEF SyncLocal, At, forge, checkout, history, PlaceInv, WorkerType
<1>2. Grown /\ UNCHANGED <<anc, tree>> /\ Commits' = Commits
  BY SameGraph DEF SyncLocal
<1>3. CASE \E st \in Statuses \ {"ok"} : Refuse(st)
  BY <1>1, <1>2, <1>3, RefuseKeeps
<1>4. CASE Go("sync_meta")
  <2>1. /\ WorkerType' /\ w'.pc = "sync_meta"
        /\ w'.mode = w.mode /\ w'.head = w.head /\ w'.attempt = w.attempt /\ w'.result = w.result
        /\ w'.seen = w.seen /\ w'.made = w.made
    BY <1>2, <1>4, Gone DEF Places
  <2>2. UNCHANGED <<row, clean>> /\ local' = local
    BY <1>4 DEF SyncLocal, checkout, forge, history
  <2>3. PlaceInv'
    BY <1>1, <1>2, <1>4, <2>1, <2>2 DEF PlaceInv, LandPlaces, SyncPlaces, MergedPlaces,
           PublishPlaces
  <2>4. TestedInv'
    BY <1>1, <1>2, <1>4, <2>1, <2>2 DEF TestedInv, PlaceInv, LandPlaces, SyncPlaces, MergedPlaces,
           PublishPlaces
  <2>5. AvoidInv'
    BY <1>1, <1>2, <1>4, <2>1, <2>2 DEF AvoidInv, PlaceInv, LandPlaces, SyncPlaces, MergedPlaces,
           PublishPlaces
  <2>6. SuccessIsLanded'
    BY <1>1, <1>2, <1>4, <2>1, <2>2 DEF SuccessIsLanded
  <2> QED
    BY <2>1, <2>3, <2>4, <2>5, <2>6
<1> QED
  BY <1>1, <1>3, <1>4 DEF SyncLocal, Statuses

\* Synchronization reads the metadata.
LEMMA SyncMetaKeeps ==
    ASSUME IInv, SyncMeta
    PROVE  WorkerInv'
<1> USE DEF IInv, WorkerInv
<1>1. /\ w.pc = "sync_meta" /\ UNCHANGED <<given, reached, passed>>
      /\ w.result = "none" /\ row = w.head /\ w.head \in Commits
  BY DEF SyncMeta, At, forge, checkout, history, PlaceInv, WorkerType
<1>2. Grown /\ UNCHANGED <<anc, tree>> /\ Commits' = Commits
  BY SameGraph DEF SyncMeta
<1>3. CASE \E st \in Statuses \ {"ok"} : Refuse(st)
  BY <1>1, <1>2, <1>3, RefuseKeeps
<1>4. CASE Go("sync_refs")
  <2>1. /\ WorkerType' /\ w'.pc = "sync_refs"
        /\ w'.mode = w.mode /\ w'.head = w.head /\ w'.attempt = w.attempt /\ w'.result = w.result
        /\ w'.seen = w.seen /\ w'.made = w.made
    BY <1>2, <1>4, Gone DEF Places
  <2>2. UNCHANGED <<row, clean>> /\ local' = local
    BY <1>4 DEF SyncMeta, checkout, forge, history
  <2>3. PlaceInv'
    BY <1>1, <1>2, <1>4, <2>1, <2>2 DEF PlaceInv, LandPlaces, SyncPlaces, MergedPlaces,
           PublishPlaces
  <2>4. TestedInv'
    BY <1>1, <1>2, <1>4, <2>1, <2>2 DEF TestedInv, PlaceInv, LandPlaces, SyncPlaces, MergedPlaces,
           PublishPlaces
  <2>5. AvoidInv'
    BY <1>1, <1>2, <1>4, <2>1, <2>2 DEF AvoidInv, PlaceInv, LandPlaces, SyncPlaces, MergedPlaces,
           PublishPlaces
  <2>6. SuccessIsLanded'
    BY <1>1, <1>2, <1>4, <2>1, <2>2 DEF SuccessIsLanded
  <2> QED
    BY <2>1, <2>3, <2>4, <2>5, <2>6
<1> QED
  BY <1>1, <1>3, <1>4 DEF SyncMeta, Statuses

\* Synchronization reads the refs.
LEMMA SyncRefsKeeps ==
    ASSUME IInv, SyncRefs
    PROVE  WorkerInv'
<1> USE DEF IInv, WorkerInv
<1>1. /\ w.pc = "sync_refs" /\ UNCHANGED <<given, reached, passed>>
      /\ w.result = "none" /\ row = w.head /\ w.head \in Commits
  BY DEF SyncRefs, At, forge, checkout, history, PlaceInv, WorkerType
<1>2. Grown /\ UNCHANGED <<anc, tree>> /\ Commits' = Commits
  BY SameGraph DEF SyncRefs
<1>3. CASE \E st \in Statuses \ {"ok"} : Refuse(st)
  BY <1>1, <1>2, <1>3, RefuseKeeps
<1>4. CASE w' = [w EXCEPT !.pc = "local", !.attempt = @ + 1]
  <2>1. /\ WorkerType' /\ w'.pc = "local"
        /\ w'.mode = w.mode /\ w'.head = w.head /\ w'.attempt = w.attempt + 1 /\ w'.result = w.result
        /\ w'.seen = w.seen /\ w'.made = w.made
    <3>1. w.attempt \in 1 .. Attempts /\ w.attempt < Attempts
      BY <1>1 DEF WorkerType, PlaceInv, SyncPlaces
    <3>2. w.attempt + 1 \in 1 .. Attempts
      BY <3>1, LandingConstantsOK DEF LandingConstantsOK
    <3> QED
      BY <1>2, <1>4, <3>2 DEF WorkerType, Places
  <2>2. UNCHANGED <<row, clean>> /\ local' = local
    BY <1>4 DEF SyncRefs, checkout, forge, history
  <2>3. PlaceInv'
    BY <1>1, <1>2, <1>4, <2>1, <2>2 DEF PlaceInv, LandPlaces, SyncPlaces, MergedPlaces,
           PublishPlaces
  <2>4. TestedInv'
    BY <1>1, <1>2, <1>4, <2>1, <2>2 DEF TestedInv, PlaceInv, LandPlaces, SyncPlaces, MergedPlaces,
           PublishPlaces
  <2>5. AvoidInv'
    BY <1>1, <1>2, <1>4, <2>1, <2>2 DEF AvoidInv, PlaceInv, LandPlaces, SyncPlaces, MergedPlaces,
           PublishPlaces
  <2>6. SuccessIsLanded'
    BY <1>1, <1>2, <1>4, <2>1, <2>2 DEF SuccessIsLanded
  <2> QED
    BY <2>1, <2>3, <2>4, <2>5, <2>6
<1>5. CASE w' = [w EXCEPT !.pc = "sync_merge", !.seen = base]
  <2>1. /\ WorkerType' /\ w'.pc = "sync_merge"
        /\ w'.mode = w.mode /\ w'.head = w.head /\ w'.attempt = w.attempt /\ w'.result = w.result
        /\ w'.seen = base /\ w'.made = w.made
    BY <1>2, <1>5 DEF WorkerType, Places, ForgeInv
  <2>2. UNCHANGED <<row, clean>> /\ local' = local
    BY <1>5 DEF SyncRefs, checkout, forge, history
  <2>3. PlaceInv'
    BY <1>1, <1>2, <1>5, <2>1, <2>2 DEF PlaceInv, LandPlaces, SyncPlaces, MergedPlaces,
           PublishPlaces, ForgeInv
  <2>4. TestedInv'
    BY <1>1, <1>2, <1>5, <2>1, <2>2 DEF TestedInv, PlaceInv, LandPlaces, SyncPlaces, MergedPlaces,
           PublishPlaces
  <2>5. AvoidInv'
    BY <1>1, <1>2, <1>5, <2>1, <2>2 DEF AvoidInv, PlaceInv, LandPlaces, SyncPlaces, MergedPlaces,
           PublishPlaces
  <2>6. SuccessIsLanded'
    BY <1>1, <1>2, <1>5, <2>1, <2>2 DEF SuccessIsLanded
  <2> QED
    BY <2>1, <2>3, <2>4, <2>5, <2>6
<1> QED
  BY <1>1, <1>3, <1>4, <1>5 DEF SyncRefs, Statuses

\* The push of the synchronized source.
LEMMA SyncPushKeeps ==
    ASSUME IInv, SyncPush
    PROVE  WorkerInv'
<1> USE DEF IInv, WorkerInv
<1>1. /\ w.pc = "sync_push" /\ UNCHANGED <<given, reached, passed>>
      /\ w.result = "none" /\ row = w.head /\ w.head \in Commits
  BY DEF SyncPush, At, forge, checkout, history, PlaceInv, WorkerType
<1>2. Grown /\ UNCHANGED <<anc, tree>> /\ Commits' = Commits
  BY SameGraph DEF SyncPush
<1>3. CASE Go("record")
  <2>1. /\ WorkerType' /\ w'.pc = "record"
        /\ w'.mode = w.mode /\ w'.head = w.head /\ w'.attempt = w.attempt /\ w'.result = w.result
        /\ w'.seen = w.seen /\ w'.made = w.made
    BY <1>2, <1>3, Gone DEF Places
  <2>2. UNCHANGED <<row, clean>> /\ local' = local
    BY <1>3 DEF SyncPush, checkout, forge, history
  <2>3. PlaceInv'
    BY <1>1, <1>2, <1>3, <2>1, <2>2 DEF PlaceInv, LandPlaces, SyncPlaces, MergedPlaces,
           PublishPlaces
  <2>4. TestedInv'
    BY <1>1, <1>2, <1>3, <2>1, <2>2 DEF TestedInv, PlaceInv, LandPlaces, SyncPlaces, MergedPlaces,
           PublishPlaces
  <2>5. AvoidInv'
    BY <1>1, <1>2, <1>3, <2>1, <2>2 DEF AvoidInv, PlaceInv, LandPlaces, SyncPlaces, MergedPlaces,
           PublishPlaces
  <2>6. SuccessIsLanded'
    BY <1>1, <1>2, <1>3, <2>1, <2>2 DEF SuccessIsLanded
  <2> QED
    BY <2>1, <2>3, <2>4, <2>5, <2>6
<1>4. CASE Go("sync_observe")
  <2>1. /\ WorkerType' /\ w'.pc = "sync_observe"
        /\ w'.mode = w.mode /\ w'.head = w.head /\ w'.attempt = w.attempt /\ w'.result = w.result
        /\ w'.seen = w.seen /\ w'.made = w.made
    BY <1>2, <1>4, Gone DEF Places
  <2>2. UNCHANGED <<row, clean>> /\ local' = local
    BY <1>4 DEF SyncPush, checkout, forge, history
  <2>3. PlaceInv'
    BY <1>1, <1>2, <1>4, <2>1, <2>2 DEF PlaceInv, LandPlaces, SyncPlaces, MergedPlaces,
           PublishPlaces
  <2>4. TestedInv'
    BY <1>1, <1>2, <1>4, <2>1, <2>2 DEF TestedInv, PlaceInv, LandPlaces, SyncPlaces, MergedPlaces,
           PublishPlaces
  <2>5. AvoidInv'
    BY <1>1, <1>2, <1>4, <2>1, <2>2 DEF AvoidInv, PlaceInv, LandPlaces, SyncPlaces, MergedPlaces,
           PublishPlaces
  <2>6. SuccessIsLanded'
    BY <1>1, <1>2, <1>4, <2>1, <2>2 DEF SuccessIsLanded
  <2> QED
    BY <2>1, <2>3, <2>4, <2>5, <2>6
<1> QED
  BY <1>1, <1>3, <1>4 DEF SyncPush

\* The refs before the push.
LEMMA SyncCheckKeeps ==
    ASSUME IInv, SyncCheck
    PROVE  WorkerInv'
<1> USE DEF IInv, WorkerInv
<1>1. /\ w.pc = "sync_check" /\ UNCHANGED <<given, reached, passed>>
      /\ w.result = "none" /\ row = w.head /\ w.head \in Commits
  BY DEF SyncCheck, At, forge, checkout, history, PlaceInv, WorkerType
<1>2. Grown /\ UNCHANGED <<anc, tree>> /\ Commits' = Commits
  BY SameGraph DEF SyncCheck
<1>3. CASE \E st \in Statuses \ {"ok"} : Refuse(st)
  BY <1>1, <1>2, <1>3, RefuseKeeps
<1>4. CASE Go("sync_push") /\ local' = local
  <2>1. /\ WorkerType' /\ w'.pc = "sync_push"
        /\ w'.mode = w.mode /\ w'.head = w.head /\ w'.attempt = w.attempt /\ w'.result = w.result
        /\ w'.seen = w.seen /\ w'.made = w.made
    BY <1>2, <1>4, Gone DEF Places
  <2>2. UNCHANGED <<row, clean>> /\ local' = local
    BY <1>4 DEF SyncCheck, checkout, forge, history
  <2>3. PlaceInv'
    BY <1>1, <1>2, <1>4, <2>1, <2>2 DEF PlaceInv, LandPlaces, SyncPlaces, MergedPlaces,
           PublishPlaces
  <2>4. TestedInv'
    BY <1>1, <1>2, <1>4, <2>1, <2>2 DEF TestedInv, PlaceInv, LandPlaces, SyncPlaces, MergedPlaces,
           PublishPlaces
  <2>5. AvoidInv'
    BY <1>1, <1>2, <1>4, <2>1, <2>2 DEF AvoidInv, PlaceInv, LandPlaces, SyncPlaces, MergedPlaces,
           PublishPlaces
  <2>6. SuccessIsLanded'
    BY <1>1, <1>2, <1>4, <2>1, <2>2 DEF SuccessIsLanded
  <2> QED
    BY <2>1, <2>3, <2>4, <2>5, <2>6
<1> QED
  BY <1>1, <1>3, <1>4 DEF SyncCheck, Restore, Statuses

\* The refs after a push that failed.
LEMMA SyncObserveKeeps ==
    ASSUME IInv, SyncObserve
    PROVE  WorkerInv'
<1> USE DEF IInv, WorkerInv
<1>1. /\ w.pc = "sync_observe" /\ UNCHANGED <<given, reached, passed>>
      /\ w.result = "none" /\ row = w.head /\ w.head \in Commits
  BY DEF SyncObserve, At, forge, checkout, history, PlaceInv, WorkerType
<1>2. Grown /\ UNCHANGED <<anc, tree>> /\ Commits' = Commits
  BY SameGraph DEF SyncObserve
<1>3. CASE \E st \in Statuses \ {"ok"} : Refuse(st)
  BY <1>1, <1>2, <1>3, RefuseKeeps
<1>4. CASE Go("record") /\ local' = local
  <2>1. /\ WorkerType' /\ w'.pc = "record"
        /\ w'.mode = w.mode /\ w'.head = w.head /\ w'.attempt = w.attempt /\ w'.result = w.result
        /\ w'.seen = w.seen /\ w'.made = w.made
    BY <1>2, <1>4, Gone DEF Places
  <2>2. UNCHANGED <<row, clean>> /\ local' = local
    BY <1>4 DEF SyncObserve, checkout, forge, history
  <2>3. PlaceInv'
    BY <1>1, <1>2, <1>4, <2>1, <2>2 DEF PlaceInv, LandPlaces, SyncPlaces, MergedPlaces,
           PublishPlaces
  <2>4. TestedInv'
    BY <1>1, <1>2, <1>4, <2>1, <2>2 DEF TestedInv, PlaceInv, LandPlaces, SyncPlaces, MergedPlaces,
           PublishPlaces
  <2>5. AvoidInv'
    BY <1>1, <1>2, <1>4, <2>1, <2>2 DEF AvoidInv, PlaceInv, LandPlaces, SyncPlaces, MergedPlaces,
           PublishPlaces
  <2>6. SuccessIsLanded'
    BY <1>1, <1>2, <1>4, <2>1, <2>2 DEF SuccessIsLanded
  <2> QED
    BY <2>1, <2>3, <2>4, <2>5, <2>6
<1> QED
  BY <1>1, <1>3, <1>4 DEF SyncObserve, Restore, Statuses

\* The gate's verdict is in the receipt of a full run.
LEMMA ReuseGateKeeps ==
    ASSUME IInv, ReuseGate
    PROVE  WorkerInv'
<1> USE DEF IInv, WorkerInv
<1>1. /\ w.pc = "gate" /\ UNCHANGED <<given, reached, passed>>
      /\ w.result = "none" /\ row = w.head /\ w.head \in Commits
  BY DEF ReuseGate, At, forge, checkout, history, PlaceInv, WorkerType
<1>2. Grown /\ UNCHANGED <<anc, tree>> /\ Commits' = Commits
  BY SameGraph DEF ReuseGate
<1>3. CASE Go("avoid2")
  <2>1. /\ WorkerType' /\ w'.pc = "avoid2"
        /\ w'.mode = w.mode /\ w'.head = w.head /\ w'.attempt = w.attempt /\ w'.result = w.result
        /\ w'.seen = w.seen /\ w'.made = w.made
    BY <1>2, <1>3, Gone DEF Places
  <2>2. w.head \in passed
    BY <1>1 DEF ReuseGate, ForgeInv, ReachedInv
  <2>3. UNCHANGED <<row, clean>> /\ local' = local
    BY <1>3 DEF ReuseGate, checkout, forge, history
  <2>4. PlaceInv'
    BY <1>1, <1>2, <1>3, <2>1, <2>2, <2>3 DEF PlaceInv, LandPlaces, SyncPlaces, MergedPlaces,
           PublishPlaces
  <2>5. TestedInv'
    BY <1>1, <1>2, <1>3, <2>1, <2>2, <2>3 DEF TestedInv, PlaceInv, LandPlaces, SyncPlaces,
           MergedPlaces, PublishPlaces
  <2>6. AvoidInv'
    BY <1>1, <1>2, <1>3, <2>1, <2>2, <2>3 DEF AvoidInv, PlaceInv, LandPlaces, SyncPlaces,
           MergedPlaces, PublishPlaces
  <2>7. SuccessIsLanded'
    BY <1>1, <1>2, <1>3, <2>1, <2>2, <2>3 DEF SuccessIsLanded
  <2> QED
    BY <2>1, <2>4, <2>5, <2>6, <2>7
<1> QED
  BY <1>1, <1>3 DEF ReuseGate

\* The gate starts on what is in the checkout.
LEMMA StartGateKeeps ==
    ASSUME IInv, StartGate
    PROVE  WorkerInv'
<1> USE DEF IInv, WorkerInv
<1>1. /\ w.pc = "gate" /\ UNCHANGED <<given, reached, passed>>
      /\ w.result = "none" /\ row = w.head /\ w.head \in Commits
  BY DEF StartGate, At, forge, checkout, history, PlaceInv, WorkerType
<1>2. Grown /\ UNCHANGED <<anc, tree>> /\ Commits' = Commits
  BY SameGraph DEF StartGate
<1>3. CASE w' = [w EXCEPT !.pc = "gating", !.made = IF clean THEN local ELSE None]
  <2>1. /\ WorkerType' /\ w'.pc = "gating"
        /\ w'.mode = w.mode /\ w'.head = w.head /\ w'.attempt = w.attempt /\ w'.result = w.result
        /\ w'.seen = w.seen /\ w'.made = (IF clean THEN local ELSE None)
    BY <1>2, <1>3 DEF WorkerType, Places, RestType
  <2>2. UNCHANGED <<row, clean>> /\ local' = local
    BY <1>3 DEF StartGate, checkout, forge, history
  <2>3. PlaceInv'
    BY <1>1, <1>2, <1>3, <2>1, <2>2 DEF PlaceInv, LandPlaces, SyncPlaces, MergedPlaces,
           PublishPlaces
  <2>4. TestedInv'
    BY <1>1, <1>2, <1>3, <2>1, <2>2 DEF TestedInv, PlaceInv, LandPlaces, SyncPlaces, MergedPlaces,
           PublishPlaces
  <2>5. AvoidInv'
    BY <1>1, <1>2, <1>3, <2>1, <2>2 DEF AvoidInv, PlaceInv, LandPlaces, SyncPlaces, MergedPlaces,
           PublishPlaces
  <2>6. SuccessIsLanded'
    BY <1>1, <1>2, <1>3, <2>1, <2>2 DEF SuccessIsLanded
  <2> QED
    BY <2>1, <2>3, <2>4, <2>5, <2>6
<1> QED
  BY <1>1, <1>3 DEF StartGate

\* Publication begins.
LEMMA BeginPublishKeeps ==
    ASSUME IInv, BeginPublish
    PROVE  WorkerInv'
<1> USE DEF IInv, WorkerInv
<1>1. /\ w.pc = "publish" /\ UNCHANGED <<given, reached, passed>>
      /\ w.result = "none" /\ row = w.head /\ w.head \in Commits
  BY DEF BeginPublish, At, forge, checkout, history, PlaceInv, WorkerType
<1>2. Grown /\ UNCHANGED <<anc, tree>> /\ Commits' = Commits
  BY SameGraph DEF BeginPublish
<1>3. CASE w' = [w EXCEPT !.pc = "local", !.mode = "publish", !.replaced = None]
  <2>1. /\ WorkerType' /\ w'.pc = "local"
        /\ w'.mode = "publish" /\ w'.head = w.head /\ w'.result = w.result
    BY <1>2, <1>3 DEF WorkerType, Places, Modes
  <2>2. UNCHANGED <<row, clean>> /\ local' = local
    BY <1>3 DEF BeginPublish, checkout, forge, history
  <2>3. PlaceInv'
    BY <1>1, <1>2, <1>3, <2>1, <2>2 DEF PlaceInv, LandPlaces, SyncPlaces, MergedPlaces,
           PublishPlaces
  <2>4. TestedInv'
    BY <1>1, <1>2, <1>3, <2>1, <2>2 DEF TestedInv, PlaceInv, LandPlaces, SyncPlaces, MergedPlaces,
           PublishPlaces
  <2>5. AvoidInv'
    BY <1>1, <1>2, <1>3, <2>1, <2>2 DEF AvoidInv, PlaceInv, LandPlaces, SyncPlaces, MergedPlaces,
           PublishPlaces
  <2>6. SuccessIsLanded'
    BY <1>1, <1>2, <1>3, <2>1, <2>2 DEF SuccessIsLanded
  <2> QED
    BY <2>1, <2>3, <2>4, <2>5, <2>6
<1> QED
  BY <1>1, <1>3 DEF BeginPublish

\* A red gate.
LEMMA GateRedKeeps ==
    ASSUME IInv, GateRed
    PROVE  WorkerInv'
<1> USE DEF IInv, WorkerInv
<1>1. /\ w.pc = "gating" /\ UNCHANGED <<given, reached, passed>>
      /\ w.result = "none" /\ row = w.head /\ w.head \in Commits
  BY DEF GateRed, At, forge, checkout, history, PlaceInv, WorkerType
<1>2. Grown /\ UNCHANGED <<anc, tree>> /\ Commits' = Commits
  BY SameGraph DEF GateRed
<1>3. CASE \E st \in Statuses \ {"ok"} : Refuse(st)
  BY <1>1, <1>2, <1>3, RefuseKeeps
<1> QED
  BY <1>1, <1>3 DEF GateRed, Statuses

\* A merge that conflicts.
LEMMA SyncConflictKeeps ==
    ASSUME IInv, SyncConflict
    PROVE  WorkerInv'
<1> USE DEF IInv, WorkerInv
<1>1. /\ w.pc = "sync_merge" /\ UNCHANGED <<given, reached, passed>>
      /\ w.result = "none" /\ row = w.head /\ w.head \in Commits
  BY DEF SyncConflict, At, forge, checkout, history, PlaceInv, WorkerType
<1>2. Grown /\ UNCHANGED <<anc, tree>> /\ Commits' = Commits
  BY SameGraph DEF SyncConflict
<1>3. CASE \E st \in Statuses \ {"ok"} : Refuse(st)
  BY <1>1, <1>2, <1>3, RefuseKeeps
<1> QED
  BY <1>1, <1>3 DEF SyncConflict, Statuses

\* The refs are read and the worker goes on.
LEMMA ReadRefsGoes ==
    ASSUME IInv, ReadRefs /\ w'.pc # "ended"
    PROVE  WorkerInv'
<1> USE DEF IInv, WorkerInv
<1>1. /\ w.pc = "refs" /\ UNCHANGED <<given, reached, passed>>
      /\ w.result = "none" /\ row = w.head /\ w.head \in Commits
  BY DEF ReadRefs, At, forge, checkout, history, PlaceInv, WorkerType
<1>2. Grown /\ UNCHANGED <<anc, tree>> /\ Commits' = Commits
  BY SameGraph DEF ReadRefs
<1>3. CASE w.mode # "land" /\ BaseInHead /\ w' = [w EXCEPT !.pc = "create", !.seen = base]
  <2>1. /\ WorkerType' /\ w'.pc = "create"
        /\ w'.mode = w.mode /\ w'.head = w.head /\ w'.attempt = w.attempt /\ w'.result = w.result
        /\ w'.seen = base /\ w'.made = w.made
    BY <1>2, <1>3 DEF WorkerType, Places, ForgeInv
  <2>2. UNCHANGED <<row, clean>> /\ local' = local
    BY <1>3 DEF ReadRefs, checkout, forge, history
  <2>3. PlaceInv'
    BY <1>1, <1>2, <1>3, <2>1, <2>2 DEF PlaceInv, LandPlaces, SyncPlaces, MergedPlaces,
           PublishPlaces, ForgeInv, BaseInHead
  <2>4. TestedInv'
    BY <1>1, <1>2, <1>3, <2>1, <2>2 DEF TestedInv, PlaceInv, LandPlaces, SyncPlaces, MergedPlaces,
           PublishPlaces
  <2>5. AvoidInv'
    BY <1>1, <1>2, <1>3, <2>1, <2>2 DEF AvoidInv, PlaceInv, LandPlaces, SyncPlaces, MergedPlaces,
           PublishPlaces
  <2>6. SuccessIsLanded'
    BY <1>1, <1>2, <1>3, <2>1, <2>2 DEF SuccessIsLanded
  <2> QED
    BY <2>1, <2>3, <2>4, <2>5, <2>6
<1>4. CASE w.mode = "land" /\ Go("gate")
  <2>1. /\ WorkerType' /\ w'.pc = "gate"
        /\ w'.mode = w.mode /\ w'.head = w.head /\ w'.attempt = w.attempt /\ w'.result = w.result
        /\ w'.seen = w.seen /\ w'.made = w.made
    BY <1>2, <1>4, Gone DEF Places
  <2>2. UNCHANGED <<row, clean>> /\ local' = local
    BY <1>4 DEF ReadRefs, checkout, forge, history
  <2>3. PlaceInv'
    BY <1>1, <1>2, <1>4, <2>1, <2>2 DEF PlaceInv, LandPlaces, SyncPlaces, MergedPlaces,
           PublishPlaces
  <2>4. TestedInv'
    BY <1>1, <1>2, <1>4, <2>1, <2>2 DEF TestedInv, PlaceInv, LandPlaces, SyncPlaces, MergedPlaces,
           PublishPlaces
  <2>5. AvoidInv'
    BY <1>1, <1>2, <1>4, <2>1, <2>2 DEF AvoidInv, PlaceInv, LandPlaces, SyncPlaces, MergedPlaces,
           PublishPlaces
  <2>6. SuccessIsLanded'
    BY <1>1, <1>2, <1>4, <2>1, <2>2 DEF SuccessIsLanded
  <2> QED
    BY <2>1, <2>3, <2>4, <2>5, <2>6
<1>5. CASE w.mode = "land" /\ RoundLeft /\ Go("sync_local")
  <2>1. /\ WorkerType' /\ w'.pc = "sync_local"
        /\ w'.mode = w.mode /\ w'.head = w.head /\ w'.attempt = w.attempt /\ w'.result = w.result
        /\ w'.seen = w.seen /\ w'.made = w.made
    BY <1>2, <1>5, Gone DEF Places
  <2>2. UNCHANGED <<row, clean>> /\ local' = local
    BY <1>5 DEF ReadRefs, checkout, forge, history
  <2>3. PlaceInv'
    BY <1>1, <1>2, <1>5, <2>1, <2>2 DEF PlaceInv, LandPlaces, SyncPlaces, MergedPlaces,
           PublishPlaces, RoundLeft
  <2>4. TestedInv'
    BY <1>1, <1>2, <1>5, <2>1, <2>2 DEF TestedInv, PlaceInv, LandPlaces, SyncPlaces, MergedPlaces,
           PublishPlaces
  <2>5. AvoidInv'
    BY <1>1, <1>2, <1>5, <2>1, <2>2 DEF AvoidInv, PlaceInv, LandPlaces, SyncPlaces, MergedPlaces,
           PublishPlaces
  <2>6. SuccessIsLanded'
    BY <1>1, <1>2, <1>5, <2>1, <2>2 DEF SuccessIsLanded
  <2> QED
    BY <2>1, <2>3, <2>4, <2>5, <2>6
<1> QED
  BY <1>1, <1>3, <1>4, <1>5 DEF ReadRefs, RefsVerdict, Refuse, WorkerType

\* The refs are read; a head that is on the target already is a success.
LEMMA ReadRefsKeeps ==
    ASSUME IInv, ReadRefs
    PROVE  WorkerInv'
<1>1. CASE w'.pc # "ended"
  BY <1>1, ReadRefsGoes
<1>2. CASE w'.pc = "ended"
  <2>1. Grown /\ UNCHANGED <<given, reached, passed>>
    BY SameGraph DEF IInv, ReadRefs, history
  <2>2. ~Go("gate") /\ ~Go("sync_local") /\ ~(w' = [w EXCEPT !.pc = "create", !.seen = base])
    BY <1>2 DEF Go, IInv, WorkerInv, WorkerType
  <2>3. \E st \in Statuses : Refuse(st) /\ (st = "ok" => Contained)
    BY <2>2 DEF ReadRefs, RefsVerdict, Statuses
  <2>4. Contained => w.head \in reached'
    BY <2>1 DEF Contained, IInv, ForgeInv, ReachedInv
  <2> QED
    BY <2>1, <2>3, <2>4, RefuseKeeps DEF IInv
<1> QED
  BY <1>1, <1>2

\* A green gate.
LEMMA GateGreenKeeps ==
    ASSUME IInv, GateGreen
    PROVE  WorkerInv'
<1> USE DEF IInv, WorkerInv
<1>1. /\ w.pc = "gating" /\ UNCHANGED <<given, reached, row, local, clean>>
      /\ w.result = "none" /\ row = w.head /\ w.mode = "land"
      /\ passed' = passed \cup ({w.made} \ {None})
  BY DEF GateGreen, At, forge, checkout, PlaceInv, LandPlaces
<1>2. Grown /\ UNCHANGED <<anc, tree>>
  BY SameGraph DEF GateGreen
<1>3. /\ WorkerType' /\ w'.pc = "avoid2"
      /\ w'.mode = w.mode /\ w'.head = w.head /\ w'.attempt = w.attempt /\ w'.result = w.result
  BY <1>2 DEF GateGreen, WorkerType, Places, Grown
<1>4. w.head \in Commits /\ w.head # None
  BY CommitsAre DEF WorkerType
<1>5. PlaceInv'
  BY <1>1, <1>2, <1>3 DEF PlaceInv, LandPlaces, SyncPlaces, MergedPlaces, PublishPlaces
<1>6. TestedInv'
  BY <1>1, <1>3, <1>4 DEF TestedInv
<1>7. AvoidInv' /\ SuccessIsLanded'
  BY <1>1, <1>3 DEF AvoidInv, SuccessIsLanded
<1> QED
  BY <1>3, <1>5, <1>6, <1>7

\* A worker that gives up.
LEMMA GiveUpKeeps ==
    ASSUME IInv, ReadFails \/ Killed
    PROVE  WorkerInv'
<1>1. Grown /\ passed' = passed
  BY SameGraph DEF IInv, ReadFails, Killed, history
<1>2. \E st \in Statuses \ {"ok"} : Refuse(st)
  BY DEF ReadFails, Killed, Statuses
<1> QED
  BY <1>1, <1>2, RefuseKeeps DEF IInv

\* After an error the refs are read again: the target is the worker's own commit.
LEMMA ObserveKeeps ==
    ASSUME IInv, Observe
    PROVE  WorkerInv'
<1>1. Grown /\ UNCHANGED <<passed, reached>> /\ w.pc = "observe"
  BY SameGraph DEF IInv, Observe, history, At
<1>2. Observed \in Statuses /\ (Observed = "ok" => base = w.made)
  BY DEF Observed, Statuses
<1>3. w.head \in anc[w.made]
  BY <1>1 DEF IInv, WorkerInv, PlaceInv, Good, Update
<1>4. Observed = "ok" => w.head \in reached'
  BY <1>1, <1>2, <1>3 DEF IInv, ForgeInv, ReachedInv
<1> QED
  BY <1>1, <1>2, <1>4, RefuseKeeps DEF IInv, Observe

\* The merge of the target into the source, made or taken back.
LEMMA SyncMergeKeeps ==
    ASSUME IInv, SyncMerge
    PROVE  WorkerInv'
<1> USE DEF IInv, WorkerInv
<1>1. /\ w.pc = "sync_merge" /\ UNCHANGED <<given, reached, passed, row, clean>>
      /\ w.result = "none" /\ row = w.head /\ w.mode = "land" /\ w.attempt < Attempts
      /\ w.head \in Commits /\ w.seen \in Commits /\ local \in Commits
  BY DEF SyncMerge, At, forge, history, PlaceInv, LandPlaces, SyncPlaces, WorkerType, RestType
<1>2. /\ Grown /\ New \in Commits' /\ New \notin Commits
      /\ anc'[New] = (UNION {anc[p] : p \in {local, w.seen}}) \cup {New}
  BY <1>1, CommitGrows, CommitsAre DEF SyncMerge
<1>3. CASE \E st \in Statuses \ {"ok"} : Refuse(st)
  BY <1>1, <1>2, <1>3, RefuseKeeps
<1>4. CASE /\ clean /\ local = w.head /\ local' = New
           /\ w' = [w EXCEPT !.pc = "sync_check", !.made = New]
  <2>1. /\ WorkerType' /\ w'.pc = "sync_check"
        /\ w'.mode = w.mode /\ w'.head = w.head /\ w'.attempt = w.attempt /\ w'.result = w.result
        /\ w'.seen = w.seen /\ w'.made = New
    BY <1>2, <1>4 DEF WorkerType, Places, Grown
  <2>2. w.head \in anc'[New]
    BY <1>1, <1>2, <1>4 DEF GraphInv
  <2>3. PlaceInv'
    BY <1>1, <1>2, <2>1, <2>2 DEF PlaceInv, Grown, LandPlaces, SyncPlaces, MergedPlaces,
           PublishPlaces
  <2>4. TestedInv' /\ AvoidInv' /\ SuccessIsLanded'
    BY <1>1, <2>1 DEF TestedInv, AvoidInv, SuccessIsLanded
  <2> QED
    BY <2>1, <2>3, <2>4
<1> QED
  BY <1>1, <1>3, <1>4 DEF SyncMerge, Statuses

\* The row gets the synchronized head.
LEMMA RecordHeadKeeps ==
    ASSUME IInv, RecordHead
    PROVE  WorkerInv'
<1> USE DEF IInv, WorkerInv
<1>1. /\ w.pc = "record" /\ UNCHANGED <<given, reached, passed, local, clean>>
      /\ w.result = "none" /\ w.mode = "land" /\ w.attempt < Attempts
      /\ w.head \in Commits /\ w.made \in Commits
  BY DEF RecordHead, At, forge, checkout, history, PlaceInv, LandPlaces, SyncPlaces, MergedPlaces,
         WorkerType
<1>2. Grown /\ UNCHANGED <<anc, tree>> /\ Commits' = Commits
  BY SameGraph DEF RecordHead
<1>3. CASE Refuse("merge-error")
  BY <1>1, <1>2, <1>3, RefuseKeeps DEF Statuses
<1>4. CASE /\ row' = w.made
           /\ w' = [w EXCEPT !.pc = "local", !.attempt = @ + 1, !.replaced = w.head,
                             !.head = w.made, !.seen = None, !.made = None]
  <2>1. w.attempt + 1 \in 1 .. Attempts
    BY <1>1, LandingConstantsOK DEF LandingConstantsOK, WorkerType
  <2>2. /\ WorkerType' /\ w'.pc = "local" /\ w'.mode = "land" /\ w'.head = w.made
        /\ w'.result = "none"
    BY <1>1, <1>2, <1>4, <2>1 DEF WorkerType, Places
  <2>3. PlaceInv'
    BY <1>4, <2>2 DEF PlaceInv, LandPlaces, SyncPlaces, MergedPlaces, PublishPlaces
  <2>4. TestedInv' /\ AvoidInv' /\ SuccessIsLanded'
    BY <2>2 DEF TestedInv, AvoidInv, SuccessIsLanded
  <2> QED
    BY <2>2, <2>3, <2>4
<1> QED
  BY <1>3, <1>4 DEF RecordHead

\* The commit to publish: the head on top of the target that the head contains.
LEMMA CreateCandidateKeeps ==
    ASSUME IInv, CreateCandidate
    PROVE  WorkerInv'
<1> USE DEF IInv, WorkerInv
<1>1. /\ w.pc = "create" /\ UNCHANGED <<given, reached, passed, row, local, clean>>
      /\ w.result = "none" /\ row = w.head /\ w.mode \in {"publish", "merge"}
      /\ w.head \in Commits /\ w.seen \in Commits /\ w.seen \in anc[w.head]
  BY DEF CreateCandidate, At, forge, checkout, history, PlaceInv, PublishPlaces, WorkerType, Modes
<1>2. CASE Refuse("publish-failed") /\ UNCHANGED <<anc, tree>>
  BY <1>1, <1>2, SameGraph, RefuseKeeps DEF Statuses
<1>3. CASE /\ Commit({w.seen, w.head}, tree[w.head])
           /\ w' = [w EXCEPT !.pc = "update", !.made = New]
  <2>1. /\ tree[w.head] \in Commits /\ w.head \in anc[w.head]
        /\ anc[w.seen] \subseteq anc[w.head]
    BY <1>1 DEF GraphInv
  <2>2. /\ Grown /\ New \in Commits' /\ New \notin Commits /\ tree'[New] = tree[w.head]
        /\ anc'[New] = (UNION {anc[p] : p \in {w.seen, w.head}}) \cup {New}
    BY <1>1, <1>3, <2>1, CommitGrows, CommitsAre
  <2>3. anc'[New] = anc[w.head] \cup {New}
    BY <2>1, <2>2
  <2>4. /\ WorkerType' /\ w'.pc = "update"
        /\ w'.mode = w.mode /\ w'.head = w.head /\ w'.attempt = w.attempt /\ w'.result = w.result
        /\ w'.seen = w.seen /\ w'.made = New
    BY <1>3, <2>2 DEF WorkerType, Places, Grown
  <2>5. w.head \in passed
    BY <1>1 DEF TestedInv
  <2>6. w.mode = "publish" => anc'[New] \cap given.avoid = {}
    BY <1>1, <2>2, <2>3 DEF AvoidInv, RestType
  <2>7. anc'[w.head] = anc[w.head] /\ tree'[w.head] = tree[w.head]
    BY <1>1, <2>2 DEF Grown
  <2>8. Good(Update)'
    BY <1>1, <2>1, <2>2, <2>3, <2>4, <2>5, <2>6, <2>7 DEF Good, Update
  <2>9. PlaceInv'
    BY <1>1, <2>2, <2>4, <2>8 DEF PlaceInv, Grown, LandPlaces, SyncPlaces, MergedPlaces,
           PublishPlaces
  <2>10. TestedInv' /\ AvoidInv' /\ SuccessIsLanded'
    BY <1>1, <2>4, <2>5, <2>7 DEF TestedInv, AvoidInv, SuccessIsLanded
  <2> QED
    BY <2>4, <2>9, <2>10
<1> QED
  BY <1>2, <1>3 DEF CreateCandidate

\* The update of the refs.
LEMMA UpdateRefsKeeps ==
    ASSUME IInv, UpdateRefs
    PROVE  WorkerInv'
<1> USE DEF IInv, WorkerInv
<1>1. /\ w.pc = "update" /\ UNCHANGED <<given, passed, row, local, clean>>
      /\ w.result = "none" /\ row = w.head /\ w.mode # "land"
      /\ w.head \in Commits /\ w.seen \in Commits /\ w.made \in Commits /\ Good(Update)
  BY DEF UpdateRefs, At, checkout, PlaceInv, PublishPlaces, WorkerType
<1>2. Grown /\ UNCHANGED <<anc, tree>> /\ Commits' = Commits
  BY SameGraph DEF UpdateRefs
<1>3. CASE Apply(Update) /\ Refuse("ok")
  <2>1. w.head \in reached'
    BY <1>1, <1>3 DEF Apply, MoveBase, Good, Update
  <2> QED
    BY <1>1, <1>2, <1>3, <2>1, RefuseKeeps DEF Statuses
<1>4. CASE Go("observe")
  <2>1. /\ WorkerType' /\ w'.pc = "observe"
        /\ w'.mode = w.mode /\ w'.head = w.head /\ w'.attempt = w.attempt /\ w'.result = w.result
        /\ w'.seen = w.seen /\ w'.made = w.made
    BY <1>2, <1>4, Gone DEF Places
  <2>2. Good(Update)'
    BY <1>1, <1>2, <2>1 DEF Good, Update
  <2>3. PlaceInv'
    BY <1>1, <1>2, <2>1, <2>2 DEF PlaceInv, LandPlaces, SyncPlaces, MergedPlaces, PublishPlaces
  <2>4. TestedInv' /\ AvoidInv' /\ SuccessIsLanded'
    BY <1>1, <1>2, <2>1 DEF TestedInv, AvoidInv, SuccessIsLanded
  <2> QED
    BY <2>1, <2>3, <2>4
<1> QED
  BY <1>3, <1>4 DEF UpdateRefs

\* A new run starts on the head of the checkout.
LEMMA SubmitKeeps ==
    ASSUME IInv, Submit
    PROVE  WorkerInv'
<1> USE DEF IInv, WorkerInv
<1>1. UNCHANGED <<given, reached, passed, local, clean>> /\ local \in Commits /\ row' = local
  BY DEF Submit, checkout, history, RestType
<1>2. Grown /\ UNCHANGED <<anc, tree>> /\ Commits' = Commits
  BY SameGraph DEF Submit
<1>3. 1 \in 1 .. Attempts
  BY LandingConstantsOK DEF LandingConstantsOK
<1>4. /\ WorkerType' /\ w'.head = local /\ w'.result = "none"
      /\ \/ w'.pc = "avoid1" /\ w'.mode = "land"
         \/ w'.pc = "local" /\ w'.mode = "merge" /\ local \in given.full
  <2>1. ASSUME NEW p \in Places, NEW m \in Modes, w' = Worker(p, m)
        PROVE  WorkerType' /\ w'.head = local /\ w'.result = "none" /\ w'.pc = p /\ w'.mode = m
    BY <1>1, <1>2, <1>3, <2>1 DEF Worker, WorkerType, Statuses
  <2>2. \/ w' = Worker("avoid1", "land")
        \/ local \in given.full /\ w' = Worker("local", "merge")
    BY DEF Submit
  <2>3. {"avoid1", "local"} \subseteq Places /\ {"land", "merge"} \subseteq Modes
    BY DEF Places, Modes
  <2> QED
    BY <2>1, <2>2, <2>3
<1>5. PlaceInv'
  BY <1>1, <1>4 DEF PlaceInv, LandPlaces, SyncPlaces, MergedPlaces, PublishPlaces
<1>6. TestedInv' /\ AvoidInv' /\ SuccessIsLanded'
  BY <1>1, <1>4 DEF TestedInv, AvoidInv, SuccessIsLanded, ForgeInv, ReachedInv
<1> QED
  BY <1>4, <1>5, <1>6

------------------------------------------------------------------------------
(* The steps of others *)

\* What others do at the forge and in the checkout.
Others ==
    \/ \E c \in Commits : OtherPushesBase(c) \/ OtherMovesBase(c)
    \/ \E c \in Commits \cup {None} : OtherMovesSource(c)
    \/ \E s \in {"OPEN", "DRAFT", "CLOSED"} : OtherChangesRequest(s)
    \/ OtherPushesSource \/ UserEdits \/ UserCommits
    \/ Propagate \/ ForgeMarksMerged \/ LateUpdate

\* The graph only grows.
LEMMA NextGrows ==
    ASSUME IInv, [Next]_vars
    PROVE  Grown
<1>1. CASE UNCHANGED <<anc, tree>>
  BY <1>1, SameGraph DEF IInv
<1>2. CASE \E P \in SUBSET Commits : \E t \in Commits \cup {New} : Commit(P, t)
  BY <1>2, CommitGrows DEF IInv
<1>3. base \in Commits /\ local \in Commits /\ w.head \in Commits /\ tree[w.head] \in Commits
      /\ source \in Commits \cup {None}
  BY DEF IInv, ForgeInv, RestType, WorkerInv, WorkerType, GraphInv
<1>4. ASSUME NEW c \in Commits, OtherPushesBase(c)
      PROVE  Commit({base, c}, New)
  BY <1>4 DEF OtherPushesBase
<1>5. ASSUME OtherPushesSource
      PROVE  Commit({source}, New) /\ source \in Commits
  BY <1>3, <1>5 DEF OtherPushesSource
<1>6. ASSUME UserCommits
      PROVE  Commit({local}, New)
  BY <1>6 DEF UserCommits
<1>7. ASSUME SyncMerge
      PROVE  Commit({local, w.seen}, New) /\ w.seen \in Commits
  BY <1>7 DEF SyncMerge, At, IInv, WorkerInv, PlaceInv
<1>8. ASSUME CreateCandidate
      PROVE  \/ UNCHANGED <<anc, tree>>
             \/ Commit({w.seen, w.head}, tree[w.head]) /\ w.seen \in Commits
  BY <1>8 DEF CreateCandidate, At, IInv, WorkerInv, PlaceInv, PublishPlaces
<1>9. ASSUME Others
      PROVE  \/ UNCHANGED <<anc, tree>>
             \/ \E P \in SUBSET Commits : \E t \in Commits \cup {New} : Commit(P, t)
  <2>1. ASSUME NEW c \in Commits, OtherPushesBase(c)
        PROVE  \E P \in SUBSET Commits : \E t \in Commits \cup {New} : Commit(P, t)
    <3> {base, c} \in SUBSET Commits
      BY <1>3
    <3> QED
      BY <1>4, <2>1
  <2>2. ASSUME OtherPushesSource
        PROVE  \E P \in SUBSET Commits : \E t \in Commits \cup {New} : Commit(P, t)
    <3> {source} \in SUBSET Commits
      BY <1>5, <2>2
    <3> QED
      BY <1>5, <2>2
  <2>3. ASSUME UserCommits
        PROVE  \E P \in SUBSET Commits : \E t \in Commits \cup {New} : Commit(P, t)
    <3> {local} \in SUBSET Commits
      BY <1>3
    <3> QED
      BY <1>6, <2>3
  <2>4. \/ \E c \in Commits : OtherPushesBase(c)
        \/ OtherPushesSource
        \/ UserCommits
        \/ UNCHANGED <<anc, tree>>
    BY <1>9 DEF Others, OtherMovesBase, OtherMovesSource, OtherChangesRequest, UserEdits, Propagate,
           ForgeMarksMerged, LateUpdate
  <2> QED
    BY <2>1, <2>2, <2>3, <2>4
<1>10. ASSUME WorkerStep
       PROVE  \/ UNCHANGED <<anc, tree>>
              \/ \E P \in SUBSET Commits : \E t \in Commits \cup {New} : Commit(P, t)
  <2>1. ASSUME SyncMerge
        PROVE  \E P \in SUBSET Commits : \E t \in Commits \cup {New} : Commit(P, t)
    <3> {local, w.seen} \in SUBSET Commits
      BY <1>3, <1>7, <2>1
    <3> QED
      BY <1>7, <2>1
  <2>2. ASSUME CreateCandidate, ~UNCHANGED <<anc, tree>>
        PROVE  \E P \in SUBSET Commits : \E t \in Commits \cup {New} : Commit(P, t)
    <3> {w.seen, w.head} \in SUBSET Commits
      BY <1>3, <1>8, <2>2
    <3> QED
      BY <1>3, <1>8, <2>2
  <2>3. SyncMerge \/ CreateCandidate \/ UNCHANGED <<anc, tree>>
    BY <1>10 DEF WorkerStep, CheckAvoided, CheckLocal, ReadPullRequest, ReadRefs, SyncLocal,
           SyncMeta, SyncRefs, SyncConflict, SyncCheck, SyncPush, SyncObserve, RecordHead,
           ReuseGate, StartGate, GateGreen, GateRed, BeginPublish, UpdateRefs, Observe
  <2> QED
    BY <2>1, <2>2, <2>3
<1>11. Others \/ WorkerStep \/ UNCHANGED <<anc, tree>>
  BY DEF Next, vars, Others, Submit, ReadFails, Killed
<1> QED
  BY <1>1, <1>2, <1>9, <1>10, <1>11

\* What others do leaves the worker's facts alone.
LEMMA OthersKeep ==
    ASSUME IInv, Grown, Others
    PROVE  WorkerInv'
<1>1. UNCHANGED <<w, row, passed, given>>
  BY DEF Others, OtherPushesBase, OtherMovesBase, OtherMovesSource, OtherChangesRequest,
         OtherPushesSource, UserEdits, UserCommits, Propagate, ForgeMarksMerged, LateUpdate, history
<1>2. reached \subseteq reached'
  BY DEF Others, OtherPushesBase, OtherMovesBase, OtherMovesSource, OtherChangesRequest, MoveBase,
         OtherPushesSource, UserEdits, UserCommits, Propagate, ForgeMarksMerged, LateUpdate, Apply,
         history
<1>3. local' = local \/ local' \notin Commits
  BY CommitsAre DEF IInv, Others, OtherPushesBase, OtherMovesBase, OtherMovesSource,
         OtherChangesRequest, OtherPushesSource, UserEdits, UserCommits, Propagate,
         ForgeMarksMerged, LateUpdate, checkout
<1>4. clean' => clean
  BY DEF Others, OtherPushesBase, OtherMovesBase, OtherMovesSource, OtherChangesRequest,
         OtherPushesSource, UserEdits, UserCommits, Propagate, ForgeMarksMerged, LateUpdate,
         checkout
<1> QED
  BY <1>1, <1>2, <1>3, <1>4, BesideKeeps DEF IInv

------------------------------------------------------------------------------
(* The forge and the rest *)

\* The worker's steps, together.
LEMMA WorkerKeeps ==
    ASSUME IInv, WorkerStep \/ Submit \/ ReadFails \/ Killed
    PROVE  WorkerInv'
  BY FirstAvoidedKeeps, SecondAvoidedKeeps, CheckLocalKeeps, ReadPullRequestKeeps, ReadRefsKeeps,
     SyncLocalKeeps, SyncMetaKeeps, SyncRefsKeeps, SyncConflictKeeps, SyncMergeKeeps,
     SyncCheckKeeps, SyncPushKeeps, SyncObserveKeeps, RecordHeadKeeps, ReuseGateKeeps,
     StartGateKeeps, GateGreenKeeps, GateRedKeeps, BeginPublishKeeps, CreateCandidateKeeps,
     UpdateRefsKeeps, ObserveKeeps, SubmitKeeps, GiveUpKeeps DEF WorkerStep

\* Updates, good ones, that a step leaves as they are or adds.
LEMMA ForgeKeeps ==
    ASSUME IInv, Grown, given' = given, passed \subseteq passed', passed' \subseteq Commits',
           NEW U \in SUBSET Updates, \A u \in U : Good(u),
           landings' \subseteq landings \cup U,
           late' \in {late, <<>>} \cup U,
           \/ UNCHANGED <<base, reached>>
           \/ base' \in Commits' /\ reached' = reached \cup anc'[base']
    PROVE  ForgeInv'
<1> USE DEF IInv, ForgeInv
<1>1. ASSUME NEW u \in Updates, Good(u)
      PROVE  u \in Updates' /\ Good(u)'
  BY <1>1, GoodKept
<1>2. landings' \subseteq Updates' /\ \A u \in landings' : Good(u)'
  BY <1>1 DEF LandedInv
<1>3. late' \in Updates' \cup {<<>>} /\ (late # <<>> => Good(late))'
  BY <1>1 DEF LandedInv, Good
<1>4. LandedInv'
  BY <1>2, <1>3 DEF LandedInv
<1>5. base' \in Commits' /\ reached' \subseteq Commits' /\ ReachedInv'
  BY DEF ReachedInv, Grown, GraphInv
<1> QED
  BY <1>2, <1>3, <1>4, <1>5

\* A step that publishes nothing.
LEMMA NothingPublished ==
    ASSUME IInv, Grown, given' = given, passed \subseteq passed', passed' \subseteq Commits',
           landings' = landings, late' \in {late, <<>>},
           \/ UNCHANGED <<base, reached>>
           \/ base' \in Commits' /\ reached' = reached \cup anc'[base']
    PROVE  ForgeInv'
<1>1. {} \in SUBSET Updates /\ (\A u \in {} : Good(u)) /\ landings' \subseteq landings \cup {}
      /\ late' \in {late, <<>>} \cup {}
  OBVIOUS
<1> QED
  BY <1>1, ForgeKeeps

\* What is avoided and which heads have receipts is settled.
LEMMA GivenStays ==
    ASSUME [Next]_vars
    PROVE  given' = given
  BY DEF Next, vars, WorkerStep, OtherPushesBase, OtherMovesBase, OtherMovesSource,
         OtherChangesRequest, OtherPushesSource, UserEdits, UserCommits, Propagate,
         ForgeMarksMerged, LateUpdate, Submit, ReadFails, Killed, CheckAvoided, CheckLocal,
         ReadPullRequest, ReadRefs, SyncLocal, SyncMeta, SyncRefs, SyncConflict, SyncMerge,
         SyncCheck, SyncPush, SyncObserve, RecordHead, ReuseGate, StartGate, GateGreen, GateRed,
         BeginPublish, CreateCandidate, UpdateRefs, Observe

\* The target and the updates: whatever moves the target is remembered, and what
\* a worker publishes is good.
LEMMA NextForge ==
    ASSUME IInv, Grown, [Next]_vars
    PROVE  ForgeInv'
<1> DEFINE Same == UNCHANGED <<base, reached, landings, late, passed>>
<1> USE DEF forge, history
<1>1. given' = given
  BY GivenStays
<1>2. base \in Commits /\ passed \subseteq Commits /\ Commits \subseteq Commits'
  BY DEF IInv, ForgeInv, Grown
<1>3. CASE Same
  BY <1>1, <1>2, <1>3, NothingPublished
<1>4. ASSUME NEW c \in Commits, OtherPushesBase(c)
      PROVE  ForgeInv'
  <2>1. New \in Commits'
    BY <1>2, <1>4, CommitGrows DEF IInv, OtherPushesBase
  <2>2. UNCHANGED <<landings, late, passed>> /\ base' = New /\ reached' = reached \cup anc'[New]
    BY <1>4 DEF OtherPushesBase, MoveBase
  <2> QED
    BY <1>1, <1>2, <2>1, <2>2, NothingPublished
<1>5. ASSUME NEW c \in Commits, OtherMovesBase(c)
      PROVE  ForgeInv'
  <2>1. UNCHANGED <<landings, late, passed, anc>> /\ base' = c /\ reached' = reached \cup anc'[c]
    BY <1>5 DEF OtherMovesBase, MoveBase
  <2> QED
    BY <1>1, <1>2, <2>1, NothingPublished
<1>6. ASSUME NEW u \in Updates, Good(u), Apply(u), UNCHANGED <<anc, passed>>, late' \in {late, <<>>}
      PROVE  ForgeInv'
  <2>1. base' = u.to /\ u.to \in Commits' /\ reached' = reached \cup anc'[u.to]
    BY <1>2, <1>6 DEF Apply, MoveBase, Updates
  <2>2. landings' = landings \cup {u}
    BY <1>6 DEF Apply
  <2>3. {u} \in SUBSET Updates /\ \A v \in {u} : Good(v)
    BY <1>6
  <2> QED
    BY <1>1, <1>2, <1>6, <2>1, <2>2, <2>3, ForgeKeeps
<1>7. ASSUME LateUpdate
      PROVE  ForgeInv'
  <2>1. UNCHANGED <<anc, passed>> /\ late' = <<>> /\ late \in Updates /\ Good(late)
    BY <1>7 DEF LateUpdate, IInv, ForgeInv, LandedInv
  <2>2. CASE Apply(late)
    BY <1>6, <2>1, <2>2
  <2>3. CASE UNCHANGED <<base, reached, landings>>
    BY <1>1, <1>2, <2>1, <2>3, NothingPublished
  <2> QED
    BY <1>7, <2>2, <2>3 DEF LateUpdate
<1>8. ASSUME GateGreen
      PROVE  ForgeInv'
  <2>1. w.made \in Commits \cup {None} /\ passed' = passed \cup ({w.made} \ {None})
    BY <1>8 DEF GateGreen, IInv, WorkerInv, WorkerType
  <2>2. UNCHANGED <<base, reached, landings, late>>
    BY <1>8 DEF GateGreen
  <2> QED
    BY <1>1, <1>2, <2>1, <2>2, NothingPublished
<1>9. ASSUME UpdateRefs
      PROVE  ForgeInv'
  <2>1. UNCHANGED <<anc, passed>> /\ Update \in Updates /\ Good(Update)
    BY <1>9 DEF UpdateRefs, At, IInv, WorkerInv, WorkerType, PlaceInv, PublishPlaces, Update,
           Updates
  <2>2. CASE Apply(Update) /\ UNCHANGED late
    BY <1>6, <2>1, <2>2
  <2>3. CASE UNCHANGED <<base, reached, landings>> /\ late' \in {late, Update}
    <3>1. {Update} \in SUBSET Updates /\ \A v \in {Update} : Good(v)
      BY <2>1
    <3> QED
      BY <1>1, <1>2, <2>1, <2>3, <3>1, ForgeKeeps
  <2> QED
    BY <1>9, <2>2, <2>3 DEF UpdateRefs
<1>10. \/ \E c \in Commits : OtherPushesBase(c) \/ OtherMovesBase(c)
       \/ LateUpdate \/ GateGreen \/ UpdateRefs \/ Same
  BY DEF Next, vars, WorkerStep, OtherMovesSource, OtherChangesRequest, OtherPushesSource,
         UserEdits, UserCommits, Propagate, ForgeMarksMerged, Submit, ReadFails, Killed,
         CheckAvoided, CheckLocal, ReadPullRequest, ReadRefs, SyncLocal, SyncMeta, SyncRefs,
         SyncConflict, SyncMerge, SyncCheck, SyncPush, SyncObserve, RecordHead, ReuseGate,
         StartGate, GateRed, BeginPublish, CreateCandidate, Observe
<1> QED
  BY <1>3, <1>4, <1>5, <1>7, <1>8, <1>9, <1>10

\* Refs, request and checkout stay on known commits.
LEMMA NextRest ==
    ASSUME IInv, Grown, [Next]_vars
    PROVE  RestType'
<1> USE DEF forge, checkout
<1>1. /\ source \in Commits \cup {None} /\ local \in Commits /\ row \in Commits /\ w.head \in Commits
      /\ Commits \subseteq Commits'
      /\ w.pc \in MergedPlaces => w.made \in Commits
  BY DEF IInv, RestType, WorkerInv, WorkerType, PlaceInv, Grown
<1>2. source' \in Commits' \cup {None}
  <2>1. \/ UNCHANGED source
        \/ OtherPushesSource
        \/ \E c \in Commits \cup {None} : OtherMovesSource(c)
        \/ SyncPush
    BY DEF Next, vars, WorkerStep, OtherPushesBase, OtherMovesBase, OtherChangesRequest, UserEdits,
           UserCommits, Propagate, ForgeMarksMerged, LateUpdate, Submit, ReadFails, Killed,
           CheckAvoided, CheckLocal, ReadPullRequest, ReadRefs, SyncLocal, SyncMeta, SyncRefs,
           SyncConflict, SyncMerge, SyncCheck, SyncObserve, RecordHead, ReuseGate, StartGate,
           GateGreen, GateRed, BeginPublish, CreateCandidate, UpdateRefs, Observe
  <2>2. CASE OtherPushesSource
    <3>1. {source} \in SUBSET Commits /\ Commit({source}, New) /\ source' = New
      BY <1>1, <2>2 DEF OtherPushesSource
    <3> QED
      BY <3>1, CommitGrows DEF IInv
  <2>3. CASE \E c \in Commits \cup {None} : OtherMovesSource(c)
    BY <1>1, <2>3 DEF OtherMovesSource
  <2>4. CASE SyncPush
    BY <1>1, <2>4 DEF SyncPush, At, MergedPlaces
  <2> QED
    BY <1>1, <2>1, <2>2, <2>3, <2>4
<1>3. local' \in Commits'
  <2>1. UNCHANGED local \/ UserCommits \/ SyncMerge \/ SyncCheck \/ SyncObserve
    BY DEF Next, vars, WorkerStep, OtherPushesBase, OtherMovesBase, OtherMovesSource,
           OtherChangesRequest, OtherPushesSource, UserEdits, Propagate, ForgeMarksMerged,
           LateUpdate, Submit, ReadFails, Killed, CheckAvoided, CheckLocal, ReadPullRequest,
           ReadRefs, SyncLocal, SyncMeta, SyncRefs, SyncConflict, SyncPush, RecordHead, ReuseGate,
           StartGate, GateGreen, GateRed, BeginPublish, CreateCandidate, UpdateRefs, Observe
  <2>2. CASE UserCommits
    <3>1. {local} \in SUBSET Commits /\ Commit({local}, New) /\ local' = New
      BY <1>1, <2>2 DEF UserCommits
    <3> QED
      BY <3>1, CommitGrows DEF IInv
  <2>3. CASE SyncMerge
    <3>1. {local, w.seen} \in SUBSET Commits /\ Commit({local, w.seen}, New)
      BY <1>1, <2>3 DEF SyncMerge, At, IInv, WorkerInv, PlaceInv
    <3>2. local' = New \/ local' = w.head
      BY <2>3 DEF SyncMerge
    <3> QED
      BY <1>1, <3>1, <3>2, CommitGrows DEF IInv
  <2>4. CASE SyncCheck \/ SyncObserve
    BY <1>1, <2>4 DEF SyncCheck, SyncObserve, Restore
  <2> QED
    BY <1>1, <2>1, <2>2, <2>3, <2>4
<1>4. row' \in Commits'
  <2>1. UNCHANGED row \/ RecordHead \/ Submit
    BY DEF Next, vars, WorkerStep, OtherPushesBase, OtherMovesBase, OtherMovesSource,
           OtherChangesRequest, OtherPushesSource, UserEdits, UserCommits, Propagate,
           ForgeMarksMerged, LateUpdate, ReadFails, Killed, CheckAvoided, CheckLocal,
           ReadPullRequest, ReadRefs, SyncLocal, SyncMeta, SyncRefs, SyncConflict, SyncMerge,
           SyncCheck, SyncPush, SyncObserve, ReuseGate, StartGate, GateGreen, GateRed, BeginPublish,
           CreateCandidate, UpdateRefs, Observe
  <2> QED
    BY <1>1, <2>1 DEF RecordHead, Submit, At, MergedPlaces
<1>5. pr' \in [state : {"OPEN", "DRAFT", "MERGED", "CLOSED"}, head : Commits']
  <2>1. \/ UNCHANGED pr
        \/ \E s \in {"OPEN", "DRAFT", "CLOSED"} : OtherChangesRequest(s)
        \/ Propagate
        \/ ForgeMarksMerged
    BY DEF Next, vars, WorkerStep, OtherPushesBase, OtherMovesBase, OtherMovesSource,
           OtherPushesSource, UserEdits, UserCommits, LateUpdate, Submit, RecordHead, ReadFails,
           Killed, CheckAvoided, CheckLocal, ReadPullRequest, ReadRefs, SyncLocal, SyncMeta,
           SyncRefs, SyncConflict, SyncMerge, SyncCheck, SyncPush, SyncObserve, ReuseGate,
           StartGate, GateGreen, GateRed, BeginPublish, CreateCandidate, UpdateRefs, Observe
  <2>2. pr \in [state : {"OPEN", "DRAFT", "MERGED", "CLOSED"}, head : Commits']
    BY <1>1 DEF IInv, RestType
  <2>3. pr' \in {pr} \/ (\E s \in {"OPEN", "DRAFT", "CLOSED", "MERGED"} : pr' = [pr EXCEPT !.state = s])
        \/ (source \in Commits' /\ pr' = [pr EXCEPT !.head = source])
    BY <1>1, <2>1 DEF OtherChangesRequest, Propagate, ForgeMarksMerged
  <2> QED
    BY <2>2, <2>3
<1>6. clean' \in BOOLEAN
  <2>1. UNCHANGED clean \/ UserEdits
    BY DEF Next, vars, WorkerStep, OtherPushesBase, OtherMovesBase, OtherMovesSource,
           OtherChangesRequest, OtherPushesSource, UserCommits, Propagate, ForgeMarksMerged,
           LateUpdate, Submit, RecordHead, ReadFails, Killed, CheckAvoided, CheckLocal,
           ReadPullRequest, ReadRefs, SyncLocal, SyncMeta, SyncRefs, SyncConflict, SyncMerge,
           SyncCheck, SyncPush, SyncObserve, ReuseGate, StartGate, GateGreen, GateRed, BeginPublish,
           CreateCandidate, UpdateRefs, Observe
  <2> QED
    BY <2>1 DEF UserEdits, IInv, RestType
<1>7. given' = given
  BY GivenStays
<1>8. given' \in [avoid : SUBSET Commits', full : SUBSET Commits']
  BY <1>1, <1>7 DEF IInv, RestType
<1>9. Other \/ Fault \/ (used.runs < MaxRuns /\ Spend("runs")) \/ UNCHANGED used
  BY DEF Next, vars, WorkerStep, OtherPushesBase, OtherMovesBase, OtherMovesSource,
         OtherChangesRequest, OtherPushesSource, UserEdits, UserCommits, Propagate,
         ForgeMarksMerged, LateUpdate, Submit, ReadFails, Killed, CheckAvoided, CheckLocal,
         ReadPullRequest, ReadRefs, SyncLocal, SyncMeta, SyncRefs, SyncConflict, SyncMerge,
         SyncCheck, SyncPush, SyncObserve, RecordHead, ReuseGate, StartGate, GateGreen, GateRed,
         BeginPublish, CreateCandidate, UpdateRefs, Observe
<1>10. UsedType'
  BY <1>9, SpendType, LandingConstantsOK DEF IInv, RestType
<1> QED
  BY <1>2, <1>3, <1>4, <1>5, <1>6, <1>8, <1>10 DEF RestType

------------------------------------------------------------------------------
(* Induction *)

\* The first run, the request and its branch are on known commits, and no worker runs.
LEMMA InitIInv ==
    ASSUME Init
    PROVE  IInv
<1>1. /\ anc \in {<<{1}, {1, 2}, {1, 3}>>, <<{1}, {1, 2}, {1, 2, 3}>>} /\ tree = <<1, 2, 3>>
      /\ base \in {1, 2} /\ source = 3 /\ pr = [state |-> "OPEN", head |-> 3] /\ late = <<>>
      /\ local = 3 /\ clean = TRUE /\ row = 3
      /\ w = [Worker("ended", "land") EXCEPT !.result = "killed"]
      /\ given \in [avoid : SUBSET {2}, full : SUBSET {3}] /\ passed = given.full
      /\ landings = {} /\ reached = anc[base] /\ used = [others |-> 0, faults |-> 0, runs |-> 0]
  BY DEF Init
<1>2. /\ Len(anc) = 3 /\ Commits = {1, 2, 3} /\ anc \in Seq(SUBSET Nat)
      /\ anc[1] = {1} /\ anc[2] = {1, 2} /\ anc[3] \in {{1, 3}, {1, 2, 3}}
  <2>1. CASE anc = <<{1}, {1, 2}, {1, 3}>>
    <3>1. {1} \in SUBSET Nat /\ {1, 2} \in SUBSET Nat /\ {1, 3} \in SUBSET Nat
      OBVIOUS
    <3>2. anc \in Seq(SUBSET Nat) /\ DOMAIN anc = 1 .. 3 /\ 1 .. 3 = {1, 2, 3}
      BY <2>1, <3>1
    <3> QED
      BY <2>1, <3>2 DEF Commits
  <2>2. CASE anc = <<{1}, {1, 2}, {1, 2, 3}>>
    <3>1. {1} \in SUBSET Nat /\ {1, 2} \in SUBSET Nat /\ {1, 2, 3} \in SUBSET Nat
      OBVIOUS
    <3>2. anc \in Seq(SUBSET Nat) /\ DOMAIN anc = 1 .. 3 /\ 1 .. 3 = {1, 2, 3}
      BY <2>2, <3>1
    <3> QED
      BY <2>2, <3>2 DEF Commits
  <2> QED
    BY <1>1, <2>1, <2>2
<1>3. /\ Len(tree) = 3 /\ tree \in Seq(Nat) /\ tree[1] = 1 /\ tree[2] = 2 /\ tree[3] = 3
  BY <1>1
<1>4. GraphInv
  BY <1>2, <1>3 DEF GraphInv
<1>5. ForgeInv
  BY <1>1, <1>2 DEF ForgeInv, LandedInv, ReachedInv
<1>6. UsedType
  BY <1>1, LandingConstantsOK DEF UsedType, LandingConstantsOK
<1>7. RestType
  BY <1>1, <1>2, <1>6 DEF RestType
<1>8. 1 \in 1 .. Attempts
  BY LandingConstantsOK DEF LandingConstantsOK
<1>9. WorkerType /\ w.pc = "ended" /\ w.mode = "land" /\ w.result = "killed"
  BY <1>1, <1>2, <1>8 DEF WorkerType, Worker, Places, Modes, Statuses
<1>10. PlaceInv /\ TestedInv /\ AvoidInv /\ SuccessIsLanded
  BY <1>9 DEF PlaceInv, TestedInv, AvoidInv, SuccessIsLanded, LandPlaces, SyncPlaces, MergedPlaces,
         PublishPlaces
<1> QED
  BY <1>4, <1>5, <1>7, <1>9, <1>10 DEF IInv, WorkerInv

\* Every step keeps the invariant.
LEMMA NextIInv ==
    ASSUME IInv, [Next]_vars
    PROVE  IInv'
<1>1. Grown
  BY NextGrows
<1>2. ForgeInv' /\ RestType' /\ GraphInv'
  BY <1>1, NextForge, NextRest DEF Grown
<1>3. WorkerInv'
  <2>1. CASE Others
    BY <1>1, <2>1, OthersKeep
  <2>2. CASE WorkerStep \/ Submit \/ ReadFails \/ Killed
    BY <2>2, WorkerKeeps
  <2>3. CASE UNCHANGED vars
    <3>1. UNCHANGED <<w, row, passed, given, reached, local, clean>>
      BY <2>3 DEF vars, history, checkout
    <3> QED
      BY <1>1, <3>1, BesideKeeps DEF IInv
  <2> QED
    BY <2>1, <2>2, <2>3 DEF Next, Others
<1> QED
  BY <1>2, <1>3 DEF IInv

\* What the invariant says of the types and of the row.
LEMMA IInvCoherent ==
    ASSUME IInv
    PROVE  Coherent
<1>1. Commits = 1 .. Len(anc) /\ DOMAIN tree = Commits
  BY CommitsAre DEF IInv
<1>2. anc \in [1 .. Len(anc) -> SUBSET Commits]
  BY <1>1 DEF IInv, GraphInv, Commits
<1>3. tree \in [Commits -> Commits]
  BY <1>1 DEF IInv, GraphInv
<1>4. TypeOK
  BY <1>2, <1>3 DEF IInv, ForgeInv, WorkerInv, WorkerType, RestType, UsedType, TypeOK
<1>5. RowNamesHead
  BY DEF RowNamesHead, IInv, WorkerInv, PlaceInv
<1> QED
  BY <1>4, <1>5 DEF Coherent

------------------------------------------------------------------------------
(* Theorems *)

\* The graph is closed under reachability, every update that was applied, is being sent or
\* may still arrive is good, and the worker's place says what it knows of its head.
THEOREM LandingInvariant == Spec => []IInv
<1>1. Init => IInv
  BY InitIInv
<1>2. IInv /\ [Next]_vars => IInv'
  BY NextIInv
<1> QED
  BY <1>1, <1>2, PTL DEF Spec

\* The row names the head that is worked on from the gate on, and every value has its type.
THEOREM AlwaysCoherent == Spec => []Coherent
<1>1. IInv => Coherent
  BY IInvCoherent
<1> QED
  BY <1>1, LandingInvariant, PTL

\* GitHubMergePublisher.update_refs: what a worker publishes has the content of a head that a
\* gate passed on.
THEOREM AlwaysTested == Spec => []PublishedIsTested
<1>1. IInv => PublishedIsTested
  BY DEF IInv, ForgeInv, LandedInv, Good, PublishedIsTested
<1> QED
  BY <1>1, LandingInvariant, PTL

\* The target that an update replaces was part of what the gate passed on.
THEOREM TargetAlwaysTested == Spec => []TargetWasTested
<1>1. IInv => TargetWasTested
  BY DEF IInv, ForgeInv, LandedInv, Good, TargetWasTested
<1> QED
  BY <1>1, LandingInvariant, PTL

\* No land brings an avoided commit back to the target.
THEOREM AvoidedAlwaysOut == Spec => []AvoidedStaysOut
<1>1. IInv => AvoidedStaysOut
  BY DEF IInv, ForgeInv, LandedInv, Good, AvoidedStaysOut
<1> QED
  BY <1>1, LandingInvariant, PTL

\* A reported success has landed.
THEOREM SuccessAlwaysLanded == Spec => []SuccessIsLanded
<1>1. IInv => SuccessIsLanded
  BY DEF IInv, WorkerInv
<1> QED
  BY <1>1, LandingInvariant, PTL

\* The leased push of a synchronized source keeps what was on it: no other step moves
\* both the worker and the source.
THEOREM SourceAlwaysKept == Spec => SourceKept
<1>1. ASSUME IInv, [Next]_vars
      PROVE  w' # w /\ source' # source => source \in anc'[source']
  <2> SUFFICES ASSUME w' # w, source' # source
               PROVE  source \in anc'[source']
    OBVIOUS
  <2>1. SyncPush
    BY <1>1 DEF Next, vars, forge, WorkerStep, OtherPushesBase, OtherMovesBase, OtherMovesSource,
           OtherChangesRequest, OtherPushesSource, UserEdits, UserCommits, Propagate,
           ForgeMarksMerged, LateUpdate, Submit, ReadFails, Killed, CheckAvoided, CheckLocal,
           ReadPullRequest, ReadRefs, SyncLocal, SyncMeta, SyncRefs, SyncConflict, SyncMerge,
           SyncCheck, SyncObserve, RecordHead, ReuseGate, StartGate, GateGreen, GateRed,
           BeginPublish, CreateCandidate, UpdateRefs, Observe
  <2>2. source = w.head /\ source' = w.made /\ anc' = anc
    BY <2>1 DEF SyncPush, Lease
  <2>3. w.head \in anc[w.made]
    BY <1>1, <2>1 DEF SyncPush, At, IInv, WorkerInv, PlaceInv, MergedPlaces
  <2> QED
    BY <2>2, <2>3
<1> QED
  BY <1>1, LandingInvariant, PTL DEF Spec, SourceKept

==============================================================================
