------------------------------- MODULE Landing -------------------------------
(***************************************************************************)
(* One checkout, its branch, its pull request and the target branch at the *)
(* forge, and the land and merge workers that publish the checkout's head. *)
(* A worker validates, merges an advanced target into the source, has the  *)
(* gate run and moves the target by one atomic compare-and-update; others  *)
(* move both branches, change the request and work in the checkout         *)
(* meanwhile, and calls to the forge fail before or after they took        *)
(* effect, or take effect late.                                            *)
(*                                                                         *)
(* The queue's side (phases, cancellation, verdict) is RunLifecycle.       *)
(***************************************************************************)
EXTENDS Integers, Sequences, FiniteSets

CONSTANTS
    Attempts,   \* the bound of prepare on its rounds; 5 in the code
    MaxOthers,  \* bounds what others do
    MaxFaults,  \* bounds failing calls and dying workers
    MaxRuns,    \* bounds submissions
    MaxMoves    \* bounds what others do and submissions together

ASSUME LandingConstantsOK ==
    /\ Attempts \in Nat \ {0}
    /\ MaxOthers \in Nat /\ MaxFaults \in Nat /\ MaxRuns \in Nat \ {0} /\ MaxMoves \in Nat

VARIABLES
    anc,      \* the commits, and what each one reaches, itself included
    tree,     \* the commit whose content a commit has
    base,     \* the target branch at the forge
    source,   \* the request's branch at the forge
    pr,       \* the metadata of the request
    late,     \* an update of the refs that the forge has not applied yet
    local,    \* the head of the checkout
    clean,    \* no uncommitted change in the checkout
    row,      \* head_sha of the run
    w,        \* the worker
    given,    \* the avoided commits, and the heads with a receipt of a full run
    passed,   \* history: the contents that a gate passed on
    landings, \* history: what workers published
    reached,  \* history: what the target ever reached
    used      \* what others, faults and submissions have used of their bounds

forge == <<base, source, pr, late>>
checkout == <<local, clean>>
history == <<passed, landings, reached>>
vars == <<anc, tree, forge, checkout, row, w, given, history, used>>

None == 0
Commits == DOMAIN anc

Statuses == {"none", "ok", "gate-failed", "stale-main", "head-changed", "pr-not-ready",
             "publish-failed", "merge-error", "avoided-commit", "killed"}

\* A land before and after its publication begins, a merge.
Modes == {"land", "publish", "merge"}

Updates == [by : Modes, from : Commits, head : Commits, to : Commits]

Places == {"ended", "avoid1", "local", "meta", "refs", "sync_local", "sync_meta", "sync_refs",
           "sync_merge", "sync_check", "sync_push", "sync_observe", "record", "gate",
           "gating", "avoid2", "publish", "create", "update", "observe"}

TypeOK ==
    /\ anc \in [1 .. Len(anc) -> SUBSET Commits]
    /\ tree \in [Commits -> Commits]
    /\ base \in Commits
    /\ source \in Commits \cup {None}
    /\ pr \in [state : {"OPEN", "DRAFT", "MERGED", "CLOSED"}, head : Commits]
    /\ late \in Updates \cup {<<>>}
    /\ local \in Commits
    /\ clean \in BOOLEAN
    /\ row \in Commits
    /\ w \in [pc : Places, mode : Modes, head : Commits,
              replaced : Commits \cup {None}, attempt : 1 .. Attempts,
              merged : BOOLEAN, seen : Commits \cup {None}, made : Commits \cup {None}, result : Statuses]
    /\ given \in [avoid : SUBSET Commits, full : SUBSET Commits]
    /\ passed \subseteq Commits
    /\ landings \subseteq Updates
    /\ reached \subseteq Commits
    /\ used \in [others : 0 .. MaxOthers, faults : 0 .. MaxFaults, runs : 0 .. MaxRuns]

------------------------------------------------------------------------------
(* The commit graph *)

New == Len(anc) + 1

\* A new commit on the parents P with content t.
Commit(P, t) ==
    /\ anc' = Append(anc, (UNION {anc[p] : p \in P}) \cup {New})
    /\ tree' = Append(tree, t)

\* The target becomes c, which is in graph g.
MoveBase(c, g) ==
    /\ base' = c
    /\ reached' = reached \cup g[c]

MoveLeft == used.others + used.runs < MaxMoves

Spend(what) == used' = [used EXCEPT ![what] = @ + 1]

Fault == used.faults < MaxFaults /\ Spend("faults")

------------------------------------------------------------------------------
(* Others *)

Other == used.others < MaxOthers /\ MoveLeft /\ Spend("others")

\* Somebody merges c into the target; if c is the target, somebody pushes to it.
OtherPushesBase(c) ==
    /\ Other
    /\ Commit({base, c}, New)
    /\ MoveBase(New, anc')
    /\ UNCHANGED <<source, pr, late, checkout, row, w, given, passed, landings>>

\* The target is rewritten, or fast-forwarded.
OtherMovesBase(c) ==
    /\ c # base
    /\ Other
    /\ MoveBase(c, anc)
    /\ UNCHANGED <<anc, tree, source, pr, late, checkout, row, w, given, passed, landings>>

OtherPushesSource ==
    /\ source # None
    /\ Other
    /\ Commit({source}, New)
    /\ source' = New
    /\ UNCHANGED <<base, pr, late, checkout, row, w, given, history>>

\* The branch is deleted, or forced to another commit.
OtherMovesSource(c) ==
    /\ c # source
    /\ Other
    /\ source' = c
    /\ UNCHANGED <<anc, tree, base, pr, late, checkout, row, w, given, history>>

OtherChangesRequest(s) ==
    /\ pr.state # s
    /\ pr.state # "MERGED"
    /\ Other
    /\ pr' = [pr EXCEPT !.state = s]
    /\ UNCHANGED <<anc, tree, base, source, late, checkout, row, w, given, history>>

\* Work in the checkout: it is not taken back while a worker runs.
UserEdits ==
    /\ clean
    /\ Other
    /\ clean' = FALSE
    /\ UNCHANGED <<anc, tree, forge, local, row, w, given, history>>

UserCommits ==
    /\ Other
    /\ Commit({local}, New)
    /\ local' = New
    /\ UNCHANGED <<forge, clean, row, w, given, history>>

\* The metadata of the request follows the branches some time later.
Propagate ==
    /\ source # None
    /\ pr.state \in {"OPEN", "DRAFT"}
    /\ pr' = [pr EXCEPT !.head = source]
    /\ pr' # pr
    /\ UNCHANGED <<anc, tree, base, source, late, checkout, row, w, given, history, used>>

ForgeMarksMerged ==
    /\ pr.state \in {"OPEN", "DRAFT"}
    /\ pr.head \in anc[base]
    /\ pr' = [pr EXCEPT !.state = "MERGED"]
    /\ UNCHANGED <<anc, tree, base, source, late, checkout, row, w, given, history, used>>

------------------------------------------------------------------------------
(* The worker: validation *)

At(p) == w.pc = p

Go(p) == w' = [w EXCEPT !.pc = p]

Refuse(status) == w' = [w EXCEPT !.pc = "ended", !.result = status, !.seen = None, !.made = None]

\* Mutant: only the commits themselves are compared.
ReachesItself(c) == c \in given.avoid

\* reachable_avoided.
Reaches(c) == anc[c] \cap given.avoid # {}

\* _avoided_refusal: the head, and the target as it is now.
CheckAvoided(p, next) ==
    /\ At(p)
    /\ \/ ~Reaches(w.head) /\ ~Reaches(base) /\ Go(next)
       \/ (Reaches(w.head) \/ Reaches(base)) /\ Refuse("avoided-commit")
    /\ UNCHANGED <<anc, tree, forge, checkout, row, given, history, used>>

\* Mutant: the checkout is looked at before the gate only.
CheckLocalOnce ==
    /\ At("local")
    /\ IF w.mode # "land" \/ (local = w.head /\ clean) THEN Go("meta") ELSE Refuse("merge-error")
    /\ UNCHANGED <<anc, tree, forge, checkout, row, given, history, used>>

\* The start of execute: the checkout is on the head and clean.
CheckLocal ==
    /\ At("local")
    /\ IF local = w.head /\ clean THEN Go("meta") ELSE Refuse("merge-error")
    /\ UNCHANGED <<anc, tree, forge, checkout, row, given, history, used>>

\* Mutant: the wait for the forge has no bound.
WaitEndsNever == pr.head # w.replaced

\* _read_pull_request waits while the forge reports the head that was replaced;
\* the bound on the wait may pass at any time.
WaitEnds == TRUE

MetaVerdict ==
    CASE pr.state = "CLOSED" -> "pr-not-ready"
      [] pr.head # w.head    -> "head-changed"
      [] pr.state = "DRAFT"  -> "pr-not-ready"
      [] OTHER               -> "ok"

\* The metadata that execute goes on with is whether the request was merged.
ReadPullRequest ==
    /\ At("meta")
    /\ WaitEnds
    /\ IF MetaVerdict # "ok" THEN Refuse(MetaVerdict)
       ELSE w' = [w EXCEPT !.pc = "refs", !.merged = pr.state = "MERGED"]
    /\ UNCHANGED <<anc, tree, forge, checkout, row, given, history, used>>

\* What execute makes of the two refs it read together.
Contained == w.head \in anc[base]
BaseInHead == base \in anc[w.head]

\* Mutant: the target need not be part of the head.
RefsVerdictLax ==
    CASE w.merged        -> IF Contained THEN "ok" ELSE "pr-not-ready"
      [] source # w.head -> IF Contained THEN "ok" ELSE "head-changed"
      [] OTHER           -> "proceed"

RefsVerdict ==
    CASE w.merged                        -> IF Contained THEN "ok" ELSE "pr-not-ready"
      [] source # w.head /\ ~w.merged    -> IF Contained THEN "ok" ELSE "head-changed"
      [] source = w.head /\ ~w.merged    -> IF BaseInHead THEN "proceed"
                                            ELSE IF Contained THEN "ok" ELSE "stale-main"

RoundLeft == w.attempt < Attempts

\* A preflight that finds nothing to do goes on to the gate like one that passes; a
\* stale target is merged into the source if there is a round left.
ReadRefs ==
    /\ At("refs")
    /\ LET v == RefsVerdict
       IN  CASE w.mode # "land" /\ v = "proceed"        ->
                    w' = [w EXCEPT !.pc = "create", !.seen = base]
             [] w.mode = "land" /\ v \in {"proceed", "ok"} -> Go("gate")
             [] w.mode = "land" /\ v = "stale-main" /\ RoundLeft ->
                    \/ Go("sync_local")
                    \/ Refuse("stale-main")  \* --no-target-sync
             [] OTHER                                      -> Refuse(v)
    /\ UNCHANGED <<anc, tree, forge, checkout, row, given, history, used>>

------------------------------------------------------------------------------
(* The worker: _synchronize_target *)

SyncLocal ==
    /\ At("sync_local")
    /\ IF local = w.head /\ clean THEN Go("sync_meta") ELSE Refuse("head-changed")
    /\ UNCHANGED <<anc, tree, forge, checkout, row, given, history, used>>

SyncMeta ==
    /\ At("sync_meta")
    /\ CASE pr.state # "OPEN"                       -> Refuse("pr-not-ready")
         [] pr.state = "OPEN" /\ pr.head # w.head -> Refuse("head-changed")
         [] OTHER                                   -> Go("sync_refs")
    /\ UNCHANGED <<anc, tree, forge, checkout, row, given, history, used>>

SyncRefs ==
    /\ At("sync_refs")
    /\ CASE source # w.head                  -> Refuse("head-changed")
         [] source = w.head /\ BaseInHead   -> w' = [w EXCEPT !.pc = "local", !.attempt = @ + 1]
         [] OTHER                            -> w' = [w EXCEPT !.pc = "sync_merge", !.seen = base]
    /\ UNCHANGED <<anc, tree, forge, checkout, row, given, history, used>>

\* _restore_completed_merge, in a checkout at head h: reset, unless somebody works there.
Restore(h, status) ==
    /\ local' = IF h = w.made /\ clean THEN w.head ELSE h
    /\ Refuse(IF h = w.made /\ clean THEN status ELSE "merge-error")

\* A conflict is aborted.
SyncConflict ==
    /\ At("sync_merge")
    /\ Refuse("merge-error")
    /\ UNCHANGED <<anc, tree, forge, checkout, row, given, history, used>>

\* The merge is made on whatever the checkout is at; wrong parents are noticed afterwards
\* and the merge is reset, as it is when it reaches an avoided commit.
SyncMerge ==
    /\ At("sync_merge")
    /\ Commit({local, w.seen}, New)
    /\ CASE ~clean                            ->
                Refuse("merge-error") /\ local' = New
         [] clean /\ local # w.head            ->
                Refuse("merge-error") /\ local' = w.head
         [] clean /\ local = w.head /\ anc'[New] \cap given.avoid # {} ->
                Refuse("avoided-commit") /\ local' = w.head
         [] OTHER                              ->
                w' = [w EXCEPT !.pc = "sync_check", !.made = New] /\ local' = New
    /\ UNCHANGED <<forge, clean, row, given, history, used>>

\* before_push; a source that was deleted is refused without restoring the checkout.
SyncCheck ==
    /\ At("sync_check")
    /\ CASE source = None                     -> Refuse("head-changed") /\ UNCHANGED local
         [] source \notin {None, w.head}      -> Restore(local, "head-changed")
         [] source = w.head /\ base # w.seen  -> Restore(local, "stale-main")
         [] OTHER                              -> Go("sync_push") /\ UNCHANGED local
    /\ UNCHANGED <<anc, tree, forge, clean, row, given, history, used>>

\* Mutant: the push is forced without a lease.
LeaseForced == TRUE

\* --force-with-lease.
Lease == source = w.head

\* The push succeeds, takes effect although it fails, or fails.
SyncPush ==
    /\ At("sync_push")
    /\ \/ Lease /\ source' = w.made /\ Go("record") /\ UNCHANGED used
       \/ Lease /\ source' = w.made /\ Go("sync_observe") /\ Fault
       \/ ~Lease /\ Go("sync_observe") /\ UNCHANGED <<source, used>>
       \/ Go("sync_observe") /\ UNCHANGED source /\ Fault
    /\ UNCHANGED <<anc, tree, base, pr, late, checkout, row, given, history>>

SyncObserve ==
    /\ At("sync_observe")
    /\ CASE source = w.made                  -> Go("record") /\ UNCHANGED local
         [] source \notin {w.made, w.head}   -> Restore(local, "head-changed")
         [] OTHER                            -> Restore(local, "publish-failed")
    /\ UNCHANGED <<anc, tree, forge, clean, row, given, history, used>>

\* Mutant: the worker goes on although the callback failed.
RecordHeadLax ==
    /\ At("record")
    /\ w' = [w EXCEPT !.pc = "local", !.attempt = @ + 1, !.replaced = w.head, !.head = w.made,
                      !.seen = None, !.made = None]
    /\ \/ row' = w.made /\ UNCHANGED used
       \/ Fault /\ UNCHANGED row
    /\ UNCHANGED <<anc, tree, forge, checkout, given, history>>

\* head_changed: the row gets the new head; the callback fails with or without effect.
RecordHead ==
    /\ At("record")
    /\ \/ /\ row' = w.made
          /\ w' = [w EXCEPT !.pc = "local", !.attempt = @ + 1, !.replaced = w.head,
                            !.head = w.made, !.seen = None, !.made = None]
          /\ UNCHANGED used
       \/ row' \in {row, w.made} /\ Refuse("merge-error") /\ Fault
    /\ UNCHANGED <<anc, tree, forge, checkout, given, history>>

------------------------------------------------------------------------------
(* The worker: gate and publication *)

\* reuse_gate: the receipt is that of the head in the row.
ReuseGate ==
    /\ At("gate")
    /\ row \in given.full
    /\ Go("avoid2")
    /\ UNCHANGED <<anc, tree, forge, checkout, row, given, history, used>>

\* The gate runs on what is in the checkout now.
StartGate ==
    /\ At("gate")
    /\ w' = [w EXCEPT !.pc = "gating", !.made = IF clean THEN local ELSE None]
    /\ UNCHANGED <<anc, tree, forge, checkout, row, given, history, used>>

GateGreen ==
    /\ At("gating")
    /\ w' = [w EXCEPT !.pc = "avoid2", !.made = None]
    /\ passed' = passed \cup ({w.made} \ {None})
    /\ UNCHANGED <<anc, tree, forge, checkout, row, given, landings, reached, used>>

GateRed ==
    /\ At("gating")
    /\ Refuse("gate-failed")
    /\ UNCHANGED <<anc, tree, forge, checkout, row, given, history, used>>

\* After the second look for avoided commits and the phase callback, execute again.
BeginPublish ==
    /\ At("publish")
    /\ w' = [w EXCEPT !.pc = "local", !.mode = "publish", !.replaced = None]
    /\ UNCHANGED <<anc, tree, forge, checkout, row, given, history, used>>

CreateCandidate ==
    /\ At("create")
    /\ \/ /\ Commit({w.seen, w.head}, tree[w.head])
          /\ w' = [w EXCEPT !.pc = "update", !.made = New]
          /\ UNCHANGED used
       \/ Refuse("publish-failed") /\ Fault /\ UNCHANGED <<anc, tree>>
    /\ UNCHANGED <<forge, checkout, row, given, history>>

Update == [by |-> w.mode, from |-> w.seen, head |-> w.head, to |-> w.made]

\* The forge compares both refs.
Compares(u) == base = u.from /\ source = u.head

Apply(u) ==
    /\ MoveBase(u.to, anc)
    /\ landings' = landings \cup {u}

\* update_refs succeeds, takes effect although it fails, is rejected, fails, or fails
\* and takes effect later.
UpdateRefs ==
    /\ At("update")
    /\ \/ Compares(Update) /\ Apply(Update) /\ Refuse("ok") /\ UNCHANGED <<late, used>>
       \/ Compares(Update) /\ Apply(Update) /\ Go("observe") /\ Fault /\ UNCHANGED late
       \/ /\ ~Compares(Update)
          /\ Go("observe")
          /\ UNCHANGED <<base, reached, landings, late, used>>
       \/ /\ Go("observe") /\ Fault
          /\ late' \in {late, Update}
          /\ UNCHANGED <<base, reached, landings>>
    /\ UNCHANGED <<anc, tree, source, pr, checkout, row, given, passed>>

\* Mutant: any move of the target is taken for the worker's own.
ObservedLax ==
    CASE base # w.seen -> "ok"
      [] source # w.head -> "head-changed"
      [] OTHER -> "publish-failed"

\* After an error the refs are read again.
Observed ==
    CASE base = w.made                      -> "ok"
      [] base \notin {w.made, w.seen}       -> "stale-main"
      [] base = w.seen /\ source # w.head   -> "head-changed"
      [] OTHER                              -> "publish-failed"

Observe ==
    /\ At("observe")
    /\ Refuse(Observed)
    /\ UNCHANGED <<anc, tree, forge, checkout, row, given, history, used>>

\* The forge applies or drops an update whose sender has given up.
LateUpdate ==
    /\ late # <<>>
    /\ late' = <<>>
    /\ \/ Compares(late) /\ Apply(late)
       \/ UNCHANGED <<base, reached, landings>>
    /\ UNCHANGED <<anc, tree, source, pr, checkout, row, w, given, passed, used>>

------------------------------------------------------------------------------
\* A read of the forge fails: no code path restores the checkout here.
ReadFails ==
    /\ w.pc \in {"avoid1", "meta", "refs", "sync_meta", "sync_refs", "sync_merge", "sync_check",
                 "sync_observe", "avoid2", "observe"}
    /\ w.pc \in {"avoid1", "avoid2"} => given.avoid # {}
    /\ Fault
    /\ Refuse(IF At("sync_merge") THEN "stale-main" ELSE "merge-error")
    /\ UNCHANGED <<anc, tree, forge, checkout, row, given, history>>

\* A cancellation, a crash, an exception that nobody catches.
Killed ==
    /\ ~At("ended")
    /\ Fault
    /\ Refuse("killed")
    /\ UNCHANGED <<anc, tree, forge, checkout, row, given, history>>

Worker(p, m) == [pc |-> p, mode |-> m, head |-> local, replaced |-> None, attempt |-> 1,
                 merged |-> FALSE, seen |-> None, made |-> None, result |-> "none"]

Submit ==
    /\ At("ended")
    /\ used.runs < MaxRuns /\ MoveLeft
    /\ clean
    /\ Spend("runs")
    /\ row' = local
    /\ \/ w' = Worker("avoid1", "land")
       \/ local \in given.full /\ w' = Worker("local", "merge")
    /\ UNCHANGED <<anc, tree, forge, checkout, given, history>>

\* 1 is the common history, 2 a commit that may have been taken back from the target, 3
\* the head of the request.
Init ==
    /\ anc \in {<<{1}, {1, 2}, {1, 3}>>, <<{1}, {1, 2}, {1, 2, 3}>>}
    /\ tree = <<1, 2, 3>>
    /\ base \in {1, 2}
    /\ source = 3
    /\ pr = [state |-> "OPEN", head |-> 3]
    /\ late = <<>>
    /\ local = 3
    /\ clean = TRUE
    /\ row = 3
    /\ w = [Worker("ended", "land") EXCEPT !.result = "killed"]
    /\ given \in [avoid : SUBSET {2}, full : SUBSET {3}]
    /\ passed = given.full
    /\ landings = {}
    /\ reached = anc[base]
    /\ used = [others |-> 0, faults |-> 0, runs |-> 0]

WorkerStep ==
    \/ CheckAvoided("avoid1", "local") \/ CheckLocal \/ ReadPullRequest \/ ReadRefs
    \/ SyncLocal \/ SyncMeta \/ SyncRefs \/ SyncConflict \/ SyncMerge \/ SyncCheck
    \/ SyncPush \/ SyncObserve \/ RecordHead
    \/ ReuseGate \/ StartGate \/ GateGreen \/ GateRed
    \/ CheckAvoided("avoid2", "publish") \/ BeginPublish
    \/ CreateCandidate \/ UpdateRefs \/ Observe

Next ==
    \/ \E c \in Commits : OtherPushesBase(c) \/ OtherMovesBase(c)
    \/ \E c \in Commits \cup {None} : OtherMovesSource(c)
    \/ \E s \in {"OPEN", "DRAFT", "CLOSED"} : OtherChangesRequest(s)
    \/ OtherPushesSource \/ UserEdits \/ UserCommits
    \/ Propagate \/ ForgeMarksMerged \/ LateUpdate
    \/ Submit \/ WorkerStep \/ ReadFails \/ Killed

Spec == Init /\ [][Next]_vars

\* A worker goes on by itself, and its gate ends.
FairSpec == Spec /\ WF_vars(WorkerStep)

------------------------------------------------------------------------------
(* Properties *)

\* What a worker publishes has the content of a head that a gate passed on, whatever
\* happened to the checkout, the branches and the forge's answers in between
\* ("it never moves the target without a green gate", docs/coordinator.md).
PublishedIsTested ==
    \A u \in landings : u.head \in passed /\ tree[u.to] = tree[u.head]

\* The gate that passed has seen every commit that is on the target when a
\* publication replaces it.  The target may have moved since the gate, but only to
\* another commit that the tested head contains.
TargetWasTested == \A u \in landings : u.from \in anc[u.head]

\* The publication of a land never brings an avoided commit back, also when the target was rewritten
\* or imports the commit again during the gate.
AvoidedStaysOut == \A u \in landings : u.by = "publish" => anc[u.to] \cap given.avoid = {}

\* A worker that reports success has its head on the target, its own update's answer
\* lost or not.
SuccessIsLanded == w.result = "ok" => w.head \in reached

\* From the gate on the head that is worked on is the one in the row.
RowNamesHead == w.pc \in {"gate", "gating", "avoid2", "publish", "create", "update", "observe"}
                    => row = w.head

\* Types, and a row that names what is being worked on.
Coherent == TypeOK /\ RowNamesHead

\* The push of a synchronized source never drops what another writer pushed.
SourceKept == [][w' # w /\ source' # source => source \in anc'[source']]_vars

\* Preparation and waits are bounded: a land ends while everything keeps moving.
LandEnds == ~At("ended") ~> At("ended")
=============================================================================
