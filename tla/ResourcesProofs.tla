--------------------------- MODULE ResourcesProofs ---------------------------
(***************************************************************************)
(* Proofs about what one run holds.  From the broker: the allocations of   *)
(* its backends and the receipt that vouches for them, for every contract  *)
(* and any number of failures and crashes.  Among its own processes: the   *)
(* CPU tokens that they lease, for any budget, any requests and any finite *)
(* number of live leases.                                                  *)
(***************************************************************************)
EXTENDS Resources, ChildLeases, FiniteSetTheorems, TLAPS

------------------------------------------------------------------------------
(* What a receipt says after it was amended *)

\* The empty receipt is one.
LEMMA BlankTyped ==
    /\ Blank \in Record
    /\ Blank.applied = {} /\ Blank.events = {}
    /\ \A b \in Backends : Blank.state[b] = Free
    /\ Free \in Held /\ ~Free.held /\ ~Free.finished /\ ~Free.cancelled
<1>1. Free \in Held /\ ~Free.held /\ ~Free.finished /\ ~Free.cancelled
  BY DEF Free, Held
<1>2. [b \in Backends |-> Free] \in [Backends -> Held]
  BY <1>1
<1> QED
  BY <1>1, <1>2 DEF Blank, Record

\* Other events, or other applied names, make another receipt.
LEMMA EventsIs ==
    ASSUME NEW c \in Record, NEW E \in SUBSET (Names \X Stages \X Statuses)
    PROVE  /\ [c EXCEPT !.events = E] \in Record
           /\ [c EXCEPT !.events = E].state = c.state
           /\ [c EXCEPT !.events = E].applied = c.applied
           /\ [c EXCEPT !.events = E].events = E
  BY DEF Record

\* Other applied names make another receipt.
LEMMA AppliedIs ==
    ASSUME NEW c \in Record, NEW A \in SUBSET Names
    PROVE  /\ [c EXCEPT !.applied = A] \in Record
           /\ [c EXCEPT !.applied = A].state = c.state
           /\ [c EXCEPT !.applied = A].applied = A
           /\ [c EXCEPT !.applied = A].events = c.events
  BY DEF Record

\* r has the events of c, and for the names ns one more each.
Adds(r, c, ns, stage, status) ==
    \A n, s, t : <<n, s, t>> \in r.events <=> <<n, s, t>> \in c.events \/ (n \in ns /\ s = stage /\ t = status)

\* The same with what each name's mode makes of a failure.
AddsMissed(r, c, ns, stage) ==
    \A n, s, t : <<n, s, t>> \in r.events <=>
                    <<n, s, t>> \in c.events \/ (n \in ns /\ s = stage /\ t = Missed(n))

\* r and c agree but for their events and the state of b.
Apart(r, c, b) ==
    r.applied = c.applied /\ \A d \in Backends : d # b => r.state[d] = c.state[d]

\* Note adds the events of some names and leaves the rest of the receipt alone.
LEMMA NoteIs ==
    ASSUME NEW c \in Record, NEW ns \in SUBSET Names, NEW stage \in Stages, NEW status \in Statuses
    PROVE  /\ Note(c, ns, stage, status) \in Record
           /\ Note(c, ns, stage, status).state = c.state
           /\ Note(c, ns, stage, status).applied = c.applied
           /\ Adds(Note(c, ns, stage, status), c, ns, stage, status)
<1> DEFINE new == ns \X {stage} \X {status}
<1>1. c.events \cup new \in SUBSET (Names \X Stages \X Statuses)
  BY DEF Record
<1>2. \A n, s, t : <<n, s, t>> \in new <=> n \in ns /\ s = stage /\ t = status
  OBVIOUS
<1>3. Note(c, ns, stage, status) = [c EXCEPT !.events = c.events \cup new]
  BY DEF Note
<1> HIDE DEF new
<1> QED
  BY <1>1, <1>2, <1>3, EventsIs DEF Adds

\* NoteMissed does the same with what each name's mode makes of a failure.
LEMMA NoteMissedIs ==
    ASSUME NEW c \in Record, NEW ns \in SUBSET Names, NEW stage \in Stages
    PROVE  /\ NoteMissed(c, ns, stage) \in Record
           /\ NoteMissed(c, ns, stage).state = c.state
           /\ NoteMissed(c, ns, stage).applied = c.applied
           /\ AddsMissed(NoteMissed(c, ns, stage), c, ns, stage)
<1> DEFINE new == {<<n, stage, Missed(n)>> : n \in ns}
<1>1. new \in SUBSET (Names \X Stages \X Statuses)
  BY DEF Missed, Statuses
<1>2. \A n, s, t : <<n, s, t>> \in new <=> n \in ns /\ s = stage /\ t = Missed(n)
  OBVIOUS
<1>3. NoteMissed(c, ns, stage) = [c EXCEPT !.events = c.events \cup new]
  BY DEF NoteMissed
<1> HIDE DEF new
<1>4. c.events \cup new \in SUBSET (Names \X Stages \X Statuses)
  BY <1>1 DEF Record
<1> QED
  BY <1>2, <1>3, <1>4, EventsIs DEF AddsMissed

\* A receipt in which one backend's state is h.
With(c, b, h) == [c EXCEPT !.state[b] = h]

\* With changes the state of one backend and nothing else.
LEMMA WithIs ==
    ASSUME NEW c \in Record, NEW b \in Backends, NEW h \in Held
    PROVE  /\ With(c, b, h) \in Record
           /\ With(c, b, h).state[b] = h
           /\ Apart(With(c, b, h), c, b)
           /\ With(c, b, h).events = c.events
  BY DEF Record, With, Apart

\* A backend is held, cancelled or finished: its state has one flag more.
HoldFlag(h) == [h EXCEPT !.held = TRUE]
CancelFlag(h) == [h EXCEPT !.cancelled = TRUE]
FinishFlag(h) == [h EXCEPT !.finished = TRUE]

\* The other flags of the state stay.
LEMMA FlagIs ==
    ASSUME NEW h \in Held
    PROVE  /\ HoldFlag(h) \in Held /\ HoldFlag(h).held /\ HoldFlag(h).finished = h.finished
           /\ CancelFlag(h) \in Held /\ CancelFlag(h).cancelled
           /\ CancelFlag(h).held = h.held /\ CancelFlag(h).finished = h.finished
           /\ FinishFlag(h) \in Held /\ FinishFlag(h).finished /\ FinishFlag(h).held = h.held
  BY DEF Held, HoldFlag, CancelFlag, FinishFlag

\* The updates of the model in terms of With.
LEMMA WithFlagIs ==
    ASSUME NEW c \in Record, NEW b \in Backends
    PROVE  /\ [c EXCEPT !.state[b].held = TRUE] = With(c, b, HoldFlag(c.state[b]))
           /\ [c EXCEPT !.state[b].finished = TRUE] = With(c, b, FinishFlag(c.state[b]))
           /\ [c EXCEPT !.state[b].cancelled = TRUE] = With(c, b, CancelFlag(c.state[b]))
           /\ c.state[b] \in Held
<1>1. [c EXCEPT !.state[b].held = TRUE] = With(c, b, HoldFlag(c.state[b]))
  BY DEF With, HoldFlag
<1>2. [c EXCEPT !.state[b].finished = TRUE] = With(c, b, FinishFlag(c.state[b]))
  BY DEF With, FinishFlag
<1>3. [c EXCEPT !.state[b].cancelled = TRUE] = With(c, b, CancelFlag(c.state[b]))
  BY DEF With, CancelFlag
<1>4. c.state[b] \in Held
  BY DEF Record
<1> QED
  BY <1>1, <1>2, <1>3, <1>4

\* One backend's state changes and events are added.
LEMMA NoteWithIs ==
    ASSUME NEW c \in Record, NEW b \in Backends, NEW h \in Held,
           NEW ns \in SUBSET Names, NEW stage \in Stages, NEW status \in Statuses
    PROVE  /\ Note(With(c, b, h), ns, stage, status) \in Record
           /\ Note(With(c, b, h), ns, stage, status).state[b] = h
           /\ Apart(Note(With(c, b, h), ns, stage, status), c, b)
           /\ Adds(Note(With(c, b, h), ns, stage, status), c, ns, stage, status)
<1>1. /\ With(c, b, h) \in Record /\ With(c, b, h).state[b] = h
      /\ Apart(With(c, b, h), c, b) /\ With(c, b, h).events = c.events
  BY WithIs
<1>2. /\ Note(With(c, b, h), ns, stage, status) \in Record
      /\ Note(With(c, b, h), ns, stage, status).state = With(c, b, h).state
      /\ Note(With(c, b, h), ns, stage, status).applied = With(c, b, h).applied
      /\ Adds(Note(With(c, b, h), ns, stage, status), With(c, b, h), ns, stage, status)
  BY <1>1, NoteIs
<1> QED
  BY <1>1, <1>2 DEF Apart, Adds

\* Names are applied, and the receipt says so.
Applying(c, ns) == [Note(c, ns, "attach", "applied") EXCEPT !.applied = @ \cup ns]

\* Applying adds names to the applied set and an event for each.
LEMMA ApplyingIs ==
    ASSUME NEW c \in Record, NEW ns \in SUBSET Names
    PROVE  /\ Applying(c, ns) \in Record
           /\ Applying(c, ns).state = c.state
           /\ Applying(c, ns).applied = c.applied \cup ns
           /\ Adds(Applying(c, ns), c, ns, "attach", "applied")
<1> DEFINE r == Note(c, ns, "attach", "applied")
<1>1. r \in Record /\ r.state = c.state /\ r.applied = c.applied /\ Adds(r, c, ns, "attach", "applied")
  BY NoteIs DEF Stages, Statuses
<1>2. Applying(c, ns) = [r EXCEPT !.applied = r.applied \cup ns]
  BY DEF Applying
<1> HIDE DEF r
<1>3. r.applied \cup ns \in SUBSET Names
  BY <1>1 DEF Record
<1>4. /\ Applying(c, ns) \in Record /\ Applying(c, ns).state = r.state
      /\ Applying(c, ns).applied = r.applied \cup ns /\ Applying(c, ns).events = r.events
  BY <1>1, <1>2, <1>3, AppliedIs
<1> QED
  BY <1>1, <1>4 DEF Adds

------------------------------------------------------------------------------
(* The invariant *)

\* Where the broker has no worker yet.
Early == {"probe", "prepare_cgroup", "prepare_quota", "prepared", "setup_tmpfs", "setup_quota", "spawn"}

\* Where it has not saved a receipt yet.
Preparing == {"probe", "prepare_cgroup", "prepare_quota", "prepared"}

\* Where it works on no copy.
Settled == {"idle", "down", "failed"}

\* The cgroup could not be attached, is cleaned up and the start goes on without it.
Fallback == /\ ret.clean = "verify"
            /\ pc = "cleanup" \/ (pc = "cancel" /\ ret.cancel = "cleanup")

\* The worker has not been released.
Unreleased == pc \in Starting \/ Fallback \/ (pc = "cancel" /\ ret.cancel # "idle")

\* What the place of the broker and the status of the row say of each other, and where the
\* calls that are under way return to.
Places ==
    /\ row.status = "queued" => pc = "idle" /\ worker = "none" /\ alloc = {} /\ row.saved = Blank
    /\ Ended => pc = "idle" /\ ~Alive /\ Holding(row.saved) = {}
    /\ pc # "idle" => row.status = "running"
    /\ pc = "verdict" => Holding(row.saved) = {}
    /\ pc = "cancel" => ret.cancel \in {"idle", "finish", "cleanup"}
    /\ pc = "finish" \/ (pc = "cancel" /\ ret.cancel = "finish") => ret.clean = "verdict"
    /\ pc = "cleanup" \/ (pc = "cancel" /\ ret.cancel = "cleanup") => ret.clean \in {"verdict", "verify"}
    /\ verdict \in {None, "enforcement", "start", "handshake", "cancelled"}

\* Where the worker can be: descendants, out-of-memory kills and a running command exist only
\* after the release, and a broker that is gone leaves neither a child nor a pending worker.
Workers ==
    /\ worker = "none" => ~child /\ ~kids /\ ~oom /\ ~inLeaf
    /\ pc \in {"down", "failed"} => ~child
    /\ pc \in Early => worker = "none"
    /\ pc \in {"identify", "attach"} => worker = "pending" /\ ~inLeaf
    /\ pc = "verify" \/ Fallback => worker \in {"pending", "gone"}
    /\ pc \in {"record", "release"} => worker \in {"ready", "gone"}
    /\ pc \in Settled \cup {"finish"} => worker \notin {"pending", "ready"}
    /\ pc = "cancel" /\ ret.cancel = "idle" => worker \in {"running", "gone"}
    /\ kids => worker = "gone"
    /\ Unreleased => ~kids /\ ~oom
    /\ worker \in {"pending", "ready"} => ~kids /\ ~oom
    /\ worker = "running" => pc \in {"idle", "cancel", "down"} /\ row.status = "running"
                               /\ (pc = "cancel" => ret.cancel = "idle")

\* The receipt names the memory limit.
OomNoted(c) == <<"memory", "usage", "oom">> \in c.events

\* A receipt claims only what its contract and the capabilities allow, and blames memory only if
\* its applied limit was hit.
Sound(c) ==
    /\ \A b \in Backends : c.state[b].held => Eligible(b) # {}
    /\ \A n \in c.applied : n \in Covered(BackendOf[n])
    /\ OomNoted(c) => oom /\ "memory" \in c.applied

\* The saved receipt is empty until the first save and equals the copy from then to the release; both
\* agree on what is applied whenever the broker works on a copy.
Receipts ==
    /\ Sound(copy)
    /\ Sound(row.saved)
    /\ pc \in Preparing => row.saved = Blank
    /\ pc \in Starting \ Preparing => row.saved = copy
    /\ pc \notin Settled => copy.applied = row.saved.applied

\* The receipt names the failed cleanup of b for all it covers.
CleanupFailed(c, b) == \A n \in Covered(b) : <<n, "cleanup", "failed">> \in c.events

\* It knows nothing of a prepared b.
Unrecorded(c, b) == \A n \in Covered(b) : <<n, "prepare", "recorded">> \notin c.events

\* Each allocation is held, named as a failed cleanup or older than the first save.
Named(c) ==
    \A b \in alloc : c.state[b].held \/ CleanupFailed(c, b) \/ (worker = "none" /\ Unrecorded(c, b))

\* Both receipts account for the allocations; before the worker exists the copy knows of each.
Leftovers ==
    /\ Named(row.saved)
    /\ pc \notin Settled => Named(copy)
    /\ pc \in Early => \A b \in alloc : copy.state[b].held \/ CleanupFailed(copy, b)

\* A required binding failed.
Refused(c) == \E n \in Names, stage \in Stages : <<n, stage, "failed">> \in c.events

\* The backend that is to apply n is prepared.
Provides(c, n) == n \in able /\ c.state[BackendOf[n]].held

\* All that is required can still be applied.
Provided(c) == \A n \in Names : Required(n) => Provides(c, n)

\* The run may go on without b.
Optional(b) == \A n \in Names : BackendOf[n] = b => ~Required(n)

\* What the worker is told to set up is what the contract wants.
ScratchSet ==
    /\ Required("tmp") => setup = "tmp"
    /\ Required("disk") => setup = "disk"
    /\ setup # None => setup \in Covered(BackendOf[setup])

\* What is known on the way to the release, stage by stage.  At the release what is required is
\* applied, what is applied is allocated, and the scratch that is named exists.
Preparation ==
    /\ pc \in Starting => \A b \in Backends : ~copy.state[b].finished /\ (copy.state[b].held => b \in alloc)
    /\ pc \in Early \cup {"identify", "attach"} \/ Fallback => copy.applied = {}
    /\ pc \in {"prepare_cgroup", "prepare_quota"} => \A n \in Names : Required(n) => n \in able
    /\ pc = "prepare_quota" => Refused(copy) \/ copy.state["cgroup"].held \/ Optional("cgroup")
    /\ pc = "prepared" => Refused(copy) \/ Provided(copy)
    /\ pc \in {"setup_tmpfs", "setup_quota", "spawn", "identify", "attach"} => Provided(copy)
    /\ pc = "setup_quota" => (Required("tmp") => setup = "tmp") /\ setup \in {None, "tmp"}
                             /\ (setup = "tmp" => "tmp" \in Covered("cgroup"))
    /\ pc \in {"spawn", "identify", "attach", "verify", "record"} \/ Fallback => ScratchSet
    /\ Fallback => Optional("cgroup") /\ \A b \in Backends : ~copy.state[b].finished
    /\ pc \in {"verify", "record"} =>
          /\ copy.applied = IF copy.state["cgroup"].held THEN Covered("cgroup") \ {"tmp"} ELSE {}
          /\ copy.state["cgroup"].held => inLeaf
          /\ Provided(copy) \/ (Holding(copy) = {} /\ Optional("cgroup"))
    /\ pc = "release" =>
          /\ \A n \in Names : Required(n) => n \in copy.applied
          /\ \A n \in copy.applied : copy.state[BackendOf[n]].held
          /\ copy.state["cgroup"].held => inLeaf
          /\ "tmp" \in copy.applied => code = "ok" /\ setup = "tmp"
          /\ code = "ok" /\ setup # None => BackendOf[setup] \in alloc

\* The receipt says that the processes could not be ended.
StopFailed(c) == \E n \in Covered("cgroup"), stage \in {"finish", "cancel"} : <<n, stage, "failed">> \in c.events

\* The leaf that is held reaches every process of the run; once it is finished none is left, or the
\* receipt says so.
Reached(c) ==
    /\ (worker = "running" \/ kids) /\ c.state["cgroup"].held => inLeaf
    /\ c.state["cgroup"].finished => worker # "running" /\ (kids => StopFailed(c))

\* How the processes of the run are accounted for until its end.
Leaf ==
    /\ Reached(row.saved)
    /\ pc \notin Settled => Reached(copy)
    /\ pc = "finish" /\ kids => copy.state["cgroup"].held
    /\ pc = "cleanup" /\ kids => StopFailed(copy)
    /\ (pc = "verdict" \/ Ended) /\ kids => StopFailed(row.saved)

\* The leaf can still be read.
Readable(c) == c.state["cgroup"].held /\ ~c.state["cgroup"].finished

\* The out-of-memory kill is in the receipt, or reading the leaf failed.
OomKnown(c) == OomNoted(c) \/ <<"memory", "finish", "failed">> \in c.events

\* The count of the leaf reaches the verdict of a broker that started the worker itself.
OomChain ==
    child /\ row.status = "running" /\ "memory" \in row.saved.applied =>
        /\ pc = "idle" => Readable(row.saved)
        /\ pc = "cancel" /\ ret.cancel = "idle" => Readable(copy)
        /\ pc = "finish" /\ oom => copy.state["cgroup"].held /\ (copy.state["cgroup"].finished => OomKnown(copy))
        /\ pc = "cleanup" /\ oom => OomKnown(copy)
        /\ pc = "verdict" /\ oom => OomKnown(row.saved)

\* What a row may hold.
Rows == [status : {"queued", "running"} \cup Verdicts, known : BOOLEAN, cancel : BOOLEAN, saved : Record]

\* TypeOK with the Boolean variables apart.
Typed ==
    /\ mode \in Contracts /\ able \subseteq Names
    /\ row \in Rows
    /\ copy \in Record
    /\ pc \in {"down", "failed", "idle", "cancel", "finish", "cleanup", "verdict"} \cup Starting
    /\ ret \in [cancel : {None, "idle", "finish", "cleanup"}, clean : {None, "verdict", "verify", "spawn"}]
    /\ verdict \in Verdicts
    /\ setup \in {None, "tmp", "disk"} /\ scratch \in {None, "tmp", "disk"}
    /\ alloc \subseteq Backends
    /\ worker \in {"none", "pending", "ready", "running", "gone"}
    /\ exit \in {None, "ok", "red"}
    /\ code \in {"ok", "mount", "namespace", "error"}
    /\ isolate \in BOOLEAN /\ child \in BOOLEAN /\ kids \in BOOLEAN /\ inLeaf \in BOOLEAN
    /\ killed \in BOOLEAN /\ oom \in BOOLEAN
    /\ faults \in 0 .. MaxFaults

\* Typed says what TypeOK says.
LEMMA TypedIsTypeOK == Typed => TypeOK
  BY DEF Typed, TypeOK, Rows

\* The parts of the row after a save, an admission, an end or a request.
LEMMA RowIs ==
    ASSUME Typed, NEW c \in Record, NEW v \in {"queued", "running"} \cup Verdicts
    PROVE  /\ [row EXCEPT !.saved = c] \in Rows
           /\ [row EXCEPT !.saved = c].status = row.status /\ [row EXCEPT !.saved = c].saved = c
           /\ [row EXCEPT !.status = v] \in Rows
           /\ [row EXCEPT !.status = v].status = v /\ [row EXCEPT !.status = v].saved = row.saved
           /\ [row EXCEPT !.known = TRUE] \in Rows
           /\ [row EXCEPT !.known = TRUE].status = row.status /\ [row EXCEPT !.known = TRUE].saved = row.saved
           /\ [row EXCEPT !.cancel = TRUE] \in Rows
           /\ [row EXCEPT !.cancel = TRUE].status = row.status /\ [row EXCEPT !.cancel = TRUE].saved = row.saved
           /\ row.status \in {"queued", "running"} \cup Verdicts
           /\ row.saved \in Record
  BY DEF Typed, Rows

\* The invariant.  No part of it is inductive without others.
ResourceInv ==
    /\ Typed
    /\ Places
    /\ Workers
    /\ Receipts
    /\ Leftovers
    /\ Preparation
    /\ Leaf
    /\ OomChain

------------------------------------------------------------------------------
(* Frames *)

\* Contracts and capabilities do not change, nor what is derived from them.
LEMMA Lasting ==
    ASSUME UNCHANGED fixed
    PROVE  /\ \A b \in Backends : Covered(b)' = Covered(b) /\ Eligible(b)' = Eligible(b)
           /\ \A n \in Names : Required(n)' = Required(n)
           /\ mode' = mode /\ able' = able
  BY DEF fixed, Covered, Eligible, Wanted, Required

\* What the saved receipt accounts for stays so while nothing is allocated.
LEMMA SavedNamed ==
    ASSUME Named(row.saved), UNCHANGED fixed, row'.saved = row.saved, alloc' \subseteq alloc,
           worker = "none" => worker' = "none"
    PROVE  Named(row.saved)'
  BY DEF Named, CleanupFailed, Unrecorded, Covered, Eligible, Wanted, fixed

\* The same of the copy, if what it no longer holds is named and nothing is newly prepared.
LEMMA CopyNamed ==
    ASSUME Named(copy), UNCHANGED fixed, alloc' \subseteq alloc,
           worker = "none" => worker' = "none",
           \A b \in alloc' : copy.state[b].held => copy'.state[b].held \/ CleanupFailed(copy, b)',
           \A n, s, t : <<n, s, t>> \in copy.events => <<n, s, t>> \in copy'.events,
           \A n : <<n, "prepare", "recorded">> \in copy'.events => <<n, "prepare", "recorded">> \in copy.events
    PROVE  Named(copy)'
<1> SUFFICES ASSUME NEW b \in alloc', ~copy'.state[b].held, ~CleanupFailed(copy, b)'
             PROVE  worker' = "none" /\ Unrecorded(copy, b)'
  BY DEF Named
<1>1. Covered(b)' = Covered(b)
  BY DEF Covered, Eligible, Wanted, fixed
<1>2. ~CleanupFailed(copy, b)
  BY <1>1 DEF CleanupFailed
<1>3. worker = "none" /\ Unrecorded(copy, b)
  BY <1>2 DEF Named
<1> QED
  BY <1>1, <1>3 DEF Unrecorded

\* A failure stays within the bound.
LEMMA FaultTyped ==
    ASSUME Typed, Fault
    PROVE  faults' \in 0 .. MaxFaults
  BY ResourcesConstantsOK DEF Typed, Fault

\* The saved receipt stays sound while it is not written.
LEMMA SavedSound ==
    ASSUME Sound(row.saved), UNCHANGED fixed, row'.saved = row.saved, oom => oom', Typed
    PROVE  Sound(row.saved)'
<1>1. row.saved \in Record
  BY DEF Typed, Rows
<1>2. \A n \in row.saved.applied : n \in Names /\ BackendOf[n] \in Backends
  BY <1>1 DEF Record, BackendOf, Backends
<1> QED
  BY <1>2, Lasting DEF Sound, OomNoted

\* The copy stays sound if it claims nothing new.
LEMMA CopySound ==
    ASSUME Sound(copy), Typed, UNCHANGED fixed, copy'.applied = copy.applied, oom => oom',
           \A b \in Backends : copy'.state[b].held => copy.state[b].held,
           <<"memory", "usage", "oom">> \in copy'.events => <<"memory", "usage", "oom">> \in copy.events
    PROVE  Sound(copy)'
<1>1. \A n \in copy.applied : n \in Names /\ BackendOf[n] \in Backends
  BY DEF Typed, Record, BackendOf, Backends
<1> QED
  BY <1>1, Lasting DEF Sound, OomNoted

\* Before a worker is released its leaf has nothing to hide.
LEMMA NotReleased ==
    ASSUME Workers', pc' # "idle", worker' # "running", ~kids', ~oom',
           ~(pc' = "cancel" /\ ret'.cancel = "idle")
    PROVE  Leaf' /\ OomChain'
  BY DEF Workers, Leaf, OomChain, Reached, Ended

\* It may claim what is covered while no limit was hit.
LEMMA CopyApplied ==
    ASSUME Sound(copy), Typed, UNCHANGED fixed, ~oom,
           copy' \in Record, \A n \in copy'.applied : n \in Covered(BackendOf[n]),
           \A b \in Backends : copy'.state[b].held => copy.state[b].held,
           <<"memory", "usage", "oom">> \in copy'.events => <<"memory", "usage", "oom">> \in copy.events
    PROVE  Sound(copy)'
<1>1. \A n \in copy'.applied : n \in Names /\ BackendOf[n] \in Backends
  BY DEF Record, BackendOf, Backends
<1>2. <<"memory", "usage", "oom">> \notin copy'.events
  BY DEF Sound, OomNoted
<1> QED
  BY <1>1, <1>2, Lasting DEF Sound, OomNoted

\* The choice of the scratch stands.
LEMMA SameScratch ==
    ASSUME ScratchSet, Typed, UNCHANGED <<fixed, setup>>
    PROVE  ScratchSet'
<1>1. \A n \in {"tmp", "disk"} : n \in Names /\ BackendOf[n] \in Backends
  BY DEF BackendOf, Names, Backends
<1> QED
  BY <1>1, Lasting DEF ScratchSet, Typed

------------------------------------------------------------------------------
(* From admission to release *)

\* prepare_resources starts with the empty receipt.
LEMMA AdmitKeeps ==
    ASSUME ResourceInv, Admit
    PROVE  ResourceInv'
<1>1. Typed /\ row.saved = Blank /\ alloc = {} /\ worker = "none"
  BY DEF ResourceInv, Places, Admit
<1>2. /\ row'.status = "running" /\ row'.saved = Blank
      /\ row' \in Rows
  BY <1>1, RowIs, BlankTyped DEF Admit
<1>3. /\ copy' = Blank /\ pc' = "probe"
      /\ UNCHANGED <<fixed, ret, verdict, launch, alloc, process, faults>>
  BY <1>1 DEF Admit
<1>4. Typed'
  BY <1>1, <1>2, <1>3, BlankTyped DEF Typed, fixed, launch, process, Starting
<1>5. Places'
  BY <1>2, <1>3 DEF ResourceInv, Places, Ended, Verdicts
<1>6. Workers'
  BY <1>1, <1>2, <1>3 DEF ResourceInv, Workers, Unreleased, Fallback, Early, Settled, Starting, process
<1>7. Receipts'
  BY <1>2, <1>3, BlankTyped DEF Receipts, Sound, OomNoted, Preparing, Starting
<1>8. Leftovers'
  BY <1>1, <1>3 DEF Leftovers, Named, Settled
<1>9. Preparation'
  BY <1>3, BlankTyped DEF Preparation, Early, Starting, Fallback
<1>10. Leaf'
  BY <1>1, <1>2, <1>3, BlankTyped DEF ResourceInv, Workers, Leaf, Reached, Ended, process
<1>11. OomChain'
  BY <1>3 DEF OomChain
<1> QED
  BY <1>4, <1>5, <1>6, <1>7, <1>8, <1>9, <1>10, <1>11 DEF ResourceInv

\* What the capabilities lack is noted, and the run is refused if it requires that.
LEMMA ProbeKeeps ==
    ASSUME ResourceInv, Probe
    PROVE  ResourceInv'
<1> DEFINE lacking == {n \in Names : mode[n] # "off"} \ able
<1>1. Typed /\ row.saved = Blank /\ worker = "none" /\ copy.applied = {} /\ row.status = "running"
  BY DEF ResourceInv, Places, Workers, Receipts, Preparation, Probe, Early, Preparing
<1>1a. UNCHANGED <<row, alloc, worker, child, kids, oom, mode, able, ret, inLeaf, setup, code>>
  BY DEF Probe, fixed, launch, process
<1>2. CASE row.cancel
  <2>1. verdict' = "cancelled" /\ pc' = "verdict" /\ copy' = copy
    BY <1>2 DEF Probe
  <2>2. Typed'
    BY <1>1, <2>1 DEF Probe, Typed, fixed, launch, process, Verdicts
  <2>3. Places' /\ Workers'
    BY <1>1, <1>1a, <2>1, BlankTyped
    DEF ResourceInv, Places, Workers, Probe, Ended, Alive, Holding, Unreleased, Fallback, Early, Settled, Starting
  <2>4. Receipts' /\ Preparation'
    BY <1>1, <1>1a, <2>1, Lasting DEF Probe, ResourceInv, Receipts, Preparation, Sound, OomNoted,
          Preparing, Starting, Settled, Early, Fallback
  <2>4a. Leftovers'
    <3>1. Named(row.saved) /\ Named(copy)
      BY DEF ResourceInv, Leftovers, Probe, Settled
    <3>2. Named(row.saved)'
      BY <3>1, <1>1a DEF Named, CleanupFailed, Unrecorded, Covered, Eligible, Wanted
    <3>3. Named(copy)'
      BY <3>1, <1>1a, <2>1 DEF Named, CleanupFailed, Unrecorded, Covered, Eligible, Wanted
    <3> QED
      BY <2>1, <3>2, <3>3 DEF Leftovers, Early
  <2>5. Leaf' /\ OomChain'
    BY <1>1, <1>1a, <2>1 DEF ResourceInv, Workers, Leaf, OomChain, Reached, Ended, Settled
  <2> QED
    BY <2>2, <2>3, <2>4, <2>4a, <2>5 DEF ResourceInv
<1>3. CASE ~row.cancel
  <2>1. /\ copy' = NoteMissed(copy, lacking, "probe")
        /\ pc' = IF RefusedBy(lacking) THEN "prepared" ELSE "prepare_cgroup"
        /\ verdict' = verdict
    BY <1>3 DEF Probe
  <2>2. /\ copy' \in Record /\ copy'.state = copy.state /\ copy'.applied = copy.applied
        /\ \A n, s, t : <<n, s, t>> \in copy'.events <=>
              <<n, s, t>> \in copy.events \/ (n \in lacking /\ s = "probe" /\ t = Missed(n))
    BY <1>1, <2>1, NoteMissedIs DEF Typed, Stages, AddsMissed
  <2>3. Typed'
    BY <1>1, <2>1, <2>2 DEF Probe, Typed, fixed, launch, process, Starting
  <2>4. Places' /\ Workers'
    BY <1>1, <1>1a, <2>1
    DEF ResourceInv, Places, Workers, Ended, Alive, Holding, Unreleased, Fallback, Early, Settled, Starting
  <2>5. \A n \in Names : Missed(n) # "oom"
    BY DEF Missed
  <2>6. Receipts'
    BY <1>1, <1>1a, <2>1, <2>2, <2>5, Lasting
    DEF Probe, ResourceInv, Receipts, Sound, OomNoted, Preparing, Starting, Settled
  <2>7. Leftovers'
    <3>1. Named(row.saved) /\ \A b \in alloc : copy.state[b].held \/ CleanupFailed(copy, b)
      BY DEF ResourceInv, Leftovers, Probe, Early
    <3>2. Named(row.saved)'
      BY <3>1, <1>1a DEF Named, CleanupFailed, Unrecorded, Covered, Eligible, Wanted
    <3>3. \A b \in alloc' : copy'.state[b].held \/ CleanupFailed(copy, b)'
      BY <3>1, <1>1a, <2>2 DEF CleanupFailed, Covered, Eligible, Wanted
    <3> QED
      BY <3>2, <3>3 DEF Leftovers, Named
  <2>8. Preparation'
    <3>1. RefusedBy(lacking) => Refused(copy')
      BY <2>2 DEF RefusedBy, Refused, Missed, Stages
    <3>2. ~RefusedBy(lacking) => \A n \in Names : Required(n) => n \in able
      BY DEF RefusedBy, Required
    <3> QED
      BY <1>1, <1>1a, <2>1, <2>2, <3>1, <3>2, Lasting
      DEF Probe, ResourceInv, Preparation, Starting, Early, Fallback, Refused
  <2>9. Leaf' /\ OomChain'
    BY <1>1, <1>1a, <2>1, <2>2 DEF ResourceInv, Workers, Leaf, OomChain, Reached, Ended, Settled, Starting, Places
  <2> QED
    BY <2>3, <2>4, <2>6, <2>7, <2>8, <2>9 DEF ResourceInv
<1> QED
  BY <1>2, <1>3

\* One backend is prepared, or fails to be.
LEMMA PrepareKeeps ==
    ASSUME ResourceInv, NEW b \in Backends, Prepare(b)
    PROVE  ResourceInv'
<1>1. /\ Typed /\ row.saved = Blank /\ worker = "none" /\ copy.applied = {} /\ row.status = "running"
      /\ pc = IF b = "cgroup" THEN "prepare_cgroup" ELSE "prepare_quota"
  BY DEF ResourceInv, Places, Workers, Receipts, Preparation, Prepare, Early, Preparing
<1>2. /\ UNCHANGED <<row, worker, child, kids, oom, mode, able, ret, inLeaf, setup, code, verdict, fixed>>
      /\ pc' = IF b = "cgroup" THEN "prepare_quota" ELSE "prepared"
  BY DEF Prepare, fixed, launch, process
<1>3. /\ copy' \in Record /\ copy'.applied = {}
      /\ \A d \in Backends : copy'.state[d].finished = copy.state[d].finished
      /\ \A d \in Backends : d # b => copy'.state[d] = copy.state[d]
      /\ copy.state[b].held => copy'.state[b].held
      /\ alloc' \subseteq Backends
      /\ \A n, s, t : <<n, s, t>> \in copy.events => <<n, s, t>> \in copy'.events
      /\ \A n, s, t : <<n, s, t>> \in copy'.events => <<n, s, t>> \in copy.events \/ t # "oom"
      /\ faults' \in 0 .. MaxFaults
      /\ \/ Eligible(b) = {} /\ copy' = copy /\ alloc' = alloc
         \/ Eligible(b) # {} /\ alloc' = alloc \cup {b} /\ copy'.state[b].held
         \/ /\ Eligible(b) # {} /\ alloc' = alloc /\ copy'.state = copy.state
            /\ \A n \in Eligible(b) : <<n, "prepare", Missed(n)>> \in copy'.events
  <2>1. copy \in Record /\ Eligible(b) \in SUBSET Names /\ alloc \subseteq Backends /\ faults \in 0 .. MaxFaults
    BY <1>1 DEF Typed, Eligible, Wanted
  <2>2. CASE Eligible(b) = {}
    BY <1>1, <2>1, <2>2 DEF Prepare
  <2>3. CASE /\ Eligible(b) # {} /\ alloc' = alloc \cup {b} /\ faults' = faults
             /\ copy' = Note([copy EXCEPT !.state[b].held = TRUE], Eligible(b), "prepare", "recorded")
    <3> DEFINE h == HoldFlag(copy.state[b])
    <3>1. copy' = Note(With(copy, b, h), Eligible(b), "prepare", "recorded")
      BY <2>1, <2>3, WithFlagIs
    <3>2. h \in Held /\ h.held /\ h.finished = copy.state[b].finished
      BY <2>1, FlagIs, WithFlagIs
    <3> HIDE DEF h
    <3>3. /\ copy' \in Record /\ copy'.state[b] = h /\ Apart(copy', copy, b)
          /\ Adds(copy', copy, Eligible(b), "prepare", "recorded")
      BY <2>1, <3>1, <3>2, NoteWithIs DEF Stages, Statuses
    <3> QED
      BY <1>1, <2>1, <2>3, <3>2, <3>3 DEF Adds, Apart
  <2>4. CASE /\ Eligible(b) # {} /\ alloc' = alloc /\ Fault
             /\ copy' = NoteMissed(copy, Eligible(b), "prepare")
    <3>1. /\ copy' \in Record /\ copy'.state = copy.state /\ copy'.applied = copy.applied
          /\ AddsMissed(copy', copy, Eligible(b), "prepare")
      BY <2>1, <2>4, NoteMissedIs DEF Stages
    <3>2. faults' \in 0 .. MaxFaults
      BY <1>1, <2>4, FaultTyped
    <3>3. \A n : Missed(n) # "oom"
      BY DEF Missed
    <3> QED
      BY <1>1, <2>1, <2>4, <3>1, <3>2, <3>3 DEF AddsMissed
  <2> QED
    BY <2>2, <2>3, <2>4 DEF Prepare
<1>4. Typed'
  BY <1>1, <1>2, <1>3 DEF Typed, Prepare, fixed, launch, process, Starting
<1>5. Places' /\ Workers'
  BY <1>1, <1>2, <1>3
  DEF ResourceInv, Places, Workers, Ended, Alive, Holding, Unreleased, Fallback, Early, Settled, Starting
<1>6. Receipts'
  <2>1. Sound(row.saved)'
    BY <1>1, <1>2, SavedSound DEF ResourceInv, Receipts
  <2>2. Sound(copy)'
    BY <1>1, <1>2, <1>3, Lasting DEF ResourceInv, Receipts, Sound, OomNoted
  <2> QED
    BY <1>1, <1>2, <1>3, <2>1, <2>2, BlankTyped DEF ResourceInv, Receipts, Preparing, Starting, Settled
<1>7. Leftovers'
  <2>1. Named(row.saved)'
    BY <1>1, <1>2, BlankTyped DEF Named, Unrecorded
  <2>2. \A d \in alloc : copy.state[d].held \/ CleanupFailed(copy, d)
    BY <1>1 DEF ResourceInv, Leftovers, Early
  <2>3. \A d \in alloc' : copy'.state[d].held \/ CleanupFailed(copy, d)'
    <3>1. \A d \in Backends : CleanupFailed(copy, d) => CleanupFailed(copy, d)'
      BY <1>2, <1>3, Lasting DEF CleanupFailed
    <3> QED
      BY <1>1, <1>3, <2>2, <3>1 DEF Typed
  <2> QED
    BY <2>1, <2>3 DEF Leftovers, Named
<1>8. Preparation'
  <2>1. \A d \in Backends : ~copy.state[d].finished /\ (copy.state[d].held => d \in alloc)
    BY <1>1 DEF ResourceInv, Preparation, Starting
  <2>2. \A n \in Names : Required(n) => n \in able
    BY <1>1 DEF ResourceInv, Preparation
  <2>3. \A d \in Backends : ~copy'.state[d].finished /\ (copy'.state[d].held => d \in alloc')
    BY <1>1, <1>3, <2>1
  <2>4. Refused(copy) => Refused(copy)'
    BY <1>3 DEF Refused
  <2>5. Refused(copy)' \/ copy'.state[b].held \/ Optional(b)
    <3>1. CASE Eligible(b) = {}
      BY <2>2, <3>1 DEF Eligible, Wanted, Required, Optional
    <3>2. CASE copy'.state[b].held
      BY <3>2
    <3>3. CASE \A n \in Eligible(b) : <<n, "prepare", Missed(n)>> \in copy'.events
      <4>1. CASE \E n \in Names : Required(n) /\ BackendOf[n] = b
        <5>1. PICK n \in Names : Required(n) /\ BackendOf[n] = b
          BY <4>1
        <5>2. n \in Eligible(b) /\ Missed(n) = "failed"
          BY <5>1, <2>2 DEF Eligible, Wanted, Required, Missed
        <5> QED
          BY <3>3, <5>2 DEF Refused, Stages
      <4>2. CASE ~\E n \in Names : Required(n) /\ BackendOf[n] = b
        BY <4>2 DEF Optional
      <4> QED
        BY <4>1, <4>2
    <3> QED
      BY <1>3, <3>1, <3>2, <3>3
  <2>6. CASE b = "cgroup"
    BY <1>1, <1>2, <1>3, <2>2, <2>3, <2>5, <2>6, Lasting DEF Preparation, Early, Fallback, Optional
  <2>7. CASE b = "quota"
    <3>1. Refused(copy)' \/ Provided(copy)'
      <4>1. Refused(copy) \/ copy.state["cgroup"].held \/ Optional("cgroup")
        BY <1>1, <2>7 DEF ResourceInv, Preparation
      <4>2. \A n \in Names : BackendOf[n] \in {"cgroup", "quota"}
        BY DEF BackendOf
      <4> QED
        BY <1>2, <1>3, <2>2, <2>4, <2>5, <2>7, <4>1, <4>2, Lasting DEF Provided, Provides, Optional, Backends
    <3> QED
      BY <1>1, <1>2, <1>3, <2>3, <2>7, <3>1 DEF Preparation, Early, Fallback
  <2> QED
    BY <2>6, <2>7 DEF Backends
<1>9. Leaf' /\ OomChain'
  <2>1. ~kids /\ ~child
    BY <1>1 DEF ResourceInv, Workers
  <2>2. Reached(row.saved)' /\ Reached(copy)'
    BY <1>1, <1>2, <1>3, <2>1, BlankTyped DEF Reached
  <2> QED
    BY <1>2, <2>1, <2>2 DEF Leaf, OomChain
<1> QED
  BY <1>4, <1>5, <1>6, <1>7, <1>8, <1>9 DEF ResourceInv

\* The receipt is saved for the first time, or the run is refused.
LEMMA PreparedKeeps ==
    ASSUME ResourceInv, Prepared
    PROVE  ResourceInv'
<1>1. /\ Typed /\ row.saved = Blank /\ worker = "none" /\ copy.applied = {} /\ row.status = "running"
      /\ pc = "prepared" /\ ~kids /\ ~oom /\ ~child
  BY DEF ResourceInv, Places, Workers, Receipts, Preparation, Prepared, Early, Preparing
<1>2. /\ UNCHANGED <<copy, worker, child, kids, oom, mode, able, inLeaf, setup, code, fixed, alloc>>
  BY DEF Prepared, fixed, launch, process
<1>3. /\ row' \in Rows /\ row'.status = row.status /\ row'.saved \in {copy, row.saved}
      /\ \/ /\ Refused(copy) /\ pc' = "cleanup" /\ verdict' = "enforcement" /\ ret' = [ret EXCEPT !.clean = "verdict"]
            /\ row' = row
         \/ ~Refused(copy) /\ pc' = "setup_tmpfs" /\ verdict' = verdict /\ ret' = ret /\ row'.saved = copy
  BY <1>1, RowIs DEF Prepared, Refused, Save, Typed
<1>4. Typed'
  BY <1>1, <1>2, <1>3 DEF Typed, Prepared, fixed, launch, process, Starting, Verdicts
<1>5. Places' /\ Workers'
  BY <1>1, <1>2, <1>3
  DEF Typed, ResourceInv, Places, Workers, Ended, Alive, Holding, Unreleased, Fallback, Early, Settled, Starting
<1>6. Receipts'
  <2>1. Sound(copy)'
    BY <1>1, <1>2, CopySound DEF ResourceInv, Receipts
  <2>2. Sound(row.saved)'
    <3>1. CASE row' = row
      BY <1>1, <1>2, <3>1, SavedSound DEF ResourceInv, Receipts
    <3>2. CASE row'.saved = copy
      BY <1>2, <2>1, <3>2 DEF Sound, OomNoted
    <3> QED
      BY <1>3, <3>1, <3>2
  <2> QED
    BY <1>1, <1>2, <1>3, <2>1, <2>2, BlankTyped DEF ResourceInv, Receipts, Preparing, Starting, Settled
<1>7. Leftovers'
  <2>1. \A d \in alloc : copy.state[d].held \/ CleanupFailed(copy, d)
    BY <1>1 DEF ResourceInv, Leftovers, Early
  <2>2. \A d \in alloc' : copy'.state[d].held \/ CleanupFailed(copy, d)'
    BY <1>1, <1>2, <2>1, Lasting DEF CleanupFailed, Typed
  <2>3. Named(copy)'
    BY <2>2 DEF Named
  <2>4. Named(row.saved)'
    <3>1. CASE row' = row
      BY <1>1, <1>2, <3>1, SavedNamed DEF ResourceInv, Leftovers
    <3>2. CASE row'.saved = copy
      BY <1>2, <2>3, <3>2 DEF Named, CleanupFailed, Unrecorded
    <3> QED
      BY <1>3, <3>1, <3>2
  <2> QED
    BY <2>2, <2>3, <2>4 DEF Leftovers
<1>8. Preparation'
  <2>1. Refused(copy) \/ Provided(copy)
    BY <1>1 DEF ResourceInv, Preparation
  <2>2. Provided(copy) => Provided(copy)'
    BY <1>2, Lasting DEF Provided, Provides
  <2>3. ~Fallback'
    BY <1>1, <1>3 DEF Fallback, Typed
  <2>4. \A d \in Backends : ~copy'.state[d].finished /\ (copy'.state[d].held => d \in alloc')
    BY <1>1, <1>2 DEF ResourceInv, Preparation, Starting
  <2> QED
    BY <1>1, <1>2, <1>3, <2>1, <2>2, <2>3, <2>4 DEF Preparation, Starting, Early
<1>9. Leaf' /\ OomChain'
  BY <1>1, <1>2, <1>3, <1>5, NotReleased
<1> QED
  BY <1>4, <1>5, <1>6, <1>7, <1>8, <1>9 DEF ResourceInv

\* The tmpfs is chosen, or cannot be.
LEMMA SetupTmpfsKeeps ==
    ASSUME ResourceInv, SetupTmpfs
    PROVE  ResourceInv'
<1>1. /\ Typed /\ row.saved = copy /\ worker = "none" /\ copy.applied = {} /\ row.status = "running"
      /\ pc = "setup_tmpfs" /\ ~kids /\ ~oom /\ ~child /\ Provided(copy)
  BY DEF ResourceInv, Places, Workers, Receipts, Preparation, SetupTmpfs, Early, Preparing, Starting
<1>2. UNCHANGED <<worker, child, kids, oom, mode, able, inLeaf, code, fixed, alloc>>
  BY DEF SetupTmpfs, fixed, launch, process
<1> DEFINE tmpfs == copy.state["cgroup"].held /\ "tmp" \in Covered("cgroup")
<1>3. /\ copy' \in Record /\ copy'.state = copy.state /\ copy'.applied = copy.applied
      /\ row' \in Rows /\ row'.status = row.status /\ row'.saved = copy'
      /\ faults' \in 0 .. MaxFaults
      /\ \A n, s, t : <<n, s, t>> \in copy.events => <<n, s, t>> \in copy'.events
      /\ \A n, s, t : <<n, s, t>> \in copy'.events => <<n, s, t>> \in copy.events \/ (s = "attach" /\ t # "oom")
      /\ setup' \in {None, "tmp"} /\ (setup' = "tmp" => tmpfs)
      /\ \/ /\ pc' = "setup_quota" /\ verdict' = verdict /\ ret' = ret
            /\ Required("tmp") /\ tmpfs => setup' = "tmp"
         \/ pc' = "finish" /\ verdict' = "enforcement" /\ ret' = [ret EXCEPT !.clean = "verdict"]
  <2>1. copy \in Record /\ row \in Rows /\ faults \in 0 .. MaxFaults
    BY <1>1 DEF Typed
  <2>2. CASE /\ setup' = IF tmpfs THEN "tmp" ELSE None
             /\ pc' = "setup_quota" /\ UNCHANGED <<row, copy, verdict, ret, faults>>
    BY <1>1, <2>1, <2>2 DEF None
  <2>3. CASE /\ tmpfs /\ Fault /\ copy' = NoteMissed(copy, {"tmp"}, "attach") /\ Save(copy') /\ setup' = None
             /\ IF Required("tmp") THEN Abandon("enforcement")
                                   ELSE pc' = "setup_quota" /\ UNCHANGED <<verdict, ret>>
    <3>1. /\ copy' \in Record /\ copy'.state = copy.state /\ copy'.applied = copy.applied
          /\ AddsMissed(copy', copy, {"tmp"}, "attach")
      BY <2>1, <2>3, NoteMissedIs DEF Stages, Names
    <3>2. row' \in Rows /\ row'.status = row.status /\ row'.saved = copy'
      BY <1>1, <2>3, <3>1, RowIs DEF Save
    <3>3. faults' \in 0 .. MaxFaults
      BY <1>1, <2>3, FaultTyped
    <3>4. Missed("tmp") # "oom"
      BY DEF Missed
    <3> QED
      BY <2>3, <3>1, <3>2, <3>3, <3>4 DEF AddsMissed, Abandon
  <2> QED
    BY <2>2, <2>3 DEF SetupTmpfs
<1> HIDE DEF tmpfs
<1>4. Typed'
  <2>1. isolate' = copy.state["cgroup"].held
    BY DEF SetupTmpfs
  <2>2. copy.state["cgroup"].held \in BOOLEAN
    BY <1>1 DEF Typed, Record, Held, Backends
  <2> QED
    BY <1>1, <1>2, <1>3, <2>1, <2>2 DEF Typed, SetupTmpfs, fixed, process, Starting, Verdicts
<1>5. Places' /\ Workers'
  BY <1>1, <1>2, <1>3
  DEF Typed, ResourceInv, Places, Workers, Ended, Alive, Holding, Unreleased, Fallback, Early, Settled, Starting
<1>6. Receipts'
  <2>1. Sound(copy)'
    BY <1>1, <1>2, <1>3, CopySound DEF ResourceInv, Receipts
  <2>2. Sound(row.saved)'
    BY <1>3, <2>1 DEF Sound, OomNoted
  <2> QED
    BY <1>1, <1>2, <1>3, <2>1, <2>2 DEF ResourceInv, Receipts, Preparing, Starting, Settled
<1>7. Leftovers'
  <2>1. \A d \in alloc : copy.state[d].held \/ CleanupFailed(copy, d)
    BY <1>1 DEF ResourceInv, Leftovers, Early
  <2>2. \A d \in alloc' : copy'.state[d].held \/ CleanupFailed(copy, d)'
    BY <1>1, <1>2, <1>3, <2>1, Lasting DEF CleanupFailed, Typed
  <2>3. Named(copy)'
    BY <2>2 DEF Named
  <2>4. Named(row.saved)'
    BY <1>3, <2>3 DEF Named, CleanupFailed, Unrecorded
  <2> QED
    BY <2>2, <2>3, <2>4 DEF Leftovers
<1>8. Preparation'
  <2>1. Provided(copy)'
    BY <1>1, <1>2, <1>3, Lasting DEF Provided, Provides
  <2>2. ~Fallback'
    BY <1>1, <1>3 DEF Fallback, Typed
  <2>3. \A d \in Backends : ~copy'.state[d].finished /\ (copy'.state[d].held => d \in alloc')
    BY <1>1, <1>2, <1>3 DEF ResourceInv, Preparation, Starting
  <2>4. Required("tmp") => tmpfs
    BY <1>1 DEF Provided, Provides, Required, tmpfs, Covered, Eligible, Wanted, BackendOf, Names
  <2>5. /\ Required("tmp")' = Required("tmp") /\ Covered("cgroup")' = Covered("cgroup")
    BY <1>2, Lasting DEF Names, Backends
  <2>6. tmpfs => "tmp" \in Covered("cgroup")
    BY DEF tmpfs
  <2> QED
    BY <1>1, <1>2, <1>3, <2>1, <2>2, <2>3, <2>4, <2>5, <2>6 DEF Preparation, Starting, Early, None
<1>9. Leaf' /\ OomChain'
  BY <1>1, <1>2, <1>3, <1>5, NotReleased
<1> QED
  BY <1>4, <1>5, <1>6, <1>7, <1>8, <1>9 DEF ResourceInv

\* The quota scratch is chosen, or is cleaned up alone.
LEMMA SetupQuotaKeeps ==
    ASSUME ResourceInv, SetupQuota
    PROVE  ResourceInv'
<1>1. /\ Typed /\ row.saved = copy /\ worker = "none" /\ copy.applied = {} /\ row.status = "running"
      /\ pc = "setup_quota" /\ ~kids /\ ~oom /\ ~child /\ Provided(copy)
      /\ Required("tmp") => setup = "tmp"
      /\ setup \in {None, "tmp"}
      /\ setup = "tmp" => "tmp" \in Covered("cgroup")
  BY DEF ResourceInv, Places, Workers, Receipts, Preparation, SetupQuota, Early, Preparing, Starting
<1>2. UNCHANGED <<worker, child, kids, oom, mode, able, inLeaf, code, fixed>>
  BY DEF SetupQuota, fixed, process
<1>3. /\ copy' \in Record /\ copy'.applied = copy.applied /\ copy'.state["cgroup"] = copy.state["cgroup"]
      /\ row' \in Rows /\ row'.status = row.status /\ row'.saved = copy'
      /\ faults' \in 0 .. MaxFaults
      /\ \A n, s, t : <<n, s, t>> \in copy.events => <<n, s, t>> \in copy'.events
      /\ \A n, s, t : <<n, s, t>> \in copy'.events =>
            <<n, s, t>> \in copy.events \/ (s \in {"attach", "cleanup"} /\ t # "oom")
      /\ \/ /\ copy' = copy /\ alloc' = alloc /\ setup' = IF copy.state["quota"].held THEN "disk" ELSE setup
            /\ pc' = "spawn" /\ verdict' = verdict /\ ret' = ret
         \/ /\ copy.state["quota"].held /\ copy'.state["quota"] = Free /\ setup' = setup
            /\ alloc' \subseteq alloc /\ alloc \subseteq alloc' \cup {"quota"}
            /\ "quota" \notin alloc' \/ <<"disk", "cleanup", "failed">> \in copy'.events
            /\ \/ ~Required("disk") /\ pc' = "spawn" /\ verdict' = verdict /\ ret' = ret
               \/ pc' = "finish" /\ verdict' = "enforcement" /\ ret' = [ret EXCEPT !.clean = "verdict"]
  <2>1. copy \in Record /\ row \in Rows /\ faults \in 0 .. MaxFaults
    BY <1>1 DEF Typed
  <2>2. CASE /\ setup' = IF copy.state["quota"].held THEN "disk" ELSE setup
             /\ pc' = "spawn" /\ UNCHANGED <<row, copy, verdict, ret, alloc, faults>>
    BY <1>1, <2>1, <2>2
  <2> DEFINE noted == NoteMissed([copy EXCEPT !.state["quota"] = Free], {"disk"}, "attach")
  <2>3. CASE /\ copy.state["quota"].held /\ Fault
             /\ \E cleaned \in BOOLEAN :
                   /\ alloc' = IF cleaned THEN alloc \ {"quota"} ELSE alloc
                   /\ copy' = Note(noted, {"disk"}, "cleanup", IF cleaned THEN "recorded" ELSE "failed")
                   /\ IF Required("disk") \/ ~cleaned THEN Abandon("enforcement")
                                                      ELSE pc' = "spawn" /\ UNCHANGED <<verdict, ret>>
             /\ Save(copy') /\ setup' = setup
    <3>0. PICK cleaned \in BOOLEAN :
            /\ alloc' = IF cleaned THEN alloc \ {"quota"} ELSE alloc
            /\ copy' = Note(noted, {"disk"}, "cleanup", IF cleaned THEN "recorded" ELSE "failed")
            /\ IF Required("disk") \/ ~cleaned THEN Abandon("enforcement")
                                               ELSE pc' = "spawn" /\ UNCHANGED <<verdict, ret>>
      BY <2>3
    <3> DEFINE w == With(copy, "quota", Free)
               st == IF cleaned THEN "recorded" ELSE "failed"
    <3>1. noted = NoteMissed(w, {"disk"}, "attach")
      BY DEF With
    <3>2. w \in Record /\ w.state["quota"] = Free /\ Apart(w, copy, "quota") /\ w.events = copy.events
      BY <2>1, WithIs, BlankTyped DEF Backends
    <3> HIDE DEF w, noted
    <3>3. /\ noted \in Record /\ noted.state = w.state /\ noted.applied = w.applied
          /\ AddsMissed(noted, w, {"disk"}, "attach")
      BY <3>1, <3>2, NoteMissedIs DEF Stages, Names
    <3>4. st \in Statuses /\ st # "oom"
      BY DEF Statuses
    <3> HIDE DEF st
    <3>5. copy' = Note(noted, {"disk"}, "cleanup", st)
      BY <3>0 DEF st
    <3>6. /\ copy' \in Record /\ copy'.state = noted.state /\ copy'.applied = noted.applied
          /\ Adds(copy', noted, {"disk"}, "cleanup", st)
      BY <3>3, <3>4, <3>5, NoteIs DEF Stages, Names
    <3>7. row' \in Rows /\ row'.status = row.status /\ row'.saved = copy'
      BY <1>1, <2>3, <3>6, RowIs DEF Save
    <3>8. faults' \in 0 .. MaxFaults
      BY <1>1, <2>3, FaultTyped
    <3>9. Missed("disk") # "oom"
      BY DEF Missed
    <3>10. /\ \A n, s, t : <<n, s, t>> \in copy.events => <<n, s, t>> \in copy'.events
           /\ \A n, s, t : <<n, s, t>> \in copy'.events =>
                 <<n, s, t>> \in copy.events \/ (s \in {"attach", "cleanup"} /\ t # "oom")
           /\ <<"disk", "cleanup", st>> \in copy'.events
      BY <3>2, <3>3, <3>4, <3>6, <3>9 DEF Adds, AddsMissed
    <3>11. /\ copy'.applied = copy.applied /\ copy'.state["quota"] = Free
           /\ copy'.state["cgroup"] = copy.state["cgroup"]
      BY <3>2, <3>3, <3>6 DEF Apart, Backends
    <3>12. alloc' \subseteq alloc /\ alloc \subseteq alloc' \cup {"quota"}
      BY <3>0
    <3>13. "quota" \notin alloc' \/ <<"disk", "cleanup", "failed">> \in copy'.events
      BY <3>0, <3>10 DEF st
    <3> QED
      BY <2>3, <3>0, <3>6, <3>7, <3>8, <3>10, <3>11, <3>12, <3>13 DEF Abandon
  <2> QED
    BY <2>2, <2>3 DEF SetupQuota
<1>4. Typed'
  BY <1>1, <1>2, <1>3 DEF Typed, SetupQuota, fixed, process, Starting, Verdicts
<1>5. Places' /\ Workers'
  BY <1>1, <1>2, <1>3
  DEF Typed, ResourceInv, Places, Workers, Ended, Alive, Holding, Unreleased, Fallback, Early, Settled, Starting
<1>6. Receipts'
  <2>0. \A b \in Backends : copy'.state[b].held => copy.state[b].held
    BY <1>3 DEF Backends
  <2>1. Sound(copy)'
    BY <1>1, <1>2, <1>3, <2>0, CopySound DEF ResourceInv, Receipts
  <2>2. Sound(row.saved)'
    BY <1>3, <2>1 DEF Sound, OomNoted
  <2> QED
    BY <1>1, <1>2, <1>3, <2>1, <2>2 DEF ResourceInv, Receipts, Preparing, Starting, Settled
<1>7. Leftovers'
  <2>1. \A d \in alloc : copy.state[d].held \/ CleanupFailed(copy, d)
    BY <1>1 DEF ResourceInv, Leftovers, Early
  <2>2. Covered("quota") \subseteq {"disk"}
    BY DEF Covered, Eligible, Wanted, BackendOf, Names
  <2>3. \A d \in Backends : CleanupFailed(copy, d) => CleanupFailed(copy, d)'
    BY <1>2, <1>3, Lasting DEF CleanupFailed
  <2>4. <<"disk", "cleanup", "failed">> \in copy'.events => CleanupFailed(copy, "quota")'
    BY <1>2, <2>2, Lasting DEF CleanupFailed, Backends
  <2>5. \A d \in alloc' : copy'.state[d].held \/ CleanupFailed(copy, d)'
    BY <1>1, <1>3, <2>1, <2>3, <2>4 DEF Typed, Backends
  <2>6. Named(copy)'
    BY <2>5 DEF Named
  <2>7. Named(row.saved)'
    BY <1>3, <2>6 DEF Named, CleanupFailed, Unrecorded
  <2> QED
    BY <2>5, <2>6, <2>7 DEF Leftovers
<1>8. Preparation'
  <2>0. Free.finished = FALSE /\ Free.held = FALSE
    BY BlankTyped
  <2>1. pc' = "spawn" => Provided(copy)'
    <3>1. \A n \in Names : BackendOf[n] = IF n = "disk" THEN "quota" ELSE "cgroup"
      BY DEF BackendOf
    <3> QED
      BY <1>1, <1>2, <1>3, <3>1, Lasting DEF Provided, Provides, Names
  <2>2. ~Fallback'
    BY <1>1, <1>3 DEF Fallback, Typed
  <2>3. pc' = "spawn" => \A d \in Backends : ~copy'.state[d].finished /\ (copy'.state[d].held => d \in alloc')
    <3>1. \A d \in Backends : ~copy.state[d].finished /\ (copy.state[d].held => d \in alloc)
      BY <1>1 DEF ResourceInv, Preparation, Starting
    <3> QED
      BY <1>3, <2>0, <3>1 DEF Backends
  <2>4. pc' = "spawn" => ScratchSet'
    <3>1. copy.state["quota"].held => "disk" \in Covered("quota")
      <4>1. copy.state["quota"].held => Eligible("quota") # {}
        BY DEF ResourceInv, Receipts, Sound, Backends
      <4> QED
        BY <4>1 DEF Covered, Eligible, Wanted, BackendOf, Names
    <3>2. "disk" \in Covered("quota") => ~Required("tmp")
      BY <1>1, ResourcesConstantsOK DEF Covered, Eligible, Wanted, Required, Contract, Typed
    <3>3. Required("disk") => copy.state["quota"].held
      BY <1>1 DEF Provided, Provides, BackendOf, Names
    <3>4. /\ Required("tmp")' = Required("tmp") /\ Required("disk")' = Required("disk")
          /\ Covered("cgroup")' = Covered("cgroup") /\ Covered("quota")' = Covered("quota")
      BY <1>2, Lasting DEF Names, Backends
    <3>5. BackendOf["tmp"] = "cgroup" /\ BackendOf["disk"] = "quota"
      BY DEF BackendOf, Names
    <3> QED
      BY <1>1, <1>3, <3>1, <3>2, <3>3, <3>4, <3>5 DEF ScratchSet, None
  <2> QED
    BY <1>1, <1>2, <1>3, <2>1, <2>2, <2>3, <2>4 DEF Preparation, Starting, Early, None
<1>9. Leaf' /\ OomChain'
  BY <1>1, <1>2, <1>3, <1>5, NotReleased
<1> QED
  BY <1>4, <1>5, <1>6, <1>7, <1>8, <1>9 DEF ResourceInv

\* The worker is spawned, or the start is abandoned.
LEMMA SpawnKeeps ==
    ASSUME ResourceInv, Spawn
    PROVE  ResourceInv'
<1>1. /\ Typed /\ row.saved = copy /\ worker = "none" /\ copy.applied = {} /\ row.status = "running"
      /\ pc = "spawn" /\ ~kids /\ ~oom /\ ~child
  BY DEF ResourceInv, Places, Workers, Receipts, Preparation, Spawn, Early, Preparing, Starting
<1>2. /\ UNCHANGED <<row, copy, kids, oom, mode, able, inLeaf, code, fixed, alloc, setup>>
      /\ \/ /\ worker' = "pending" /\ child' = TRUE /\ pc' = "identify"
            /\ UNCHANGED <<verdict, ret>>
         \/ /\ pc' = "finish" /\ verdict' = "start" /\ ret' = [ret EXCEPT !.clean = "verdict"]
            /\ UNCHANGED <<worker, child>>
  BY DEF Spawn, fixed, launch, Abandon
<1>3. faults' \in 0 .. MaxFaults
  BY <1>1, FaultTyped DEF Spawn, Typed
<1>4. Typed'
  BY <1>1, <1>2, <1>3 DEF Typed, Spawn, fixed, launch, Starting, Verdicts
<1>5. Places' /\ Workers'
  BY <1>1, <1>2
  DEF Typed, ResourceInv, Places, Workers, Ended, Alive, Holding, Unreleased, Fallback, Early, Settled, Starting
<1>6. Receipts'
  <2>1. Sound(copy)'
    BY <1>1, <1>2, CopySound DEF ResourceInv, Receipts
  <2>2. Sound(row.saved)'
    BY <1>1, <1>2, <2>1 DEF Sound, OomNoted
  <2> QED
    BY <1>1, <1>2, <2>1, <2>2 DEF ResourceInv, Receipts, Preparing, Starting, Settled
<1>7. Leftovers'
  <2>1. \A d \in alloc : copy.state[d].held \/ CleanupFailed(copy, d)
    BY <1>1 DEF ResourceInv, Leftovers, Early
  <2>2. \A d \in alloc' : copy'.state[d].held \/ CleanupFailed(copy, d)'
    BY <1>1, <1>2, <2>1, Lasting DEF CleanupFailed, Typed
  <2>3. Named(copy)'
    BY <2>2 DEF Named
  <2>4. Named(row.saved)'
    BY <1>1, <1>2, <2>3 DEF Named, CleanupFailed, Unrecorded
  <2> QED
    BY <2>2, <2>3, <2>4 DEF Leftovers
<1>8. Preparation'
  <2>1. Provided(copy)' /\ ScratchSet'
    <3>1. Provided(copy) /\ ScratchSet
      BY <1>1 DEF ResourceInv, Preparation
    <3>2. \A n \in {"tmp", "disk"} : n \in Names /\ BackendOf[n] \in Backends
      BY DEF BackendOf, Names, Backends
    <3> QED
      BY <1>1, <1>2, <3>1, <3>2, Lasting DEF Provided, Provides, ScratchSet, Typed
  <2>2. ~Fallback'
    BY <1>1, <1>2 DEF Fallback, Typed
  <2> QED
    BY <1>1, <1>2, <2>1, <2>2 DEF ResourceInv, Preparation, Starting, Early
<1>9. Leaf' /\ OomChain'
  BY <1>1, <1>2, <1>5, NotReleased
<1> QED
  BY <1>4, <1>5, <1>6, <1>7, <1>8, <1>9 DEF ResourceInv

\* The identity of the worker is recorded.
LEMMA IdentifyKeeps ==
    ASSUME ResourceInv, Identify
    PROVE  ResourceInv'
<1>1. /\ Typed /\ row.saved = copy /\ worker = "pending" /\ copy.applied = {} /\ row.status = "running"
      /\ pc = "identify" /\ ~kids /\ ~oom
  BY DEF ResourceInv, Places, Workers, Receipts, Preparation, Identify, Early, Preparing, Starting, Unreleased
<1>2. /\ UNCHANGED <<copy, worker, child, kids, oom, mode, able, inLeaf, code, fixed, alloc, setup, verdict, ret>>
      /\ pc' = "attach"
  BY DEF Identify, fixed, launch, process
<1>3. row' \in Rows /\ row'.status = row.status /\ row'.saved = row.saved
  BY <1>1, RowIs DEF Identify, Typed
<1>4. Typed'
  BY <1>1, <1>2, <1>3 DEF Typed, Identify, launch, process, Starting
<1>5. Places' /\ Workers'
  BY <1>1, <1>2, <1>3
  DEF Typed, ResourceInv, Places, Workers, Ended, Alive, Holding, Unreleased, Fallback, Early, Settled, Starting
<1>6. Receipts'
  <2>1. Sound(copy)'
    BY <1>1, <1>2, CopySound DEF ResourceInv, Receipts
  <2>2. Sound(row.saved)'
    BY <1>1, <1>2, <1>3, <2>1 DEF Sound, OomNoted
  <2> QED
    BY <1>1, <1>2, <1>3, <2>1, <2>2 DEF ResourceInv, Receipts, Preparing, Starting, Settled
<1>7. Leftovers'
  <2>1. Named(copy)'
    BY <1>1, <1>2, CopyNamed DEF ResourceInv, Leftovers, Settled
  <2>2. Named(row.saved)'
    BY <1>1, <1>2, <1>3, <2>1 DEF Named, CleanupFailed, Unrecorded
  <2> QED
    BY <1>2, <2>1, <2>2 DEF Leftovers, Early
<1>8. Preparation'
  <2>1. Provided(copy)' /\ ScratchSet'
    <3>1. Provided(copy) /\ ScratchSet
      BY <1>1 DEF ResourceInv, Preparation
    <3>2. \A n \in {"tmp", "disk"} : n \in Names /\ BackendOf[n] \in Backends
      BY DEF BackendOf, Names, Backends
    <3> QED
      BY <1>1, <1>2, <3>1, <3>2, Lasting DEF Provided, Provides, ScratchSet, Typed
  <2> QED
    BY <1>1, <1>2, <2>1 DEF ResourceInv, Preparation, Starting, Early, Fallback
<1>9. Leaf' /\ OomChain'
  BY <1>1, <1>2, <1>5, NotReleased
<1> QED
  BY <1>4, <1>5, <1>6, <1>7, <1>8, <1>9 DEF ResourceInv

\* attach_resources succeeds, refuses the run or falls back to no cgroup.
LEMMA AttachKeeps ==
    ASSUME ResourceInv, Attach
    PROVE  ResourceInv'
<1>1. /\ Typed /\ row.saved = copy /\ worker = "pending" /\ copy.applied = {} /\ row.status = "running"
      /\ pc = "attach" /\ ~kids /\ ~oom /\ Provided(copy) /\ ScratchSet
  BY DEF ResourceInv, Places, Workers, Receipts, Preparation, Attach, Early, Preparing, Starting, Unreleased
<1>2. UNCHANGED <<worker, child, kids, oom, mode, able, code, fixed, alloc, setup>>
  BY DEF Attach, fixed, launch
<1> DEFINE put == Covered("cgroup") \ {"tmp"}
<1>3. /\ put \in SUBSET Names /\ Covered("cgroup") \in SUBSET Names
      /\ \A n \in Covered("cgroup") : BackendOf[n] = "cgroup"
  BY DEF Covered, Eligible, Wanted
<1>4. /\ copy' \in Record /\ copy'.state = copy.state
      /\ row' \in Rows /\ row'.status = row.status /\ row'.saved \in {copy, copy'}
      /\ faults' \in 0 .. MaxFaults /\ inLeaf' \in BOOLEAN
      /\ \A n, s, t : <<n, s, t>> \in copy.events => <<n, s, t>> \in copy'.events
      /\ \A n, s, t : <<n, s, t>> \in copy'.events => <<n, s, t>> \in copy.events \/ (s = "attach" /\ t # "oom")
      /\ \/ /\ pc' = "verify" /\ verdict' = verdict /\ ret' = ret /\ row'.saved = copy'
            /\ copy'.applied = IF copy.state["cgroup"].held THEN put ELSE {}
            /\ copy.state["cgroup"].held => inLeaf'
         \/ /\ pc' = "cancel" /\ row' = row /\ copy'.applied = {}
            /\ ret' = [cancel |-> "cleanup", clean |-> IF RefusedBy(Covered("cgroup")) THEN "verdict" ELSE "verify"]
            /\ verdict' = IF RefusedBy(Covered("cgroup")) THEN "enforcement" ELSE None
  <2>1. copy \in Record /\ row \in Rows /\ faults \in 0 .. MaxFaults /\ inLeaf \in BOOLEAN
    BY <1>1 DEF Typed
  <2>2. CASE /\ ~copy.state["cgroup"].held /\ Save(copy) /\ pc' = "verify"
             /\ UNCHANGED <<copy, inLeaf, verdict, ret, faults>>
    BY <1>1, <2>1, <2>2, RowIs DEF Save
  <2>3. CASE /\ copy.state["cgroup"].held /\ inLeaf' = TRUE /\ copy' = Attached(copy) /\ Save(copy')
             /\ pc' = "verify" /\ UNCHANGED <<verdict, ret, faults>>
    <3>1. copy' = Applying(copy, put)
      BY <2>3 DEF Attached, Applying
    <3> HIDE DEF put
    <3>2. /\ copy' \in Record /\ copy'.state = copy.state /\ copy'.applied = copy.applied \cup put
          /\ Adds(copy', copy, put, "attach", "applied")
      BY <1>3, <2>1, <3>1, ApplyingIs
    <3>3. row' \in Rows /\ row'.status = row.status /\ row'.saved = copy'
      BY <1>1, <2>3, <3>2, RowIs DEF Save
    <3> QED
      BY <1>1, <2>1, <2>3, <3>2, <3>3 DEF Adds
  <2>4. CASE /\ copy.state["cgroup"].held /\ Fault /\ inLeaf' \in BOOLEAN
             /\ copy' = NoteMissed(copy, Covered("cgroup"), "attach")
             /\ pc' = "cancel" /\ row' = row
             /\ ret' = [cancel |-> "cleanup", clean |-> IF RefusedBy(Covered("cgroup")) THEN "verdict" ELSE "verify"]
             /\ verdict' = IF RefusedBy(Covered("cgroup")) THEN "enforcement" ELSE None
    <3>1. /\ copy' \in Record /\ copy'.state = copy.state /\ copy'.applied = copy.applied
          /\ AddsMissed(copy', copy, Covered("cgroup"), "attach")
      BY <1>3, <2>1, <2>4, NoteMissedIs DEF Stages
    <3>2. faults' \in 0 .. MaxFaults
      BY <1>1, <2>4, FaultTyped
    <3>3. \A n : Missed(n) # "oom"
      BY DEF Missed
    <3> QED
      BY <1>1, <2>1, <2>4, <3>1, <3>2, <3>3 DEF AddsMissed
  <2> QED
    BY <2>2, <2>3, <2>4 DEF Attach
<1> HIDE DEF put
<1>5. Typed'
  BY <1>1, <1>2, <1>4 DEF Typed, Attach, fixed, launch, Starting, Verdicts
<1>6. Places' /\ Workers'
  BY <1>1, <1>2, <1>4
  DEF Typed, ResourceInv, Places, Workers, Ended, Alive, Holding, Unreleased, Fallback, Early, Settled, Starting
<1>7. Receipts'
  <2>1. \A n \in copy'.applied : n \in Covered(BackendOf[n])
    BY <1>3, <1>4 DEF put
  <2>2. Sound(copy)'
    BY <1>1, <1>2, <1>4, <2>1, CopyApplied DEF ResourceInv, Receipts
  <2>3. Sound(row.saved)'
    <3>1. CASE row' = row
      BY <1>1, <1>2, <3>1, SavedSound DEF ResourceInv, Receipts
    <3>2. CASE row'.saved = copy'
      BY <1>2, <2>2, <3>2 DEF Sound, OomNoted
    <3> QED
      BY <1>4, <3>1, <3>2
  <2> QED
    BY <1>1, <1>2, <1>4, <2>2, <2>3 DEF ResourceInv, Receipts, Preparing, Starting, Settled
<1>8. Leftovers'
  <2>1. Named(copy)'
    BY <1>1, <1>2, <1>4, CopyNamed DEF ResourceInv, Leftovers, Settled
  <2>2. Named(row.saved)'
    <3>1. CASE row' = row
      BY <1>1, <1>2, <3>1, SavedNamed DEF ResourceInv, Leftovers
    <3>2. CASE row'.saved = copy'
      BY <1>2, <2>1, <3>2 DEF Named, CleanupFailed, Unrecorded
    <3> QED
      BY <1>4, <3>1, <3>2
  <2> QED
    BY <1>4, <2>1, <2>2 DEF Leftovers, Early
<1>9. Preparation'
  <2>1. Provided(copy)'
    BY <1>1, <1>2, <1>4, Lasting DEF Provided, Provides
  <2>2. ScratchSet'
    BY <1>1, <1>2, SameScratch
  <2>3. \A d \in Backends : ~copy'.state[d].finished /\ (copy'.state[d].held => d \in alloc')
    BY <1>1, <1>2, <1>4 DEF ResourceInv, Preparation, Starting
  <2>4. put' = put
    BY <1>2, Lasting DEF put, Backends
  <2>5. ~RefusedBy(Covered("cgroup")) => Optional("cgroup")'
    <3>1. \A n \in Names : Required(n) /\ BackendOf[n] = "cgroup" => n \in Covered("cgroup")
      BY <1>1 DEF Provided, Provides, Required, Covered, Eligible, Wanted
    <3> QED
      BY <1>2, <3>1, Lasting DEF RefusedBy, Optional
  <2>6. Fallback' => ~RefusedBy(Covered("cgroup")) /\ copy'.applied = {}
    BY <1>4 DEF Fallback
  <2>7. CASE pc' = "verify"
    BY <1>1, <1>2, <1>4, <2>1, <2>2, <2>3, <2>4, <2>7 DEF Preparation, Starting, Early, Fallback, put
  <2>8. CASE pc' = "cancel"
    BY <2>2, <2>3, <2>5, <2>6, <2>8 DEF Preparation, Starting, Early
  <2> QED
    BY <1>4, <2>7, <2>8
<1>10. Leaf' /\ OomChain'
  BY <1>1, <1>2, <1>4, <1>6, NotReleased
<1> QED
  BY <1>5, <1>6, <1>7, <1>8, <1>9, <1>10 DEF ResourceInv

\* The worker sets itself up and reports, or is dead.
LEMMA VerifySetupKeeps ==
    ASSUME ResourceInv, VerifySetup
    PROVE  ResourceInv'
<1>1. /\ Typed /\ row.saved = copy /\ worker \in {"pending", "gone"} /\ row.status = "running"
      /\ pc = "verify" /\ ~kids /\ ~oom
  BY DEF ResourceInv, Places, Workers, Receipts, VerifySetup, Early, Preparing, Starting, Unreleased
<1>2. /\ UNCHANGED <<row, copy, child, kids, oom, mode, able, inLeaf, fixed, alloc, setup, verdict, ret>>
      /\ pc' = "record" /\ worker' \in {"ready", "gone"}
      /\ code' \in {"ok", "mount", "namespace", "error"}
  BY <1>1 DEF VerifySetup, fixed, launch
<1>3. faults' \in 0 .. MaxFaults
  BY <1>1, FaultTyped DEF VerifySetup, Typed
<1>4. Typed'
  BY <1>1, <1>2, <1>3 DEF Typed, VerifySetup, launch, Starting
<1>5. Places' /\ Workers'
  BY <1>1, <1>2
  DEF Typed, ResourceInv, Places, Workers, Ended, Alive, Holding, Unreleased, Fallback, Early, Settled, Starting
<1>6. Receipts'
  <2>1. Sound(copy)'
    BY <1>1, <1>2, CopySound DEF ResourceInv, Receipts
  <2>2. Sound(row.saved)'
    BY <1>1, <1>2, <2>1 DEF Sound, OomNoted
  <2> QED
    BY <1>1, <1>2, <2>1, <2>2 DEF ResourceInv, Receipts, Preparing, Starting, Settled
<1>7. Leftovers'
  <2>1. Named(copy)'
    BY <1>1, <1>2, CopyNamed DEF ResourceInv, Leftovers, Settled
  <2>2. Named(row.saved)'
    BY <1>1, <1>2, <2>1 DEF Named, CleanupFailed, Unrecorded
  <2> QED
    BY <1>2, <2>1, <2>2 DEF Leftovers, Early
<1>8. Preparation'
  <2>1. ScratchSet'
    BY <1>1, <1>2, SameScratch DEF ResourceInv, Preparation
  <2>2. (Provided(copy) => Provided(copy)') /\ (Optional("cgroup") => Optional("cgroup")')
        /\ (Holding(copy) = {} => Holding(copy)' = {})
    BY <1>2, Lasting DEF Provided, Provides, Optional, Holding
  <2>3. Covered("cgroup")' = Covered("cgroup")
    BY <1>2, Lasting DEF Backends
  <2> QED
    BY <1>1, <1>2, <2>1, <2>2, <2>3 DEF ResourceInv, Preparation, Starting, Early, Fallback
<1>9. Leaf' /\ OomChain'
  BY <1>1, <1>2, <1>5, NotReleased
<1> QED
  BY <1>4, <1>5, <1>6, <1>7, <1>8, <1>9 DEF ResourceInv

\* The broker that fails between a worker's setup and its release.
LEMMA OwnerFailsKeeps ==
    ASSUME ResourceInv, pc = "record", OwnerFails,
           UNCHANGED <<fixed, launch, alloc, exit, code, scratch, kids, inLeaf, killed, oom, faults>>
    PROVE  ResourceInv'
<1>1. /\ Typed /\ row.saved = copy /\ worker \in {"ready", "gone"} /\ row.status = "running"
      /\ ~kids /\ ~oom
  BY DEF ResourceInv, Places, Workers, Receipts, Early, Preparing, Starting, Unreleased
<1>2. /\ UNCHANGED <<row, copy, kids, oom, mode, able, inLeaf, fixed, alloc, setup, verdict, ret>>
      /\ pc' = "failed" /\ worker' = "gone" /\ child' = FALSE
  BY <1>1 DEF OwnerFails, DropPending, fixed, launch
<1>3. Typed'
  <2>1. child' \in BOOLEAN /\ isolate' = isolate
    BY <1>2 DEF launch
  <2> QED
    BY <1>1, <1>2, <2>1 DEF Typed
<1>4. Places' /\ Workers'
  BY <1>1, <1>2
  DEF Typed, ResourceInv, Places, Workers, Ended, Alive, Holding, Unreleased, Fallback, Early, Settled, Starting
<1>5. Receipts'
  <2>1. Sound(copy)'
    BY <1>1, <1>2, CopySound DEF ResourceInv, Receipts
  <2>2. Sound(row.saved)'
    BY <1>1, <1>2, <2>1 DEF Sound, OomNoted
  <2> QED
    BY <1>1, <1>2, <2>1, <2>2 DEF ResourceInv, Receipts, Preparing, Starting, Settled
<1>6. Leftovers'
  <2>1. Named(row.saved)'
    BY <1>1, <1>2, SavedNamed DEF ResourceInv, Leftovers
  <2> QED
    BY <1>2, <2>1 DEF Leftovers, Early, Settled
<1>7. Preparation'
  BY <1>2 DEF Preparation, Starting, Early, Fallback
<1>8. Leaf' /\ OomChain'
  BY <1>1, <1>2, <1>4, NotReleased
<1> QED
  BY <1>3, <1>4, <1>5, <1>6, <1>7, <1>8 DEF ResourceInv

\* The receipt of a failed setup.
LEMMA SetupFailedIs ==
    ASSUME Typed
    PROVE  /\ SetupFailed \in Record /\ SetupFailed.state = copy.state
           /\ SetupFailed.applied = copy.applied \ (QuotaAffected \cup IF code = "namespace" THEN Affected ELSE {})
           /\ AddsMissed(SetupFailed, copy, Affected \cup QuotaAffected, "attach")
<1> DEFINE A == copy.applied \ (QuotaAffected \cup IF code = "namespace" THEN Affected ELSE {})
           r == [copy EXCEPT !.applied = A]
<1>1. copy \in Record /\ A \in SUBSET Names /\ Affected \cup QuotaAffected \in SUBSET Names
  BY DEF Typed, Record, Affected, QuotaAffected, Covered, Eligible, Wanted, Names
<1>2. SetupFailed = NoteMissed(r, Affected \cup QuotaAffected, "attach")
  BY DEF SetupFailed
<1> HIDE DEF A
<1>3. r \in Record /\ r.state = copy.state /\ r.applied = A /\ r.events = copy.events
  BY <1>1, AppliedIs
<1> HIDE DEF r
<1>4. /\ SetupFailed \in Record /\ SetupFailed.state = r.state /\ SetupFailed.applied = r.applied
      /\ AddsMissed(SetupFailed, r, Affected \cup QuotaAffected, "attach")
  BY <1>1, <1>2, <1>3, NoteMissedIs DEF Stages
<1> QED
  BY <1>3, <1>4 DEF AddsMissed, A

\* A start that is stopped: its resources are cancelled, finished and cleaned up.
LEMMA StopStartKeeps ==
    ASSUME ResourceInv, pc \in {"record", "release"}, NEW v \in {"enforcement", "handshake", "cancelled"}, StopStart(v),
           copy' \in Record, copy'.state = copy.state, copy'.applied \subseteq copy.applied,
           \A n, s, t : <<n, s, t>> \in copy.events => <<n, s, t>> \in copy'.events,
           \A n, s, t : <<n, s, t>> \in copy'.events => <<n, s, t>> \in copy.events \/ s = "attach",
           row' \in Rows, row'.status = row.status, row'.saved = copy',
           worker' \in {worker, "gone"},
           UNCHANGED <<child, alloc, fixed, launch, exit, code, scratch, kids, inLeaf, killed, oom>>,
           faults' \in 0 .. MaxFaults
    PROVE  ResourceInv'
<1>1. /\ Typed /\ row.saved = copy /\ worker \in {"ready", "gone"} /\ row.status = "running"
      /\ ~kids /\ ~oom
  BY DEF ResourceInv, Places, Workers, Receipts, Early, Preparing, Starting, Unreleased
<1>2. /\ UNCHANGED <<mode, able, setup>>
      /\ pc' = "cancel" /\ ret' = [cancel |-> "finish", clean |-> "verdict"] /\ verdict' = v
  BY DEF StopStart, fixed, launch
<1>3. Typed'
  BY <1>1, <1>2 DEF Typed, launch, Starting, Verdicts
<1>4. Places' /\ Workers'
  BY <1>1, <1>2
  DEF Typed, ResourceInv, Places, Workers, Ended, Alive, Holding, Unreleased, Fallback, Early, Settled, Starting
<1>5. Receipts'
  <2>1. \A n \in copy'.applied : n \in Covered(BackendOf[n])
    BY DEF ResourceInv, Receipts, Sound
  <2>2. Sound(copy)'
    BY <1>1, <1>2, <2>1, CopyApplied DEF ResourceInv, Receipts
  <2>3. Sound(row.saved)'
    BY <2>2 DEF Sound, OomNoted
  <2> QED
    BY <1>1, <1>2, <2>2, <2>3 DEF Receipts, Preparing, Starting
<1>6. Leftovers'
  <2>1. Named(copy)'
    BY <1>1, CopyNamed DEF ResourceInv, Leftovers, Settled
  <2>2. Named(row.saved)'
    BY <2>1 DEF Named, CleanupFailed, Unrecorded
  <2> QED
    BY <1>2, <2>1, <2>2 DEF Leftovers, Early
<1>7. Preparation'
  BY <1>2 DEF Preparation, Starting, Early, Fallback
<1>8. Leaf' /\ OomChain'
  BY <1>1, <1>2, <1>4, NotReleased
<1> QED
  BY <1>3, <1>4, <1>5, <1>6, <1>7, <1>8 DEF ResourceInv

\* A setup that is recorded lets the worker go: its bindings are in force.
LEMMA ToReleaseKeeps ==
    ASSUME ResourceInv, pc = "record", pc' = "release",
           copy' \in Record, copy'.state = copy.state,
           \A n \in copy'.applied : n \in Covered(BackendOf[n]),
           \A n, s, t : <<n, s, t>> \in copy.events => <<n, s, t>> \in copy'.events,
           \A n, s, t : <<n, s, t>> \in copy'.events => <<n, s, t>> \in copy.events \/ s = "attach",
           row' \in Rows, row'.status = row.status, row'.saved = copy',
           UNCHANGED <<ret, verdict, worker, child, alloc, fixed, launch, exit, code, scratch, kids, inLeaf,
                       killed, oom, faults>>,
           \A n \in Names : Required(n) => n \in copy'.applied,
           \A n \in copy'.applied : copy.state[BackendOf[n]].held,
           "tmp" \in copy'.applied => code = "ok" /\ setup = "tmp",
           code = "ok" /\ setup # None => copy.state[BackendOf[setup]].held
    PROVE  ResourceInv'
<1>1. /\ Typed /\ row.saved = copy /\ worker \in {"ready", "gone"} /\ row.status = "running"
      /\ ~kids /\ ~oom
  BY DEF ResourceInv, Places, Workers, Receipts, Early, Preparing, Starting, Unreleased
<1>2. UNCHANGED <<mode, able, setup>>
  BY DEF fixed, launch
<1>3. Typed'
  BY <1>1, <1>2 DEF Typed, launch, Starting, Verdicts
<1>4. Places' /\ Workers'
  BY <1>1, <1>2
  DEF Typed, ResourceInv, Places, Workers, Ended, Alive, Holding, Unreleased, Fallback, Early, Settled, Starting
<1>5. Receipts'
  <2>1. Sound(copy)'
    BY <1>1, <1>2, CopyApplied DEF ResourceInv, Receipts
  <2>2. Sound(row.saved)'
    BY <2>1 DEF Sound, OomNoted
  <2> QED
    BY <1>1, <1>2, <2>1, <2>2 DEF Receipts, Preparing, Starting
<1>6. Leftovers'
  <2>1. Named(copy)'
    BY <1>1, CopyNamed DEF ResourceInv, Leftovers, Settled
  <2>2. Named(row.saved)'
    BY <2>1 DEF Named, CleanupFailed, Unrecorded
  <2> QED
    BY <2>1, <2>2 DEF Leftovers, Early
<1>7. Preparation'
  <2>1. \A d \in Backends : ~copy'.state[d].finished /\ (copy'.state[d].held => d \in alloc')
    BY DEF ResourceInv, Preparation, Starting
  <2>2. copy'.state["cgroup"].held => inLeaf'
    BY DEF ResourceInv, Preparation
  <2>3. \A n \in Names : BackendOf[n] \in Backends
    BY DEF BackendOf, Backends
  <2>4. setup = None \/ setup \in Names
    BY <1>1 DEF Typed, Names
  <2>5. code' = "ok" /\ setup' # None => BackendOf[setup'] \in alloc'
    BY <1>2, <2>1, <2>3, <2>4
  <2>6. \A n \in Names : Required(n)' = Required(n)
    BY Lasting
  <2> QED
    BY <1>2, <2>1, <2>2, <2>5, <2>6 DEF Preparation, Starting, Early, Fallback
<1>8. Leaf' /\ OomChain'
  BY <1>1, <1>2, <1>4, NotReleased
<1> QED
  BY <1>3, <1>4, <1>5, <1>6, <1>7, <1>8 DEF ResourceInv

\* record_worker_setup_failure refuses the run or takes back what was not set up.
LEMMA RecordSetupFailureKeeps ==
    ASSUME ResourceInv, RecordSetupFailure
    PROVE  ResourceInv'
<1>1. /\ Typed /\ row.saved = copy /\ pc = "record" /\ code \in {"namespace", "mount"}
      /\ UNCHANGED <<fixed, launch, alloc, exit, code, scratch, kids, inLeaf, killed, oom, faults>>
  BY DEF ResourceInv, Receipts, RecordSetupFailure, Preparing, Starting
<1>2. CASE OwnerFails
  BY <1>1, <1>2, OwnerFailsKeeps
<1>3. CASE /\ Affected \cup QuotaAffected # {} /\ copy' = SetupFailed /\ Save(copy') /\ UNCHANGED <<worker, child>>
           /\ IF SetupRefused THEN StopStart("enforcement") ELSE pc' = "release" /\ UNCHANGED <<ret, verdict>>
  <2>1. /\ copy' \in Record /\ copy'.state = copy.state
        /\ copy'.applied = copy.applied \ (QuotaAffected \cup IF code = "namespace" THEN Affected ELSE {})
        /\ AddsMissed(copy', copy, Affected \cup QuotaAffected, "attach")
    BY <1>1, <1>3, SetupFailedIs
  <2>2. /\ \A n, s, t : <<n, s, t>> \in copy.events => <<n, s, t>> \in copy'.events
        /\ \A n, s, t : <<n, s, t>> \in copy'.events => <<n, s, t>> \in copy.events \/ s = "attach"
    BY <2>1 DEF AddsMissed
  <2>3. row' \in Rows /\ row'.status = row.status /\ row'.saved = copy'
    BY <1>1, <1>3, <2>1, RowIs DEF Save
  <2>4. faults' \in 0 .. MaxFaults
    BY <1>1 DEF Typed
  <2>5. CASE SetupRefused
    <3>1. StopStart("enforcement") /\ copy'.applied \subseteq copy.applied
      BY <1>3, <2>1, <2>5
    <3> QED
      BY <1>1, <1>3, <2>1, <2>2, <2>3, <2>4, <3>1, StopStartKeeps
  <2>6. CASE ~SetupRefused
    <3>1. pc' = "release" /\ UNCHANGED <<ret, verdict>>
      BY <1>3, <2>6
    <3>2. /\ QuotaAffected = {} /\ Affected # {} /\ code = "mount" /\ ~RefusedBy(Affected)
      BY <1>1, <1>3, <2>6 DEF SetupRefused
    <3>3. /\ copy.state["cgroup"].held /\ ~copy.state["quota"].held
          /\ Affected = {"tmp"} /\ "tmp" \in Covered("cgroup")
      BY <3>2 DEF Affected, QuotaAffected
    <3>4. ~Required("tmp")
      BY <3>2, <3>3 DEF RefusedBy
    <3>5. copy'.applied = Covered("cgroup") \ {"tmp"}
      <4>1. copy.applied = Covered("cgroup") \ {"tmp"}
        BY <1>1, <3>3 DEF ResourceInv, Preparation
      <4>2. copy'.applied = copy.applied
        BY <2>1, <3>2
      <4> QED
        BY <4>1, <4>2
    <3>6. \A n \in Covered("cgroup") : BackendOf[n] = "cgroup"
      BY DEF Covered, Eligible, Wanted
    <3>7. \A n \in Names : Required(n) => n \in copy'.applied
      <4>1. Provided(copy)
        BY <1>1, <3>3 DEF ResourceInv, Preparation, Holding, Backends
      <4>2. SUFFICES ASSUME NEW n \in Names, Required(n) PROVE n \in copy'.applied
        OBVIOUS
      <4>3. n \in able /\ copy.state[BackendOf[n]].held
        BY <4>1, <4>2 DEF Provided, Provides
      <4>4. n # "disk" /\ n # "tmp"
        BY <3>3, <3>4, <4>2, <4>3 DEF BackendOf
      <4>5. n \in Covered("cgroup")
        BY <4>2, <4>3, <4>4 DEF Covered, Eligible, Wanted, BackendOf, Required
      <4> QED
        BY <3>5, <4>4, <4>5
    <3>8. /\ \A n \in copy'.applied : n \in Covered(BackendOf[n])
          /\ \A n \in copy'.applied : copy.state[BackendOf[n]].held
          /\ "tmp" \notin copy'.applied
      BY <3>3, <3>5, <3>6
    <3> QED
      BY <1>1, <1>3, <2>1, <2>2, <2>3, <3>1, <3>2, <3>7, <3>8, ToReleaseKeeps
  <2> QED
    BY <2>5, <2>6
<1> QED
  BY <1>2, <1>3 DEF RecordSetupFailure

\* Any other failure of the setup refuses the run.
LEMMA RecordSetupErrorKeeps ==
    ASSUME ResourceInv, RecordSetupError
    PROVE  ResourceInv'
<1>1. /\ Typed /\ row.saved = copy /\ pc = "record"
      /\ UNCHANGED <<fixed, launch, alloc, process, faults>>
  BY DEF ResourceInv, Receipts, RecordSetupError, Preparing, Starting
<1>1a. /\ UNCHANGED <<worker, child, exit, code, scratch, kids, inLeaf, killed, oom>>
       /\ faults' \in 0 .. MaxFaults
  BY <1>1 DEF process, Typed
<1>2. CASE copy' = SetupFailed /\ Save(copy') /\ StopStart("enforcement")
  <2>1. /\ copy' \in Record /\ copy'.state = copy.state /\ copy'.applied \subseteq copy.applied
        /\ AddsMissed(copy', copy, Affected \cup QuotaAffected, "attach")
    BY <1>1, <1>2, SetupFailedIs
  <2>2. /\ \A n, s, t : <<n, s, t>> \in copy.events => <<n, s, t>> \in copy'.events
        /\ \A n, s, t : <<n, s, t>> \in copy'.events => <<n, s, t>> \in copy.events \/ s = "attach"
    BY <2>1 DEF AddsMissed
  <2>3. row' \in Rows /\ row'.status = row.status /\ row'.saved = copy'
    BY <1>1, <1>2, <2>1, RowIs DEF Save
  <2> QED
    BY <1>1, <1>1a, <1>2, <2>1, <2>2, <2>3, StopStartKeeps
<1>3. CASE StopStart("handshake") /\ UNCHANGED <<copy, row>>
  <2>1. copy' \in Record /\ row' \in Rows
    BY <1>1, <1>3 DEF Typed
  <2> QED
    BY <1>1, <1>1a, <1>3, <2>1, StopStartKeeps
<1> QED
  BY <1>2, <1>3 DEF RecordSetupError

\* record_worker_setup applies the scratch.
LEMMA RecordSetupKeeps ==
    ASSUME ResourceInv, RecordSetup
    PROVE  ResourceInv'
<1> DEFINE got == IF setup = None THEN {} ELSE {setup}
<1>1. /\ Typed /\ row.saved = copy /\ pc = "record" /\ code = "ok"
      /\ UNCHANGED <<fixed, launch, alloc, exit, code, scratch, kids, inLeaf, killed, oom, faults>>
  BY DEF ResourceInv, Receipts, RecordSetup, Preparing, Starting
<1>2. CASE OwnerFails
  BY <1>1, <1>2, OwnerFailsKeeps
<1>3. CASE /\ \A n \in got : copy.state[BackendOf[n]].held
           /\ copy' = [Note(copy, got, "attach", "applied") EXCEPT !.applied = @ \cup got]
           /\ Save(copy') /\ pc' = "release" /\ UNCHANGED <<ret, verdict, worker, child>>
  <2>1. got \in SUBSET Names
    BY <1>1 DEF Typed, Names
  <2>2. copy' = Applying(copy, got)
    BY <1>3 DEF Applying
  <2>3. \A n : n \in got <=> n = setup /\ setup # None
    OBVIOUS
  <2>4. \A n \in got : copy.state[BackendOf[n]].held
    BY <1>3
  <2> HIDE DEF got
  <2>5. /\ copy' \in Record /\ copy'.state = copy.state /\ copy'.applied = copy.applied \cup got
        /\ Adds(copy', copy, got, "attach", "applied")
    BY <1>1, <2>1, <2>2, ApplyingIs DEF Typed
  <2>6. row' \in Rows /\ row'.status = row.status /\ row'.saved = copy'
    BY <1>1, <1>3, <2>5, RowIs DEF Save
  <2>7. /\ \A n, s, t : <<n, s, t>> \in copy.events => <<n, s, t>> \in copy'.events
        /\ \A n, s, t : <<n, s, t>> \in copy'.events => <<n, s, t>> \in copy.events \/ s = "attach"
    BY <2>5 DEF Adds
  <2>8. /\ ScratchSet
        /\ copy.applied = IF copy.state["cgroup"].held THEN Covered("cgroup") \ {"tmp"} ELSE {}
        /\ Provided(copy) \/ (Holding(copy) = {} /\ Optional("cgroup"))
        /\ \A n \in copy.applied : n \in Covered(BackendOf[n])
    BY <1>1 DEF ResourceInv, Preparation, Receipts, Sound
  <2>9. \A n \in Covered("cgroup") : BackendOf[n] = "cgroup"
    BY DEF Covered, Eligible, Wanted
  <2>10. /\ \A n \in copy'.applied : n \in Covered(BackendOf[n])
         /\ \A n \in copy'.applied : copy.state[BackendOf[n]].held
         /\ "tmp" \in copy'.applied => setup = "tmp"
         /\ setup # None => copy.state[BackendOf[setup]].held
    BY <2>3, <2>4, <2>5, <2>8, <2>9 DEF ScratchSet
  <2>11. \A n \in Names : Required(n) => n \in copy'.applied
    <3>1. SUFFICES ASSUME NEW n \in Names, Required(n) PROVE n \in copy'.applied
      OBVIOUS
    <3>2. CASE n \in {"tmp", "disk"}
      BY <2>3, <2>5, <2>8, <3>1, <3>2 DEF ScratchSet, None
    <3>3. CASE n = "memory"
      <4>1. BackendOf[n] = "cgroup"
        BY <3>3 DEF BackendOf, Names
      <4>2. n \in able /\ copy.state["cgroup"].held
        BY <2>8, <3>1, <4>1 DEF Provided, Provides, Optional
      <4>3. n \in Covered("cgroup")
        BY <3>1, <4>1, <4>2 DEF Covered, Eligible, Wanted, Required
      <4> QED
        BY <2>5, <2>8, <3>3, <4>2, <4>3
    <3> QED
      BY <3>2, <3>3 DEF Names
  <2> QED
    BY <1>1, <1>3, <2>5, <2>6, <2>7, <2>10, <2>11, ToReleaseKeeps
<1> QED
  BY <1>2, <1>3 DEF RecordSetup

\* The worker is released, or the start is stopped.
LEMMA ReleaseKeeps ==
    ASSUME ResourceInv, Release
    PROVE  ResourceInv'
<1>1. /\ Typed /\ row.saved = copy /\ pc = "release" /\ worker \in {"ready", "gone"} /\ row.status = "running"
      /\ ~kids /\ ~oom
  BY DEF ResourceInv, Receipts, Release, Preparing, Starting, Workers, Places, Unreleased
<1>2. /\ UNCHANGED <<fixed, row, copy, launch, alloc, child, exit, code, kids, inLeaf, killed, oom, mode, able, setup>>
      /\ copy' \in Record /\ row' \in Rows
  BY <1>1 DEF Release, fixed, launch, Typed
<1>3. faults' \in 0 .. MaxFaults
  BY <1>1, FaultTyped DEF Release, Typed
<1>4. CASE \E v \in {"handshake", "cancelled"} : StopStart(v) /\ worker' \in {worker, "gone"} /\ scratch' = scratch
  BY <1>1, <1>2, <1>3, <1>4, StopStartKeeps
<1>5. CASE /\ worker' = "running" /\ scratch' = (IF code = "ok" THEN setup ELSE None)
           /\ pc' = "idle" /\ UNCHANGED <<ret, verdict>>
  <2>1. Typed'
    BY <1>1, <1>2, <1>3, <1>5 DEF Typed, launch
  <2>2. Places' /\ Workers'
    BY <1>1, <1>2, <1>5
    DEF Typed, ResourceInv, Places, Workers, Ended, Alive, Holding, Unreleased, Fallback, Early, Settled, Starting
  <2>3. Receipts'
    <3>1. Sound(copy)'
      BY <1>1, <1>2, CopySound DEF ResourceInv, Receipts
    <3>2. Sound(row.saved)'
      BY <1>1, <1>2, <3>1 DEF Sound, OomNoted
    <3> QED
      BY <1>5, <3>1, <3>2 DEF Receipts, Preparing, Starting, Settled
  <2>4. Leftovers'
    <3>1. Named(row.saved)'
      BY <1>1, <1>2, SavedNamed DEF ResourceInv, Leftovers
    <3> QED
      BY <1>5, <3>1 DEF Leftovers, Early, Settled
  <2>5. Preparation'
    BY <1>5 DEF Preparation, Starting, Early, Fallback
  <2>6. /\ copy.state["cgroup"].held => inLeaf
        /\ ~copy.state["cgroup"].finished
        /\ "memory" \in copy.applied => copy.state["cgroup"].held
    BY <1>1 DEF ResourceInv, Preparation, Starting, BackendOf, Names, Backends
  <2>7. Leaf'
    BY <1>1, <1>2, <1>5, <2>6 DEF Leaf, Reached, Settled, Ended
  <2>8. OomChain'
    BY <1>1, <1>2, <1>5, <2>6 DEF OomChain, Readable
  <2> QED
    BY <2>1, <2>2, <2>3, <2>4, <2>5, <2>7, <2>8 DEF ResourceInv
<1> QED
  BY <1>4, <1>5 DEF Release

------------------------------------------------------------------------------
(* From release to verdict *)

\* What the saved receipt reaches stays reached while nothing is started.
LEMMA SavedReached ==
    ASSUME Reached(row.saved), UNCHANGED fixed, row'.saved = row.saved, inLeaf => inLeaf',
           worker' = "running" => worker = "running", kids' => kids \/ worker = "running"
    PROVE  Reached(row.saved)'
<1>1. StopFailed(row.saved) => StopFailed(row.saved)'
  BY Lasting DEF StopFailed, Backends
<1> QED
  BY <1>1 DEF Reached

\* The same of the copy, while it forgets no event.
LEMMA CopyReached ==
    ASSUME Reached(copy), UNCHANGED fixed, inLeaf => inLeaf',
           worker' = "running" => worker = "running", kids' => kids \/ worker = "running",
           copy'.state["cgroup"].held => copy.state["cgroup"].held,
           copy'.state["cgroup"].finished => copy.state["cgroup"].finished,
           \A n, s, t : <<n, s, t>> \in copy.events => <<n, s, t>> \in copy'.events
    PROVE  Reached(copy)'
<1>1. StopFailed(copy) => StopFailed(copy)'
  BY Lasting DEF StopFailed, Backends
<1> QED
  BY <1>1 DEF Reached

\* What the processes of the run and its client do leaves the broker alone.
LEMMA AroundKeeps ==
    ASSUME ResourceInv, UNCHANGED <<fixed, copy, broker, launch, alloc, child, code, scratch, inLeaf, killed, faults>>,
           row' \in Rows, row'.status = row.status, row'.saved = row.saved,
           worker' \in {worker, "gone"}, worker' # worker => worker = "running" \/ (inLeaf /\ Alive) \/ kids,
           exit' \in {None, "ok", "red"}, kids' \in BOOLEAN, oom' \in BOOLEAN,
           kids' => worker' = "gone" /\ (kids \/ worker = "running"),
           oom => oom', oom' => oom \/ worker = "running"
    PROVE  ResourceInv'
<1>1. Typed
  BY DEF ResourceInv
<1>2. UNCHANGED <<mode, able, pc, ret, verdict, setup, isolate>>
  BY DEF fixed, broker, launch
<1>3. Typed'
  BY <1>1, <1>2 DEF Typed
<1>4. /\ worker = "none" => worker' = "none" /\ ~kids' /\ ~oom'
      /\ worker' = "running" => worker = "running"
      /\ kids => worker = "gone"
  BY DEF ResourceInv, Workers, Alive
<1>5. Places'
  <2>1. Alive' => Alive
    BY DEF Alive
  <2>2. Holding(row.saved)' = Holding(row.saved)
    BY DEF Holding
  <2>3. row.status = "queued" => worker = "none"
    BY DEF ResourceInv, Places
  <2> QED
    BY <1>2, <1>4, <2>1, <2>2, <2>3 DEF ResourceInv, Places, Ended
<1>6. Workers'
  <2>1. Unreleased' = Unreleased /\ Fallback' = Fallback
    BY <1>2 DEF Unreleased, Fallback
  <2>2. Unreleased => worker # "running"
    BY DEF ResourceInv, Workers, Unreleased, Fallback, Starting
  <2>3. /\ pc \in Early => worker = "none"
        /\ pc \in {"identify", "attach"} => worker = "pending" /\ ~inLeaf
        /\ pc = "verify" \/ Fallback => worker \in {"pending", "gone"}
        /\ pc \in {"record", "release"} => worker \in {"ready", "gone"}
        /\ pc \in Settled \cup {"finish"} => worker \notin {"pending", "ready"}
        /\ pc = "cancel" /\ ret.cancel = "idle" => worker \in {"running", "gone"}
        /\ Unreleased => ~kids /\ ~oom
        /\ worker \in {"pending", "ready"} => ~kids /\ ~oom
        /\ worker = "running" => pc \in {"idle", "cancel", "down"} /\ row.status = "running"
                                   /\ (pc = "cancel" => ret.cancel = "idle")
        /\ worker = "none" => ~child /\ ~kids /\ ~oom /\ ~inLeaf
        /\ pc \in {"down", "failed"} => ~child
    BY DEF ResourceInv, Workers
  <2> QED
    BY <1>2, <1>4, <2>1, <2>2, <2>3 DEF Workers, Settled
<1>7. Receipts'
  <2>1. Sound(copy)'
    BY <1>1, CopySound DEF ResourceInv, Receipts
  <2>2. Sound(row.saved)'
    BY <1>1, SavedSound DEF ResourceInv, Receipts
  <2> QED
    BY <1>2, <2>1, <2>2 DEF ResourceInv, Receipts
<1>8. Leftovers'
  <2>1. pc \notin Settled => Named(copy)'
    BY <1>4, CopyNamed DEF ResourceInv, Leftovers
  <2>2. Named(row.saved)'
    BY <1>4, SavedNamed DEF ResourceInv, Leftovers
  <2>3. pc \in Early => \A d \in alloc' : copy'.state[d].held \/ CleanupFailed(copy, d)'
    BY <1>1, Lasting DEF ResourceInv, Leftovers, CleanupFailed, Typed
  <2> QED
    BY <1>2, <2>1, <2>2, <2>3 DEF Leftovers
<1>9. Preparation'
  BY <1>2 DEF ResourceInv, Preparation, Fallback, Refused, Provided, Provides, Optional, ScratchSet, Required, Covered,
              Eligible, Wanted, Holding
<1>10. Leaf'
  <2>1. Reached(row.saved)'
    BY <1>4, SavedReached DEF ResourceInv, Leaf
  <2>2. pc \notin Settled => Reached(copy)'
    BY <1>4, CopyReached DEF ResourceInv, Leaf
  <2>3. StopFailed(copy)' = StopFailed(copy) /\ StopFailed(row.saved)' = StopFailed(row.saved)
    BY Lasting DEF StopFailed, Backends
  <2>4. pc \in {"finish", "cleanup", "verdict"} \/ Ended => worker # "running"
    BY DEF ResourceInv, Workers, Places, Alive
  <2>5. Ended' = Ended
    BY DEF Ended
  <2> QED
    BY <1>2, <2>1, <2>2, <2>3, <2>4, <2>5 DEF ResourceInv, Leaf
<1>11. OomChain'
  <2>1. pc \in {"finish", "cleanup", "verdict"} => worker # "running"
    BY DEF ResourceInv, Workers
  <2> QED
    BY <1>2, <2>1 DEF ResourceInv, OomChain, Readable, OomKnown, OomNoted
<1> QED
  BY <1>3, <1>5, <1>6, <1>7, <1>8, <1>9, <1>10, <1>11 DEF ResourceInv

\* The client, the command and its descendants, and the signals to their group.
LEMMA RunKeeps ==
    ASSUME ResourceInv, Cancel \/ WorkerEnds \/ MemoryExhausted \/ KidsEnd \/ Reaped \/ SignalGroup
    PROVE  ResourceInv'
<1>1. /\ Typed /\ row \in Rows /\ kids \in BOOLEAN /\ oom \in BOOLEAN /\ exit \in {None, "ok", "red"}
      /\ kids => worker = "gone"
  BY DEF ResourceInv, Typed, Workers
<1>2. CASE Cancel
  <2>1. row' \in Rows /\ row'.status = row.status /\ row'.saved = row.saved
    BY <1>1, <1>2, RowIs, BlankTyped DEF Cancel, Verdicts
  <2> QED
    BY <1>1, <1>2, <2>1, AroundKeeps DEF Cancel, process
<1>3. CASE WorkerEnds
  BY <1>1, <1>3, AroundKeeps DEF WorkerEnds, process
<1>4. CASE MemoryExhausted
  BY <1>1, <1>4, AroundKeeps DEF MemoryExhausted, process
<1>5. CASE KidsEnd
  BY <1>1, <1>5, AroundKeeps DEF KidsEnd, process
<1>6. CASE Reaped
  BY <1>1, <1>6, AroundKeeps DEF Reaped, Populated, process
<1>7. CASE SignalGroup
  BY <1>1, <1>7, AroundKeeps DEF SignalGroup, process
<1> QED
  BY <1>2, <1>3, <1>4, <1>5, <1>6, <1>7

\* Nothing happens.
LEMMA StutterKeeps ==
    ASSUME ResourceInv, UNCHANGED vars
    PROVE  ResourceInv'
<1>1. /\ Typed /\ row \in Rows /\ kids \in BOOLEAN /\ oom \in BOOLEAN /\ exit \in {None, "ok", "red"}
      /\ kids => worker = "gone"
  BY DEF ResourceInv, Typed, Workers
<1>2. UNCHANGED <<fixed, row, copy, broker, launch, alloc, worker, child, exit, code, scratch, kids, inLeaf, killed,
                  oom, faults>>
  BY DEF vars, fixed, process
<1> QED
  BY <1>1, <1>2, AroundKeeps

\* The usage of a running command is read and saved.
LEMMA CaptureUsageKeeps ==
    ASSUME ResourceInv, CaptureUsage
    PROVE  ResourceInv'
<1>1. /\ Typed /\ pc = "idle" /\ row.status = "running" /\ row.saved \in Record
      /\ UNCHANGED <<fixed, copy, broker, launch, alloc, process, faults>>
      /\ Measured(row.saved) # row.saved /\ Save(Measured(row.saved))
  BY DEF ResourceInv, CaptureUsage, Observing, Typed, Rows
<1>2. /\ UNCHANGED <<mode, able, pc, ret, verdict, setup, isolate>>
      /\ UNCHANGED <<worker, child, exit, code, scratch, kids, inLeaf, killed, oom>>
  BY <1>1 DEF fixed, broker, launch, process
<1>3. oom /\ "memory" \in row.saved.applied
  BY <1>1 DEF Measured
<1>4. row' = [row EXCEPT !.saved = Note(row.saved, {"memory"}, "usage", "oom")]
  BY <1>1, <1>3 DEF Measured, Save
<1>5. /\ Note(row.saved, {"memory"}, "usage", "oom") \in Record
      /\ Note(row.saved, {"memory"}, "usage", "oom").state = row.saved.state
      /\ Note(row.saved, {"memory"}, "usage", "oom").applied = row.saved.applied
      /\ Adds(Note(row.saved, {"memory"}, "usage", "oom"), row.saved, {"memory"}, "usage", "oom")
  BY <1>1, NoteIs DEF Stages, Statuses, Names
<1>6. /\ row' \in Rows /\ row'.status = row.status /\ row'.saved \in Record
      /\ row'.saved.state = row.saved.state /\ row'.saved.applied = row.saved.applied
      /\ Adds(row'.saved, row.saved, {"memory"}, "usage", "oom")
  BY <1>1, <1>4, <1>5, RowIs
<1>7. /\ \A n, s, t : <<n, s, t>> \in row.saved.events => <<n, s, t>> \in row'.saved.events
      /\ \A n, s, t : <<n, s, t>> \in row'.saved.events => <<n, s, t>> \in row.saved.events \/ s = "usage"
  BY <1>6 DEF Adds
<1>8. Typed'
  BY <1>1, <1>2, <1>6 DEF Typed
<1>9. Places' /\ Workers'
  BY <1>1, <1>2, <1>6 DEF ResourceInv, Places, Workers, Ended, Alive, Unreleased, Fallback
<1>10. Receipts'
  <2>1. Sound(copy)'
    BY <1>1, <1>2, CopySound DEF ResourceInv, Receipts
  <2>2. \A n \in row.saved.applied : n \in Names /\ BackendOf[n] \in Backends
    BY <1>1 DEF Record, BackendOf, Backends
  <2>3. Sound(row.saved)'
    BY <1>1, <1>2, <1>3, <1>6, <2>2, Lasting DEF ResourceInv, Receipts, Sound, OomNoted
  <2> QED
    BY <1>1, <1>2, <2>1, <2>3 DEF Receipts, Preparing, Starting, Settled
<1>11. Leftovers'
  <2>1. \A b \in alloc : /\ CleanupFailed(row.saved, b) => CleanupFailed(row.saved, b)'
                         /\ Unrecorded(row.saved, b) => Unrecorded(row.saved, b)'
    BY <1>1, <1>7, Lasting DEF CleanupFailed, Unrecorded, Typed
  <2>2. Named(row.saved)'
    BY <1>1, <1>2, <1>6, <2>1 DEF ResourceInv, Leftovers, Named
  <2> QED
    BY <1>1, <1>2, <2>2 DEF Leftovers, Early, Settled
<1>12. Preparation'
  BY <1>1, <1>2 DEF Preparation, Starting, Early, Fallback
<1>13. Leaf'
  <2>1. StopFailed(row.saved) => StopFailed(row.saved)'
    BY <1>1, <1>7, Lasting DEF StopFailed, Backends
  <2>2. Reached(row.saved)'
    BY <1>2, <1>6, <2>1 DEF ResourceInv, Leaf, Reached
  <2> QED
    BY <1>1, <1>2, <1>6, <2>2 DEF Leaf, Ended, Settled
<1>14. OomChain'
  BY <1>1, <1>2, <1>6 DEF ResourceInv, OomChain, Readable
<1> QED
  BY <1>8, <1>9, <1>10, <1>11, <1>12, <1>13, <1>14 DEF ResourceInv

\* The broker takes the saved receipt to work on it.
LEMMA ObserveKeeps ==
    ASSUME ResourceInv, ObserveCancel \/ ObserveEnd
    PROVE  ResourceInv'
<1>1. /\ Typed /\ pc = "idle" /\ row.status = "running" /\ row.saved \in Record /\ copy' = row.saved
      /\ UNCHANGED <<fixed, row, verdict, launch, alloc, process, faults>>
      /\ UNCHANGED <<worker, child, exit, code, scratch, kids, inLeaf, killed, oom>>
      /\ worker \notin {"pending", "ready"}
  BY DEF ResourceInv, ObserveCancel, ObserveEnd, Observing, Typed, Rows, process, Workers, Settled
<1>2. \/ worker = "running" /\ pc' = "cancel" /\ ret' = [ret EXCEPT !.cancel = "idle"]
      \/ /\ worker # "running" /\ ret' = [ret EXCEPT !.clean = "verdict"]
         /\ kids => row.saved.state["cgroup"].held
         /\ pc' = IF Holding(row.saved) = {} THEN "verdict" ELSE "finish"
  BY DEF ObserveCancel, ObserveEnd, Alive, Holding
<1>3. /\ ret' \in [cancel : {None, "idle", "finish", "cleanup"}, clean : {None, "verdict", "verify", "spawn"}]
      /\ worker = "running" => ret'.cancel = "idle"
      /\ worker # "running" => ret'.clean = "verdict"
  BY <1>1, <1>2 DEF Typed
<1>4. /\ worker = "running" => pc' = "cancel"
      /\ worker # "running" => pc' \in {"verdict", "finish"}
      /\ pc' = "verdict" => Holding(row.saved) = {} /\ ~kids
  <2>1. CASE worker = "running"
    BY <1>2, <2>1
  <2>2. CASE worker # "running"
    BY <1>2, <2>2 DEF Holding, Backends
  <2> QED
    BY <2>1, <2>2
<1>5. Typed'
  BY <1>1, <1>3, <1>4 DEF Typed, fixed, launch
<1>6. Places'
  BY <1>1, <1>3, <1>4 DEF ResourceInv, Places, Ended, Holding
<1>7. Workers'
  BY <1>1, <1>3, <1>4 DEF Typed, ResourceInv, Workers, Unreleased, Fallback, Early, Settled, Starting
<1>8. Receipts'
  <2>1. Sound(row.saved)'
    BY <1>1, SavedSound DEF ResourceInv, Receipts
  <2>2. Sound(copy)'
    BY <1>1, <2>1 DEF Sound, OomNoted
  <2> QED
    BY <1>1, <1>4, <2>1, <2>2 DEF Receipts, Preparing, Starting
<1>9. Leftovers'
  <2>1. Named(row.saved)'
    BY <1>1, SavedNamed DEF ResourceInv, Leftovers
  <2>2. Named(copy)'
    BY <1>1, <2>1 DEF Named, CleanupFailed, Unrecorded
  <2> QED
    BY <1>4, <2>1, <2>2 DEF Leftovers, Early
<1>10. Preparation'
  BY <1>3, <1>4 DEF Preparation, Starting, Early, Fallback
<1>11. Leaf'
  <2>1. Reached(row.saved)'
    BY <1>1, SavedReached DEF ResourceInv, Leaf
  <2>2. Reached(copy)'
    BY <1>1, <2>1 DEF Reached, StopFailed
  <2> QED
    BY <1>1, <1>2, <1>4, <2>1, <2>2 DEF Leaf, Ended
<1>12. OomChain'
  <2>1. child /\ "memory" \in row.saved.applied => Readable(row.saved)
    BY <1>1 DEF ResourceInv, OomChain
  <2>2. pc' = "verdict" => ~row.saved.state["cgroup"].held
    BY <1>4 DEF Holding, Backends
  <2> QED
    BY <1>1, <1>3, <1>4, <2>1, <2>2 DEF OomChain, Readable
<1> QED
  BY <1>5, <1>6, <1>7, <1>8, <1>9, <1>10, <1>11, <1>12 DEF ResourceInv

\* Killing the leaf ends what is in it, and starts nothing.
LEMMA EmptyIs ==
    ASSUME Typed, Empty \/ UNCHANGED <<worker, kids, exit>>
    PROVE  /\ worker' \in {worker, "gone"} /\ (worker' # worker => inLeaf /\ Alive)
           /\ kids' \in BOOLEAN /\ (kids' => kids)
           /\ exit' \in {None, "ok", "red"}
           /\ Empty => (kids' => ~inLeaf) /\ (worker' = "running" => ~inLeaf)
<1>1. kids \in BOOLEAN /\ exit \in {None, "ok", "red"}
  BY DEF Typed
<1>2. CASE Empty
  <2>1. kids' = (kids /\ ~inLeaf)
    BY <1>2 DEF Empty
  <2>2. kids' \in BOOLEAN /\ (kids' => kids) /\ (kids' => ~inLeaf)
    <3>1. CASE kids /\ ~inLeaf
      BY <2>1, <3>1
    <3>2. CASE ~(kids /\ ~inLeaf)
      BY <2>1, <3>2
    <3> QED
      BY <3>1, <3>2
  <2>3. /\ worker' \in {worker, "gone"} /\ (worker' # worker => inLeaf /\ Alive)
        /\ exit' \in {None, "ok", "red"} /\ (worker' = "running" => ~inLeaf)
    BY <1>1, <1>2 DEF Empty, Alive
  <2> QED
    BY <2>2, <2>3
<1>3. CASE ~Empty
  BY <1>1, <1>3
<1> QED
  BY <1>2, <1>3

\* One backend is told to cancel the run.
LEMMA CancelBackendKeeps ==
    ASSUME ResourceInv, CancelBackend
    PROVE  ResourceInv'
<1>1. /\ Typed /\ pc = "cancel" /\ row.status = "running" /\ copy \in Record
      /\ UNCHANGED <<fixed, row, broker, launch, alloc, child, code, scratch, inLeaf, oom>>
  BY DEF ResourceInv, CancelBackend, Typed, Places
<1>2. UNCHANGED <<mode, able, pc, ret, verdict, setup, isolate>>
  BY <1>1 DEF fixed, broker, launch
<1> DEFINE b == FirstOf({d \in Holding(copy) : ~copy.state[d].cancelled})
           h == CancelFlag(copy.state[b])
<1>3. b \in Backends
  BY DEF FirstOf, Backends
<1>4. \A st : \A c : Note([copy EXCEPT !.state[b].cancelled = TRUE], Covered(b), "cancel", st) = c <=>
                 Note(With(copy, b, h), Covered(b), "cancel", st) = c
  BY <1>1, <1>3, WithFlagIs
<1>5. /\ \E st \in {"recorded", "failed"} : copy' = Note(With(copy, b, h), Covered(b), "cancel", st)
      /\ \/ Empty /\ UNCHANGED <<killed, faults>>
         \/ UNCHANGED <<worker, kids, exit, killed, faults>>
         \/ Fault /\ killed' \in {killed, TRUE} /\ UNCHANGED <<worker, kids, exit>>
  <2> HIDE DEF b
  <2>1. CASE KillLeaf(b, [copy EXCEPT !.state[b].cancelled = TRUE], "cancel")
    BY <1>4, <2>1 DEF KillLeaf
  <2>2. CASE /\ copy' = Note([copy EXCEPT !.state[b].cancelled = TRUE], Covered(b), "cancel", "recorded")
             /\ UNCHANGED <<worker, kids, exit, killed, faults>>
    BY <1>4, <2>2
  <2> QED
    BY <2>1, <2>2 DEF CancelBackend, b
<1>6. Covered(b) \in SUBSET Names /\ h \in Held /\ h.held = copy.state[b].held /\ h.finished = copy.state[b].finished
  BY <1>1, <1>3, WithFlagIs, FlagIs DEF Covered, Eligible, Wanted
<1> HIDE DEF b, h
<1>7. /\ copy' \in Record /\ copy'.state[b] = h /\ Apart(copy', copy, b)
      /\ \E st \in {"recorded", "failed"} : Adds(copy', copy, Covered(b), "cancel", st)
  BY <1>1, <1>3, <1>5, <1>6, NoteWithIs DEF Stages, Statuses
<1>8. /\ copy'.applied = copy.applied
      /\ \A d \in Backends : /\ copy'.state[d].held = copy.state[d].held
                             /\ copy'.state[d].finished = copy.state[d].finished
      /\ \A n, s, t : <<n, s, t>> \in copy.events => <<n, s, t>> \in copy'.events
      /\ \A n, s, t : <<n, s, t>> \in copy'.events => <<n, s, t>> \in copy.events \/ s = "cancel"
  BY <1>3, <1>6, <1>7 DEF Apart, Adds
<1>9. /\ worker' \in {worker, "gone"} /\ (worker' # worker => inLeaf /\ Alive)
      /\ kids' \in BOOLEAN /\ (kids' => kids)
      /\ exit' \in {None, "ok", "red"} /\ killed' \in BOOLEAN /\ faults' \in 0 .. MaxFaults
  <2>1. faults' \in 0 .. MaxFaults
    BY <1>1, <1>5, FaultTyped DEF Typed
  <2>2. Empty \/ UNCHANGED <<worker, kids, exit>>
    BY <1>5
  <2>3. killed' \in BOOLEAN
    BY <1>1, <1>5 DEF Typed
  <2> QED
    BY <1>1, <2>1, <2>2, <2>3, EmptyIs
<1>10. /\ worker = "none" => worker' = "none"
       /\ worker' = "running" => worker = "running"
  BY <1>9 DEF Alive
<1>11. Typed'
  BY <1>1, <1>2, <1>7, <1>9 DEF Typed
<1>12. Places'
  BY <1>1, <1>2, <1>9 DEF ResourceInv, Places, Ended
<1>13. Workers'
  BY <1>1, <1>2, <1>9, <1>10 DEF ResourceInv, Workers, Unreleased, Fallback, Early, Settled, Starting
<1>14. Receipts'
  <2>1. Sound(copy)'
    BY <1>1, <1>8, CopySound DEF ResourceInv, Receipts
  <2>2. Sound(row.saved)'
    BY <1>1, SavedSound DEF ResourceInv, Receipts
  <2> QED
    BY <1>1, <1>2, <1>8, <2>1, <2>2 DEF ResourceInv, Receipts, Preparing, Starting, Settled
<1>15. Leftovers'
  <2>1. Named(copy)'
    BY <1>1, <1>8, <1>10, CopyNamed DEF ResourceInv, Leftovers, Settled, Typed
  <2>2. Named(row.saved)'
    BY <1>1, <1>10, SavedNamed DEF ResourceInv, Leftovers
  <2> QED
    BY <1>1, <1>2, <2>1, <2>2 DEF Leftovers, Early
<1>16. Preparation'
  <2>1. Fallback' = Fallback
    BY <1>2 DEF Fallback
  <2>2. Fallback => ScratchSet'
    BY <1>1, <1>2, SameScratch DEF ResourceInv, Preparation
  <2>3. Optional("cgroup")' = Optional("cgroup")
    BY <1>1, Lasting DEF Optional
  <2> QED
    BY <1>1, <1>2, <1>8, <2>1, <2>2, <2>3 DEF ResourceInv, Preparation, Starting, Early
<1>17. Leaf'
  <2>1. Reached(row.saved)'
    BY <1>1, <1>9, <1>10, SavedReached DEF ResourceInv, Leaf
  <2>2. Reached(copy)'
    BY <1>1, <1>8, <1>9, <1>10, CopyReached DEF ResourceInv, Leaf, Settled, Backends
  <2> QED
    BY <1>1, <1>2, <2>1, <2>2 DEF Leaf, Ended
<1>18. OomChain'
  BY <1>1, <1>2, <1>8 DEF ResourceInv, OomChain, Readable, Backends
<1> QED
  BY <1>11, <1>12, <1>13, <1>14, <1>15, <1>16, <1>17, <1>18 DEF ResourceInv

\* The cancellation is saved and the broker goes on where it came from.
LEMMA CancelDoneKeeps ==
    ASSUME ResourceInv, CancelDone
    PROVE  ResourceInv'
<1>1. /\ Typed /\ pc = "cancel" /\ row.status = "running" /\ copy \in Record /\ Save(copy) /\ pc' = ret.cancel
      /\ ret.cancel \in {"idle", "finish", "cleanup"}
      /\ UNCHANGED <<fixed, copy, ret, verdict, launch, alloc, child, exit, code, scratch, kids, inLeaf, killed, oom,
                     faults>>
  BY DEF ResourceInv, CancelDone, Typed, Places
<1>2. UNCHANGED <<mode, able, setup, isolate>>
  BY <1>1 DEF fixed, launch
<1>3. row' \in Rows /\ row'.status = row.status /\ row'.saved = copy
  BY <1>1, RowIs DEF Save
<1>4. /\ worker' \in {worker, "gone"} /\ (worker' # worker => worker \in {"pending", "ready"})
      /\ ret.cancel = "finish" => worker' \notin {"pending", "ready"}
  BY DEF CancelDone, DropPending
<1>5. /\ worker = "none" => worker' = "none"
      /\ worker' = "running" => worker = "running"
      /\ ret.cancel # "idle" => ~kids /\ ~oom
  BY <1>1, <1>4 DEF ResourceInv, Workers, Unreleased
<1>6. Fallback' = Fallback /\ Unreleased' = Fallback
  BY <1>1 DEF Fallback, Unreleased, Starting
<1>7. Typed'
  BY <1>1, <1>2, <1>3, <1>4 DEF Typed
<1>8. Places'
  BY <1>1, <1>3 DEF ResourceInv, Places, Ended
<1>9. Workers'
  <2>1. Fallback => Unreleased
    BY DEF Unreleased
  <2> QED
    BY <1>1, <1>3, <1>4, <1>5, <1>6, <2>1 DEF ResourceInv, Workers, Early, Settled
<1>10. Receipts'
  <2>1. Sound(copy)'
    BY <1>1, CopySound DEF ResourceInv, Receipts
  <2>2. Sound(row.saved)'
    BY <1>1, <1>3, <2>1 DEF Sound, OomNoted
  <2> QED
    BY <1>1, <1>3, <2>1, <2>2 DEF Receipts, Preparing, Starting
<1>11. Leftovers'
  <2>1. Named(copy)'
    BY <1>1, <1>5, CopyNamed DEF ResourceInv, Leftovers, Settled, Typed
  <2>2. Named(row.saved)'
    BY <1>1, <1>3, <2>1 DEF Named, CleanupFailed, Unrecorded
  <2> QED
    BY <1>1, <2>1, <2>2 DEF Leftovers, Early
<1>12. Preparation'
  <2>1. Fallback => ScratchSet'
    BY <1>1, <1>2, SameScratch DEF ResourceInv, Preparation
  <2>2. Optional("cgroup")' = Optional("cgroup")
    BY <1>1, Lasting DEF Optional
  <2> QED
    BY <1>1, <1>2, <1>6, <2>1, <2>2 DEF ResourceInv, Preparation, Starting, Early
<1>13. Leaf'
  <2>1. Reached(copy)'
    BY <1>1, <1>5, CopyReached DEF ResourceInv, Leaf, Settled
  <2>2. Reached(row.saved)'
    BY <1>1, <1>3, <2>1 DEF Reached, StopFailed
  <2> QED
    BY <1>1, <1>3, <1>5, <2>1, <2>2 DEF Leaf, Ended
<1>14. OomChain'
  <2>1. copy.applied = row.saved.applied
    BY <1>1 DEF ResourceInv, Receipts, Settled
  <2> QED
    BY <1>1, <1>3, <1>5, <2>1 DEF ResourceInv, OomChain, Readable
<1> QED
  BY <1>7, <1>8, <1>9, <1>10, <1>11, <1>12, <1>13, <1>14 DEF ResourceInv

\* merge_measurement adds the one event that it read.
LEMMA MeasuredIs ==
    ASSUME NEW c \in Record
    PROVE  /\ Measured(c) \in Record /\ Measured(c).state = c.state /\ Measured(c).applied = c.applied
           /\ \A n, s, t : <<n, s, t>> \in c.events => <<n, s, t>> \in Measured(c).events
           /\ \A n, s, t : <<n, s, t>> \in Measured(c).events =>
                  <<n, s, t>> \in c.events \/ (s = "usage" /\ oom /\ "memory" \in c.applied)
           /\ oom /\ "memory" \in c.applied => OomNoted(Measured(c))
<1>1. CASE oom /\ "memory" \in c.applied
  <2>1. Measured(c) = Note(c, {"memory"}, "usage", "oom")
    BY <1>1 DEF Measured
  <2>2. /\ Measured(c) \in Record /\ Measured(c).state = c.state /\ Measured(c).applied = c.applied
        /\ Adds(Measured(c), c, {"memory"}, "usage", "oom")
    BY <2>1, NoteIs DEF Stages, Statuses, Names
  <2>3. \A n, s, t : <<n, s, t>> \in Measured(c).events <=>
                        <<n, s, t>> \in c.events \/ (n \in {"memory"} /\ s = "usage" /\ t = "oom")
    BY <2>2 DEF Adds
  <2> QED
    BY <1>1, <2>2, <2>3 DEF OomNoted
<1>2. CASE ~(oom /\ "memory" \in c.applied)
  <2>1. Measured(c) = c
    BY <1>2 DEF Measured
  <2> QED
    BY <1>2, <2>1
<1> QED
  BY <1>1, <1>2

\* The first backend of a set of backends is one of them.
LEMMA FirstOfIs ==
    ASSUME NEW S \in SUBSET Backends, S # {}
    PROVE  FirstOf(S) \in S
  BY DEF FirstOf, Backends

\* One backend is finished: the leaf is emptied and read, or the receipt says that it was not.
LEMMA FinishBackendKeeps ==
    ASSUME ResourceInv, FinishBackend
    PROVE  ResourceInv'
<1> DEFINE todo == {d \in Holding(copy) : ~copy.state[d].finished}
           b == FirstOf(todo)
           h == FinishFlag(copy.state[b])
           done == With(copy, b, h)
<1>1. /\ Typed /\ pc = "finish" /\ row.status = "running" /\ copy \in Record
      /\ UNCHANGED <<fixed, row, broker, launch, alloc, child, code, scratch, inLeaf, oom>>
  BY DEF ResourceInv, FinishBackend, Typed, Places
<1>2. /\ UNCHANGED <<mode, able, pc, ret, verdict, setup, isolate>>
      /\ ~Fallback' /\ ~Unreleased'
  BY <1>1 DEF fixed, broker, launch, Fallback, Unreleased, Starting
<1>3. b \in Backends /\ copy.state[b].held /\ ~copy.state[b].finished
  <2>1. todo \in SUBSET Backends /\ todo # {}
    BY DEF FinishBackend, Holding
  <2>2. b \in todo
    BY <2>1, FirstOfIs
  <2> QED
    BY <2>2 DEF Holding
<1>4. [copy EXCEPT !.state[b].finished = TRUE] = done
  BY <1>1, <1>3, WithFlagIs
<1>5. \/ /\ b = "cgroup" /\ Empty /\ copy' = Note(Measured(done), Covered(b), "finish", "recorded")
         /\ UNCHANGED <<killed, faults>>
      \/ /\ b = "cgroup" /\ Fault /\ killed' \in {killed, TRUE}
         /\ copy' = Note(done, Covered(b), "finish", "failed") /\ UNCHANGED <<worker, kids, exit>>
      \/ /\ b # "cgroup" /\ copy' = Note(done, Covered(b), "finish", "recorded")
         /\ UNCHANGED <<worker, kids, exit, killed, faults>>
  <2>1. /\ IF b = "cgroup"
           THEN \/ /\ Empty
                   /\ copy' = Note(Measured([copy EXCEPT !.state[b].finished = TRUE]), Covered(b), "finish", "recorded")
                   /\ UNCHANGED <<killed, faults>>
                \/ /\ Fault
                   /\ killed' \in {killed, TRUE}
                   /\ copy' = Note([copy EXCEPT !.state[b].finished = TRUE], Covered(b), "finish", "failed")
                   /\ UNCHANGED <<worker, kids, exit>>
           ELSE /\ copy' = Note([copy EXCEPT !.state[b].finished = TRUE], Covered(b), "finish", "recorded")
                /\ UNCHANGED <<worker, kids, exit, killed, faults>>
    BY DEF FinishBackend
  <2> HIDE DEF b, done
  <2> QED
    BY <1>4, <2>1
<1>6. /\ Covered(b) \in SUBSET Names /\ h \in Held /\ h.held = copy.state[b].held /\ h.finished
  BY <1>1, <1>3, WithFlagIs, FlagIs DEF Covered, Eligible, Wanted
<1> HIDE DEF b, h
<1>7. /\ done \in Record /\ done.state[b] = h /\ Apart(done, copy, b) /\ done.events = copy.events
  BY <1>1, <1>3, <1>6, WithIs
<1> HIDE DEF done
<1>8. /\ done.applied = copy.applied
      /\ \A d \in Backends : done.state[d].held = copy.state[d].held
                             /\ (d # b => done.state[d].finished = copy.state[d].finished)
  BY <1>6, <1>7 DEF Apart
<1>9. /\ copy' \in Record /\ copy'.state = done.state /\ copy'.applied = copy.applied
      /\ \A n, s, t : <<n, s, t>> \in copy.events => <<n, s, t>> \in copy'.events
      /\ \A n, s, t : <<n, s, t>> \in copy'.events =>
            \/ <<n, s, t>> \in copy.events
            \/ s = "finish"
            \/ s = "usage" /\ oom /\ "memory" \in copy.applied
      /\ b = "cgroup" => \/ Empty /\ (oom /\ "memory" \in copy.applied => OomNoted(copy'))
                         \/ \A n \in Covered("cgroup") : <<n, "finish", "failed">> \in copy'.events
  <2>1. CASE b = "cgroup" /\ Empty /\ copy' = Note(Measured(done), Covered(b), "finish", "recorded")
    <3>1. Measured(done) \in Record
      BY <1>7, MeasuredIs
    <3>2. /\ copy' \in Record /\ copy'.state = Measured(done).state /\ copy'.applied = Measured(done).applied
          /\ Adds(copy', Measured(done), Covered(b), "finish", "recorded")
      BY <1>6, <2>1, <3>1, NoteIs DEF Stages, Statuses
    <3>3. \A n, s, t : <<n, s, t>> \in copy'.events <=>
                          <<n, s, t>> \in Measured(done).events \/ (n \in Covered(b) /\ s = "finish" /\ t = "recorded")
      BY <3>2 DEF Adds
    <3>4. oom /\ "memory" \in copy.applied => OomNoted(copy')
      BY <1>7, <1>8, <3>3, MeasuredIs DEF OomNoted
    <3> QED
      BY <1>7, <1>8, <2>1, <3>2, <3>3, <3>4, MeasuredIs
  <2>2. CASE \E st \in {"failed", "recorded"} :
                copy' = Note(done, Covered(b), "finish", st) /\ (b = "cgroup" => st = "failed")
    <3>1. PICK st \in {"failed", "recorded"} :
             copy' = Note(done, Covered(b), "finish", st) /\ (b = "cgroup" => st = "failed")
      BY <2>2
    <3>2. /\ copy' \in Record /\ copy'.state = done.state /\ copy'.applied = done.applied
          /\ Adds(copy', done, Covered(b), "finish", st)
      BY <1>6, <1>7, <3>1, NoteIs DEF Stages, Statuses
    <3>3. \A n, s, t : <<n, s, t>> \in copy'.events <=>
                          <<n, s, t>> \in copy.events \/ (n \in Covered(b) /\ s = "finish" /\ t = st)
      BY <1>7, <3>2 DEF Adds
    <3> QED
      BY <1>8, <3>1, <3>2, <3>3
  <2> QED
    BY <1>5, <2>1, <2>2
<1>10. /\ worker' = worker /\ worker \in {"none", "gone"}
       /\ kids' \in BOOLEAN /\ (kids' => kids)
       /\ exit' \in {None, "ok", "red"} /\ killed' \in BOOLEAN /\ faults' \in 0 .. MaxFaults
       /\ Empty => (kids' => ~inLeaf)
  <2>1. faults' \in 0 .. MaxFaults
    BY <1>1, <1>5, FaultTyped DEF Typed
  <2>2. Empty \/ UNCHANGED <<worker, kids, exit>>
    BY <1>5
  <2>3. killed' \in BOOLEAN
    BY <1>1, <1>5 DEF Typed
  <2>4. worker \in {"none", "gone"}
    BY <1>1 DEF ResourceInv, Workers, Typed
  <2> QED
    BY <1>1, <2>1, <2>2, <2>3, <2>4, EmptyIs DEF Alive
<1>11. Typed'
  BY <1>1, <1>2, <1>9, <1>10 DEF Typed
<1>12. Places'
  BY <1>1, <1>2 DEF ResourceInv, Places, Ended
<1>13. Workers'
  BY <1>1, <1>2, <1>10 DEF ResourceInv, Workers, Early, Settled
<1>14. Receipts'
  <2>1. Sound(copy)'
    <3>1. \A n \in copy.applied : n \in Names /\ BackendOf[n] \in Backends
      BY <1>1 DEF Record, BackendOf, Backends
    <3>2. OomNoted(copy)' => oom' /\ "memory" \in copy'.applied
      BY <1>1, <1>9 DEF ResourceInv, Receipts, Sound, OomNoted
    <3> QED
      BY <1>1, <1>8, <1>9, <3>1, <3>2, Lasting DEF ResourceInv, Receipts, Sound
  <2>2. Sound(row.saved)'
    BY <1>1, SavedSound DEF ResourceInv, Receipts
  <2> QED
    BY <1>1, <1>2, <1>9, <2>1, <2>2 DEF ResourceInv, Receipts, Preparing, Starting, Settled
<1>15. Leftovers'
  <2>1. Named(copy)'
    BY <1>1, <1>8, <1>9, <1>10, CopyNamed DEF ResourceInv, Leftovers, Settled, Typed
  <2>2. Named(row.saved)'
    BY <1>1, <1>10, SavedNamed DEF ResourceInv, Leftovers
  <2> QED
    BY <1>1, <1>2, <2>1, <2>2 DEF Leftovers, Early
<1>16. Preparation'
  BY <1>1, <1>2 DEF Preparation, Starting, Early
<1>17. /\ Reached(copy) /\ Covered("cgroup")' = Covered("cgroup")
       /\ copy.state["cgroup"].held => Covered("cgroup") # {}
       /\ "memory" \in copy.applied => "memory" \in Covered("cgroup")
       /\ copy.applied = row.saved.applied
  BY <1>1, Lasting DEF ResourceInv, Leaf, Settled, Backends, Receipts, Sound, Covered, BackendOf, Names
<1>18. Leaf'
  <2>1. Reached(row.saved)'
    BY <1>1, <1>10, SavedReached DEF ResourceInv, Leaf
  <2>2. copy'.state["cgroup"].finished /\ kids' => StopFailed(copy)'
    <3>1. CASE b = "cgroup"
      BY <1>1, <1>3, <1>9, <1>10, <1>17, <3>1 DEF Reached, StopFailed
    <3>2. CASE b # "cgroup"
      BY <1>8, <1>9, <1>10, <1>17, <3>2 DEF Reached, StopFailed, Backends
    <3> QED
      BY <3>1, <3>2
  <2>3. Reached(copy)'
    BY <1>1, <1>8, <1>9, <1>10, <1>17, <2>2 DEF Reached, Backends
  <2> QED
    BY <1>1, <1>2, <1>8, <1>9, <1>10, <2>1, <2>3 DEF ResourceInv, Leaf, Ended, Backends
<1>19. OomChain'
  <2>1. SUFFICES ASSUME child, oom, "memory" \in copy.applied
                 PROVE  copy'.state["cgroup"].held /\ (copy'.state["cgroup"].finished => OomKnown(copy)')
    BY <1>1, <1>2, <1>17 DEF OomChain
  <2>2. copy.state["cgroup"].held /\ (copy.state["cgroup"].finished => OomKnown(copy))
    BY <1>1, <1>17, <2>1 DEF ResourceInv, OomChain
  <2>3. OomKnown(copy) => OomKnown(copy)'
    BY <1>9 DEF OomKnown, OomNoted
  <2>4. CASE b = "cgroup"
    BY <1>8, <1>9, <1>17, <2>1, <2>2, <2>4 DEF OomKnown, OomNoted, Backends
  <2>5. CASE b # "cgroup"
    BY <1>8, <1>9, <2>2, <2>3, <2>5 DEF Backends
  <2> QED
    BY <2>4, <2>5
<1> QED
  BY <1>11, <1>12, <1>13, <1>14, <1>15, <1>16, <1>18, <1>19 DEF ResourceInv

\* What the backends finished is saved.
LEMMA FinishDoneKeeps ==
    ASSUME ResourceInv, FinishDone
    PROVE  ResourceInv'
<1>1. /\ Typed /\ pc = "finish" /\ row.status = "running" /\ copy \in Record /\ Save(copy) /\ pc' = "cleanup"
      /\ ret.clean = "verdict" /\ copy.applied = row.saved.applied
      /\ copy.state["cgroup"].held => copy.state["cgroup"].finished
      /\ UNCHANGED <<fixed, copy, ret, verdict, launch, alloc, process, faults>>
  BY DEF ResourceInv, FinishDone, Typed, Places, Receipts, Settled, Holding, Backends
<1>2. /\ UNCHANGED <<mode, able, setup, isolate>>
      /\ UNCHANGED <<worker, child, exit, code, scratch, kids, inLeaf, killed, oom>>
      /\ ~Fallback' /\ ~Unreleased'
  BY <1>1 DEF fixed, launch, process, Fallback, Unreleased, Starting
<1>3. row' \in Rows /\ row'.status = row.status /\ row'.saved = copy
  BY <1>1, RowIs DEF Save
<1>4. Typed'
  BY <1>1, <1>2, <1>3 DEF Typed
<1>5. Places' /\ Workers'
  BY <1>1, <1>2, <1>3 DEF ResourceInv, Places, Workers, Ended, Early, Settled
<1>6. Receipts'
  <2>1. Sound(copy)'
    BY <1>1, <1>2, CopySound DEF ResourceInv, Receipts
  <2>2. Sound(row.saved)'
    BY <1>1, <1>3, <2>1 DEF Sound, OomNoted
  <2> QED
    BY <1>1, <1>3, <2>1, <2>2 DEF Receipts, Preparing, Starting
<1>7. Leftovers'
  <2>1. Named(copy)'
    BY <1>1, <1>2, CopyNamed DEF ResourceInv, Leftovers, Settled, Typed
  <2>2. Named(row.saved)'
    BY <1>1, <1>3, <2>1 DEF Named, CleanupFailed, Unrecorded
  <2> QED
    BY <1>1, <2>1, <2>2 DEF Leftovers, Early
<1>8. Preparation'
  BY <1>1, <1>2 DEF Preparation, Starting, Early
<1>9. Leaf'
  <2>1. Reached(copy)'
    BY <1>1, <1>2, CopyReached DEF ResourceInv, Leaf, Settled
  <2>2. Reached(row.saved)'
    BY <1>1, <1>3, <2>1 DEF Reached, StopFailed
  <2>3. kids => StopFailed(copy)'
    BY <1>1, <1>2, <2>1 DEF ResourceInv, Leaf, Reached
  <2> QED
    BY <1>1, <1>2, <1>3, <2>1, <2>2, <2>3 DEF Leaf, Ended
<1>10. OomChain'
  BY <1>1, <1>2, <1>3 DEF ResourceInv, OomChain, OomKnown, OomNoted
<1> QED
  BY <1>4, <1>5, <1>6, <1>7, <1>8, <1>9, <1>10 DEF ResourceInv

\* One backend is cleaned up, or its allocation is named as left behind.
LEMMA CleanupBackendKeeps ==
    ASSUME ResourceInv, CleanupBackend
    PROVE  ResourceInv'
<1> DEFINE b == FirstOf(Holding(copy))
<1>1. /\ Typed /\ pc = "cleanup" /\ row.status = "running" /\ copy \in Record
      /\ UNCHANGED <<fixed, row, broker, launch, process>>
  BY DEF ResourceInv, CleanupBackend, Typed, Places
<1>2. /\ UNCHANGED <<mode, able, pc, ret, verdict, setup, isolate>>
      /\ UNCHANGED <<worker, child, exit, code, scratch, kids, inLeaf, killed, oom>>
      /\ Fallback' = Fallback /\ Unreleased' = Unreleased
  BY <1>1 DEF fixed, broker, launch, process, Fallback, Unreleased
<1>3. b \in Backends /\ Covered(b) \in SUBSET Names
  <2>1. Holding(copy) \in SUBSET Backends /\ Holding(copy) # {}
    BY DEF CleanupBackend, Holding
  <2> QED
    BY <2>1, FirstOfIs DEF Covered, Eligible, Wanted
<1>4. /\ \E st \in {"recorded", "failed"} :
            /\ copy' = Note(With(copy, b, Free), Covered(b), "cleanup", st)
            /\ alloc' = IF st = "recorded" THEN alloc \ {b} ELSE alloc
      /\ faults' \in 0 .. MaxFaults
  <2>1. [copy EXCEPT !.state[b] = Free] = With(copy, b, Free)
    BY DEF With
  <2>2. faults' \in 0 .. MaxFaults
    BY <1>1, FaultTyped DEF CleanupBackend, Typed
  <2> QED
    BY <2>1, <2>2 DEF CleanupBackend
<1> HIDE DEF b
<1>5. PICK st \in {"recorded", "failed"} :
            /\ copy' = Note(With(copy, b, Free), Covered(b), "cleanup", st)
            /\ alloc' = IF st = "recorded" THEN alloc \ {b} ELSE alloc
  BY <1>4
<1>6. /\ copy' \in Record /\ copy'.state[b] = Free /\ Apart(copy', copy, b)
      /\ Adds(copy', copy, Covered(b), "cleanup", st)
  BY <1>1, <1>3, <1>5, BlankTyped, NoteWithIs DEF Stages, Statuses
<1>7. /\ copy'.applied = copy.applied /\ alloc' \subseteq alloc
      /\ \A d \in Backends : /\ copy'.state[d].held => copy.state[d].held
                             /\ copy'.state[d].finished => copy.state[d].finished
                             /\ d # b => copy'.state[d].held = copy.state[d].held
      /\ \A n, s, t : <<n, s, t>> \in copy.events => <<n, s, t>> \in copy'.events
      /\ \A n, s, t : <<n, s, t>> \in copy'.events => <<n, s, t>> \in copy.events \/ s = "cleanup"
      /\ b \in alloc' => \A n \in Covered(b) : <<n, "cleanup", "failed">> \in copy'.events
  BY <1>5, <1>6, BlankTyped DEF Apart, Adds
<1>8. Typed'
  BY <1>1, <1>2, <1>4, <1>6, <1>7 DEF Typed
<1>9. Places' /\ Workers'
  BY <1>1, <1>2 DEF ResourceInv, Places, Workers, Ended, Early, Settled
<1>10. Receipts'
  <2>1. Sound(copy)'
    BY <1>1, <1>2, <1>7, CopySound DEF ResourceInv, Receipts
  <2>2. Sound(row.saved)'
    BY <1>1, <1>2, SavedSound DEF ResourceInv, Receipts
  <2> QED
    BY <1>1, <1>2, <1>7, <2>1, <2>2 DEF ResourceInv, Receipts, Preparing, Starting, Settled
<1>11. Leftovers'
  <2>1. \A d \in alloc' : copy.state[d].held => copy'.state[d].held \/ CleanupFailed(copy, d)'
    BY <1>1, <1>3, <1>7, Lasting DEF CleanupFailed, Typed
  <2>2. Named(copy)'
    BY <1>1, <1>2, <1>7, <2>1, CopyNamed DEF ResourceInv, Leftovers, Settled
  <2>3. Named(row.saved)'
    BY <1>1, <1>2, <1>7, SavedNamed DEF ResourceInv, Leftovers
  <2> QED
    BY <1>1, <1>2, <2>2, <2>3 DEF Leftovers, Early
<1>12. Preparation'
  <2>1. Fallback => ScratchSet'
    BY <1>1, <1>2, SameScratch DEF ResourceInv, Preparation
  <2>2. Optional("cgroup")' = Optional("cgroup")
    BY <1>1, Lasting DEF Optional
  <2> QED
    BY <1>1, <1>2, <1>7, <2>1, <2>2 DEF ResourceInv, Preparation, Starting, Early
<1>13. Leaf'
  <2>1. Reached(row.saved)'
    BY <1>1, <1>2, SavedReached DEF ResourceInv, Leaf
  <2>2. Reached(copy)'
    BY <1>1, <1>2, <1>7, CopyReached DEF ResourceInv, Leaf, Settled, Backends
  <2>3. StopFailed(copy) => StopFailed(copy)'
    BY <1>1, <1>7, Lasting DEF StopFailed, Backends
  <2> QED
    BY <1>1, <1>2, <2>1, <2>2, <2>3 DEF ResourceInv, Leaf, Ended
<1>14. OomChain'
  BY <1>1, <1>2, <1>7 DEF ResourceInv, OomChain, OomKnown, OomNoted
<1> QED
  BY <1>8, <1>9, <1>10, <1>11, <1>12, <1>13, <1>14 DEF ResourceInv

\* The cleanup is saved; the run ends, or its start goes on without a cgroup.
LEMMA CleanupDoneKeeps ==
    ASSUME ResourceInv, CleanupDone
    PROVE  ResourceInv'
<1>1. /\ Typed /\ pc = "cleanup" /\ row.status = "running" /\ copy \in Record /\ Save(copy) /\ pc' = ret.clean
      /\ ret.clean \in {"verdict", "verify"} /\ copy.applied = row.saved.applied
      /\ Holding(copy) = {} /\ \A d \in Backends : ~copy.state[d].held
      /\ UNCHANGED <<fixed, copy, ret, verdict, launch, alloc, process, faults>>
      /\ (pc' = "verify") = Fallback
  BY DEF ResourceInv, CleanupDone, Typed, Places, Receipts, Settled, Holding, Fallback
<1>2. /\ UNCHANGED <<mode, able, setup, isolate>>
      /\ UNCHANGED <<worker, child, exit, code, scratch, kids, inLeaf, killed, oom>>
      /\ ~Fallback' /\ (Unreleased' <=> Fallback)
  BY <1>1 DEF fixed, launch, process, Fallback, Unreleased, Starting
<1>3. row' \in Rows /\ row'.status = row.status /\ row'.saved = copy
  BY <1>1, RowIs DEF Save
<1>4. Typed'
  BY <1>1, <1>2, <1>3 DEF Typed, Starting
<1>5. Places'
  BY <1>1, <1>2, <1>3 DEF ResourceInv, Places, Ended, Holding
<1>6. Workers'
  BY <1>1, <1>2, <1>3 DEF ResourceInv, Workers, Unreleased, Early, Settled
<1>7. Receipts'
  <2>1. Sound(copy)'
    BY <1>1, <1>2, CopySound DEF ResourceInv, Receipts
  <2>2. Sound(row.saved)'
    BY <1>1, <1>3, <2>1 DEF Sound, OomNoted
  <2> QED
    BY <1>1, <1>3, <2>1, <2>2 DEF Receipts, Preparing, Starting
<1>8. Leftovers'
  <2>1. Named(copy)'
    BY <1>1, <1>2, CopyNamed DEF ResourceInv, Leftovers, Settled, Typed
  <2>2. Named(row.saved)'
    BY <1>1, <1>3, <2>1 DEF Named, CleanupFailed, Unrecorded
  <2> QED
    BY <1>1, <2>1, <2>2 DEF Leftovers, Early
<1>9. Preparation'
  <2>1. Fallback => ScratchSet'
    BY <1>1, <1>2, SameScratch DEF ResourceInv, Preparation
  <2>2. Optional("cgroup")' = Optional("cgroup") /\ Holding(copy)' = {}
    BY <1>1, Lasting DEF Optional, Holding
  <2>3. Fallback => copy.applied = {} /\ Optional("cgroup") /\ \A d \in Backends : ~copy.state[d].finished
    BY DEF ResourceInv, Preparation
  <2> QED
    BY <1>1, <1>2, <2>1, <2>2, <2>3 DEF Preparation, Starting, Early, Backends
<1>10. Leaf'
  <2>1. Reached(copy)'
    BY <1>1, <1>2, CopyReached DEF ResourceInv, Leaf, Settled
  <2>2. Reached(row.saved)'
    BY <1>1, <1>3, <2>1 DEF Reached, StopFailed
  <2>3. kids => StopFailed(row.saved)'
    BY <1>1, <1>3, Lasting DEF ResourceInv, Leaf, StopFailed, Backends
  <2> QED
    BY <1>1, <1>2, <1>3, <2>1, <2>2, <2>3 DEF Leaf, Ended
<1>11. OomChain'
  BY <1>1, <1>2, <1>3 DEF ResourceInv, OomChain, OomKnown, OomNoted
<1> QED
  BY <1>4, <1>5, <1>6, <1>7, <1>8, <1>9, <1>10, <1>11 DEF ResourceInv

\* The run's end: its worker is gone and nothing is held.
LEMMA EndRunKeeps ==
    ASSUME ResourceInv, EndRun
    PROVE  ResourceInv'
<1> DEFINE v == IF verdict = None THEN Observed ELSE verdict
<1>1. /\ Typed /\ pc = "verdict" /\ row.status = "running" /\ pc' = "idle"
      /\ row' = [row EXCEPT !.status = v] /\ Holding(row.saved) = {}
      /\ UNCHANGED <<fixed, copy, ret, verdict, launch, alloc, child, exit, code, scratch, kids, inLeaf, killed, oom,
                     faults>>
  BY DEF ResourceInv, EndRun, Places
<1>2. UNCHANGED <<mode, able, setup, isolate>>
  BY <1>1 DEF fixed, launch
<1>3. v \in Verdicts \ {None}
  BY DEF ResourceInv, Places, Observed, Verdicts, None
<1> HIDE DEF v
<1>4. /\ row' \in Rows /\ row'.status = v /\ row'.saved = row.saved
      /\ row'.status \notin {"queued", "running"}
  <2>1. v \in {"queued", "running"} \cup Verdicts
    BY <1>3
  <2>2. row' \in Rows /\ row'.status = v /\ row'.saved = row.saved
    BY <1>1, <2>1, RowIs, BlankTyped
  <2>3. v \notin {"queued", "running"}
    BY <1>3 DEF Verdicts, None
  <2> QED
    BY <2>2, <2>3
<1>5. /\ worker' \in {"none", "gone"} /\ (worker = "none" => worker' = "none")
      /\ worker = "gone" => worker' = "gone"
      /\ worker' = "none" => worker = "none"
  BY <1>1 DEF ResourceInv, Workers, Typed, EndRun, DropPending
<1>6. Typed'
  BY <1>1, <1>2, <1>4, <1>5 DEF Typed
<1>7. Places'
  BY <1>1, <1>4, <1>5 DEF ResourceInv, Places, Ended, Alive, Holding
<1>8. Workers'
  BY <1>1, <1>5 DEF ResourceInv, Workers, Unreleased, Fallback, Early, Settled, Starting
<1>9. Receipts'
  <2>1. Sound(copy)' /\ Sound(row.saved)'
    BY <1>1, <1>4, CopySound, SavedSound DEF ResourceInv, Receipts
  <2> QED
    BY <1>1, <2>1 DEF Receipts, Preparing, Starting, Settled
<1>10. Leftovers'
  <2>1. Named(row.saved)'
    BY <1>1, <1>4, <1>5, SavedNamed DEF ResourceInv, Leftovers
  <2> QED
    BY <1>1, <2>1 DEF Leftovers, Early, Settled
<1>11. Preparation'
  BY <1>1 DEF Preparation, Starting, Early, Fallback
<1>12. Leaf'
  <2>1. Reached(row.saved)'
    BY <1>1, <1>4, <1>5, SavedReached DEF ResourceInv, Leaf
  <2>2. kids => StopFailed(row.saved)'
    BY <1>1, <1>4, Lasting DEF ResourceInv, Leaf, StopFailed, Backends
  <2> QED
    BY <1>1, <2>1, <2>2 DEF Leaf, Settled
<1>13. OomChain'
  BY <1>4 DEF OomChain
<1> QED
  BY <1>6, <1>7, <1>8, <1>9, <1>10, <1>11, <1>12, <1>13 DEF ResourceInv

\* A broker dies, or the next one takes over.
LEMMA OwnerKeeps ==
    ASSUME ResourceInv, Crash \/ Boot
    PROVE  ResourceInv'
<1>1. /\ Typed /\ UNCHANGED <<fixed, row, launch, alloc, exit, code, scratch, kids, inLeaf, killed, oom>>
      /\ pc' \in {"down", "idle"} /\ copy' \in {copy, Blank}
      /\ pc' = "down" => row.status = "running"
  BY DEF ResourceInv, Crash, Boot, process
<1>2. UNCHANGED <<mode, able, setup, isolate>>
  BY <1>1 DEF fixed, launch
<1>3. /\ child' \in BOOLEAN /\ (row.status = "running" => ~child')
      /\ child' => child
  <2>1. CASE child' = FALSE
    BY <2>1
  <2>2. CASE child' = child /\ pc \in {"down", "failed"}
    BY <1>1, <2>2 DEF ResourceInv, Workers, Typed
  <2> QED
    BY <2>1, <2>2 DEF Crash, Boot, process
<1>4. /\ worker' \notin {"pending", "ready"} /\ worker' \in {worker, "gone"}
      /\ worker' # worker => worker \in {"pending", "ready"}
  BY <1>1 DEF ResourceInv, Workers, Settled, Crash, Boot, DropPending, process
<1>5. /\ ret' \in [cancel : {None, "idle", "finish", "cleanup"}, clean : {None, "verdict", "verify", "spawn"}]
      /\ verdict' \in {verdict, None}
      /\ faults' \in 0 .. MaxFaults
  <2>1. faults' \in 0 .. MaxFaults
    BY <1>1, FaultTyped DEF Typed, Crash, Boot
  <2>2. CASE Crash
    BY <1>1, <2>1, <2>2 DEF Crash, Typed
  <2>3. CASE Boot
    BY <1>1, <2>1, <2>3 DEF Boot
  <2> QED
    BY <2>2, <2>3
<1>6. copy' \in Record
  BY <1>1, BlankTyped DEF Typed
<1>7. Typed'
  BY <1>1, <1>2, <1>3, <1>4, <1>5, <1>6 DEF Typed, Verdicts
<1>8. Places'
  <2>1. pc \in {"down", "failed"} \/ pc' = "down"
    BY DEF Crash, Boot
  <2>2. row.status = "running"
    BY <1>1, <2>1 DEF ResourceInv, Places
  <2> QED
    BY <1>1, <1>5, <2>2 DEF ResourceInv, Places, Ended
<1>9. Workers'
  <2>1. row.status = "running"
    BY DEF Crash, Boot, ResourceInv, Places
  <2> QED
    BY <1>1, <1>3, <1>4, <2>1 DEF ResourceInv, Workers, Unreleased, Fallback, Early, Settled, Starting
<1>10. Receipts'
  <2>1. Sound(row.saved)'
    BY <1>1, SavedSound DEF ResourceInv, Receipts
  <2>2. Sound(copy)'
    <3>1. CASE copy' = copy
      BY <1>1, <3>1, CopySound DEF ResourceInv, Receipts
    <3>2. CASE copy' = Blank
      BY <3>2, BlankTyped DEF Sound, OomNoted
    <3> QED
      BY <1>1, <3>1, <3>2
  <2> QED
    BY <1>1, <2>1, <2>2 DEF Receipts, Preparing, Starting, Settled
<1>11. Leftovers'
  <2>1. Named(row.saved)'
    BY <1>1, <1>4, SavedNamed DEF ResourceInv, Leftovers
  <2> QED
    BY <1>1, <2>1 DEF Leftovers, Early, Settled
<1>12. Preparation'
  BY <1>1 DEF Preparation, Starting, Early, Fallback
<1>13. Leaf'
  <2>1. Reached(row.saved)'
    BY <1>1, <1>4, SavedReached DEF ResourceInv, Leaf
  <2>2. row.status = "running"
    BY DEF Crash, Boot, ResourceInv, Places
  <2> QED
    BY <1>1, <2>1, <2>2 DEF Leaf, Settled, Ended
<1>14. OomChain'
  BY <1>1, <1>3 DEF OomChain
<1> QED
  BY <1>7, <1>8, <1>9, <1>10, <1>11, <1>12, <1>13, <1>14 DEF ResourceInv

------------------------------------------------------------------------------
(* The invariant holds *)

\* A queued run has nothing.
LEMMA InitResourceInv == Init => ResourceInv
<1> SUFFICES ASSUME Init PROVE ResourceInv
  OBVIOUS
<1>1. Init
  OBVIOUS
<1>2. /\ row = [status |-> "queued", known |-> FALSE, cancel |-> FALSE, saved |-> Blank]
      /\ row.status = "queued" /\ row.saved = Blank
      /\ pc = "idle" /\ worker = "none" /\ alloc = {} /\ copy = Blank
  BY <1>1 DEF Init
<1>3. row \in Rows
  BY <1>2, BlankTyped DEF Rows
<1>4. Typed
  <2>1. ret \in [cancel : {None, "idle", "finish", "cleanup"}, clean : {None, "verdict", "verify", "spawn"}]
    BY <1>1 DEF Init
  <2>2. faults \in 0 .. MaxFaults
    BY <1>1, ResourcesConstantsOK DEF Init
  <2> QED
    BY <1>1, <1>2, <1>3, <2>1, <2>2, BlankTyped DEF Typed, Init, Verdicts
<1>5. Places
  BY <1>1, <1>2 DEF Places, Init, Ended
<1>6. Workers
  BY <1>1, <1>2 DEF Workers, Init, Unreleased, Fallback, Early, Settled, Starting
<1>7. Receipts
  BY <1>2, BlankTyped DEF Receipts, Sound, OomNoted, Preparing, Starting, Settled
<1>8. Leftovers
  BY <1>2 DEF Leftovers, Named, Early, Settled
<1>9. Preparation
  BY <1>2 DEF Preparation, Early, Starting, Fallback
<1>10. Leaf
  BY <1>1, <1>2, BlankTyped DEF Init, Leaf, Reached, Ended, Settled, Backends
<1>11. OomChain
  BY <1>2 DEF OomChain
<1> QED
  BY <1>4, <1>5, <1>6, <1>7, <1>8, <1>9, <1>10, <1>11 DEF ResourceInv

\* Every step keeps the invariant.
LEMMA NextKeeps ==
    ASSUME ResourceInv, [Next]_vars
    PROVE  ResourceInv'
<1>1. CASE Start
  <2>1. ASSUME Prepare("cgroup") \/ Prepare("quota") PROVE ResourceInv'
    BY <2>1, PrepareKeeps DEF Backends
  <2> QED
    BY <1>1, <2>1, AdmitKeeps, ProbeKeeps, PreparedKeeps, SetupTmpfsKeeps, SetupQuotaKeeps, SpawnKeeps, IdentifyKeeps,
       AttachKeeps, VerifySetupKeeps, RecordSetupFailureKeeps, RecordSetupErrorKeeps, RecordSetupKeeps, ReleaseKeeps
    DEF Start
<1>2. CASE Observe
  BY <1>2, CaptureUsageKeeps, ObserveKeeps, RunKeeps, CancelBackendKeeps, CancelDoneKeeps, FinishBackendKeeps,
     FinishDoneKeeps, CleanupBackendKeeps, CleanupDoneKeeps, EndRunKeeps
  DEF Observe
<1>3. CASE Boot \/ Crash
  BY <1>3, OwnerKeeps
<1>4. CASE Cancel \/ WorkerEnds \/ MemoryExhausted \/ KidsEnd \/ Reaped
  BY <1>4, RunKeeps
<1>5. CASE UNCHANGED vars
  BY <1>5, StutterKeeps
<1> QED
  BY <1>1, <1>2, <1>3, <1>4, <1>5 DEF Next

\* What a broker asks of its backends, saves and finds again keeps the invariant, for every set of
\* contracts, every failing call and any number of crashes.
THEOREM ResourcesInvariant == Spec => []ResourceInv
  BY InitResourceInv, NextKeeps, PTL DEF Spec

------------------------------------------------------------------------------
(* The receipt can be believed *)

\* What the receipt says is in force while the command runs.
InForce == RequiredIsApplied /\ AppliedIsInForce /\ ScratchExists

\* A command starts with the release of its worker only.
LEMMA OnlyReleaseRuns ==
    ASSUME ResourceInv, [Next]_vars, worker' = "running", worker # "running"
    PROVE  Release
<1>1. worker' # worker
  OBVIOUS
<1>2. ~UNCHANGED vars
  BY <1>1 DEF vars, process
<1>3. ~Observe
  BY <1>1 DEF Observe, CaptureUsage, ObserveCancel, SignalGroup, ObserveEnd, CancelBackend, CancelDone, FinishBackend,
     FinishDone, CleanupBackend, CleanupDone, EndRun, DropPending, KillLeaf, Empty, process
<1>4. ~(Boot \/ Crash)
  BY <1>1 DEF Boot, Crash, DropPending, process
<1>5. ~(Cancel \/ WorkerEnds \/ MemoryExhausted \/ KidsEnd \/ Reaped)
  BY <1>1 DEF Cancel, WorkerEnds, MemoryExhausted, KidsEnd, Reaped, process
<1>6. Start => Release
  BY <1>1 DEF Start, Admit, Probe, Prepare, Prepared, SetupTmpfs, SetupQuota, Spawn, Identify, Attach, VerifySetup,
     RecordSetupFailure, RecordSetupError, RecordSetup, OwnerFails, DropPending, process
<1> QED
  BY <1>2, <1>3, <1>4, <1>5, <1>6 DEF Next

\* While the command runs no step changes what is applied to it.
LEMMA WhileRunning ==
    ASSUME ResourceInv, [Next]_vars, worker' = "running", worker = "running"
    PROVE  /\ UNCHANGED <<fixed, alloc, code, scratch, inLeaf>>
           /\ row'.saved.applied = row.saved.applied
<1>1. /\ Typed /\ row.status = "running" /\ pc \in {"idle", "cancel", "down"} /\ row.saved \in Record /\ copy \in Record
      /\ pc = "cancel" => copy.applied = row.saved.applied
  BY DEF ResourceInv, Workers, Receipts, Settled, Typed, Rows
<1>2. CASE UNCHANGED vars
  BY <1>2 DEF vars, fixed, process
<1>3. CASE Start
  BY <1>1, <1>3 DEF Start, Admit, Probe, Prepare, Prepared, SetupTmpfs, SetupQuota, Spawn, Identify, Attach,
     VerifySetup, RecordSetupFailure, RecordSetupError, RecordSetup, Release
<1>4. CASE Observe
  <2>1. CASE CaptureUsage
    <3>1. row' = [row EXCEPT !.saved = Measured(row.saved)]
      BY <2>1 DEF CaptureUsage, Save
    <3>2. Measured(row.saved) \in Record /\ Measured(row.saved).applied = row.saved.applied
      BY <1>1, MeasuredIs
    <3>3. row'.saved.applied = row.saved.applied
      BY <1>1, <3>1, <3>2, RowIs
    <3> QED
      BY <2>1, <3>3 DEF CaptureUsage, process
  <2>2. CASE ObserveCancel
    BY <2>2 DEF ObserveCancel, process
  <2>3. CASE CancelBackend
    BY <2>3 DEF CancelBackend
  <2>4. CASE CancelDone
    <3>1. row'.saved = copy
      BY <1>1, <2>4, RowIs DEF CancelDone, Save
    <3> QED
      BY <1>1, <2>4, <3>1 DEF CancelDone
  <2>5. ~SignalGroup /\ ~ObserveEnd
    BY DEF SignalGroup, ObserveEnd, Alive
  <2>6. ~FinishBackend /\ ~FinishDone /\ ~CleanupBackend /\ ~CleanupDone /\ ~EndRun
    BY <1>1 DEF FinishBackend, FinishDone, CleanupBackend, CleanupDone, EndRun
  <2> QED
    BY <1>4, <2>1, <2>2, <2>3, <2>4, <2>5, <2>6 DEF Observe
<1>5. CASE Boot \/ Crash
  BY <1>5 DEF Boot, Crash, process
<1>6. CASE Cancel
  <2>1. row'.saved = row.saved
    BY <1>1, <1>6, RowIs DEF Cancel
  <2> QED
    BY <1>6, <2>1 DEF Cancel, process
<1>7. CASE WorkerEnds \/ MemoryExhausted \/ KidsEnd \/ Reaped
  BY <1>7 DEF WorkerEnds, MemoryExhausted, KidsEnd, Reaped
<1> QED
  BY <1>2, <1>3, <1>4, <1>5, <1>6, <1>7 DEF Next

\* The release finds everything in force, and it stays so.
LEMMA InForceKeeps ==
    ASSUME ResourceInv, InForce, [Next]_vars
    PROVE  InForce'
<1>1. SUFFICES ASSUME worker' = "running" PROVE InForce'
  BY DEF InForce, RequiredIsApplied, AppliedIsInForce, ScratchExists
<1>2. CASE worker = "running"
  <2>1. /\ UNCHANGED <<fixed, alloc, code, scratch, inLeaf>> /\ row'.saved.applied = row.saved.applied
    BY <1>1, <1>2, WhileRunning
  <2> QED
    BY <1>1, <1>2, <2>1, Lasting DEF InForce, RequiredIsApplied, AppliedIsInForce, ScratchExists
<1>3. CASE worker # "running"
  <2>1. Release
    BY <1>1, <1>3, OnlyReleaseRuns
  <2>2. /\ UNCHANGED <<fixed, row, alloc, code, inLeaf>> /\ pc = "release"
        /\ scratch' = IF code = "ok" THEN setup ELSE None
    BY <1>1, <1>3, <2>1 DEF Release
  <2>3. /\ row.saved = copy /\ copy \in Record
        /\ \A b \in Backends : copy.state[b].held => b \in alloc
        /\ \A n \in Names : Required(n) => n \in copy.applied
        /\ \A n \in copy.applied : copy.state[BackendOf[n]].held
        /\ copy.state["cgroup"].held => inLeaf
        /\ "tmp" \in copy.applied => code = "ok" /\ setup = "tmp"
        /\ code = "ok" /\ setup # None => BackendOf[setup] \in alloc
    BY <2>2 DEF ResourceInv, Receipts, Preparation, Starting, Preparing, Typed
  <2>4. \A n \in copy.applied : BackendOf[n] \in Backends
    BY <2>3 DEF Record, BackendOf, Backends
  <2>5. RequiredIsApplied'
    BY <2>2, <2>3, Lasting DEF RequiredIsApplied
  <2>6. AppliedIsInForce'
    BY <2>2, <2>3, <2>4 DEF AppliedIsInForce
  <2>7. ScratchExists'
    BY <2>2, <2>3 DEF ScratchExists
  <2> QED
    BY <2>5, <2>6, <2>7 DEF InForce
<1> QED
  BY <1>2, <1>3

\* Once a run has ended nothing changes what its row says.
LEMMA EndedStays ==
    ASSUME ResourceInv, [Next]_vars, Ended
    PROVE  row' = row /\ oom' = oom
<1>1. pc = "idle" /\ row.status \notin {"queued", "running"} /\ worker # "running"
  BY DEF ResourceInv, Places, Ended, Alive
<1>2. ~Start
  BY <1>1 DEF Start, Admit, Probe, Prepare, Prepared, SetupTmpfs, SetupQuota, Spawn, Identify, Attach, VerifySetup,
     RecordSetupFailure, RecordSetupError, RecordSetup, Release
<1>3. ~Observe
  BY <1>1 DEF Observe, Observing, CaptureUsage, ObserveCancel, SignalGroup, ObserveEnd, CancelBackend, CancelDone,
     FinishBackend, FinishDone, CleanupBackend, CleanupDone, EndRun
<1>4. ~(Boot \/ Crash \/ Cancel \/ WorkerEnds \/ MemoryExhausted)
  BY <1>1 DEF Boot, Crash, Cancel, WorkerEnds, MemoryExhausted
<1>5. CASE KidsEnd \/ Reaped
  BY <1>5 DEF KidsEnd, Reaped
<1>6. CASE UNCHANGED vars
  BY <1>6 DEF vars, process
<1> QED
  BY <1>2, <1>3, <1>4, <1>5, <1>6 DEF Next

\* Only finish_run ends a run.
LEMMA OnlyEndRunEnds ==
    ASSUME ResourceInv, [Next]_vars, ~Ended, Ended'
    PROVE  EndRun
<1>1. /\ Typed /\ copy \in Record /\ row.saved \in Record
      /\ row.status \in {"queued", "running"} /\ row'.status \notin {"queued", "running"}
      /\ row'.status # row.status
  BY DEF ResourceInv, Typed, Rows, Ended
<1>2. \A c \in Record : ~Save(c)
  BY <1>1, RowIs DEF Save
<1>3. copy' \in Record /\ Measured(row.saved) \in Record
  BY <1>1, NextKeeps, MeasuredIs DEF ResourceInv, Typed
<1>4. ~Save(copy') /\ ~Save(copy) /\ ~Save(Measured(row.saved)) /\ row' # row
  BY <1>1, <1>2, <1>3
<1>5. ~Admit /\ ~Identify /\ ~Cancel
  <2>1. /\ [row EXCEPT !.status = "running"].status = "running"
        /\ [row EXCEPT !.known = TRUE].status = row.status /\ [row EXCEPT !.cancel = TRUE].status = row.status
    BY <1>1 DEF Typed, Rows
  <2> QED
    BY <1>1, <2>1 DEF Admit, Identify, Cancel
<1>6. ~Start
  BY <1>4, <1>5 DEF Start, Probe, Prepare, Prepared, SetupTmpfs, SetupQuota, Spawn, Attach, VerifySetup,
     RecordSetupFailure, RecordSetupError, RecordSetup, Release, OwnerFails
<1>7. Observe => EndRun
  BY <1>4 DEF Observe, CaptureUsage, ObserveCancel, SignalGroup, ObserveEnd, CancelBackend, CancelDone,
     FinishBackend, FinishDone, CleanupBackend, CleanupDone
<1>8. ~(Boot \/ Crash \/ WorkerEnds \/ MemoryExhausted \/ KidsEnd \/ Reaped)
  BY <1>4 DEF Boot, Crash, WorkerEnds, MemoryExhausted, KidsEnd, Reaped
<1>9. ~UNCHANGED vars
  BY <1>4 DEF vars
<1> QED
  BY <1>5, <1>6, <1>7, <1>8, <1>9 DEF Next

\* The verdict blames memory if and only if the chain of receipts does.
LEMMA OomIsNamedKeeps ==
    ASSUME ResourceInv, OomIsNamed, [Next]_vars
    PROVE  OomIsNamed'
<1>1. SUFFICES ASSUME Ended' PROVE OomIsNamed'
  BY DEF Ended, OomIsNamed
<1>2. CASE Ended
  BY <1>2, EndedStays DEF OomIsNamed, Told
<1>3. CASE ~Ended
  <2>1. EndRun
    BY <1>1, <1>3, OnlyEndRunEnds
  <2> DEFINE v == IF verdict = None THEN Observed ELSE verdict
  <2>2. /\ Typed /\ pc = "verdict" /\ row' = [row EXCEPT !.status = v] /\ oom' = oom
        /\ row.status = "running" /\ verdict \in {None, "enforcement", "start", "handshake", "cancelled"}
    BY <2>1 DEF EndRun, ResourceInv, Places
  <2>3. v \in {"queued", "running"} \cup Verdicts
    BY <2>2 DEF Observed, Verdicts
  <2>4. /\ v = "memory-oom" => OomNoted(row.saved)
        /\ v = "failed" => child /\ ~OomNoted(row.saved)
    BY <2>2 DEF Observed, OomNoted, None
  <2> HIDE DEF v
  <2>5. row'.status = v /\ row'.saved = row.saved
    BY <2>2, <2>3, RowIs, BlankTyped
  <2>6. OomNoted(row.saved) => oom /\ "memory" \in row.saved.applied
    BY DEF ResourceInv, Receipts, Sound
  <2>7. child /\ oom /\ "memory" \in row.saved.applied => OomKnown(row.saved)
    BY <2>2 DEF ResourceInv, OomChain
  <2> QED
    BY <2>2, <2>4, <2>5, <2>6, <2>7 DEF OomIsNamed, Told, OomKnown
<1> QED
  BY <1>2, <1>3

\* The receipt can be believed whatever fails between admission and verdict: no command runs without
\* what it requires, what is called applied is in force, its scratch exists, and an out-of-memory kill
\* is named.
THEOREM ReceiptCanBeBelieved == Spec => []ReceiptIsTrue
<1>1. Init => InForce /\ OomIsNamed
  BY DEF Init, InForce, RequiredIsApplied, AppliedIsInForce, ScratchExists, OomIsNamed
<1>2. ResourceInv /\ InForce /\ OomIsNamed /\ [Next]_vars => (InForce /\ OomIsNamed)'
  BY InForceKeeps, OomIsNamedKeeps
<1>3. ResourceInv /\ InForce /\ OomIsNamed => ReceiptIsTrue
  BY TypedIsTypeOK DEF ResourceInv, InForce, ReceiptIsTrue
<1> QED
  BY <1>1, <1>2, <1>3, ResourcesInvariant, PTL DEF Spec

------------------------------------------------------------------------------
(* What outlives a run is on record *)

\* What outlives a run is on record: an allocation as a failed cleanup, processes as a failed stop.
THEOREM LeftoversOnRecord == Spec => []EndIsClean
<1>1. ResourceInv => EndIsClean
  <2> SUFFICES ASSUME ResourceInv, Ended PROVE EndIsClean
    BY DEF EndIsClean, LeftoversAreNamed, EndedIsEmpty
  <2>1. /\ ~Alive /\ Holding(row.saved) = {} /\ Named(row.saved) /\ alloc \subseteq Backends
        /\ kids => StopFailed(row.saved)
    BY DEF ResourceInv, Places, Leftovers, Leaf, Typed
  <2>2. LeftoversAreNamed
    BY <2>1 DEF LeftoversAreNamed, Named, Holding, CleanupFailed, Unrecorded, Told
  <2>3. EndedIsEmpty
    BY <2>1 DEF EndedIsEmpty, StopFailed, Told
  <2> QED
    BY <2>2, <2>3 DEF EndIsClean
<1> QED
  BY <1>1, ResourcesInvariant, PTL

------------------------------------------------------------------------------
(* Child leases: counting *)

\* The interval 1 .. k has k elements.
LEMMA IntervalCount ==
    ASSUME NEW k \in Nat
    PROVE  IsFiniteSet(1 .. k) /\ Cardinality(1 .. k) = k
<1>1. /\ IsFiniteSet(1 .. k)
      /\ Cardinality(1 .. k) = IF 1 > k THEN 0 ELSE k - 1 + 1
  BY FS_Interval, 1 \in Int, k \in Int
<1> QED
  BY <1>1

\* The granted tokens are finitely many.
LEMMA TokensFinite ==
    IsFiniteSet(Tokens) /\ Cardinality(Tokens) \in Nat
<1>1. IsFiniteSet(Active)
  BY LeaseConstantsOK, FS_Subset DEF Active
<1>2. IsFiniteSet(1 .. Budget)
  BY LeaseConstantsOK, IntervalCount
<1>3. IsFiniteSet(Active \X (1 .. Budget))
  BY <1>1, <1>2, FS_Product
<1>4. Tokens \in SUBSET (Active \X (1 .. Budget))
  BY DEF Tokens
<1>5. IsFiniteSet(Tokens)
  BY <1>3, <1>4, FS_Subset
<1> QED
  BY <1>5, FS_CardinalityType

\* The requests that pay for overtaking w are finitely many.
LEMMA UnspentFinite ==
    ASSUME NEW w
    PROVE  IsFiniteSet(Unspent(w)) /\ Cardinality(Unspent(w)) \in Nat
<1>1. Unspent(w) \in SUBSET Leases
  BY DEF Unspent, Waiting
<1>2. IsFiniteSet(Unspent(w))
  BY <1>1, LeaseConstantsOK, FS_Subset
<1> QED
  BY <1>2, FS_CardinalityType

\* A step that grants nothing keeps the budget.
LEMMA FewerTokens ==
    ASSUME BudgetRespected, Tokens' \in SUBSET Tokens
    PROVE  BudgetRespected'
<1>1. IsFiniteSet(Tokens) /\ Cardinality(Tokens) \in Nat
  BY TokensFinite
<1>2. IsFiniteSet(Tokens') /\ Cardinality(Tokens') <= Cardinality(Tokens)
  BY <1>1, FS_Subset
<1>3. Cardinality(Tokens') \in Nat
  BY <1>2, FS_CardinalityType
<1> QED
  BY <1>1, <1>2, <1>3, LeaseConstantsOK DEF BudgetRespected

\* A request keeps its cover while its credit stays and nobody joins those that pay.
LEMMA CoverKept ==
    ASSUME NEW w \in Waiting, Cardinality(Unspent(w)) <= credit[w], credit[w] \in Int,
           credit'[w] = credit[w], Unspent(w)' \in SUBSET Unspent(w)
    PROVE  Cardinality(Unspent(w)') <= credit'[w]
<1>1. IsFiniteSet(Unspent(w)) /\ Cardinality(Unspent(w)) \in Nat
  BY UnspentFinite
<1>2. /\ IsFiniteSet(Unspent(w)')
      /\ Cardinality(Unspent(w)') <= Cardinality(Unspent(w))
  BY <1>1, FS_Subset
<1>3. Cardinality(Unspent(w)') \in Nat
  BY <1>2, FS_CardinalityType
<1> QED
  BY <1>1, <1>2, <1>3

------------------------------------------------------------------------------
(* The steps *)

\* A row whose queue ahead changes is a row and keeps its other columns.
LEMMA OlderUpdate ==
    ASSUME NEW r \in Lease, NEW T \in SUBSET Leases
    PROVE  /\ [r EXCEPT !.older = T] \in Lease
           /\ [r EXCEPT !.older = T].status = r.status
           /\ [r EXCEPT !.older = T].requested = r.requested
           /\ [r EXCEPT !.older = T].minimum = r.minimum
           /\ [r EXCEPT !.older = T].granted = r.granted
           /\ [r EXCEPT !.older = T].bypass = r.bypass
           /\ [r EXCEPT !.older = T].older = T
  BY DEF Lease

\* Ending leases, by their owners or by the broker.
LEMMA EndKeeps ==
    ASSUME LeaseInv, NEW S \in SUBSET Leases, End(S), parent' = parent,
           lock' \in {"free", "held"}
    PROVE  LeaseInv'
<1>1. /\ lease \in [Leases -> Lease] /\ credit \in [Leases -> Int]
      /\ owner \in [Leases -> {"child", "orphan", "gone"}] /\ parent \in BOOLEAN
  BY DEF LeaseInv, LeaseTypeOK
<1>2. NoLease \in Lease
  BY LeaseConstantsOK DEF NoLease, Lease
<1>3. \A l \in Leases :
        /\ l \in S => lease'[l] = NoLease
        /\ l \notin S => lease'[l] = [lease[l] EXCEPT !.older = @ \ S] /\ credit'[l] = credit[l]
  BY DEF End
<1>4. \A l \in Leases : l \notin S =>
        /\ lease'[l] \in Lease
        /\ lease'[l].status = lease[l].status
        /\ lease'[l].requested = lease[l].requested
        /\ lease'[l].minimum = lease[l].minimum
        /\ lease'[l].granted = lease[l].granted
        /\ lease'[l].bypass = lease[l].bypass
        /\ lease'[l].older = lease[l].older \ S
  <2>1. SUFFICES ASSUME NEW l \in Leases, l \notin S
                 PROVE  /\ lease'[l] \in Lease
                        /\ lease'[l].status = lease[l].status
                        /\ lease'[l].requested = lease[l].requested
                        /\ lease'[l].minimum = lease[l].minimum
                        /\ lease'[l].granted = lease[l].granted
                        /\ lease'[l].bypass = lease[l].bypass
                        /\ lease'[l].older = lease[l].older \ S
    OBVIOUS
  <2>2. lease[l] \in Lease /\ lease[l].older \ S \in SUBSET Leases
    BY <1>1 DEF Lease
  <2>3. lease'[l] = [lease[l] EXCEPT !.older = lease[l].older \ S]
    BY <1>3, <2>1
  <2> QED
    BY <2>2, <2>3, OlderUpdate
<1>4a. \A l \in S : lease'[l].status = "ended" /\ lease'[l].older = {}
  <2>1. \A l \in S : lease'[l] = NoLease
    BY DEF End
  <2> QED
    BY <2>1 DEF NoLease
<1>5. LeaseTypeOK'
  <2>1. lease' \in [Leases -> Lease]
    BY <1>2, <1>3, <1>4 DEF End
  <2>2. credit' \in [Leases -> Int]
    BY <1>1 DEF End
  <2>3. owner' \in [Leases -> {"child", "orphan", "gone"}]
    BY <1>1 DEF End
  <2> QED
    BY <1>1, <2>1, <2>2, <2>3 DEF LeaseTypeOK
<1>6. Waiting' = Waiting \ S /\ Active' = Active \ S
  <2>1. \A l \in S : lease'[l].status = "ended"
    BY <1>4a
  <2> QED
    BY <1>4, <2>1 DEF Waiting, Active
<1>7. OrderTotal'
  <2>1. \A l \in S : lease'[l].older = {}
    BY <1>4a
  <2>2. \A l \in Leases : lease[l].older \subseteq Waiting \ {l}
    BY DEF LeaseInv, OrderTotal
  <2>3. \A l \in Leases : lease'[l].older \subseteq Waiting' \ {l}
    BY <1>4, <1>6, <2>1, <2>2
  <2>4. \A a, b \in Waiting' : Older(a, b)' <=> Older(a, b)
    BY <1>4, <1>6 DEF Older, Waiting
  <2> QED
    BY <1>6, <2>3, <2>4 DEF LeaseInv, OrderTotal
<1>8. LeasesCoherent'
  BY <1>4, <1>6 DEF LeaseInv, LeasesCoherent, Live, Waiting, Active
<1>9. BudgetRespected'
  <2>1. Tokens' \in SUBSET Tokens
    BY <1>4, <1>6 DEF Tokens, Active
  <2> QED
    BY <2>1, FewerTokens DEF LeaseInv
<1>10. CreditCovers'
  <2>1. SUFFICES ASSUME NEW w \in Waiting'
                 PROVE  Cardinality(Unspent(w)') <= credit'[w]
    BY DEF CreditCovers
  <2>2. w \in Waiting /\ w \in Leases /\ w \notin S
    BY <1>6, <2>1 DEF Waiting
  <2>3. Unspent(w)' \in SUBSET Unspent(w)
    BY <1>4, <1>6, <2>2 DEF Unspent, Older, Waiting
  <2> QED
    BY <1>1, <1>3, <2>2, <2>3, CoverKept DEF LeaseInv, CreditCovers
<1> QED
  BY <1>5, <1>7, <1>8, <1>9, <1>10 DEF LeaseInv

\* A new request: as many may overtake it as wait before it, and one more.
LEMMA RequestKeeps ==
    ASSUME LeaseInv, NEW l \in Leases, NEW q \in Requests, Request(l, q)
    PROVE  LeaseInv'
<1>1. /\ lease \in [Leases -> Lease] /\ credit \in [Leases -> Int]
      /\ owner \in [Leases -> {"child", "orphan", "gone"}] /\ parent \in BOOLEAN
      /\ lock \in {"free", "held"}
  BY DEF LeaseInv, LeaseTypeOK
<1> DEFINE asked == [status |-> "waiting", requested |-> q.requested, minimum |-> q.minimum,
                     granted |-> 0, bypass |-> 0, older |-> Waiting]
<1>2. asked \in Lease
  BY LeaseConstantsOK DEF Lease, Waiting
<1>3. /\ lease'[l] = asked
      /\ \A c \in Leases : c # l => lease'[c] = lease[c] /\ credit'[c] = credit[c]
      /\ credit'[l] = Cardinality(Waiting) + 1
  BY <1>1 DEF Request
<1>4. IsFiniteSet(Waiting) /\ Cardinality(Waiting) \in Nat
  BY LeaseConstantsOK, FS_Subset, FS_CardinalityType DEF Waiting
<1>5. LeaseTypeOK'
  BY <1>1, <1>2, <1>4 DEF Request, LeaseTypeOK
<1>6. l \notin Waiting /\ l \notin Active /\ Waiting' = Waiting \cup {l} /\ Active' = Active
  BY <1>1, <1>3 DEF Request, Waiting, Active
<1>7. OrderTotal'
  BY <1>3, <1>6 DEF LeaseInv, OrderTotal, Older, Waiting
<1>8. LeasesCoherent'
  <2>1. q.minimum <= q.requested /\ q.minimum <= Budget
    BY LeaseConstantsOK DEF Request
  <2> QED
    BY <1>3, <1>6, <2>1 DEF LeaseInv, LeasesCoherent, Live, Waiting, Active
<1>9. BudgetRespected'
  <2>1. Tokens' \in SUBSET Tokens
    BY <1>3, <1>6 DEF Tokens, Active
  <2> QED
    BY <2>1, FewerTokens DEF LeaseInv
<1>10. CreditCovers'
  <2>1. SUFFICES ASSUME NEW w \in Waiting'
                 PROVE  Cardinality(Unspent(w)') <= credit'[w]
    BY DEF CreditCovers
  <2>2. CASE w = l
    <3>1. IsFiniteSet(Waiting \cup {l}) /\ Cardinality(Waiting \cup {l}) = Cardinality(Waiting) + 1
      BY <1>4, <1>6, FS_AddElement
    <3>2. Unspent(w)' \in SUBSET (Waiting \cup {l})
      BY <1>6 DEF Unspent
    <3>3. Cardinality(Unspent(w)') <= Cardinality(Waiting) + 1
      BY <3>1, <3>2, FS_Subset
    <3> QED
      BY <1>3, <2>2, <3>3
  <2>3. CASE w # l
    <3>1. w \in Waiting /\ w \in Leases
      BY <1>6, <2>1, <2>3 DEF Waiting
    <3>2. Unspent(w)' \in SUBSET Unspent(w)
      BY <1>3, <1>6, <2>3, <3>1 DEF Unspent, Older, Waiting, LeaseInv, OrderTotal
    <3> QED
      BY <1>1, <1>3, <2>3, <3>1, <3>2, CoverKept DEF LeaseInv, CreditCovers
  <2> QED
    BY <2>2, <2>3
<1> QED
  BY <1>5, <1>7, <1>8, <1>9, <1>10 DEF LeaseInv

\* A grant stays within what is available, and only the head is passed.
LEMMA GrantKeeps ==
    ASSUME LeaseInv, NEW l \in Leases, Grant(l)
    PROVE  LeaseInv'
<1>1. /\ lease \in [Leases -> Lease] /\ credit \in [Leases -> Int]
      /\ owner \in [Leases -> {"child", "orphan", "gone"}] /\ parent \in BOOLEAN
      /\ lock \in {"free", "held"}
  BY DEF LeaseInv, LeaseTypeOK
<1> DEFINE g == GrantSize(l)
<1>2. /\ l \in Waiting /\ lease[l].minimum <= Available
      /\ \E h \in Head : l = h \/ lease[h].bypass < 1
  BY DEF Grant, Selected, FirstFit, Fits
<1>3. IsFiniteSet(Tokens) /\ Cardinality(Tokens) \in Nat
  BY TokensFinite
<1>4. /\ lease[l].requested \in Nat /\ lease[l].minimum \in Nat \ {0}
      /\ lease[l].minimum <= lease[l].requested
  BY <1>1, <1>2 DEF Lease, LeaseInv, LeasesCoherent, Live
<1>5. /\ g \in 0 .. Budget /\ g <= Available
      /\ g \in lease[l].minimum .. lease[l].requested
  BY <1>2, <1>3, <1>4, LeaseConstantsOK DEF GrantSize, Smaller, Available
<1> HIDE DEF g
<1>6. /\ lease'[l] = [lease[l] EXCEPT !.status = "active", !.granted = g, !.older = {}]
      /\ credit'[l] = 0
  <2>1. lease'[l] = [lease[l] EXCEPT !.status = "active", !.granted = g, !.older = {}]
    BY DEF Grant, g
  <2>2. credit' = [c \in Leases |-> IF c = l THEN 0
                                    ELSE IF Older(c, l) THEN credit[c] - 1 ELSE credit[c]]
    BY DEF Grant
  <2>3. credit'[l] = 0
    BY <2>2
  <2> QED
    BY <2>1, <2>3
<1>7. /\ lease'[l] \in Lease /\ lease'[l].status = "active" /\ lease'[l].granted = g
      /\ lease'[l].older = {} /\ lease'[l].requested = lease[l].requested
      /\ lease'[l].minimum = lease[l].minimum /\ lease'[l].bypass = lease[l].bypass
  <2>1. lease[l] \in Lease
    BY <1>1
  <2> QED
    BY <1>5, <1>6, <2>1 DEF Lease
<1>8. \A c \in Leases : c # l =>
        /\ lease'[c] \in Lease
        /\ lease'[c].status = lease[c].status
        /\ lease'[c].requested = lease[c].requested
        /\ lease'[c].minimum = lease[c].minimum
        /\ lease'[c].granted = lease[c].granted
        /\ lease'[c].bypass = IF c \in Head THEN lease[c].bypass + 1 ELSE lease[c].bypass
        /\ lease'[c].older = lease[c].older \ {l}
  <2>1. SUFFICES ASSUME NEW c \in Leases, c # l
                 PROVE  /\ lease'[c] \in Lease
                        /\ lease'[c].status = lease[c].status
                        /\ lease'[c].requested = lease[c].requested
                        /\ lease'[c].minimum = lease[c].minimum
                        /\ lease'[c].granted = lease[c].granted
                        /\ lease'[c].bypass = IF c \in Head THEN lease[c].bypass + 1
                                                           ELSE lease[c].bypass
                        /\ lease'[c].older = lease[c].older \ {l}
    OBVIOUS
  <2> DEFINE b == IF c \in Head THEN lease[c].bypass + 1 ELSE lease[c].bypass
             o == lease[c].older \ {l}
  <2>2. lease[c] \in Lease /\ b \in Nat /\ o \in SUBSET Leases
    BY <1>1 DEF Lease
  <2>3. lease'[c] = [lease[c] EXCEPT !.bypass = b, !.older = o]
    BY <2>1 DEF Grant, Bypassed
  <2> HIDE DEF b, o
  <2>4. /\ lease'[c] \in Lease
        /\ lease'[c].status = lease[c].status
        /\ lease'[c].requested = lease[c].requested
        /\ lease'[c].minimum = lease[c].minimum
        /\ lease'[c].granted = lease[c].granted
        /\ lease'[c].bypass = b
        /\ lease'[c].older = o
    BY <2>2, <2>3 DEF Lease
  <2> QED
    BY <2>4 DEF b, o
<1>9. \A c \in Leases : c # l =>
        credit'[c] = IF Older(c, l) THEN credit[c] - 1 ELSE credit[c]
  BY DEF Grant
<1>10. LeaseTypeOK'
  <2>1. lease' \in [Leases -> Lease]
    BY <1>7, <1>8 DEF Grant
  <2>2. \A c \in Leases : credit'[c] \in Int
    BY <1>1, <1>6, <1>9
  <2>3. credit' = [c \in Leases |-> credit'[c]]
    BY DEF Grant
  <2>4. credit' \in [Leases -> Int]
    BY <2>2, <2>3
  <2> QED
    BY <1>1, <2>1, <2>4 DEF Grant, LeaseTypeOK
<1>11. Waiting' = Waiting \ {l} /\ Active' = Active \cup {l} /\ l \notin Active
  BY <1>2, <1>7, <1>8 DEF Waiting, Active
<1>12. OrderTotal'
  <2>1. \A c \in Leases : lease'[c].older \subseteq Waiting' \ {c}
    BY <1>7, <1>8, <1>11 DEF LeaseInv, OrderTotal
  <2>2. \A a, b \in Waiting' : Older(a, b)' <=> Older(a, b)
    BY <1>8, <1>11 DEF Older, Waiting
  <2> QED
    BY <1>11, <2>1, <2>2 DEF LeaseInv, OrderTotal
\* There is one head, and if it is passed this is the first time.
<1>13. \A c \in Head : c # l => lease[c].bypass = 0
  <2>1. \A a, b \in Head : a = b
    BY DEF Head, LeaseInv, OrderTotal
  <2>2. \A c \in Head : lease[c].bypass \in Nat
    BY <1>1 DEF Head, Waiting, Lease
  <2> QED
    BY <1>2, <2>1, <2>2
<1>14. LeasesCoherent'
  <2>1. SUFFICES ASSUME NEW c \in Live'
                 PROVE  /\ lease'[c].minimum <= lease'[c].requested
                        /\ lease'[c].minimum <= Budget
                        /\ lease'[c].bypass <= 1
                        /\ c \in Waiting' => lease'[c].granted = 0
                        /\ c \in Active' =>
                             lease'[c].granted \in lease'[c].minimum .. lease'[c].requested
    BY DEF LeasesCoherent
  <2>2. c \in Live /\ c \in Leases
    BY <1>2, <1>11, <2>1 DEF Live, Waiting, Active
  <2>3. /\ lease[c].minimum <= lease[c].requested
        /\ lease[c].minimum <= Budget
        /\ lease[c].bypass <= 1
        /\ c \in Waiting => lease[c].granted = 0
        /\ c \in Active => lease[c].granted \in lease[c].minimum .. lease[c].requested
    BY <2>2 DEF LeaseInv, LeasesCoherent
  <2>4. CASE c = l
    BY <1>5, <1>7, <1>11, <2>3, <2>4
  <2>5. CASE c # l
    BY <1>8, <1>11, <1>13, <2>2, <2>3, <2>5
  <2> QED
    BY <2>4, <2>5
<1>15. BudgetRespected'
  <2> DEFINE P == {l} \X (1 .. g)
  <2>1. IsFiniteSet(P) /\ Cardinality(P) = g
    <3>1. g \in Nat
      BY <1>5, LeaseConstantsOK
    <3>2. IsFiniteSet(1 .. g) /\ Cardinality(1 .. g) = g
      BY <3>1, IntervalCount
    <3>3. IsFiniteSet({l}) /\ Cardinality({l}) = 1
      BY FS_Singleton
    <3>4. IsFiniteSet(P) /\ Cardinality(P) = 1 * g
      BY <3>2, <3>3, FS_Product
    <3> QED
      BY <3>1, <3>4
  <2>2. Tokens' \in SUBSET (Tokens \cup P)
    BY <1>7, <1>8, <1>11 DEF Tokens, Active
  <2>3. /\ IsFiniteSet(Tokens \cup P)
        /\ Cardinality(Tokens \cup P) =
             Cardinality(Tokens) + Cardinality(P) - Cardinality(Tokens \cap P)
    BY <1>3, <2>1, FS_Union
  <2>4. Cardinality(Tokens \cap P) \in Nat
    BY <1>3, FS_Subset, FS_CardinalityType
  <2>5. IsFiniteSet(Tokens') /\ Cardinality(Tokens') <= Cardinality(Tokens \cup P)
    BY <2>2, <2>3, FS_Subset
  <2>6. Cardinality(Tokens') \in Nat
    BY <2>5, FS_CardinalityType
  <2>7. g \in Int /\ g <= Budget - Cardinality(Tokens)
    BY <1>5 DEF Available
  <2> HIDE DEF P
  <2> QED
    BY <1>3, <2>1, <2>3, <2>4, <2>5, <2>6, <2>7, LeaseConstantsOK DEF BudgetRespected
<1>16. CreditCovers'
  <2>1. SUFFICES ASSUME NEW w \in Waiting'
                 PROVE  Cardinality(Unspent(w)') <= credit'[w]
    BY DEF CreditCovers
  <2>2. w \in Waiting /\ w \in Leases /\ w # l /\ Cardinality(Unspent(w)) <= credit[w]
    BY <1>11, <2>1 DEF Waiting, LeaseInv, CreditCovers
  <2>3. Unspent(w)' \in SUBSET Unspent(w)
    <3>1. \A a \in Waiting' : /\ a \in lease'[w].older => a \in lease[w].older
                              /\ lease'[a].bypass = 0 => lease[a].bypass = 0
      BY <1>1, <1>8, <1>11, <1>13, <2>2 DEF Waiting, Lease
    <3>2. SUFFICES ASSUME NEW a \in Unspent(w)' PROVE a \in Unspent(w)
      OBVIOUS
    <3>3. a \in Waiting' /\ (a = w \/ a \in lease'[w].older) /\ lease'[a].bypass = 0
      BY <3>2 DEF Unspent, Older
    <3>4. a \in Waiting
      BY <1>11, <3>3
    <3> QED
      BY <3>1, <3>3, <3>4 DEF Unspent, Older
  <2>4. CASE ~Older(w, l)
    BY <1>1, <1>9, <2>2, <2>3, <2>4, CoverKept
  <2>5. CASE Older(w, l)
    <3>1. PICK h \in Head : l = h \/ lease[h].bypass < 1
      BY <1>2
    <3>2. h # l /\ h \in Waiting /\ h \in Leases
      BY <2>2, <2>5 DEF Head, Waiting
    <3>3. h = w \/ Older(h, w)
      BY <2>2, <3>2 DEF Head, LeaseInv, OrderTotal
    <3>4. h \in Unspent(w)
      BY <1>13, <3>2, <3>3 DEF Unspent
    <3>5. lease'[h].bypass # 0
      BY <1>8, <1>13, <3>2
    <3>6. Unspent(w)' \in SUBSET (Unspent(w) \ {h})
      BY <2>3, <3>5 DEF Unspent
    <3>7. IsFiniteSet(Unspent(w)) /\ Cardinality(Unspent(w)) \in Nat
      BY UnspentFinite
    <3>8. /\ IsFiniteSet(Unspent(w) \ {h})
          /\ Cardinality(Unspent(w) \ {h}) = Cardinality(Unspent(w)) - 1
      BY <3>4, <3>7, FS_RemoveElement
    <3>9. IsFiniteSet(Unspent(w)') /\ Cardinality(Unspent(w)') <= Cardinality(Unspent(w)) - 1
      BY <3>6, <3>8, FS_Subset
    <3>10. Cardinality(Unspent(w)') \in Nat
      BY <3>9, FS_CardinalityType
    <3>11. credit'[w] = credit[w] - 1 /\ credit[w] \in Int
      BY <1>1, <1>9, <2>2, <2>5
    <3> QED
      BY <2>2, <3>7, <3>9, <3>10, <3>11
  <2> QED
    BY <2>4, <2>5
<1> QED
  BY <1>10, <1>12, <1>14, <1>15, <1>16 DEF LeaseInv

\* Steps that leave the table alone.
LEMMA TableUntouched ==
    ASSUME LeaseInv, UNCHANGED <<lease, credit>>, LeaseTypeOK'
    PROVE  LeaseInv'
<1>1. Waiting' = Waiting /\ Active' = Active /\ Live' = Live /\ Tokens' = Tokens
  BY DEF Waiting, Active, Live, Tokens
<1>2. OrderTotal'
  BY <1>1 DEF LeaseInv, OrderTotal, Older
<1>3. LeasesCoherent'
  BY <1>1 DEF LeaseInv, LeasesCoherent
<1>4. BudgetRespected'
  BY <1>1 DEF LeaseInv, BudgetRespected
<1>5. CreditCovers'
  BY <1>1 DEF LeaseInv, CreditCovers, Unspent, Older
<1> QED
  BY <1>2, <1>3, <1>4, <1>5 DEF LeaseInv

------------------------------------------------------------------------------
(* The invariant and what follows from it *)

\* LeaseInv, which is inductive, holds of every reachable state of the lease table.
THEOREM LeaseInvariant == LeaseSpec => []LeaseInv
<1>1. LeaseInit => LeaseInv
  <2> SUFFICES ASSUME LeaseInit PROVE LeaseInv
    OBVIOUS
  <2>1. NoLease \in Lease /\ NoLease.status = "ended" /\ NoLease.older = {}
    BY LeaseConstantsOK DEF NoLease, Lease
  <2>2. \A l \in Leases : lease[l] = NoLease
    BY DEF LeaseInit
  <2>3. LeaseTypeOK
    BY <2>1 DEF LeaseInit, LeaseTypeOK
  <2>4. Waiting = {} /\ Active = {} /\ Live = {}
    BY <2>1, <2>2 DEF Waiting, Active, Live
  <2>5. Tokens = {}
    BY <2>4 DEF Tokens
  <2>6. BudgetRespected
    BY <2>5, FS_EmptySet, LeaseConstantsOK DEF BudgetRespected
  <2> QED
    BY <2>1, <2>2, <2>3, <2>4, <2>6
    DEF LeaseInv, OrderTotal, LeasesCoherent, CreditCovers
<1>2. LeaseInv /\ [LeaseNext]_leaseVars => LeaseInv'
  <2> SUFFICES ASSUME LeaseInv, [LeaseNext]_leaseVars PROVE LeaseInv'
    OBVIOUS
  <2>1. LeaseTypeOK
    BY DEF LeaseInv
  <2>2. ASSUME NEW l \in Leases, NEW q \in Requests, Request(l, q) PROVE LeaseInv'
    BY <2>2, RequestKeeps
  <2>3. ASSUME NEW l \in Leases, Finish(l) PROVE LeaseInv'
    BY <2>1, <2>3, EndKeeps DEF Finish, LeaseTypeOK
  <2>4. ASSUME NEW l \in Leases, OwnerExits(l) PROVE LeaseInv'
    BY <2>1, <2>4, TableUntouched DEF OwnerExits, LeaseTypeOK
  <2>5. ASSUME NEW l \in Leases, OwnerOrphaned(l) PROVE LeaseInv'
    BY <2>1, <2>5, TableUntouched DEF OwnerOrphaned, LeaseTypeOK
  <2>6. CASE ParentEnds
    BY <2>1, <2>6, TableUntouched DEF ParentEnds, LeaseTypeOK
  <2>7. CASE Reclaim
    <3>1. {l \in Live : ~Valid(l)} \in SUBSET Leases
      BY DEF Live, Waiting, Active
    <3> QED
      BY <2>7, <3>1, EndKeeps DEF Reclaim
  <2>8. ASSUME NEW l \in Leases, Grant(l) PROVE LeaseInv'
    BY <2>8, GrantKeeps
  <2>9. CASE Commit
    BY <2>1, <2>9, TableUntouched DEF Commit, LeaseTypeOK
  <2>10. CASE UNCHANGED leaseVars
    BY <2>1, <2>10, TableUntouched DEF leaseVars, LeaseTypeOK
  <2> QED
    BY <2>2, <2>3, <2>4, <2>5, <2>6, <2>7, <2>8, <2>9, <2>10 DEF LeaseNext, Maintain
<1> QED
  BY <1>1, <1>2, PTL DEF LeaseSpec

\* The columns of child_cpu_leases and the owners keep their types.
THEOREM LeaseTypes == LeaseSpec => []LeaseTypeOK
  BY LeaseInvariant, PTL DEF LeaseInv

\* maintain_child_cpu_leases never grants more than the parent's cpu units, for any
\* budget, requests and number of leases.
THEOREM BudgetIsRespected == LeaseSpec => []BudgetRespected
  BY LeaseInvariant, PTL DEF LeaseInv

\* Every live row passes the checks of child_lease_from_row and
\* validate_child_cpu_leases, so that no broker refuses to start over one.
THEOREM RowsAreCoherent == LeaseSpec => []LeasesCoherent
  BY LeaseInvariant, PTL DEF LeaseInv

\* The single bypass of the head bounds how often maintain_child_cpu_leases lets
\* anything overtake any request.
THEOREM OvertakingIsBounded == LeaseSpec => []OvertakingBounded
<1>1. LeaseInv => OvertakingBounded
  <2> SUFFICES ASSUME LeaseInv, NEW w \in Waiting PROVE credit[w] >= 0
    BY DEF OvertakingBounded
  <2>1. Cardinality(Unspent(w)) \in Nat
    BY UnspentFinite
  <2>2. Cardinality(Unspent(w)) <= credit[w] /\ credit[w] \in Int
    BY DEF LeaseInv, CreditCovers, LeaseTypeOK, Waiting
  <2> QED
    BY <2>1, <2>2
<1> QED
  BY <1>1, LeaseInvariant, PTL
=============================================================================
