-------------------------- MODULE EvidencePipeline --------------------------
(***************************************************************************)
(* One scan run of guiying-runtime, from the walk of the tree to the       *)
(* duplicate groups a user may act on, while the user goes on editing the  *)
(* files it reads.                                                         *)
(*                                                                         *)
(* The core walks the root and observes every directory and media file     *)
(* (streaming.rs); an observation carries the signature of what was seen.  *)
(* Files of equal size are sampled, those of equal sample are hashed in    *)
(* full, those of equal hash are compared byte by byte with one            *)
(* representative, every batch recorded in one transaction (lib.rs,        *)
(* repository.rs).  At last every directory is looked at again, and only   *)
(* when all of them are as they were observed is the last stage sealed,    *)
(* which is what makes the groups visible (store.rs).                      *)
(*                                                                         *)
(* A file is a name in a directory that holds a physical file object, so   *)
(* two names may share one (a hard link).  A signature is the stamp of the *)
(* object: every change of an object's bytes, attributes or links gives it *)
(* a new stamp (its change time), and every name that comes, goes or is    *)
(* replaced gives its directory a new stamp.  Bytes are abstracted to a    *)
(* content with a size, a sample digest and a full digest, and contents    *)
(* that differ may share all three (a hash collision).                     *)
(***************************************************************************)
EXTENDS Integers, FiniteSets, Sequences

CONSTANTS
    Names,      \* the media file names of the tree
    Dirs,       \* its directories
    Root,       \* the directory chosen as the scan root
    Home,       \* the directory each name and each other directory is in
    Objects,    \* physical file objects
    Absent,     \* what a name holds when there is no such file
    Contents,   \* what a file may contain
    SizeOf,     \* the size of each content
    SampleOf,   \* the digest of its sample windows
    DigestOf,   \* the digest of all of it
    BatchLimit, \* STORE_BATCH_LIMIT and STORE_PAGE_LIMIT
    MaxEdits    \* bound: changes the user makes during the run

\* The directories are a tree: every one of them is below the root.
ASSUME TreeAssumption ==
    /\ Root \in Dirs
    /\ Names \cap Dirs = {}
    /\ Home \in [Names \cup (Dirs \ {Root}) -> Dirs]
    /\ \A S \in SUBSET Dirs :
        (Root \in S /\ \A d \in Dirs \ {Root} : Home[d] \in S => d \in S) => S = Dirs
    /\ Absent \notin Objects

ASSUME ContentAssumption ==
    /\ SizeOf \in [Contents -> Nat]
    /\ DOMAIN SampleOf = Contents
    /\ DOMAIN DigestOf = Contents

ASSUME BoundAssumption == BatchLimit \in Nat \ {0} /\ MaxEdits \in Nat

VARIABLES
    node,       \* the object each name holds, or Absent
    data,       \* the content of each object
    stamp,      \* the change stamp of each object
    dirStamp,   \* the modification stamp of each directory
    edits,      \* changes made so far
    step,       \* where the run is
    sealed,     \* scan_stage_seals of the run, with the items each counted
    walk,       \* the stack of open directories with what is left of each
    partial,    \* an issue of the walk made the enumeration partial
    pending,    \* observations in the event buffer, not yet in the store
    seen,       \* the file observations: object, stamp and size at the time
    dirSeen,    \* the directory observations: the stamp at the time
    sampled,    \* sample fingerprints recorded
    hashed,     \* full fingerprints recorded
    work,       \* candidate buckets of the stage not begun yet
    bucket,     \* tickets of the current bucket not yet in a batch
    batch,      \* the batch being read, or NoBatch
    build,      \* the draft group, or NoBuild
    groups,     \* verified groups
    collided,   \* buckets recorded with HASH_COLLISION_DETECTED
    coverage,   \* the status in scan_coverage_outcomes, or "none"
    stable,     \* coverage_stable of the core session
    snap        \* what each name held when the enumeration was sealed (history)

disk     == <<node, data, stamp, dirStamp, edits>>
walking  == <<walk, partial, pending, seen, dirSeen>>
prints   == <<sampled, hashed>>
verdicts == <<groups, collided, coverage>>
vars     == <<disk, step, sealed, walking, prints, work, bucket, batch, build,
              verdicts, stable, snap>>

NoBatch == [bound |-> <<>>, todo |-> {}, reading |-> {}, fresh |-> {},
            failed |-> FALSE]
NoBuild == [rep |-> Absent, planned |-> {}, members |-> {}, edges |-> {}]

Stages   == {"enumeration", "sampling", "full_hash", "exact_verification"}
Reading  == {"sampling", "full_hash", "exact"}
Terminal == {"completed", "cancelled", "interrupted"}
Live     == step \notin Terminal

\* A row written to a table, and the rows of one table over those of another.
Put(f, x, v) == [y \in DOMAIN f \cup {x} |-> IF y = x THEN v ELSE f[y]]
Over(f, g)   == [y \in DOMAIN f \cup DOMAIN g |->
                   IF y \in DOMAIN g THEN g[y] ELSE f[y]]

Entries(d) == {e \in DOMAIN Home : Home[e] = d}
Observed   == DOMAIN seen

\* source_signature: the observation still describes what the name holds.
IntactObject(n) == node[n] = seen[n].obj
Intact(n) == node[n] = seen[n].obj /\ stamp[seen[n].obj] = seen[n].stamp

\* The sets of at least two that share a value of f: GROUP BY ... HAVING.
BucketsWithSingles(f)  == {{m \in DOMAIN f : f[m] = f[n]} : n \in DOMAIN f}
BucketsWithoutPairs(f) == {B \in BucketsWithSingles(f) : Cardinality(B) > 2}
BucketsOf(f) ==
    {B \in {{m \in DOMAIN f : f[m] = f[n]} : n \in DOMAIN f} :
        Cardinality(B) >= 2}

SizeBuckets   == BucketsOf([n \in Observed |-> seen[n].size])
SampleBuckets == BucketsOf(sampled)
DigestBuckets == BucketsOf(hashed)

\* What list_duplicate_groups_page shows.
Sealed(stage) == stage \in DOMAIN sealed
Visible == IF Sealed("exact_verification") THEN groups ELSE {}

-----------------------------------------------------------------------------
Init ==
    /\ node \in [Names -> Objects \cup {Absent}]
    /\ data \in [Objects -> Contents]
    /\ stamp = [o \in Objects |-> 0]
    /\ dirStamp = [d \in Dirs |-> 0]
    /\ edits = 0
    /\ step = "enumerate"
    /\ sealed = <<>>
    /\ walk = <<[dir |-> Root, left |-> Entries(Root)]>>
    /\ partial = FALSE
    /\ pending = {Root}
    /\ seen = <<>>
    /\ dirSeen = [d \in {Root} |-> 0]
    /\ sampled = <<>> /\ hashed = <<>>
    /\ work = {} /\ bucket = {}
    /\ batch = NoBatch /\ build = NoBuild
    /\ groups = {} /\ collided = {} /\ coverage = "none"
    /\ stable = TRUE
    /\ snap = [n \in Names |-> [obj |-> Absent]]

-----------------------------------------------------------------------------
(* The user, who may edit the tree at any moment of the run.               *)

Edit == Live /\ edits < MaxEdits /\ edits' = edits + 1

\* The object of a name, as a set: none when the name is absent.
Holds(n) == {node[n]} \ {Absent}

Changed(objs) == stamp' = [o \in Objects |-> stamp[o] + IF o \in objs THEN 1 ELSE 0]

Write(n, c) ==
    /\ Edit
    /\ node[n] # Absent
    /\ data' = [data EXCEPT ![node[n]] = c]
    /\ Changed(Holds(n))
    /\ UNCHANGED <<node, dirStamp>>

\* Link, copy or rename an object to a name, replacing what it held.
Place(n, o) ==
    /\ Edit
    /\ node[n] # o
    /\ node' = [node EXCEPT ![n] = o]
    /\ Changed(Holds(n) \cup {o})
    /\ dirStamp' = [dirStamp EXCEPT ![Home[n]] = @ + 1]
    /\ UNCHANGED data

Unlink(n) ==
    /\ Edit
    /\ node[n] # Absent
    /\ node' = [node EXCEPT ![n] = Absent]
    /\ Changed(Holds(n))
    /\ dirStamp' = [dirStamp EXCEPT ![Home[n]] = @ + 1]
    /\ UNCHANGED data

\* Rename a file to another name of the tree.
Move(m, n) ==
    /\ Edit
    /\ node[m] # Absent /\ node[n] # node[m]
    /\ node' = [node EXCEPT ![n] = node[m], ![m] = Absent]
    /\ Changed(Holds(m) \cup Holds(n))
    /\ dirStamp' = [d \in Dirs |->
                      dirStamp[d] + IF d \in {Home[m], Home[n]} THEN 1 ELSE 0]
    /\ UNCHANGED data

User ==
    /\ \E n \in Names :
          \/ \E c \in Contents : Write(n, c)
          \/ \E o \in Objects : Place(n, o)
          \/ \E m \in Names : Move(m, n)
          \/ Unlink(n)
    /\ UNCHANGED <<step, sealed, walking, prints, work, bucket, batch, build,
                   verdicts, stable, snap>>

-----------------------------------------------------------------------------
(* The end of a run.  Whatever its locals held is gone; a draft is         *)
(* abandoned and never shown.                                              *)

End(how) ==
    /\ step' = how
    /\ work' = {} /\ bucket' = {} /\ batch' = NoBatch /\ build' = NoBuild

Interrupt == End("interrupted")

\* A failed read, write, clock or transition anywhere in the pipeline, or the
\* end of the process.
Fault ==
    /\ Live
    /\ Interrupt
    /\ UNCHANGED <<disk, sealed, walking, prints, verdicts, stable, snap>>

\* The control asks to cancel; it is read between entries here, and between
\* tickets, within a read and before the coverage is finalized below.
CancelWalk ==
    /\ step = "enumerate"
    /\ End("cancelled")
    /\ UNCHANGED <<disk, sealed, walking, prints, verdicts, stable, snap>>

-----------------------------------------------------------------------------
(* The walk.                                                               *)

Here       == Head(walk)
Past(e)    == [walk EXCEPT ![1].left = @ \ {e}]
Consume(e) == walk' = Past(e)

Walking(e) ==
    /\ step = "enumerate"
    /\ walk # <<>>
    /\ e \in Here.left
    /\ UNCHANGED <<disk, step, sealed, prints, work, bucket, batch, build,
                   verdicts, stable, snap>>

\* make_file_observation: the signature and the size of what is there.
FileObservation(n) ==
    [obj |-> node[n], stamp |-> stamp[node[n]], size |-> SizeOf[data[node[n]]]]

Observe(n) ==
    /\ Walking(n)
    /\ Cardinality(pending) < BatchLimit
    /\ node[n] # Absent
    /\ Consume(n)
    /\ seen' = Put(seen, n, FileObservation(n))
    /\ pending' = pending \cup {n}
    /\ UNCHANGED <<partial, dirSeen>>

\* The directory does not return the name: there is none, or the directory
\* changed after it was opened and the listing may leave it out.
Overlook(n) ==
    /\ Walking(n)
    /\ n \in Names
    /\ node[n] = Absent \/ dirStamp[Here.dir] # dirSeen[Here.dir]
    /\ Consume(n)
    /\ UNCHANGED <<partial, pending, seen, dirSeen>>

\* An entry that cannot be bound: unreadable, or gone since it was returned.
ReportEntry(e) ==
    /\ Walking(e)
    /\ Consume(e)
    /\ partial' = TRUE
    /\ UNCHANGED <<pending, seen, dirSeen>>

\* emit_directory_observation
NoteDirectory(d) ==
    /\ dirSeen' = Put(dirSeen, d, dirStamp[d])
    /\ pending' = pending \cup {d}

EnterDirectory(d) ==
    /\ Walking(d)
    /\ Cardinality(pending) < BatchLimit
    /\ NoteDirectory(d)
    /\ walk' = <<[dir |-> d, left |-> Entries(d)]>> \o Past(d)
    /\ UNCHANGED <<partial, seen>>

LeaveDirectory ==
    /\ step = "enumerate"
    /\ walk # <<>>
    /\ Here.left = {}
    /\ walk' = Tail(walk)
    /\ UNCHANGED <<disk, step, sealed, partial, pending, seen, dirSeen, prints,
                   work, bucket, batch, build, verdicts, stable, snap>>

\* The directory's signature is the one observed.
UnmovedObject(d) == d \in DOMAIN dirSeen
Unmoved(d) == dirStamp[d] = dirSeen[d]

\* The volume adapter compares of the root its identity only, so that the root
\* may change under it; it is the core that looks at the root's times.
SameDirectory(d) == d = Root \/ Unmoved(d)

\* An observation agrees with a second look through the volume adapter.
Confirmed(e) == IF e \in Names THEN Intact(e) ELSE SameDirectory(e)

FlushEvents ==
    /\ step = "enumerate"
    /\ pending # {}
    /\ IF \A e \in pending : Confirmed(e)
       THEN pending' = {} /\ UNCHANGED <<step, work, bucket, batch, build>>
       ELSE Interrupt /\ UNCHANGED pending
    /\ UNCHANGED <<disk, sealed, walk, partial, seen, dirSeen, prints, verdicts,
                   stable, snap>>

SealEnumeration ==
    /\ step = "enumerate"
    /\ walk = <<>> /\ pending = {}
    /\ sealed' = Put(sealed, "enumeration", Cardinality(Observed))
    /\ step' = "sampling"
    /\ work' = SizeBuckets
    /\ snap' = [n \in Names |->
                  IF node[n] = Absent THEN [obj |-> Absent]
                  ELSE [obj |-> node[n], stamp |-> stamp[node[n]],
                        content |-> data[node[n]]]]
    /\ UNCHANGED <<disk, walking, prints, bucket, batch, build, verdicts, stable>>

-----------------------------------------------------------------------------
(* A batch of tickets: bound through the volume, read one after another    *)
(* through the core, and checked as a whole before anything is recorded.   *)

NextBucket ==
    /\ step \in {"sampling", "full_hash"}
    /\ bucket = {} /\ batch = NoBatch
    /\ \E B \in work : bucket' = B /\ work' = work \ {B}
    /\ UNCHANGED <<disk, step, sealed, walking, prints, batch, build, verdicts,
                   stable, snap>>

\* The next page of the bucket in ticket order, an order of no meaning here.
Pages(S) ==
    {p \in SUBSET S :
        Cardinality(p) = IF Cardinality(S) < BatchLimit THEN Cardinality(S)
                         ELSE BatchLimit}

\* bind_file_ticket: the file there now is the observed object at its size.
Binds(n) ==
    /\ node[n] = seen[n].obj
    /\ SizeOf[data[node[n]]] = seen[n].size

Bind(opened, read) ==
    batch' = [NoBatch EXCEPT !.bound = [n \in opened |-> stamp[node[n]]],
                             !.todo = read]

BindBatch ==
    /\ step \in {"sampling", "full_hash"}
    /\ bucket # {} /\ batch = NoBatch
    /\ \E p \in Pages(bucket) :
          IF \A n \in p : Binds(n)
          THEN /\ Bind(p, p)
               /\ bucket' = bucket \ p
               /\ UNCHANGED <<step, work, build>>
          ELSE Interrupt
    /\ UNCHANGED <<disk, sealed, walking, prints, verdicts, stable, snap>>

\* The files a ticket is read with: in the exact stage its representative too.
ReadWith(n) == IF step = "exact" THEN {build.rep, n} ELSE {n}

InBatch == step \in Reading /\ batch # NoBatch

\* open_file_ticket: the signature of what is there must be the ticket's.
OpenTicket(n) ==
    /\ InBatch
    /\ batch.reading = {} /\ n \in batch.todo
    /\ batch' = IF \A m \in ReadWith(n) : Intact(m)
                THEN [batch EXCEPT !.todo = @ \ {n}, !.reading = {n}]
                ELSE [batch EXCEPT !.todo = @ \ {n}, !.failed = TRUE]
    /\ UNCHANGED <<disk, step, sealed, walking, prints, work, bucket, build,
                   verdicts, stable, snap>>

\* What reading a file, or a pair of files, yields.
Evidence(n) ==
    LET c == data[node[n]]
    IN  CASE step = "sampling"  -> <<SizeOf[c], SampleOf[c]>>
          [] step = "full_hash" -> <<SizeOf[c], DigestOf[c]>>
          [] step = "exact"     -> c = data[node[build.rep]]

\* The events of a read that the stage's sink collects: its evidence, or an
\* issue in its place.
Heard(n)  == [batch EXCEPT !.reading = {}, !.fresh = @ \cup {<<n, Evidence(n)>>}]
Complaint == [batch EXCEPT !.reading = {}, !.failed = TRUE]

\* The read is over.  Evidence counts only when the signature after it is still
\* the one before it; an error of the read fails the ticket as well.
FinishRead(n) ==
    /\ InBatch
    /\ batch.reading = {n}
    /\ \/ (\A m \in ReadWith(n) : Intact(m)) /\ batch' = Heard(n)
       \/ batch' = Complaint
    /\ UNCHANGED <<disk, step, sealed, walking, prints, work, bucket, build,
                   verdicts, stable, snap>>

\* verify_unchanged of every bound file, from the binding to now.
BatchHeld ==
    \A n \in DOMAIN batch.bound :
        node[n] = seen[n].obj /\ stamp[node[n]] = batch.bound[n]

BatchRead == InBatch /\ batch.todo = {} /\ batch.reading = {}

Fresh == [n \in {e[1] : e \in batch.fresh} |->
             (CHOOSE e \in batch.fresh : e[1] = n)[2]]

\* The transaction of run_fingerprint_batch.
RecordPrints ==
    IF step = "sampling"
    THEN sampled' = Over(sampled, Fresh) /\ UNCHANGED hashed
    ELSE hashed' = Over(hashed, Fresh) /\ UNCHANGED sampled

FinishBatch ==
    /\ BatchRead
    /\ step \in {"sampling", "full_hash"}
    /\ IF BatchHeld
       THEN /\ RecordPrints
            /\ IF batch.failed THEN Interrupt
               ELSE batch' = NoBatch /\ UNCHANGED <<step, work, bucket, build>>
       ELSE Interrupt /\ UNCHANGED prints
    /\ UNCHANGED <<disk, sealed, walking, verdicts, stable, snap>>

\* Cancelled within a batch: what was read is recorded, unless it is void.
CancelBatch ==
    /\ InBatch /\ ~ BatchRead
    /\ IF BatchHeld THEN End("cancelled") ELSE Interrupt
    /\ IF BatchHeld /\ step # "exact" THEN RecordPrints ELSE UNCHANGED prints
    /\ UNCHANGED <<disk, sealed, walking, verdicts, stable, snap>>

SealPrints ==
    /\ step \in {"sampling", "full_hash"}
    /\ work = {} /\ bucket = {} /\ batch = NoBatch
    /\ sealed' = Put(sealed, step, Cardinality(IF step = "sampling"
                                               THEN DOMAIN sampled
                                               ELSE DOMAIN hashed))
    /\ step' = IF step = "sampling" THEN "full_hash" ELSE "exact"
    /\ work' = IF step = "sampling" THEN SampleBuckets ELSE DigestBuckets
    /\ UNCHANGED <<disk, walking, prints, bucket, batch, build, verdicts, stable,
                   snap>>

-----------------------------------------------------------------------------
(* Exact verification: one draft group at a time.                          *)

\* begin_exact_group: a draft of at least two, between the two seals.
DraftAllowed(B) ==
    /\ Cardinality(B) >= 2
    /\ Sealed("full_hash") /\ ~ Sealed("exact_verification")
    /\ B \subseteq DOMAIN hashed

Draft(r, B) == [NoBuild EXCEPT !.rep = r, !.planned = B]

\* Buckets are taken one after another: no draft is open between them.
BetweenBuckets == step = "exact" /\ build = NoBuild

\* The first ticket of the next bucket represents it.
BeginGroup ==
    /\ BetweenBuckets
    /\ \E B \in work : \E r \in B :
          IF DraftAllowed(B)
          THEN /\ work' = work \ {B}
               /\ bucket' = B
               /\ build' = Draft(r, B)
               /\ UNCHANGED <<step, batch>>
          ELSE Interrupt
    /\ UNCHANGED <<disk, sealed, walking, prints, verdicts, stable, snap>>

\* Pages of the bucket in ticket order: the representative is on the first.
MemberPages == {p \in Pages(bucket) : build.rep \in bucket => build.rep \in p}

\* append_exact_group_members: the representative first, none of them twice,
\* all with a fingerprint of the draft's digest.
MembersAllowed(p) ==
    /\ p \subseteq build.planned \ build.members
    /\ build.members = {} => build.rep \in p
    /\ \A n \in p : hashed[n] = hashed[build.rep]

WithMembers(p) == [build EXCEPT !.members = @ \cup p]

\* A page of members is recorded, then bound with the representative.
AppendPage ==
    /\ step = "exact"
    /\ bucket # {} /\ batch = NoBatch
    /\ \E p \in MemberPages :
          IF MembersAllowed(p) /\ \A n \in p \cup {build.rep} : Binds(n)
          THEN /\ build' = WithMembers(p)
               /\ bucket' = bucket \ p
               /\ IF p = {build.rep} THEN UNCHANGED batch
                  ELSE Bind(p \cup {build.rep}, p \ {build.rep})
               /\ UNCHANGED <<step, work>>
          ELSE Interrupt
    /\ UNCHANGED <<disk, sealed, walking, prints, verdicts, stable, snap>>

Identical == {n \in DOMAIN Fresh : Fresh[n]}

\* append_exact_verification_edges: from the representative to members of the
\* draft that were observed at its size.
EdgesAllowed(S) ==
    /\ S \subseteq build.members \ {build.rep}
    /\ \A n \in S : seen[n].size = seen[build.rep].size

WithEdges(S) == [build EXCEPT !.edges = @ \cup S]

\* abandon_exact_group_draft: the draft is never shown, its bucket undecided.
Abandon == build' = NoBuild /\ bucket' = {}

\* HASH_COLLISION_DETECTED, with the issue that tells of it.
NoteCollision == collided' = collided \cup {build.planned}

\* run_exact_compare_batch: a failed pair ends the run, a pair that differs
\* abandons the whole bucket and the run goes on with the next.
FinishCompare ==
    /\ BatchRead
    /\ step = "exact"
    /\ IF ~ BatchHeld \/ batch.failed \/ ~ EdgesAllowed(Identical)
       THEN Interrupt /\ UNCHANGED collided
       ELSE /\ batch' = NoBatch
            /\ IF Identical = DOMAIN Fresh
               THEN build' = WithEdges(Identical) /\ UNCHANGED <<bucket, collided>>
               ELSE Abandon /\ NoteCollision
            /\ UNCHANGED <<step, work>>
    /\ UNCHANGED <<disk, sealed, walking, prints, groups, coverage, stable, snap>>

ObjectsOf(S) == {seen[n].obj : n \in S}

\* recompute_exact_group: every member but the representative has its edge, and
\* all have one digest.
Whole ==
    /\ build.members = build.planned
    /\ build.edges = build.planned \ {build.rep}
    /\ \A m, n \in build.members : hashed[m] = hashed[n]

\* ensure_no_verified_exact_group_overlap
Overlaps(g) ==
    \/ g.members \cap build.members # {}
    \/ ObjectsOf(g.members) \cap ObjectsOf(build.members) # {}

\* finalize_exact_group: between the two seals, and of this run's evidence only.
Finalizable ==
    /\ Sealed("full_hash") /\ ~ Sealed("exact_verification")
    /\ Whole
    /\ \A g \in groups : ~ Overlaps(g)

FinalizeGroup ==
    /\ step = "exact"
    /\ build # NoBuild /\ bucket = {} /\ batch = NoBatch
    /\ IF Finalizable
       THEN /\ groups' = groups \cup
                 {[members |-> build.members,
                   independent |-> Cardinality(ObjectsOf(build.members))]}
            /\ build' = NoBuild
            /\ UNCHANGED <<step, work, bucket, batch>>
       ELSE Interrupt /\ UNCHANGED groups
    /\ UNCHANGED <<disk, sealed, walking, prints, collided, coverage, stable,
                   snap>>

BeginCoverage ==
    /\ BetweenBuckets
    /\ work = {}
    /\ step' = "coverage"
    /\ bucket' = DOMAIN dirSeen
    /\ UNCHANGED <<disk, sealed, walking, prints, work, batch, build, verdicts,
                   stable, snap>>

-----------------------------------------------------------------------------
(* Coverage: every directory observed is looked at again.                  *)

\* list_directory_tickets_page
DirectoryPages == Pages(bucket)

BindDirectories ==
    /\ step = "coverage"
    /\ bucket # {} /\ batch = NoBatch
    /\ \E p \in DirectoryPages :
          IF \A d \in p : SameDirectory(d)
          THEN /\ batch' = [NoBatch EXCEPT !.bound = [d \in p |-> dirStamp[d]],
                                           !.todo = p]
               /\ bucket' = bucket \ p
               /\ UNCHANGED <<step, work, build>>
          ELSE Interrupt
    /\ UNCHANGED <<disk, sealed, walking, prints, verdicts, stable, snap>>

\* revalidate_directory_batch: a directory that moved, or cannot be read, is a
\* failure of the coverage, not of the batch.
ReplayDirectory(d) ==
    /\ step = "coverage"
    /\ d \in batch.todo
    /\ batch' = [batch EXCEPT !.todo = @ \ {d}]
    /\ \/ stable' = (stable /\ Unmoved(d))
       \/ stable' = FALSE
    /\ UNCHANGED <<disk, step, sealed, walking, prints, work, bucket, build,
                   verdicts, snap>>

FinishDirectories ==
    /\ step = "coverage"
    /\ batch # NoBatch /\ batch.todo = {}
    /\ IF \A d \in DOMAIN batch.bound : SameDirectory(d)
       THEN batch' = NoBatch /\ UNCHANGED <<step, work, bucket, build>>
       ELSE Interrupt
    /\ UNCHANGED <<disk, sealed, walking, prints, verdicts, stable, snap>>

\* persist_coverage_outcome: once per run, after the full hashes are sealed.
RecordCoverage(status) ==
    /\ coverage = "none" /\ Sealed("full_hash")
    /\ coverage' = status
    /\ UNCHANGED <<groups, collided>>

CancelReplay ==
    /\ step = "coverage"
    /\ batch.todo # {}
    /\ IF \A d \in DOMAIN batch.bound : SameDirectory(d)
       THEN End("cancelled") /\ RecordCoverage("partial")
       ELSE Interrupt /\ UNCHANGED verdicts
    /\ UNCHANGED <<disk, sealed, walking, prints, stable, snap>>

Replayed == step = "coverage" /\ bucket = {} /\ batch = NoBatch

CancelCoverage ==
    /\ Replayed
    /\ End("cancelled")
    /\ RecordCoverage("partial")
    /\ UNCHANGED <<disk, sealed, walking, prints, stable, snap>>

CoverageStable == stable /\ Unmoved(Root)
CoverageComplete == stable /\ Unmoved(Root) /\ ~ partial

\* finalize_coverage: the root is looked at once more, and neither an unstable
\* nor a partial coverage lets the run complete.
CoverageStatus == IF CoverageComplete THEN "complete"
                  ELSE IF stable /\ Unmoved(Root) THEN "partial"
                  ELSE "interrupted"

FinalizeCoverage ==
    /\ Replayed
    /\ RecordCoverage(CoverageStatus)
    /\ IF CoverageStatus = "complete"
       THEN step' = "seal" /\ UNCHANGED <<work, bucket, batch, build>>
       ELSE Interrupt
    /\ UNCHANGED <<disk, sealed, walking, prints, stable, snap>>

\* The seal and the completion are two transactions.  The last seal counts the
\* edges of the run, here the groups they make up.
SealExact ==
    /\ step = "seal"
    /\ coverage = "complete" /\ build = NoBuild
    /\ sealed' = Put(sealed, "exact_verification", Cardinality(groups))
    /\ step' = "complete"
    /\ UNCHANGED <<disk, walking, prints, work, bucket, batch, build, verdicts,
                   stable, snap>>

CompleteRun ==
    /\ step = "complete"
    /\ Sealed("exact_verification")
    /\ End("completed")
    /\ UNCHANGED <<disk, sealed, walking, prints, verdicts, stable, snap>>

-----------------------------------------------------------------------------
Walk ==
    \/ \E n \in Names : Observe(n) \/ Overlook(n)
    \/ \E e \in Names \cup Dirs : ReportEntry(e)
    \/ \E d \in Dirs : EnterDirectory(d)
    \/ LeaveDirectory \/ FlushEvents \/ SealEnumeration \/ CancelWalk

Fingerprint == NextBucket \/ BindBatch \/ FinishBatch \/ SealPrints

ReadTickets == (\E n \in Names : OpenTicket(n) \/ FinishRead(n)) \/ CancelBatch

Verify ==
    BeginGroup \/ AppendPage \/ FinishCompare \/ FinalizeGroup \/ BeginCoverage

Cover ==
    \/ \E d \in Dirs : ReplayDirectory(d)
    \/ BindDirectories \/ FinishDirectories \/ CancelReplay \/ CancelCoverage
    \/ FinalizeCoverage \/ SealExact \/ CompleteRun

Next == User \/ Walk \/ Fingerprint \/ ReadTickets \/ Verify \/ Cover \/ Fault

Spec == Init /\ [][Next]_vars

-----------------------------------------------------------------------------
(* Properties.                                                             *)

Present(n) == snap[n].obj # Absent

\* Types of the run's own records: every stage's evidence is about files that
\* were observed, every bucket and batch is drawn from them, and a group has
\* at least two members.
TypeOK ==
    /\ node \in [Names -> Objects \cup {Absent}]
    /\ data \in [Objects -> Contents]
    /\ stamp \in [Objects -> 0 .. MaxEdits]
    /\ dirStamp \in [Dirs -> 0 .. MaxEdits]
    /\ edits \in 0 .. MaxEdits
    /\ step \in {"enumerate", "sampling", "full_hash", "exact", "coverage",
                 "seal", "complete"} \cup Terminal
    /\ DOMAIN sealed \subseteq Stages
    /\ Observed \subseteq Names
    /\ \A n \in Observed : seen[n].obj \in Objects
    /\ DOMAIN dirSeen \subseteq Dirs
    /\ pending \subseteq Observed \cup DOMAIN dirSeen
    /\ DOMAIN hashed \subseteq DOMAIN sampled /\ DOMAIN sampled \subseteq Observed
    /\ \A B \in work \cup collided : B \subseteq Observed /\ Cardinality(B) >= 2
    /\ bucket \subseteq Observed \cup DOMAIN dirSeen
    /\ DOMAIN batch.bound \subseteq Observed \cup DOMAIN dirSeen
    /\ batch.todo \cup batch.reading \subseteq DOMAIN batch.bound
    /\ build.members \cup build.edges \subseteq build.planned
    /\ \A g \in groups : g.members \subseteq Observed /\ Cardinality(g.members) >= 2
    /\ coverage \in {"none", "complete", "partial", "interrupted"}
    /\ partial \in BOOLEAN /\ stable \in BOOLEAN

\* What every open checks of a run's evidence: a stage is sealed after the one
\* before it and counts exactly what it sealed, so nothing was added later;
SealAudit ==
    /\ Sealed("enumeration") => sealed["enumeration"] = Cardinality(Observed)
    /\ Sealed("sampling") => /\ Sealed("enumeration")
                             /\ sealed["sampling"] = Cardinality(DOMAIN sampled)
    /\ Sealed("full_hash") => /\ Sealed("sampling")
                              /\ sealed["full_hash"] = Cardinality(DOMAIN hashed)
    /\ Sealed("exact_verification") =>
        Sealed("full_hash") /\ build = NoBuild
            /\ sealed["exact_verification"] = Cardinality(groups)

\* a verified group is of at least two files with fingerprints of one digest,
\* and counts its physical files once each;
GroupReplayed(g) ==
    /\ Cardinality(g.members) >= 2
    /\ g.members \subseteq DOMAIN hashed
    /\ \A m, n \in g.members : hashed[m] = hashed[n]
    /\ g.independent = Cardinality(ObjectsOf(g.members))

\* it overlaps no other, neither by observation nor by physical file;
GroupAudit ==
    /\ \A g \in groups : GroupReplayed(g)
    /\ \A g, h \in groups :
        g # h => /\ g.members \cap h.members = {}
                 /\ ObjectsOf(g.members) \cap ObjectsOf(h.members) = {}

\* every coverage outcome is of a run whose full hashes are sealed, and a
\* complete one is of directories that were all stable;
OutcomeAudit ==
    /\ coverage # "none" => Sealed("full_hash")
    /\ coverage = "complete" => stable /\ ~ partial /\ pending = {}

\* the last seal has a complete coverage, and a completed run has the last seal;
CoverageAudit ==
    /\ Sealed("exact_verification") => coverage = "complete"
    /\ step = "completed" => Sealed("exact_verification")

\* the progress shown counts no more files fingerprinted than found.
Progress == [found |-> Cardinality(Observed \ pending),
             printed |-> Cardinality(DOMAIN sampled)]
ProgressAudit == Progress.printed <= Progress.found

\* At whatever step the process dies, and whatever the user was doing to the
\* files, the evidence in the store is such that the next open accepts it.
\* (validate_session_bound_evidence and validate_runtime_stream_evidence,
\* which run before anything is reconciled)
EvidenceReopens ==
    SealAudit /\ GroupAudit /\ OutcomeAudit /\ CoverageAudit /\ ProgressAudit

\* The members of a verified group held the same bytes at one moment, the end
\* of the walk, although they were read at different times while the user was
\* editing, and the count of independent files, from which the reclaimable
\* bytes are computed, is the number of objects they were at that moment
\* (finalize_exact_group).
GroupsWereEqual ==
    \A g \in groups :
        /\ \A n \in g.members : Present(n)
        /\ \A m, n \in g.members : snap[m].content = snap[n].content
        /\ g.independent = Cardinality({snap[n].obj : n \in g.members})

\* Once its groups are visible, a run has observed every media file that was in
\* the tree when the walk ended, also one that came while the walk was past its
\* directory (verify_coverage_inner, finalize_coverage).
NothingMissed ==
    Sealed("exact_verification") =>
        \A n \in Names : Present(n) => n \in Observed

\* Once its groups are visible, a run has found every duplicate: two files that
\* were equal at the end of the walk and had not changed since they were
\* observed are in one group, unless a collision was recorded for them
\* (fingerprint_candidates_inner, verify_exact_duplicates_inner).
EveryDuplicateFound ==
    Sealed("exact_verification") =>
        \A m, n \in Observed :
            (/\ m # n /\ Present(m) /\ Present(n)
             /\ snap[m].stamp = seen[m].stamp /\ snap[n].stamp = seen[n].stamp
             /\ snap[m].obj = seen[m].obj /\ snap[n].obj = seen[n].obj
             /\ snap[m].content = snap[n].content)
            => \/ \E g \in Visible : {m, n} \subseteq g.members
               \/ \E B \in collided : {m, n} \subseteq B

=============================================================================
