--------------------------- MODULE EvidenceProofs ---------------------------
(***************************************************************************)
(* The safety properties of EvidencePipeline, for any tree, any contents   *)
(* and digests, any batch limit and any number of changes by the user: the *)
(* groups a run shows held equal bytes at one moment, nothing of the tree  *)
(* is missed, no duplicate is left out, and every open accepts the rows.   *)
(*                                                                         *)
(* None of the properties is inductive.  Three arguments carry them.       *)
(*                                                                         *)
(* Time.  A stamp only grows, and an object whose stamp stands still has   *)
(* kept its bytes and its names (DiskMoves, ObsInv).  So a file that is    *)
(* intact when it is read after the walk was intact at the end of the walk *)
(* (SnapInv), and every fingerprint, edge and group is about what the name *)
(* held at that one moment (PrintInv, FreshInv, EdgeInv, EqualInv), however *)
(* long the reading took.                                                  *)
(*                                                                         *)
(* Progress.  A candidate bucket is in the work, in hand, or recorded: the *)
(* members of a bucket in hand are still in it, in the batch, or have      *)
(* their fingerprints (BatchInv, FoundInv), and a bucket of one digest     *)
(* ends as a group or as a collision (DecidedInv).                         *)
(*                                                                         *)
(* Coverage.  Behind the walk every entry of an open directory was         *)
(* observed, or was absent, or its directory has changed since (WalkInv).  *)
(* The directories are a tree, so at its end the walk has seen them all    *)
(* (AllSettled), and a file missed is in a directory that has changed      *)
(* (MissInv), which the second look at the directories finds (CoverInv).   *)
(*                                                                         *)
(* Immutability.  Nothing left in an open directory was observed, so no    *)
(* file is observed twice (OnceInv); a fingerprint recorded twice is of    *)
(* the same bytes (PrintInv), so it is not changed either (EvidenceStays). *)
(*                                                                         *)
(* Every action is first reduced to what it does to the state, free of the *)
(* functions that are written (StepCases); each part of the invariant then *)
(* has one lemma with a step for every case.                               *)
(***************************************************************************)
EXTENDS EvidencePipeline, FiniteSetTheorems, SequenceTheorems, TLAPS

-----------------------------------------------------------------------------
(* The inductive invariant.                                                *)

\* What a directory may contain, an open directory of the walk, an observation.
Things  == Names \cup Dirs
Frames  == [dir : Dirs, left : SUBSET Things]
FileObs == [obj : Objects, stamp : Nat, size : Nat]
\* Where a run may be; the fields of a batch.
Steps   == {"enumerate", "sampling", "full_hash", "exact", "coverage", "seal",
            "complete"} \cup Terminal
Fields  == {"bound", "todo", "reading", "fresh", "failed"}

\* Two names held equal bytes at the end of the walk.
Same(m, n) == snap[m].content = snap[n].content

\* The name held at the end of the walk what was observed of it.
Kept(n) == snap[n].obj = seen[n].obj /\ snap[n].stamp = seen[n].stamp

\* The files of the batch whose reading has yielded its evidence.
Printed == {e[1] : e \in batch.fresh}

\* The types of the disk, the walk and the observations.
TypeInv ==
    /\ node \in [Names -> Objects \cup {Absent}]
    /\ data \in [Objects -> Contents]
    /\ stamp \in [Objects -> Nat] /\ \A o \in Objects : stamp[o] <= edits
    /\ dirStamp \in [Dirs -> Nat] /\ \A d \in Dirs : dirStamp[d] <= edits
    /\ edits \in Nat /\ edits <= MaxEdits
    /\ step \in Steps
    /\ DOMAIN sealed \subseteq Stages
    /\ walk \in Seq(Frames)
    /\ partial \in BOOLEAN /\ stable \in BOOLEAN
    /\ Observed \subseteq Names /\ IsFiniteSet(Observed)
    /\ \A n \in Observed : seen[n] \in FileObs
    /\ DOMAIN dirSeen \subseteq Dirs
    /\ \A d \in DOMAIN dirSeen : dirSeen[d] \in Nat
    /\ pending \subseteq Observed \cup DOMAIN dirSeen
    /\ coverage \in {"none", "complete", "partial", "interrupted"}

\* A seal counts what it sealed and comes after the one before it; what belongs
\* to a stage is there only after the seal of the stage before.
SealInv ==
    /\ Sealed("enumeration") =>
         pending = {} /\ sealed["enumeration"] = Cardinality(Observed)
    /\ Sealed("sampling") => /\ Sealed("enumeration")
                             /\ sealed["sampling"] = Cardinality(DOMAIN sampled)
    /\ Sealed("full_hash") => /\ Sealed("sampling")
                              /\ sealed["full_hash"] = Cardinality(DOMAIN hashed)
    /\ Sealed("exact_verification") =>
         /\ Sealed("full_hash") /\ coverage = "complete"
         /\ sealed["exact_verification"] = Cardinality(groups)
    /\ ~ Sealed("enumeration") => DOMAIN sampled = {}
    /\ ~ Sealed("sampling") => DOMAIN hashed = {}
    /\ ~ Sealed("full_hash") => groups = {} /\ collided = {} /\ coverage = "none"
    /\ coverage = "complete" => stable /\ ~ partial

\* Where the run is says what is sealed, and what of its locals is in use.
StepInv ==
    /\ step = "enumerate" => ~ Sealed("enumeration") /\ stable = TRUE
    /\ step = "sampling" => Sealed("enumeration") /\ ~ Sealed("sampling")
    /\ step = "full_hash" => Sealed("sampling") /\ ~ Sealed("full_hash")
    /\ step \in {"exact", "coverage", "seal"} =>
         Sealed("full_hash") /\ ~ Sealed("exact_verification")
    /\ step \in {"complete", "completed"} => Sealed("exact_verification")
    /\ coverage # "none" => step \in {"seal", "complete"} \cup Terminal
    /\ step \in {"seal", "complete"} => coverage = "complete"
    /\ step \notin {"sampling", "full_hash", "exact"} => work = {} /\ build = NoBuild
    /\ step # "exact" => build = NoBuild
    /\ step \notin Reading \cup {"coverage"} => bucket = {} /\ batch = NoBatch
    /\ step = "exact" /\ build = NoBuild => bucket = {} /\ batch = NoBatch

\* What the work of a step is drawn from.
Pool == CASE step = "sampling"  -> Observed
          [] step = "full_hash" -> DOMAIN sampled
          [] step = "exact"     -> DOMAIN hashed
          [] step = "coverage"  -> DOMAIN dirSeen
          [] OTHER              -> {}

\* The evidence of every stage, and all work in hand, is about files with the
\* evidence of the stage before.
WorkInv ==
    /\ DOMAIN batch = Fields
    /\ DOMAIN sampled \subseteq Observed
    /\ DOMAIN hashed \subseteq DOMAIN sampled
    /\ \A B \in work : B \subseteq Pool /\ Cardinality(B) >= 2
    /\ bucket \subseteq Pool
    /\ DOMAIN batch.bound \subseteq Pool
    /\ batch.todo \cup batch.reading \cup Printed \subseteq DOMAIN batch.bound
    /\ \A B \in collided : B \subseteq DOMAIN hashed /\ Cardinality(B) >= 2
    /\ batch.failed \in BOOLEAN

\* A draft is of a bucket of one digest, its members and edges are of that
\* bucket.
BuildInv ==
    /\ DOMAIN build = {"rep", "planned", "members", "edges"}
    /\ build # NoBuild =>
         /\ build.planned \subseteq DOMAIN hashed
         /\ Cardinality(build.planned) >= 2
         /\ build.rep \in build.planned
    /\ build.members \subseteq build.planned
    /\ build.edges \subseteq build.members

\* No observation is newer than its object, and an object with the stamp
\* observed has the size observed.
ObsInv ==
    \A n \in Observed :
        /\ seen[n].stamp <= stamp[seen[n].obj]
        /\ stamp[seen[n].obj] = seen[n].stamp =>
             SizeOf[data[seen[n].obj]] = seen[n].size

\* What is intact now was intact at the end of the walk, with the bytes it has
\* now.
SnapInv ==
    Sealed("enumeration") =>
        \A n \in Observed :
            /\ Intact(n) => Kept(n) /\ snap[n].content = data[seen[n].obj]
            /\ Kept(n) => SizeOf[snap[n].content] = seen[n].size

\* The fingerprints of what a name held at the end of the walk.
SampleResult(n) == <<SizeOf[snap[n].content], SampleOf[snap[n].content]>>
HashResult(n)   == <<SizeOf[snap[n].content], DigestOf[snap[n].content]>>

\* Every fingerprint recorded is of what the name held at the end of the walk.
PrintInv ==
    /\ \A n \in DOMAIN sampled : Kept(n) /\ sampled[n] = SampleResult(n)
    /\ \A n \in DOMAIN hashed : Kept(n) /\ hashed[n] = HashResult(n)

\* Two files read against each other and found alike.
FoundAlike(m, n) == Kept(m) /\ Kept(n) /\ Same(m, n)

\* Every result of the batch not yet recorded is about the end of the walk too.
FreshInv ==
    \A e \in batch.fresh :
        /\ step = "sampling" => Kept(e[1]) /\ e[2] = SampleResult(e[1])
        /\ step = "full_hash" => Kept(e[1]) /\ e[2] = HashResult(e[1])
        /\ step = "exact" => e[2] \in BOOLEAN /\ (e[2] => FoundAlike(e[1], build.rep))

\* An edge joins files that were equal at the end of the walk.
EdgeInv == \A n \in build.edges : FoundAlike(n, build.rep)

\* The evidence behind each verified group is as the next open replays it.
GroupInv == \A g \in groups : GroupReplayed(g)

\* The files of a verified group were equal at the end of the walk.
EqualInv ==
    \A g \in groups :
        /\ \A n \in g.members : Kept(n)
        /\ \A m, n \in g.members : Same(m, n)

\* No file and no object is in two verified groups.
ApartInv ==
    \A g, h \in groups :
        g # h => /\ g.members \cap h.members = {}
                 /\ ObjectsOf(g.members) \cap ObjectsOf(h.members) = {}

\* A file of a batch that has not failed is still to be read, being read, or
\* read.
BatchInv ==
    step \in {"sampling", "full_hash"} /\ ~ batch.failed =>
        DOMAIN batch.bound \subseteq batch.todo \cup batch.reading \cup Printed

\* Every bucket of equal sizes or samples is waiting, or all of it is in hand
\* or has its fingerprints; after the stage all of it has them.
FoundInv ==
    /\ step = "sampling" =>
         \A B \in SizeBuckets :
            B \in work \/ B \subseteq bucket \cup DOMAIN batch.bound \cup DOMAIN sampled
    /\ Sealed("sampling") => \A B \in SizeBuckets : B \subseteq DOMAIN sampled
    /\ step = "full_hash" =>
         \A B \in SampleBuckets :
            B \in work \/ B \subseteq bucket \cup DOMAIN batch.bound \cup DOMAIN hashed
    /\ Sealed("full_hash") => \A B \in SampleBuckets : B \subseteq DOMAIN hashed

\* Every bucket of one digest is waiting, being built, a group, or a collision.
DecidedInv ==
    step \in {"exact", "coverage", "seal"} \/ Sealed("exact_verification") =>
        \A B \in DigestBuckets :
            \/ B \in work \/ B = build.planned \/ B \in collided
            \/ \E g \in groups : g.members = B

\* The directory has changed since it was observed.
Moved(d) == dirStamp[d] # dirSeen[d]

\* What the walk has done with an entry it is past.
Settled(e) ==
    \/ partial
    \/ e \in DOMAIN dirSeen
    \/ e \in Observed
    \/ e \in Names /\ (node[e] = Absent \/ Moved(Home[e]))

\* The open directories are distinct, and what is left of each is not seen yet.
FramesInv ==
    /\ \A i \in 1 .. Len(walk) :
         /\ walk[i].dir \in DOMAIN dirSeen
         /\ walk[i].left \subseteq Entries(walk[i].dir)
         /\ walk[i].left \cap DOMAIN dirSeen = {}
    /\ \A i, j \in 1 .. Len(walk) : i # j => walk[i].dir # walk[j].dir
    /\ \A d \in DOMAIN dirSeen : d = Root \/ Home[d] \in DOMAIN dirSeen
    /\ Root \in DOMAIN dirSeen

\* Every entry of a directory seen is settled or still to come.
EntriesInv ==
    \A d \in DOMAIN dirSeen : \A e \in Entries(d) :
        Settled(e) \/ \E i \in 1 .. Len(walk) : e \in walk[i].left

\* What is true of the walk as long as it goes on.
WalkInv == step = "enumerate" => FramesInv /\ EntriesInv

\* No directory observation is newer than its directory.
DirInv == \A d \in DOMAIN dirSeen : dirSeen[d] <= dirStamp[d]

\* Every file of the directory at the end of the walk was observed.
Covered(n) == n \in Observed \/ ~ Present(n)

\* After a walk without an issue every directory was observed, and a file it
\* missed is in one that has changed since.
MissInv ==
    Sealed("enumeration") /\ ~ partial =>
        /\ DOMAIN dirSeen = Dirs
        /\ \A n \in Names : Covered(n) \/ Moved(Home[n])

\* While the second look has found every directory unmoved, the files it missed
\* are in directories still to be looked at; when it is complete there are
\* none.
CoverInv ==
    /\ step = "coverage" /\ stable /\ ~ partial =>
         \A n \in Names : Home[n] \in bucket \cup batch.todo \/ Covered(n)
    /\ coverage = "complete" => \A n \in Names : Covered(n)

-----------------------------------------------------------------------------
(* The steps of a run, each reduced to what it does to the state.          *)

\* Time passes on the disk: whatever changes has a new stamp.
DiskMoves ==
    /\ node' \in [Names -> Objects \cup {Absent}]
    /\ data' \in [Objects -> Contents]
    /\ stamp' \in [Objects -> Nat] /\ dirStamp' \in [Dirs -> Nat]
    /\ edits' \in Nat /\ edits' <= MaxEdits
    /\ \A o \in Objects : stamp[o] <= stamp'[o] /\ stamp'[o] <= edits'
    /\ \A d \in Dirs : dirStamp[d] <= dirStamp'[d] /\ dirStamp'[d] <= edits'
    /\ \A o \in Objects :
         stamp'[o] = stamp[o] =>
            /\ data'[o] = data[o]
            /\ \A n \in Names : node'[n] = o => node[n] = o
    /\ \A n \in Names : dirStamp'[Home[n]] = dirStamp[Home[n]] => node'[n] = node[n]

\* The user, or nothing, moves the disk only.
UserStep ==
    UNCHANGED <<step, sealed, walking, prints, work, bucket, batch, build,
                verdicts, stable, snap>>

\* The walk, or its event buffer, moves on.
WalkStep ==
    /\ step = "enumerate"
    /\ UNCHANGED <<disk, step, sealed, prints, work, bucket, batch, build,
                   verdicts, stable, snap>>

\* The prints of a batch, each from the evidence of a read.
Recorded ==
    /\ step = "sampling" =>
         /\ hashed' = hashed
         /\ DOMAIN sampled' = DOMAIN sampled \cup Printed
         /\ \A n \in DOMAIN sampled' :
              \/ n \in DOMAIN sampled /\ sampled'[n] = sampled[n]
              \/ \E e \in batch.fresh : e[1] = n /\ sampled'[n] = e[2]
    /\ step = "full_hash" =>
         /\ sampled' = sampled
         /\ DOMAIN hashed' = DOMAIN hashed \cup Printed
         /\ \A n \in DOMAIN hashed' :
              \/ n \in DOMAIN hashed /\ hashed'[n] = hashed[n]
              \/ \E e \in batch.fresh : e[1] = n /\ hashed'[n] = e[2]

\* The run ends, with the last batch recorded, or the coverage, or neither.
Ended ==
    /\ step' \in Terminal
    /\ work' = {} /\ bucket' = {} /\ batch' = NoBatch /\ build' = NoBuild
    /\ \/ UNCHANGED prints
       \/ step \in {"sampling", "full_hash"} /\ Recorded
    /\ \/ UNCHANGED coverage
       \/ coverage = "none" /\ Sealed("full_hash")
            /\ coverage' \in {"partial", "interrupted"}
    /\ step' = "completed" => Sealed("exact_verification")
    /\ UNCHANGED <<disk, sealed, walking, groups, collided, stable, snap>>

\* NextBucket takes bucket B.
BucketTaken(B) ==
    /\ step \in {"sampling", "full_hash"}
    /\ bucket = {} /\ batch = NoBatch
    /\ bucket' = B /\ work' = work \ {B}
    /\ UNCHANGED <<disk, step, sealed, walking, prints, batch, build, verdicts,
                   stable, snap>>

\* A batch of files, or of directories, with no result yet.
NewBatch(bound, todo) ==
    /\ DOMAIN batch' = Fields
    /\ DOMAIN batch'.bound = bound /\ batch'.todo = todo
    /\ batch'.reading = {} /\ batch'.fresh = {} /\ batch'.failed = FALSE

\* BindBatch binds the page p.
BatchBound(p) ==
    /\ step \in {"sampling", "full_hash"}
    /\ batch = NoBatch
    /\ NewBatch(p, p)
    /\ bucket' = bucket \ p
    /\ UNCHANGED <<disk, step, sealed, walking, prints, work, build, verdicts,
                   stable, snap>>

\* OpenTicket opens the ticket of n, or fails it.
TicketOpened(n) ==
    /\ InBatch
    /\ batch.reading = {} /\ n \in batch.todo
    /\ DOMAIN batch' = DOMAIN batch
    /\ batch'.bound = batch.bound /\ batch'.fresh = batch.fresh
    /\ batch'.todo = batch.todo \ {n}
    /\ \/ batch'.reading = {n} /\ batch'.failed = batch.failed
       \/ batch'.reading = {} /\ batch'.failed = TRUE
    /\ UNCHANGED <<disk, step, sealed, walking, prints, work, bucket, build,
                   verdicts, stable, snap>>

\* FinishRead adds the evidence of a file that is still intact, or fails it.
TicketRead(n) ==
    /\ InBatch
    /\ batch.reading = {n}
    /\ DOMAIN batch' = DOMAIN batch
    /\ batch'.bound = batch.bound /\ batch'.todo = batch.todo
    /\ batch'.reading = {}
    /\ \/ /\ \A m \in ReadWith(n) : Intact(m)
          /\ batch'.fresh = batch.fresh \cup {<<n, Evidence(n)>>}
          /\ batch'.failed = batch.failed
       \/ batch'.fresh = batch.fresh /\ batch'.failed = TRUE
    /\ UNCHANGED <<disk, step, sealed, walking, prints, work, bucket, build,
                   verdicts, stable, snap>>

\* FinishBatch records the fingerprints of a batch.
BatchRecorded ==
    /\ BatchRead
    /\ step \in {"sampling", "full_hash"}
    /\ Recorded
    /\ ~ batch.failed
    /\ batch' = NoBatch
    /\ UNCHANGED <<disk, step, sealed, walking, work, bucket, build, verdicts,
                   stable, snap>>

\* A seal is written, and none is lost.
SealAdded(stage, count) ==
    /\ DOMAIN sealed' = DOMAIN sealed \cup {stage}
    /\ sealed'[stage] = count
    /\ \A s \in DOMAIN sealed \ {stage} : sealed'[s] = sealed[s]

\* SealEnumeration, with what every name holds at that moment.
EnumerationSealed ==
    /\ step = "enumerate" /\ step' = "sampling"
    /\ walk = <<>> /\ pending = {}
    /\ SealAdded("enumeration", Cardinality(Observed))
    /\ work' = SizeBuckets
    /\ \A n \in Names :
         \/ node[n] = Absent /\ snap'[n].obj = Absent
         \/ /\ node[n] # Absent
            /\ snap'[n].obj = node[n]
            /\ snap'[n].stamp = stamp[node[n]]
            /\ snap'[n].content = data[node[n]]
    /\ UNCHANGED <<disk, walking, prints, bucket, batch, build, verdicts, stable>>

\* SealPrints at the end of the sampling.
SamplesSealed ==
    /\ step = "sampling" /\ step' = "full_hash"
    /\ work = {} /\ bucket = {} /\ batch = NoBatch
    /\ SealAdded("sampling", Cardinality(DOMAIN sampled))
    /\ work' = SampleBuckets
    /\ UNCHANGED <<disk, walking, prints, bucket, batch, build, verdicts, stable,
                   snap>>

\* SealPrints at the end of the full hashes.
HashesSealed ==
    /\ step = "full_hash" /\ step' = "exact"
    /\ work = {} /\ bucket = {} /\ batch = NoBatch
    /\ SealAdded("full_hash", Cardinality(DOMAIN hashed))
    /\ work' = DigestBuckets
    /\ UNCHANGED <<disk, walking, prints, bucket, batch, build, verdicts, stable,
                   snap>>

\* BeginGroup drafts a group of bucket B with representative r.
GroupBegun(B, r) ==
    /\ BetweenBuckets
    /\ work' = work \ {B} /\ bucket' = B
    /\ build' = Draft(r, B)
    /\ UNCHANGED <<disk, step, sealed, walking, prints, batch, verdicts, stable,
                   snap>>

\* AppendPage adds the members p and binds them with the representative.
PageAppended(p) ==
    /\ step = "exact" /\ bucket # {} /\ batch = NoBatch
    /\ p \subseteq build.planned
    /\ DOMAIN build' = DOMAIN build
    /\ build'.rep = build.rep /\ build'.planned = build.planned
    /\ build'.members = build.members \cup p /\ build'.edges = build.edges
    /\ bucket' = bucket \ p
    /\ \/ batch' = batch
       \/ NewBatch(p \cup {build.rep}, p \ {build.rep})
    /\ UNCHANGED <<disk, step, sealed, walking, prints, work, verdicts, stable,
                   snap>>

\* FinishCompare records the pairs that were identical.
PairsRecorded ==
    /\ InBatch /\ step = "exact"
    /\ batch' = NoBatch
    /\ DOMAIN build' = DOMAIN build
    /\ build'.rep = build.rep /\ build'.planned = build.planned
    /\ build'.members = build.members
    /\ build.edges \subseteq build'.edges
    /\ build'.edges \subseteq build.edges \cup build.members
    /\ \A n \in build'.edges \ build.edges : \E e \in batch.fresh : e[1] = n /\ e[2]
    /\ UNCHANGED <<disk, step, sealed, walking, prints, work, bucket, verdicts,
                   stable, snap>>

\* FinishCompare abandons a bucket with a pair that differs.
CollisionNoted ==
    /\ InBatch /\ step = "exact"
    /\ batch' = NoBatch /\ build' = NoBuild /\ bucket' = {}
    /\ collided' = collided \cup {build.planned}
    /\ UNCHANGED <<disk, step, sealed, walking, prints, work, groups, coverage,
                   stable, snap>>

\* The group a draft becomes.
NewGroup == [members |-> build.members,
             independent |-> Cardinality(ObjectsOf(build.members))]

\* FinalizeGroup makes the draft a verified group.
GroupFinalized ==
    /\ step = "exact" /\ build # NoBuild /\ bucket = {} /\ batch = NoBatch
    /\ Finalizable
    /\ groups' = groups \cup {NewGroup}
    /\ build' = NoBuild
    /\ UNCHANGED <<disk, step, sealed, walking, prints, work, bucket, batch,
                   collided, coverage, stable, snap>>

\* BindDirectories binds the page p of directories.
DirectoriesBound(p) ==
    /\ step = "coverage" /\ batch = NoBatch
    /\ NewBatch(p, p)
    /\ bucket' = bucket \ p
    /\ UNCHANGED <<disk, step, sealed, walking, prints, work, build, verdicts,
                   stable, snap>>

\* ReplayDirectory looks at d, and finds it unmoved or not.
DirectoryReplayed(d) ==
    /\ step = "coverage" /\ d \in batch.todo
    /\ DOMAIN batch' = DOMAIN batch
    /\ batch'.bound = batch.bound /\ batch'.fresh = batch.fresh
    /\ batch'.reading = batch.reading /\ batch'.failed = batch.failed
    /\ batch'.todo = batch.todo \ {d}
    /\ stable' \in BOOLEAN
    /\ stable' => stable /\ Unmoved(d)
    /\ UNCHANGED <<disk, step, sealed, walking, prints, work, bucket, build,
                   verdicts, snap>>

\* FinishDirectories ends a batch of directories.
DirectoriesHeld ==
    /\ step = "coverage" /\ batch.todo = {}
    /\ batch' = NoBatch
    /\ UNCHANGED <<disk, step, sealed, walking, prints, work, bucket, build,
                   verdicts, stable, snap>>

\* FinalizeCoverage with a complete coverage.
CoverageCompleted ==
    /\ step = "coverage" /\ bucket = {} /\ batch = NoBatch
    /\ stable /\ ~ partial
    /\ step' = "seal" /\ coverage' = "complete"
    /\ UNCHANGED <<disk, sealed, walking, prints, work, bucket, batch, build,
                   groups, collided, stable, snap>>

\* SealExact writes the last seal.
ExactSealed ==
    /\ step = "seal" /\ step' = "complete"
    /\ coverage = "complete"
    /\ SealAdded("exact_verification", Cardinality(groups))
    /\ UNCHANGED <<disk, walking, prints, work, bucket, batch, build, verdicts,
                   stable, snap>>

\* All that a step may do.
Cases ==
    \/ UserStep \/ WalkStep \/ EnumerationSealed \/ Ended
    \/ \E B \in work : BucketTaken(B)
    \/ \E p \in SUBSET bucket : BatchBound(p)
    \/ \E n \in batch.todo : TicketOpened(n)
    \/ \E n \in batch.reading : TicketRead(n)
    \/ BatchRecorded \/ SamplesSealed \/ HashesSealed
    \/ \E B \in work : \E r \in B : GroupBegun(B, r)
    \/ \E p \in SUBSET bucket : PageAppended(p)
    \/ PairsRecorded \/ CollisionNoted \/ GroupFinalized \/ BeginCoverage
    \/ \E p \in SUBSET bucket : DirectoriesBound(p)
    \/ \E d \in Dirs : DirectoryReplayed(d)
    \/ DirectoriesHeld \/ CoverageCompleted \/ ExactSealed
-----------------------------------------------------------------------------
(* Records and functions.                                                  *)

\* No batch: nothing bound, nothing to read, nothing read.
LEMMA EmptyBatch ==
  /\ DOMAIN NoBatch = Fields /\ DOMAIN NoBatch.bound = {}
  /\ NoBatch.todo = {} /\ NoBatch.reading = {} /\ NoBatch.fresh = {}
  /\ NoBatch.failed = FALSE
  BY DEF NoBatch, Fields

\* No draft: nothing planned.
LEMMA EmptyBuild ==
  /\ DOMAIN NoBuild = {"rep", "planned", "members", "edges"}
  /\ NoBuild.planned = {} /\ NoBuild.members = {} /\ NoBuild.edges = {}
  BY DEF NoBuild

\* The results of a batch are of the files printed, each from a read of it.
LEMMA FreshResults ==
  /\ DOMAIN Fresh = Printed
  /\ \A n \in Printed : \E e \in batch.fresh : e[1] = n /\ Fresh[n] = e[2]
  <1>1. DOMAIN Fresh = Printed
    BY DEF Fresh, Printed
  <1>2. ASSUME NEW n \in Printed
        PROVE  \E e \in batch.fresh : e[1] = n /\ Fresh[n] = e[2]
    <2>1. PICK d : d = CHOOSE e \in batch.fresh : e[1] = n
      OBVIOUS
    <2>2. d \in batch.fresh /\ d[1] = n
      BY <2>1 DEF Printed
    <2> QED
      BY <2>1, <2>2 DEF Fresh, Printed
  <1> QED
    BY <1>1, <1>2

\* RecordPrints adds the batch's fingerprints to the table of its stage and
\* keeps those already there (record_fingerprint_fresh_batch_impl).
LEMMA Recording ==
  ASSUME step \in {"sampling", "full_hash"}, RecordPrints
  PROVE  Recorded
  <1>1. CASE step = "sampling"
    <2>1. sampled' = Over(sampled, Fresh) /\ hashed' = hashed
      BY <1>1 DEF RecordPrints
    <2>2. PICK g : g = sampled'
      OBVIOUS
    <2>3. /\ DOMAIN g = DOMAIN sampled \cup DOMAIN Fresh
          /\ \A y \in DOMAIN g :
                \/ y \in DOMAIN Fresh /\ g[y] = Fresh[y]
                \/ y \in DOMAIN sampled /\ g[y] = sampled[y]
      BY <2>1, <2>2 DEF Over
    <2>4. \A n \in DOMAIN g :
              \/ n \in DOMAIN sampled /\ g[n] = sampled[n]
              \/ \E e \in batch.fresh : e[1] = n /\ g[n] = e[2]
      BY <2>3, FreshResults
    <2> QED
      BY <1>1, <2>1, <2>2, <2>3, <2>4, FreshResults DEF Recorded
  <1>2. CASE step = "full_hash"
    <2>1. hashed' = Over(hashed, Fresh) /\ sampled' = sampled
      BY <1>2 DEF RecordPrints
    <2>2. PICK g : g = hashed'
      OBVIOUS
    <2>3. /\ DOMAIN g = DOMAIN hashed \cup DOMAIN Fresh
          /\ \A y \in DOMAIN g :
                \/ y \in DOMAIN Fresh /\ g[y] = Fresh[y]
                \/ y \in DOMAIN hashed /\ g[y] = hashed[y]
      BY <2>1, <2>2 DEF Over
    <2>4. \A n \in DOMAIN g :
              \/ n \in DOMAIN hashed /\ g[n] = hashed[n]
              \/ \E e \in batch.fresh : e[1] = n /\ g[n] = e[2]
      BY <2>3, FreshResults
    <2> QED
      BY <1>2, <2>1, <2>2, <2>3, <2>4, FreshResults DEF Recorded
  <1> QED
    BY <1>1, <1>2

\* Bind starts a batch with no result and no failure (bind_file_ticket).
LEMMA Binding ==
  ASSUME NEW o, NEW r, Bind(o, r)
  PROVE  NewBatch(o, r)
  BY DEF Bind, NewBatch, NoBatch, Fields

\* A seal put among the others keeps them.
LEMMA Sealing ==
  ASSUME NEW s, NEW c, sealed' = Put(sealed, s, c)
  PROVE  SealAdded(s, c)
  BY DEF Put, SealAdded

-----------------------------------------------------------------------------
(* What each action does.                                                  *)

\* A change by the user touches nothing of the run.
LEMMA UserCase ==
  ASSUME User
  PROVE  UserStep
  BY DEF User, UserStep

\* A step of the walk goes on, seals the enumeration, or ends the run.
LEMMA WalkCase ==
  ASSUME Walk
  PROVE  WalkStep \/ EnumerationSealed \/ Ended
  <1> USE DEF disk, walking, prints, verdicts
  <1>1. ASSUME NEW n \in Names, Observe(n) PROVE WalkStep
    BY <1>1 DEF Observe, Walking, WalkStep
  <1>2. ASSUME NEW n \in Names, Overlook(n) PROVE WalkStep
    BY <1>2 DEF Overlook, Walking, WalkStep
  <1>3. ASSUME NEW e, ReportEntry(e) PROVE WalkStep
    BY <1>3 DEF ReportEntry, Walking, WalkStep
  <1>4. ASSUME NEW d, EnterDirectory(d) PROVE WalkStep
    BY <1>4 DEF EnterDirectory, Walking, WalkStep
  <1>5. CASE LeaveDirectory
    BY <1>5 DEF LeaveDirectory, WalkStep
  <1>6. CASE FlushEvents
    BY <1>6 DEF FlushEvents, WalkStep, Ended, Interrupt, End, Terminal
  <1>7. CASE SealEnumeration
    <2>1. SealAdded("enumeration", Cardinality(Observed))
      BY <1>7, Sealing DEF SealEnumeration
    <2>2. ASSUME NEW n \in Names
          PROVE  \/ node[n] = Absent /\ snap'[n].obj = Absent
                 \/ /\ node[n] # Absent
                    /\ snap'[n].obj = node[n]
                    /\ snap'[n].stamp = stamp[node[n]]
                    /\ snap'[n].content = data[node[n]]
      BY <1>7, <2>2 DEF SealEnumeration
    <2> QED
      BY <1>7, <2>1, <2>2 DEF SealEnumeration, EnumerationSealed
  <1>8. CASE CancelWalk
    BY <1>8 DEF CancelWalk, Ended, End, Terminal
  <1> QED
    BY <1>1, <1>2, <1>3, <1>4, <1>5, <1>6, <1>7, <1>8 DEF Walk

\* A step of the sampling or hashing stage takes a bucket, binds, records,
\* seals, or ends the run (fingerprint_candidates_inner).
LEMMA FingerprintCase ==
  ASSUME Fingerprint
  PROVE  \/ \E B \in work : BucketTaken(B)
         \/ \E p \in SUBSET bucket : BatchBound(p)
         \/ BatchRecorded \/ SamplesSealed \/ HashesSealed \/ Ended
  <1> USE DEF disk, walking, prints, verdicts
  <1>1. CASE NextBucket
    BY <1>1 DEF NextBucket, BucketTaken
  <1>2. CASE BindBatch
    <2>1. PICK p \in Pages(bucket) :
            \/ Bind(p, p) /\ bucket' = bucket \ p /\ UNCHANGED <<step, work, build>>
            \/ Interrupt
      BY <1>2 DEF BindBatch
    <2>2. p \in SUBSET bucket
      BY DEF Pages
    <2>3. CASE Bind(p, p) /\ bucket' = bucket \ p /\ UNCHANGED <<step, work, build>>
      BY <1>2, <2>2, <2>3, Binding DEF BindBatch, BatchBound
    <2>4. CASE Interrupt
      BY <1>2, <2>4 DEF BindBatch, Ended, Interrupt, End, Terminal
    <2> QED
      BY <2>1, <2>3, <2>4
  <1>3. CASE FinishBatch
    <2>1. CASE RecordPrints
      <3>1. Recorded
        BY <1>3, <2>1, Recording DEF FinishBatch
      <3>2. CASE batch.failed /\ Interrupt
        BY <1>3, <3>1, <3>2 DEF FinishBatch, Ended, Interrupt, End, Terminal
      <3>3. CASE ~ batch.failed /\ batch' = NoBatch /\ UNCHANGED <<step, work, bucket, build>>
        BY <1>3, <3>1, <3>3 DEF FinishBatch, BatchRecorded
      <3>4. CASE Interrupt /\ UNCHANGED prints
        BY <1>3, <3>4 DEF FinishBatch, Ended, Interrupt, End, Terminal
      <3> QED
        BY <1>3, <3>2, <3>3, <3>4 DEF FinishBatch
    <2>2. CASE Interrupt /\ UNCHANGED prints
      BY <1>3, <2>2 DEF FinishBatch, Ended, Interrupt, End, Terminal
    <2> QED
      BY <1>3, <2>1, <2>2 DEF FinishBatch
  <1>4. CASE SealPrints
    <2>1. CASE step = "sampling"
      <3>1. sealed' = Put(sealed, "sampling", Cardinality(DOMAIN sampled))
        BY <1>4, <2>1 DEF SealPrints
      <3>2. SealAdded("sampling", Cardinality(DOMAIN sampled))
        BY <3>1, Sealing
      <3> QED
        BY <1>4, <2>1, <3>2 DEF SealPrints, SamplesSealed
    <2>2. CASE step = "full_hash"
      <3>1. sealed' = Put(sealed, "full_hash", Cardinality(DOMAIN hashed))
        BY <1>4, <2>2 DEF SealPrints
      <3>2. SealAdded("full_hash", Cardinality(DOMAIN hashed))
        BY <3>1, Sealing
      <3> QED
        BY <1>4, <2>2, <3>2 DEF SealPrints, HashesSealed
    <2> QED
      BY <1>4, <2>1, <2>2 DEF SealPrints
  <1> QED
    BY <1>1, <1>2, <1>3, <1>4 DEF Fingerprint

\* A step of reading opens a ticket, ends a read, or ends the run
\* (fingerprint_batch).
LEMMA ReadCase ==
  ASSUME DOMAIN batch = Fields, ReadTickets
  PROVE  \/ \E n \in batch.todo : TicketOpened(n)
         \/ \E n \in batch.reading : TicketRead(n)
         \/ Ended
  <1> USE DEF disk, walking, prints, verdicts
  <1>1. ASSUME NEW n \in Names, OpenTicket(n) PROVE n \in batch.todo /\ TicketOpened(n)
    <2>1. PICK w : w = batch'
      OBVIOUS
    <2>2. \/ w = [batch EXCEPT !.todo = @ \ {n}, !.reading = {n}]
          \/ w = [batch EXCEPT !.todo = @ \ {n}, !.failed = TRUE]
      BY <1>1, <2>1 DEF OpenTicket
    <2>3. /\ DOMAIN w = Fields /\ w.bound = batch.bound
          /\ w.fresh = batch.fresh /\ w.todo = batch.todo \ {n}
          /\ \/ w.reading = {n} /\ w.failed = batch.failed
             \/ w.reading = batch.reading /\ w.failed = TRUE
      BY <2>2 DEF Fields
    <2> QED
      BY <1>1, <2>1, <2>3 DEF OpenTicket, TicketOpened
  <1>2. ASSUME NEW n \in Names, FinishRead(n) PROVE n \in batch.reading /\ TicketRead(n)
    <2>1. PICK w : w = batch'
      OBVIOUS
    <2>2. PICK v : v = Evidence(n)
      OBVIOUS
    <2>3. \/ /\ \A m \in ReadWith(n) : Intact(m)
             /\ w = [batch EXCEPT !.reading = {}, !.fresh = @ \cup {<<n, v>>}]
          \/ w = [batch EXCEPT !.reading = {}, !.failed = TRUE]
      BY <1>2, <2>1, <2>2 DEF FinishRead, Heard, Complaint
    <2>4. /\ DOMAIN w = Fields /\ w.bound = batch.bound
          /\ w.todo = batch.todo /\ w.reading = {}
          /\ \/ /\ \A m \in ReadWith(n) : Intact(m)
                /\ w.fresh = batch.fresh \cup {<<n, v>>} /\ w.failed = batch.failed
             \/ w.fresh = batch.fresh /\ w.failed = TRUE
      BY <2>3 DEF Fields
    <2> QED
      BY <1>2, <2>1, <2>2, <2>4 DEF FinishRead, TicketRead
  <1>3. CASE CancelBatch
    <2>1. \/ UNCHANGED prints
          \/ step \in {"sampling", "full_hash"} /\ Recorded
      BY <1>3, Recording DEF CancelBatch, InBatch, Reading
    <2> QED
      BY <1>3, <2>1 DEF CancelBatch, Ended, Interrupt, End, Terminal
  <1> QED
    BY <1>1, <1>2, <1>3 DEF ReadTickets

\* A step of the exact stage drafts, appends, records, abandons, finalizes,
\* goes on to the coverage, or ends the run (verify_exact_duplicates_inner).
LEMMA VerifyCase ==
  ASSUME DOMAIN build = {"rep", "planned", "members", "edges"}, BuildInv, Verify
  PROVE  \/ \E B \in work : \E r \in B : GroupBegun(B, r)
         \/ \E p \in SUBSET bucket : PageAppended(p)
         \/ PairsRecorded \/ CollisionNoted \/ GroupFinalized \/ BeginCoverage
         \/ Ended
  <1> USE DEF disk, walking, prints, verdicts
  <1>1. CASE BeginGroup
    <2> PICK B \in work : \E r \in B :
            \/ /\ work' = work \ {B} /\ bucket' = B /\ build' = Draft(r, B)
               /\ UNCHANGED <<step, batch>>
            \/ Interrupt
      BY <1>1 DEF BeginGroup
    <2>1. PICK r \in B :
            \/ /\ work' = work \ {B} /\ bucket' = B /\ build' = Draft(r, B)
               /\ UNCHANGED <<step, batch>>
            \/ Interrupt
      OBVIOUS
    <2>2. CASE /\ work' = work \ {B} /\ bucket' = B /\ build' = Draft(r, B)
               /\ UNCHANGED <<step, batch>>
      BY <1>1, <2>2 DEF BeginGroup, GroupBegun
    <2>3. CASE Interrupt
      BY <1>1, <2>3 DEF BeginGroup, Ended, Interrupt, End, Terminal
    <2> QED
      BY <2>1, <2>2, <2>3
  <1>2. CASE AppendPage
    <2>1. PICK p \in MemberPages :
            \/ /\ MembersAllowed(p)
               /\ build' = WithMembers(p) /\ bucket' = bucket \ p
               /\ \/ UNCHANGED batch
                  \/ Bind(p \cup {build.rep}, p \ {build.rep})
               /\ UNCHANGED <<step, work>>
            \/ Interrupt
      BY <1>2 DEF AppendPage
    <2>2. p \in SUBSET bucket
      BY DEF MemberPages, Pages
    <2>3. CASE /\ MembersAllowed(p)
               /\ build' = WithMembers(p) /\ bucket' = bucket \ p
               /\ \/ UNCHANGED batch
                  \/ Bind(p \cup {build.rep}, p \ {build.rep})
               /\ UNCHANGED <<step, work>>
      <3>1. PICK w : w = build'
        OBVIOUS
      <3>2. w = [build EXCEPT !.members = @ \cup p]
        BY <2>3, <3>1 DEF WithMembers
      <3>3. /\ DOMAIN w = DOMAIN build /\ w.rep = build.rep
            /\ w.planned = build.planned /\ w.edges = build.edges
            /\ w.members = build.members \cup p
        BY <3>2
      <3>4. batch' = batch \/ NewBatch(p \cup {build.rep}, p \ {build.rep})
        BY <2>3, Binding
      <3>5. p \subseteq build.planned
        BY <2>3 DEF MembersAllowed
      <3> QED
        BY <1>2, <2>2, <2>3, <3>1, <3>3, <3>4, <3>5 DEF AppendPage, PageAppended
    <2>4. CASE Interrupt
      BY <1>2, <2>4 DEF AppendPage, Ended, Interrupt, End, Terminal
    <2> QED
      BY <2>1, <2>3, <2>4
  <1>3. CASE FinishCompare
    <2>1. \/ Interrupt /\ UNCHANGED collided
          \/ /\ EdgesAllowed(Identical) /\ batch' = NoBatch
             /\ build' = WithEdges(Identical)
             /\ UNCHANGED <<bucket, collided, step, work>>
          \/ /\ batch' = NoBatch /\ build' = NoBuild /\ bucket' = {}
             /\ collided' = collided \cup {build.planned}
             /\ UNCHANGED <<step, work>>
      BY <1>3 DEF FinishCompare, Abandon, NoteCollision
    <2>2. CASE Interrupt /\ UNCHANGED collided
      BY <1>3, <2>2 DEF FinishCompare, Ended, Interrupt, End, Terminal
    <2>3. CASE /\ EdgesAllowed(Identical) /\ batch' = NoBatch
               /\ build' = WithEdges(Identical)
               /\ UNCHANGED <<bucket, collided, step, work>>
      <3>1. PICK w : w = build'
        OBVIOUS
      <3>2. PICK S : S = Identical
        OBVIOUS
      <3>3. w = [build EXCEPT !.edges = @ \cup S]
        BY <2>3, <3>1, <3>2 DEF WithEdges
      <3>4. /\ DOMAIN w = DOMAIN build /\ w.rep = build.rep
            /\ w.planned = build.planned /\ w.members = build.members
            /\ w.edges = build.edges \cup S
        BY <3>3
      <3>5. S \subseteq build.members
        BY <2>3, <3>2 DEF EdgesAllowed
      <3>6. \A n \in S : \E e \in batch.fresh : e[1] = n /\ e[2]
        BY <3>2, FreshResults DEF Identical
      <3> QED
        BY <1>3, <2>3, <3>1, <3>4, <3>5, <3>6
           DEF FinishCompare, BatchRead, PairsRecorded
    <2>4. CASE /\ batch' = NoBatch /\ build' = NoBuild /\ bucket' = {}
               /\ collided' = collided \cup {build.planned}
               /\ UNCHANGED <<step, work>>
      BY <1>3, <2>4 DEF FinishCompare, BatchRead, CollisionNoted
    <2> QED
      BY <2>1, <2>2, <2>3, <2>4
  <1>4. CASE FinalizeGroup
    <2>1. CASE Finalizable
      BY <1>4, <2>1 DEF FinalizeGroup, GroupFinalized, NewGroup
    <2>2. CASE ~ Finalizable
      BY <1>4, <2>2 DEF FinalizeGroup, Ended, Interrupt, End, Terminal
    <2> QED
      BY <2>1, <2>2
  <1> QED
    BY <1>1, <1>2, <1>3, <1>4 DEF Verify

\* A step of the coverage binds, replays, closes a batch, completes the
\* coverage, seals, or ends the run (verify_coverage_inner).
LEMMA CoverCase ==
  ASSUME DOMAIN batch = Fields, stable \in BOOLEAN, Cover
  PROVE  \/ \E p \in SUBSET bucket : DirectoriesBound(p)
         \/ \E d \in Dirs : DirectoryReplayed(d)
         \/ DirectoriesHeld \/ CoverageCompleted \/ ExactSealed \/ Ended
  <1> USE DEF disk, walking, prints, verdicts
  <1>1. ASSUME NEW d \in Dirs, ReplayDirectory(d) PROVE DirectoryReplayed(d)
    <2>1. PICK w : w = batch'
      OBVIOUS
    <2>2. w = [batch EXCEPT !.todo = @ \ {d}]
      BY <1>1, <2>1 DEF ReplayDirectory
    <2>3. /\ DOMAIN w = Fields /\ w.bound = batch.bound /\ w.fresh = batch.fresh
          /\ w.reading = batch.reading /\ w.failed = batch.failed
          /\ w.todo = batch.todo \ {d}
      BY <2>2 DEF Fields
    <2>4. stable' \in BOOLEAN /\ (stable' => stable /\ Unmoved(d))
      BY <1>1, Zenon DEF ReplayDirectory
    <2> QED
      BY <1>1, <2>1, <2>3, <2>4 DEF ReplayDirectory, DirectoryReplayed
  <1>2. CASE BindDirectories
    <2>1. PICK p \in Pages(bucket) :
            \/ /\ batch' = [NoBatch EXCEPT !.bound = [d \in p |-> dirStamp[d]],
                                           !.todo = p]
               /\ bucket' = bucket \ p
               /\ UNCHANGED <<step, work, build>>
            \/ Interrupt
      BY <1>2 DEF BindDirectories, DirectoryPages
    <2>2. p \in SUBSET bucket
      BY DEF Pages
    <2>3. CASE /\ batch' = [NoBatch EXCEPT !.bound = [d \in p |-> dirStamp[d]],
                                           !.todo = p]
               /\ bucket' = bucket \ p
               /\ UNCHANGED <<step, work, build>>
      <3>1. NewBatch(p, p)
        BY <2>3 DEF NewBatch, NoBatch, Fields
      <3> QED
        BY <1>2, <2>2, <2>3, <3>1 DEF BindDirectories, DirectoriesBound
    <2>4. CASE Interrupt
      BY <1>2, <2>4 DEF BindDirectories, Ended, Interrupt, End, Terminal
    <2> QED
      BY <2>1, <2>3, <2>4
  <1>3. CASE FinishDirectories
    BY <1>3 DEF FinishDirectories, DirectoriesHeld, Ended, Interrupt, End, Terminal
  <1>4. CASE CancelReplay
    BY <1>4 DEF CancelReplay, RecordCoverage, Ended, Interrupt, End, Terminal
  <1>5. CASE CancelCoverage
    BY <1>5 DEF CancelCoverage, RecordCoverage, Ended, Interrupt, End, Terminal
  <1>6. CASE FinalizeCoverage
    <2>1. coverage = "none" /\ Sealed("full_hash") /\ UNCHANGED <<groups, collided>>
      BY <1>6 DEF FinalizeCoverage, RecordCoverage
    <2>2. \/ /\ CoverageComplete /\ coverage' = "complete" /\ step' = "seal"
             /\ UNCHANGED <<work, bucket, batch, build>>
          \/ coverage' \in {"partial", "interrupted"} /\ Interrupt
      BY <1>6 DEF FinalizeCoverage, RecordCoverage, CoverageStatus
    <2>3. CASE /\ CoverageComplete /\ coverage' = "complete" /\ step' = "seal"
               /\ UNCHANGED <<work, bucket, batch, build>>
      BY <1>6, <2>1, <2>3
         DEF FinalizeCoverage, Replayed, CoverageComplete, CoverageCompleted
    <2>4. CASE coverage' \in {"partial", "interrupted"} /\ Interrupt
      BY <1>6, <2>1, <2>4 DEF FinalizeCoverage, Ended, Interrupt, End, Terminal
    <2> QED
      BY <2>2, <2>3, <2>4
  <1>7. CASE SealExact
    BY <1>7, Sealing DEF SealExact, ExactSealed
  <1>8. CASE CompleteRun
    BY <1>8 DEF CompleteRun, Ended, End, Terminal
  <1> QED
    BY <1>1, <1>2, <1>3, <1>4, <1>5, <1>6, <1>7, <1>8 DEF Cover

\* Every step of the specification is one of the cases.
LEMMA StepCases ==
  ASSUME TypeInv, WorkInv, BuildInv, [Next]_vars
  PROVE  Cases
  <1>1. /\ DOMAIN batch = Fields /\ stable \in BOOLEAN
        /\ DOMAIN build = {"rep", "planned", "members", "edges"}
    BY DEF TypeInv, WorkInv, BuildInv
  <1>2. CASE Fault
    BY <1>2 DEF Fault, Cases, Ended, Interrupt, End, Terminal, prints, verdicts,
       disk, walking
  <1>3. CASE UNCHANGED vars
    BY <1>3 DEF vars, UserStep, Cases, disk, walking, prints, verdicts
  <1>4. CASE Walk
    BY <1>4, WalkCase DEF Cases
  <1>5. CASE Fingerprint
    BY <1>5, FingerprintCase DEF Cases
  <1>6. CASE ReadTickets
    BY <1>1, <1>6, ReadCase DEF Cases
  <1>7. CASE Verify
    BY <1>1, <1>7, VerifyCase DEF Cases
  <1>8. CASE Cover
    BY <1>1, <1>8, CoverCase DEF Cases
  <1> QED
    BY <1>2, <1>3, <1>4, <1>5, <1>6, <1>7, <1>8, UserCase DEF Next, Cases

-----------------------------------------------------------------------------
(* The disk.                                                               *)

\* A step that leaves the disk alone moves it in no forbidden way.
LEMMA StillDisk ==
  ASSUME TypeInv, UNCHANGED disk
  PROVE  DiskMoves
  BY DEF TypeInv, DiskMoves, disk

\* A change gives each object changed a new stamp and no object an older one.
LEMMA Stamps ==
  ASSUME TypeInv, Edit, NEW S, Changed(S)
  PROVE  /\ stamp' \in [Objects -> Nat]
         /\ edits' \in Nat /\ edits' <= MaxEdits /\ edits < edits'
         /\ \A o \in Objects : stamp[o] <= stamp'[o] /\ stamp'[o] <= edits'
         /\ \A o \in Objects : stamp'[o] = stamp[o] => o \notin S
  <1>1. edits \in Nat /\ edits' = edits + 1 /\ edits' <= MaxEdits
    BY BoundAssumption DEF TypeInv, Edit
  <1>2. ASSUME NEW o \in Objects
        PROVE  /\ stamp'[o] \in Nat /\ stamp[o] <= stamp'[o] /\ stamp'[o] <= edits'
               /\ stamp'[o] = stamp[o] => o \notin S
    BY <1>1 DEF TypeInv, Changed
  <1>3. stamp' \in [Objects -> Nat]
    BY <1>1, <1>2 DEF TypeInv, Changed
  <1> QED
    BY <1>1, <1>2, <1>3

\* A name that comes, goes or is replaced gives its directory a new stamp.
LEMMA DirStamps ==
  ASSUME TypeInv, edits' \in Nat, edits' = edits + 1, NEW n \in Names,
         dirStamp' = [dirStamp EXCEPT ![Home[n]] = @ + 1]
  PROVE  /\ dirStamp' \in [Dirs -> Nat]
         /\ \A d \in Dirs : dirStamp[d] <= dirStamp'[d] /\ dirStamp'[d] <= edits'
         /\ dirStamp'[Home[n]] # dirStamp[Home[n]]
  <1>1. Home[n] \in Dirs
    BY TreeAssumption
  <1> QED
    BY <1>1 DEF TypeInv

\* Whatever the user does, an object whose stamp stands still has kept its
\* bytes and names, and a directory whose stamp stands still its entries.
LEMMA UserMoves ==
  ASSUME TypeInv, User
  PROVE  DiskMoves
  <1>0. /\ node \in [Names -> Objects \cup {Absent}] /\ data \in [Objects -> Contents]
        /\ dirStamp \in [Dirs -> Nat] /\ edits \in Nat
        /\ \A d \in Dirs : dirStamp[d] <= edits
    BY DEF TypeInv
  <1>1. ASSUME NEW n \in Names, NEW c \in Contents, Write(n, c) PROVE DiskMoves
    <2>1. Edit /\ Changed(Holds(n)) /\ node' = node /\ dirStamp' = dirStamp
      BY <1>1 DEF Write
    <2>2. node[n] \in Objects /\ node[n] \in Holds(n)
      BY <1>0, <1>1 DEF Write, Holds
    <2>3. data' = [data EXCEPT ![node[n]] = c]
      BY <1>1 DEF Write
    <2>4. data' \in [Objects -> Contents]
          /\ \A o \in Objects : o # node[n] => data'[o] = data[o]
      BY <1>0, <2>2, <2>3
    <2>5. /\ stamp' \in [Objects -> Nat]
          /\ edits' \in Nat /\ edits' <= MaxEdits /\ edits < edits'
          /\ \A o \in Objects : stamp[o] <= stamp'[o] /\ stamp'[o] <= edits'
          /\ \A o \in Objects : stamp'[o] = stamp[o] => o \notin Holds(n)
      BY <2>1, Stamps
    <2>6. \A d \in Dirs : dirStamp[d] <= dirStamp'[d] /\ dirStamp'[d] <= edits'
      BY <1>0, <2>1, <2>5
    <2> QED
      BY <1>0, <2>1, <2>2, <2>4, <2>5, <2>6 DEF DiskMoves
  <1>2. ASSUME NEW n \in Names, NEW o \in Objects, Place(n, o) PROVE DiskMoves
    <2>1. Edit /\ Changed(Holds(n) \cup {o}) /\ data' = data
      BY <1>2 DEF Place
    <2>2. node' = [node EXCEPT ![n] = o]
      BY <1>2 DEF Place
    <2>3. /\ node' \in [Names -> Objects \cup {Absent}]
          /\ node'[n] = o /\ \A m \in Names \ {n} : node'[m] = node[m]
      BY <1>0, <2>2
    <2>4. /\ stamp' \in [Objects -> Nat]
          /\ edits' \in Nat /\ edits' <= MaxEdits /\ edits < edits'
          /\ \A p \in Objects : stamp[p] <= stamp'[p] /\ stamp'[p] <= edits'
          /\ \A p \in Objects : stamp'[p] = stamp[p] => p \notin Holds(n) \cup {o}
      BY <2>1, Stamps
    <2>5. /\ dirStamp' \in [Dirs -> Nat]
          /\ \A d \in Dirs : dirStamp[d] <= dirStamp'[d] /\ dirStamp'[d] <= edits'
          /\ dirStamp'[Home[n]] # dirStamp[Home[n]]
      <3>1. edits' = edits + 1 /\ dirStamp' = [dirStamp EXCEPT ![Home[n]] = @ + 1]
        BY <1>2 DEF Place, Edit
      <3> QED
        BY <3>1, <2>4, DirStamps
    <2> QED
      BY <1>0, <2>1, <2>3, <2>4, <2>5 DEF DiskMoves
  <1>3. ASSUME NEW n \in Names, NEW m \in Names, Move(m, n) PROVE DiskMoves
    <2>1. Edit /\ Changed(Holds(m) \cup Holds(n)) /\ data' = data
      BY <1>3 DEF Move
    <2>2. node[m] \in Objects /\ node[m] \in Holds(m) /\ m # n
      BY <1>0, <1>3 DEF Move, Holds
    <2>3. node' = [node EXCEPT ![n] = node[m], ![m] = Absent]
      BY <1>3 DEF Move
    <2>4. /\ node' \in [Names -> Objects \cup {Absent}]
          /\ node'[n] = node[m] /\ node'[m] = Absent
          /\ \A k \in Names \ {m, n} : node'[k] = node[k]
      BY <1>0, <2>2, <2>3
    <2>5. /\ stamp' \in [Objects -> Nat]
          /\ edits' \in Nat /\ edits' <= MaxEdits /\ edits < edits'
          /\ \A p \in Objects : stamp[p] <= stamp'[p] /\ stamp'[p] <= edits'
          /\ \A p \in Objects : stamp'[p] = stamp[p] => p \notin Holds(m) \cup Holds(n)
      BY <2>1, Stamps
    <2>6. /\ dirStamp' \in [Dirs -> Nat]
          /\ \A d \in Dirs : dirStamp[d] <= dirStamp'[d] /\ dirStamp'[d] <= edits'
          /\ dirStamp'[Home[n]] # dirStamp[Home[n]]
          /\ dirStamp'[Home[m]] # dirStamp[Home[m]]
      <3>1. /\ edits' = edits + 1
            /\ dirStamp' = [d \in Dirs |->
                              dirStamp[d] + IF d \in {Home[m], Home[n]} THEN 1 ELSE 0]
        BY <1>3 DEF Move, Edit
      <3>2. Home[n] \in Dirs /\ Home[m] \in Dirs
        BY TreeAssumption
      <3> QED
        BY <1>0, <3>1, <3>2
    <2>7. \A p \in Objects : stamp'[p] = stamp[p] =>
             \A k \in Names : node'[k] = p => node[k] = p
      BY <2>2, <2>4, <2>5, TreeAssumption
    <2>8. \A k \in Names : dirStamp'[Home[k]] = dirStamp[Home[k]] => node'[k] = node[k]
      BY <2>4, <2>6
    <2> QED
      BY <1>0, <2>1, <2>4, <2>5, <2>6, <2>7, <2>8 DEF DiskMoves
  <1>4. ASSUME NEW n \in Names, Unlink(n) PROVE DiskMoves
    <2>1. Edit /\ Changed(Holds(n)) /\ data' = data
      BY <1>4 DEF Unlink
    <2>2. node' = [node EXCEPT ![n] = Absent]
      BY <1>4 DEF Unlink
    <2>3. /\ node' \in [Names -> Objects \cup {Absent}]
          /\ node'[n] = Absent /\ \A m \in Names \ {n} : node'[m] = node[m]
      BY <1>0, <2>2
    <2>4. /\ stamp' \in [Objects -> Nat]
          /\ edits' \in Nat /\ edits' <= MaxEdits /\ edits < edits'
          /\ \A p \in Objects : stamp[p] <= stamp'[p] /\ stamp'[p] <= edits'
      BY <2>1, Stamps
    <2>5. /\ dirStamp' \in [Dirs -> Nat]
          /\ \A d \in Dirs : dirStamp[d] <= dirStamp'[d] /\ dirStamp'[d] <= edits'
          /\ dirStamp'[Home[n]] # dirStamp[Home[n]]
      <3>1. edits' = edits + 1 /\ dirStamp' = [dirStamp EXCEPT ![Home[n]] = @ + 1]
        BY <1>4 DEF Unlink, Edit
      <3> QED
        BY <3>1, <2>4, DirStamps
    <2> QED
      BY <1>0, <2>1, <2>3, <2>4, <2>5, TreeAssumption DEF DiskMoves
  <1> QED
    BY <1>1, <1>2, <1>3, <1>4 DEF User

\* The same of every step: the run never writes to the tree it reads.
LEMMA DiskAlways ==
  ASSUME TypeInv, WorkInv, BuildInv, [Next]_vars
  PROVE  DiskMoves
  <1>1. /\ DOMAIN batch = Fields /\ stable \in BOOLEAN
        /\ DOMAIN build = {"rep", "planned", "members", "edges"}
    BY DEF TypeInv, WorkInv, BuildInv
  <1> USE DEF Ended, WalkStep, EnumerationSealed
  <1>2. CASE Fault
    BY <1>2, StillDisk DEF Fault
  <1>3. CASE UNCHANGED vars
    BY <1>3, StillDisk DEF vars
  <1>4. CASE Walk
    <2>1. UNCHANGED disk
      BY <1>4, WalkCase
    <2> QED
      BY <2>1, StillDisk
  <1>5. CASE Fingerprint
    <2>1. UNCHANGED disk
      BY <1>5, FingerprintCase
         DEF BucketTaken, BatchBound, BatchRecorded, SamplesSealed, HashesSealed
    <2> QED
      BY <2>1, StillDisk
  <1>6. CASE ReadTickets
    <2>1. UNCHANGED disk
      BY <1>1, <1>6, ReadCase DEF TicketOpened, TicketRead
    <2> QED
      BY <2>1, StillDisk
  <1>7. CASE Verify
    <2>1. UNCHANGED disk
      BY <1>1, <1>7, VerifyCase
         DEF GroupBegun, PageAppended, PairsRecorded, CollisionNoted,
             GroupFinalized, BeginCoverage
    <2> QED
      BY <2>1, StillDisk
  <1>8. CASE Cover
    <2>1. UNCHANGED disk
      BY <1>1, <1>8, CoverCase
         DEF DirectoriesBound, DirectoryReplayed, DirectoriesHeld,
             CoverageCompleted, ExactSealed
    <2> QED
      BY <2>1, StillDisk
  <1> QED
    BY <1>2, <1>3, <1>4, <1>5, <1>6, <1>7, <1>8, UserMoves DEF Next

-----------------------------------------------------------------------------
(* The walk.                                                               *)

\* A sequence with its first element replaced.
LEMMA SeqExcept ==
  ASSUME NEW S, NEW s \in Seq(S), s # <<>>, NEW f \in S, NEW w,
         w = [s EXCEPT ![1] = f]
  PROVE  /\ w \in Seq(S) /\ Len(w) = Len(s) /\ w[1] = f
         /\ \A i \in 2 .. Len(s) : w[i] = s[i]
  <1>1. Len(s) \in Nat \ {0} /\ DOMAIN s = 1 .. Len(s) /\ 1 \in 1 .. Len(s)
    OBVIOUS
  <1>2. w \in [1 .. Len(s) -> S]
    BY <1>1
  <1>3. w \in Seq(S)
    BY <1>1, <1>2, SeqDef
  <1>4. Len(w) = Len(s)
    BY <1>1, <1>2, <1>3
  <1> QED
    BY <1>1, <1>3, <1>4

\* Past(e) takes e from the directory on top of the walk and nothing else.
LEMMA Passing ==
  ASSUME walk \in Seq(Frames), walk # <<>>, NEW e, NEW w, w = Past(e)
  PROVE  /\ w \in Seq(Frames) /\ Len(w) = Len(walk) /\ Len(walk) \in Nat \ {0}
         /\ w[1].dir = walk[1].dir /\ w[1].left = walk[1].left \ {e}
         /\ \A i \in 2 .. Len(walk) : w[i] = walk[i]
  <1>1. Len(walk) \in Nat \ {0} /\ DOMAIN walk = 1 .. Len(walk) /\ walk[1] \in Frames
    OBVIOUS
  <1>2. PICK f \in Frames : /\ f.dir = walk[1].dir /\ f.left = walk[1].left \ {e}
                            /\ w = [walk EXCEPT ![1] = f]
    BY <1>1 DEF Past, Frames
  <1>3. /\ w \in Seq(Frames) /\ Len(w) = Len(walk) /\ w[1] = f
        /\ \A i \in 2 .. Len(walk) : w[i] = walk[i]
    <2>1. w = [walk EXCEPT ![1] = f] /\ f \in Frames
      BY <1>2
    <2> QED
      BY ONLY walk \in Seq(Frames), walk # <<>>, <2>1, SeqExcept
  <1> QED
    BY <1>1, <1>2, <1>3

\* A directory put on the stack of open directories.
LEMMA Pushing ==
  ASSUME NEW s \in Seq(Frames), NEW x \in Frames, NEW w, w = <<x>> \o s
  PROVE  /\ w \in Seq(Frames) /\ Len(w) = Len(s) + 1 /\ Len(s) \in Nat
         /\ w[1] = x /\ \A i \in 1 .. Len(s) : w[i + 1] = s[i]
  OBVIOUS

\* A directory taken from the stack of open directories.
LEMMA Popping ==
  ASSUME NEW s \in Seq(Frames), s # <<>>, NEW w, w = Tail(s)
  PROVE  /\ w \in Seq(Frames) /\ Len(w) = Len(s) - 1 /\ Len(s) \in Nat \ {0}
         /\ \A i \in 1 .. Len(w) : w[i] = s[i + 1]
  OBVIOUS

\* A file observation names an object, its stamp and its size
\* (make_file_observation).
LEMMA Observing ==
  ASSUME TypeInv, NEW n \in Names, node[n] # Absent
  PROVE  FileObservation(n) \in FileObs
  BY ContentAssumption DEF TypeInv, FileObservation, FileObs

\* Only the walk writes observations.
LEMMA StillWalking ==
  ASSUME TypeInv, WorkInv, BuildInv, [Next]_vars, ~ Walk
  PROVE  UNCHANGED walking
  <1>1. /\ DOMAIN batch = Fields /\ stable \in BOOLEAN
        /\ DOMAIN build = {"rep", "planned", "members", "edges"}
    BY DEF TypeInv, WorkInv, BuildInv
  <1> USE DEF Ended
  <1>2. CASE Fault
    BY <1>2 DEF Fault
  <1>3. CASE UNCHANGED vars
    BY <1>3 DEF vars
  <1>4. CASE User
    BY <1>4 DEF User
  <1>5. CASE Fingerprint
    BY <1>5, FingerprintCase
       DEF BucketTaken, BatchBound, BatchRecorded, SamplesSealed, HashesSealed
  <1>6. CASE ReadTickets
    BY <1>1, <1>6, ReadCase DEF TicketOpened, TicketRead
  <1>7. CASE Verify
    BY <1>1, <1>7, VerifyCase
       DEF GroupBegun, PageAppended, PairsRecorded, CollisionNoted,
           GroupFinalized, BeginCoverage
  <1>8. CASE Cover
    BY <1>1, <1>8, CoverCase
       DEF DirectoriesBound, DirectoryReplayed, DirectoriesHeld,
           CoverageCompleted, ExactSealed
  <1> QED
    BY <1>2, <1>3, <1>4, <1>5, <1>6, <1>7, <1>8 DEF Next

\* The part of the types that the walk may disturb.
WalkTypes ==
    /\ walk \in Seq(Frames) /\ partial \in BOOLEAN
    /\ Observed \subseteq Names /\ IsFiniteSet(Observed)
    /\ \A n \in Observed : seen[n] \in FileObs
    /\ DOMAIN dirSeen \subseteq Dirs
    /\ \A d \in DOMAIN dirSeen : dirSeen[d] \in Nat
    /\ pending \subseteq Observed \cup DOMAIN dirSeen

\* The walk keeps the types of its stack and observations.
LEMMA WalkTypesHold ==
  ASSUME TypeInv, Walk
  PROVE  WalkTypes'
  <1> USE DEF walking
  <1>0. WalkTypes
    BY DEF TypeInv, WalkTypes
  <1>1. ASSUME NEW n \in Names, Observe(n) PROVE WalkTypes'
    <2>1. walk' \in Seq(Frames)
      BY <1>0, <1>1, Passing DEF WalkTypes, Observe, Walking, Consume
    <2>2. PICK v : v = FileObservation(n)
      OBVIOUS
    <2>3. v \in FileObs
      BY <1>1, <2>2, Observing DEF Observe
    <2>4. seen' = Put(seen, n, v)
      BY <1>1, <2>2 DEF Observe
    <2>5. /\ DOMAIN seen' = DOMAIN seen \cup {n}
          /\ \A m \in DOMAIN seen' : seen'[m] \in FileObs
      BY <1>0, <2>3, <2>4 DEF Put, WalkTypes, Observed
    <2>6. IsFiniteSet(DOMAIN seen')
      BY <1>0, <2>5, FS_AddElement DEF WalkTypes, Observed
    <2> QED
      BY <1>0, <1>1, <2>1, <2>5, <2>6 DEF WalkTypes, Observe, Observed
  <1>2. ASSUME NEW n \in Names, Overlook(n) PROVE WalkTypes'
    <2>1. walk' \in Seq(Frames)
      BY <1>0, <1>2, Passing DEF WalkTypes, Overlook, Walking, Consume
    <2> QED
      BY <1>0, <1>2, <2>1 DEF WalkTypes, Overlook, Observed
  <1>3. ASSUME NEW e, ReportEntry(e) PROVE WalkTypes'
    <2>1. walk' \in Seq(Frames)
      BY <1>0, <1>3, Passing DEF WalkTypes, ReportEntry, Walking, Consume
    <2> QED
      BY <1>0, <1>3, <2>1 DEF WalkTypes, ReportEntry, Observed
  <1>4. ASSUME NEW d \in Dirs, EnterDirectory(d) PROVE WalkTypes'
    <2>1. PICK s : s = Past(d)
      OBVIOUS
    <2>2. s \in Seq(Frames)
      BY <1>0, <1>4, <2>1, Passing DEF WalkTypes, EnterDirectory, Walking
    <2>3. PICK x : x = [dir |-> d, left |-> Entries(d)]
      OBVIOUS
    <2>4. x \in Frames
      BY <2>3, TreeAssumption DEF Frames, Entries, Things
    <2>5. walk' = <<x>> \o s
      BY <1>4, <2>1, <2>3 DEF EnterDirectory
    <2>6. walk' \in Seq(Frames)
      BY <2>2, <2>4, <2>5, Pushing
    <2>7. PICK v : v = dirStamp[d]
      OBVIOUS
    <2>8. v \in Nat
      BY <2>7 DEF TypeInv
    <2>9. dirSeen' = Put(dirSeen, d, v) /\ pending' = pending \cup {d} /\ seen' = seen
          /\ partial' = partial
      BY <1>4, <2>7 DEF EnterDirectory, NoteDirectory
    <2>10. /\ DOMAIN dirSeen' = DOMAIN dirSeen \cup {d}
           /\ \A c \in DOMAIN dirSeen' : dirSeen'[c] \in Nat
      BY <1>0, <2>8, <2>9 DEF Put, WalkTypes
    <2> QED
      BY <1>0, <2>6, <2>9, <2>10 DEF WalkTypes, Observed
  <1>5. CASE LeaveDirectory
    <2>1. walk' \in Seq(Frames)
      BY <1>0, <1>5, Popping DEF WalkTypes, LeaveDirectory
    <2> QED
      BY <1>0, <1>5, <2>1 DEF WalkTypes, LeaveDirectory, Observed
  <1>6. CASE FlushEvents
    BY <1>0, <1>6 DEF WalkTypes, FlushEvents, Interrupt, End, Observed
  <1>7. CASE SealEnumeration
    BY <1>0, <1>7 DEF WalkTypes, SealEnumeration, Observed
  <1>8. CASE CancelWalk
    BY <1>0, <1>8 DEF WalkTypes, CancelWalk, End, Observed
  <1> QED
    BY <1>1, <1>2, <1>3, <1>4, <1>5, <1>6, <1>7, <1>8 DEF Walk

\* Every step keeps the types.
LEMMA TypeStep ==
  ASSUME TypeInv, WorkInv, BuildInv, [Next]_vars
  PROVE  TypeInv'
  <1>1. DiskMoves /\ Cases
    BY DiskAlways, StepCases
  <1>2. WalkTypes'
    <2>1. CASE Walk
      BY <2>1, WalkTypesHold
    <2>2. CASE ~ Walk
      BY <2>2, StillWalking DEF TypeInv, WalkTypes, walking, Observed
    <2> QED
      BY <2>1, <2>2
  <1>3. step' \in Steps
    BY <1>1
       DEF TypeInv, Steps, Terminal, Cases, UserStep, WalkStep, EnumerationSealed,
           Ended, BucketTaken, BatchBound, TicketOpened, TicketRead, BatchRecorded,
           SamplesSealed, HashesSealed, GroupBegun, PageAppended, PairsRecorded,
           CollisionNoted, GroupFinalized, BeginCoverage, DirectoriesBound,
           DirectoryReplayed, DirectoriesHeld, CoverageCompleted, ExactSealed
  <1>4. DOMAIN sealed' \subseteq Stages
    BY <1>1
       DEF TypeInv, Stages, SealAdded, Cases, UserStep, WalkStep, EnumerationSealed,
           Ended, BucketTaken, BatchBound, TicketOpened, TicketRead, BatchRecorded,
           SamplesSealed, HashesSealed, GroupBegun, PageAppended, PairsRecorded,
           CollisionNoted, GroupFinalized, BeginCoverage, DirectoriesBound,
           DirectoryReplayed, DirectoriesHeld, CoverageCompleted, ExactSealed
  <1>5. stable' \in BOOLEAN
    BY <1>1
       DEF TypeInv, Cases, UserStep, WalkStep, EnumerationSealed,
           Ended, BucketTaken, BatchBound, TicketOpened, TicketRead, BatchRecorded,
           SamplesSealed, HashesSealed, GroupBegun, PageAppended, PairsRecorded,
           CollisionNoted, GroupFinalized, BeginCoverage, DirectoriesBound,
           DirectoryReplayed, DirectoriesHeld, CoverageCompleted, ExactSealed
  <1>6. coverage' \in {"none", "complete", "partial", "interrupted"}
    BY <1>1
       DEF TypeInv, verdicts, Cases, UserStep, WalkStep, EnumerationSealed,
           Ended, BucketTaken, BatchBound, TicketOpened, TicketRead, BatchRecorded,
           SamplesSealed, HashesSealed, GroupBegun, PageAppended, PairsRecorded,
           CollisionNoted, GroupFinalized, BeginCoverage, DirectoriesBound,
           DirectoryReplayed, DirectoriesHeld, CoverageCompleted, ExactSealed
  <1> QED
    BY <1>1, <1>2, <1>3, <1>4, <1>5, <1>6 DEF TypeInv, DiskMoves, WalkTypes

-----------------------------------------------------------------------------
(* Seals and steps.                                                        *)

\* A new draft has its bucket and representative and no member
\* (begin_exact_group_impl).
LEMMA Drafting ==
  ASSUME NEW r, NEW B
  PROVE  /\ DOMAIN Draft(r, B) = {"rep", "planned", "members", "edges"}
         /\ Draft(r, B).rep = r /\ Draft(r, B).planned = B
         /\ Draft(r, B).members = {} /\ Draft(r, B).edges = {}
  BY DEF Draft, NoBuild

\* Every step keeps the seals in order and their counts true: nothing is added
\* to a stage that is sealed.
LEMMA SealStep ==
  ASSUME TypeInv, WorkInv, BuildInv, SealInv, StepInv, [Next]_vars
  PROVE  SealInv'
  <1> USE DEF disk, walking, prints, verdicts, SealInv, StepInv, Sealed, Observed,
          Reading, Terminal
  <1>0. DiskMoves /\ Cases
    BY DiskAlways, StepCases
  <1>1. CASE UserStep
    BY <1>1, <1>0
       DEF UserStep
  <1>2. CASE WalkStep
    BY <1>2
       DEF WalkStep
  <1>3. CASE EnumerationSealed
    BY <1>3
       DEF EnumerationSealed, SealAdded
  <1>4. CASE Ended
    BY <1>4
       DEF Ended, Recorded
  <1>5. ASSUME NEW B \in work, BucketTaken(B) PROVE SealInv'
    BY <1>5
       DEF BucketTaken
  <1>6. ASSUME NEW p \in SUBSET bucket, BatchBound(p) PROVE SealInv'
    BY <1>6
       DEF BatchBound, NewBatch
  <1>7. ASSUME NEW n \in batch.todo, TicketOpened(n) PROVE SealInv'
    BY <1>7
       DEF TicketOpened
  <1>8. ASSUME NEW n \in batch.reading, TicketRead(n) PROVE SealInv'
    BY <1>8
       DEF TicketRead
  <1>9. CASE BatchRecorded
    BY <1>9
       DEF BatchRecorded, Recorded
  <1>10. CASE SamplesSealed
    BY <1>10
       DEF SamplesSealed, SealAdded
  <1>11. CASE HashesSealed
    BY <1>11
       DEF HashesSealed, SealAdded
  <1>12. ASSUME NEW B \in work, NEW r \in B, GroupBegun(B, r) PROVE SealInv'
    BY <1>12
       DEF GroupBegun
  <1>13. ASSUME NEW p \in SUBSET bucket, PageAppended(p) PROVE SealInv'
    BY <1>13
       DEF PageAppended, NewBatch
  <1>14. CASE PairsRecorded
    BY <1>14
       DEF PairsRecorded
  <1>15. CASE CollisionNoted
    BY <1>15
       DEF CollisionNoted
  <1>16. CASE GroupFinalized
    BY <1>16
       DEF GroupFinalized
  <1>17. CASE BeginCoverage
    BY <1>17
       DEF BeginCoverage
  <1>18. ASSUME NEW p \in SUBSET bucket, DirectoriesBound(p) PROVE SealInv'
    BY <1>18
       DEF DirectoriesBound, NewBatch
  <1>19. ASSUME NEW d \in Dirs, DirectoryReplayed(d) PROVE SealInv'
    BY <1>19
       DEF DirectoryReplayed
  <1>20. CASE DirectoriesHeld
    BY <1>20
       DEF DirectoriesHeld
  <1>21. CASE CoverageCompleted
    BY <1>21
       DEF CoverageCompleted
  <1>22. CASE ExactSealed
    BY <1>22
       DEF ExactSealed, SealAdded
  <1> QED
    BY <1>0, <1>1, <1>2, <1>3, <1>4, <1>5, <1>6, <1>7, <1>8, <1>9, <1>10, <1>11,
       <1>12, <1>13, <1>14, <1>15, <1>16, <1>17, <1>18, <1>19, <1>20, <1>21, <1>22 DEF Cases

\* Every step leaves the run where its seals say it is.
LEMMA StepStep ==
  ASSUME TypeInv, WorkInv, BuildInv, SealInv, StepInv, [Next]_vars
  PROVE  StepInv'
  <1> USE DEF disk, walking, prints, verdicts, SealInv, StepInv, Sealed, Reading,
          Terminal
  <1>0. DiskMoves /\ Cases
    BY DiskAlways, StepCases
  <1>1. CASE UserStep
    BY <1>1, <1>0
       DEF UserStep
  <1>2. CASE WalkStep
    BY <1>2
       DEF WalkStep
  <1>3. CASE EnumerationSealed
    BY <1>3
       DEF EnumerationSealed, SealAdded
  <1>4. CASE Ended
    BY <1>4
       DEF Ended
  <1>5. ASSUME NEW B \in work, BucketTaken(B) PROVE StepInv'
    BY <1>5
       DEF BucketTaken
  <1>6. ASSUME NEW p \in SUBSET bucket, BatchBound(p) PROVE StepInv'
    BY <1>6
       DEF BatchBound, NewBatch
  <1>7. ASSUME NEW n \in batch.todo, TicketOpened(n) PROVE StepInv'
    BY <1>7
       DEF TicketOpened, InBatch
  <1>8. ASSUME NEW n \in batch.reading, TicketRead(n) PROVE StepInv'
    BY <1>8
       DEF TicketRead, InBatch
  <1>9. CASE BatchRecorded
    BY <1>9
       DEF BatchRecorded, BatchRead, InBatch
  <1>10. CASE SamplesSealed
    BY <1>10
       DEF SamplesSealed, SealAdded
  <1>11. CASE HashesSealed
    BY <1>11
       DEF HashesSealed, SealAdded
  <1>12. ASSUME NEW B \in work, NEW r \in B, GroupBegun(B, r) PROVE StepInv'
    <2>1. build' # NoBuild
      BY <1>12, Drafting, EmptyBuild DEF GroupBegun
    <2> QED
      BY <1>12, <2>1 DEF GroupBegun, BetweenBuckets
  <1>13. ASSUME NEW p \in SUBSET bucket, PageAppended(p) PROVE StepInv'
    <2>1. build # NoBuild /\ build' # NoBuild
      BY <1>13, EmptyBuild DEF PageAppended, BuildInv
    <2> QED
      BY <1>13, <2>1 DEF PageAppended
  <1>14. CASE PairsRecorded
    <2>1. build # NoBuild /\ build' # NoBuild
      BY <1>14, EmptyBuild DEF PairsRecorded, BuildInv, InBatch
    <2> QED
      BY <1>14, <2>1 DEF PairsRecorded
  <1>15. CASE CollisionNoted
    BY <1>15
       DEF CollisionNoted
  <1>16. CASE GroupFinalized
    BY <1>16
       DEF GroupFinalized
  <1>17. CASE BeginCoverage
    BY <1>17
       DEF BeginCoverage, BetweenBuckets
  <1>18. ASSUME NEW p \in SUBSET bucket, DirectoriesBound(p) PROVE StepInv'
    BY <1>18
       DEF DirectoriesBound, NewBatch
  <1>19. ASSUME NEW d \in Dirs, DirectoryReplayed(d) PROVE StepInv'
    BY <1>19
       DEF DirectoryReplayed
  <1>20. CASE DirectoriesHeld
    BY <1>20
       DEF DirectoriesHeld
  <1>21. CASE CoverageCompleted
    BY <1>21
       DEF CoverageCompleted
  <1>22. CASE ExactSealed
    BY <1>22
       DEF ExactSealed, SealAdded
  <1> QED
    BY <1>0, <1>1, <1>2, <1>3, <1>4, <1>5, <1>6, <1>7, <1>8, <1>9, <1>10, <1>11,
       <1>12, <1>13, <1>14, <1>15, <1>16, <1>17, <1>18, <1>19, <1>20, <1>21, <1>22 DEF Cases

\* A bucket has at least two elements, which share their value.
LEMMA Buckets ==
  ASSUME NEW f, NEW B \in BucketsOf(f)
  PROVE  /\ B \subseteq DOMAIN f /\ Cardinality(B) >= 2
         /\ \A m, n \in B : f[m] = f[n]
  BY DEF BucketsOf

\* The candidate buckets of each stage are of files with the evidence of the
\* stage before.
LEMMA PrintBuckets ==
  /\ \A B \in SizeBuckets : B \subseteq Observed /\ Cardinality(B) >= 2
  /\ \A B \in SampleBuckets : B \subseteq DOMAIN sampled /\ Cardinality(B) >= 2
  /\ \A B \in DigestBuckets : B \subseteq DOMAIN hashed /\ Cardinality(B) >= 2
  BY Buckets DEF SizeBuckets, SampleBuckets, DigestBuckets

\* Recording a batch loses no fingerprint and adds none of a file that lacks
\* the one before.
LEMMA PrintsGrow ==
  ASSUME WorkInv, StepInv, step \in {"sampling", "full_hash"}, Recorded,
         UNCHANGED walking
  PROVE  /\ DOMAIN sampled \subseteq DOMAIN sampled'
         /\ DOMAIN sampled' \subseteq Observed
         /\ DOMAIN hashed \subseteq DOMAIN hashed'
         /\ DOMAIN hashed' \subseteq DOMAIN sampled'
  BY DEF WorkInv, Recorded, Pool, Observed, walking

\* Every step keeps the work within the evidence of the stage before.
LEMMA WorkStep ==
  ASSUME TypeInv, WorkInv, BuildInv, SealInv, StepInv, [Next]_vars
  PROVE  WorkInv'
  <1> USE DEF disk, walking, prints, verdicts, WorkInv, Pool, Observed
  <1>0. DiskMoves /\ Cases
    BY DiskAlways, StepCases
  <1>1. CASE UserStep
    BY <1>1, <1>0, EmptyBatch
       DEF UserStep, Printed
  <1>2. CASE WalkStep
    BY <1>2, EmptyBatch
       DEF WalkStep, StepInv, SealInv, Sealed, Reading, Printed
  <1>3. CASE EnumerationSealed
    <2>1. /\ bucket' = {} /\ batch' = NoBatch /\ DOMAIN sampled' = {} /\ DOMAIN hashed' = {}
          /\ collided' = {}
      BY <1>3 DEF EnumerationSealed, StepInv, SealInv, Sealed, Reading
    <2>2. Printed' = {}
      BY <2>1, EmptyBatch DEF Printed
    <2> QED
      BY <1>3, <2>1, <2>2, EmptyBatch, PrintBuckets DEF EnumerationSealed
  <1>4. CASE Ended
    <2>1. /\ DOMAIN sampled' \subseteq Observed'
          /\ DOMAIN hashed \subseteq DOMAIN hashed'
          /\ DOMAIN hashed' \subseteq DOMAIN sampled'
          /\ DOMAIN sampled \subseteq DOMAIN sampled'
      BY <1>4, PrintsGrow DEF Ended
    <2> QED
      BY <1>4, <2>1, EmptyBatch DEF Ended, Terminal, Printed
  <1>5. ASSUME NEW B \in work, BucketTaken(B) PROVE WorkInv'
    BY <1>5, EmptyBatch
       DEF BucketTaken, Printed
  <1>6. ASSUME NEW p \in SUBSET bucket, BatchBound(p) PROVE WorkInv'
    BY <1>6, EmptyBatch
       DEF BatchBound, NewBatch, Printed
  <1>7. ASSUME NEW n \in batch.todo, TicketOpened(n) PROVE WorkInv'
    BY <1>7, EmptyBatch
       DEF TicketOpened, Printed
  <1>8. ASSUME NEW n \in batch.reading, TicketRead(n) PROVE WorkInv'
    <2>1. Printed' \subseteq Printed \cup {n}
      BY <1>8 DEF TicketRead, Printed
    <2> QED
      BY <1>8, <2>1 DEF TicketRead
  <1>9. CASE BatchRecorded
    <2>1. /\ DOMAIN sampled' \subseteq Observed'
          /\ DOMAIN hashed \subseteq DOMAIN hashed'
          /\ DOMAIN hashed' \subseteq DOMAIN sampled'
          /\ DOMAIN sampled \subseteq DOMAIN sampled'
      BY <1>9, PrintsGrow DEF BatchRecorded
    <2> QED
      BY <1>9, <2>1, EmptyBatch DEF BatchRecorded, Printed
  <1>10. CASE SamplesSealed
    <2>1. DOMAIN hashed = {} /\ collided = {}
      BY <1>10 DEF SamplesSealed, SealInv, StepInv, Sealed
    <2>2. Printed' = {}
      BY <1>10, EmptyBatch DEF SamplesSealed, Printed
    <2> QED
      BY <1>10, <2>1, <2>2, EmptyBatch, PrintBuckets DEF SamplesSealed
  <1>11. CASE HashesSealed
    <2>1. collided = {}
      BY <1>11 DEF HashesSealed, SealInv, StepInv, Sealed
    <2>2. Printed' = {}
      BY <1>11, EmptyBatch DEF HashesSealed, Printed
    <2> QED
      BY <1>11, <2>1, <2>2, EmptyBatch, PrintBuckets DEF HashesSealed
  <1>12. ASSUME NEW B \in work, NEW r \in B, GroupBegun(B, r) PROVE WorkInv'
    BY <1>12, EmptyBatch
       DEF GroupBegun, Printed
  <1>13. ASSUME NEW p \in SUBSET bucket, PageAppended(p) PROVE WorkInv'
    <2>1. build # NoBuild
      BY <1>13 DEF PageAppended, StepInv
    <2>2. build.planned \subseteq DOMAIN hashed /\ build.rep \in build.planned
      BY <2>1 DEF BuildInv
    <2>3. Printed' = {}
      BY <1>13, EmptyBatch DEF PageAppended, NewBatch, Printed
    <2>4. /\ DOMAIN batch' = Fields /\ DOMAIN batch'.bound \subseteq DOMAIN hashed
          /\ batch'.todo \cup batch'.reading \subseteq DOMAIN batch'.bound
          /\ batch'.failed \in BOOLEAN
      BY <1>13, <2>2, EmptyBatch DEF PageAppended, NewBatch
    <2> QED
      BY <1>13, <2>3, <2>4 DEF PageAppended
  <1>14. CASE PairsRecorded
    BY <1>14, EmptyBatch
       DEF PairsRecorded, Printed
  <1>15. CASE CollisionNoted
    <2>1. build # NoBuild
      BY <1>15 DEF CollisionNoted, InBatch, StepInv
    <2>2. Printed' = {}
      BY <1>15, EmptyBatch DEF CollisionNoted, Printed
    <2> QED
      BY <1>15, <2>1, <2>2, EmptyBatch DEF CollisionNoted, BuildInv
  <1>16. CASE GroupFinalized
    BY <1>16, EmptyBatch
       DEF GroupFinalized, Printed
  <1>17. CASE BeginCoverage
    BY <1>17, EmptyBatch
       DEF BeginCoverage, BetweenBuckets, StepInv, Printed
  <1>18. ASSUME NEW p \in SUBSET bucket, DirectoriesBound(p) PROVE WorkInv'
    BY <1>18, EmptyBatch
       DEF DirectoriesBound, NewBatch, Printed
  <1>19. ASSUME NEW d \in Dirs, DirectoryReplayed(d) PROVE WorkInv'
    BY <1>19, EmptyBatch
       DEF DirectoryReplayed, Printed
  <1>20. CASE DirectoriesHeld
    BY <1>20, EmptyBatch
       DEF DirectoriesHeld, Printed
  <1>21. CASE CoverageCompleted
    BY <1>21, EmptyBatch
       DEF CoverageCompleted, StepInv, Printed
  <1>22. CASE ExactSealed
    BY <1>22, EmptyBatch
       DEF ExactSealed, SealAdded, Printed, StepInv, Reading
  <1> QED
    BY <1>0, <1>1, <1>2, <1>3, <1>4, <1>5, <1>6, <1>7, <1>8, <1>9, <1>10, <1>11,
       <1>12, <1>13, <1>14, <1>15, <1>16, <1>17, <1>18, <1>19, <1>20, <1>21, <1>22 DEF Cases

\* Every step keeps the draft within its bucket.
LEMMA BuildStep ==
  ASSUME TypeInv, WorkInv, BuildInv, SealInv, StepInv, [Next]_vars
  PROVE  BuildInv'
  <1> USE DEF disk, walking, prints, verdicts, BuildInv
  <1>0. DiskMoves /\ Cases
    BY DiskAlways, StepCases
  <1>1. CASE UserStep
    BY <1>1, <1>0, EmptyBuild
       DEF UserStep
  <1>2. CASE WalkStep
    BY <1>2, EmptyBuild
       DEF WalkStep
  <1>3. CASE EnumerationSealed
    BY <1>3, EmptyBuild
       DEF EnumerationSealed, SealAdded
  <1>4. CASE Ended
    <2>1. build' = NoBuild
      BY <1>4 DEF Ended
    <2> QED
      BY <2>1, EmptyBuild
  <1>5. ASSUME NEW B \in work, BucketTaken(B) PROVE BuildInv'
    BY <1>5, EmptyBuild
       DEF BucketTaken
  <1>6. ASSUME NEW p \in SUBSET bucket, BatchBound(p) PROVE BuildInv'
    BY <1>6, EmptyBuild
       DEF BatchBound, NewBatch
  <1>7. ASSUME NEW n \in batch.todo, TicketOpened(n) PROVE BuildInv'
    BY <1>7, EmptyBuild
       DEF TicketOpened
  <1>8. ASSUME NEW n \in batch.reading, TicketRead(n) PROVE BuildInv'
    BY <1>8, EmptyBuild
       DEF TicketRead
  <1>9. CASE BatchRecorded
    <2>1. build = NoBuild
      BY <1>9 DEF BatchRecorded, StepInv
    <2> QED
      BY <1>9, <2>1, EmptyBuild DEF BatchRecorded
  <1>10. CASE SamplesSealed
    BY <1>10, EmptyBuild
       DEF SamplesSealed, SealAdded
  <1>11. CASE HashesSealed
    BY <1>11, EmptyBuild
       DEF HashesSealed, SealAdded
  <1>12. ASSUME NEW B \in work, NEW r \in B, GroupBegun(B, r) PROVE BuildInv'
    <2>1. B \subseteq DOMAIN hashed /\ Cardinality(B) >= 2
      BY <1>12 DEF GroupBegun, BetweenBuckets, WorkInv, Pool
    <2>2. PICK w : w = build'
      OBVIOUS
    <2>3. /\ DOMAIN w = {"rep", "planned", "members", "edges"} /\ w.rep = r
          /\ w.planned = B /\ w.members = {} /\ w.edges = {}
      BY <1>12, <2>2, Drafting DEF GroupBegun
    <2> QED
      BY <1>12, <2>1, <2>2, <2>3 DEF GroupBegun
  <1>13. ASSUME NEW p \in SUBSET bucket, PageAppended(p) PROVE BuildInv'
    <2>1. build # NoBuild
      BY <1>13 DEF PageAppended, StepInv
    <2> QED
      BY <1>13, <2>1 DEF PageAppended
  <1>14. CASE PairsRecorded
    <2>1. build # NoBuild
      BY <1>14 DEF PairsRecorded, StepInv, InBatch
    <2> QED
      BY <1>14, <2>1 DEF PairsRecorded
  <1>15. CASE CollisionNoted
    BY <1>15, EmptyBuild
       DEF CollisionNoted
  <1>16. CASE GroupFinalized
    BY <1>16, EmptyBuild
       DEF GroupFinalized
  <1>17. CASE BeginCoverage
    BY <1>17, EmptyBuild
       DEF BeginCoverage
  <1>18. ASSUME NEW p \in SUBSET bucket, DirectoriesBound(p) PROVE BuildInv'
    BY <1>18, EmptyBuild
       DEF DirectoriesBound, NewBatch
  <1>19. ASSUME NEW d \in Dirs, DirectoryReplayed(d) PROVE BuildInv'
    BY <1>19, EmptyBuild
       DEF DirectoryReplayed
  <1>20. CASE DirectoriesHeld
    BY <1>20, EmptyBuild
       DEF DirectoriesHeld
  <1>21. CASE CoverageCompleted
    BY <1>21, EmptyBuild
       DEF CoverageCompleted
  <1>22. CASE ExactSealed
    BY <1>22, EmptyBuild
       DEF ExactSealed, SealAdded
  <1> QED
    BY <1>0, <1>1, <1>2, <1>3, <1>4, <1>5, <1>6, <1>7, <1>8, <1>9, <1>10, <1>11,
       <1>12, <1>13, <1>14, <1>15, <1>16, <1>17, <1>18, <1>19, <1>20, <1>21, <1>22 DEF Cases

\* Every step accounts for every file of a batch that has not failed.
LEMMA BatchStep ==
  ASSUME TypeInv, WorkInv, BuildInv, SealInv, StepInv, BatchInv, [Next]_vars
  PROVE  BatchInv'
  <1> USE DEF disk, walking, prints, verdicts, BatchInv
  <1>0. DiskMoves /\ Cases
    BY DiskAlways, StepCases
  <1>1. CASE UserStep
    BY <1>1, <1>0, EmptyBatch
       DEF UserStep, Printed
  <1>2. CASE WalkStep
    BY <1>2, EmptyBatch
       DEF WalkStep, Printed
  <1>3. CASE EnumerationSealed
    BY <1>3, EmptyBatch
       DEF EnumerationSealed, SealAdded, StepInv, Reading
  <1>4. CASE Ended
    BY <1>4, EmptyBatch
       DEF Ended, Terminal
  <1>5. ASSUME NEW B \in work, BucketTaken(B) PROVE BatchInv'
    BY <1>5, EmptyBatch
       DEF BucketTaken, Printed
  <1>6. ASSUME NEW p \in SUBSET bucket, BatchBound(p) PROVE BatchInv'
    BY <1>6, EmptyBatch
       DEF BatchBound, NewBatch
  <1>7. ASSUME NEW n \in batch.todo, TicketOpened(n) PROVE BatchInv'
    <2>1. Printed' = Printed
      BY <1>7 DEF TicketOpened, Printed
    <2> QED
      BY <1>7, <2>1 DEF TicketOpened
  <1>8. ASSUME NEW n \in batch.reading, TicketRead(n) PROVE BatchInv'
    <2>1. PICK v : v = Evidence(n)
      OBVIOUS
    <2>2. CASE batch'.fresh = batch.fresh \cup {<<n, v>>}
      <3>1. Printed \cup {n} \subseteq Printed'
        <4>1. <<n, v>> \in batch'.fresh /\ <<n, v>>[1] = n
          BY <2>2
        <4> QED
          BY <2>2, <4>1 DEF Printed
      <3> QED
        BY <1>8, <3>1 DEF TicketRead
    <2> QED
      BY <1>8, <2>1, <2>2 DEF TicketRead
  <1>9. CASE BatchRecorded
    BY <1>9, EmptyBatch
       DEF BatchRecorded
  <1>10. CASE SamplesSealed
    BY <1>10, EmptyBatch
       DEF SamplesSealed, SealAdded
  <1>11. CASE HashesSealed
    BY <1>11, EmptyBatch
       DEF HashesSealed, SealAdded
  <1>12. ASSUME NEW B \in work, NEW r \in B, GroupBegun(B, r) PROVE BatchInv'
    BY <1>12, EmptyBatch
       DEF GroupBegun, BetweenBuckets
  <1>13. ASSUME NEW p \in SUBSET bucket, PageAppended(p) PROVE BatchInv'
    BY <1>13, EmptyBatch
       DEF PageAppended, NewBatch
  <1>14. CASE PairsRecorded
    BY <1>14, EmptyBatch
       DEF PairsRecorded
  <1>15. CASE CollisionNoted
    BY <1>15, EmptyBatch
       DEF CollisionNoted
  <1>16. CASE GroupFinalized
    BY <1>16, EmptyBatch
       DEF GroupFinalized
  <1>17. CASE BeginCoverage
    BY <1>17, EmptyBatch
       DEF BeginCoverage, BetweenBuckets
  <1>18. ASSUME NEW p \in SUBSET bucket, DirectoriesBound(p) PROVE BatchInv'
    BY <1>18, EmptyBatch
       DEF DirectoriesBound, NewBatch
  <1>19. ASSUME NEW d \in Dirs, DirectoryReplayed(d) PROVE BatchInv'
    BY <1>19, EmptyBatch
       DEF DirectoryReplayed
  <1>20. CASE DirectoriesHeld
    BY <1>20, EmptyBatch
       DEF DirectoriesHeld
  <1>21. CASE CoverageCompleted
    BY <1>21, EmptyBatch
       DEF CoverageCompleted
  <1>22. CASE ExactSealed
    BY <1>22, EmptyBatch
       DEF ExactSealed, SealAdded
  <1> QED
    BY <1>0, <1>1, <1>2, <1>3, <1>4, <1>5, <1>6, <1>7, <1>8, <1>9, <1>10, <1>11,
       <1>12, <1>13, <1>14, <1>15, <1>16, <1>17, <1>18, <1>19, <1>20, <1>21, <1>22 DEF Cases

\* Whatever happens to the disk, no observation is newer than what it is of.
LEMMA KeptObjects ==
  ASSUME TypeInv, DiskMoves, ObsInv, DirInv, UNCHANGED walking
  PROVE  ObsInv' /\ DirInv'
  <1>1. ASSUME NEW n \in Observed
        PROVE  /\ seen[n].stamp <= stamp'[seen[n].obj]
               /\ stamp'[seen[n].obj] = seen[n].stamp =>
                    SizeOf[data'[seen[n].obj]] = seen[n].size
    <2>1. PICK o, s : o = seen[n].obj /\ s = seen[n].stamp
      OBVIOUS
    <2>2. o \in Objects /\ s \in Nat /\ s <= stamp[o]
          /\ (stamp[o] = s => SizeOf[data[o]] = seen[n].size)
      BY <2>1 DEF TypeInv, FileObs, ObsInv
    <2>3. stamp[o] <= stamp'[o] /\ (stamp'[o] = stamp[o] => data'[o] = data[o])
          /\ stamp[o] \in Nat /\ stamp'[o] \in Nat
      BY <2>2 DEF DiskMoves, TypeInv
    <2>4. s <= stamp'[o] /\ (stamp'[o] = s => stamp[o] = s)
      BY <2>2, <2>3
    <2> QED
      BY <2>1, <2>2, <2>3, <2>4
  <1>2. ASSUME NEW d \in DOMAIN dirSeen PROVE dirSeen[d] <= dirStamp'[d]
    BY DEF DiskMoves, TypeInv, DirInv
  <1> QED
    BY <1>1, <1>2 DEF ObsInv, DirInv, walking, Observed

\* Every step keeps the observations no newer than what they are of.
LEMMA ObsStep ==
  ASSUME TypeInv, WorkInv, BuildInv, ObsInv, DirInv, [Next]_vars
  PROVE  ObsInv' /\ DirInv'
  <1>1. CASE ~ Walk
    BY <1>1, DiskAlways, StillWalking, KeptObjects
  <1> USE DEF walking, disk, Observed
  <1>2. ASSUME NEW n \in Names, Observe(n) PROVE ObsInv' /\ DirInv'
    <2>1. PICK v : v = FileObservation(n)
      OBVIOUS
    <2>2. /\ v.obj = node[n] /\ v.stamp = stamp[node[n]] /\ v.size = SizeOf[data[node[n]]]
      BY <2>1 DEF FileObservation
    <2>3. node[n] \in Objects /\ stamp[node[n]] \in Nat
      BY <1>2 DEF Observe, TypeInv
    <2>4. seen' = Put(seen, n, v)
      BY <1>2, <2>1 DEF Observe
    <2>5. /\ DOMAIN seen' = DOMAIN seen \cup {n} /\ seen'[n] = v
          /\ \A m \in DOMAIN seen \ {n} : seen'[m] = seen[m]
      BY <2>4 DEF Put
    <2>6. ObsInv'
      BY <1>2, <2>2, <2>3, <2>5 DEF Observe, Walking, ObsInv
    <2> QED
      BY <1>2, <2>6 DEF Observe, Walking, DirInv
  <1>3. ASSUME NEW n \in Names, Overlook(n) PROVE ObsInv' /\ DirInv'
    BY <1>3 DEF Overlook, Walking, ObsInv, DirInv
  <1>4. ASSUME NEW e, ReportEntry(e) PROVE ObsInv' /\ DirInv'
    BY <1>4 DEF ReportEntry, Walking, ObsInv, DirInv
  <1>5. ASSUME NEW d \in Dirs, EnterDirectory(d) PROVE ObsInv' /\ DirInv'
    <2>1. PICK v : v = dirStamp[d]
      OBVIOUS
    <2>2. dirSeen' = Put(dirSeen, d, v)
      BY <1>5, <2>1 DEF EnterDirectory, NoteDirectory
    <2>3. /\ DOMAIN dirSeen' = DOMAIN dirSeen \cup {d} /\ dirSeen'[d] = v
          /\ \A c \in DOMAIN dirSeen \ {d} : dirSeen'[c] = dirSeen[c]
      BY <2>2 DEF Put
    <2>4. v \in Nat /\ UNCHANGED <<disk, seen>>
      BY <1>5, <2>1 DEF EnterDirectory, Walking, TypeInv
    <2>5. ObsInv'
      BY <2>4 DEF ObsInv
    <2>6. DirInv'
      BY <2>1, <2>3, <2>4 DEF DirInv
    <2> QED
      BY <2>5, <2>6
  <1>6. CASE LeaveDirectory
    BY <1>6 DEF LeaveDirectory, ObsInv, DirInv
  <1>7. CASE FlushEvents
    BY <1>7 DEF FlushEvents, ObsInv, DirInv
  <1>8. CASE SealEnumeration
    BY <1>8 DEF SealEnumeration, ObsInv, DirInv
  <1>9. CASE CancelWalk
    BY <1>9 DEF CancelWalk, ObsInv, DirInv
  <1> QED
    BY <1>1, <1>2, <1>3, <1>4, <1>5, <1>6, <1>7, <1>8, <1>9 DEF Walk

\* A file that is intact after a change of the disk was intact before, with the
\* same bytes.
LEMMA IntactBefore ==
  ASSUME TypeInv, DiskMoves, ObsInv, NEW n \in Observed, UNCHANGED seen, Intact(n)'
  PROVE  Intact(n) /\ data'[seen[n].obj] = data[seen[n].obj]
  <1>1. PICK o, s : o = seen[n].obj /\ s = seen[n].stamp
    OBVIOUS
  <1>2. o \in Objects /\ s \in Nat /\ s <= stamp[o] /\ n \in Names
    BY <1>1 DEF TypeInv, FileObs, ObsInv
  <1>3. node'[n] = o /\ stamp'[o] = s
    BY <1>1 DEF Intact
  <1>4. stamp[o] <= stamp'[o] /\ stamp[o] \in Nat
    BY <1>2 DEF DiskMoves, TypeInv
  <1>5. stamp'[o] = stamp[o]
    BY <1>2, <1>3, <1>4
  <1>6. data'[o] = data[o] /\ node[n] = o
    BY <1>2, <1>3, <1>5 DEF DiskMoves
  <1> QED
    BY <1>1, <1>3, <1>5, <1>6 DEF Intact

\* What is intact later was intact at the end of the walk.
LEMMA SnapStays ==
  ASSUME TypeInv, DiskMoves, ObsInv, SnapInv, Sealed("enumeration"),
         UNCHANGED <<seen, snap>>
  PROVE  SnapInv'
  <1>1. ASSUME NEW n \in Observed, Intact(n)'
        PROVE  Kept(n) /\ snap[n].content = data'[seen[n].obj]
    BY <1>1, IntactBefore DEF SnapInv
  <1> QED
    BY <1>1 DEF SnapInv, Kept, Observed

\* What no step takes back once the enumeration is sealed.
EvidenceFixed ==
    \/ EnumerationSealed
    \/ ~ Sealed("enumeration") /\ ~ Sealed("enumeration")'
    \/ Sealed("enumeration") /\ Sealed("enumeration")' /\ UNCHANGED <<walking, snap>>

\* Once the enumeration is sealed, observations and snapshot are fixed.
LEMMA SealedStays ==
  ASSUME TypeInv, WorkInv, BuildInv, StepInv, [Next]_vars
  PROVE  EvidenceFixed
  <1> USE DEF disk, StepInv, Sealed, EvidenceFixed
  <1>0. DiskMoves /\ Cases
    BY DiskAlways, StepCases
  <1>1. CASE UserStep
    BY <1>1, <1>0
       DEF UserStep
  <1>2. CASE WalkStep
    BY <1>2
       DEF WalkStep
  <1>3. CASE EnumerationSealed
    BY <1>3
       DEF EnumerationSealed, SealAdded
  <1>4. CASE Ended
    BY <1>4
       DEF Ended
  <1>5. ASSUME NEW B \in work, BucketTaken(B) PROVE EvidenceFixed
    BY <1>5
       DEF BucketTaken
  <1>6. ASSUME NEW p \in SUBSET bucket, BatchBound(p) PROVE EvidenceFixed
    BY <1>6
       DEF BatchBound, NewBatch
  <1>7. ASSUME NEW n \in batch.todo, TicketOpened(n) PROVE EvidenceFixed
    BY <1>7
       DEF TicketOpened
  <1>8. ASSUME NEW n \in batch.reading, TicketRead(n) PROVE EvidenceFixed
    BY <1>8
       DEF TicketRead
  <1>9. CASE BatchRecorded
    BY <1>9
       DEF BatchRecorded
  <1>10. CASE SamplesSealed
    BY <1>10
       DEF SamplesSealed, SealAdded
  <1>11. CASE HashesSealed
    BY <1>11
       DEF HashesSealed, SealAdded
  <1>12. ASSUME NEW B \in work, NEW r \in B, GroupBegun(B, r) PROVE EvidenceFixed
    BY <1>12
       DEF GroupBegun
  <1>13. ASSUME NEW p \in SUBSET bucket, PageAppended(p) PROVE EvidenceFixed
    BY <1>13
       DEF PageAppended, NewBatch
  <1>14. CASE PairsRecorded
    BY <1>14
       DEF PairsRecorded
  <1>15. CASE CollisionNoted
    BY <1>15
       DEF CollisionNoted
  <1>16. CASE GroupFinalized
    BY <1>16
       DEF GroupFinalized
  <1>17. CASE BeginCoverage
    BY <1>17
       DEF BeginCoverage
  <1>18. ASSUME NEW p \in SUBSET bucket, DirectoriesBound(p) PROVE EvidenceFixed
    BY <1>18
       DEF DirectoriesBound, NewBatch
  <1>19. ASSUME NEW d \in Dirs, DirectoryReplayed(d) PROVE EvidenceFixed
    BY <1>19
       DEF DirectoryReplayed
  <1>20. CASE DirectoriesHeld
    BY <1>20
       DEF DirectoriesHeld
  <1>21. CASE CoverageCompleted
    BY <1>21
       DEF CoverageCompleted
  <1>22. CASE ExactSealed
    BY <1>22
       DEF ExactSealed, SealAdded
  <1> QED
    BY <1>0, <1>1, <1>2, <1>3, <1>4, <1>5, <1>6, <1>7, <1>8, <1>9, <1>10, <1>11,
       <1>12, <1>13, <1>14, <1>15, <1>16, <1>17, <1>18, <1>19, <1>20, <1>21, <1>22 DEF Cases

\* Every step keeps the intact files as they were at the end of the walk.
LEMMA SnapStep ==
  ASSUME TypeInv, WorkInv, BuildInv, StepInv, ObsInv, SnapInv, [Next]_vars
  PROVE  SnapInv'
  <1>0. DiskMoves
    BY DiskAlways
  <1>1. CASE EnumerationSealed
    <2> SUFFICES ASSUME NEW n \in Observed
                 PROVE  /\ Intact(n)' => Kept(n)' /\ snap'[n].content = data'[seen'[n].obj]
                        /\ Kept(n)' => SizeOf[snap'[n].content] = seen'[n].size
      BY <1>1 DEF SnapInv, EnumerationSealed, walking, Observed
    <2>1. UNCHANGED <<disk, seen>>
      BY <1>1 DEF EnumerationSealed, walking
    <2>2. /\ n \in Names /\ seen[n].obj \in Objects
          /\ stamp[seen[n].obj] = seen[n].stamp => SizeOf[data[seen[n].obj]] = seen[n].size
      BY DEF TypeInv, FileObs, ObsInv
    <2>3. \/ node[n] = Absent /\ snap'[n].obj = Absent
          \/ /\ node[n] # Absent
             /\ snap'[n].obj = node[n]
             /\ snap'[n].stamp = stamp[node[n]]
             /\ snap'[n].content = data[node[n]]
      BY <1>1, <2>2 DEF EnumerationSealed
    <2>4. seen[n].obj # Absent
      BY <2>2, TreeAssumption
    <2> QED
      BY <2>1, <2>2, <2>3, <2>4 DEF Intact, Kept, disk
  <1>2. CASE Sealed("enumeration") /\ UNCHANGED <<walking, snap>>
    BY <1>0, <1>2, SnapStays DEF walking
  <1> QED
    BY <1>1, <1>2, SealedStays DEF EvidenceFixed, SnapInv

\* With observations and snapshot fixed, what was kept and what was equal is
\* fixed.
LEMMA KeptStays ==
  ASSUME UNCHANGED <<seen, snap>>
  PROVE  /\ \A n : Kept(n)' <=> Kept(n)
         /\ \A n : SampleResult(n)' = SampleResult(n)
         /\ \A n : HashResult(n)' = HashResult(n)
         /\ \A m, n : Same(m, n)' <=> Same(m, n)
  BY DEF Kept, SampleResult, HashResult, Same

\* Fingerprints that are not touched stay true.
LEMMA PrintsStay ==
  ASSUME UNCHANGED <<seen, snap, prints>>, PrintInv
  PROVE  PrintInv'
  BY KeptStays DEF PrintInv, prints

\* Recording a batch of true results leaves true fingerprints.
LEMMA PrintsKept ==
  ASSUME UNCHANGED <<seen, snap>>, PrintInv, FreshInv, step \in {"sampling",
         "full_hash"},
         Recorded
  PROVE  PrintInv'
  <1>1. CASE step = "sampling"
    <2>1. ASSUME NEW n \in DOMAIN sampled'
          PROVE  Kept(n) /\ sampled'[n] = SampleResult(n)
      BY <1>1 DEF Recorded, PrintInv, FreshInv
    <2>2. ASSUME NEW n \in DOMAIN hashed'
          PROVE  Kept(n) /\ hashed'[n] = HashResult(n)
      BY <1>1 DEF Recorded, PrintInv
    <2> QED
      BY <2>1, <2>2, KeptStays DEF PrintInv
  <1>2. CASE step = "full_hash"
    <2>1. ASSUME NEW n \in DOMAIN sampled'
          PROVE  Kept(n) /\ sampled'[n] = SampleResult(n)
      BY <1>2 DEF Recorded, PrintInv
    <2>2. ASSUME NEW n \in DOMAIN hashed'
          PROVE  Kept(n) /\ hashed'[n] = HashResult(n)
      BY <1>2 DEF Recorded, PrintInv, FreshInv
    <2> QED
      BY <2>1, <2>2, KeptStays DEF PrintInv
  <1> QED
    BY <1>1, <1>2

\* Every step keeps every fingerprint that of the end of the walk.
LEMMA PrintStep ==
  ASSUME TypeInv, WorkInv, BuildInv, SealInv, StepInv, PrintInv, FreshInv, [Next]_vars
  PROVE  PrintInv'
  <1> USE DEF walking
  <1>0. DiskMoves /\ Cases
    BY DiskAlways, StepCases
  <1>1. CASE UserStep
    BY <1>1, <1>0, PrintsStay
       DEF UserStep
  <1>2. CASE WalkStep
    <2>1. DOMAIN sampled' = {} /\ DOMAIN hashed' = {}
      BY <1>2 DEF WalkStep, SealInv, StepInv, Sealed, prints
    <2> QED
      BY <2>1 DEF PrintInv
  <1>3. CASE EnumerationSealed
    <2>1. DOMAIN sampled' = {} /\ DOMAIN hashed' = {}
      BY <1>3 DEF EnumerationSealed, SealInv, StepInv, Sealed, prints
    <2> QED
      BY <2>1 DEF PrintInv
  <1>4. CASE Ended
    <2>1. CASE UNCHANGED prints
      BY <1>4, <2>1, PrintsStay DEF Ended
    <2>2. CASE step \in {"sampling", "full_hash"} /\ Recorded
      BY <1>4, <2>2, PrintsKept DEF Ended
    <2> QED
      BY <1>4, <2>1, <2>2 DEF Ended
  <1>5. ASSUME NEW B \in work, BucketTaken(B) PROVE PrintInv'
    BY <1>5, PrintsStay
       DEF BucketTaken
  <1>6. ASSUME NEW p \in SUBSET bucket, BatchBound(p) PROVE PrintInv'
    BY <1>6, PrintsStay
       DEF BatchBound, NewBatch
  <1>7. ASSUME NEW n \in batch.todo, TicketOpened(n) PROVE PrintInv'
    BY <1>7, PrintsStay
       DEF TicketOpened
  <1>8. ASSUME NEW n \in batch.reading, TicketRead(n) PROVE PrintInv'
    BY <1>8, PrintsStay
       DEF TicketRead
  <1>9. CASE BatchRecorded
    BY <1>9, PrintsKept DEF BatchRecorded
  <1>10. CASE SamplesSealed
    BY <1>10, PrintsStay
       DEF SamplesSealed, SealAdded
  <1>11. CASE HashesSealed
    BY <1>11, PrintsStay
       DEF HashesSealed, SealAdded
  <1>12. ASSUME NEW B \in work, NEW r \in B, GroupBegun(B, r) PROVE PrintInv'
    BY <1>12, PrintsStay
       DEF GroupBegun
  <1>13. ASSUME NEW p \in SUBSET bucket, PageAppended(p) PROVE PrintInv'
    BY <1>13, PrintsStay
       DEF PageAppended, NewBatch
  <1>14. CASE PairsRecorded
    BY <1>14, PrintsStay
       DEF PairsRecorded
  <1>15. CASE CollisionNoted
    BY <1>15, PrintsStay
       DEF CollisionNoted
  <1>16. CASE GroupFinalized
    BY <1>16, PrintsStay
       DEF GroupFinalized
  <1>17. CASE BeginCoverage
    BY <1>17, PrintsStay
       DEF BeginCoverage
  <1>18. ASSUME NEW p \in SUBSET bucket, DirectoriesBound(p) PROVE PrintInv'
    BY <1>18, PrintsStay
       DEF DirectoriesBound, NewBatch
  <1>19. ASSUME NEW d \in Dirs, DirectoryReplayed(d) PROVE PrintInv'
    BY <1>19, PrintsStay
       DEF DirectoryReplayed
  <1>20. CASE DirectoriesHeld
    BY <1>20, PrintsStay
       DEF DirectoriesHeld
  <1>21. CASE CoverageCompleted
    BY <1>21, PrintsStay
       DEF CoverageCompleted
  <1>22. CASE ExactSealed
    BY <1>22, PrintsStay
       DEF ExactSealed, SealAdded
  <1> QED
    BY <1>0, <1>1, <1>2, <1>3, <1>4, <1>5, <1>6, <1>7, <1>8, <1>9, <1>10, <1>11,
       <1>12, <1>13, <1>14, <1>15, <1>16, <1>17, <1>18, <1>19, <1>20, <1>21, <1>22 DEF Cases

\* Results that are not touched stay true.
LEMMA FreshStays ==
  ASSUME UNCHANGED <<seen, snap, step, batch>>, FreshInv,
         step = "exact" => build'.rep = build.rep
  PROVE  FreshInv'
  BY KeptStays DEF FreshInv, FoundAlike

\* A batch that gets no result has only true ones.
LEMMA FreshShrinks ==
  ASSUME UNCHANGED <<seen, snap, step, build>>, FreshInv,
         batch'.fresh \subseteq batch.fresh
  PROVE  FreshInv'
  BY KeptStays DEF FreshInv, FoundAlike

\* A read between two looks at an intact file yields what the file held at the
\* end of the walk; of two such files, whether they were equal then
\* (FingerprintSink, ExactComparisonSink).
LEMMA ReadsTrue ==
  ASSUME TypeInv, WorkInv, BuildInv, SealInv, StepInv, SnapInv,
         NEW n \in batch.reading, InBatch,
         \A m \in ReadWith(n) : Intact(m), NEW v, v = Evidence(n)
  PROVE  /\ step = "sampling" => Kept(n) /\ v = SampleResult(n)
         /\ step = "full_hash" => Kept(n) /\ v = HashResult(n)
         /\ step = "exact" => v \in BOOLEAN /\ (v => FoundAlike(n, build.rep))
  <1>1. n \in Pool /\ Pool \subseteq Observed /\ Sealed("enumeration")
    BY DEF WorkInv, Pool, InBatch, Reading, SealInv, StepInv
  <1>2. \A m \in Observed : Intact(m) => Kept(m) /\ snap[m].content = data[node[m]]
    BY <1>1 DEF SnapInv, Intact
  <1>3. Intact(n)
    BY DEF ReadWith
  <1>4. CASE step = "sampling"
    BY <1>1, <1>2, <1>3, <1>4 DEF Evidence, SampleResult
  <1>5. CASE step = "full_hash"
    BY <1>1, <1>2, <1>3, <1>5 DEF Evidence, HashResult
  <1>6. CASE step = "exact"
    <2>1. build.rep \in Observed
      BY <1>6 DEF InBatch, StepInv, BuildInv, WorkInv
    <2>2. Intact(build.rep)
      BY <1>6 DEF ReadWith
    <2>3. Kept(n) /\ Kept(build.rep) /\ snap[n].content = data[node[n]]
          /\ snap[build.rep].content = data[node[build.rep]]
      BY <1>1, <1>2, <1>3, <2>1, <2>2
    <2>4. v = (data[node[n]] = data[node[build.rep]])
      BY <1>6 DEF Evidence
    <2> QED
      BY <1>6, <2>3, <2>4 DEF FoundAlike, Same
  <1> QED
    BY <1>4, <1>5, <1>6 DEF InBatch, Reading

\* Every step keeps the results of the batch true of the end of the walk.
LEMMA FreshStep ==
  ASSUME TypeInv, WorkInv, BuildInv, SealInv, StepInv, SnapInv, FreshInv, [Next]_vars
  PROVE  FreshInv'
  <1> USE DEF walking
  <1>0. DiskMoves /\ Cases
    BY DiskAlways, StepCases
  <1>1. CASE UserStep
    BY <1>1, <1>0, FreshStays
       DEF UserStep
  <1>2. CASE WalkStep
    <2>1. batch'.fresh = {}
      BY <1>2, EmptyBatch DEF WalkStep, StepInv, Reading
    <2> QED
      BY <2>1 DEF FreshInv
  <1>3. CASE EnumerationSealed
    <2>1. batch'.fresh = {}
      BY <1>3, EmptyBatch DEF EnumerationSealed, StepInv, Reading
    <2> QED
      BY <2>1 DEF FreshInv
  <1>4. CASE Ended
    <2>1. batch'.fresh = {}
      BY <1>4, EmptyBatch DEF Ended
    <2> QED
      BY <2>1 DEF FreshInv
  <1>5. ASSUME NEW B \in work, BucketTaken(B) PROVE FreshInv'
    BY <1>5, FreshStays
       DEF BucketTaken
  <1>6. ASSUME NEW p \in SUBSET bucket, BatchBound(p) PROVE FreshInv'
    <2>1. batch'.fresh = {}
      BY <1>6, EmptyBatch DEF BatchBound, NewBatch
    <2> QED
      BY <2>1 DEF FreshInv
  <1>7. ASSUME NEW n \in batch.todo, TicketOpened(n) PROVE FreshInv'
    BY <1>7, FreshShrinks DEF TicketOpened
  <1>8. ASSUME NEW n \in batch.reading, TicketRead(n) PROVE FreshInv'
    <2>1. CASE batch'.fresh = batch.fresh
      BY <1>8, <2>1, FreshShrinks DEF TicketRead
    <2>2. CASE /\ \A m \in ReadWith(n) : Intact(m)
               /\ batch'.fresh = batch.fresh \cup {<<n, Evidence(n)>>}
      <3>1. PICK v : v = Evidence(n)
        OBVIOUS
      <3>2. /\ step = "sampling" => Kept(n) /\ v = SampleResult(n)
            /\ step = "full_hash" => Kept(n) /\ v = HashResult(n)
            /\ step = "exact" => v \in BOOLEAN /\ (v => FoundAlike(n, build.rep))
        BY <1>8, <2>2, <3>1, ReadsTrue DEF TicketRead
      <3>3. UNCHANGED <<seen, snap, step, build>>
        BY <1>8 DEF TicketRead
      <3>4. batch'.fresh = batch.fresh \cup {<<n, v>>} /\ <<n, v>>[1] = n /\ <<n, v>>[2] = v
        BY <2>2, <3>1
      <3>5. ASSUME NEW e \in batch'.fresh
            PROVE  /\ step = "sampling" => Kept(e[1]) /\ e[2] = SampleResult(e[1])
                   /\ step = "full_hash" => Kept(e[1]) /\ e[2] = HashResult(e[1])
                   /\ step = "exact" => e[2] \in BOOLEAN /\ (e[2] => FoundAlike(e[1], build.rep))
        <4>1. CASE e \in batch.fresh
          BY <4>1 DEF FreshInv
        <4>2. CASE e = <<n, v>>
          BY <3>2, <3>4, <4>2
        <4> QED
          BY <3>4, <4>1, <4>2
      <3> QED
        BY <3>3, <3>5, KeptStays DEF FreshInv, FoundAlike
    <2> QED
      BY <1>8, <2>1, <2>2 DEF TicketRead
  <1>9. CASE BatchRecorded
    <2>1. batch'.fresh = {}
      BY <1>9, EmptyBatch DEF BatchRecorded
    <2> QED
      BY <2>1 DEF FreshInv
  <1>10. CASE SamplesSealed
    <2>1. batch'.fresh = {}
      BY <1>10, EmptyBatch DEF SamplesSealed
    <2> QED
      BY <2>1 DEF FreshInv
  <1>11. CASE HashesSealed
    <2>1. batch'.fresh = {}
      BY <1>11, EmptyBatch DEF HashesSealed
    <2> QED
      BY <2>1 DEF FreshInv
  <1>12. ASSUME NEW B \in work, NEW r \in B, GroupBegun(B, r) PROVE FreshInv'
    <2>1. batch'.fresh = {}
      BY <1>12, EmptyBatch DEF GroupBegun, BetweenBuckets, StepInv
    <2> QED
      BY <2>1 DEF FreshInv
  <1>13. ASSUME NEW p \in SUBSET bucket, PageAppended(p) PROVE FreshInv'
    <2>1. batch'.fresh = {}
      BY <1>13, EmptyBatch DEF PageAppended, NewBatch
    <2> QED
      BY <2>1 DEF FreshInv
  <1>14. CASE PairsRecorded
    <2>1. batch'.fresh = {}
      BY <1>14, EmptyBatch DEF PairsRecorded
    <2> QED
      BY <2>1 DEF FreshInv
  <1>15. CASE CollisionNoted
    <2>1. batch'.fresh = {}
      BY <1>15, EmptyBatch DEF CollisionNoted
    <2> QED
      BY <2>1 DEF FreshInv
  <1>16. CASE GroupFinalized
    <2>1. batch'.fresh = {}
      BY <1>16, EmptyBatch DEF GroupFinalized
    <2> QED
      BY <2>1 DEF FreshInv
  <1>17. CASE BeginCoverage
    <2>1. batch'.fresh = {}
      BY <1>17, EmptyBatch DEF BeginCoverage, BetweenBuckets, StepInv
    <2> QED
      BY <2>1 DEF FreshInv
  <1>18. ASSUME NEW p \in SUBSET bucket, DirectoriesBound(p) PROVE FreshInv'
    <2>1. batch'.fresh = {}
      BY <1>18, EmptyBatch DEF DirectoriesBound, NewBatch
    <2> QED
      BY <2>1 DEF FreshInv
  <1>19. ASSUME NEW d \in Dirs, DirectoryReplayed(d) PROVE FreshInv'
    BY <1>19, FreshShrinks DEF DirectoryReplayed
  <1>20. CASE DirectoriesHeld
    <2>1. batch'.fresh = {}
      BY <1>20, EmptyBatch DEF DirectoriesHeld
    <2> QED
      BY <2>1 DEF FreshInv
  <1>21. CASE CoverageCompleted
    <2>1. batch'.fresh = {}
      BY <1>21, EmptyBatch DEF CoverageCompleted
    <2> QED
      BY <2>1 DEF FreshInv
  <1>22. CASE ExactSealed
    <2>1. batch'.fresh = {}
      BY <1>22, EmptyBatch DEF ExactSealed, StepInv, Reading
    <2> QED
      BY <2>1 DEF FreshInv
  <1> QED
    BY <1>0, <1>1, <1>2, <1>3, <1>4, <1>5, <1>6, <1>7, <1>8, <1>9, <1>10, <1>11,
       <1>12, <1>13, <1>14, <1>15, <1>16, <1>17, <1>18, <1>19, <1>20, <1>21, <1>22 DEF Cases

\* Edges that are not touched stay true.
LEMMA EdgesStay ==
  ASSUME UNCHANGED <<seen, snap>>, EdgeInv, build'.rep = build.rep,
         build'.edges \subseteq build.edges
  PROVE  EdgeInv'
  BY KeptStays DEF EdgeInv, FoundAlike

\* Every step keeps the edges between files that were equal
\* (append_exact_verification_edges_impl).
LEMMA EdgeStep ==
  ASSUME TypeInv, WorkInv, BuildInv, SealInv, StepInv, FreshInv, EdgeInv, [Next]_vars
  PROVE  EdgeInv'
  <1> USE DEF walking
  <1>0. DiskMoves /\ Cases
    BY DiskAlways, StepCases
  <1>1. CASE UserStep
    BY <1>1, <1>0, EdgesStay
       DEF UserStep
  <1>2. CASE WalkStep
    <2>1. build'.edges = {}
      BY <1>2, EmptyBuild, Drafting DEF WalkStep, StepInv
    <2> QED
      BY <2>1 DEF EdgeInv
  <1>3. CASE EnumerationSealed
    <2>1. build'.edges = {}
      BY <1>3, EmptyBuild, Drafting DEF EnumerationSealed, StepInv
    <2> QED
      BY <2>1 DEF EdgeInv
  <1>4. CASE Ended
    <2>1. build'.edges = {}
      BY <1>4, EmptyBuild, Drafting DEF Ended
    <2> QED
      BY <2>1 DEF EdgeInv
  <1>5. ASSUME NEW B \in work, BucketTaken(B) PROVE EdgeInv'
    BY <1>5, EdgesStay
       DEF BucketTaken
  <1>6. ASSUME NEW p \in SUBSET bucket, BatchBound(p) PROVE EdgeInv'
    BY <1>6, EdgesStay
       DEF BatchBound, NewBatch
  <1>7. ASSUME NEW n \in batch.todo, TicketOpened(n) PROVE EdgeInv'
    BY <1>7, EdgesStay
       DEF TicketOpened
  <1>8. ASSUME NEW n \in batch.reading, TicketRead(n) PROVE EdgeInv'
    BY <1>8, EdgesStay
       DEF TicketRead
  <1>9. CASE BatchRecorded
    BY <1>9, EdgesStay
       DEF BatchRecorded
  <1>10. CASE SamplesSealed
    BY <1>10, EdgesStay
       DEF SamplesSealed, SealAdded
  <1>11. CASE HashesSealed
    BY <1>11, EdgesStay
       DEF HashesSealed, SealAdded
  <1>12. ASSUME NEW B \in work, NEW r \in B, GroupBegun(B, r) PROVE EdgeInv'
    <2>1. build'.edges = {}
      BY <1>12, EmptyBuild, Drafting DEF GroupBegun
    <2> QED
      BY <2>1 DEF EdgeInv
  <1>13. ASSUME NEW p \in SUBSET bucket, PageAppended(p) PROVE EdgeInv'
    BY <1>13, EdgesStay
       DEF PageAppended, NewBatch
  <1>14. CASE PairsRecorded
    <2>1. \A n \in build'.edges : FoundAlike(n, build.rep)
      BY <1>14 DEF PairsRecorded, EdgeInv, FreshInv
    <2> QED
      BY <1>14, <2>1, KeptStays DEF PairsRecorded, EdgeInv, FoundAlike
  <1>15. CASE CollisionNoted
    <2>1. build'.edges = {}
      BY <1>15, EmptyBuild, Drafting DEF CollisionNoted
    <2> QED
      BY <2>1 DEF EdgeInv
  <1>16. CASE GroupFinalized
    <2>1. build'.edges = {}
      BY <1>16, EmptyBuild, Drafting DEF GroupFinalized
    <2> QED
      BY <2>1 DEF EdgeInv
  <1>17. CASE BeginCoverage
    BY <1>17, EdgesStay
       DEF BeginCoverage
  <1>18. ASSUME NEW p \in SUBSET bucket, DirectoriesBound(p) PROVE EdgeInv'
    BY <1>18, EdgesStay
       DEF DirectoriesBound, NewBatch
  <1>19. ASSUME NEW d \in Dirs, DirectoryReplayed(d) PROVE EdgeInv'
    BY <1>19, EdgesStay
       DEF DirectoryReplayed
  <1>20. CASE DirectoriesHeld
    BY <1>20, EdgesStay
       DEF DirectoriesHeld
  <1>21. CASE CoverageCompleted
    BY <1>21, EdgesStay
       DEF CoverageCompleted
  <1>22. CASE ExactSealed
    BY <1>22, EdgesStay
       DEF ExactSealed, SealAdded
  <1> QED
    BY <1>0, <1>1, <1>2, <1>3, <1>4, <1>5, <1>6, <1>7, <1>8, <1>9, <1>10, <1>11,
       <1>12, <1>13, <1>14, <1>15, <1>16, <1>17, <1>18, <1>19, <1>20, <1>21, <1>22 DEF Cases

\* Neither the groups nor what they are about changes.
GroupsRest ==
    groups' = groups /\ (groups = {} \/ UNCHANGED <<seen, snap, hashed>>)

\* Groups that are not touched stay as they are.
LEMMA GroupsStay ==
  ASSUME GroupInv, EqualInv, ApartInv, GroupsRest
  PROVE  GroupInv' /\ EqualInv' /\ ApartInv'
  <1>1. CASE groups = {}
    BY <1>1 DEF GroupsRest, GroupInv, EqualInv, ApartInv
  <1>2. CASE UNCHANGED <<seen, snap, hashed>>
    <2>1. groups' = groups
      BY DEF GroupsRest
    <2>2. GroupInv'
      BY <1>2, <2>1 DEF GroupInv, GroupReplayed, ObjectsOf
    <2>3. EqualInv'
      BY <1>2, <2>1, KeptStays DEF EqualInv
    <2>4. ApartInv'
      <3>1. ASSUME NEW S PROVE ObjectsOf(S)' = ObjectsOf(S)
        BY <1>2 DEF ObjectsOf
      <3> QED
        BY <2>1, <3>1 DEF ApartInv
    <2> QED
      BY <2>2, <2>3, <2>4
  <1> QED
    BY <1>1, <1>2 DEF GroupsRest

\* The members of a whole draft were all equal to its representative, so to
\* each other (recompute_exact_group).
LEMMA WholeGroups ==
  ASSUME WorkInv, BuildInv, EdgeInv, Whole, build # NoBuild
  PROVE  /\ build.members \subseteq DOMAIN hashed /\ Cardinality(build.members) >= 2
         /\ \A n \in build.members : Kept(n)
         /\ \A m, n \in build.members : Same(m, n)
  <1>1. /\ build.members = build.planned /\ build.rep \in build.members
        /\ build.edges = build.members \ {build.rep}
        /\ build.members \subseteq DOMAIN hashed /\ Cardinality(build.members) >= 2
    BY DEF BuildInv, Whole
  <1>2. build.members # {build.rep}
    <2> SUFFICES ASSUME build.members = {build.rep} PROVE FALSE
      OBVIOUS
    <2> QED
      BY <1>1, FS_Singleton
  <1>3. PICK k \in build.members : k # build.rep
    BY <1>1, <1>2
  <1>4. FoundAlike(k, build.rep)
    BY <1>1, <1>3 DEF EdgeInv
  <1>5. \A n \in build.members : Kept(n) /\ Same(n, build.rep)
    BY <1>1, <1>4 DEF EdgeInv, FoundAlike, Same
  <1> QED
    BY <1>1, <1>5 DEF Same

\* Every step keeps the verified groups replayable, equal and apart
\* (finalize_exact_group).
LEMMA GroupStep ==
  ASSUME TypeInv, WorkInv, BuildInv, SealInv, StepInv, EdgeInv, GroupInv,
         EqualInv, ApartInv, [Next]_vars
  PROVE  GroupInv' /\ EqualInv' /\ ApartInv'
  <1> USE DEF walking, verdicts, prints
  <1>0. DiskMoves /\ Cases
    BY DiskAlways, StepCases
  <1>1. CASE UserStep
    BY <1>1, <1>0, GroupsStay
       DEF UserStep, GroupsRest
  <1>2. CASE WalkStep
    <2>1. GroupsRest
      BY <1>2 DEF WalkStep, GroupsRest, SealInv, StepInv, Sealed
    <2> QED
      BY <2>1, GroupsStay
  <1>3. CASE EnumerationSealed
    <2>1. GroupsRest
      BY <1>3 DEF EnumerationSealed, GroupsRest, SealInv, StepInv, Sealed
    <2> QED
      BY <2>1, GroupsStay
  <1>4. CASE Ended
    <2>1. GroupsRest
      BY <1>4 DEF Ended, Recorded, GroupsRest, SealInv, StepInv
    <2> QED
      BY <2>1, GroupsStay
  <1>5. ASSUME NEW B \in work, BucketTaken(B) PROVE GroupInv' /\ EqualInv' /\ ApartInv'
    BY <1>5, GroupsStay
       DEF BucketTaken, GroupsRest
  <1>6. ASSUME NEW p \in SUBSET bucket, BatchBound(p)
        PROVE  GroupInv' /\ EqualInv' /\ ApartInv'
    BY <1>6, GroupsStay
       DEF BatchBound, NewBatch, GroupsRest
  <1>7. ASSUME NEW n \in batch.todo, TicketOpened(n)
        PROVE  GroupInv' /\ EqualInv' /\ ApartInv'
    BY <1>7, GroupsStay
       DEF TicketOpened, GroupsRest
  <1>8. ASSUME NEW n \in batch.reading, TicketRead(n)
        PROVE  GroupInv' /\ EqualInv' /\ ApartInv'
    BY <1>8, GroupsStay
       DEF TicketRead, GroupsRest
  <1>9. CASE BatchRecorded
    <2>1. GroupsRest
      BY <1>9 DEF BatchRecorded, Recorded, GroupsRest, SealInv, StepInv
    <2> QED
      BY <2>1, GroupsStay
  <1>10. CASE SamplesSealed
    BY <1>10, GroupsStay
       DEF SamplesSealed, SealAdded, GroupsRest
  <1>11. CASE HashesSealed
    BY <1>11, GroupsStay
       DEF HashesSealed, SealAdded, GroupsRest
  <1>12. ASSUME NEW B \in work, NEW r \in B, GroupBegun(B, r)
         PROVE  GroupInv' /\ EqualInv' /\ ApartInv'
    BY <1>12, GroupsStay
       DEF GroupBegun, GroupsRest
  <1>13. ASSUME NEW p \in SUBSET bucket, PageAppended(p)
         PROVE  GroupInv' /\ EqualInv' /\ ApartInv'
    BY <1>13, GroupsStay
       DEF PageAppended, NewBatch, GroupsRest
  <1>14. CASE PairsRecorded
    BY <1>14, GroupsStay
       DEF PairsRecorded, GroupsRest
  <1>15. CASE CollisionNoted
    BY <1>15, GroupsStay
       DEF CollisionNoted, GroupsRest
  <1>16. CASE GroupFinalized
    <2>1. UNCHANGED <<seen, snap, hashed>>
      BY <1>16 DEF GroupFinalized
    <2>2. PICK new : new = NewGroup
      OBVIOUS
    <2>3. new.members = build.members /\ new.independent = Cardinality(ObjectsOf(new.members))
      BY <2>2 DEF NewGroup
    <2>4. groups' = groups \cup {new} /\ Whole /\ build # NoBuild
          /\ \A g \in groups : ~ Overlaps(g)
      BY <1>16, <2>2 DEF GroupFinalized, Finalizable
    <2>5. /\ build.members \subseteq DOMAIN hashed /\ Cardinality(build.members) >= 2
          /\ \A n \in build.members : Kept(n)
          /\ \A m, n \in build.members : Same(m, n)
      BY <2>4, WholeGroups
    <2>6. GroupReplayed(new)
      BY <2>3, <2>4, <2>5 DEF GroupReplayed, Whole
    <2>7. GroupInv'
      <3>1. \A g \in groups' : GroupReplayed(g)
        BY <2>4, <2>6 DEF GroupInv
      <3>2. \A g \in groups' : GroupReplayed(g)'
        BY <2>1, <3>1 DEF GroupReplayed, ObjectsOf
      <3> QED
        BY <3>2 DEF GroupInv
    <2>8. EqualInv'
      BY <2>1, <2>3, <2>4, <2>5, KeptStays DEF EqualInv
    <2>9. ASSUME NEW g \in groups
          PROVE  /\ g.members \cap new.members = {}
                 /\ ObjectsOf(g.members) \cap ObjectsOf(new.members) = {}
      BY <2>3, <2>4 DEF Overlaps
    <2>10. \A g, h \in groups' :
             g # h => /\ g.members \cap h.members = {}
                      /\ ObjectsOf(g.members) \cap ObjectsOf(h.members) = {}
      BY <2>4, <2>9 DEF ApartInv
    <2>11. ApartInv'
      BY <2>1, <2>10 DEF ApartInv, ObjectsOf
    <2> QED
      BY <2>7, <2>8, <2>11
  <1>17. CASE BeginCoverage
    BY <1>17, GroupsStay
       DEF BeginCoverage, GroupsRest
  <1>18. ASSUME NEW p \in SUBSET bucket, DirectoriesBound(p)
         PROVE  GroupInv' /\ EqualInv' /\ ApartInv'
    BY <1>18, GroupsStay
       DEF DirectoriesBound, NewBatch, GroupsRest
  <1>19. ASSUME NEW d \in Dirs, DirectoryReplayed(d)
         PROVE  GroupInv' /\ EqualInv' /\ ApartInv'
    BY <1>19, GroupsStay
       DEF DirectoryReplayed, GroupsRest
  <1>20. CASE DirectoriesHeld
    BY <1>20, GroupsStay
       DEF DirectoriesHeld, GroupsRest
  <1>21. CASE CoverageCompleted
    BY <1>21, GroupsStay
       DEF CoverageCompleted, GroupsRest
  <1>22. CASE ExactSealed
    BY <1>22, GroupsStay
       DEF ExactSealed, SealAdded, GroupsRest
  <1> QED
    BY <1>0, <1>1, <1>2, <1>3, <1>4, <1>5, <1>6, <1>7, <1>8, <1>9, <1>10, <1>11,
       <1>12, <1>13, <1>14, <1>15, <1>16, <1>17, <1>18, <1>19, <1>20, <1>21, <1>22 DEF Cases

\* The buckets change only with the table they are drawn from.
LEMMA BucketsStay ==
  /\ (UNCHANGED seen => UNCHANGED SizeBuckets)
  /\ (UNCHANGED sampled => UNCHANGED SampleBuckets)
  /\ (UNCHANGED hashed => UNCHANGED DigestBuckets)
  BY DEF SizeBuckets, SampleBuckets, DigestBuckets, Observed

\* Every step keeps account of every bucket of equal sizes or samples: none is
\* left before all of it has its fingerprints.
LEMMA FoundStep ==
  ASSUME TypeInv, WorkInv, BuildInv, SealInv, StepInv, BatchInv, FoundInv, [Next]_vars
  PROVE  FoundInv'
  <1> USE DEF walking, prints, FoundInv, Sealed
  <1>0. DiskMoves /\ Cases
    BY DiskAlways, StepCases
  <1>1. CASE UserStep
    BY <1>1, <1>0, BucketsStay, EmptyBatch
       DEF UserStep, SealInv, StepInv
  <1>2. CASE WalkStep
    BY <1>2, BucketsStay, EmptyBatch
       DEF WalkStep, SealInv, StepInv
  <1>3. CASE EnumerationSealed
    BY <1>3, BucketsStay, EmptyBatch
       DEF EnumerationSealed, SealAdded, SealInv, StepInv
  <1>4. CASE Ended
    BY <1>4, BucketsStay, EmptyBatch
       DEF Ended, SealInv, StepInv, Recorded, Terminal
  <1>5. ASSUME NEW B \in work, BucketTaken(B) PROVE FoundInv'
    BY <1>5, BucketsStay, EmptyBatch
       DEF BucketTaken
  <1>6. ASSUME NEW p \in SUBSET bucket, BatchBound(p) PROVE FoundInv'
    BY <1>6, BucketsStay, EmptyBatch
       DEF BatchBound, NewBatch
  <1>7. ASSUME NEW n \in batch.todo, TicketOpened(n) PROVE FoundInv'
    BY <1>7, BucketsStay, EmptyBatch
       DEF TicketOpened
  <1>8. ASSUME NEW n \in batch.reading, TicketRead(n) PROVE FoundInv'
    BY <1>8, BucketsStay, EmptyBatch
       DEF TicketRead
  <1>9. CASE BatchRecorded
    BY <1>9, BucketsStay, EmptyBatch
       DEF BatchRecorded, Recorded, BatchInv, BatchRead, SealInv, StepInv
  <1>10. CASE SamplesSealed
    BY <1>10, BucketsStay, EmptyBatch
       DEF SamplesSealed, SealAdded, SealInv, StepInv
  <1>11. CASE HashesSealed
    BY <1>11, BucketsStay, EmptyBatch
       DEF HashesSealed, SealAdded, SealInv, StepInv
  <1>12. ASSUME NEW B \in work, NEW r \in B, GroupBegun(B, r) PROVE FoundInv'
    BY <1>12, BucketsStay, EmptyBatch
       DEF GroupBegun, BetweenBuckets
  <1>13. ASSUME NEW p \in SUBSET bucket, PageAppended(p) PROVE FoundInv'
    BY <1>13, BucketsStay, EmptyBatch
       DEF PageAppended, NewBatch, SealInv, StepInv
  <1>14. CASE PairsRecorded
    BY <1>14, BucketsStay, EmptyBatch
       DEF PairsRecorded, SealInv, StepInv
  <1>15. CASE CollisionNoted
    BY <1>15, BucketsStay, EmptyBatch
       DEF CollisionNoted, SealInv, StepInv
  <1>16. CASE GroupFinalized
    BY <1>16, BucketsStay, EmptyBatch
       DEF GroupFinalized, SealInv, StepInv
  <1>17. CASE BeginCoverage
    BY <1>17, BucketsStay, EmptyBatch
       DEF BeginCoverage, BetweenBuckets
  <1>18. ASSUME NEW p \in SUBSET bucket, DirectoriesBound(p) PROVE FoundInv'
    BY <1>18, BucketsStay, EmptyBatch
       DEF DirectoriesBound, NewBatch, SealInv, StepInv
  <1>19. ASSUME NEW d \in Dirs, DirectoryReplayed(d) PROVE FoundInv'
    BY <1>19, BucketsStay, EmptyBatch
       DEF DirectoryReplayed, SealInv, StepInv
  <1>20. CASE DirectoriesHeld
    BY <1>20, BucketsStay, EmptyBatch
       DEF DirectoriesHeld, SealInv, StepInv
  <1>21. CASE CoverageCompleted
    BY <1>21, BucketsStay, EmptyBatch
       DEF CoverageCompleted, SealInv, StepInv
  <1>22. CASE ExactSealed
    BY <1>22, BucketsStay, EmptyBatch
       DEF ExactSealed, SealAdded, SealInv, StepInv
  <1> QED
    BY <1>0, <1>1, <1>2, <1>3, <1>4, <1>5, <1>6, <1>7, <1>8, <1>9, <1>10, <1>11,
       <1>12, <1>13, <1>14, <1>15, <1>16, <1>17, <1>18, <1>19, <1>20, <1>21, <1>22 DEF Cases

\* No bucket is the empty plan of no draft.
LEMMA NoEmptyBucket ==
  \A B \in DigestBuckets : B # NoBuild.planned
  <1>1. ASSUME NEW B \in DigestBuckets, B = {} PROVE FALSE
    <2>1. Cardinality({}) >= 2
      BY <1>1, PrintBuckets
    <2> QED
      BY <2>1, FS_EmptySet
  <1> QED
    BY <1>1, EmptyBuild

\* Every step keeps account of every bucket of one digest: none is left before
\* it is a group or a collision.
LEMMA DecidedStep ==
  ASSUME TypeInv, WorkInv, BuildInv, SealInv, StepInv, DecidedInv, [Next]_vars
  PROVE  DecidedInv'
  <1> USE DEF prints, verdicts, DecidedInv, Sealed
  <1>0. DiskMoves /\ Cases
    BY DiskAlways, StepCases
  <1>1. CASE UserStep
    BY <1>1, <1>0, BucketsStay
       DEF UserStep
  <1>2. CASE WalkStep
    BY <1>2, BucketsStay
       DEF WalkStep, SealInv, StepInv
  <1>3. CASE EnumerationSealed
    BY <1>3, BucketsStay
       DEF EnumerationSealed, SealAdded, SealInv, StepInv
  <1>4. CASE Ended
    <2>1. CASE ~ Sealed("exact_verification")
      BY <1>4, <2>1 DEF Ended, Terminal
    <2>2. CASE Sealed("exact_verification")
      <3>1. /\ step \notin {"enumerate", "sampling", "full_hash", "exact"}
            /\ work = {} /\ build = NoBuild
        BY <2>2 DEF SealInv, StepInv
      <3> QED
        BY <1>4, <2>2, <3>1, BucketsStay DEF Ended
    <2> QED
      BY <2>1, <2>2
  <1>5. ASSUME NEW B \in work, BucketTaken(B) PROVE DecidedInv'
    BY <1>5, BucketsStay
       DEF BucketTaken, SealInv, StepInv
  <1>6. ASSUME NEW p \in SUBSET bucket, BatchBound(p) PROVE DecidedInv'
    BY <1>6, BucketsStay
       DEF BatchBound, NewBatch
  <1>7. ASSUME NEW n \in batch.todo, TicketOpened(n) PROVE DecidedInv'
    BY <1>7, BucketsStay
       DEF TicketOpened
  <1>8. ASSUME NEW n \in batch.reading, TicketRead(n) PROVE DecidedInv'
    BY <1>8, BucketsStay
       DEF TicketRead
  <1>9. CASE BatchRecorded
    BY <1>9, BucketsStay
       DEF BatchRecorded, SealInv, StepInv
  <1>10. CASE SamplesSealed
    BY <1>10, BucketsStay
       DEF SamplesSealed, SealAdded, SealInv, StepInv
  <1>11. CASE HashesSealed
    BY <1>11, BucketsStay
       DEF HashesSealed, SealAdded
  <1>12. ASSUME NEW B \in work, NEW r \in B, GroupBegun(B, r) PROVE DecidedInv'
    BY <1>12, BucketsStay, Drafting, NoEmptyBucket DEF GroupBegun, BetweenBuckets
  <1>13. ASSUME NEW p \in SUBSET bucket, PageAppended(p) PROVE DecidedInv'
    BY <1>13, BucketsStay
       DEF PageAppended, NewBatch
  <1>14. CASE PairsRecorded
    BY <1>14, BucketsStay
       DEF PairsRecorded
  <1>15. CASE CollisionNoted
    BY <1>15, BucketsStay DEF CollisionNoted
  <1>16. CASE GroupFinalized
    <2>1. PICK new : new = NewGroup
      OBVIOUS
    <2>2. groups' = groups \cup {new} /\ new.members = build.planned
      BY <1>16, <2>1 DEF GroupFinalized, NewGroup, Finalizable, Whole
    <2> QED
      BY <1>16, <2>2, BucketsStay DEF GroupFinalized
  <1>17. CASE BeginCoverage
    BY <1>17, BucketsStay
       DEF BeginCoverage, BetweenBuckets
  <1>18. ASSUME NEW p \in SUBSET bucket, DirectoriesBound(p) PROVE DecidedInv'
    BY <1>18, BucketsStay
       DEF DirectoriesBound, NewBatch
  <1>19. ASSUME NEW d \in Dirs, DirectoryReplayed(d) PROVE DecidedInv'
    BY <1>19, BucketsStay
       DEF DirectoryReplayed
  <1>20. CASE DirectoriesHeld
    BY <1>20, BucketsStay
       DEF DirectoriesHeld
  <1>21. CASE CoverageCompleted
    BY <1>21, BucketsStay
       DEF CoverageCompleted
  <1>22. CASE ExactSealed
    BY <1>22, BucketsStay
       DEF ExactSealed, SealAdded
  <1> QED
    BY <1>0, <1>1, <1>2, <1>3, <1>4, <1>5, <1>6, <1>7, <1>8, <1>9, <1>10, <1>11,
       <1>12, <1>13, <1>14, <1>15, <1>16, <1>17, <1>18, <1>19, <1>20, <1>21, <1>22 DEF Cases

-----------------------------------------------------------------------------
(* What the walk does not miss.                                            *)

\* An entry settled stays settled whatever the user does: a file that comes
\* later moves its directory.
LEMMA SettledMoves ==
  ASSUME TypeInv, DiskMoves, DirInv, UNCHANGED <<partial, seen, dirSeen>>,
         NEW e \in DOMAIN Home, Home[e] \in DOMAIN dirSeen, Settled(e)
  PROVE  Settled(e)'
  <1>1. CASE e \in Names /\ (node[e] = Absent \/ Moved(Home[e]))
    <2>1. PICK d : d = Home[e]
      OBVIOUS
    <2>2. /\ d \in Dirs /\ dirSeen[d] \in Nat /\ dirSeen[d] <= dirStamp[d]
          /\ dirStamp[d] \in Nat /\ dirStamp'[d] \in Nat /\ dirStamp[d] <= dirStamp'[d]
          /\ (dirStamp'[d] = dirStamp[d] => node'[e] = node[e])
      BY <1>1, <2>1 DEF TypeInv, DirInv, DiskMoves
    <2>3. node'[e] = Absent \/ dirStamp'[d] # dirSeen[d]
      BY <1>1, <2>1, <2>2 DEF Moved
    <2> QED
      BY <1>1, <2>1, <2>3 DEF Settled, Moved
  <1> QED
    BY <1>1 DEF Settled, Observed

\* A change of the disk leaves the walk as true as it was.
LEMMA WalkUser ==
  ASSUME TypeInv, DiskMoves, DirInv, WalkInv, UNCHANGED <<walking, step>>
  PROVE  WalkInv'
  <1> SUFFICES ASSUME step = "enumerate" PROVE FramesInv' /\ EntriesInv'
    BY DEF WalkInv
  <1>1. FramesInv /\ EntriesInv /\ UNCHANGED <<walk, partial, seen, dirSeen>>
    BY DEF WalkInv, walking
  <1>2. FramesInv'
    BY <1>1 DEF FramesInv, Entries
  <1>3. EntriesInv'
    <2> SUFFICES ASSUME NEW d \in DOMAIN dirSeen, NEW e \in Entries(d)
                 PROVE  Settled(e)' \/ \E i \in 1 .. Len(walk) : e \in walk[i].left
      BY <1>1 DEF EntriesInv, Entries
    <2>1. e \in DOMAIN Home /\ Home[e] \in DOMAIN dirSeen
      BY DEF Entries
    <2> QED
      BY <1>1, <2>1, SettledMoves DEF EntriesInv
  <1> QED
    BY <1>2, <1>3

\* A directory passes over an entry that is settled.
LEMMA WalkPast ==
  ASSUME TypeInv, FramesInv, EntriesInv, NEW e, Walking(e), walk' = Past(e),
         UNCHANGED dirSeen, DOMAIN seen \subseteq DOMAIN seen', partial => partial',
         Settled(e)'
  PROVE  FramesInv' /\ EntriesInv'
  <1>1. /\ walk \in Seq(Frames) /\ walk # <<>> /\ UNCHANGED disk
        /\ e \in walk[1].left
    BY DEF TypeInv, Walking, Here
  <1>2. /\ Len(walk') = Len(walk) /\ Len(walk) \in Nat \ {0}
        /\ walk'[1].dir = walk[1].dir /\ walk'[1].left = walk[1].left \ {e}
        /\ \A i \in 2 .. Len(walk) : walk'[i] = walk[i]
    BY <1>1, Passing
  <1>3. \A i \in 1 .. Len(walk) : /\ walk'[i].dir = walk[i].dir
                                  /\ walk'[i].left \subseteq walk[i].left
                                  /\ walk[i].left \subseteq walk'[i].left \cup {e}
    <2> TAKE i \in 1 .. Len(walk)
    <2>1. i = 1 \/ i \in 2 .. Len(walk)
      BY <1>2
    <2> QED
      BY <1>2, <2>1
  <1>4. FramesInv'
    <2>1. \A i \in 1 .. Len(walk) :
             /\ walk'[i].dir \in DOMAIN dirSeen
             /\ walk'[i].left \subseteq Entries(walk'[i].dir)
             /\ walk'[i].left \cap DOMAIN dirSeen = {}
      BY <1>3 DEF FramesInv
    <2>2. \A i, j \in 1 .. Len(walk) : i # j => walk'[i].dir # walk'[j].dir
      BY <1>3 DEF FramesInv
    <2> QED
      BY <1>2, <2>1, <2>2 DEF FramesInv, Entries
  <1>5. EntriesInv'
    <2> SUFFICES ASSUME NEW d \in DOMAIN dirSeen, NEW c \in Entries(d)
                 PROVE  Settled(c)' \/ \E i \in 1 .. Len(walk) : c \in walk'[i].left
      BY <1>2 DEF EntriesInv, Entries
    <2>1. CASE c = e
      BY <2>1
    <2>2. CASE Settled(c)
      BY <1>1, <2>2 DEF Settled, Moved, Observed, disk
    <2>3. CASE c # e /\ ~ Settled(c)
      BY <1>3, <2>3 DEF EntriesInv
    <2> QED
      BY <2>1, <2>2, <2>3
  <1> QED
    BY <1>4, <1>5

\* A directory that is entered is settled, and all its entries are to come
\* (emit_directory_observation).
LEMMA WalkIn ==
  ASSUME TypeInv, FramesInv, EntriesInv, NEW d \in Dirs, EnterDirectory(d)
  PROVE  FramesInv' /\ EntriesInv'
  <1>1. /\ walk \in Seq(Frames) /\ walk # <<>> /\ UNCHANGED <<disk, seen, partial>>
        /\ d \in walk[1].left
    BY DEF TypeInv, EnterDirectory, Walking, Here
  <1>2. PICK s : s = Past(d)
    OBVIOUS
  <1>3. /\ s \in Seq(Frames) /\ Len(s) = Len(walk) /\ Len(walk) \in Nat \ {0}
        /\ s[1].dir = walk[1].dir /\ s[1].left = walk[1].left \ {d}
        /\ \A i \in 2 .. Len(walk) : s[i] = walk[i]
    BY <1>1, <1>2, Passing
  <1>4. PICK x : x = [dir |-> d, left |-> Entries(d)]
    OBVIOUS
  <1>5. x \in Frames /\ x.dir = d /\ x.left = Entries(d)
    BY <1>4, TreeAssumption DEF Frames, Entries, Things
  <1>6. walk' = <<x>> \o s
    BY <1>2, <1>4 DEF EnterDirectory
  <1>7. /\ Len(walk') = Len(walk) + 1 /\ walk'[1] = x
        /\ \A i \in 1 .. Len(walk) : walk'[i + 1] = s[i]
    BY <1>3, <1>5, <1>6, Pushing
  <1>8. PICK v : v = dirStamp[d]
    OBVIOUS
  <1>9. /\ DOMAIN dirSeen' = DOMAIN dirSeen \cup {d}
        /\ \A c \in DOMAIN dirSeen \ {d} : dirSeen'[c] = dirSeen[c]
    BY <1>8 DEF EnterDirectory, NoteDirectory, Put
  <1>10. /\ d \notin DOMAIN dirSeen /\ Home[d] = walk[1].dir /\ d \in DOMAIN Home
         /\ walk[1].dir \in DOMAIN dirSeen
    <2>1. 1 \in 1 .. Len(walk)
      BY <1>3
    <2> QED
      BY <1>1, <2>1 DEF FramesInv, Entries
  <1>11. \A i \in 1 .. Len(walk) : /\ s[i].dir = walk[i].dir
                                   /\ s[i].left \subseteq walk[i].left \ {d}
                                   /\ walk[i].left \subseteq s[i].left \cup {d}
    <2> TAKE i \in 1 .. Len(walk)
    <2>1. CASE i = 1
      BY <1>3, <2>1
    <2>2. CASE i \in 2 .. Len(walk)
      <3>1. 1 \in 1 .. Len(walk) /\ i # 1
        BY <1>3, <2>2
      <3>2. walk[i].dir # walk[1].dir /\ walk[i].left \subseteq Entries(walk[i].dir)
        BY <3>1 DEF FramesInv
      <3>3. d \notin walk[i].left
        BY <1>10, <3>2 DEF Entries
      <3> QED
        BY <1>3, <2>2, <3>3
    <2> QED
      BY <1>3, <2>1, <2>2
  <1>12. \A i \in 1 .. Len(walk') : i = 1 \/ (i - 1 \in 1 .. Len(walk) /\ walk'[i] = s[i - 1])
    <2> TAKE i \in 1 .. Len(walk')
    <2>1. CASE i # 1
      <3>1. i - 1 \in 1 .. Len(walk) /\ (i - 1) + 1 = i
        BY <1>3, <1>7, <2>1
      <3> QED
        BY <1>7, <3>1
    <2> QED
      BY <2>1
  <1>13. Entries(d) \cap DOMAIN dirSeen' = {}
    <2> SUFFICES ASSUME NEW c \in Entries(d), c \in DOMAIN dirSeen' PROVE FALSE
      OBVIOUS
    <2>1. c # Root /\ Home[c] = d
      BY TreeAssumption DEF Entries
    <2>2. c \in DOMAIN dirSeen
      BY <1>9, <1>10, <2>1
    <2> QED
      BY <1>10, <2>1, <2>2 DEF FramesInv
  <1>14. FramesInv'
    <2>1. ASSUME NEW i \in 1 .. Len(walk')
          PROVE  /\ walk'[i].dir \in DOMAIN dirSeen'
                 /\ walk'[i].left \subseteq Entries(walk'[i].dir)
                 /\ walk'[i].left \cap DOMAIN dirSeen' = {}
      <3>1. CASE i = 1
        BY <1>5, <1>7, <1>9, <1>13, <3>1
      <3>2. CASE i - 1 \in 1 .. Len(walk) /\ walk'[i] = s[i - 1]
        BY <1>9, <1>11, <3>2 DEF FramesInv
      <3> QED
        BY <1>12, <3>1, <3>2
    <2>2. ASSUME NEW i \in 1 .. Len(walk'), NEW j \in 1 .. Len(walk'), i # j
          PROVE  walk'[i].dir # walk'[j].dir
      <3>1. ASSUME NEW k \in 1 .. Len(walk'), k # 1
            PROVE  walk'[k].dir # d /\ walk'[k].dir = walk[k - 1].dir /\ k - 1 \in 1 .. Len(walk)
        BY <1>10, <1>11, <1>12, <3>1 DEF FramesInv
      <3>2. CASE i = 1 \/ j = 1
        BY <1>5, <1>7, <2>2, <3>1, <3>2
      <3>3. CASE i # 1 /\ j # 1
        <4>1. i - 1 # j - 1
          BY <2>2
        <4> QED
          BY <3>1, <3>3, <4>1 DEF FramesInv
      <3> QED
        BY <3>2, <3>3
    <2>3. \A c \in DOMAIN dirSeen' : c = Root \/ Home[c] \in DOMAIN dirSeen'
      BY <1>9, <1>10 DEF FramesInv
    <2>4. Root \in DOMAIN dirSeen'
      BY <1>9 DEF FramesInv
    <2> QED
      BY <2>1, <2>2, <2>3, <2>4 DEF FramesInv, Entries
  <1>15. EntriesInv'
    <2> SUFFICES ASSUME NEW b \in DOMAIN dirSeen', NEW e \in Entries(b)
                 PROVE  Settled(e)' \/ \E i \in 1 .. Len(walk') : e \in walk'[i].left
      BY DEF EntriesInv, Entries
    <2>1. CASE b = d
      <3>1. 1 \in 1 .. Len(walk')
        BY <1>3, <1>7
      <3> QED
        BY <1>5, <1>7, <2>1, <3>1
    <2>2. CASE b # d
      <3>1. b \in DOMAIN dirSeen /\ Home[e] = b
        BY <1>9, <2>2 DEF Entries
      <3>2. CASE Settled(e)
        BY <1>1, <1>9, <2>2, <3>1, <3>2 DEF Settled, Moved, Observed, disk
      <3>3. CASE e = d
        BY <1>9, <3>3 DEF Settled
      <3>4. CASE ~ Settled(e) /\ e # d
        <4>1. PICK i \in 1 .. Len(walk) : e \in walk[i].left
          BY <3>1, <3>4 DEF EntriesInv
        <4>2. e \in walk'[i + 1].left /\ i + 1 \in 1 .. Len(walk')
          BY <1>3, <1>7, <1>11, <3>4, <4>1
        <4> QED
          BY <4>2
      <3> QED
        BY <3>2, <3>3, <3>4
    <2> QED
      BY <2>1, <2>2
  <1> QED
    BY <1>14, <1>15

\* A directory is left when nothing is left of it.
LEMMA WalkOut ==
  ASSUME TypeInv, FramesInv, EntriesInv, LeaveDirectory
  PROVE  FramesInv' /\ EntriesInv'
  <1>1. /\ walk \in Seq(Frames) /\ walk # <<>> /\ walk[1].left = {} /\ walk' = Tail(walk)
        /\ UNCHANGED <<disk, seen, partial, dirSeen>>
    <2>1. /\ walk # <<>> /\ Here.left = {} /\ walk' = Tail(walk)
          /\ UNCHANGED <<disk, seen, partial, dirSeen>>
      BY DEF LeaveDirectory
    <2>2. walk \in Seq(Frames) /\ Here = walk[1]
      BY <2>1 DEF TypeInv, Here
    <2> QED
      BY <2>1, <2>2
  <1>2. /\ Len(walk') = Len(walk) - 1 /\ Len(walk) \in Nat \ {0}
        /\ \A i \in 1 .. Len(walk') : walk'[i] = walk[i + 1]
    BY <1>1, Popping
  <1>3. \A i \in 1 .. Len(walk') : i + 1 \in 1 .. Len(walk)
    BY <1>2
  <1>4. FramesInv'
    <2>1. \A i \in 1 .. Len(walk') :
             /\ walk'[i].dir \in DOMAIN dirSeen
             /\ walk'[i].left \subseteq Entries(walk'[i].dir)
             /\ walk'[i].left \cap DOMAIN dirSeen = {}
      BY <1>2, <1>3 DEF FramesInv
    <2>2. ASSUME NEW i \in 1 .. Len(walk'), NEW j \in 1 .. Len(walk'), i # j
          PROVE  walk'[i].dir # walk'[j].dir
      <3>1. i + 1 # j + 1
        BY <2>2
      <3> QED
        BY <1>2, <1>3, <3>1 DEF FramesInv
    <2> QED
      BY <1>1, <2>1, <2>2 DEF FramesInv, Entries
  <1>5. EntriesInv'
    <2> SUFFICES ASSUME NEW d \in DOMAIN dirSeen, NEW e \in Entries(d)
                 PROVE  Settled(e)' \/ \E i \in 1 .. Len(walk') : e \in walk'[i].left
      BY <1>1 DEF EntriesInv, Entries
    <2>1. CASE Settled(e)
      BY <1>1, <2>1 DEF Settled, Moved, Observed, disk
    <2>2. CASE ~ Settled(e)
      <3>1. PICK i \in 1 .. Len(walk) : e \in walk[i].left
        BY <2>2 DEF EntriesInv
      <3>2. i # 1
        BY <1>1, <3>1
      <3>3. i - 1 \in 1 .. Len(walk') /\ (i - 1) + 1 = i
        BY <1>2, <3>2
      <3>4. walk'[i - 1] = walk[i]
        BY <1>2, <3>3
      <3> QED
        BY <3>1, <3>3, <3>4
    <2> QED
      BY <2>1, <2>2
  <1> QED
    BY <1>4, <1>5

\* Every action of the walk keeps its entries settled or to come.
LEMMA WalkActions ==
  ASSUME TypeInv, WorkInv, BuildInv, DirInv, WalkInv, Walk
  PROVE  WalkInv'
  <1> SUFFICES ASSUME step' = "enumerate" PROVE FramesInv' /\ EntriesInv'
    BY DEF WalkInv
  <1>0. step = "enumerate"
    BY WalkCase DEF WalkStep, EnumerationSealed, Ended, Terminal
  <1>1. FramesInv /\ EntriesInv
    BY <1>0 DEF WalkInv
  <1>2. ASSUME NEW n \in Names, Observe(n) PROVE FramesInv' /\ EntriesInv'
    <2>1. PICK v : v = FileObservation(n)
      OBVIOUS
    <2>2. seen' = Put(seen, n, v) /\ Walking(n) /\ walk' = Past(n) /\ UNCHANGED <<partial, dirSeen>>
      BY <1>2, <2>1 DEF Observe, Consume
    <2>3. DOMAIN seen' = DOMAIN seen \cup {n}
      BY <2>2 DEF Put
    <2>4. Settled(n)'
      BY <2>3 DEF Settled, Observed
    <2> QED
      BY <1>1, <2>2, <2>3, <2>4, WalkPast
  <1>3. ASSUME NEW n \in Names, Overlook(n) PROVE FramesInv' /\ EntriesInv'
    <2>1. /\ Walking(n) /\ walk' = Past(n) /\ UNCHANGED <<partial, dirSeen, seen, disk>>
          /\ (node[n] = Absent \/ Moved(Here.dir))
      BY <1>3 DEF Overlook, Consume, Moved, Walking
    <2>2. walk \in Seq(Frames) /\ walk # <<>> /\ n \in Here.left
      BY <2>1 DEF Walking, TypeInv
    <2>3. 1 \in 1 .. Len(walk) /\ Here = walk[1]
      BY <2>2 DEF Here
    <2>4. Home[n] = Here.dir
      BY <1>1, <2>2, <2>3 DEF FramesInv, Entries
    <2>5. Settled(n)'
      BY <2>1, <2>4 DEF Settled, Moved, disk
    <2> QED
      BY <1>1, <2>1, <2>5, WalkPast
  <1>4. ASSUME NEW e, ReportEntry(e) PROVE FramesInv' /\ EntriesInv'
    <2>1. /\ Walking(e) /\ walk' = Past(e) /\ UNCHANGED <<dirSeen, seen>> /\ partial' = TRUE
      BY <1>4 DEF ReportEntry, Consume
    <2>2. Settled(e)'
      BY <2>1 DEF Settled
    <2> QED
      BY <1>1, <2>1, <2>2, WalkPast
  <1>5. ASSUME NEW d \in Dirs, EnterDirectory(d) PROVE FramesInv' /\ EntriesInv'
    BY <1>1, <1>5, WalkIn
  <1>6. CASE LeaveDirectory
    BY <1>1, <1>6, WalkOut
  <1>7. CASE FlushEvents
    <2>1. UNCHANGED <<disk, walk, partial, seen, dirSeen>>
      BY <1>7 DEF FlushEvents
    <2> QED
      BY <1>1, <2>1 DEF FramesInv, EntriesInv, Settled, Moved, Observed, disk, Entries
  <1>8. CASE SealEnumeration
    BY <1>8 DEF SealEnumeration
  <1>9. CASE CancelWalk
    BY <1>9 DEF CancelWalk, End
  <1> QED
    BY <1>2, <1>3, <1>4, <1>5, <1>6, <1>7, <1>8, <1>9 DEF Walk

\* No run goes back to its walk.
LEMMA OnlyWalks ==
  ASSUME TypeInv, WorkInv, BuildInv, [Next]_vars, ~ Walk, step' = "enumerate"
  PROVE  step = "enumerate"
  BY StepCases
     DEF Cases, WalkStep, EnumerationSealed, Ended, BucketTaken,
         BatchBound, TicketOpened, TicketRead, BatchRecorded, SamplesSealed,
         HashesSealed, GroupBegun, PageAppended, PairsRecorded, CollisionNoted,
         GroupFinalized, BeginCoverage, DirectoriesBound, DirectoryReplayed,
         DirectoriesHeld, CoverageCompleted, ExactSealed, UserStep, Terminal,
         BetweenBuckets

\* Every step keeps the walk's entries settled or to come.
LEMMA WalkInvStep ==
  ASSUME TypeInv, WorkInv, BuildInv, DirInv, WalkInv, [Next]_vars
  PROVE  WalkInv'
  <1>1. CASE Walk
    BY <1>1, WalkActions
  <1>2. CASE ~ Walk
    <2>1. UNCHANGED walking /\ DiskMoves
      BY <1>2, StillWalking, DiskAlways
    <2>2. CASE step' = "enumerate"
      <3>1. UNCHANGED step
        BY <1>2, <2>2, OnlyWalks
      <3> QED
        BY <2>1, <3>1, WalkUser
    <2>3. CASE step' # "enumerate"
      BY <2>3 DEF WalkInv
    <2> QED
      BY <2>2, <2>3
  <1> QED
    BY <1>1, <1>2

\* At the end of a walk without an issue every directory was observed, since
\* the tree has no other, and every file not observed is absent or in a
\* directory that has changed since.
LEMMA AllSettled ==
  ASSUME TypeInv, WalkInv, step = "enumerate", walk = <<>>, ~ partial
  PROVE  /\ DOMAIN dirSeen = Dirs
         /\ \A n \in Names : n \in Observed \/ node[n] = Absent \/ Moved(Home[n])
  <1>1. \A d \in DOMAIN dirSeen : \A e \in Entries(d) : Settled(e)
    <2>1. 1 .. Len(walk) = {}
      OBVIOUS
    <2> QED
      BY <2>1 DEF WalkInv, EntriesInv
  <1>2. DOMAIN dirSeen = Dirs
    <2>1. DOMAIN dirSeen \in SUBSET Dirs /\ Root \in DOMAIN dirSeen
      BY DEF TypeInv, WalkInv, FramesInv
    <2>2. ASSUME NEW d \in Dirs \ {Root}, Home[d] \in DOMAIN dirSeen
          PROVE  d \in DOMAIN dirSeen
      <3>1. d \in Entries(Home[d]) /\ d \notin Names
        BY TreeAssumption DEF Entries
      <3>2. Settled(d)
        BY <1>1, <2>2, <3>1
      <3> QED
        BY <3>1, <3>2 DEF Settled, TypeInv
    <2> QED
      BY <2>1, <2>2, TreeAssumption
  <1>3. ASSUME NEW n \in Names
        PROVE  n \in Observed \/ node[n] = Absent \/ Moved(Home[n])
    <2>1. n \in Entries(Home[n]) /\ Home[n] \in Dirs /\ n \notin Dirs
      BY TreeAssumption DEF Entries
    <2>2. Settled(n)
      BY <1>1, <1>2, <2>1
    <2> QED
      BY <1>2, <2>1, <2>2 DEF Settled
  <1> QED
    BY <1>2, <1>3

\* With observations and snapshot fixed, the files missed are fixed.
LEMMA CoveredStays ==
  ASSUME UNCHANGED <<seen, snap>>
  PROVE  \A n : Covered(n)' <=> Covered(n)
  BY DEF Covered, Observed, Present

\* Every step keeps the files missed in directories that have changed.
LEMMA MissStep ==
  ASSUME TypeInv, WorkInv, BuildInv, StepInv, DirInv, WalkInv, MissInv, [Next]_vars
  PROVE  MissInv'
  <1>1. CASE EnumerationSealed
    <2> SUFFICES ASSUME ~ partial
                 PROVE  /\ DOMAIN dirSeen = Dirs
                        /\ \A n \in Names : Covered(n)' \/ Moved(Home[n])'
      BY <1>1 DEF MissInv, EnumerationSealed, walking
    <2>1. /\ DOMAIN dirSeen = Dirs
          /\ \A n \in Names : n \in Observed \/ node[n] = Absent \/ Moved(Home[n])
      BY <1>1, AllSettled DEF EnumerationSealed
    <2>2. UNCHANGED <<dirStamp, dirSeen, seen>>
      BY <1>1 DEF EnumerationSealed, disk, walking
    <2>3. ASSUME NEW n \in Names, node[n] = Absent PROVE ~ Present(n)'
      BY <1>1, <2>3 DEF EnumerationSealed, Present
    <2> QED
      BY <2>1, <2>2, <2>3 DEF Covered, Moved, Observed
  <1>2. CASE Sealed("enumeration") /\ UNCHANGED <<walking, snap>>
    <2>1. UNCHANGED <<seen, dirSeen, partial, snap>> /\ DiskMoves
      BY <1>2, DiskAlways DEF walking
    <2> SUFFICES ASSUME ~ partial
                 PROVE  /\ DOMAIN dirSeen = Dirs
                        /\ \A n \in Names : Covered(n)' \/ Moved(Home[n])'
      BY <2>1 DEF MissInv
    <2>2. /\ DOMAIN dirSeen = Dirs
          /\ \A n \in Names : Covered(n) \/ Moved(Home[n])
      BY <1>2 DEF MissInv
    <2>3. ASSUME NEW n \in Names, Moved(Home[n]) PROVE Moved(Home[n])'
      <3>1. PICK d \in Dirs : d = Home[n]
        BY TreeAssumption
      <3>2. /\ dirSeen[d] \in Nat /\ dirSeen[d] <= dirStamp[d] /\ dirStamp[d] \in Nat
            /\ dirStamp[d] <= dirStamp'[d] /\ dirStamp'[d] \in Nat
        BY <2>1, <2>2 DEF TypeInv, DirInv, DiskMoves
      <3> QED
        BY <2>1, <2>3, <3>1, <3>2 DEF Moved
    <2> QED
      BY <2>1, <2>2, <2>3, CoveredStays
  <1> QED
    BY <1>1, <1>2, SealedStays DEF EvidenceFixed, MissInv

\* Every step keeps the files missed in directories still to be looked at
\* (verify_coverage_inner): one whose directory was found unmoved was not
\* missed.
LEMMA CoverStep ==
  ASSUME TypeInv, WorkInv, BuildInv, SealInv, StepInv, MissInv, CoverInv, [Next]_vars
  PROVE  CoverInv'
  <1> USE DEF walking, verdicts, CoverInv
  <1>0. DiskMoves /\ Cases
    BY DiskAlways, StepCases
  <1>1. CASE UserStep
    BY <1>1, <1>0, CoveredStays
       DEF UserStep
  <1>2. CASE WalkStep
    <2>1. step' = "enumerate" /\ coverage' = "none"
      BY <1>2 DEF WalkStep, StepInv, Terminal
    <2> QED
      BY <2>1
  <1>3. CASE EnumerationSealed
    <2>1. step' = "sampling" /\ coverage' = "none"
      BY <1>3 DEF EnumerationSealed, StepInv, Terminal
    <2> QED
      BY <2>1
  <1>4. CASE Ended
    BY <1>4, CoveredStays
       DEF Ended, Terminal
  <1>5. ASSUME NEW B \in work, BucketTaken(B) PROVE CoverInv'
    BY <1>5, CoveredStays
       DEF BucketTaken
  <1>6. ASSUME NEW p \in SUBSET bucket, BatchBound(p) PROVE CoverInv'
    BY <1>6, CoveredStays
       DEF BatchBound, NewBatch
  <1>7. ASSUME NEW n \in batch.todo, TicketOpened(n) PROVE CoverInv'
    BY <1>7, CoveredStays
       DEF TicketOpened, InBatch, Reading
  <1>8. ASSUME NEW n \in batch.reading, TicketRead(n) PROVE CoverInv'
    BY <1>8, CoveredStays
       DEF TicketRead, InBatch, Reading
  <1>9. CASE BatchRecorded
    BY <1>9, CoveredStays
       DEF BatchRecorded
  <1>10. CASE SamplesSealed
    BY <1>10, CoveredStays
       DEF SamplesSealed, SealAdded
  <1>11. CASE HashesSealed
    BY <1>11, CoveredStays
       DEF HashesSealed, SealAdded
  <1>12. ASSUME NEW B \in work, NEW r \in B, GroupBegun(B, r) PROVE CoverInv'
    BY <1>12, CoveredStays
       DEF GroupBegun, BetweenBuckets
  <1>13. ASSUME NEW p \in SUBSET bucket, PageAppended(p) PROVE CoverInv'
    BY <1>13, CoveredStays
       DEF PageAppended, NewBatch
  <1>14. CASE PairsRecorded
    BY <1>14, CoveredStays
       DEF PairsRecorded
  <1>15. CASE CollisionNoted
    BY <1>15, CoveredStays
       DEF CollisionNoted
  <1>16. CASE GroupFinalized
    BY <1>16, CoveredStays
       DEF GroupFinalized
  <1>17. CASE BeginCoverage
    <2>1. /\ UNCHANGED <<seen, snap, coverage, stable, partial>> /\ bucket' = DOMAIN dirSeen
          /\ Sealed("enumeration")
      BY <1>17 DEF BeginCoverage, BetweenBuckets, StepInv, SealInv
    <2>2. ~ partial => \A n \in Names : Home[n] \in bucket'
      BY <2>1, TreeAssumption DEF MissInv
    <2> QED
      BY <2>1, <2>2, CoveredStays
  <1>18. ASSUME NEW p \in SUBSET bucket, DirectoriesBound(p) PROVE CoverInv'
    BY <1>18, CoveredStays, EmptyBatch
       DEF DirectoriesBound, NewBatch
  <1>19. ASSUME NEW d \in Dirs, DirectoryReplayed(d) PROVE CoverInv'
    <2>1. UNCHANGED <<seen, snap, coverage, partial, bucket, step>> /\ Sealed("enumeration")
      BY <1>19 DEF DirectoryReplayed, StepInv, SealInv
    <2>2. ASSUME stable', ~ partial, NEW n \in Names, Home[n] = d
          PROVE  Covered(n)
      BY <1>19, <2>1, <2>2 DEF DirectoryReplayed, MissInv, Moved, Unmoved
    <2>3. stable' => stable
      BY <1>19 DEF DirectoryReplayed
    <2> QED
      BY <1>19, <2>1, <2>2, <2>3, CoveredStays DEF DirectoryReplayed
  <1>20. CASE DirectoriesHeld
    BY <1>20, CoveredStays, EmptyBatch
       DEF DirectoriesHeld
  <1>21. CASE CoverageCompleted
    BY <1>21, CoveredStays, EmptyBatch
       DEF CoverageCompleted
  <1>22. CASE ExactSealed
    BY <1>22, CoveredStays
       DEF ExactSealed, SealAdded
  <1> QED
    BY <1>0, <1>1, <1>2, <1>3, <1>4, <1>5, <1>6, <1>7, <1>8, <1>9, <1>10, <1>11,
       <1>12, <1>13, <1>14, <1>15, <1>16, <1>17, <1>18, <1>19, <1>20, <1>21, <1>22 DEF Cases

-----------------------------------------------------------------------------
(* The invariant, and what follows from it.                                *)

\* The inductive invariant.
IInv ==
    /\ TypeInv /\ SealInv /\ StepInv /\ WorkInv /\ BuildInv
    /\ ObsInv /\ DirInv /\ SnapInv /\ PrintInv /\ FreshInv /\ EdgeInv
    /\ GroupInv /\ EqualInv /\ ApartInv /\ BatchInv /\ FoundInv /\ DecidedInv
    /\ WalkInv /\ MissInv /\ CoverInv

\* The invariant holds when the run begins.
LEMMA InitInv == Init => IInv
  <1> SUFFICES ASSUME Init PROVE IInv
    OBVIOUS
  <1>1. /\ node \in [Names -> Objects \cup {Absent}] /\ data \in [Objects -> Contents]
        /\ stamp = [o \in Objects |-> 0] /\ dirStamp = [d \in Dirs |-> 0] /\ edits = 0
        /\ step = "enumerate" /\ partial = FALSE /\ stable = TRUE
        /\ pending = {Root} /\ dirSeen = [d \in {Root} |-> 0]
        /\ work = {} /\ bucket = {} /\ batch = NoBatch /\ build = NoBuild
        /\ groups = {} /\ collided = {} /\ coverage = "none"
    BY DEF Init
  <1>2. /\ DOMAIN sealed = {} /\ DOMAIN seen = {} /\ DOMAIN sampled = {} /\ DOMAIN hashed = {}
    BY DEF Init
  <1>3. PICK x : x = [dir |-> Root, left |-> Entries(Root)]
    OBVIOUS
  <1>4. x \in Frames /\ x.dir = Root /\ x.left = Entries(Root)
    BY <1>3, TreeAssumption DEF Frames, Entries, Things
  <1>5. walk = <<x>>
    BY <1>3 DEF Init
  <1>6. walk \in Seq(Frames) /\ Len(walk) = 1 /\ walk[1] = x
    BY <1>4, <1>5
  <1>7. TypeInv
    <2>1. /\ stamp \in [Objects -> Nat] /\ \A o \in Objects : stamp[o] <= edits
          /\ dirStamp \in [Dirs -> Nat] /\ \A d \in Dirs : dirStamp[d] <= edits
          /\ edits \in Nat /\ edits <= MaxEdits
      BY <1>1, BoundAssumption
    <2>2. DOMAIN dirSeen \subseteq Dirs /\ \A d \in DOMAIN dirSeen : dirSeen[d] \in Nat
      BY <1>1, TreeAssumption
    <2>3. /\ Observed \subseteq Names /\ IsFiniteSet(Observed)
          /\ \A n \in Observed : seen[n] \in FileObs
      BY <1>2, FS_EmptySet DEF Observed
    <2>4. pending \subseteq DOMAIN dirSeen
      BY <1>1
    <2> QED
      BY <1>1, <1>2, <1>6, <2>1, <2>2, <2>3, <2>4 DEF TypeInv, Steps
  <1>8. SealInv /\ StepInv
    BY <1>1, <1>2 DEF SealInv, StepInv, Sealed, Terminal, Reading
  <1>9. WorkInv /\ BuildInv /\ FreshInv /\ EdgeInv
    <2>1. Printed = {}
      BY <1>1, EmptyBatch DEF Printed
    <2> QED
      BY <1>1, <1>2, <2>1, EmptyBatch, EmptyBuild
         DEF WorkInv, BuildInv, FreshInv, EdgeInv, Pool
  <1>10. ObsInv /\ DirInv /\ SnapInv /\ PrintInv
    BY <1>1, <1>2, TreeAssumption DEF ObsInv, DirInv, SnapInv, PrintInv, Sealed, Observed
  <1>11. GroupInv /\ EqualInv /\ ApartInv /\ BatchInv /\ FoundInv /\ DecidedInv
    BY <1>1, <1>2
       DEF GroupInv, EqualInv, ApartInv, BatchInv, FoundInv, DecidedInv, Sealed
  <1>12. WalkInv
    <2>1. FramesInv
      <3>1. Root \notin DOMAIN Home /\ DOMAIN dirSeen = {Root}
        BY <1>1, TreeAssumption
      <3> QED
        BY <1>4, <1>6, <3>1 DEF FramesInv, Entries
    <2>2. EntriesInv
      BY <1>1, <1>4, <1>6 DEF EntriesInv
    <2> QED
      BY <2>1, <2>2 DEF WalkInv
  <1>13. MissInv /\ CoverInv
    BY <1>1, <1>2 DEF MissInv, CoverInv, Sealed
  <1> QED
    BY <1>7, <1>8, <1>9, <1>10, <1>11, <1>12, <1>13 DEF IInv

\* Every step keeps the invariant.
LEMMA NextInv == IInv /\ [Next]_vars => IInv'
  <1> SUFFICES ASSUME IInv, [Next]_vars PROVE IInv'
    OBVIOUS
  <1>1. /\ TypeInv /\ SealInv /\ StepInv /\ WorkInv /\ BuildInv
        /\ ObsInv /\ DirInv /\ SnapInv /\ PrintInv /\ FreshInv /\ EdgeInv
        /\ GroupInv /\ EqualInv /\ ApartInv /\ BatchInv /\ FoundInv /\ DecidedInv
        /\ WalkInv /\ MissInv /\ CoverInv
    BY DEF IInv
  <1>2. TypeInv' /\ SealInv' /\ StepInv' /\ WorkInv' /\ BuildInv'
    BY <1>1, TypeStep, SealStep, StepStep, WorkStep, BuildStep
  <1>3. ObsInv' /\ DirInv' /\ SnapInv' /\ PrintInv' /\ FreshInv' /\ EdgeInv'
    BY <1>1, ObsStep, SnapStep, PrintStep, FreshStep, EdgeStep
  <1>4. GroupInv' /\ EqualInv' /\ ApartInv' /\ BatchInv' /\ FoundInv' /\ DecidedInv'
    BY <1>1, GroupStep, BatchStep, FoundStep, DecidedStep
  <1>5. WalkInv' /\ MissInv' /\ CoverInv'
    BY <1>1, WalkInvStep, MissStep, CoverStep
  <1> QED
    BY <1>2, <1>3, <1>4, <1>5 DEF IInv

\* The invariant holds in every reachable state.
LEMMA InvHolds == Spec => []IInv
  BY InitInv, NextInv, PTL DEF Spec

\* The invariant gives the types the runs check.
LEMMA TypeFollows == IInv => TypeOK
  <1> SUFFICES ASSUME IInv PROVE TypeOK
    OBVIOUS
  <1>1. TypeInv /\ SealInv /\ StepInv /\ WorkInv /\ BuildInv /\ GroupInv
    BY DEF IInv
  <1>2. /\ node \in [Names -> Objects \cup {Absent}] /\ data \in [Objects -> Contents]
        /\ stamp \in [Objects -> 0 .. MaxEdits] /\ dirStamp \in [Dirs -> 0 .. MaxEdits]
        /\ edits \in 0 .. MaxEdits
    BY <1>1, BoundAssumption DEF TypeInv
  <1>3. /\ \A n \in Observed : seen[n].obj \in Objects
    BY <1>1 DEF TypeInv, FileObs
  <1>4. Pool \subseteq Observed \cup DOMAIN dirSeen /\ (work # {} => Pool \subseteq Observed)
    BY <1>1 DEF WorkInv, Pool, StepInv
  <1>5. build.members \cup build.edges \subseteq build.planned
    BY <1>1 DEF BuildInv
  <1>6. \A g \in groups : g.members \subseteq Observed /\ Cardinality(g.members) >= 2
    BY <1>1 DEF GroupInv, GroupReplayed, WorkInv
  <1>7. \A B \in work \cup collided : B \subseteq Observed /\ Cardinality(B) >= 2
    BY <1>1, <1>4 DEF WorkInv
  <1>8. /\ bucket \subseteq Observed \cup DOMAIN dirSeen
        /\ DOMAIN batch.bound \subseteq Observed \cup DOMAIN dirSeen
        /\ batch.todo \cup batch.reading \subseteq DOMAIN batch.bound
    BY <1>1, <1>4 DEF WorkInv
  <1> QED
    BY <1>1, <1>2, <1>3, <1>5, <1>6, <1>7, <1>8 DEF TypeOK, TypeInv, WorkInv, Steps

\* The invariant gives what every open checks of the evidence.
LEMMA ReopensFollows == IInv => EvidenceReopens
  <1> SUFFICES ASSUME IInv PROVE EvidenceReopens
    OBVIOUS
  <1>1. /\ TypeInv /\ SealInv /\ StepInv /\ WorkInv /\ GroupInv /\ ApartInv
    BY DEF IInv
  <1>2. SealAudit
    BY <1>1 DEF SealAudit, SealInv, StepInv
  <1>3. GroupAudit
    BY <1>1 DEF GroupAudit, GroupInv, ApartInv
  <1>4. OutcomeAudit
    BY <1>1 DEF OutcomeAudit, SealInv
  <1>5. CoverageAudit
    BY <1>1 DEF CoverageAudit, SealInv, StepInv
  <1>6. ProgressAudit
    <2>1. /\ DOMAIN sampled \subseteq Observed \ pending
          /\ IsFiniteSet(Observed \ pending)
      <3>1. DOMAIN sampled \subseteq Observed \ pending
        BY <1>1 DEF WorkInv, SealInv
      <3>2. IsFiniteSet(Observed \ pending)
        BY <1>1, FS_Subset DEF TypeInv
      <3> QED
        BY <3>1, <3>2
    <2>2. Cardinality(DOMAIN sampled) <= Cardinality(Observed \ pending)
      BY <2>1, FS_Subset
    <2> QED
      BY <2>2 DEF ProgressAudit, Progress
  <1> QED
    BY <1>2, <1>3, <1>4, <1>5, <1>6 DEF EvidenceReopens

\* The invariant gives that the groups were equal at one moment.
LEMMA EqualFollows == IInv => GroupsWereEqual
  <1> SUFFICES ASSUME IInv, NEW g \in groups
               PROVE  /\ \A n \in g.members : Present(n)
                      /\ \A m, n \in g.members : snap[m].content = snap[n].content
                      /\ g.independent = Cardinality({snap[n].obj : n \in g.members})
    BY DEF GroupsWereEqual
  <1>1. TypeInv /\ WorkInv /\ GroupInv /\ EqualInv
    BY DEF IInv
  <1>2. g.members \subseteq Observed /\ g.independent = Cardinality(ObjectsOf(g.members))
    BY <1>1 DEF WorkInv, GroupInv, GroupReplayed
  <1>3. \A n \in g.members : snap[n].obj = seen[n].obj
    BY <1>1 DEF EqualInv, Kept
  <1>4. \A n \in g.members : Present(n)
    BY <1>1, <1>2, <1>3, TreeAssumption DEF Present, TypeInv, FileObs
  <1>5. {snap[n].obj : n \in g.members} = ObjectsOf(g.members)
    BY <1>3 DEF ObjectsOf
  <1>6. \A m, n \in g.members : snap[m].content = snap[n].content
    BY <1>1 DEF EqualInv, Same
  <1> QED
    BY <1>2, <1>4, <1>5, <1>6

\* The invariant gives that nothing is missed.
LEMMA MissedFollows == IInv => NothingMissed
  BY DEF IInv, NothingMissed, CoverInv, SealInv, Covered

\* Two elements of one value are in one bucket.
LEMMA InOneBucket ==
  ASSUME NEW f, IsFiniteSet(DOMAIN f), NEW m \in DOMAIN f, NEW n \in DOMAIN f,
         m # n, f[m] = f[n]
  PROVE  \E B \in BucketsOf(f) : m \in B /\ n \in B
  <1> DEFINE B == {k \in DOMAIN f : f[k] = f[m]}
  <1>1. m \in B /\ n \in B /\ IsFiniteSet(B)
    BY FS_Subset
  <1>2. Cardinality(B) >= 2
    <2>1. IsFiniteSet({m, n}) /\ Cardinality({m, n}) = 2
      <3>1. IsFiniteSet({m}) /\ Cardinality({m}) = 1
        BY FS_Singleton
      <3>2. {m, n} = {m} \cup {n} /\ n \notin {m}
        OBVIOUS
      <3>3. PICK S : S = {m}
        OBVIOUS
      <3>4. IsFiniteSet(S \cup {n}) /\ Cardinality(S \cup {n}) = Cardinality(S) + 1
        BY <3>1, <3>3, FS_AddElement
      <3> QED
        BY <3>1, <3>2, <3>3, <3>4
    <2>2. Cardinality({m, n}) <= Cardinality(B)
      BY <1>1, FS_Subset
    <2>3. Cardinality(B) \in Nat
      BY <1>1, FS_CardinalityType
    <2> QED
      BY <2>1, <2>2, <2>3
  <1> QED
    BY <1>1, <1>2 DEF BucketsOf

\* The invariant gives that every duplicate is found: equal files have equal
\* sizes, samples and digests, so at each stage they share a bucket.
LEMMA FoundFollows == IInv => EveryDuplicateFound
  <1> SUFFICES ASSUME IInv, Sealed("exact_verification"),
                      NEW m \in Observed, NEW n \in Observed, m # n,
                      Kept(m), Kept(n), snap[m].content = snap[n].content
               PROVE  \/ \E g \in Visible : {m, n} \subseteq g.members
                      \/ \E B \in collided : {m, n} \subseteq B
    BY DEF EveryDuplicateFound, Kept
  <1>1. /\ TypeInv /\ SealInv /\ StepInv /\ WorkInv /\ SnapInv /\ PrintInv
        /\ FoundInv /\ DecidedInv
    BY DEF IInv
  <1>2. /\ Sealed("enumeration") /\ Sealed("sampling") /\ Sealed("full_hash")
        /\ work = {} /\ build = NoBuild
    BY <1>1 DEF SealInv, StepInv
  <1>3. /\ IsFiniteSet(Observed) /\ IsFiniteSet(DOMAIN sampled) /\ IsFiniteSet(DOMAIN hashed)
    <2>1. IsFiniteSet(Observed) /\ DOMAIN sampled \subseteq Observed /\ DOMAIN hashed \subseteq Observed
      BY <1>1 DEF TypeInv, WorkInv
    <2> QED
      BY <2>1, FS_Subset
  <1>4. m \in DOMAIN sampled /\ n \in DOMAIN sampled
    <2>1. PICK f : f = [k \in Observed |-> seen[k].size]
      OBVIOUS
    <2>2. DOMAIN f = Observed /\ f[m] = f[n] /\ SizeBuckets = BucketsOf(f)
      BY <1>1, <1>2, <2>1 DEF SnapInv, SizeBuckets
    <2>3. \E B \in SizeBuckets : m \in B /\ n \in B
      BY <1>3, <2>2, InOneBucket
    <2> QED
      BY <1>1, <1>2, <2>3 DEF FoundInv
  <1>5. m \in DOMAIN hashed /\ n \in DOMAIN hashed
    <2>1. sampled[m] = sampled[n]
      BY <1>1, <1>4 DEF PrintInv, SampleResult
    <2>2. \E B \in SampleBuckets : m \in B /\ n \in B
      BY <1>3, <1>4, <2>1, InOneBucket DEF SampleBuckets
    <2> QED
      BY <1>1, <1>2, <2>2 DEF FoundInv
  <1>6. PICK B \in DigestBuckets : m \in B /\ n \in B
    <2>1. hashed[m] = hashed[n]
      BY <1>1, <1>5 DEF PrintInv, HashResult
    <2> QED
      BY <1>3, <1>5, <2>1, InOneBucket DEF DigestBuckets
  <1>7. B \in collided \/ \E g \in groups : g.members = B
    BY <1>1, <1>2, <1>6, EmptyBuild DEF DecidedInv
  <1> QED
    BY <1>6, <1>7 DEF Visible

\* Whatever the user does to the files while a run reads them, the run's rows
\* and locals keep their types, and all its evidence is about files it
\* observed.
THEOREM TypeCorrect == Spec => []TypeOK
  BY InvHolds, TypeFollows, PTL

\* At whatever step the process dies and whatever the user was doing, the
\* evidence in the store passes every check of the next open
\* (validate_session_bound_evidence, validate_runtime_stream_evidence).
THEOREM EveryOpenAccepts == Spec => []EvidenceReopens
  BY InvHolds, ReopensFollows, PTL

\* The files of every verified group held the same bytes at one moment, the end
\* of the walk, although each was read at another, and the group counts the
\* objects they were then (finalize_exact_group).
THEOREM GroupsAreEqual == Spec => []GroupsWereEqual
  BY InvHolds, EqualFollows, PTL

\* Once its groups are visible, a run has observed every media file that was in
\* the tree when the walk ended (finalize_coverage).
THEOREM NoFileIsMissed == Spec => []NothingMissed
  BY InvHolds, MissedFollows, PTL

\* Once its groups are visible, two files that were equal at the end of the
\* walk, and had not changed since they were observed, are in one group or in
\* one recorded collision, whatever digests collide
\* (verify_exact_duplicates_inner).
THEOREM DuplicatesAreFound == Spec => []EveryDuplicateFound
  BY InvHolds, FoundFollows, PTL

-----------------------------------------------------------------------------
(* Evidence is immutable.                                                  *)

\* Rows are added to a table, and none is changed or taken away.
Keeps(f, g) == DOMAIN f \subseteq DOMAIN g /\ \A x \in DOMAIN f : g[x] = f[x]

\* What a step leaves of seals and verdicts, and of what a seal closed.
SealsStay ==
    /\ Keeps(sealed, sealed')
    /\ groups \subseteq groups' /\ collided \subseteq collided'
    /\ coverage # "none" => UNCHANGED coverage
    /\ Sealed("sampling") => UNCHANGED sampled
    /\ Sealed("full_hash") => UNCHANGED hashed
    /\ Sealed("exact_verification") => UNCHANGED <<groups, collided, coverage>>
    /\ DOMAIN sampled \subseteq DOMAIN sampled' /\ DOMAIN hashed \subseteq DOMAIN hashed'

\* No seal, verdict or fingerprint is taken back, and a sealed stage is closed.
LEMMA SealsKept ==
  ASSUME TypeInv, SealInv, WorkInv, BuildInv, StepInv, [Next]_vars
  PROVE  SealsStay
  <1> USE DEF disk, prints, verdicts, SealInv, StepInv, Sealed, SealsStay, Keeps, InBatch,
              BatchRead, BetweenBuckets
  <1>0. Cases
    BY StepCases
  <1>1. CASE UserStep
    BY <1>1 DEF UserStep
  <1>2. CASE WalkStep
    BY <1>2 DEF WalkStep
  <1>3. CASE EnumerationSealed
    BY <1>3 DEF EnumerationSealed, SealAdded
  <1>4. CASE Ended
    BY <1>4 DEF Ended, Recorded, Terminal
  <1>5. ASSUME NEW B \in work, BucketTaken(B) PROVE SealsStay
    BY <1>5 DEF BucketTaken
  <1>6. ASSUME NEW p \in SUBSET bucket, BatchBound(p) PROVE SealsStay
    BY <1>6 DEF BatchBound
  <1>7. ASSUME NEW n \in batch.todo, TicketOpened(n) PROVE SealsStay
    BY <1>7 DEF TicketOpened
  <1>8. ASSUME NEW n \in batch.reading, TicketRead(n) PROVE SealsStay
    BY <1>8 DEF TicketRead
  <1>9. CASE BatchRecorded
    BY <1>9 DEF BatchRecorded, Recorded
  <1>10. CASE SamplesSealed
    BY <1>10 DEF SamplesSealed, SealAdded
  <1>11. CASE HashesSealed
    BY <1>11 DEF HashesSealed, SealAdded
  <1>12. ASSUME NEW B \in work, NEW r \in B, GroupBegun(B, r) PROVE SealsStay
    BY <1>12 DEF GroupBegun
  <1>13. ASSUME NEW p \in SUBSET bucket, PageAppended(p) PROVE SealsStay
    BY <1>13 DEF PageAppended
  <1>14. CASE PairsRecorded
    BY <1>14 DEF PairsRecorded
  <1>15. CASE CollisionNoted
    BY <1>15 DEF CollisionNoted
  <1>16. CASE GroupFinalized
    BY <1>16 DEF GroupFinalized, Finalizable
  <1>17. CASE BeginCoverage
    BY <1>17 DEF BeginCoverage
  <1>18. ASSUME NEW p \in SUBSET bucket, DirectoriesBound(p) PROVE SealsStay
    BY <1>18 DEF DirectoriesBound
  <1>19. ASSUME NEW d \in Dirs, DirectoryReplayed(d) PROVE SealsStay
    BY <1>19 DEF DirectoryReplayed
  <1>20. CASE DirectoriesHeld
    BY <1>20 DEF DirectoriesHeld
  <1>21. CASE CoverageCompleted
    BY <1>21 DEF CoverageCompleted, Terminal
  <1>22. CASE ExactSealed
    BY <1>22 DEF ExactSealed, SealAdded
  <1> QED
    BY <1>0, <1>1, <1>2, <1>3, <1>4, <1>5, <1>6, <1>7, <1>8, <1>9, <1>10, <1>11, <1>12,
       <1>13, <1>14, <1>15, <1>16, <1>17, <1>18, <1>19, <1>20, <1>21, <1>22 DEF Cases

\* A file that was observed is not come to again: it is in a directory that was
\* entered, and nothing left in an open directory was observed.
OnceInv ==
    step = "enumerate" =>
        /\ \A i \in 1 .. Len(walk) : walk[i].left \cap Observed = {}
        /\ \A n \in Observed : Home[n] \in DOMAIN dirSeen

\* A row put in a table is new, and the others stay.
LEMMA Putting ==
  ASSUME NEW f, NEW x, x \notin DOMAIN f, NEW v
  PROVE  /\ Keeps(f, Put(f, x, v)) /\ DOMAIN Put(f, x, v) = DOMAIN f \cup {x}
  BY DEF Keeps, Put

\* The walk observes nothing twice, and so changes no observation.
ObservedOnce == OnceInv' /\ Keeps(seen, seen') /\ Keeps(dirSeen, dirSeen')

\* An observation that passes over an entry leaves what is left unobserved.
LEMMA OncePast ==
  ASSUME TypeInv, FramesInv, OnceInv, step = "enumerate",
         NEW e, Walking(e), walk' = Past(e), UNCHANGED dirSeen,
         DOMAIN seen' \subseteq DOMAIN seen \cup {e}
  PROVE  OnceInv'
  <1>1. walk \in Seq(Frames) /\ walk # <<>> /\ e \in walk[1].left
    BY DEF TypeInv, Walking, Here
  <1>2. /\ Len(walk') = Len(walk) /\ Len(walk) \in Nat \ {0}
        /\ walk'[1].left = walk[1].left \ {e}
        /\ \A i \in 2 .. Len(walk) : walk'[i] = walk[i]
    BY <1>1, Passing
  <1>3. e \in Entries(walk[1].dir) /\ walk[1].dir \in DOMAIN dirSeen
    BY <1>1, <1>2 DEF FramesInv
  <1>4. \A i \in 1 .. Len(walk) : e \notin walk'[i].left /\ walk'[i].left \subseteq walk[i].left
    <2> TAKE i \in 1 .. Len(walk)
    <2>1. CASE i = 1
      BY <1>2, <2>1
    <2>2. CASE i \in 2 .. Len(walk)
      <3>1. walk[i].dir # walk[1].dir /\ walk[i].left \subseteq Entries(walk[i].dir)
        BY <1>2, <2>2 DEF FramesInv
      <3> QED
        BY <1>2, <1>3, <2>2, <3>1 DEF Entries
    <2> QED
      BY <1>2, <2>1, <2>2
  <1>5. Home[e] \in DOMAIN dirSeen
    BY <1>3 DEF Entries
  <1> QED
    BY <1>2, <1>4, <1>5 DEF OnceInv, Observed

\* Nothing in a directory that is entered was observed before.
LEMMA OnceIn ==
  ASSUME TypeInv, FramesInv, OnceInv, step = "enumerate",
         NEW d \in Dirs, EnterDirectory(d)
  PROVE  OnceInv' /\ Keeps(dirSeen, dirSeen')
  <1>1. /\ walk \in Seq(Frames) /\ walk # <<>> /\ UNCHANGED seen /\ d \in walk[1].left
    BY DEF TypeInv, EnterDirectory, Walking, Here
  <1>2. PICK s : s = Past(d)
    OBVIOUS
  <1>3. /\ s \in Seq(Frames) /\ Len(s) = Len(walk) /\ Len(walk) \in Nat \ {0}
        /\ s[1].left = walk[1].left \ {d}
        /\ \A i \in 2 .. Len(walk) : s[i] = walk[i]
    BY <1>1, <1>2, Passing
  <1>4. PICK x : x = [dir |-> d, left |-> Entries(d)]
    OBVIOUS
  <1>5. x \in Frames /\ x.left = Entries(d)
    BY <1>4, TreeAssumption DEF Frames, Entries, Things
  <1>6. walk' = <<x>> \o s
    BY <1>2, <1>4 DEF EnterDirectory
  <1>7. /\ Len(walk') = Len(walk) + 1 /\ walk'[1] = x
        /\ \A i \in 1 .. Len(walk) : walk'[i + 1] = s[i]
    BY <1>3, <1>5, <1>6, Pushing
  <1>8. d \notin DOMAIN dirSeen
    <2>1. 1 \in 1 .. Len(walk)
      BY <1>3
    <2> QED
      BY <1>1, <2>1 DEF FramesInv
  <1>9. PICK v : v = dirStamp[d]
    OBVIOUS
  <1>10. dirSeen' = Put(dirSeen, d, v)
    BY <1>9 DEF EnterDirectory, NoteDirectory
  <1>11. Keeps(dirSeen, dirSeen') /\ DOMAIN dirSeen' = DOMAIN dirSeen \cup {d}
    BY <1>8, <1>10, Putting
  <1>12. Entries(d) \cap Observed = {}
    BY <1>8 DEF OnceInv, Entries
  <1>13. \A i \in 1 .. Len(walk) : s[i].left \subseteq walk[i].left
    BY <1>3
  <1>14. ASSUME NEW i \in 1 .. Len(walk')
         PROVE  walk'[i].left \cap Observed = {}
    <2>1. CASE i = 1
      BY <1>5, <1>7, <1>12, <2>1
    <2>2. CASE i # 1
      <3>1. i - 1 \in 1 .. Len(walk) /\ (i - 1) + 1 = i
        BY <1>3, <1>7, <2>2
      <3>2. walk'[i] = s[i - 1]
        BY <1>7, <3>1
      <3> QED
        BY <1>13, <3>1, <3>2 DEF OnceInv
    <2> QED
      BY <2>1, <2>2
  <1> QED
    BY <1>1, <1>11, <1>14 DEF OnceInv, Observed

\* Every action of the walk observes once.
LEMMA OnceWalk ==
  ASSUME TypeInv, WalkInv, OnceInv, Walk
  PROVE  ObservedOnce
  <1>0. step = "enumerate"
    BY WalkCase DEF WalkStep, EnumerationSealed, Ended, Walk, Observe, Overlook,
       ReportEntry, EnterDirectory, Walking, LeaveDirectory, FlushEvents, SealEnumeration,
       CancelWalk
  <1>1. FramesInv /\ walk \in Seq(Frames)
    BY <1>0 DEF WalkInv, TypeInv
  <1> USE DEF ObservedOnce, Keeps
  <1>2. ASSUME NEW n \in Names, Observe(n) PROVE ObservedOnce
    <2>1. PICK v : v = FileObservation(n)
      OBVIOUS
    <2>2. seen' = Put(seen, n, v) /\ Walking(n) /\ walk' = Past(n) /\ UNCHANGED dirSeen
      BY <1>2, <2>1 DEF Observe, Consume
    <2>3. n \in walk[1].left /\ 1 \in 1 .. Len(walk)
      BY <1>1, <2>2 DEF Walking, Here
    <2>4. n \notin DOMAIN seen
      BY <1>0, <2>3 DEF OnceInv, Observed
    <2>5. Keeps(seen, seen') /\ DOMAIN seen' = DOMAIN seen \cup {n}
      BY <2>2, <2>4 DEF Put
    <2> QED
      BY <1>0, <1>1, <2>2, <2>5, OncePast
  <1>3. ASSUME NEW n \in Names, Overlook(n) PROVE ObservedOnce
    <2>1. Walking(n) /\ walk' = Past(n) /\ UNCHANGED <<dirSeen, seen>>
      BY <1>3 DEF Overlook, Consume
    <2> QED
      BY <1>0, <1>1, <2>1, OncePast
  <1>4. ASSUME NEW e, ReportEntry(e) PROVE ObservedOnce
    <2>1. Walking(e) /\ walk' = Past(e) /\ UNCHANGED <<dirSeen, seen>>
      BY <1>4 DEF ReportEntry, Consume
    <2> QED
      BY <1>0, <1>1, <2>1, OncePast
  <1>5. ASSUME NEW d \in Dirs, EnterDirectory(d) PROVE ObservedOnce
    <2>1. UNCHANGED seen
      BY <1>5 DEF EnterDirectory
    <2> QED
      BY <1>0, <1>1, <1>5, <2>1, OnceIn
  <1>6. CASE LeaveDirectory
    <2>1. walk # <<>> /\ walk' = Tail(walk) /\ UNCHANGED <<seen, dirSeen>>
      BY <1>6 DEF LeaveDirectory
    <2>2. /\ Len(walk') = Len(walk) - 1 /\ Len(walk) \in Nat \ {0}
          /\ \A i \in 1 .. Len(walk') : walk'[i] = walk[i + 1]
      BY <1>1, <2>1, Popping
    <2>3. \A i \in 1 .. Len(walk') : i + 1 \in 1 .. Len(walk)
      BY <2>2
    <2>4. OnceInv'
      BY <1>0, <2>1, <2>2, <2>3 DEF OnceInv, Observed
    <2> QED
      BY <2>1, <2>4
  <1>7. CASE FlushEvents
    BY <1>0, <1>7 DEF FlushEvents, OnceInv, Observed
  <1>8. CASE SealEnumeration
    BY <1>8 DEF SealEnumeration, walking, OnceInv
  <1>9. CASE CancelWalk
    BY <1>9 DEF CancelWalk, End, walking, OnceInv
  <1> QED
    BY <1>2, <1>3, <1>4, <1>5, <1>6, <1>7, <1>8, <1>9 DEF Walk

\* Every step observes once.
LEMMA OnceStep ==
  ASSUME TypeInv, WorkInv, BuildInv, WalkInv, OnceInv, [Next]_vars
  PROVE  ObservedOnce
  <1>1. CASE ~ Walk
    <2>1. UNCHANGED walking
      BY <1>1, StillWalking
    <2>2. step' = "enumerate" => step = "enumerate"
      BY <1>1, OnlyWalks
    <2> QED
      BY <2>1, <2>2 DEF ObservedOnce, OnceInv, Observed, Keeps, walking
  <1> QED
    BY <1>1, OnceWalk

\* A fingerprint recorded again is of the same bytes, those of the end of the
\* walk, and so the same.
LEMMA PrintsSame ==
  ASSUME IInv, IInv', SealsStay, [Next]_vars
  PROVE  Keeps(sampled, sampled') /\ Keeps(hashed, hashed')
  <1>1. TypeInv /\ WorkInv /\ BuildInv /\ StepInv /\ SealInv /\ PrintInv /\ PrintInv'
    BY DEF IInv
  <1>2. DOMAIN sampled \subseteq DOMAIN sampled' /\ DOMAIN hashed \subseteq DOMAIN hashed'
    BY DEF SealsStay
  <1>3. CASE Sealed("enumeration") /\ UNCHANGED <<seen, snap>>
    <2>1. ASSUME NEW n \in DOMAIN sampled PROVE sampled'[n] = sampled[n]
      BY <1>1, <1>2, <1>3, KeptStays DEF PrintInv
    <2>2. ASSUME NEW n \in DOMAIN hashed PROVE hashed'[n] = hashed[n]
      BY <1>1, <1>2, <1>3, KeptStays DEF PrintInv
    <2> QED
      BY <1>2, <2>1, <2>2 DEF Keeps
  <1>4. CASE ~ Sealed("enumeration")
    BY <1>1, <1>4 DEF SealInv, Keeps, WorkInv
  <1> QED
    BY <1>1, <1>3, <1>4, SealedStays DEF EvidenceFixed, walking, EnumerationSealed, StepInv

\* The rows of a run that the database holds: none is changed or taken away.
RowsStay ==
    /\ Keeps(seen, seen') /\ Keeps(dirSeen, dirSeen')
    /\ Keeps(sampled, sampled') /\ Keeps(hashed, hashed') /\ Keeps(sealed, sealed')
    /\ groups \subseteq groups' /\ collided \subseteq collided'
    /\ coverage # "none" => UNCHANGED coverage

\* What a stage's seal counts is closed: nothing is added to it.
SealsClose ==
    /\ Sealed("enumeration") => UNCHANGED <<seen, dirSeen>>
    /\ Sealed("sampling") => UNCHANGED sampled
    /\ Sealed("full_hash") => UNCHANGED hashed
    /\ Sealed("exact_verification") => UNCHANGED <<groups, collided, coverage>>

\* Evidence is immutable: whatever happens to the files and to the run, a row
\* stays as it was first written, and a sealed stage gets no more rows.
EvidenceStays == [][RowsStay /\ SealsClose]_vars

\* A run never takes back or changes an observation, a fingerprint, a seal, a
\* verified group, a collision or its coverage, and adds nothing to a sealed
\* stage: whatever a reader sees of completed evidence it sees for good
\* (the immutable observations and evidence of the store).
THEOREM EvidenceIsImmutable == Spec => EvidenceStays
  <1> DEFINE Inv == IInv /\ OnceInv
  <1>1. Init => Inv
    <2>1. Init => OnceInv
      BY DEF Init, OnceInv, Observed
    <2> QED
      BY <2>1, InitInv
  <1>2. ASSUME Inv, [Next]_vars
        PROVE  Inv' /\ RowsStay /\ SealsClose
    <2>1. /\ TypeInv /\ WorkInv /\ BuildInv /\ StepInv /\ SealInv /\ WalkInv
      BY <1>2 DEF IInv
    <2>2. IInv'
      BY <1>2, NextInv
    <2>3. SealsStay
      BY <1>2, <2>1, SealsKept
    <2>4. ObservedOnce
      BY <1>2, <2>1, OnceStep
    <2>5. Keeps(sampled, sampled') /\ Keeps(hashed, hashed')
      BY <1>2, <2>2, <2>3, PrintsSame
    <2>6. Sealed("enumeration") => UNCHANGED <<seen, dirSeen>>
      BY <1>2, <2>1, SealedStays DEF EvidenceFixed, EnumerationSealed, StepInv, walking
    <2> QED
      BY <2>2, <2>3, <2>4, <2>5, <2>6 DEF ObservedOnce, SealsStay, RowsStay, SealsClose
  <1> QED
    BY <1>1, <1>2, PTL DEF Spec, EvidenceStays
=============================================================================
