-------------------------- MODULE QuarantineProofs --------------------------
(***************************************************************************)
(* Proofs about Quarantine, for every group size, every set of operations, *)
(* foreign objects and bounds.                                             *)
(***************************************************************************)
EXTENDS Quarantine, TLAPS

-----------------------------------------------------------------------------
(* The inductive invariant. *)

\* A plan names a keeper of the group; a manifest exists only for a taken plan.
PlanInv ==
  \A o \in Ops :
    /\ o \in fresh => keeper[o] \in Members /\ manifest[o] = None
    /\ manifest[o] # None => keeper[o] \in Members

MovingSteps == {"compare", "barrier", "rename", "settle", "confirm",
                "rollback", "fail", "failHeld", "record"}
ReturningSteps == {"rLook", "rRename", "rConfirm", "rUndo", "rRecord"}

\* What the worker's step says of its operation and member.
WorkerInv ==
  /\ pc # "idle" => op \in Ops /\ keeper[op] \in Members /\ op \notin fresh
  /\ pc \in {"finish"} \cup MovingSteps \cup RestoreSteps => manifest[op] # None
  /\ pc \in MovingSteps \cup ReturningSteps => at \in Members /\ at # keeper[op]
  /\ pc \in {"validate", "prepare"} => manifest[op] = None
  /\ pc = "prepare" => at = N

Inv1 == TypeOK /\ PlanInv /\ WorkerInv

\* An unsynced rename belongs to an operation that lists the member.
DirtyInv ==
  \A m \in Members : dirty[m] # None =>
    manifest[dirty[m]] # None /\ m # keeper[dirty[m]]

\* A member nobody touched is unchanged and in at most one place.
InOnePlace(m) ==
  /\ home[m] \in {m, None}
  /\ \A o \in Ops : slot[o][m] \in {m, None}
  /\ \A o \in Ops : slot[o][m] = m =>
       home[m] = None /\ \A p \in Ops : p # o => slot[p][m] = None
MemberInv ==
  \A m \in Members \ touched : m \notin edited \cup detached /\ InOnePlace(m)

\* What the validation of the whole group established still holds while its
\* operation moves members: the keeper is home and nobody else holds a member.
ValidInv ==
  /\ pc = "validate" => \A m \in Members \ touched : m < at => home[m] = m
  /\ pc \in ExecuteSteps \ {"validate"} =>
       /\ keeper[op] \notin touched => home[keeper[op]] = keeper[op]
       /\ \A o \in Ops : \A m \in Members \ touched : o # op => slot[o][m] # m

\* A restored member that may still be moved back rests on its keeper again,
\* and no held member rests on it.
UndoInv ==
  (pc \in {"rConfirm", "rUndo"} /\ at \notin touched \cup unwound) =>
    /\ \/ keeper[op] \in touched \cup unwound
       \/ home[keeper[op]] = keeper[op]
    /\ \A o \in Ops : \A m \in Members \ (touched \cup unwound) :
         slot[o][m] = m => keeper[o] # at

LEMMA Names ==
  /\ None \notin Members /\ None \notin Ops /\ None \notin Manifest
  /\ None \notin Objects
  BY NamesAssumption DEF Objects

LEMMA Sizes == /\ N \in Nat /\ N >= 2 /\ 0 \in Members
               /\ \A m : m \in Members <=> m \in Nat /\ m < N
  BY GroupAssumption DEF Members

\* Skipping the keeper stays within the group or ends the loop.
LEMMA Skip == ASSUME keeper[op] \in Members, NEW m \in 0 .. N
              PROVE  /\ SkipKeeper(m) \in Nat
                     /\ SkipKeeper(m) # keeper[op]
                     /\ SkipKeeper(m) <= N
                     /\ m = 0 => SkipKeeper(m) < N
  BY Sizes DEF SkipKeeper

\* Whether it fails or not, writing a manifest keeps every manifest well formed
\* and never removes one.
LEMMA Publishing ==
  ASSUME TypeOK, op \in Ops, NEW doc \in Manifest, PublishOk(doc) \/ PublishFails(doc)
  PROVE  /\ manifest' \in [Ops -> Manifest \cup {None}]
         /\ \A o \in Ops : o # op => manifest'[o] = manifest[o]
         /\ manifest[op] # None => manifest'[op] # None
         /\ PublishOk(doc) => manifest'[op] # None
         /\ faults' \in Nat
  BY Names DEF PublishOk, PublishFails, Fault, TypeOK

LEMMA Editing ==
  ASSUME NEW doc \in Manifest, NEW m \in Members, NEW s \in Status,
         NEW f \in FileState
  PROVE  /\ [doc EXCEPT !.status = s] \in Manifest
         /\ [doc EXCEPT !.files[m] = f] \in Manifest
         /\ [doc EXCEPT !.status = s, !.files[m] = f] \in Manifest
         /\ doc.files[m] \in FileState
  BY DEF Manifest

LEMMA Moves ==
  ASSUME TypeOK, NEW o \in Ops, NEW m \in Members, MoveOut(o, m) \/ MoveBack(o, m)
  PROVE  /\ home' \in [Members -> Objects \cup {None}]
         /\ slot' \in [Ops -> [Members -> Objects \cup {None}]]
  <1> USE DEF TypeOK
  <1>1. home[m] \in Objects \cup {None} /\ slot[o][m] \in Objects \cup {None}
    OBVIOUS
  <1>2. CASE MoveOut(o, m)
    BY <1>1, <1>2 DEF MoveOut
  <1>3. CASE MoveBack(o, m)
    BY <1>1, <1>3 DEF MoveBack
  <1> QED
    BY <1>2, <1>3

-----------------------------------------------------------------------------
(* Type correctness. *)

LEMMA Inv1Init == Init => Inv1
  <1> SUFFICES ASSUME Init PROVE Inv1
    OBVIOUS
  <1>1. TypeOK
    <2>1. 0 \in 0 .. N /\ Members \subseteq Objects
      BY Sizes DEF Objects
    <2> QED
      BY <2>1 DEF Init, TypeOK, Objects
  <1>2. PlanInv /\ WorkerInv
    BY DEF Init, PlanInv, WorkerInv, MovingSteps, ReturningSteps, RestoreSteps
  <1> QED
    BY <1>1, <1>2 DEF Inv1

\* The steps that write a manifest.
Publishes == \/ Prepare \/ Abandon \/ Record \/ Finish
             \/ MarkRestoring \/ RecordRestored \/ EndRestore

LEMMA PublishFacts ==
  ASSUME Inv1, Publishes
  PROVE  /\ op \in Ops /\ keeper[op] \in Members /\ op \notin fresh
         /\ manifest' \in [Ops -> Manifest \cup {None}] /\ faults' \in Nat
         /\ \A o \in Ops : o # op => manifest'[o] = manifest[o]
         /\ manifest[op] # None => manifest'[op] # None
         /\ pc' # "idle" => manifest'[op] # None
  <1> DEFINE Goal == /\ manifest' \in [Ops -> Manifest \cup {None}] /\ faults' \in Nat
                     /\ \A o \in Ops : o # op => manifest'[o] = manifest[o]
                     /\ manifest[op] # None => manifest'[op] # None
                     /\ pc' # "idle" => manifest'[op] # None
  <1>1. /\ op \in Ops /\ keeper[op] \in Members /\ op \notin fresh
        /\ pc \in {"fail", "failHeld", "record", "rRecord"} => at \in Members
        /\ pc # "prepare" => manifest[op] \in Manifest /\ manifest[op] # None
    BY DEF Publishes, Prepare, Abandon, Record, Finish, MarkRestoring,
       RecordRestored,
       EndRestore, Inv1, TypeOK, WorkerInv, RestoreSteps, MovingSteps, ReturningSteps
  <1>2. CASE Prepare
    <2> DEFINE doc == Planned
    <2>1. doc \in Manifest
      BY Sizes DEF Planned, Manifest, Status, FileState
    <2> HIDE DEF doc
    <2>2. \/ PublishOk(doc)
          \/ PublishFails(doc) /\ pc' = "idle"
          \/ PublishFails(doc) /\ pc # "prepare"
          \/ UNCHANGED <<manifest, faults>> /\ pc' = "idle"
      BY <1>2 DEF Prepare, Halt, doc
    <2> QED
      BY <1>1, <2>1, <2>2, Publishing DEF Inv1, TypeOK
  <1>3. CASE Abandon
    <2> DEFINE doc == [manifest[op] EXCEPT !.status = "needs_recovery",
           !.files[at] = IF pc = "failHeld" THEN "quarantined" ELSE @]
    <2>1. doc \in Manifest
      BY <1>1, <1>3, Editing DEF Status, FileState, Abandon
    <2> HIDE DEF doc
    <2>2. \/ PublishOk(doc)
          \/ PublishFails(doc) /\ pc' = "idle"
          \/ PublishFails(doc) /\ pc # "prepare"
          \/ UNCHANGED <<manifest, faults>> /\ pc' = "idle"
      BY <1>3 DEF Abandon, Halt, doc
    <2> QED
      BY <1>1, <2>1, <2>2, Publishing DEF Inv1, TypeOK
  <1>4. CASE Record
    <2> DEFINE doc == [manifest[op] EXCEPT !.files[at] = "quarantined"]
    <2>1. doc \in Manifest
      BY <1>1, <1>4, Editing DEF Status, FileState, Record
    <2> HIDE DEF doc
    <2>2. \/ PublishOk(doc)
          \/ PublishFails(doc) /\ pc' = "idle"
          \/ PublishFails(doc) /\ pc # "prepare"
          \/ UNCHANGED <<manifest, faults>> /\ pc' = "idle"
      BY <1>4 DEF Record, Halt, doc
    <2> QED
      BY <1>1, <2>1, <2>2, Publishing DEF Inv1, TypeOK
  <1>5. CASE Finish
    <2> DEFINE doc == [manifest[op] EXCEPT !.status = "quarantined"]
    <2>1. doc \in Manifest
      BY <1>1, <1>5, Editing DEF Status, FileState, Finish
    <2> HIDE DEF doc
    <2>2. \/ PublishOk(doc)
          \/ PublishFails(doc) /\ pc' = "idle"
          \/ PublishFails(doc) /\ pc # "prepare"
          \/ UNCHANGED <<manifest, faults>> /\ pc' = "idle"
      BY <1>5 DEF Finish, Halt, doc
    <2> QED
      BY <1>1, <2>1, <2>2, Publishing DEF Inv1, TypeOK
  <1>6. CASE MarkRestoring
    <2> DEFINE doc == [manifest[op] EXCEPT !.status = "restoring"]
    <2>1. doc \in Manifest
      BY <1>1, <1>6, Editing DEF Status, FileState, MarkRestoring
    <2> HIDE DEF doc
    <2>2. \/ PublishOk(doc)
          \/ PublishFails(doc) /\ pc' = "idle"
          \/ PublishFails(doc) /\ pc # "prepare"
          \/ UNCHANGED <<manifest, faults>> /\ pc' = "idle"
      BY <1>6 DEF MarkRestoring, Halt, doc
    <2> QED
      BY <1>1, <2>1, <2>2, Publishing DEF Inv1, TypeOK
  <1>7. CASE RecordRestored
    <2> DEFINE doc == [manifest[op] EXCEPT !.files[at] = "restored"]
    <2>1. doc \in Manifest
      BY <1>1, <1>7, Editing DEF Status, FileState, RecordRestored
    <2> HIDE DEF doc
    <2>2. \/ PublishOk(doc)
          \/ PublishFails(doc) /\ pc' = "idle"
          \/ PublishFails(doc) /\ pc # "prepare"
          \/ UNCHANGED <<manifest, faults>> /\ pc' = "idle"
      BY <1>7 DEF RecordRestored, Halt, doc
    <2> QED
      BY <1>1, <2>1, <2>2, Publishing DEF Inv1, TypeOK
  <1>8. CASE EndRestore
    <2> DEFINE doc == [manifest[op] EXCEPT
           !.status = IF pc = "rStop" THEN "partially_restored" ELSE "restored"]
    <2>1. doc \in Manifest
      BY <1>1, <1>8, Editing DEF Status, FileState, EndRestore
    <2> HIDE DEF doc
    <2>2. \/ PublishOk(doc)
          \/ PublishFails(doc) /\ pc' = "idle"
          \/ PublishFails(doc) /\ pc # "prepare"
          \/ UNCHANGED <<manifest, faults>> /\ pc' = "idle"
      BY <1>8 DEF EndRestore, Halt, doc
    <2> QED
      BY <1>1, <2>1, <2>2, Publishing DEF Inv1, TypeOK
  <1> QED
    BY <1>1, <1>2, <1>3, <1>4, <1>5, <1>6, <1>7, <1>8 DEF Publishes

LEMMA Inv1Step == Inv1 /\ [Next]_vars => Inv1'
  <1> SUFFICES ASSUME Inv1, [Next]_vars PROVE Inv1'
    OBVIOUS
  <1> USE DEF Inv1
  <1>1. ASSUME NEW o \in Ops, NEW k \in Members, SelectPlan(o, k) PROVE Inv1'
    <2> USE <1>1 DEF SelectPlan
    <2>1. TypeOK'
      BY DEF disk, worker, ghosts, TypeOK
    <2>2. manifest[o] = None /\ (pc # "idle" => op # o)
      BY Names DEF PlanInv, WorkerInv
    <2>3. PlanInv' /\ WorkerInv'
      BY <2>2 DEF disk, worker, TypeOK, PlanInv, WorkerInv, ExecuteSteps,
                  RestoreSteps, MovingSteps, ReturningSteps
    <2> QED
      BY <2>1, <2>3
  <1>2. ASSUME NEW o \in Ops, BeginExecute(o) PROVE Inv1'
    BY <1>2, Names, Sizes DEF BeginExecute, disk, ghosts, TypeOK, PlanInv,
       WorkerInv, ExecuteSteps, RestoreSteps, MovingSteps, ReturningSteps
  <1>3. ASSUME NEW o \in Ops, BeginRestore(o) PROVE Inv1'
    BY <1>3, Names, Sizes DEF BeginRestore, disk, plans, ghosts, TypeOK, PlanInv,
       WorkerInv, ExecuteSteps, RestoreSteps, MovingSteps, ReturningSteps
  <1>4. CASE Validate
    <2> USE <1>4 DEF Validate
    <2>1. TypeOK'
      BY Names, Sizes DEF disk, plans, ghosts, Goto, Halt, Passes, Fails, Fault,
         MoveOut, MoveBack, Synced, TypeOK, WorkerInv, ExecuteSteps, RestoreSteps,
         MovingSteps, ReturningSteps
    <2>2. PlanInv'
      BY DEF disk, plans, PlanInv, TypeOK
    <2>3. WorkerInv'
      BY Names, Sizes DEF disk, plans, Goto, Halt, TypeOK, WorkerInv, ExecuteSteps,
         RestoreSteps, MovingSteps, ReturningSteps
    <2> QED
      BY <2>1, <2>2, <2>3
  <1>5. CASE Compare
    BY <1>5, Names, Sizes DEF Compare, disk, plans, ghosts, Goto, Halt, Passes,
       Fails, Fault, MoveOut, MoveBack, Synced, TypeOK, PlanInv, WorkerInv,
       ExecuteSteps, RestoreSteps, MovingSteps, ReturningSteps
  <1>6. CASE Barrier
    BY <1>6, Names, Sizes DEF Barrier, disk, plans, ghosts, Goto, Halt, Passes,
       Fails, Fault, MoveOut, MoveBack, Synced, TypeOK, PlanInv, WorkerInv,
       ExecuteSteps, RestoreSteps, MovingSteps, ReturningSteps
  <1>7. CASE Rename
    <2> USE <1>7 DEF Rename
    <2>1. op \in Ops /\ at \in Members
      BY DEF WorkerInv, RestoreSteps, MovingSteps, ReturningSteps
    <2>2. /\ home' \in [Members -> Objects \cup {None}]
          /\ slot' \in [Ops -> [Members -> Objects \cup {None}]]
      <3>1. CASE MoveOut(op, at)
        BY <2>1, <3>1, Moves
      <3>2. CASE UNCHANGED <<home, slot>>
        BY <3>2 DEF TypeOK
      <3> QED
        BY <3>1, <3>2
    <2>3. TypeOK'
      BY <2>1, <2>2, Names DEF plans, ghosts, Goto, Passes, Fails, Fault, Synced,
         TypeOK, ExecuteSteps, RestoreSteps
    <2>4. PlanInv'
      BY DEF disk, plans, PlanInv, TypeOK
    <2>5. WorkerInv'
      BY Names, Sizes DEF disk, plans, Goto, Halt, TypeOK, WorkerInv, ExecuteSteps,
         RestoreSteps, MovingSteps, ReturningSteps
    <2> QED
      BY <2>3, <2>4, <2>5
  <1>8. CASE Settle
    BY <1>8, Names, Sizes DEF Settle, disk, plans, ghosts, Goto, Halt, Passes,
       Fails, Fault, MoveOut, MoveBack, Synced, TypeOK, PlanInv, WorkerInv,
       ExecuteSteps, RestoreSteps, MovingSteps, ReturningSteps
  <1>9. CASE Confirm
    BY <1>9, Names, Sizes DEF Confirm, disk, plans, ghosts, Goto, Halt, Passes,
       Fails, Fault, MoveOut, MoveBack, Synced, TypeOK, PlanInv, WorkerInv,
       ExecuteSteps, RestoreSteps, MovingSteps, ReturningSteps
  <1>10. CASE Rollback
    <2> USE <1>10 DEF Rollback
    <2>1. op \in Ops /\ at \in Members
      BY DEF WorkerInv, RestoreSteps, MovingSteps, ReturningSteps
    <2>2. /\ home' \in [Members -> Objects \cup {None}]
          /\ slot' \in [Ops -> [Members -> Objects \cup {None}]]
      <3>1. CASE MoveBack(op, at)
        BY <2>1, <3>1, Moves
      <3>2. CASE UNCHANGED <<home, slot>>
        BY <3>2 DEF TypeOK
      <3> QED
        BY <3>1, <3>2
    <2>3. TypeOK'
      BY <2>1, <2>2, Names DEF plans, ghosts, Goto, Passes, Fails, Fault,
         SyncIgnored, Synced, TypeOK, ExecuteSteps, RestoreSteps
    <2>4. PlanInv'
      BY DEF disk, plans, PlanInv, TypeOK
    <2>5. WorkerInv'
      BY Names, Sizes DEF disk, plans, Goto, Halt, TypeOK, WorkerInv, ExecuteSteps,
         RestoreSteps, MovingSteps, ReturningSteps
    <2> QED
      BY <2>3, <2>4, <2>5
  <1>11. CASE LookForFile
    BY <1>11, Names, Sizes DEF LookForFile, disk, plans, ghosts, Goto, Halt, Passes,
       Fails, Fault, MoveOut, MoveBack, Synced, TypeOK, PlanInv, WorkerInv,
       ExecuteSteps, RestoreSteps, MovingSteps, ReturningSteps
  <1>12. CASE RenameHome
    <2> USE <1>12 DEF RenameHome
    <2>1. op \in Ops /\ at \in Members
      BY DEF WorkerInv, RestoreSteps, MovingSteps, ReturningSteps
    <2>2. /\ home' \in [Members -> Objects \cup {None}]
          /\ slot' \in [Ops -> [Members -> Objects \cup {None}]]
      <3>1. CASE MoveBack(op, at)
        BY <2>1, <3>1, Moves
      <3>2. CASE UNCHANGED <<home, slot>>
        BY <3>2 DEF TypeOK
      <3> QED
        BY <3>1, <3>2
    <2>3. TypeOK'
      BY <2>1, <2>2, Names DEF plans, ghosts, Goto, Passes, Fails, Fault, Synced,
         TypeOK, ExecuteSteps, RestoreSteps
    <2>4. PlanInv'
      BY DEF disk, plans, PlanInv, TypeOK
    <2>5. WorkerInv'
      BY Names, Sizes DEF disk, plans, Goto, Halt, TypeOK, WorkerInv, ExecuteSteps,
         RestoreSteps, MovingSteps, ReturningSteps
    <2> QED
      BY <2>3, <2>4, <2>5
  <1>13. CASE ConfirmHome
    BY <1>13, Names, Sizes DEF ConfirmHome, disk, plans, ghosts, Goto, Halt, Passes,
       Fails, Fault, MoveOut, MoveBack, Synced, TypeOK, PlanInv, WorkerInv,
       ExecuteSteps, RestoreSteps, MovingSteps, ReturningSteps
  <1>14. CASE UndoRestore
    <2> USE <1>14 DEF UndoRestore
    <2>1. op \in Ops /\ at \in Members
      BY DEF WorkerInv, RestoreSteps, MovingSteps, ReturningSteps
    <2>2. /\ home' \in [Members -> Objects \cup {None}]
          /\ slot' \in [Ops -> [Members -> Objects \cup {None}]]
      <3>1. CASE MoveOut(op, at)
        BY <2>1, <3>1, Moves
      <3>2. CASE UNCHANGED <<home, slot>>
        BY <3>2 DEF TypeOK
      <3> QED
        BY <3>1, <3>2
    <2>3. TypeOK'
      BY <2>1, <2>2, Names DEF plans, ghosts, Goto, Passes, Fails, Fault,
         SyncIgnored, Synced, TypeOK, ExecuteSteps, RestoreSteps
    <2>4. PlanInv'
      BY DEF disk, plans, PlanInv, TypeOK
    <2>5. WorkerInv'
      BY Names, Sizes DEF disk, plans, Goto, Halt, TypeOK, WorkerInv, ExecuteSteps,
         RestoreSteps, MovingSteps, ReturningSteps
    <2> QED
      BY <2>3, <2>4, <2>5
  <1>15. CASE Prepare
    <2> USE <1>15 DEF Prepare
    <2>1. /\ keeper[op] \in Members
          /\ pc \in {"record", "rRecord"} => at + 1 \in 0 .. N
          /\ 0 \in 0 .. N
      BY PublishFacts, Sizes DEF Publishes, WorkerInv, MovingSteps, ReturningSteps
    <2>2. TypeOK'
      BY <2>1, PublishFacts, Skip, Sizes DEF Publishes, plans, ghosts, Halt,
         StartMoving,
         FirstMember, NextMember, TypeOK, ExecuteSteps, RestoreSteps
    <2>3. PlanInv' /\ WorkerInv'
      BY <2>1, PublishFacts, Skip, Sizes DEF Publishes, plans, Halt, StartMoving,
         FirstMember, NextMember, TypeOK, PlanInv, WorkerInv, ExecuteSteps, RestoreSteps,
         MovingSteps, ReturningSteps
    <2> QED
      BY <2>2, <2>3
  <1>16. CASE Abandon
    <2> USE <1>16 DEF Abandon
    <2>1. /\ keeper[op] \in Members
          /\ pc \in {"record", "rRecord"} => at + 1 \in 0 .. N
          /\ 0 \in 0 .. N
      BY PublishFacts, Sizes DEF Publishes, WorkerInv, MovingSteps, ReturningSteps
    <2>2. TypeOK'
      BY <2>1, PublishFacts, Skip, Sizes DEF Publishes, plans, ghosts, Halt,
         StartMoving,
         FirstMember, NextMember, TypeOK, ExecuteSteps, RestoreSteps
    <2>3. PlanInv' /\ WorkerInv'
      BY <2>1, PublishFacts, Skip, Sizes DEF Publishes, plans, Halt, StartMoving,
         FirstMember, NextMember, TypeOK, PlanInv, WorkerInv, ExecuteSteps, RestoreSteps,
         MovingSteps, ReturningSteps
    <2> QED
      BY <2>2, <2>3
  <1>17. CASE Record
    <2> USE <1>17 DEF Record
    <2>1. /\ keeper[op] \in Members
          /\ pc \in {"record", "rRecord"} => at + 1 \in 0 .. N
          /\ 0 \in 0 .. N
      BY PublishFacts, Sizes DEF Publishes, WorkerInv, MovingSteps, ReturningSteps
    <2>2. TypeOK'
      BY <2>1, PublishFacts, Skip, Sizes DEF Publishes, plans, ghosts, Halt,
         StartMoving,
         FirstMember, NextMember, TypeOK, ExecuteSteps, RestoreSteps
    <2>3. PlanInv' /\ WorkerInv'
      BY <2>1, PublishFacts, Skip, Sizes DEF Publishes, plans, Halt, StartMoving,
         FirstMember, NextMember, TypeOK, PlanInv, WorkerInv, ExecuteSteps, RestoreSteps,
         MovingSteps, ReturningSteps
    <2> QED
      BY <2>2, <2>3
  <1>18. CASE Finish
    <2> USE <1>18 DEF Finish
    <2>1. /\ keeper[op] \in Members
          /\ pc \in {"record", "rRecord"} => at + 1 \in 0 .. N
          /\ 0 \in 0 .. N
      BY PublishFacts, Sizes DEF Publishes, WorkerInv, MovingSteps, ReturningSteps
    <2>2. TypeOK'
      BY <2>1, PublishFacts, Skip, Sizes DEF Publishes, plans, ghosts, Halt,
         StartMoving,
         FirstMember, NextMember, TypeOK, ExecuteSteps, RestoreSteps
    <2>3. PlanInv' /\ WorkerInv'
      BY <2>1, PublishFacts, Skip, Sizes DEF Publishes, plans, Halt, StartMoving,
         FirstMember, NextMember, TypeOK, PlanInv, WorkerInv, ExecuteSteps, RestoreSteps,
         MovingSteps, ReturningSteps
    <2> QED
      BY <2>2, <2>3
  <1>19. CASE MarkRestoring
    <2> USE <1>19 DEF MarkRestoring
    <2>1. /\ keeper[op] \in Members
          /\ pc \in {"record", "rRecord"} => at + 1 \in 0 .. N
          /\ 0 \in 0 .. N
      BY PublishFacts, Sizes DEF Publishes, WorkerInv, MovingSteps, ReturningSteps
    <2>2. TypeOK'
      BY <2>1, PublishFacts, Skip, Sizes DEF Publishes, plans, ghosts, Halt,
         StartMoving,
         FirstMember, NextMember, TypeOK, ExecuteSteps, RestoreSteps
    <2>3. PlanInv' /\ WorkerInv'
      BY <2>1, PublishFacts, Skip, Sizes DEF Publishes, plans, Halt, StartMoving,
         FirstMember, NextMember, TypeOK, PlanInv, WorkerInv, ExecuteSteps, RestoreSteps,
         MovingSteps, ReturningSteps
    <2> QED
      BY <2>2, <2>3
  <1>20. CASE RecordRestored
    <2> USE <1>20 DEF RecordRestored
    <2>1. /\ keeper[op] \in Members
          /\ pc \in {"record", "rRecord"} => at + 1 \in 0 .. N
          /\ 0 \in 0 .. N
      BY PublishFacts, Sizes DEF Publishes, WorkerInv, MovingSteps, ReturningSteps
    <2>2. TypeOK'
      BY <2>1, PublishFacts, Skip, Sizes DEF Publishes, plans, ghosts, Halt,
         StartMoving,
         FirstMember, NextMember, TypeOK, ExecuteSteps, RestoreSteps
    <2>3. PlanInv' /\ WorkerInv'
      BY <2>1, PublishFacts, Skip, Sizes DEF Publishes, plans, Halt, StartMoving,
         FirstMember, NextMember, TypeOK, PlanInv, WorkerInv, ExecuteSteps, RestoreSteps,
         MovingSteps, ReturningSteps
    <2> QED
      BY <2>2, <2>3
  <1>21. CASE EndRestore
    <2> USE <1>21 DEF EndRestore
    <2>1. /\ keeper[op] \in Members
          /\ pc \in {"record", "rRecord"} => at + 1 \in 0 .. N
          /\ 0 \in 0 .. N
      BY PublishFacts, Sizes DEF Publishes, WorkerInv, MovingSteps, ReturningSteps
    <2>2. TypeOK'
      BY <2>1, PublishFacts, Skip, Sizes DEF Publishes, plans, ghosts, Halt,
         StartMoving,
         FirstMember, NextMember, TypeOK, ExecuteSteps, RestoreSteps
    <2>3. PlanInv' /\ WorkerInv'
      BY <2>1, PublishFacts, Skip, Sizes DEF Publishes, plans, Halt, StartMoving,
         FirstMember, NextMember, TypeOK, PlanInv, WorkerInv, ExecuteSteps, RestoreSteps,
         MovingSteps, ReturningSteps
    <2> QED
      BY <2>2, <2>3
  <1>22. CASE ProcessCrash
    <2> USE <1>22 DEF ProcessCrash
    <2>1. TypeOK'
      BY Sizes DEF Fault, Halt, disk, ghosts, TypeOK
    <2>2. PlanInv' /\ WorkerInv'
      BY DEF Halt, disk, PlanInv, WorkerInv, RestoreSteps, MovingSteps,
         ReturningSteps
    <2> QED
      BY <2>1, <2>2
  <1>23. CASE PowerLoss
    <2> USE <1>23 DEF PowerLoss
    <2>1. home' \in [Members -> Objects \cup {None}]
      BY Names DEF TypeOK, Undoable
    <2>2. slot' \in [Ops -> [Members -> Objects \cup {None}]]
      BY Names DEF TypeOK, Undoable
    <2>3. TypeOK'
      BY <2>1, <2>2, Sizes DEF Fault, Halt, TypeOK
    <2>4. PlanInv' /\ WorkerInv'
      BY DEF Halt, PlanInv, WorkerInv, RestoreSteps, MovingSteps, ReturningSteps
    <2> QED
      BY <2>3, <2>4
  <1>24. ASSUME UserStep, TypeOK', manifest' = manifest PROVE Inv1'
    BY <1>24 DEF UserStep, plans, worker, PlanInv, WorkerInv
  <1>25. CASE UserMoveRoot
    BY <1>25, <1>24 DEF UserMoveRoot, UserStep, plans, worker, TypeOK
  <1>26. ASSUME NEW m \in Members, UserTake(m) PROVE Inv1'
    BY <1>26, <1>24 DEF UserTake, UserStep, plans, worker, TypeOK, Present
  <1>27. ASSUME NEW m \in Members, NEW x \in Objects, UserPut(m, x) PROVE Inv1'
    BY <1>27, <1>24 DEF UserPut, UserStep, plans, worker, TypeOK
  <1>28. ASSUME NEW m \in Members, UserEdit(m) \/ UserMoveParent(m) PROVE Inv1'
    BY <1>28, <1>24 DEF UserEdit, UserMoveParent, UserStep, plans, worker, TypeOK
  <1>29. CASE UNCHANGED vars
    BY <1>29 DEF vars, disk, plans, worker, ghosts, TypeOK, PlanInv, WorkerInv
  <1> QED
    BY <1>1, <1>2, <1>3, <1>4, <1>5, <1>6, <1>7, <1>8, <1>9, <1>10, <1>11, <1>12,
       <1>13, <1>14, <1>15, <1>16, <1>17, <1>18, <1>19, <1>20, <1>21, <1>22,
       <1>23, <1>25, <1>26, <1>27, <1>28, <1>29
       DEF Next, Request, Execute, Restore, Environment

\* Type correctness of every reachable state (quarantine_service.rs: the
\* worker's operation and member index stay in range).
THEOREM TypeCorrect == Spec => []TypeOK
  <1>1. Spec => []Inv1
    BY Inv1Init, Inv1Step, PTL DEF Spec
  <1> QED
    BY <1>1, PTL DEF Inv1

-----------------------------------------------------------------------------
(* What a step may do to the names and to the worker. *)

Names6 == <<home, slot, outside, edited, detached, touched, unwound>>

\* A rename out of a path, and one back to it: never over an existing name.
Out == /\ \/ pc = "rename" /\ pc' = "settle"
          \/ pc = "rUndo" /\ pc' = "rStop"
       /\ MoveOut(op, at)
       /\ Present(home[at]) /\ slot[op][at] = None
       /\ dirty' \in {Synced, [dirty EXCEPT ![at] = op]}
       /\ UNCHANGED <<outside, edited, detached, touched, unwound, manifest,
                      keeper, op, at>>
Back == /\ \/ pc = "rollback" /\ pc' = "fail"
           \/ pc = "rRename" /\ pc' = "rConfirm"
        /\ MoveBack(op, at)
        /\ Present(slot[op][at]) /\ home[at] = None
        /\ dirty' \in {Synced, [dirty EXCEPT ![at] = op]}
        /\ UNCHANGED <<outside, edited, detached, touched, unwound, manifest,
                       keeper, op, at>>
ByUser == \/ UserMoveRoot
          \/ \E m \in Members : \/ UserTake(m) \/ UserEdit(m) \/ UserMoveParent(m)
                                \/ \E x \in Objects : UserPut(m, x)

LEMMA NameStep ==
  Inv1 /\ [Next]_vars => UNCHANGED Names6 \/ Out \/ Back \/ PowerLoss \/ ByUser
  <1> SUFFICES ASSUME Inv1, [Next]_vars
               PROVE  UNCHANGED Names6 \/ Out \/ Back \/ PowerLoss \/ ByUser
    OBVIOUS
  <1>1. CASE Request
    BY <1>1 DEF Request, SelectPlan, BeginExecute, BeginRestore, disk, plans,
       ghosts,
       Names6
  <1>2. CASE Validate
    BY <1>2 DEF Validate, disk, ghosts, Names6
  <1>3. CASE Prepare
    BY <1>3 DEF Prepare, disk, ghosts, Names6
  <1>4. CASE Compare
    BY <1>4 DEF Compare, disk, ghosts, Names6
  <1>5. CASE Barrier
    BY <1>5 DEF Barrier, disk, ghosts, Names6
  <1>6. CASE Rename
    BY <1>6 DEF Rename, disk, ghosts, Names6, Out, plans, Goto, Passes, Fails
  <1>7. CASE Settle
    BY <1>7 DEF Settle, disk, ghosts, Names6
  <1>8. CASE Confirm
    BY <1>8 DEF Confirm, disk, ghosts, Names6
  <1>9. CASE Rollback
    BY <1>9 DEF Rollback, disk, ghosts, Names6, Back, plans, Goto, Passes, Fails,
       SyncIgnored
  <1>10. CASE Abandon
    BY <1>10 DEF Abandon, disk, ghosts, Names6
  <1>11. CASE Record
    BY <1>11 DEF Record, disk, ghosts, Names6
  <1>12. CASE Finish
    BY <1>12 DEF Finish, disk, ghosts, Names6
  <1>13. CASE MarkRestoring
    BY <1>13 DEF MarkRestoring, disk, ghosts, Names6
  <1>14. CASE LookForFile
    BY <1>14 DEF LookForFile, disk, ghosts, Names6
  <1>15. CASE RenameHome
    BY <1>15 DEF RenameHome, CanRenameHome, disk, ghosts, Names6, Back, plans, Goto,
       Passes, Fails
  <1>16. CASE ConfirmHome
    BY <1>16 DEF ConfirmHome, disk, ghosts, Names6
  <1>17. CASE UndoRestore
    BY <1>17 DEF UndoRestore, disk, ghosts, Names6, Out, plans, Goto, Passes, Fails,
       SyncIgnored
  <1>18. CASE RecordRestored
    BY <1>18 DEF RecordRestored, disk, ghosts, Names6
  <1>19. CASE EndRestore
    BY <1>19 DEF EndRestore, disk, ghosts, Names6
  <1>20. CASE ProcessCrash \/ UNCHANGED vars
    BY <1>20 DEF ProcessCrash, disk, ghosts, vars, Names6
  <1>21. CASE Execute
    BY <1>2, <1>3, <1>4, <1>5, <1>6, <1>7, <1>8, <1>9, <1>10, <1>11, <1>12, <1>21
       DEF Execute
  <1>22. CASE Restore
    BY <1>13, <1>14, <1>15, <1>16, <1>17, <1>18, <1>19, <1>22 DEF Restore
  <1>23. CASE Environment
    BY <1>20, <1>23 DEF Environment, ByUser
  <1> QED
    BY <1>1, <1>20, <1>21, <1>22, <1>23 DEF Next

LEMMA OutFacts ==
  ASSUME Inv1, Out
  PROVE  /\ op \in Ops /\ at \in Members /\ at # keeper[op] /\ manifest[op] # None
         /\ home'[at] = None /\ slot'[op][at] = home[at]
         /\ \A m \in Members : m # at => home'[m] = home[m]
         /\ \A o \in Ops : \A m \in Members :
              (o # op \/ m # at) => slot'[o][m] = slot[o][m]
  <1>1. op \in Ops /\ at \in Members /\ at # keeper[op] /\ manifest[op] # None
    BY DEF Out, Inv1, WorkerInv, MovingSteps, ReturningSteps, RestoreSteps
  <1> QED
    BY <1>1 DEF Out, MoveOut, Inv1, TypeOK

LEMMA BackFacts ==
  ASSUME Inv1, Back
  PROVE  /\ op \in Ops /\ at \in Members /\ at # keeper[op]
         /\ home'[at] = slot[op][at] /\ slot'[op][at] = None
         /\ \A m \in Members : m # at => home'[m] = home[m]
         /\ \A o \in Ops : \A m \in Members :
              (o # op \/ m # at) => slot'[o][m] = slot[o][m]
  <1>1. op \in Ops /\ at \in Members /\ at # keeper[op]
    BY DEF Back, Inv1, WorkerInv, MovingSteps, ReturningSteps, RestoreSteps
  <1> QED
    BY <1>1 DEF Back, MoveBack, Inv1, TypeOK

\* A power loss leaves a member alone, puts it back in files/, or puts it home.
Kept(m) == /\ home'[m] = home[m]
           /\ \A o \in Ops : slot'[o][m] = slot[o][m]
PutBack(m, d) == /\ home[m] # None /\ slot[d][m] = None
                 /\ home'[m] = None /\ slot'[d][m] = home[m]
                 /\ \A o \in Ops : o # d => slot'[o][m] = slot[o][m]
                 /\ m \in unwound'
PutHome(m, d) == /\ home[m] = None /\ slot[d][m] # None
                 /\ home'[m] = slot[d][m] /\ slot'[d][m] = None
                 /\ \A o \in Ops : o # d => slot'[o][m] = slot[o][m]

LEMMA LossFacts ==
  ASSUME Inv1, PowerLoss
  PROVE  /\ UNCHANGED <<outside, edited, detached, manifest, keeper, touched>>
         /\ unwound \subseteq unwound' /\ pc' = "idle"
         /\ \A m \in Members : dirty'[m] = None
         /\ \A m \in Members :
              \/ Kept(m)
              \/ dirty[m] \in Ops /\ (PutBack(m, dirty[m]) \/ PutHome(m, dirty[m]))
  <1>1. PICK lost \in SUBSET {m \in Members : Undoable(m)} :
          /\ home' = [m \in Members |->
                        IF m \in lost THEN slot[dirty[m]][m] ELSE home[m]]
          /\ slot' = [o \in Ops |-> [m \in Members |->
               IF m \in lost /\ dirty[m] = o THEN home[m] ELSE slot[o][m]]]
          /\ unwound' = unwound \cup {m \in lost : Present(home[m])}
    BY DEF PowerLoss
  <1>2. ASSUME NEW m \in Members, m \notin lost PROVE Kept(m)
    BY <1>1, <1>2 DEF Kept
  <1>3. ASSUME NEW m \in Members, m \in lost
        PROVE  dirty[m] \in Ops /\ (PutBack(m, dirty[m]) \/ PutHome(m, dirty[m]))
    <2>1. dirty[m] \in Ops /\ Present(home[m]) # Present(slot[dirty[m]][m])
      BY <1>3 DEF Undoable, Inv1, TypeOK
    <2>2. CASE home[m] = None
      BY <1>1, <1>3, <2>1, <2>2 DEF Present, PutHome
    <2>3. CASE home[m] # None
      BY <1>1, <1>3, <2>1, <2>3 DEF Present, PutBack
    <2> QED
      BY <2>1, <2>2, <2>3
  <1>4. unwound \subseteq unwound'
    BY <1>1
  <1> QED
    BY <1>2, <1>3, <1>4 DEF PowerLoss, Halt

\* The user's programs change no files/ directory; what they change is touched.
LEMMA UserFacts ==
  ASSUME Inv1, ByUser
  PROVE  /\ UNCHANGED <<slot, manifest, unwound, plans, worker>>
         /\ touched \subseteq touched'
         /\ \A m \in Members :
              /\ dirty'[m] \in {dirty[m], None}
              /\ m \notin touched' =>
                   /\ home'[m] = home[m]
                   /\ m \in edited' => m \in edited
                   /\ m \in detached' => m \in detached
  <1> USE DEF Inv1, TypeOK, UserStep, plans, worker
  <1>1. CASE UserMoveRoot
    BY <1>1 DEF UserMoveRoot
  <1>2. CASE \E m \in Members : UserTake(m)
    BY <1>2 DEF UserTake
  <1>3. CASE \E m \in Members : \E x \in Objects : UserPut(m, x)
    BY <1>3 DEF UserPut
  <1>4. CASE \E m \in Members : UserEdit(m)
    BY <1>4 DEF UserEdit
  <1>5. CASE \E m \in Members : UserMoveParent(m)
    BY <1>5 DEF UserMoveParent
  <1> QED
    BY <1>1, <1>2, <1>3, <1>4, <1>5 DEF ByUser

-----------------------------------------------------------------------------
(* Nothing is lost. *)

\* The places an object can be in.
Somewhere(x) == \/ x \in outside
                \/ \E m \in Members : home[m] = x \/ \E o \in Ops : slot[o][m] = x

LEMMA NothingLostStep == Inv1 /\ NothingLost /\ [Next]_vars => NothingLost'
  <1> SUFFICES ASSUME Inv1, NothingLost, [Next]_vars, NEW x \in Objects
               PROVE  Somewhere(x)'
    BY DEF NothingLost, Somewhere
  <1>1. Somewhere(x) /\ x # None
    BY Names DEF NothingLost, Somewhere
  <1>2. CASE UNCHANGED Names6
    BY <1>1, <1>2 DEF Names6, Somewhere
  <1>3. CASE Out
    BY <1>1, <1>3, OutFacts DEF Out, Somewhere
  <1>4. CASE Back
    BY <1>1, <1>4, BackFacts DEF Back, Somewhere
  <1>5. CASE PowerLoss
    BY <1>1, <1>5, LossFacts DEF Somewhere, Kept, PutBack, PutHome
  <1>6. CASE UserMoveRoot
    BY <1>1, <1>6 DEF UserMoveRoot, Somewhere
  <1>7. ASSUME NEW m \in Members, UserTake(m) PROVE Somewhere(x)'
    BY <1>1, <1>7 DEF UserTake, Somewhere, Inv1, TypeOK
  <1>8. ASSUME NEW m \in Members, NEW y \in Objects, UserPut(m, y)
        PROVE  Somewhere(x)'
    BY <1>1, <1>8 DEF UserPut, Somewhere, Inv1, TypeOK
  <1>9. ASSUME NEW m \in Members, UserEdit(m) \/ UserMoveParent(m)
        PROVE  Somewhere(x)'
    BY <1>1, <1>9 DEF UserEdit, UserMoveParent, Somewhere
  <1> QED
    BY <1>2, <1>3, <1>4, <1>5, <1>6, <1>7, <1>8, <1>9, NameStep DEF ByUser

\* No file object is overwritten or unlinked, whatever races with the renames
\* and wherever the machine stops (rename_noreplace and its callers).
THEOREM ObjectsKept == Spec => []NothingLost
  <1>1. Init => NothingLost
    BY DEF Init, NothingLost, Objects
  <1>2. Spec => [](Inv1 /\ NothingLost)
    BY <1>1, Inv1Init, Inv1Step, NothingLostStep, PTL DEF Spec
  <1> QED
    BY <1>2, PTL

-----------------------------------------------------------------------------
(* Everything held is listed. *)

\* Plans and manifests are never forgotten, and a keeper never changes.
LEMMA Remembered ==
  ASSUME Inv1, [Next]_vars, NEW o \in Ops
  PROVE  /\ manifest[o] # None => manifest'[o] # None
         /\ keeper[o] \in Members => keeper'[o] = keeper[o]
  <1>1. keeper[o] \in Members => keeper'[o] = keeper[o]
    <2>1. CASE Request
      BY <2>1, Names DEF Request, SelectPlan, BeginExecute, BeginRestore, plans,
         Inv1,
         TypeOK
    <2>2. CASE Execute
      BY <2>2 DEF Execute, Validate, Prepare, Compare, Barrier, Rename, Settle,
         Confirm, Rollback, Abandon, Record, Finish, plans
    <2>3. CASE Restore
      BY <2>3 DEF Restore, MarkRestoring, LookForFile, RenameHome, ConfirmHome,
         UndoRestore, RecordRestored, EndRestore, plans
    <2>4. CASE Environment
      BY <2>4 DEF Environment, ProcessCrash, PowerLoss, UserMoveRoot, UserTake,
         UserPut, UserEdit, UserMoveParent, UserStep, plans
    <2>5. CASE UNCHANGED vars
      BY <2>5 DEF vars, plans
    <2> QED
      BY <2>1, <2>2, <2>3, <2>4, <2>5 DEF Next
  <1>2. manifest[o] # None => manifest'[o] # None
    <2>1. CASE Publishes
      BY <2>1, PublishFacts
    <2>2. CASE UNCHANGED manifest
      BY <2>2
    <2>3. CASE Request
      BY <2>2, <2>3 DEF Request, SelectPlan, BeginExecute, BeginRestore, disk
    <2>4. CASE Execute
      BY <2>1, <2>2, <2>4 DEF Publishes, Execute, Validate, Compare, Barrier,
         Rename,
         Settle, Confirm, Rollback, disk
    <2>5. CASE Restore
      BY <2>1, <2>2, <2>5 DEF Publishes, Restore, LookForFile, RenameHome,
         ConfirmHome, UndoRestore, disk
    <2>6. CASE Environment
      BY <2>2, <2>6 DEF Environment, ProcessCrash, PowerLoss, UserMoveRoot,
         UserTake,
         UserPut, UserEdit, UserMoveParent, disk
    <2> QED
      BY <2>2, <2>3, <2>4, <2>5, <2>6 DEF Next, vars, disk
  <1> QED
    BY <1>1, <1>2

\* Only the renames of the worker mark a member dirty.
LEMMA DirtyStep ==
  ASSUME Inv1, [Next]_vars, NEW m \in Members
  PROVE  \/ dirty'[m] \in {dirty[m], None}
         \/ (Out \/ Back) /\ m = at /\ dirty'[m] = op /\ op \in Ops
            /\ manifest[op] # None /\ m # keeper[op]
  <1> USE DEF Inv1, TypeOK
  <1>1. CASE Rename \/ Rollback
    <2>1. op \in Ops /\ at \in Members /\ at # keeper[op] /\ manifest[op] # None
      BY <1>1 DEF Rename, Rollback, WorkerInv, MovingSteps
    <2>2. UNCHANGED dirty \/ Out \/ Back
      BY <1>1 DEF Rename, Rollback, Out, Back, SyncIgnored, plans, ghosts, Goto,
         Passes
    <2> QED
      BY <2>1, <2>2 DEF Out, Back, Synced
  <1>2. CASE RenameHome \/ UndoRestore
    <2>1. op \in Ops /\ at \in Members /\ at # keeper[op] /\ manifest[op] # None
      BY <1>2 DEF RenameHome, UndoRestore, WorkerInv, ReturningSteps, RestoreSteps
    <2>2. UNCHANGED dirty \/ Out \/ Back
      BY <1>2 DEF RenameHome, UndoRestore, CanRenameHome, Out, Back, SyncIgnored,
         plans, ghosts, Goto, Passes
    <2> QED
      BY <2>1, <2>2 DEF Out, Back, Synced
  <1>3. CASE Execute
    BY <1>1, <1>3 DEF Execute, Validate, Prepare, Compare, Barrier, Settle,
       Confirm, Abandon, Record, Finish, Synced, disk
  <1>4. CASE Restore
    BY <1>2, <1>4 DEF Restore, MarkRestoring, LookForFile, ConfirmHome,
       RecordRestored, EndRestore, Synced, disk
  <1>5. CASE Request
    BY <1>5 DEF Request, SelectPlan, BeginExecute, BeginRestore, disk
  <1>6. CASE Environment
    BY <1>6 DEF Environment, ProcessCrash, PowerLoss, UserMoveRoot, UserTake,
       UserPut, UserEdit, UserMoveParent, disk
  <1>7. CASE UNCHANGED vars
    BY <1>7 DEF vars, disk
  <1> QED
    BY <1>3, <1>4, <1>5, <1>6, <1>7 DEF Next

Inv2 == DirtyInv /\ HeldIsListed

\* Whatever a step leaves in a files/ directory was listed before the step.
LEMMA HeldBefore ==
  ASSUME Inv1, Inv2, [Next]_vars, NEW o \in Ops, NEW m \in Members,
         Present(slot'[o][m])
  PROVE  /\ manifest[o] # None /\ m # keeper[o]
         /\ keeper[o] \in Members /\ keeper'[o] = keeper[o]
  <1> USE DEF Inv2, Present
  <1>1. manifest[o] # None /\ m # keeper[o]
    <2>1. CASE UNCHANGED Names6
      BY <2>1 DEF Names6, HeldIsListed
    <2>2. CASE Out
      BY <2>2, OutFacts DEF HeldIsListed
    <2>3. CASE Back
      BY <2>3, BackFacts DEF HeldIsListed
    <2>4. CASE PowerLoss
      BY <2>4, LossFacts, Names DEF HeldIsListed, DirtyInv, Kept, PutBack, PutHome
    <2>5. CASE ByUser
      BY <2>5, UserFacts DEF HeldIsListed
    <2> QED
      BY <2>1, <2>2, <2>3, <2>4, <2>5, NameStep
  <1> QED
    BY <1>1, Remembered DEF Inv1, PlanInv

LEMMA Inv2Step == Inv1 /\ Inv2 /\ [Next]_vars => Inv2'
  <1> SUFFICES ASSUME Inv1, Inv2, [Next]_vars PROVE Inv2'
    OBVIOUS
  <1> USE DEF Inv2
  <1>1. \A o \in Ops : manifest[o] # None => manifest'[o] # None /\ keeper'[o] = keeper[o]
    BY Remembered DEF Inv1, PlanInv
  <1>2. DirtyInv'
    <2> SUFFICES ASSUME NEW m \in Members, dirty'[m] # None
                 PROVE  manifest'[dirty'[m]] # None /\ m # keeper'[dirty'[m]]
      BY DEF DirtyInv
    <2>1. CASE dirty'[m] = dirty[m]
      BY <1>1, <2>1 DEF DirtyInv, Inv1, TypeOK
    <2>2. CASE dirty'[m] = op /\ op \in Ops /\ manifest[op] # None /\ m # keeper[op]
      BY <1>1, <2>2
    <2> QED
      BY <2>1, <2>2, DirtyStep
  <1>3. HeldIsListed'
    BY <1>1, HeldBefore DEF HeldIsListed, Present
  <1> QED
    BY <1>2, <1>3

LEMMA Inv12 == Spec => [](Inv1 /\ Inv2)
  <1>1. Init => Inv2
    BY DEF Init, Inv2, DirtyInv, HeldIsListed, Present
  <1> QED
    BY <1>1, Inv1Init, Inv1Step, Inv2Step, PTL DEF Spec

\* Every file in an operation's files/ directory is listed by its manifest, at
\* every moment a crash may choose (the write-ahead order of execute_plan).
THEOREM HeldListed == Spec => []HeldIsListed
  <1>1. Inv2 => HeldIsListed
    BY DEF Inv2
  <1> QED
    BY <1>1, Inv12, PTL

-----------------------------------------------------------------------------
(* The keeper stays. *)

LEMMA MemberStep == Inv1 /\ MemberInv /\ [Next]_vars => MemberInv'
  <1> SUFFICES ASSUME Inv1, MemberInv, [Next]_vars,
                      NEW m \in Members, m \notin touched'
               PROVE  m \notin edited' \cup detached' /\ InOnePlace(m)'
    BY DEF MemberInv
  <1> USE DEF MemberInv
  <1>1. CASE UNCHANGED Names6
    BY <1>1 DEF Names6, InOnePlace
  <1>2. CASE Out
    BY <1>2, OutFacts, Names DEF Out, InOnePlace, Present
  <1>3. CASE Back
    BY <1>3, BackFacts, Names DEF Back, InOnePlace, Present
  <1>4. CASE PowerLoss
    BY <1>4, LossFacts, Names DEF InOnePlace, Kept, PutBack, PutHome
  <1>5. CASE ByUser
    BY <1>5, UserFacts DEF InOnePlace
  <1> QED
    BY <1>1, <1>2, <1>3, <1>4, <1>5, NameStep

\* How a step reaches a state in which execute_plan is running.
LEMMA RunningStep ==
  ASSUME Inv1, [Next]_vars, pc' \in ExecuteSteps
  PROVE  \/ pc' = "validate" /\ at' = 0
         \/ /\ pc = "validate" /\ pc' = "validate" /\ at' = at + 1 /\ Sound(at)
            /\ UNCHANGED Names6
         \/ /\ pc = "validate" /\ pc' = "prepare" /\ at = N /\ op' = op
            /\ op \in Ops /\ manifest[op] = None /\ UNCHANGED Names6
         \/ /\ {pc, pc'} \subseteq ExecuteSteps \ {"validate"} /\ op' = op
            /\ op \in Ops /\ UNCHANGED <<touched, unwound>>
         \/ UNCHANGED worker
  <1>1. CASE Request
    BY <1>1 DEF Request, SelectPlan, BeginExecute, BeginRestore, worker,
       ExecuteSteps
  <1>2. CASE Validate
    BY <1>2 DEF Validate, Validated, Passes, Fails, Goto, Halt, worker, disk,
       ghosts,
       Names6, ExecuteSteps, Inv1, WorkerInv
  <1>3. CASE Execute /\ ~Validate
    BY <1>3 DEF Execute, Prepare, Compare, Barrier, Rename, Settle, Confirm,
       Rollback,
       Abandon, Record, Finish, Goto, Halt, StartMoving, ghosts, ExecuteSteps, Inv1,
       WorkerInv
  <1>4. CASE Restore
    BY <1>4 DEF Restore, MarkRestoring, LookForFile, RenameHome, ConfirmHome,
       UndoRestore, RecordRestored, EndRestore, Goto, Halt, ExecuteSteps
  <1>5. CASE ProcessCrash \/ PowerLoss
    BY <1>5 DEF ProcessCrash, PowerLoss, Halt, ExecuteSteps
  <1>6. CASE ByUser
    BY <1>6, UserFacts DEF worker
  <1>7. CASE UNCHANGED vars
    BY <1>7 DEF vars, worker
  <1> QED
    BY <1>1, <1>2, <1>3, <1>4, <1>5, <1>6, <1>7 DEF Next, Environment, ByUser

LEMMA ValidStep == Inv1 /\ Inv2 /\ MemberInv /\ ValidInv /\ [Next]_vars => ValidInv'
  <1> SUFFICES ASSUME Inv1, Inv2, MemberInv, ValidInv, [Next]_vars,
                      pc' \in ExecuteSteps
               PROVE  ValidInv'
    BY DEF ValidInv, ExecuteSteps
  <1>1. CASE pc' = "validate" /\ at' = 0
    BY <1>1, Sizes DEF ValidInv
  <1>2. CASE /\ pc = "validate" /\ pc' = "validate" /\ at' = at + 1 /\ Sound(at)
             /\ UNCHANGED Names6
    BY <1>2, Sizes DEF ValidInv, Sound, Names6, Inv1, TypeOK
  <1>3. CASE /\ pc = "validate" /\ pc' = "prepare" /\ at = N /\ op' = op
             /\ op \in Ops /\ manifest[op] = None /\ UNCHANGED Names6
    <2>1. \A m \in Members \ touched : home[m] = m
      BY <1>3, Sizes DEF ValidInv
    <2>2. keeper[op] \in Members /\ keeper'[op] = keeper[op]
      BY <1>3, Remembered DEF Inv1, WorkerInv
    <2>3. \A m \in Members \ touched : \A o \in Ops : slot[o][m] # m
      BY <2>1, Names DEF MemberInv, InOnePlace
    <2> QED
      BY <1>3, <2>1, <2>2, <2>3 DEF ValidInv, Names6
  <1>4. ASSUME op' = op, op \in Ops, pc \in ExecuteSteps,
               pc = pc' \/ {pc, pc'} \subseteq ExecuteSteps \ {"validate"},
               pc = "validate" => at' = at
        PROVE  ValidInv'
    <2> USE <1>4
    <2>1. keeper[op] \in Members /\ keeper'[op] = keeper[op]
      BY Remembered DEF Inv1, WorkerInv, ExecuteSteps
    <2>2. CASE UNCHANGED Names6
      BY <2>1, <2>2 DEF ValidInv, Names6
    <2>3. CASE Out
      BY <2>1, <2>3, OutFacts DEF ValidInv, Out
    <2>4. CASE Back
      BY <2>1, <2>4, BackFacts DEF ValidInv, Back, ExecuteSteps
    <2>5. CASE ByUser
      BY <2>1, <2>5, UserFacts DEF ValidInv
    <2>6. ~PowerLoss
      BY LossFacts DEF ExecuteSteps
    <2> QED
      BY <2>2, <2>3, <2>4, <2>5, <2>6, NameStep
  <1>5. CASE UNCHANGED worker
    BY <1>4, <1>5 DEF worker, Inv1, WorkerInv, ExecuteSteps
  <1> QED
    BY <1>1, <1>2, <1>3, <1>4, <1>5, RunningStep

\* How a step reaches a state in which a restored member may be moved back.
LEMMA UndoingStep ==
  ASSUME Inv1, [Next]_vars, pc' \in {"rConfirm", "rUndo"}
  PROVE  \/ Back /\ pc = "rRename"
         \/ pc = "rConfirm" /\ op' = op /\ at' = at /\ UNCHANGED Names6
         \/ UNCHANGED worker
  <1>1. CASE Request
    BY <1>1 DEF Request, SelectPlan, BeginExecute, BeginRestore, worker
  <1>2. CASE Execute
    BY <1>2 DEF Execute, Validate, Prepare, Compare, Barrier, Rename, Settle,
       Confirm,
       Rollback, Abandon, Record, Finish, Goto, Halt, StartMoving, worker
  <1>3. CASE RenameHome \/ ConfirmHome
    BY <1>3 DEF RenameHome, CanRenameHome, ConfirmHome, Goto, Passes, Fails, plans,
       disk,
       ghosts, Names6, Back
  <1>4. CASE Restore /\ ~RenameHome /\ ~ConfirmHome
    BY <1>4 DEF Restore, MarkRestoring, LookForFile, UndoRestore, RecordRestored,
       EndRestore, Goto, Halt
  <1>5. CASE ProcessCrash \/ PowerLoss
    BY <1>5 DEF ProcessCrash, PowerLoss, Halt
  <1>6. CASE ByUser
    BY <1>6, UserFacts DEF worker
  <1>7. CASE UNCHANGED vars
    BY <1>7 DEF vars, worker
  <1> QED
    BY <1>1, <1>2, <1>3, <1>4, <1>5, <1>6, <1>7 DEF Next, Environment, ByUser

KInv == MemberInv /\ ValidInv /\ UndoInv /\ KeeperStays

LEMMA UndoStep == Inv1 /\ Inv2 /\ KInv /\ [Next]_vars => UndoInv'
  <1> SUFFICES ASSUME Inv1, Inv2, KInv, [Next]_vars,
                      pc' \in {"rConfirm", "rUndo"}, at' \notin (touched \cup unwound)'
               PROVE  UndoInv'
    BY DEF UndoInv
  <1> USE DEF KInv
  <1>1. op' = op /\ at' = at /\ op \in Ops /\ at \in Members /\ pc # "idle"
        /\ pc \in ReturningSteps
    <2>1. CASE Back
      BY <2>1, BackFacts, UndoingStep DEF Back, worker, ReturningSteps
    <2>2. CASE pc \in {"rConfirm", "rUndo"} /\ op' = op /\ at' = at
      BY <2>2 DEF Inv1, WorkerInv, ReturningSteps
    <2> QED
      BY <2>1, <2>2, UndoingStep DEF worker
  <1>2. keeper[op] \in Members /\ keeper'[op] = keeper[op] /\ at # keeper[op]
    BY <1>1, Remembered DEF Inv1, WorkerInv
  <1>3. CASE Back
    <2>1. at \notin touched \cup unwound /\ pc \in {"rollback", "rRename"}
      BY <1>1, <1>3 DEF Back
    <2>2. slot[op][at] = at /\ home[at] = None
      BY <1>1, <1>3, <2>1 DEF Back, MemberInv, InOnePlace, Present
    <2>3. keeper[op] \in touched \cup unwound \/ home[keeper[op]] = keeper[op]
      BY <1>1, <2>1, <2>2 DEF KeeperStays
    <2>4. ASSUME NEW o \in Ops, NEW h \in Members \ (touched \cup unwound),
                 slot'[o][h] = h
          PROVE  keeper[o] # at
      BY <1>1, <1>3, <2>1, <2>2, <2>4, BackFacts, Names DEF KeeperStays, Back
    <2> QED
      BY <1>1, <1>2, <1>3, <2>3, <2>4, BackFacts DEF UndoInv, Back
  <1>4. CASE ~Back /\ pc \in {"rConfirm", "rUndo"} /\ pc' \in {"rConfirm", "rUndo"}
    <2>1. ASSUME NEW o \in Ops, NEW h \in Members, slot'[o][h] = h
          PROVE  keeper'[o] = keeper[o]
      BY <2>1, HeldBefore, Names DEF Present
    <2>2. CASE UNCHANGED Names6
      BY <1>1, <1>2, <1>4, <2>1, <2>2 DEF UndoInv, Names6
    <2>3. CASE ByUser
      BY <1>1, <1>2, <1>4, <2>1, <2>3, UserFacts DEF UndoInv
    <2>4. ~Out /\ ~PowerLoss
      BY <1>4, LossFacts DEF Out
    <2> QED
      BY <1>4, <2>2, <2>3, <2>4, NameStep
  <1>5. Back \/ pc \in {"rConfirm", "rUndo"}
    BY UndoingStep DEF worker
  <1> QED
    BY <1>3, <1>4, <1>5

LEMMA KeeperStep == Inv1 /\ Inv2 /\ KInv /\ [Next]_vars => KeeperStays'
  <1> SUFFICES ASSUME Inv1, Inv2, KInv, [Next]_vars,
                      NEW o \in Ops, NEW m \in Members, slot'[o][m] = m,
                      m \notin (touched \cup unwound)',
                      keeper'[o] \notin (touched \cup unwound)'
               PROVE  home'[keeper'[o]] = keeper'[o] /\ keeper'[o] \notin edited'
    BY DEF KeeperStays
  <1> DEFINE k == keeper[o]
  <1>1. k \in Members /\ keeper'[o] = k /\ k # m
    BY HeldBefore, Names DEF Present
  <1>2. MemberInv'
    BY MemberStep DEF KInv
  <1>3. k \notin edited'
    BY <1>1, <1>2 DEF MemberInv
  <1>4. touched \subseteq touched' /\ unwound \subseteq unwound'
    <2>1. CASE ByUser
      BY <2>1, UserFacts
    <2>2. CASE PowerLoss
      BY <2>2, LossFacts
    <2> QED
      BY <2>1, <2>2, NameStep DEF Names6, Out, Back
  <1>5. slot[o][m] = m => home[k] = k
    BY <1>1, <1>4 DEF KInv, KeeperStays
  <1>6. home'[k] = k
    <2>1. CASE UNCHANGED Names6
      BY <1>5, <2>1 DEF Names6
    <2>2. CASE Out
      <3>1. CASE o = op /\ m = at /\ pc = "rename"
        BY <1>1, <1>4, <2>2, <3>1, OutFacts DEF KInv, ValidInv, ExecuteSteps
      <3>2. CASE o = op /\ m = at /\ pc = "rUndo"
        BY <1>1, <1>4, <2>2, <3>2, OutFacts DEF KInv, UndoInv
      <3>3. CASE ~(o = op /\ m = at)
        <4>1. slot[o][m] = m /\ home[k] = k
          BY <1>5, <2>2, <3>3, OutFacts
        <4>2. k # at
          <5>1. CASE pc = "rename"
            BY <1>1, <1>4, <2>2, <4>1, <5>1, OutFacts DEF KInv, ValidInv,
               ExecuteSteps
          <5>2. CASE pc = "rUndo"
            BY <1>1, <1>4, <2>2, <4>1, <5>2, OutFacts DEF KInv, UndoInv
          <5> QED
            BY <2>2, <5>1, <5>2 DEF Out
        <4> QED
          BY <1>1, <2>2, <4>1, <4>2, OutFacts
      <3> QED
        BY <2>2, <3>1, <3>2, <3>3 DEF Out
    <2>3. CASE Back
      BY <1>1, <1>5, <2>3, BackFacts, Names DEF Back
    <2>4. CASE PowerLoss
      BY <1>1, <1>4, <1>5, <2>4, LossFacts, Names DEF Kept, PutBack, PutHome
    <2>5. CASE ByUser
      BY <1>1, <1>4, <1>5, <2>5, UserFacts
    <2> QED
      BY <2>1, <2>2, <2>3, <2>4, <2>5, NameStep
  <1> QED
    BY <1>1, <1>3, <1>6

\* The invariant behind the keeper holds in every reachable state.
LEMMA KInvHolds == Spec => []KInv
  <1>1. Init => KInv
    BY Names DEF Init, KInv, MemberInv, InOnePlace, ValidInv, UndoInv, KeeperStays,
       ExecuteSteps
  <1>2. Inv1 /\ Inv2 /\ KInv /\ [Next]_vars => KInv'
    BY MemberStep, ValidStep, UndoStep, KeeperStep DEF KInv
  <1> QED
    BY <1>1, <1>2, Inv12, PTL DEF Spec

\* While a copy is held, the copy it was redundant to is home and unchanged: no
\* sequence of plans, executions, restores, failures and crashes quarantines
\* the last copy (validate_group_before_mutation, move_one_member).
THEOREM KeeperKept == Spec => []KeeperStays
  <1>1. KInv => KeeperStays
    BY DEF KInv
  <1> QED
    BY <1>1, KInvHolds, PTL

-----------------------------------------------------------------------------
(* Disk and manifests agree. *)

\* While the worker moves files, its manifest says which way.
StageInv ==
  /\ pc \in {"finish"} \cup MovingSteps => manifest[op].status = "quarantining"
  /\ pc \in {"rStop", "rFinish"} \cup ReturningSteps =>
       manifest[op].status = "restoring"

\* The members before the current one are held, and their renames synced.
MovedInv ==
  /\ pc \in MovingSteps => \A m \in Members :
       m < at /\ m # keeper[op] => slot[op][m] = m /\ dirty[m] = None
  /\ pc = "finish" => \A m \in Members :
       m # keeper[op] => slot[op][m] = m /\ dirty[m] = None
  /\ pc \in {"confirm", "record"} => dirty[at] = None
  /\ pc = "record" => slot[op][at] = at

\* A restore leaves no stranger behind it.
ReturnedInv ==
  /\ pc \in ReturningSteps => \A m \in Members :
       m < at => slot[op][m] \notin Foreign
  /\ pc = "rFinish" => \A m \in Members : slot[op][m] \notin Foreign
  /\ pc = "rRename" => slot[op][at] = at
  /\ pc = "rRecord" => slot[op][at] = None

\* A path that a rollback gave a stranger, and that is not synced yet, belongs
\* to an operation that claims no success; a restore does not get past it.
Astray(m) == dirty[m] # None /\ home[m] \notin {m, None}
HomeInv ==
  \A m \in Members : Astray(m) =>
    /\ manifest[dirty[m]].status \notin {"quarantined", "restored"}
    /\ dirty[m] = op =>
         /\ pc # "rFinish"
         /\ pc \in ReturningSteps => at < m \/ (at = m /\ pc # "rRecord")

\* What keeps disk and manifests in step.
DiskInv == StageInv /\ MovedInv /\ ReturnedInv /\ HomeInv

\* How a step changes a manifest: not at all, or that of the operation, and
\* then with the status that its next step calls for.
LEMMA StatusStep ==
  ASSUME Inv1, StageInv, [Next]_vars
  PROVE  \/ ~Publishes /\ UNCHANGED manifest
         \/ /\ Publishes /\ op \in Ops /\ op' \in {op, None}
            /\ \A o \in Ops : o # op => manifest'[o] = manifest[o]
            /\ pc' # "idle" => /\ op' = op
                               /\ pc' \in {"finish"} \cup MovingSteps =>
                                    manifest'[op].status = "quarantining"
                               /\ pc' \in {"rStop", "rFinish"} \cup ReturningSteps =>
                                    manifest'[op].status = "restoring"
            /\ \/ manifest'[op] = manifest[op]
               \/ manifest'[op].status \notin {"quarantined", "restored"}
               \/ pc = "finish" /\ manifest'[op].status = "quarantined"
               \/ pc = "rFinish" /\ manifest'[op].status = "restored"
  <1> USE DEF PublishOk, PublishFails, Halt, MovingSteps, ReturningSteps
  <1>1. CASE Publishes
    <2>1. /\ op \in Ops /\ manifest \in [Ops -> Manifest \cup {None}]
          /\ \A o \in Ops : o # op => manifest'[o] = manifest[o]
      BY <1>1, PublishFacts DEF Inv1, TypeOK
    <2>2. pc # "prepare" => manifest[op] \in Manifest
      BY <1>1, <2>1 DEF Inv1, TypeOK, WorkerInv, Publishes, Prepare, Abandon,
         Record, Finish,
         MarkRestoring, RecordRestored, EndRestore, RestoreSteps
    <2>3. CASE Prepare
      BY <1>1, <2>1, <2>3 DEF Prepare, Planned, StartMoving
    <2>4. CASE Abandon
      BY <1>1, <2>1, <2>2, <2>4 DEF Abandon, Manifest
    <2>5. CASE Record
      BY <1>1, <2>1, <2>2, <2>5 DEF Record, Manifest, StageInv
    <2>6. CASE Finish
      BY <1>1, <2>1, <2>2, <2>6 DEF Finish, Manifest
    <2>7. CASE MarkRestoring
      BY <1>1, <2>1, <2>2, <2>7 DEF MarkRestoring, Manifest
    <2>8. CASE RecordRestored
      BY <1>1, <2>1, <2>2, <2>8 DEF RecordRestored, Manifest, StageInv
    <2>9. CASE EndRestore
      BY <1>1, <2>1, <2>2, <2>9 DEF EndRestore, Manifest
    <2> QED
      BY <1>1, <2>3, <2>4, <2>5, <2>6, <2>7, <2>8, <2>9 DEF Publishes
  <1>2. CASE ~Publishes
    <2>1. CASE Request
      BY <1>2, <2>1 DEF Request, SelectPlan, BeginExecute, BeginRestore, disk
    <2>2. CASE Execute
      BY <1>2, <2>2 DEF Publishes, Execute, Validate, Compare, Barrier, Rename,
         Settle, Confirm, Rollback, disk
    <2>3. CASE Restore
      BY <1>2, <2>3 DEF Publishes, Restore, LookForFile, RenameHome,
         ConfirmHome, UndoRestore, disk
    <2>4. CASE Environment
      BY <1>2, <2>4 DEF Environment, ProcessCrash, PowerLoss, UserMoveRoot,
         UserTake,
         UserPut, UserEdit, UserMoveParent, disk
    <2> QED
      BY <1>2, <2>1, <2>2, <2>3, <2>4 DEF Next, vars, disk
  <1> QED
    BY <1>1, <1>2

\* The stage is true of the manifest before every step and after it.
LEMMA StageStep == Inv1 /\ StageInv /\ [Next]_vars => StageInv'
  <1> SUFFICES ASSUME Inv1, StageInv, [Next]_vars,
                      pc' \in {"finish", "rStop", "rFinish"} \cup MovingSteps
                                \cup ReturningSteps
               PROVE  StageInv'
    BY DEF StageInv
  <1>1. CASE UNCHANGED worker
    <2>1. CASE UNCHANGED manifest
      BY <1>1, <2>1 DEF StageInv, worker
    <2> QED
      BY <1>1, <2>1, StatusStep DEF StageInv, worker, MovingSteps, ReturningSteps
  <1>2. CASE Publishes
    BY <1>2, StatusStep DEF StageInv, MovingSteps, ReturningSteps
  <1>3. CASE (Execute \/ Restore) /\ ~Publishes
    <2>1. UNCHANGED manifest
      BY <1>3, StatusStep
    <2> QED
      BY <1>3, <2>1 DEF StageInv, Execute, Validate, Compare, Barrier,
         Rename, Settle, Confirm, Rollback, Restore, LookForFile, RenameHome,
         ConfirmHome, UndoRestore, Publishes, Goto, Halt, MovingSteps,
         ReturningSteps
  <1>4. CASE Request
    BY <1>1, <1>4 DEF Request, SelectPlan, BeginExecute, BeginRestore, MovingSteps,
       ReturningSteps, worker
  <1>5. CASE ProcessCrash \/ PowerLoss
    BY <1>5 DEF ProcessCrash, PowerLoss, Halt, MovingSteps, ReturningSteps
  <1>6. CASE ByUser
    BY <1>1, <1>6, UserFacts
  <1>7. CASE UNCHANGED vars
    BY <1>1, <1>7 DEF vars
  <1> QED
    BY <1>2, <1>3, <1>4, <1>5, <1>6, <1>7 DEF Next, Environment, ByUser

\* Below the next member there are the members before it and the keeper.
LEMMA Below ==
  ASSUME keeper[op] \in Members, NEW n \in Nat, NEW m \in Members, m < SkipKeeper(n)
  PROVE  m < n \/ m = keeper[op]
  BY Sizes DEF SkipKeeper

\* How a step reaches a state in which execute_plan moves members.
LEMMA MovingStep ==
  ASSUME Inv1, [Next]_vars, pc' \in {"finish"} \cup MovingSteps
  PROVE  \/ /\ pc = "prepare" /\ pc' = "compare" /\ at' = FirstMember /\ op' = op
            /\ UNCHANGED <<slot, dirty>>
         \/ /\ pc = "record" /\ at' = NextMember /\ op' = op
            /\ pc' = IF NextMember < N THEN "compare" ELSE "finish"
            /\ UNCHANGED <<slot, dirty>>
         \/ /\ pc \in MovingSteps /\ pc' \in MovingSteps
            /\ at' = at /\ op' = op
            /\ \A m \in Members : m # at =>
                 slot'[op][m] = slot[op][m] /\ dirty'[m] = dirty[m]
            /\ pc' = "confirm" => dirty'[at] = None
            /\ pc' = "record" => /\ pc = "confirm" /\ slot[op][at] = at
                                 /\ UNCHANGED <<slot, dirty>>
         \/ /\ UNCHANGED worker /\ UNCHANGED slot
            /\ \A m \in Members : dirty'[m] \in {dirty[m], None}
  <1> USE DEF Goto, Halt, MovingSteps
  <1>1. CASE Request
    BY <1>1 DEF Request, SelectPlan, BeginExecute, BeginRestore, worker, disk
  <1>2. CASE Prepare \/ Record
    BY <1>2 DEF Prepare, Record, StartMoving
  <1>3. CASE Validate \/ Compare \/ Barrier \/ Abandon \/ Finish
    BY <1>3 DEF Validate, Compare, Barrier, Abandon, Finish, disk
  <1>4. CASE Rename \/ Rollback
    <2>1. op \in Ops /\ at \in Members
      BY <1>4 DEF Rename, Rollback, Inv1, WorkerInv, ReturningSteps, RestoreSteps
    <2> QED
      BY <1>4, <2>1 DEF Rename, Rollback, MoveOut, MoveBack, SyncIgnored, Synced,
         Inv1, TypeOK
  <1>5. CASE Settle \/ Confirm
    <2>1. op \in Ops /\ at \in Members
      BY <1>5 DEF Settle, Confirm, Inv1, WorkerInv, ReturningSteps, RestoreSteps
    <2> QED
      BY <1>5, <2>1 DEF Settle, Confirm, Verified, HeldSound, Passes, Synced, disk,
         Inv1, TypeOK
  <1>6. CASE Restore
    BY <1>6 DEF Restore, MarkRestoring, LookForFile, RenameHome, ConfirmHome,
       UndoRestore, RecordRestored, EndRestore
  <1>7. CASE ProcessCrash \/ PowerLoss
    BY <1>7 DEF ProcessCrash, PowerLoss
  <1>8. CASE ByUser
    BY <1>8, UserFacts
  <1>9. CASE UNCHANGED vars
    BY <1>9 DEF vars, disk, worker
  <1> QED
    BY <1>1, <1>2, <1>3, <1>4, <1>5, <1>6, <1>7, <1>8, <1>9
       DEF Next, Execute, Environment, ByUser

\* Record passes a member only once confirm found it held and settle synced it.
LEMMA MovedStep == Inv1 /\ MovedInv /\ [Next]_vars => MovedInv'
  <1> SUFFICES ASSUME Inv1, MovedInv, [Next]_vars,
                      pc' \in {"finish"} \cup MovingSteps
               PROVE  MovedInv'
    BY DEF MovedInv, MovingSteps
  <1> USE DEF MovedInv
  <1>1. CASE UNCHANGED worker /\ UNCHANGED slot
             /\ \A m \in Members : dirty'[m] \in {dirty[m], None}
    <2>1. op \in Ops /\ keeper'[op] = keeper[op]
      BY <1>1, Remembered DEF Inv1, WorkerInv, worker, MovingSteps
    <2>2. pc \in MovingSteps => at \in Members
      BY DEF Inv1, WorkerInv
    <2> QED
      BY <1>1, <2>1, <2>2 DEF worker, MovingSteps
  <1>2. ASSUME pc # "idle", op' = op
        PROVE  op \in Ops /\ keeper[op] \in Members /\ keeper'[op] = keeper[op]
    BY <1>2, Remembered DEF Inv1, WorkerInv
  <1>3. CASE /\ pc = "prepare" /\ pc' = "compare" /\ at' = FirstMember /\ op' = op
             /\ UNCHANGED <<slot, dirty>>
    BY <1>2, <1>3, Below, Sizes DEF FirstMember, MovingSteps
  <1>4. CASE /\ pc = "record" /\ at' = NextMember /\ op' = op
             /\ pc' = IF NextMember < N THEN "compare" ELSE "finish"
             /\ UNCHANGED <<slot, dirty>>
    <2>1. keeper[op] \in Members /\ keeper'[op] = keeper[op] /\ at \in Members
      BY <1>2, <1>4 DEF Inv1, WorkerInv, MovingSteps
    <2>2. NextMember \in Nat
      BY <2>1, Skip, Sizes DEF NextMember
    <2>3. \A m \in Members : m < NextMember => m < at \/ m = at \/ m = keeper[op]
      BY <2>1, Below, Sizes DEF NextMember
    <2>4. \A m \in Members : m < NextMember /\ m # keeper[op] =>
            slot[op][m] = m /\ dirty[m] = None
      BY <1>4, <2>3 DEF MovingSteps
    <2>5. pc' = "finish" => \A m \in Members : m < NextMember
      BY <1>4, <2>2, Sizes
    <2>6. pc' \in MovingSteps =>
            \A m \in Members : m < at' /\ m # keeper'[op'] =>
              slot'[op'][m] = m /\ dirty'[m] = None
      BY <1>4, <2>1, <2>4
    <2>7. pc' = "finish" => \A m \in Members : m # keeper'[op'] =>
            slot'[op'][m] = m /\ dirty'[m] = None
      BY <1>4, <2>1, <2>4, <2>5
    <2>8. pc' \notin {"confirm", "record"}
      BY <1>4
    <2> QED
      BY <2>6, <2>7, <2>8
  <1>5. CASE /\ pc \in MovingSteps /\ pc' \in MovingSteps
             /\ at' = at /\ op' = op
             /\ \A m \in Members : m # at =>
                  slot'[op][m] = slot[op][m] /\ dirty'[m] = dirty[m]
             /\ pc' = "confirm" => dirty'[at] = None
             /\ pc' = "record" => /\ pc = "confirm" /\ slot[op][at] = at
                                  /\ UNCHANGED <<slot, dirty>>
    <2>1. keeper'[op] = keeper[op] /\ at \in Members
      BY <1>2, <1>5 DEF Inv1, WorkerInv, MovingSteps
    <2>2. \A m \in Members : m < at => m # at
      BY <2>1, Sizes
    <2> QED
      BY <1>5, <2>1, <2>2 DEF MovingSteps
  <1> QED
    BY <1>1, <1>3, <1>4, <1>5, MovingStep

\* How a step reaches a state in which restore_operation visits members.
LEMMA ReturningStep ==
  ASSUME Inv1, [Next]_vars, pc' \in {"rFinish"} \cup ReturningSteps
  PROVE  \/ /\ pc = "rBegin" /\ pc' = "rLook" /\ at' = FirstMember /\ op' = op
            /\ UNCHANGED slot
         \/ /\ pc = "rRecord" /\ at' = NextMember /\ op' = op
            /\ pc' = IF NextMember < N THEN "rLook" ELSE "rFinish"
            /\ UNCHANGED slot
         \/ /\ pc \in ReturningSteps /\ pc' \in ReturningSteps
            /\ at' = at /\ op' = op
            /\ \A m \in Members : m # at => slot'[op][m] = slot[op][m]
            /\ pc' = "rRename" => slot'[op][at] = at
            /\ pc' = "rRecord" => slot'[op][at] = None /\ ~Astray(at)'
         \/ UNCHANGED worker /\ UNCHANGED slot
  <1> USE DEF Goto, Halt, ReturningSteps
  <1>1. CASE Request
    BY <1>1 DEF Request, SelectPlan, BeginExecute, BeginRestore, worker, disk
  <1>2. CASE MarkRestoring \/ RecordRestored \/ EndRestore
    BY <1>2 DEF MarkRestoring, RecordRestored, EndRestore
  <1>3. CASE LookForFile
    BY <1>3 DEF LookForFile, AlreadyHome, StillHeld, HeldSound, Sound, Astray,
       Passes, disk
  <1>4. CASE RenameHome
    <2>1. op \in Ops /\ at \in Members
      BY <1>4 DEF RenameHome, Inv1, WorkerInv, MovingSteps, RestoreSteps
    <2> QED
      BY <1>4, <2>1 DEF RenameHome, MoveBack, Inv1, TypeOK
  <1>5. CASE ConfirmHome \/ UndoRestore
    <2>1. at \in Members
      BY <1>5 DEF ConfirmHome, UndoRestore, Inv1, WorkerInv, MovingSteps,
         RestoreSteps
    <2> QED
      BY <1>5, <2>1 DEF ConfirmHome, UndoRestore, Sound, Astray, Synced, Passes,
         Inv1, TypeOK
  <1>6. CASE Execute
    BY <1>6 DEF Execute, Validate, Prepare, Compare, Barrier, Rename, Settle,
       Confirm,
       Rollback, Abandon, Record, Finish, StartMoving
  <1>7. CASE ProcessCrash \/ PowerLoss
    BY <1>7 DEF ProcessCrash, PowerLoss
  <1>8. CASE ByUser
    BY <1>8, UserFacts
  <1>9. CASE UNCHANGED vars
    BY <1>9 DEF vars, disk, worker
  <1> QED
    BY <1>1, <1>2, <1>3, <1>4, <1>5, <1>6, <1>7, <1>8, <1>9
       DEF Next, Restore, Environment, ByUser

\* A restore passes a member only once its place in files/ is free.
LEMMA ReturnedStep == Inv1 /\ HeldIsListed /\ ReturnedInv /\ [Next]_vars => ReturnedInv'
  <1> SUFFICES ASSUME Inv1, HeldIsListed, ReturnedInv, [Next]_vars,
                      pc' \in {"rFinish"} \cup ReturningSteps
               PROVE  ReturnedInv'
    BY DEF ReturnedInv, ReturningSteps
  <1> USE DEF ReturnedInv
  <1>1. CASE UNCHANGED worker /\ UNCHANGED slot
    BY <1>1 DEF worker, ReturningSteps
  <1>2. ASSUME pc # "idle", op' = op
        PROVE  /\ op \in Ops /\ keeper[op] \in Members
               /\ slot[op][keeper[op]] \notin Foreign
    <2>1. op \in Ops /\ keeper[op] \in Members
      BY <1>2 DEF Inv1, WorkerInv
    <2> QED
      BY <2>1, Names DEF HeldIsListed, Present, Objects
  <1>3. CASE /\ pc = "rBegin" /\ pc' = "rLook" /\ at' = FirstMember /\ op' = op
             /\ UNCHANGED slot
    BY <1>2, <1>3, Below, Sizes DEF FirstMember, ReturningSteps
  <1>4. CASE /\ pc = "rRecord" /\ at' = NextMember /\ op' = op
             /\ pc' = IF NextMember < N THEN "rLook" ELSE "rFinish"
             /\ UNCHANGED slot
    <2>1. /\ keeper[op] \in Members /\ slot[op][keeper[op]] \notin Foreign
          /\ at \in Members /\ slot[op][at] \notin Foreign
      BY <1>2, <1>4, Names DEF Inv1, WorkerInv, ReturningSteps, Objects
    <2>2. NextMember \in Nat
      BY <2>1, Skip, Sizes DEF NextMember
    <2>3. \A m \in Members : m < NextMember => m < at \/ m = at \/ m = keeper[op]
      BY <2>1, Below, Sizes DEF NextMember
    <2>4. \A m \in Members : m < NextMember => slot[op][m] \notin Foreign
      BY <1>4, <2>1, <2>3 DEF ReturningSteps
    <2>5. pc' = "rFinish" => \A m \in Members : m < NextMember
      BY <1>4, <2>2, Sizes
    <2> QED
      BY <1>4, <2>4, <2>5 DEF ReturningSteps
  <1>5. CASE /\ pc \in ReturningSteps /\ pc' \in ReturningSteps
             /\ at' = at /\ op' = op
             /\ \A m \in Members : m # at => slot'[op][m] = slot[op][m]
             /\ pc' = "rRename" => slot'[op][at] = at
             /\ pc' = "rRecord" => slot'[op][at] = None
    <2>1. at \in Members /\ \A m \in Members : m < at => m # at
      BY <1>5, Sizes DEF Inv1, WorkerInv
    <2> QED
      BY <1>5, <2>1 DEF ReturningSteps
  <1> QED
    BY <1>1, <1>3, <1>4, <1>5, ReturningStep

\* How a path comes to be astray: a rollback just gave it back, or it was so.
LEMMA AstrayStep ==
  ASSUME Inv1, ReturnedInv, [Next]_vars, NEW m \in Members, Astray(m)'
  PROVE  \/ /\ Back /\ pc = "rollback" /\ pc' = "fail"
            /\ dirty'[m] = op /\ op \in Ops
         \/ Astray(m) /\ dirty'[m] = dirty[m] /\ ~Back
         \/ Astray(m) /\ dirty'[m] = dirty[m] /\ Back /\ m # at
  <1> USE DEF Astray
  <1>1. CASE Out
    <2>1. m # at
      BY <1>1, OutFacts
    <2> QED
      BY <1>1, <2>1, OutFacts, DirtyStep DEF Out, Back
  <1>2. CASE Back /\ m # at
    BY <1>2, BackFacts, DirtyStep
  <1>3. CASE Back /\ m = at
    <2>1. op \in Ops /\ home'[at] = slot[op][at]
      BY <1>3, BackFacts
    <2>2. pc # "rRename"
      BY <1>3, <2>1 DEF ReturnedInv
    <2>3. dirty'[at] \in {None, op}
      BY <1>3 DEF Back, Synced, Inv1, TypeOK
    <2> QED
      BY <1>3, <2>1, <2>2, <2>3 DEF Back
  <1>4. CASE ~Out /\ ~Back
    <2>1. dirty'[m] = dirty[m]
      BY <1>4, DirtyStep
    <2>2. CASE UNCHANGED Names6
      BY <1>4, <2>1, <2>2 DEF Names6
    <2>3. ~PowerLoss
      BY LossFacts
    <2>4. CASE ByUser
      <3>1. home'[m] = home[m] \/ dirty'[m] = None
        BY <2>4 DEF ByUser, UserMoveRoot, UserTake, UserPut, UserEdit,
           UserMoveParent,
           Inv1, TypeOK
      <3> QED
        BY <1>4, <2>1, <3>1
    <2> QED
      BY <1>4, <2>2, <2>3, <2>4, NameStep
  <1> QED
    BY <1>1, <1>2, <1>3, <1>4

\* Restore visits every member, so it ends before an astray one.
LEMMA ShortOf ==
  ASSUME Inv1, HomeInv, [Next]_vars, NEW m \in Members, Astray(m), Astray(m)',
         dirty[m] \in Ops, m # keeper[dirty[m]], dirty'[m] = dirty[m],
         dirty[m] = op', pc' \in {"rFinish"} \cup ReturningSteps
  PROVE  pc' # "rFinish" /\ (at' < m \/ (at' = m /\ pc' # "rRecord"))
  <1>1. CASE UNCHANGED worker
    BY <1>1 DEF HomeInv, worker, ReturningSteps
  <1>2. CASE op' = op /\ pc # "idle" /\ ~UNCHANGED worker
    <2>1. keeper[op] \in Members /\ m # keeper[op] /\ dirty[m] = op
      BY <1>2 DEF Inv1, WorkerInv
    <2>2. CASE pc = "rBegin" /\ pc' = "rLook" /\ at' = FirstMember
      <3>1. FirstMember \in Nat /\ ~(m < FirstMember)
        BY <2>1, Skip, Below, Sizes DEF FirstMember
      <3> QED
        BY <2>2, <3>1, Sizes
    <2>3. CASE /\ pc = "rRecord" /\ at' = NextMember
               /\ pc' = IF NextMember < N THEN "rLook" ELSE "rFinish"
      <3>1. at \in Members /\ at < m
        BY <2>1, <2>3 DEF HomeInv, Inv1, WorkerInv, ReturningSteps
      <3>2. NextMember \in Nat /\ ~(m < NextMember)
        BY <2>1, <3>1, Skip, Below, Sizes DEF NextMember
      <3> QED
        BY <2>3, <3>2, Sizes
    <2>4. CASE /\ pc \in ReturningSteps /\ pc' \in ReturningSteps /\ at' = at
               /\ pc' = "rRecord" => ~Astray(at)'
      <3>1. at < m \/ at = m
        BY <2>1, <2>4 DEF HomeInv
      <3> QED
        BY <2>4, <3>1 DEF ReturningSteps
    <2> QED
      BY <1>2, <2>2, <2>3, <2>4, ReturningStep
  <1> QED
    BY <1>1, <1>2, ReturningStep DEF ReturningSteps

\* A user's change of a path forgets the rename that came before it, and a
\* manifest claims success only when no member of it is astray.
LEMMA HomeStep ==
  Inv1 /\ Inv2 /\ StageInv /\ MovedInv /\ ReturnedInv /\ HomeInv /\ [Next]_vars
    => HomeInv'
  <1> SUFFICES ASSUME Inv1, Inv2, StageInv, MovedInv, ReturnedInv, HomeInv,
                      [Next]_vars, NEW m \in Members, Astray(m)'
               PROVE  /\ manifest'[dirty'[m]].status \notin {"quarantined", "restored"}
                      /\ dirty'[m] = op' =>
                           /\ pc' # "rFinish"
                           /\ pc' \in ReturningSteps =>
                                at' < m \/ (at' = m /\ pc' # "rRecord")
    BY DEF HomeInv
  <1>1. CASE Back /\ pc = "rollback" /\ pc' = "fail" /\ dirty'[m] = op
    <2>1. manifest'[op].status = "quarantining"
      BY <1>1 DEF Back, StageInv, MovingSteps
    <2> QED
      BY <1>1, <2>1 DEF ReturningSteps
  <1>2. CASE Astray(m) /\ dirty'[m] = dirty[m]
    <2> DEFINE d == dirty[m]
    <2>1. d \in Ops /\ m # keeper[d]
      BY <1>2 DEF Astray, Inv1, TypeOK, Inv2, DirtyInv
    <2>2. manifest[d].status \notin {"quarantined", "restored"}
      BY <1>2 DEF HomeInv
    <2>3. d = op => pc # "finish" /\ pc # "rFinish"
      BY <1>2, <2>1 DEF HomeInv, MovedInv, Astray
    <2>4. manifest'[d].status \notin {"quarantined", "restored"}
      BY <2>1, <2>2, <2>3, StatusStep
    <2> QED
      BY <1>2, <2>1, <2>4, ShortOf
  <1> QED
    BY <1>1, <1>2, AstrayStep

\* A member that is where its manifest says stays there: no step takes a synced,
\* untouched member out of files/ before a restore has been announced.
LEMMA HeldStep ==
  Inv1 /\ Inv2 /\ MemberInv /\ DiskInv /\ QuarantinedIsHeld /\ [Next]_vars
    => QuarantinedIsHeld'
  <1> SUFFICES ASSUME Inv1, Inv2, MemberInv, DiskInv, QuarantinedIsHeld, [Next]_vars,
                      NEW o \in Ops, NEW m \in Members,
                      manifest'[o] # None, manifest'[o].status = "quarantined",
                      m # keeper'[o], m \notin touched'
               PROVE  slot'[o][m] = m /\ dirty'[m] = None
    BY DEF QuarantinedIsHeld
  <1> USE DEF DiskInv
  <1>1. keeper'[o] = keeper[o] /\ m # keeper[o]
    <2>1. CASE manifest[o] # None
      BY <2>1, Remembered DEF Inv1, PlanInv
    <2>2. CASE manifest[o] = None
      <3>1. op = o /\ pc # "idle"
        BY <2>2, StatusStep DEF Publishes, Prepare, Abandon, Record, Finish,
           MarkRestoring, RecordRestored, EndRestore
      <3> QED
        BY <3>1, Remembered DEF Inv1, WorkerInv
    <2> QED
      BY <2>1, <2>2
  <1>2. touched \subseteq touched'
    BY UserFacts, LossFacts, NameStep DEF Names6, Out, Back
  <1>3. CASE o = op /\ pc = "finish" /\ Publishes
    <2>1. slot[o][m] = m /\ dirty[m] = None
      BY <1>1, <1>3 DEF MovedInv
    <2>2. UNCHANGED <<slot, dirty>>
      BY <1>3 DEF Publishes, Prepare, Abandon, Record, Finish, MarkRestoring,
         RecordRestored, EndRestore
    <2> QED
      BY <2>1, <2>2
  <1>4. CASE manifest[o] # None /\ manifest[o].status = "quarantined"
    <2>1. slot[o][m] = m /\ dirty[m] = None /\ home[m] = None
      BY <1>1, <1>2, <1>4 DEF QuarantinedIsHeld, MemberInv, InOnePlace
    <2>2. \A p \in Ops : p # o => slot[p][m] = None
      BY <1>2, <2>1 DEF MemberInv, InOnePlace
    <2>3. pc \in MovingSteps \cup ReturningSteps => op # o
      BY <1>4 DEF StageInv
    <2>4. CASE Out
      <3>1. m # at
        BY <2>1, <2>4 DEF Out, Present
      <3> QED
        BY <2>1, <2>4, <3>1, OutFacts, DirtyStep
    <2>5. CASE Back
      <3>1. m # at
        BY <2>2, <2>3, <2>5, BackFacts DEF Back, Present, MovingSteps,
           ReturningSteps
      <3> QED
        BY <2>1, <2>5, <3>1, BackFacts, DirtyStep
    <2>6. CASE ~Out /\ ~Back
      <3>1. dirty'[m] = None
        BY <2>1, <2>6, DirtyStep
      <3>2. slot'[o][m] = m
        BY <2>1, <2>6, LossFacts, UserFacts, Names, NameStep DEF Names6, Kept
      <3> QED
        BY <3>1, <3>2
    <2> QED
      BY <2>4, <2>5, <2>6
  <1> QED
    BY <1>3, <1>4, StatusStep

\* A stranger enters files/ only while the manifest announces a move, and the
\* move that brought it in is never reported as done.
LEMMA StrangerStep ==
  Inv1 /\ Inv2 /\ DiskInv /\ StrangerIsFlagged /\ [Next]_vars => StrangerIsFlagged'
  <1> SUFFICES ASSUME Inv1, Inv2, DiskInv, StrangerIsFlagged, [Next]_vars,
                      NEW o \in Ops, NEW m \in Members, slot'[o][m] \in Foreign
               PROVE  manifest'[o].status \notin {"quarantined", "restored"}
    BY DEF StrangerIsFlagged
  <1> USE DEF DiskInv
  <1>1. slot'[o][m] # None /\ slot'[o][m] # m
    BY Names, NamesAssumption DEF Objects
  <1>2. manifest[o] # None /\ m # keeper[o]
    BY <1>1, HeldBefore DEF Present
  <1>3. CASE Out /\ o = op /\ m = at
    <2>1. manifest[o].status \notin {"quarantined", "restored"}
      BY <1>3 DEF Out, StageInv, MovingSteps, ReturningSteps
    <2> QED
      BY <1>3, <2>1 DEF Out
  <1>4. CASE slot[o][m] = slot'[o][m]
    <2>1. manifest[o].status \notin {"quarantined", "restored"}
      BY <1>4 DEF StrangerIsFlagged
    <2>2. o = op => pc # "finish" /\ pc # "rFinish"
      BY <1>1, <1>2, <1>4 DEF MovedInv, ReturnedInv
    <2> QED
      BY <2>1, <2>2, StatusStep
  <1>5. CASE slot[o][m] # slot'[o][m] /\ ~(Out /\ o = op /\ m = at)
    <2>1. CASE UNCHANGED Names6
      BY <1>5, <2>1 DEF Names6
    <2>2. CASE Out
      BY <1>5, <2>2, OutFacts
    <2>3. CASE Back
      BY <1>1, <1>5, <2>3, BackFacts
    <2>4. CASE PowerLoss
      <3>1. PICK d \in Ops : dirty[m] = d /\ (PutBack(m, d) \/ PutHome(m, d))
        BY <1>5, <2>4, LossFacts DEF Kept
      <3>2. d = o /\ home[m] = slot'[o][m]
        BY <1>1, <1>5, <3>1 DEF PutBack, PutHome
      <3>3. Astray(m) /\ dirty[m] = o
        BY <1>1, <3>1, <3>2, Names DEF Astray
      <3> QED
        BY <2>4, <3>3, LossFacts DEF HomeInv
    <2>5. CASE ByUser
      BY <1>5, <2>5, UserFacts
    <2> QED
      BY <2>1, <2>2, <2>3, <2>4, <2>5, NameStep
  <1> QED
    BY <1>3, <1>4, <1>5

\* The four parts together.
LEMMA DiskStep == Inv1 /\ Inv2 /\ DiskInv /\ [Next]_vars => DiskInv'
  BY StageStep, MovedStep, ReturnedStep, HomeStep DEF DiskInv, Inv2

\* The disk's invariant with the two properties it is for.
QInv == MemberInv /\ DiskInv /\ QuarantinedIsHeld /\ StrangerIsFlagged

\* The invariant of the disk holds in every reachable state.
LEMMA QInvHolds == Spec => []QInv
  <1>1. Init => QInv
    BY Names DEF Init, QInv, MemberInv, InOnePlace, DiskInv, StageInv, MovedInv,
       ReturnedInv, HomeInv, Astray, QuarantinedIsHeld, StrangerIsFlagged, MovingSteps,
       ReturningSteps, Objects
  <1>2. Inv1 /\ Inv2 /\ QInv /\ [Next]_vars => QInv'
    BY MemberStep, DiskStep, HeldStep, StrangerStep DEF QInv
  <1> QED
    BY <1>1, <1>2, Inv12, PTL DEF Spec

\* A manifest that says "quarantined" is true of the disk, and everything in a
\* files/ directory is listed, after any crash, power loss or failed write
\* (execute_plan records a member only after settle and confirm; the synced
\* rename cannot be undone and only a restore, which first announces itself,
\* takes the member out again).
THEOREM DiskMatchesManifests == Spec => []ManifestsTrue
  <1>1. Inv2 /\ QInv => ManifestsTrue
    BY DEF Inv2, QInv, ManifestsTrue
  <1> QED
    BY <1>1, Inv12, QInvHolds, PTL

\* Whatever races with the two renames, an operation that holds an object which
\* is not its member says neither "quarantined" nor "restored" (move_one_member
\* and restore_one_file verify what they moved before they record it).
THEOREM StrangersAreFlagged == Spec => []StrangerIsFlagged
  <1>1. QInv => StrangerIsFlagged
    BY DEF QInv
  <1> QED
    BY <1>1, QInvHolds, PTL

-----------------------------------------------------------------------------
(* The quarantine area keeps the contract of CopyContract. *)

\* What the contract sees of a member: home where no operation holds it, else
\* resting on the keeper of one that does.
Seen(m) ==
  \/ (\A o \in Ops : slot[o][m] # m) /\ Place[m] = "home" /\ Pin[m] = m
  \/ \E o \in Ops : slot[o][m] = m /\ Place[m] = "held" /\ Pin[m] = keeper[o]

\* Place and Pin are what Seen says, whichever holder CHOOSE takes.
LEMMA PlaceSeen == \A m \in Members : Seen(m)
  <1> SUFFICES ASSUME NEW m \in Members PROVE Seen(m)
    OBVIOUS
  <1>1. /\ Place[m] = IF Holder(m) = {} THEN "home" ELSE "held"
        /\ Pin[m] = IF Holder(m) = {} THEN m
                                      ELSE keeper[CHOOSE o \in Holder(m) : TRUE]
    BY DEF Place, Pin
  <1>2. CASE Holder(m) = {}
    BY <1>1, <1>2 DEF Seen, Holder
  <1>3. CASE Holder(m) # {}
    <2>1. PICK p : p = CHOOSE o \in Holder(m) : TRUE
      OBVIOUS
    <2>2. p \in Holder(m)
      BY <1>3, <2>1
    <2>3. Place[m] = "held" /\ Pin[m] = keeper[p]
      BY <1>1, <1>3, <2>1
    <2> QED
      BY <2>2, <2>3 DEF Seen, Holder
  <1> QED
    BY <1>2, <1>3

\* The same of the state after a step.
LEMMA PlaceSeenNext == \A m \in Members : Seen(m)'
  <1>1. (\A m \in Members : Seen(m))'
    BY PlaceSeen, PTL
  <1> QED
    BY <1>1

\* A holder is listed, so its operation has a keeper: the pin is a member.
LEMMA ContractTypes == Inv1 /\ Inv2 => Contract!TypeOK
  <1> SUFFICES ASSUME Inv1, Inv2 PROVE Contract!TypeOK
    OBVIOUS
  <1>1. \A m \in Members : Place[m] \in {"home", "held"}
    BY PlaceSeen DEF Seen
  <1>2. \A m \in Members : Pin[m] \in Members
    BY PlaceSeen, Names DEF Seen, Inv1, PlanInv, Inv2, HeldIsListed, Present
  <1>3. /\ Place = [m \in Members |-> Place[m]]
        /\ Pin = [m \in Members |-> Pin[m]]
    BY DEF Place, Pin
  <1>4. touched \cup unwound \subseteq Members
    BY DEF Inv1, TypeOK
  <1> QED
    BY <1>1, <1>2, <1>3, <1>4 DEF Contract!TypeOK

\* An untouched member is held by at most one operation, and rests on its keeper.
LEMMA RestsOn ==
  MemberInv => \A m \in Members \ touched : \A o \in Ops :
                 slot[o][m] = m => Place[m] = "held" /\ Pin[m] = keeper[o]
  <1> SUFFICES ASSUME MemberInv, NEW m \in Members \ touched, NEW o \in Ops,
                      slot[o][m] = m
               PROVE  Place[m] = "held" /\ Pin[m] = keeper[o]
    OBVIOUS
  <1>1. \A p \in Ops : slot[p][m] = m => p = o
    BY Names DEF MemberInv, InOnePlace
  <1> QED
    BY <1>1, PlaceSeen DEF Seen

\* What the refinement mapping relies on.
RInv == Inv1 /\ Inv2 /\ KInv

\* The invariant the refinement needs is inductive.
LEMMA RInvStep == RInv /\ [Next]_vars => RInv'
  BY Inv1Step, Inv2Step, MemberStep, ValidStep, UndoStep, KeeperStep DEF RInv, KInv

\* What holds of the contract's variables after a step.
LEMMA ContractAfter ==
  ASSUME RInv, [Next]_vars
  PROVE  /\ Contract!TypeOK /\ Contract!TypeOK'
         /\ \A m \in Members : Seen(m) /\ Seen(m)'
         /\ \A m \in Members \ touched' : \A o \in Ops :
              slot'[o][m] = m => Place'[m] = "held" /\ Pin'[m] = keeper'[o]
         /\ touched \subseteq touched' /\ unwound \subseteq unwound'
         /\ \A o \in Ops : \A m \in Members :
              slot'[o][m] = m => keeper'[o] = keeper[o]
  <1>1. RInv'
    BY RInvStep
  <1>2. Contract!TypeOK /\ Contract!TypeOK'
    BY <1>1, ContractTypes, PTL DEF RInv
  <1>3. \A m \in Members \ touched' : \A o \in Ops :
              slot'[o][m] = m => Place'[m] = "held" /\ Pin'[m] = keeper'[o]
    <2>1. MemberInv' =>
            (\A m \in Members \ touched : \A o \in Ops :
               slot[o][m] = m => Place[m] = "held" /\ Pin[m] = keeper[o])'
      BY RestsOn, PTL
    <2> QED
      BY <1>1, <2>1 DEF RInv, KInv
  <1>4. touched \subseteq touched' /\ unwound \subseteq unwound'
    BY UserFacts, LossFacts, NameStep DEF Names6, Out, Back, RInv
  <1>5. \A o \in Ops : \A m \in Members : slot'[o][m] = m => keeper'[o] = keeper[o]
    BY HeldBefore, Names DEF Present, RInv
  <1> QED
    BY <1>2, <1>3, <1>4, <1>5, PlaceSeen, PlaceSeenNext

\* A step that takes nothing out of an undisturbed path releases the copies that
\* it brings home.
LEMMA ReleaseStep ==
  ASSUME RInv, [Next]_vars,
         \A o \in Ops : \A m \in Members \ (touched \cup unwound)' :
           slot'[o][m] = m => slot[o][m] = m
  PROVE  Contract!Next
  <1> DEFINE S == {m \in Members \ (touched \cup unwound)' :
                     Place[m] = "held" /\ Place'[m] = "home"}
             D == (touched \cup unwound)'
  <1>1. \A m \in Members \ (touched \cup unwound)' :
          m \notin S => Place'[m] = Place[m] /\ Pin'[m] = Pin[m]
    <2> SUFFICES ASSUME NEW m \in Members \ (touched \cup unwound)', m \notin S
                 PROVE  Place'[m] = Place[m] /\ Pin'[m] = Pin[m]
      OBVIOUS
    <2>1. CASE \E o \in Ops : slot'[o][m] = m
      <3>1. PICK o \in Ops : slot'[o][m] = m
        BY <2>1
      <3>2. slot[o][m] = m /\ keeper'[o] = keeper[o]
        BY <3>1, ContractAfter
      <3>3. Place'[m] = "held" /\ Pin'[m] = keeper'[o]
        BY <3>1, ContractAfter
      <3>4. Place[m] = "held" /\ Pin[m] = keeper[o]
        BY <3>2, ContractAfter, RestsOn DEF RInv, KInv
      <3> QED
        BY <3>2, <3>3, <3>4
    <2>2. CASE \A o \in Ops : slot'[o][m] # m
      <3>1. Place'[m] = "home" /\ Pin'[m] = m
        BY <2>2, ContractAfter DEF Seen
      <3>2. Place[m] # "held"
        BY <3>1
      <3> QED
        BY <3>1, <3>2, ContractAfter DEF Seen
    <2> QED
      BY <2>1, <2>2
  <1>2. S \in SUBSET Members /\ D \in SUBSET Members
    BY ContractAfter DEF Contract!TypeOK
  <1>3. (touched \cup unwound)' = (touched \cup unwound) \cup D
    BY ContractAfter
  <1>4. Contract!Release(S, D)
    BY <1>1, <1>2, <1>3, ContractAfter DEF Contract!Release, Contract!Frame
  <1> QED
    BY <1>2, <1>4 DEF Contract!Next

\* A rename out of an undisturbed path sets the member aside on its keeper.
LEMMA HoldStep ==
  ASSUME RInv, [Next]_vars, Out, at \notin touched \cup unwound
  PROVE  Contract!Next
  <1> DEFINE k == keeper[op]
  <1>1. /\ op \in Ops /\ at \in Members /\ at # k /\ k \in Members
        /\ keeper' = keeper /\ touched' = touched /\ unwound' = unwound
        /\ \A m \in Members : m # at => home'[m] = home[m]
        /\ \A o \in Ops : \A m \in Members :
             (o # op \/ m # at) => slot'[o][m] = slot[o][m]
    BY OutFacts DEF Out, RInv, Inv1, PlanInv
  <1>2. home[at] = at /\ slot'[op][at] = at
    BY <1>1, OutFacts DEF Out, Present, RInv, KInv, MemberInv, InOnePlace
  <1>3. \A m \in Members \ touched : home[m] = m => Place[m] = "home"
    BY ContractAfter, Names DEF Seen, RInv, KInv, MemberInv, InOnePlace
  <1>4. /\ k \notin touched \cup unwound => home[k] = k
        /\ \A o \in Ops : \A h \in Members \ (touched \cup unwound) :
             slot[o][h] = h => keeper[o] # at
    <2>1. CASE pc = "rename"
      BY <1>1, <2>1 DEF RInv, KInv, ValidInv, ExecuteSteps
    <2>2. CASE pc = "rUndo"
      BY <1>1, <2>2 DEF RInv, KInv, UndoInv
    <2> QED
      BY <2>1, <2>2 DEF Out
  <1>5. Place[at] = "home" /\ Contract!Available(k)
    BY <1>1, <1>2, <1>3, <1>4 DEF Contract!Available
  <1>6. \A h \in Members \ (touched \cup unwound) : Place[h] = "held" => Pin[h] # at
    BY <1>4, ContractAfter DEF Seen
  <1>7. Place'[at] = "held" /\ Pin'[at] = k
    BY <1>1, <1>2, ContractAfter
  <1>8. ASSUME NEW m \in Members \ ({at} \cup (touched \cup unwound)')
        PROVE  Place'[m] = Place[m] /\ Pin'[m] = Pin[m]
    <2>1. \A o \in Ops : slot'[o][m] = slot[o][m]
      BY <1>1
    <2>2. CASE \E o \in Ops : slot[o][m] = m
      BY <1>1, <2>1, <2>2, ContractAfter, RestsOn DEF RInv, KInv
    <2>3. CASE \A o \in Ops : slot[o][m] # m
      BY <2>1, <2>3, ContractAfter DEF Seen
    <2> QED
      BY <2>2, <2>3
  <1>9. Contract!Hold(at, k)
    BY <1>1, <1>5, <1>6, <1>7, <1>8, ContractAfter DEF Contract!Hold, Contract!Frame
  <1> QED
    BY <1>1, <1>9 DEF Contract!Next

\* Every step is a step of the contract.
LEMMA ContractStep == RInv /\ [Next]_vars => Contract!Next
  <1> SUFFICES ASSUME RInv, [Next]_vars PROVE Contract!Next
    OBVIOUS
  <1> USE DEF RInv
  <1>1. CASE Out /\ at \notin touched \cup unwound
    BY <1>1, HoldStep
  <1>2. CASE ~(Out /\ at \notin touched \cup unwound)
    <2> SUFFICES ASSUME NEW o \in Ops, NEW m \in Members \ (touched \cup unwound)',
                        slot'[o][m] = m
                 PROVE  slot[o][m] = m
      BY ReleaseStep
    <2>1. CASE UNCHANGED Names6
      BY <2>1 DEF Names6
    <2>2. CASE Out
      BY <1>2, <2>2, OutFacts DEF Out
    <2>3. CASE Back
      BY <2>3, BackFacts, Names
    <2>4. CASE PowerLoss
      BY <2>4, LossFacts, Names DEF Kept, PutBack, PutHome
    <2>5. CASE ByUser
      BY <2>5, UserFacts
    <2> QED
      BY <2>1, <2>2, <2>3, <2>4, <2>5, NameStep
  <1> QED
    BY <1>1, <1>2

\* The invariant holds in every reachable state.
LEMMA RInvHolds == Spec => []RInv
  BY Inv12, KInvHolds, PTL DEF RInv

\* Every copy starts at home.
LEMMA ContractInit == Init => Contract!Init
  <1> SUFFICES ASSUME Init PROVE Contract!Init
    OBVIOUS
  <1>1. \A o \in Ops : \A m \in Members : slot[o][m] # m
    BY Names DEF Init
  <1>2. \A m \in Members : Place[m] = "home" /\ Pin[m] = m
    BY <1>1, PlaceSeen DEF Seen
  <1>3. /\ Place = [m \in Members |-> Place[m]]
        /\ Pin = [m \in Members |-> Pin[m]]
    BY DEF Place, Pin
  <1>4. Place = [m \in Members |-> "home"]
    BY <1>2, <1>3
  <1>5. Pin \in [Members -> Members]
    BY <1>2, <1>3
  <1>6. touched \cup unwound = {}
    BY DEF Init
  <1> QED
    BY <1>4, <1>5, <1>6 DEF Contract!Init

\* The protocol on disk implements the abstract contract, for every group, any
\* number of operations and any schedule of failures: each of its steps sets one
\* undisturbed copy aside on a keeper that stays, or only brings copies home.
THEOREM ImplementsContract == Spec => ContractKept
  <1>1. RInv /\ [Next]_vars => [Contract!Next]_Contract!vars
    BY ContractStep
  <1> QED
    BY <1>1, ContractInit, RInvHolds, PTL DEF Spec, ContractKept, Contract!Spec

\* What the contract promises is kept by each of its steps.
LEMMA AnchoredStep ==
  Contract!Anchored /\ Contract!TypeOK /\ [Contract!Next]_Contract!vars
    => Contract!Anchored'
  <1> DEFINE d == touched \cup unwound
  <1> SUFFICES ASSUME Contract!Anchored, Contract!TypeOK,
                      [Contract!Next]_Contract!vars,
                      NEW m \in Members \ d', Place'[m] = "held"
               PROVE  Pin'[m] # m /\ (Pin'[m] \in d' \/ Place'[Pin'[m]] = "home")
    BY DEF Contract!Anchored, Contract!Available
  <1>1. \A h \in Members \ d : Place[h] = "held" =>
          Pin[h] # h /\ (Pin[h] \in d \/ Place[Pin[h]] = "home")
    BY DEF Contract!Anchored, Contract!Available
  <1>2. \A h \in Members : Pin[h] \in Members
    BY DEF Contract!TypeOK
  <1>3. CASE UNCHANGED Contract!vars
    BY <1>1, <1>3 DEF Contract!vars
  <1>4. ASSUME NEW h \in Members, NEW k \in Members, Contract!Hold(h, k)
        PROVE  Pin'[m] # m /\ (Pin'[m] \in d' \/ Place'[Pin'[m]] = "home")
    <2>1. /\ h \notin d /\ d' = d /\ k # h /\ (k \in d \/ Place[k] = "home")
          /\ \A g \in Members \ d : Place[g] = "held" => Pin[g] # h
          /\ Place'[h] = "held" /\ Pin'[h] = k
          /\ \A g \in Members \ ({h} \cup d') :
               Place'[g] = Place[g] /\ Pin'[g] = Pin[g]
      BY <1>4 DEF Contract!Hold, Contract!Frame, Contract!Available
    <2> HIDE DEF d
    <2>2. CASE m = h
      BY <2>1, <2>2
    <2>3. CASE m # h
      BY <1>1, <1>2, <2>1, <2>3
    <2> QED
      BY <2>2, <2>3
  <1>5. ASSUME NEW S \in SUBSET Members, NEW D \in SUBSET Members,
               Contract!Release(S, D)
        PROVE  Pin'[m] # m /\ (Pin'[m] \in d' \/ Place'[Pin'[m]] = "home")
    <2>1. /\ d' = d \cup D
          /\ \A g \in S \ d' : Place'[g] = "home"
          /\ \A g \in Members \ (S \cup d') :
               Place'[g] = Place[g] /\ Pin'[g] = Pin[g]
      BY <1>5 DEF Contract!Release, Contract!Frame
    <2> HIDE DEF d
    <2>2. m \notin S
      BY <2>1
    <2> QED
      BY <1>1, <1>2, <2>1, <2>2
  <1> QED
    BY <1>3, <1>4, <1>5 DEF Contract!Next

\* What the contract gives a user of the quarantine area: an undisturbed held
\* copy rests on another one that is home or was disturbed, and an undisturbed
\* group always has a copy at home.
THEOREM AlwaysAnchored == Spec => [](Contract!Anchored /\ Contract!CopyAtHome)
  <1>1. Contract!Init => Contract!Anchored
    BY DEF Contract!Init, Contract!Anchored
  <1>2. RInv /\ [Next]_vars => [Contract!Next]_Contract!vars
    BY ContractStep
  <1>3. RInv => Contract!TypeOK
    BY ContractTypes DEF RInv
  <1>4. Spec => []Contract!Anchored
    BY <1>1, <1>2, <1>3, ContractInit, RInvHolds, AnchoredStep, PTL DEF Spec
  <1>5. Contract!TypeOK /\ Contract!Anchored => Contract!CopyAtHome
    BY Sizes DEF Contract!TypeOK, Contract!Anchored, Contract!CopyAtHome,
       Contract!Available
  <1> QED
    BY <1>3, <1>4, <1>5, RInvHolds, PTL
=============================================================================
