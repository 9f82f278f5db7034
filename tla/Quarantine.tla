----------------------------- MODULE Quarantine -----------------------------
(***************************************************************************)
(* quarantine_service.rs: moving the redundant members of one sealed exact *)
(* duplicate group into a private directory of the same root, and putting  *)
(* them back.  One worker runs at a time (the filesystem-mutation permit   *)
(* of scan_service.rs); the user's other programs share the filesystem and *)
(* interleave with every step; the process or the machine may stop at any  *)
(* point.  Several operations over the same group, with different keepers, *)
(* follow one another.                                                     *)
(*                                                                         *)
(* A member is its ordinal.  The same number names the path the member was *)
(* sealed at and the file object it was sealed as, so "member m is intact" *)
(* reads home[m] = m.  Identity, size, times and digest of the evidence are*)
(* one fact here: the object is m and m has not been edited.               *)
(***************************************************************************)
EXTENDS Naturals, FiniteSets

CONSTANTS N,          \* number of members of the group
          Ops,        \* operation identifiers (each used once)
          Foreign,    \* file objects that are not members of the group
          None,       \* no object, no operation, no manifest
          MaxFaults,  \* bound: failing system calls, crashes, power losses
          MaxUser     \* bound: steps of the user's other programs

Members == 0 .. N - 1
Objects == Members \cup Foreign

\* manifest.json
Status == {"quarantining", "quarantined", "needs_recovery",
           "restoring", "restored", "partially_restored"}
FileState == {"planned", "quarantined", "restored"}
Manifest == [status : Status, files : [Members -> FileState]]

ASSUME GroupAssumption == N \in Nat \ {0, 1}
ASSUME NamesAssumption == /\ None \notin Objects \cup Ops \cup Manifest
                          /\ Members \cap Foreign = {}
ASSUME BoundsAssumption == MaxFaults \in Nat /\ MaxUser \in Nat

VARIABLES
  \* the filesystem
  home,       \* what the original path of each member names
  slot,       \* what member-NNNNNN.bin of each operation's files/ names
  outside,    \* objects somewhere else on the volume (or deleted)
  edited,     \* members whose bytes (and times) no longer match the evidence
  detached,   \* members whose parent directory left its path
  rootAway,   \* the root directory left its path
  dirty,      \* the operation whose rename of a member is not yet synced
  manifest,   \* manifest.json of each operation
  \* the process
  keeper,     \* keeper of each operation's plan
  fresh,      \* plans issued and not taken
  pc, op, at, \* the worker: its next step, operation and member
  \* ghosts and bounds
  touched,    \* members the user's other programs interfered with
  unwound,    \* members whose unsynced move home a power loss undid
  faults, user

disk   == <<home, slot, outside, edited, detached, rootAway, dirty, manifest>>
plans  == <<keeper, fresh>>
worker == <<pc, op, at>>
ghosts == <<touched, unwound>>
vars   == <<disk, plans, worker, ghosts, faults, user>>

ExecuteSteps == {"validate", "prepare", "compare", "barrier", "rename",
                 "settle", "confirm", "rollback", "fail", "failHeld",
                 "record", "finish"}
RestoreSteps == {"rBegin", "rLook", "rRename", "rConfirm", "rUndo",
                 "rRecord", "rStop", "rFinish"}

-----------------------------------------------------------------------------
(* What the code can observe. *)

Present(x) == x # None

\* The no-follow descriptor walk from the bound root reaches the parent of m.
Contained(m) == ~rootAway /\ m \notin detached

\* Path, object identity, size, times and bytes all match the evidence.
Sound(m) == Contained(m) /\ home[m] = m /\ m \notin edited

\* The object moved out of m's path is the sealed one, unchanged.
HeldSound(o, m) == slot[o][m] = m /\ m \notin edited

\* Redundant members are visited in ordinal order; the keeper is skipped.
SkipKeeper(m) == IF m = keeper[op] THEN m + 1 ELSE m
FirstMember == SkipKeeper(0)
NextMember == SkipKeeper(at + 1)

\* A check may fail because its condition is false or because a system call
\* failed; it passes only if the condition holds.
Fault == faults < MaxFaults /\ faults' = faults + 1
Passes(cond) == cond /\ UNCHANGED faults
Fails(cond) == (~cond /\ UNCHANGED faults) \/ Fault

Goto(step) == pc' = step /\ UNCHANGED <<op, at>>
Halt == pc' = "idle" /\ op' = None /\ at' = 0

\* write_manifest: temporary file, sync, rename over manifest.json, sync of
\* the directory.  A crash leaves the old or the new document, an error too.
PublishOk(doc) == manifest' = [manifest EXCEPT ![op] = doc] /\ UNCHANGED faults
PublishFails(doc) == /\ Fault
                     /\ manifest' \in {manifest, [manifest EXCEPT ![op] = doc]}

MoveOut(o, m) == /\ slot' = [slot EXCEPT ![o][m] = home[m]]
                 /\ home' = [home EXCEPT ![m] = None]
MoveBack(o, m) == /\ home' = [home EXCEPT ![m] = slot[o][m]]
                  /\ slot' = [slot EXCEPT ![o][m] = None]

-----------------------------------------------------------------------------
(* execute_plan *)

\* select_quarantine_plan_root: the whole group is validated, a token issued.
SelectPlan(o, k) ==
  /\ keeper[o] = None
  /\ \A m \in Members : Sound(m)
  /\ keeper' = [keeper EXCEPT ![o] = k]
  /\ fresh' = fresh \cup {o}
  /\ UNCHANGED <<disk, worker, ghosts, faults, user>>

\* execute_quarantine_plan: the permit, then the one-shot token.
BeginExecute(o) ==
  /\ pc = "idle" /\ o \in fresh
  /\ fresh' = fresh \ {o}
  /\ pc' = "validate" /\ op' = o /\ at' = 0
  /\ UNCHANGED <<disk, keeper, ghosts, faults, user>>

\* validate_group_before_mutation, one member at a time.
ValidatedKeeperOnly == at = keeper[op] => Sound(at)
ValidatedFirstPair == at \in {keeper[op], FirstMember} => Sound(at)
Validated == Sound(at)

Validate ==
  /\ pc = "validate"
  /\ \/ /\ at < N /\ Passes(Validated)
        /\ at' = at + 1 /\ UNCHANGED <<pc, op>>
     \/ at < N /\ Fails(Validated) /\ Halt
     \/ at = N /\ Passes(~rootAway) /\ Goto("prepare")
     \/ at = N /\ Fails(~rootAway) /\ Halt
  /\ UNCHANGED <<disk, plans, ghosts, user>>

\* Exclusive operation directory, then the write-ahead manifest.  (The keeper
\* has no entry in it; the model leaves its entry "planned".)
Planned == [status |-> "quarantining", files |-> [m \in Members |-> "planned"]]
StartMoving == pc' = "compare" /\ at' = FirstMember /\ UNCHANGED op

Prepare ==
  /\ pc = "prepare"
  /\ \/ ~rootAway /\ PublishOk(Planned) /\ StartMoving
     \/ PublishFails(Planned) /\ Halt
     \/ rootAway /\ UNCHANGED <<faults, manifest>> /\ Halt
  /\ UNCHANGED <<home, slot, outside, edited, detached, rootAway, dirty,
                 plans, ghosts, user>>

\* Open the keeper and the source, check both identities, compare the bytes.
Compare ==
  LET both == Sound(keeper[op]) /\ Sound(at)
  IN /\ pc = "compare"
     /\ \/ Passes(both) /\ Goto("barrier")
        \/ Fails(both) /\ Goto("fail")
     /\ UNCHANGED <<disk, plans, ghosts, user>>

\* The last identity barriers before the rename, and the free target name.
Barrier ==
  LET bound == /\ Sound(keeper[op]) /\ Contained(at)
               /\ home[at] = at /\ at \notin edited
               /\ slot[op][at] = None
  IN /\ pc = "barrier"
     /\ \/ Passes(bound) /\ Goto("rename")
        \/ Fails(bound) /\ Goto("fail")
     /\ UNCHANGED <<disk, plans, ghosts, user>>

\* rename_noreplace through the parent descriptor: it moves whatever the name
\* names by now, even when the parent has left the root.
Rename ==
  LET possible == Present(home[at]) /\ slot[op][at] = None
  IN /\ pc = "rename"
     /\ \/ /\ Passes(possible) /\ MoveOut(op, at)
           /\ dirty' = [dirty EXCEPT ![at] = op]
           /\ Goto("settle")
        \/ /\ Fails(possible) /\ Goto("fail")
           /\ UNCHANGED <<home, slot, dirty>>
     /\ UNCHANGED <<outside, edited, detached, rootAway, manifest, plans,
                    ghosts, user>>

\* sync_directory of the two parents.
Unsynced == dirty
Synced == [dirty EXCEPT ![at] = None]

\* The two moves back sync both directories as well, but go on whether or not
\* that worked.
SyncIgnored == \/ UNCHANGED faults /\ dirty' = Synced
               \/ Fault /\ dirty' = [dirty EXCEPT ![at] = op]

\* The first post-commit barriers, then the sync of both directories.
Settle ==
  LET bound == Sound(keeper[op]) /\ Contained(at) /\ home[at] = None
  IN /\ pc = "settle"
     /\ \/ /\ Passes(bound) /\ Goto("confirm")
           /\ dirty' = Synced
        \/ Fails(bound) /\ Goto("rollback") /\ UNCHANGED dirty
     /\ UNCHANGED <<home, slot, outside, edited, detached, rootAway, manifest,
                    plans, ghosts, user>>

\* Reopen the moved file, check its identity and digest, bind once more.
VerifiedByName == Present(slot[op][at]) /\ Sound(keeper[op]) /\ Contained(at)
Verified == HeldSound(op, at) /\ Sound(keeper[op]) /\ Contained(at)

Confirm ==
  /\ pc = "confirm"
  /\ \/ Passes(Verified) /\ Goto("record")
     \/ Fails(Verified) /\ Goto("rollback")
  /\ UNCHANGED <<disk, plans, ghosts, user>>

\* rollback_failed_post_move_verification: move back only into a parent that
\* is still contained, never over a name; else report where the file is.
Rollback ==
  LET possible == Contained(at) /\ home[at] = None /\ Present(slot[op][at])
      heldHere == ~rootAway /\ HeldSound(op, at)
  IN /\ pc = "rollback"
     /\ \/ possible /\ MoveBack(op, at) /\ SyncIgnored /\ Goto("fail")
        \/ /\ Fails(possible)
           /\ Goto(IF heldHere THEN "failHeld" ELSE "fail")
           /\ UNCHANGED <<home, slot, dirty>>
     /\ UNCHANGED <<outside, edited, detached, rootAway, manifest, plans,
                    ghosts, user>>

\* A failed member ends the operation; the manifest write is best effort.
Abandon ==
  LET doc == [manifest[op] EXCEPT
                !.status = "needs_recovery",
                !.files[at] = IF pc = "failHeld" THEN "quarantined" ELSE @]
  IN /\ pc \in {"fail", "failHeld"}
     /\ (PublishOk(doc) \/ PublishFails(doc)) /\ Halt
     /\ UNCHANGED <<home, slot, outside, edited, detached, rootAway, dirty,
                    plans, ghosts, user>>

\* A verified member is recorded before the next one is looked at.
Record ==
  LET doc == [manifest[op] EXCEPT !.files[at] = "quarantined"]
  IN /\ pc = "record"
     /\ \/ /\ PublishOk(doc) /\ at' = NextMember /\ UNCHANGED op
           /\ pc' = IF NextMember < N THEN "compare" ELSE "finish"
        \/ PublishFails(doc) /\ Halt
     /\ UNCHANGED <<home, slot, outside, edited, detached, rootAway, dirty,
                    plans, ghosts, user>>

Finish ==
  LET doc == [manifest[op] EXCEPT !.status = "quarantined"]
  IN /\ pc = "finish"
     /\ (PublishOk(doc) \/ PublishFails(doc)) /\ Halt
     /\ UNCHANGED <<home, slot, outside, edited, detached, rootAway, dirty,
                    plans, ghosts, user>>

-----------------------------------------------------------------------------
(* restore_operation *)

\* restore_quarantine_operation: the permit; the bound root; a readable
\* manifest, without which nothing is touched.
BeginRestore(o) ==
  /\ pc = "idle" /\ ~rootAway /\ manifest[o] # None
  /\ pc' = "rBegin" /\ op' = o /\ at' = 0
  /\ UNCHANGED <<disk, plans, ghosts, faults, user>>

MarkRestoring ==
  LET doc == [manifest[op] EXCEPT !.status = "restoring"]
  IN /\ pc = "rBegin"
     /\ \/ PublishOk(doc) /\ pc' = "rLook" /\ at' = FirstMember /\ UNCHANGED op
        \/ PublishFails(doc) /\ Halt
     /\ UNCHANGED <<home, slot, outside, edited, detached, rootAway, dirty,
                    plans, ghosts, user>>

\* restore_one_file decides on what is on disk, never on the recorded state.
AlreadyHomeNever == FALSE
AlreadyHome == slot[op][at] = None /\ Sound(at)
StillHeld == HeldSound(op, at) /\ home[at] = None /\ Contained(at)

LookForFile ==
  /\ pc = "rLook"
  /\ \/ Passes(AlreadyHome) /\ Goto("rRecord")
     \/ Passes(StillHeld) /\ Goto("rRename")
     \/ Fails(AlreadyHome \/ StillHeld) /\ Goto("rStop")
  /\ UNCHANGED <<disk, plans, ghosts, user>>

\* rename_noreplace: an existing destination is an error.
CanRenameReplacing == Present(slot[op][at])
CanRenameHome == Present(slot[op][at]) /\ home[at] = None

RenameHome ==
  /\ pc = "rRename"
  /\ \/ /\ Passes(CanRenameHome) /\ MoveBack(op, at)
        /\ dirty' = [dirty EXCEPT ![at] = op]
        /\ Goto("rConfirm")
     \/ /\ Fails(CanRenameHome) /\ Goto("rStop")
        /\ UNCHANGED <<home, slot, dirty>>
  /\ UNCHANGED <<outside, edited, detached, rootAway, manifest, plans,
                 ghosts, user>>

\* Bindings, sync of both directories, then identity and digest at home and the
\* bindings once more.
ConfirmHome ==
  LET bound == Contained(at) /\ slot[op][at] = None
  IN /\ pc = "rConfirm"
     /\ \/ Passes(bound /\ Sound(at)) /\ dirty' = Synced /\ Goto("rRecord")
        \/ bound /\ Fails(Sound(at)) /\ dirty' = Synced /\ Goto("rUndo")
        \/ Fails(bound) /\ UNCHANGED dirty /\ Goto("rUndo")
     /\ UNCHANGED <<home, slot, outside, edited, detached, rootAway, manifest,
                    plans, ghosts, user>>

\* rollback_failed_post_restore_verification moves whatever is at the
\* destination name back, without a containment or identity check.
UndoRestore ==
  LET possible == Present(home[at]) /\ slot[op][at] = None
  IN /\ pc = "rUndo"
     /\ \/ possible /\ MoveOut(op, at) /\ SyncIgnored
        \/ Fails(possible) /\ UNCHANGED <<home, slot, dirty>>
     /\ Goto("rStop")
     /\ UNCHANGED <<outside, edited, detached, rootAway, manifest, plans,
                    ghosts, user>>

RecordRestored ==
  LET doc == [manifest[op] EXCEPT !.files[at] = "restored"]
  IN /\ pc = "rRecord"
     /\ \/ /\ PublishOk(doc) /\ at' = NextMember /\ UNCHANGED op
           /\ pc' = IF NextMember < N THEN "rLook" ELSE "rFinish"
        \/ PublishFails(doc) /\ Halt
     /\ UNCHANGED <<home, slot, outside, edited, detached, rootAway, dirty,
                    plans, ghosts, user>>

\* The first file that cannot be restored ends the run.
EndRestore ==
  LET doc == [manifest[op] EXCEPT
                !.status = IF pc = "rStop" THEN "partially_restored"
                                           ELSE "restored"]
  IN /\ pc \in {"rStop", "rFinish"}
     /\ (PublishOk(doc) \/ PublishFails(doc)) /\ Halt
     /\ UNCHANGED <<home, slot, outside, edited, detached, rootAway, dirty,
                    plans, ghosts, user>>

-----------------------------------------------------------------------------
(* The machine stops. *)

\* The process ends (crash, panic, forced quit): what the kernel holds stays,
\* issued plans are gone.
ProcessCrash ==
  /\ Fault
  /\ Halt /\ fresh' = {}
  /\ UNCHANGED <<disk, keeper, ghosts, user>>

\* Undoing an unsynced rename exchanges the two names, one of which is free.
Undoable(m) == /\ dirty[m] # None
               /\ Present(home[m]) # Present(slot[dirty[m]][m])

PowerLoss ==
  \E lost \in SUBSET {m \in Members : Undoable(m)} :
    /\ Fault /\ Halt /\ fresh' = {}
    /\ home' = [m \in Members |->
                  IF m \in lost THEN slot[dirty[m]][m] ELSE home[m]]
    /\ slot' = [o \in Ops |-> [m \in Members |->
                  IF m \in lost /\ dirty[m] = o THEN home[m] ELSE slot[o][m]]]
    /\ dirty' = [m \in Members |-> None]
    /\ unwound' = unwound \cup {m \in lost : Present(home[m])}
    /\ UNCHANGED <<outside, edited, detached, rootAway, manifest, keeper,
                   touched, user>>

-----------------------------------------------------------------------------
(* The user's other programs. *)

UserStep == /\ user < MaxUser /\ user' = user + 1
            /\ UNCHANGED <<plans, worker, unwound, faults>>

\* A later change of a name makes the earlier rename durable too.
UserTake(m) ==
  /\ UserStep /\ Present(home[m])
  /\ home' = [home EXCEPT ![m] = None]
  /\ outside' = outside \cup {home[m]}
  /\ touched' = touched \cup ({m, home[m]} \cap Members)
  /\ dirty' = [dirty EXCEPT ![m] = None]
  /\ UNCHANGED <<slot, edited, detached, rootAway, manifest>>

\* Another program puts x at m's path; what stood there is out of the way, as
\* after an atomic save.
UserPut(m, x) ==
  /\ UserStep /\ x \in outside
  /\ home' = [home EXCEPT ![m] = x]
  /\ outside' = (outside \ {x}) \cup ({home[m]} \ {None})
  /\ touched' = touched \cup ({m, x, home[m]} \cap Members)
  /\ dirty' = [dirty EXCEPT ![m] = None]
  /\ UNCHANGED <<slot, edited, detached, rootAway, manifest>>

UserEdit(m) ==
  /\ UserStep /\ edited' = edited \cup {m} /\ touched' = touched \cup {m}
  /\ UNCHANGED <<home, slot, outside, detached, rootAway, dirty, manifest>>

\* The parent directory of m is renamed away, or put back.
UserMoveParent(m) ==
  /\ UserStep /\ touched' = touched \cup {m}
  /\ detached' = IF m \in detached THEN detached \ {m} ELSE detached \cup {m}
  /\ UNCHANGED <<home, slot, outside, edited, rootAway, dirty, manifest>>

UserMoveRoot ==
  /\ UserStep /\ rootAway' = ~rootAway
  /\ UNCHANGED <<home, slot, outside, edited, detached, dirty, manifest, touched>>

-----------------------------------------------------------------------------
Init ==
  /\ home = [m \in Members |-> m]
  /\ slot = [o \in Ops |-> [m \in Members |-> None]]
  /\ outside = Foreign
  /\ edited = {} /\ detached = {} /\ rootAway = FALSE
  /\ dirty = [m \in Members |-> None]
  /\ manifest = [o \in Ops |-> None]
  /\ keeper = [o \in Ops |-> None] /\ fresh = {}
  /\ pc = "idle" /\ op = None /\ at = 0
  /\ touched = {} /\ unwound = {} /\ faults = 0 /\ user = 0

Execute == \/ Validate \/ Prepare \/ Compare \/ Barrier \/ Rename \/ Settle
           \/ Confirm \/ Rollback \/ Abandon \/ Record \/ Finish
Restore == \/ MarkRestoring \/ LookForFile \/ RenameHome \/ ConfirmHome
           \/ UndoRestore \/ RecordRestored \/ EndRestore
Environment == \/ ProcessCrash \/ PowerLoss \/ UserMoveRoot
               \/ \E m \in Members : \/ UserTake(m) \/ UserEdit(m)
                                     \/ UserMoveParent(m)
                                     \/ \E x \in Objects : UserPut(m, x)
Request == \E o \in Ops : \/ \E k \in Members : SelectPlan(o, k)
                          \/ BeginExecute(o) \/ BeginRestore(o)

Next == Request \/ Execute \/ Restore \/ Environment

Spec == Init /\ [][Next]_vars

\* The worker thread is scheduled; the user keeps asking for each restore.
Live == /\ WF_vars(Execute \/ Restore)
        /\ \A o \in Ops : SF_vars(BeginRestore(o))
FairSpec == Spec /\ Live

-----------------------------------------------------------------------------
(* Properties *)

\* Every variable keeps its shape, and the worker its step, operation and
\* member (the steps of execute_plan and restore_operation).
TypeOK ==
  /\ home \in [Members -> Objects \cup {None}]
  /\ slot \in [Ops -> [Members -> Objects \cup {None}]]
  /\ outside \subseteq Objects
  /\ edited \subseteq Members /\ detached \subseteq Members
  /\ rootAway \in BOOLEAN
  /\ dirty \in [Members -> Ops \cup {None}]
  /\ manifest \in [Ops -> Manifest \cup {None}]
  /\ keeper \in [Ops -> Members \cup {None}] /\ fresh \subseteq Ops
  /\ pc \in {"idle"} \cup ExecuteSteps \cup RestoreSteps
  /\ op \in Ops \cup {None} /\ at \in 0 .. N
  /\ touched \subseteq Members /\ unwound \subseteq Members
  /\ faults \in Nat /\ user \in Nat

\* No file object is ever overwritten or unlinked: each one is at an original
\* path, in an operation's files/, or where the user's programs took it.  The
\* no-replace renames of rename_noreplace promise it, whatever races.
NothingLost ==
  \A x \in Objects :
    \/ x \in outside
    \/ \E m \in Members : home[m] = x \/ \E o \in Ops : slot[o][m] = x

\* While a member sits in an operation's files/, the keeper that made it
\* redundant is at its own path with its own bytes, unless the user's programs
\* touched one of the two or a power loss undid an unsynced move home of one: no
\* later operation, with whatever keeper, may move the last copy
\* (validate_group_before_mutation, move_one_member).
KeeperStays ==
  \A o \in Ops : \A m \in Members :
    (slot[o][m] = m /\ m \notin touched \cup unwound) =>
      \/ keeper[o] \in touched \cup unwound
      \/ home[keeper[o]] = keeper[o] /\ keeper[o] \notin edited

\* Whatever stands in a files/ directory is listed by a durable manifest of
\* that operation, so restore can always find it: the manifest is written
\* ahead of the first rename (execute_plan) and never removed.
HeldIsListed ==
  \A o \in Ops : \A m \in Members :
    Present(slot[o][m]) => manifest[o] # None /\ m # keeper[o]

\* A manifest that says "quarantined" tells the truth about the disk: every
\* untouched redundant member is in files/ and its rename is synced, even
\* after a power loss.
QuarantinedIsHeld ==
  \A o \in Ops : \A m \in Members :
    (/\ manifest[o] # None /\ manifest[o].status = "quarantined"
     /\ m # keeper[o] /\ m \notin touched)
      => slot[o][m] = m /\ dirty[m] = None

\* Disk and manifests agree both ways: nothing is in files/ that no manifest
\* lists, and nothing a manifest calls quarantined is elsewhere.
ManifestsTrue == HeldIsListed /\ QuarantinedIsHeld

\* An object that is not the sealed member can end up in files/ through a race
\* at the rename or at the undo of a restore, but then the operation never
\* claims success: its manifest says neither "quarantined" nor "restored".
StrangerIsFlagged ==
  \A o \in Ops : \A m \in Members :
    slot[o][m] \in Foreign =>
      manifest[o].status \notin {"quarantined", "restored"}

\* The quarantine area implements the promise of CopyContract: a member is held
\* when its own object is in some files/, and rests on that plan's keeper.
Holder(m) == {o \in Ops : slot[o][m] = m}
Place == [m \in Members |-> IF Holder(m) = {} THEN "home" ELSE "held"]
Pin == [m \in Members |->
          IF Holder(m) = {} THEN m ELSE keeper[CHOOSE o \in Holder(m) : TRUE]]
Contract == INSTANCE CopyContract
              WITH place <- Place, pin <- Pin, disturbed <- touched \cup unwound
ContractKept == Contract!Spec

\* A restore that is asked for again and again brings every member of an
\* undisturbed operation home, through any bounded number of crashes, power
\* losses and failing calls (restore decides on the disk, not on the states),
\* provided the root comes back to its path.
EventuallyHome ==
  \A m \in Members :
    (\E o \in Ops : slot[o][m] = m) ~> (home[m] = m \/ touched # {} \/ []rootAway)
=============================================================================
