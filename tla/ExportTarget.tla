---------------------------- MODULE ExportTarget ----------------------------
(***************************************************************************)
(* The last step of a history export: the report is written to a private   *)
(* temporary file of the directory the user chose, synced, and published   *)
(* under the chosen name by a link that replaces nothing.                  *)
(* (src-tauri/src/export_target.rs)                                        *)
(*                                                                         *)
(* Two windows may export to the same name at the same time, each with a   *)
(* temporary name of its own, while the user's other programs change any   *)
(* of the names, calls fail and the power goes.  The directory is held     *)
(* open by every export, so moving it changes nothing and is left out.     *)
(*                                                                         *)
(* An export is identified with the file it creates: target = e says that  *)
(* the chosen name leads to e's file.                                      *)
(***************************************************************************)
EXTENDS Integers, FiniteSets

CONSTANTS
  Exports,    \* the exports bound to this directory and name
  Strangers,  \* files of other programs
  None,       \* a name that leads nowhere
  Records,    \* records of one report
  MaxFaults,  \* bound: failing calls
  MaxUser     \* bound: steps of the user's other programs

ASSUME Names == None \notin Exports \cup Strangers /\ Exports \cap Strangers = {}
ASSUME Bounds == Records \in Nat /\ MaxFaults \in Nat /\ MaxUser \in Nat

Objects == Exports \cup Strangers \cup {None}

VARIABLES
  \* what the chosen name leads to
  target,
  \* the values the chosen name may have after a power loss
  maybe,
  temp,       \* export -> what its temporary name leads to
  pc,         \* export -> its next step
  written,    \* export -> records in its file
  synced,     \* export -> its file's content is on stable storage
  cancelled,  \* export -> a cancellation was accepted (answered true)
  gate,       \* export -> commit_state: open or committed
  linked,     \* export -> the object its link published
  verified,   \* export -> link_identity_verified
  unclean,    \* export -> cleanup_failed
  unsynced,   \* export -> directory_sync_failed
  result,     \* export -> what its caller is told
  meddled,    \* another program changed the chosen name
  down,       \* the power went
  faults, user

files   == <<target, maybe, temp, written, synced>>
answers == <<cancelled, gate, linked, verified, unclean, unsynced, result>>
world   == <<meddled, down, faults, user>>
vars    == <<files, answers, world, pc>>

Running == {"start", "made", "write", "sync", "recheck", "gate", "link", "verify",
            "cleanup", "unlink", "dirsync", "outcome", "drop", "forget"}
Told    == {"committed", "cleanup", "dirsync", "both"}

TypeOK ==
  /\ target \in Objects /\ maybe \subseteq Objects
  /\ temp \in [Exports -> Objects]
  /\ pc \in [Exports -> Running \cup {"done"}]
  /\ written \in [Exports -> 0..Records]
  /\ synced \in [Exports -> BOOLEAN] /\ cancelled \in [Exports -> BOOLEAN]
  /\ gate \in [Exports -> {"open", "committed"}]
  /\ linked \in [Exports -> Objects]
  /\ verified \in [Exports -> BOOLEAN]
  /\ unclean \in [Exports -> BOOLEAN] /\ unsynced \in [Exports -> BOOLEAN]
  /\ result \in [Exports -> Told \cup {"none", "failed", "uncertain"}]
  /\ meddled \in BOOLEAN /\ down \in BOOLEAN
  /\ faults \in 0..MaxFaults /\ user \in 0..MaxUser

Init ==
  /\ target = None /\ maybe = {None}     \* bind: the name was absent
  /\ temp = [e \in Exports |-> None]
  /\ pc = [e \in Exports |-> "start"]
  /\ written = [e \in Exports |-> 0]
  /\ synced = [e \in Exports |-> FALSE] /\ cancelled = [e \in Exports |-> FALSE]
  /\ gate = [e \in Exports |-> "open"]
  /\ linked = [e \in Exports |-> None]
  /\ verified = [e \in Exports |-> FALSE]
  /\ unclean = [e \in Exports |-> FALSE] /\ unsynced = [e \in Exports |-> FALSE]
  /\ result = [e \in Exports |-> "none"]
  /\ meddled = FALSE /\ down = FALSE /\ faults = 0 /\ user = 0

-----------------------------------------------------------------------------
(* What the export looks at. *)

(* Each operator that a plausible bug would change stands below its mistaken  *)
(* form; the mistaken forms are used by nothing else.                       *)

OwnedAlone(e) == temp[e] = e /\ target # e
\* The export's file still is what its temporary name leads to.
Owned(e) == temp[e] = e

\* verify_private_temp_stat also wants the link count to be 1.
Private(e) == Owned(e) /\ target # e

TargetSeenFree == TRUE
\* linkat never replaces an existing name.
TargetFree == target = None

\* cancel() and commit_link() share the mutex of commit_state.
GateHeld(e) == pc[e] \in {"link", "verify"}

\* commit_link's look at the two flags, the mutex held.
GateOpen(e) == gate[e] = "open" /\ ~cancelled[e]

CancelAnyTime(e) == ~cancelled[e]
\* cancel(): a committed export is not cancelled, a cancelled one only once.
CancelAccepted(e) == gate[e] # "committed" /\ ~cancelled[e]

MoreRecords(e) == written[e] < Records

OutcomeUnsynced(e) ==
  IF target # e \/ ~verified[e] THEN "uncertain"
  ELSE IF unclean[e] THEN "cleanup" ELSE "committed"
\* publication_outcome: an identity in doubt outranks every warning.
Outcome(e) ==
  IF target # e \/ ~verified[e] THEN "uncertain"
  ELSE IF unclean[e] THEN (IF unsynced[e] THEN "both" ELSE "cleanup")
  ELSE IF unsynced[e] THEN "dirsync" ELSE "committed"

Goto(e, p) == pc' = [pc EXCEPT ![e] = p]
Fault == faults < MaxFaults /\ faults' = faults + 1
Steady == UNCHANGED <<meddled, down, user>>

\* An error return: the result is fixed, then OwnedTemp is dropped.
Fail(e) ==
  /\ result' = [result EXCEPT ![e] = "failed"] /\ Goto(e, "drop")
  /\ UNCHANGED <<cancelled, gate, linked, verified, unclean, unsynced>>

\* An error return before there is an OwnedTemp to drop.
Quit(e) ==
  /\ result' = [result EXCEPT ![e] = "failed"] /\ Goto(e, "done")
  /\ UNCHANGED <<files, cancelled, gate, linked, verified, unclean, unsynced>>

\* ExportControl::check: cancelled, or the deadline has passed (any time).
Stopped(e) == Fail(e) /\ UNCHANGED <<files, world>>

-----------------------------------------------------------------------------
(* The steps of write_history_export, in order. *)

\* The first check, then create_temp: the name must be absent, the file is new.
Create(e) ==
  /\ pc[e] = "start"
  /\ \/ /\ ~cancelled[e] /\ TargetFree
        /\ temp' = [temp EXCEPT ![e] = e] /\ Goto(e, "made")
        /\ UNCHANGED <<target, maybe, written, synced, answers, world>>
     \/ Stopped(e)
     \/ ~cancelled[e] /\ TargetFree /\ Fault /\ Steady /\ Quit(e)

\* create_temp looks at the new file before anybody owns it: when the look
\* fails, nobody unlinks it.
CheckNew(e) ==
  /\ pc[e] = "made"
  /\ \/ Private(e) /\ Goto(e, "write") /\ UNCHANGED <<files, answers, world>>
     \/ ~Private(e) /\ Quit(e) /\ UNCHANGED world
     \/ Fault /\ Steady /\ Quit(e)

\* One record, its check first; the last one is followed by finish().
Record(e) ==
  /\ pc[e] = "write"
  /\ \/ /\ ~cancelled[e] /\ MoreRecords(e)
        /\ written' = [written EXCEPT ![e] = @ + 1]
        /\ UNCHANGED <<target, maybe, temp, synced, answers, world, pc>>
     \/ /\ ~MoreRecords(e) /\ Goto(e, "sync")
        /\ UNCHANGED <<files, answers, world>>
     \/ Stopped(e)
     \/ Fault /\ Fail(e) /\ Steady /\ UNCHANGED files

FlushAndSync(e) ==
  /\ pc[e] = "sync"
  /\ \/ /\ ~cancelled[e]
        /\ synced' = [synced EXCEPT ![e] = TRUE] /\ Goto(e, "recheck")
        /\ UNCHANGED <<target, maybe, temp, written, answers, world>>
     \/ Stopped(e)
     \/ Fault /\ Fail(e) /\ Steady /\ UNCHANGED files

\* temp.revalidate and the last check before the gate.
Recheck(e) ==
  /\ pc[e] = "recheck"
  /\ \/ Private(e) /\ ~cancelled[e] /\ Goto(e, "gate") /\ UNCHANGED <<files, answers, world>>
     \/ Stopped(e)

\* commit_link takes the mutex and looks at everything once more.
Gate(e) ==
  /\ pc[e] = "gate"
  /\ IF GateOpen(e) /\ TargetFree /\ Private(e)
       THEN Goto(e, "link") /\ UNCHANGED <<files, answers, world>>
       ELSE Stopped(e)

\* linkat publishes whatever the temporary name leads to by now.
Link(e) ==
  /\ pc[e] = "link"
  /\ \/ /\ TargetFree /\ temp[e] # None
        /\ target' = temp[e] /\ maybe' = maybe \cup {temp[e]}
        /\ linked' = [linked EXCEPT ![e] = temp[e]] /\ Goto(e, "verify")
        /\ UNCHANGED <<temp, written, synced, cancelled, gate, verified, unclean,
                       unsynced, result, world>>
     \/ ~(TargetFree /\ temp[e] # None) /\ Stopped(e)
     \/ Fault /\ Fail(e) /\ Steady /\ UNCHANGED files

\* entry_matches_identity, the state becomes Committed, the mutex is released.
Verify(e) ==
  /\ pc[e] = "verify"
  /\ verified' = [verified EXCEPT ![e] = target = e]
  /\ gate' = [gate EXCEPT ![e] = "committed"] /\ Goto(e, "cleanup")
  /\ UNCHANGED <<files, cancelled, linked, unclean, unsynced, result, world>>

\* remove_owned_name looks at the temporary name ...
Cleanup(e) ==
  /\ pc[e] = "cleanup"
  /\ IF Owned(e)
       THEN Goto(e, "unlink") /\ UNCHANGED unclean
       ELSE Goto(e, "dirsync") /\ unclean' = [unclean EXCEPT ![e] = TRUE]
  /\ UNCHANGED <<files, cancelled, gate, linked, verified, unsynced, result, world>>

\* ... and unlinks it in a second call, whatever it leads to by then.
Unlink(e) ==
  /\ pc[e] = "unlink" /\ Goto(e, "dirsync")
  /\ \/ /\ temp[e] # None /\ temp' = [temp EXCEPT ![e] = None]
        /\ UNCHANGED <<unclean, world>>
     \/ /\ unclean' = [unclean EXCEPT ![e] = TRUE] /\ UNCHANGED temp
        /\ IF temp[e] = None THEN UNCHANGED world ELSE Fault /\ Steady
  /\ UNCHANGED <<target, maybe, written, synced, cancelled, gate, linked, verified,
                 unsynced, result>>

DirSync(e) ==
  /\ pc[e] = "dirsync" /\ Goto(e, "outcome")
  /\ \/ maybe' = {target} /\ UNCHANGED <<unsynced, world>>
     \/ unsynced' = [unsynced EXCEPT ![e] = TRUE] /\ UNCHANGED maybe /\ Fault /\ Steady
  /\ UNCHANGED <<target, temp, written, synced, cancelled, gate, linked, verified,
                 unclean, result>>

Publish(e) ==
  /\ pc[e] = "outcome" /\ Goto(e, "drop")
  /\ result' = [result EXCEPT ![e] = Outcome(e)]
  /\ UNCHANGED <<files, cancelled, gate, linked, verified, unclean, unsynced, world>>

\* OwnedTemp::drop, on every way out: look, then unlink, errors ignored.
Drop(e) ==
  /\ pc[e] = "drop"
  /\ Goto(e, IF Owned(e) THEN "forget" ELSE "done")
  /\ UNCHANGED <<files, answers, world>>

Forget(e) ==
  /\ pc[e] = "forget" /\ Goto(e, "done")
  /\ \/ temp' = [temp EXCEPT ![e] = None] /\ UNCHANGED world
     \/ UNCHANGED temp /\ Fault /\ Steady
  /\ UNCHANGED <<target, maybe, written, synced, answers>>

\* cancel_history_export, or the window closing, while the export runs.
Cancel(e) ==
  /\ pc[e] \in Running /\ ~GateHeld(e) /\ CancelAccepted(e)
  /\ cancelled' = [cancelled EXCEPT ![e] = TRUE]
  /\ UNCHANGED <<files, gate, linked, verified, unclean, unsynced, result, world, pc>>

-----------------------------------------------------------------------------
(* The user's other programs, and the power. *)

UserTarget ==
  /\ user < MaxUser /\ user' = user + 1 /\ meddled' = TRUE
  /\ \E o \in (Strangers \cup {None}) \ {target} :
       target' = o /\ maybe' = maybe \cup {o}
  /\ UNCHANGED <<temp, written, synced, answers, down, faults, pc>>

UserTemp(e) ==
  /\ user < MaxUser /\ user' = user + 1
  /\ \E o \in (Strangers \cup {None}) \ {temp[e]} : temp' = [temp EXCEPT ![e] = o]
  /\ UNCHANGED <<target, maybe, written, synced, answers, meddled, down, faults, pc>>

\* The temporary file is moved, or linked, to the chosen name.
UserMove(e) ==
  /\ user < MaxUser /\ user' = user + 1 /\ meddled' = TRUE
  /\ Owned(e) /\ target # e /\ target' = e /\ maybe' = maybe \cup {e}
  /\ temp' \in {temp, [temp EXCEPT ![e] = None]}
  /\ UNCHANGED <<written, synced, answers, down, faults, pc>>

PowerLoss ==
  /\ down' = TRUE /\ target' \in maybe /\ maybe' = {target'}
  /\ UNCHANGED <<temp, written, synced, answers, meddled, faults, user, pc>>

Step(e) ==
  \/ Create(e) \/ CheckNew(e) \/ Record(e) \/ FlushAndSync(e) \/ Recheck(e) \/ Gate(e) \/ Link(e)
  \/ Verify(e) \/ Cleanup(e) \/ Unlink(e) \/ DirSync(e) \/ Publish(e)
  \/ Drop(e) \/ Forget(e) \/ Cancel(e)

Next ==
  /\ ~down
  /\ \/ \E e \in Exports : Step(e) \/ UserTemp(e) \/ UserMove(e)
     \/ UserTarget \/ PowerLoss

Spec == Init /\ [][Next]_vars

-----------------------------------------------------------------------------
(* Properties. *)

\* What the caller is told is true.  Any kind of "committed" means that the
\* link published the export's own file, complete and on stable storage; and
\* unless the directory could not be synced, or another program changed the
\* name, no power loss takes the report away.
ReportTrue ==
  \A e \in Exports : result[e] \in Told =>
    /\ linked[e] = e /\ written[e] = Records /\ synced[e]
    /\ result[e] \in {"committed", "cleanup"} /\ ~meddled => maybe = {e} /\ target = e

\* A cancellation that was answered true published nothing, ever: the answer
\* and the link are decided under one mutex.
CancelUnpublished == \A e \in Exports : cancelled[e] => linked[e] = None

\* Nothing the user or another export put at the chosen name is replaced or
\* removed by an export, not even when it appears after the last look.
NothingReplaced ==
  [][target # None /\ user' = user /\ ~down' => target' = target]_vars

\* No temporary file stays behind under a result that claims a clean commit;
\* and none at all unless a call failed, or another program put the new file
\* under the chosen name before create_temp had looked at it.
NoLitter ==
  \A e \in Exports : pc[e] = "done" /\ Owned(e) =>
    /\ result[e] \notin {"committed", "dirsync"}
    /\ faults > 0 \/ (meddled /\ result[e] = "failed" /\ written[e] = 0)

=============================================================================
