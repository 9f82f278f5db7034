------------------------------ MODULE ScanJob ------------------------------
(***************************************************************************)
(* scan_service.rs: the one scan slot of the desktop process.              *)
(*                                                                         *)
(* Windows send commands (start, pause, resume, cancel, acknowledge,       *)
(* export, quarantine) that run as tasks and take the job registry's lock; *)
(* one worker thread drives the read-only runtime (guiying-runtime) and    *)
(* reads a control word shared with the commands; a window may close at    *)
(* any time.  One process lifetime: the durable side is the state of the   *)
(* run's row in the store, as the worker's transactions leave it.          *)
(***************************************************************************)
EXTENDS Naturals, FiniteSets, TLC

CONSTANTS Windows,    \* window labels
          None,       \* no window, job, result or outcome
          MaxJobs,    \* bound: scans started in this process
          Entries,    \* bound: units of work of one traversal
          MaxFaults   \* bound: failing system calls or transactions, panics

ASSUME LimitsAssumption == MaxJobs \in Nat /\ Entries \in Nat /\ MaxFaults \in Nat

VARIABLES
  \* ScanJobManager
  lock,       \* who keeps the registry locked across an await (an export start)
  active,     \* the active job: owner, phase and stage
  terminal,   \* the last terminal result: job, owner and phase
  acked,      \* terminal_acknowledged
  roots,      \* windows holding an unused root token
  export,     \* each window's export: from the file picker to the writing
  aborted,    \* windows whose running export was told to stop
  mutating,   \* the window whose quarantine operation holds the permit
  \* windows
  alive,      \* windows not yet destroyed
  shut,       \* windows that received a close event: no results, no exports
  closing,    \* the close event being handled: its window and next step
  deferred,   \* windows whose cancellation waits for the registry's lock
  \* ScanWorkerControl
  directive, enumerating,
  \* the worker thread
  pc,         \* its next step
  seen,       \* the directive it read last
  left,       \* traversal work left
  bound,      \* the root's runtime lease exists: pauses are heard
  outcome,    \* what the worker returns
  durable,    \* state of the run in the store
  \* bounds and ghosts
  jobs, faults,
  stopped     \* what the job was doing when its cancellation was accepted

registry == <<active, terminal, acked>>
others   == <<roots, export, aborted, mutating>>
windows  == <<alive, shut, closing, deferred>>
control  == <<directive, enumerating>>
worker   == <<pc, seen, left, bound, outcome, durable>>
counts   == <<jobs, faults>>
vars     == <<lock, registry, others, windows, control, worker, counts, stopped>>

LivePhase == {"running", "pausing", "paused", "resuming", "cancelling"}
EndPhase  == {"completed", "cancelled", "failed"}
Stage     == {"enumeration", "fingerprinting", "exact", "captureTime", "finished"}
Directive == {"continue", "pause", "cancel"}
Step == {"idle", "start", "read", "act", "park", "parked", "resume", "ackResume",
         "resumed", "settle", "running", "stage", "content", "seal",
         "toCapture", "capture", "finish"}
Durable == {"none", "running", "paused", "completed", "cancelled", "interrupted"}

Job    == [owner : Windows, phase : LivePhase, stage : Stage]
Result == [job : 1 .. MaxJobs, owner : Windows, phase : EndPhase]
Closing == [window : Windows, step : {"revoke", "cancel"}]

\* None is none of the values it stands beside.
ASSUME NoneAssumption ==
  None \notin Windows \cup Job \cup Result \cup Closing \cup LivePhase \cup EndPhase \cup {"past"}

\* Steps after the last point at which the runtime looks at the control word.
Past == {"seal", "toCapture", "capture", "finish", "idle"}

TypeOK ==
  /\ lock \in Windows \cup {None}
  /\ active \in Job \cup {None}
  /\ terminal \in Result \cup {None}
  /\ acked \in BOOLEAN
  /\ roots \subseteq Windows
  /\ export \in [Windows -> {"none", "asked", "picking", "checked", "granted",
                            "running"}]
  /\ aborted \subseteq Windows
  /\ mutating \in Windows \cup {None}
  /\ alive \subseteq Windows
  /\ shut \subseteq Windows
  /\ closing \in Closing \cup {None}
  /\ deferred \subseteq Windows
  /\ directive \in Directive /\ enumerating \in BOOLEAN
  /\ pc \in Step /\ seen \in Directive /\ left \in 0 .. Entries
  /\ bound \in BOOLEAN
  /\ outcome \in EndPhase \cup {None}
  /\ durable \in Durable
  /\ jobs \in 0 .. MaxJobs /\ faults \in 0 .. MaxFaults
  /\ stopped \in LivePhase \cup {"past", None}
  /\ active = None <=> pc = "idle"

Init ==
  /\ lock = None /\ active = None /\ terminal = None /\ acked = FALSE
  /\ roots = {} /\ export = [w \in Windows |-> "none"] /\ aborted = {}
  /\ mutating = None
  /\ alive = Windows /\ shut = {} /\ closing = None /\ deferred = {}
  /\ directive = "continue" /\ enumerating = FALSE
  /\ pc = "idle" /\ seen = "continue" /\ left = 0 /\ bound = FALSE
  /\ outcome = None /\ durable = "none"
  /\ jobs = 0 /\ faults = 0 /\ stopped = None

-----------------------------------------------------------------------------
(* Helpers. *)

Unlocked == lock = None
Fault == faults < MaxFaults /\ faults' = faults + 1 /\ UNCHANGED jobs
Goto(step) == pc' = step /\ UNCHANGED <<seen, left, bound>>
Owned(w) == active # None /\ active.owner = w
Exporting == {w \in Windows : export[w] = "running"}

\* record_worker_phase: a cancellation is never overwritten.
PlainPhase(phase) == phase
StickyPhase(phase) == IF active.phase = "cancelling" THEN "cancelling" ELSE phase
Record(phase) == active' = [active EXCEPT !.phase = StickyPhase(phase)]

\* The worker returns this outcome from its current step.
Return(result, state) ==
  /\ outcome' = result /\ durable' = state
  /\ Goto("finish")

\* interrupt_for_failure: the terminal transition may fail as well.
Interrupted == \E state \in {"interrupted", durable} : Return("failed", state)

-----------------------------------------------------------------------------
(* Starting a scan. *)

\* A window's native folder picker returned a directory.
SelectRoot(w) ==
  /\ w \in alive /\ closing = None /\ w \notin roots
  /\ roots' = roots \cup {w}
  /\ UNCHANGED <<lock, registry, export, aborted, mutating, windows, control,
                 worker, counts, stopped>>

\* ensure_scan_start_available
SlotFree == active = None /\ (terminal = None \/ acked)

\* ... and the two gates, all under the registry's lock.
StartOverExport == SlotFree /\ mutating = None
StartAvailable == SlotFree /\ Exporting = {} /\ mutating = None

\* reserve_authorized_root, launch_scan.  The window may have closed since it
\* sent the command; its token is then gone.
Start(w) ==
  /\ Unlocked /\ jobs < MaxJobs
  /\ StartAvailable /\ w \in roots
  /\ roots' = roots \ {w}
  /\ active' = [owner |-> w, phase |-> "running", stage |-> "enumeration"]
  /\ directive' = "continue" /\ enumerating' = TRUE
  /\ pc' = "start" /\ seen' = "continue" /\ left' = Entries /\ bound' = FALSE
  /\ outcome' = None /\ durable' = "none"
  /\ jobs' = jobs + 1 /\ stopped' = None
  /\ UNCHANGED <<lock, terminal, acked, export, aborted, mutating, windows, faults>>

-----------------------------------------------------------------------------
(* Commands of the owning window. *)

\* request_pause is heard only while the traversal runs.
PauseHeard == enumerating /\ directive # "cancel"

\* pause_for_owner
Pause(w) ==
  /\ Unlocked /\ Owned(w)
  /\ active.stage = "enumeration" /\ active.phase = "running"
  /\ PauseHeard
  /\ directive' = "pause"
  /\ active' = [active EXCEPT !.phase = "pausing"]
  /\ UNCHANGED <<lock, terminal, acked, others, windows, enumerating, worker,
                 counts, stopped>>

\* request_resume
ResumeHeard == IF directive = "pause" THEN "continue" ELSE directive

\* resume_for_owner: the phase, then request_resume.
Resume(w) ==
  /\ Unlocked /\ Owned(w)
  /\ active.stage = "enumeration" /\ active.phase = "paused"
  /\ active' = [active EXCEPT !.phase = "resuming"]
  /\ directive' = ResumeHeard
  /\ UNCHANGED <<lock, terminal, acked, others, windows, enumerating, worker,
                 counts, stopped>>

\* control.cancel and the phase.
CancelActive ==
  /\ directive' = "cancel"
  /\ active' = [active EXCEPT !.phase = "cancelling"]
  /\ stopped' = IF stopped # None THEN stopped
                ELSE IF pc \in Past THEN "past" ELSE active.phase

\* cancel_scan: the owner is checked, then cancel.
Cancel(w) ==
  /\ Unlocked /\ Owned(w) /\ active.phase # "cancelling"
  /\ CancelActive
  /\ UNCHANGED <<lock, terminal, acked, others, windows, enumerating, worker, counts>>

\* acknowledge, of the job the window names.
Acknowledge(w, j) ==
  /\ Unlocked
  /\ terminal # None /\ terminal.job = j /\ terminal.owner = w /\ ~acked
  /\ acked' = TRUE
  /\ UNCHANGED <<lock, active, terminal, others, windows, control, worker, counts, stopped>>

-----------------------------------------------------------------------------
(* History exports and quarantine operations exclude a scan. *)

Quiet == active = None /\ mutating = None
SetExport(w, state) == export' = [export EXCEPT ![w] = state]
NoExportElse == UNCHANGED <<registry, roots, mutating, windows, control, worker,
                            counts, stopped>>

\* begin_history_export_selection: the gates.  (A window that is shut has no
\* result to name; its request would be refused at the next step.)
PickTarget(w) ==
  /\ Unlocked /\ Quiet /\ w \notin shut /\ export[w] = "none"
  /\ SetExport(w, "asked")
  /\ NoExportElse /\ UNCHANGED <<lock, aborted>>

\* ... then its result's binding and the pending selection, without the job
\* registry's lock; the window may have closed on the way, before or after its
\* binding was looked at.
OpenPicker(w) ==
  /\ export[w] = "asked"
  /\ \E state \in {"none", "picking"} : SetExport(w, state)
  /\ NoExportElse /\ UNCHANGED <<lock, aborted>>

\* finish_history_export_selection: validate_result_export_binding; a refusal
\* drops the permit and the pending selection with it, and so does a picker
\* that was dismissed.
CheckTarget(w) ==
  /\ export[w] = "picking"
  /\ \/ SetExport(w, "none")
     \/ w \notin shut /\ SetExport(w, "checked")
  /\ NoExportElse /\ UNCHANGED <<lock, aborted>>

\* ... then the gates and the token, if the selection is still pending.
GrantExport(w) ==
  /\ Unlocked /\ export[w] = "checked"
  /\ SetExport(w, IF Quiet THEN "granted" ELSE "none")
  /\ NoExportElse /\ UNCHANGED <<lock, aborted>>

\* begin_history_export: the registry stays locked while the result is opened,
\* until the export is counted as running.
BeginExport(w) ==
  /\ Unlocked /\ Quiet /\ export[w] = "granted"
  /\ lock' = w
  /\ NoExportElse /\ UNCHANGED <<export, aborted>>

RunExport(w) ==
  /\ lock = w
  /\ lock' = None
  /\ \/ export[w] = "granted" /\ SetExport(w, "running")
     \/ UNCHANGED export   \* no lease on the result, or the token was revoked
  /\ NoExportElse /\ UNCHANGED aborted

\* cancel_history_export
CancelExport(w) ==
  /\ \/ export[w] = "granted" /\ SetExport(w, "none") /\ UNCHANGED aborted
     \/ /\ export[w] = "running" /\ w \notin aborted \cup shut
        /\ aborted' = aborted \cup {w} /\ UNCHANGED export
  /\ NoExportElse /\ UNCHANGED lock

\* The export ends, is cut short or fails: HistoryExportRunCleanup.
EndExport(w) ==
  /\ export[w] = "running"
  /\ SetExport(w, "none") /\ aborted' = aborted \ {w}
  /\ NoExportElse /\ UNCHANGED lock

\* begin_filesystem_mutation and the permit's drop.
MutationAvailable == Quiet /\ Exporting = {}

BeginMutation(w) ==
  /\ Unlocked /\ MutationAvailable
  /\ mutating' = w
  /\ UNCHANGED <<lock, registry, roots, export, aborted, windows, control, worker,
                 counts, stopped>>

EndMutation ==
  /\ mutating # None /\ mutating' = None
  /\ UNCHANGED <<lock, registry, roots, export, aborted, windows, control, worker,
                 counts, stopped>>

-----------------------------------------------------------------------------
(* cancel_for_window_close, on the main thread; CloseRequested, then        *)
(* Destroyed, run it once each.                                             *)

\* clear_scan_roots_for_owner and mark_result_owner_closed.
CloseEvent(w) ==
  /\ closing = None /\ w \in alive
  /\ alive' = IF w \in shut THEN alive \ {w} ELSE alive
  /\ shut' = shut \cup {w}
  /\ roots' = roots \ {w}
  /\ closing' = [window |-> w, step |-> "revoke"]
  /\ UNCHANGED <<lock, registry, export, aborted, mutating, deferred, control,
                 worker, counts, stopped>>

\* revoke_history_exports_for_owner: pending selections and grants are dropped,
\* a request that is not registered yet is not seen.
Revoked(w) == IF export[w] \in {"asked", "running"} THEN export[w] ELSE "none"

CloseRevoke ==
  /\ closing # None /\ closing.step = "revoke"
  /\ LET w == closing.window
     IN /\ SetExport(w, Revoked(w))
        /\ aborted' = IF export[w] = "running" THEN aborted \cup {w} ELSE aborted
  /\ closing' = [closing EXCEPT !.step = "cancel"]
  /\ UNCHANGED <<lock, registry, roots, mutating, alive, shut, deferred, control,
                 worker, counts, stopped>>

\* try_cancel_for_owner: another task may hold the registry's lock; then a
\* task is left behind that waits for it.
PostponeForgotten(w) == UNCHANGED deferred
Postpone(w) == deferred' = deferred \cup {w}

CloseCancel ==
  /\ closing # None /\ closing.step = "cancel"
  /\ LET w == closing.window
     IN \/ Postpone(w) /\ UNCHANGED <<registry, directive, stopped>>
        \/ /\ Unlocked /\ Owned(w)
           /\ CancelActive /\ UNCHANGED <<terminal, acked, deferred>>
        \/ /\ Unlocked /\ ~Owned(w)
           /\ UNCHANGED <<registry, directive, stopped, deferred>>
  /\ closing' = None
  /\ UNCHANGED <<lock, others, alive, shut, enumerating, worker, counts>>

\* cancel_for_owner
DeferredCancel(w) ==
  /\ w \in deferred /\ Unlocked
  /\ deferred' = deferred \ {w}
  /\ \/ Owned(w) /\ CancelActive
     \/ ~Owned(w) /\ UNCHANGED <<active, directive, stopped>>
  /\ UNCHANGED <<lock, terminal, acked, others, alive, shut, closing, enumerating,
                 worker, counts>>

-----------------------------------------------------------------------------
(* The worker: run_persistent_scan over ActiveReadOnlyScan. *)

WorkerElse == UNCHANGED <<lock, terminal, acked, others, windows>>
Silent == WorkerElse /\ UNCHANGED <<active, control, stopped>>
NoFault == UNCHANGED counts

\* ActiveReadOnlyScan::start and record_scan_attempt.
BindRun ==
  /\ pc = "start"
  /\ \/ Goto("read") /\ durable' = "running" /\ UNCHANGED outcome /\ NoFault
     \/ /\ Fault
        /\ \E state \in {"none", "running", "interrupted"} : Return("failed", state)
  /\ Silent

\* The core's loop reads the directive once per unit of work; a pause is not
\* heard before the root's lease exists.
Heard == IF directive = "pause" /\ ~bound THEN "continue" ELSE directive

ReadDirective ==
  /\ pc = "read"
  /\ seen' = Heard /\ pc' = "act"
  /\ UNCHANGED <<left, bound, outcome, durable>> /\ NoFault
  /\ Silent

\* acknowledge_cancel: its failure is returned, the run is left as it was.
CancelledAnyway ==
  /\ \E state \in {"cancelled", durable} : durable' = state
  /\ outcome' = "cancelled" /\ Goto("settle") /\ NoFault
Cancelled ==
  \/ outcome' = "cancelled" /\ durable' = "cancelled" /\ Goto("settle") /\ NoFault
  \/ Return("failed", durable) /\ Fault

ActCancel == pc = "act" /\ seen = "cancel" /\ Cancelled /\ Silent

\* There are entries left: looked at before every unit.
More == left > 0

\* The traversal is complete: the enumeration stage is sealed.
ActDone ==
  /\ pc = "act" /\ seen # "cancel" /\ ~More
  /\ \/ Goto("settle") /\ UNCHANGED <<outcome, durable>> /\ NoFault
     \/ Interrupted /\ Fault
  /\ Silent

\* acknowledge_enumeration_pause
ActPause ==
  /\ pc = "act" /\ seen = "pause" /\ More
  /\ \/ durable' = "paused" /\ Goto("park") /\ UNCHANGED outcome /\ NoFault
     \/ Interrupted /\ Fault
  /\ Silent

\* One more unit; the first flushed batch acquires the lease.  The root may
\* turn out to have changed, or the stream to fail.
ActWork ==
  /\ pc = "act" /\ seen = "continue" /\ More
  /\ \/ /\ left' = left - 1 /\ bound' \in {bound, TRUE} /\ pc' = "read"
        /\ UNCHANGED <<seen, outcome, durable>> /\ NoFault
     \/ /\ outcome' = "failed" /\ durable' = "interrupted" /\ Goto("settle") /\ Fault
     \/ Interrupted /\ Fault
  /\ Silent

\* on_worker_phase(Paused)
Park ==
  /\ pc = "park" /\ Unlocked
  /\ Record("paused") /\ Goto("parked")
  /\ UNCHANGED <<outcome, durable, control, stopped>> /\ NoFault /\ WorkerElse

\* wait_while_paused returns.
AwakeOnResume == directive = "continue"
Awake == directive # "pause"

Wake ==
  /\ pc = "parked" /\ Awake
  /\ Goto("resume") /\ UNCHANGED <<outcome, durable>> /\ NoFault
  /\ Silent

\* resume_enumeration: a cancellation goes to the core without a resume.
AfterWakeResuming == IF directive = "pause" THEN "park" ELSE "ackResume"
AfterWake == CASE directive = "cancel"   -> "act"
               [] directive = "pause"    -> "park"
               [] directive = "continue" -> "ackResume"

LeavePark ==
  /\ pc = "resume"
  /\ pc' = AfterWake /\ seen' = directive
  /\ UNCHANGED <<left, bound, outcome, durable>> /\ NoFault
  /\ Silent

\* acknowledge_enumeration_resume
AckResume ==
  /\ pc = "ackResume"
  /\ \/ durable' = "running" /\ Goto("resumed") /\ UNCHANGED outcome /\ NoFault
     \/ Interrupted /\ Fault
  /\ Silent

\* on_enumeration_resumed
Resumed ==
  /\ pc = "resumed" /\ Unlocked
  /\ Record("running") /\ Goto("read")
  /\ UNCHANGED <<outcome, durable, control, stopped>> /\ NoFault /\ WorkerElse

\* finish_enumeration: a pause nobody heard is dropped.
DropPause == IF directive = "pause" THEN "continue" ELSE directive

Settle ==
  /\ pc = "settle"
  /\ enumerating' = FALSE /\ directive' = DropPause
  /\ Goto(IF outcome = None THEN "running" ELSE "finish")
  /\ UNCHANGED <<active, outcome, durable, stopped>> /\ NoFault /\ WorkerElse

\* on_worker_phase(Running) when the enumeration is complete.
EndPausing ==
  /\ pc = "running" /\ Unlocked
  /\ Record("running") /\ Goto("stage")
  /\ UNCHANGED <<outcome, durable, control, stopped>> /\ NoFault /\ WorkerElse

\* on_worker_stage: the next stage begins.
EnterStage(from, stage, to) ==
  /\ pc = from /\ Unlocked
  /\ active' = [active EXCEPT !.stage = stage] /\ Goto(to)
  /\ UNCHANGED <<durable, control, stopped>> /\ NoFault /\ WorkerElse

Fingerprinting == EnterStage("stage", "fingerprinting", "content") /\ UNCHANGED outcome
CaptureTime == EnterStage("toCapture", "captureTime", "capture") /\ UNCHANGED outcome

\* fingerprint_candidates: cancellation is looked at before each file, if any.
Fingerprinted ==
  /\ pc = "content" /\ active.stage = "fingerprinting" /\ Unlocked
  /\ EnterStage("content", "exact", "content") /\ UNCHANGED outcome

\* verify_exact_duplicates: finalize_coverage looks at it one last time.
LastLook == directive # "cancel"

Verified ==
  /\ pc = "content" /\ active.stage = "exact" /\ LastLook
  /\ Goto("seal") /\ UNCHANGED <<outcome, durable>> /\ NoFault
  /\ Silent

StageCancelled ==
  /\ pc = "content" /\ directive = "cancel"
  /\ \/ Return("cancelled", "cancelled") /\ NoFault
     \/ Return("failed", durable) /\ Fault
  /\ Silent

StageFailed ==
  /\ pc = "content" /\ Interrupted /\ Fault
  /\ Silent

\* The evidence is sealed, then the run completed (a failure of the latter is
\* returned, the run is left running).
Seal ==
  /\ pc = "seal"
  /\ \/ durable' = "completed" /\ Goto("toCapture") /\ UNCHANGED outcome /\ NoFault
     \/ Interrupted /\ Fault
  /\ Silent

\* analyze_capture_times is optional: whatever comes of it, D1 is complete.
Captured ==
  /\ EnterStage("capture", "finished", "finish")
  /\ outcome' = "completed"

\* A panic anywhere is a failed job.
Panic ==
  /\ pc \notin {"idle", "finish"} /\ Fault
  /\ Return("failed", durable)
  /\ Silent

\* ScanJobManager::finish
Finish ==
  /\ pc = "finish" /\ Unlocked
  /\ active' = None
  /\ terminal' = [job |-> jobs, owner |-> active.owner, phase |-> outcome]
  /\ acked' = FALSE
  /\ pc' = "idle" /\ seen' = "continue" /\ left' = 0 /\ bound' = FALSE
  /\ outcome' = None
  /\ directive' = "continue" /\ enumerating' = FALSE   \* dropped with the worker
  /\ UNCHANGED <<lock, others, windows, durable, stopped>> /\ NoFault

-----------------------------------------------------------------------------
Steady ==
  \/ BindRun \/ ReadDirective \/ ActCancel \/ ActDone \/ ActPause \/ ActWork
  \/ Park \/ Wake \/ LeavePark \/ AckResume \/ Resumed \/ Settle \/ EndPausing
  \/ Fingerprinting \/ Fingerprinted \/ Verified \/ StageCancelled \/ StageFailed
  \/ Seal \/ CaptureTime \/ Captured \/ Finish

Command ==
  \/ \E w \in Windows : SelectRoot(w) \/ Start(w) \/ Pause(w) \/ Resume(w) \/ Cancel(w)
  \/ \E w \in Windows, j \in 1 .. MaxJobs : Acknowledge(w, j)
  \/ \E w \in Windows : PickTarget(w) \/ OpenPicker(w) \/ CheckTarget(w)
                        \/ GrantExport(w) \/ BeginExport(w) \/ CancelExport(w)
                        \/ BeginMutation(w)

Background ==
  \/ \E w \in Windows : RunExport(w) \/ EndExport(w) \/ DeferredCancel(w)
  \/ EndMutation \/ CloseRevoke \/ CloseCancel

Next == Steady \/ Panic \/ Command \/ Background \/ \E w \in Windows : CloseEvent(w)

Spec == Init /\ [][Next]_vars

\* Every system call and transaction of the worker returns; the async runtime
\* runs every ready task (tokio's mutex is handed over in order, and while a
\* job is active nobody keeps it across an await); the main thread finishes
\* its event.  Nothing is assumed of users, exports or quarantine operations.
FairSpec ==
  /\ Spec
  /\ WF_vars(Steady)
  /\ WF_vars(CloseRevoke \/ CloseCancel)
  /\ \A w \in Windows : WF_vars(DeferredCancel(w)) /\ WF_vars(RunExport(w))

-----------------------------------------------------------------------------
(* What must hold. *)

\* A scan, a history export and a quarantine operation never overlap (exports
\* of different windows may): three kinds of task pass three separate gates,
\* and only the order of their locks makes the checks one decision.
Exclusive ==
  /\ active # None => Exporting = {} /\ mutating = None
  /\ mutating # None => Exporting = {}

\* What the window is told and what the worker obeys agree: cancelling is shown
\* exactly when the control word says cancel; a pause is in force only while
\* pausing or paused is shown; paused is shown only when the worker is parked
\* and the store has recorded the pause (or the worker has since panicked); and
\* no pause of the traversal's last moment follows the job into the stages that
\* cannot be paused, where nothing would ever clear it (finish_enumeration).
StatusTracksControl ==
  active # None =>
    /\ active.phase = "cancelling" <=> directive = "cancel"
    /\ directive = "pause" => active.phase \in {"pausing", "paused"}
    /\ active.phase = "paused" /\ pc # "finish" =>
         pc = "parked" /\ directive = "pause" /\ durable = "paused"
    /\ pc \in {"running", "stage", "content", "seal", "toCapture", "capture"} =>
         /\ directive # "pause" /\ active.phase \notin {"paused", "resuming"}
         /\ active.phase = "pausing" => pc = "running"

\* A result shown as completed or cancelled is what the store recorded for the
\* run, although the record and the report are written by different steps and
\* any of them may fail.
ReportedAsRecorded ==
  active = None /\ terminal # None =>
    /\ terminal.phase = "completed" => durable = "completed"
    /\ terminal.phase = "cancelled" => durable = "cancelled"

\* A cancellation accepted before the runtime's last look at the control word
\* is never answered with a completed scan; one never asked for is never
\* reported.
CancelHonoured ==
  active = None /\ terminal # None =>
    /\ terminal.phase = "completed" => stopped \in {None, "past"}
    /\ terminal.phase = "cancelled" => stopped # None

\* What the window is told of the end of its scan is true, of the store and of
\* the user's own request.
EndsTruly == ReportedAsRecorded /\ CancelHonoured

\* Cancelling a paused job goes straight to the terminal state: the store never
\* sees the run resumed, whatever the worker was about to do.
NoForgedResume ==
  [][durable = "paused" /\ durable' = "running" => stopped # "paused"]_vars

\* A result that its window has not acknowledged is never replaced.
UnacknowledgedKept == [][terminal' # terminal => terminal = None \/ acked]_vars

\* The store's history and the window's result are never rewritten behind the
\* user's back (wait_while_paused, ScanJobManager::finish).
NothingForged == NoForgedResume /\ UnacknowledgedKept

\* Once the close events of a destroyed window are handled, no scan of that
\* window goes on uncancelled: not one that was starting, not one that started
\* between the two events, not when the registry was locked at the time.  Nor
\* has it an export but one that was told to stop, even if its file picker was
\* open or its start was under way; a picker that opens too late gets no grant.
\* (cancel_for_window_close)
NoOrphan ==
  /\ \A w \in Windows \ alive :
       \/ closing # None /\ closing.window = w
       \/ w \in deferred
       \/ Owned(w) => active.phase = "cancelling"
  /\ \A w \in shut :
       \/ closing # None /\ closing.window = w
       \/ export[w] \in {"none", "asked", "picking"}
       \/ export[w] = "running" /\ w \in aborted

\* Whatever the user asks for is answered: a cancel ends the job, a pause or a
\* resume leads out of its waiting phase, a pause asked for at the last moment
\* of the traversal included, which no later stage would ever look at.
\* (finish_enumeration, wait_while_paused, record_worker_phase)
RequestsAnswered ==
  /\ (active # None /\ active.phase = "cancelling") ~> active = None
  /\ \A phase \in {"pausing", "resuming"} :
       (active # None /\ active.phase = phase)
         ~> (active = None \/ active.phase # phase)

\* The job of a window that is gone goes away (try_cancel_for_owner).
DeadWindowFrees == \A w \in Windows : (w \notin alive /\ Owned(w)) ~> ~Owned(w)

\* No definition tells one window from another.
Alike == Permutations(Windows)
=============================================================================
