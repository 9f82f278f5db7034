--------------------------- MODULE ScanJobProofs ---------------------------
(***************************************************************************)
(* The safety properties of ScanJob, for any number of windows, scans,     *)
(* entries and failures.                                                   *)
(*                                                                         *)
(* Inv says what each step of the worker may rely on while commands and    *)
(* closing windows change the registry between its steps.                  *)
(***************************************************************************)
EXTENDS ScanJob, TLAPS

\* Steps in which the traversal is over and no pause is heard any more.
Late == {"stage", "content", "seal", "toCapture", "capture"}

\* The three users of the folder exclude each other, and whoever keeps the
\* registry locked across an await did so with the slot free.
SlotInv ==
  /\ Exclusive
  /\ lock # None => Quiet

\* The phase shown and the control word, step by step.
PhaseInv ==
  active # None =>
    /\ active.phase = "cancelling" <=> directive = "cancel"
    /\ directive = "pause" => active.phase \in {"pausing", "paused"}
    /\ active.phase = "paused" /\ pc # "finish" =>
         pc = "parked" /\ directive = "pause"
    /\ active.phase = "resuming" =>
         pc \in {"parked", "resume", "ackResume", "resumed", "finish"}
    /\ active.phase = "running" =>
         pc \notin {"park", "parked", "resume", "ackResume", "resumed"}
    /\ active.phase = "pausing" =>
         pc \in {"start", "read", "act", "park", "settle", "running", "finish"}
    /\ pc = "park" \/ (pc = "act" /\ seen = "pause") =>
         active.phase # "running" /\ directive # "continue"
    /\ pc \in {"park", "parked", "resume", "ackResume"} => durable = "paused"
    /\ pc \in {"running"} \cup Late => ~enumerating /\ directive # "pause"

\* What was promised about a cancellation, and what the worker will return.
EndInv ==
  /\ active # None =>
       /\ jobs > 0 /\ (terminal = None \/ acked)
       /\ stopped # None <=> directive = "cancel"
       /\ pc = "start" => durable = "none"
       /\ pc = "act" /\ seen = "cancel" => directive = "cancel"
       /\ pc = "ackResume" => stopped # "paused"
       /\ pc \notin {"settle", "finish"} => outcome = None
       /\ pc = "settle" => outcome # "completed"
       /\ pc \in {"seal", "toCapture", "capture"} => stopped \in {None, "past"}
       /\ pc \in {"toCapture", "capture"} => durable = "completed"
       /\ pc = "finish" => outcome # None
       /\ outcome = "completed" => durable = "completed" /\ stopped \in {None, "past"}
       /\ outcome = "cancelled" => durable = "cancelled" /\ directive = "cancel"
  /\ EndsTruly

\* A window that is gone holds no root token, and once its exports are revoked
\* no selection of it is granted.
WindowInv ==
  /\ roots \subseteq alive
  /\ Windows \ alive \subseteq shut
  /\ closing # None => closing.window \in shut
  /\ \A w \in Windows \ alive :
       \/ closing # None /\ closing.window = w
       \/ w \in deferred
       \/ Owned(w) => active.phase = "cancelling"
  /\ \A w \in shut :
       \/ closing # None /\ closing.window = w /\ closing.step = "revoke"
       \/ export[w] \in {"none", "asked", "picking"}
       \/ export[w] = "running" /\ w \in aborted

\* What a step may not do to the store's record and to the last result.
Faithful ==
  /\ durable = "paused" /\ durable' = "running" => stopped # "paused"
  /\ terminal' # terminal => terminal = None \/ acked

Inv == TypeOK /\ SlotInv /\ PhaseInv /\ EndInv /\ WindowInv

\* None is no value of the registry.
LEMMA Names ==
  /\ None \notin Windows /\ None \notin Job /\ None \notin Result /\ None \notin Closing
  /\ None \notin LivePhase /\ None \notin EndPhase /\ None # "past"
  BY NoneAssumption

\* The first state of the process.
LEMMA InitInv == Init => Inv
  <1> SUFFICES ASSUME Init PROVE Inv
    OBVIOUS
  <1>1. TypeOK
    <2>1. 0 \in 0 .. MaxJobs /\ 0 \in 0 .. Entries /\ 0 \in 0 .. MaxFaults
      BY LimitsAssumption
    <2>2. export \in [Windows -> {"none", "picking", "checked", "granted", "running"}]
      BY DEF Init
    <2> QED
      BY <2>1, <2>2 DEF Init, TypeOK, Directive, Step, Durable
  <1>2. SlotInv /\ PhaseInv /\ EndInv
    BY DEF Init, SlotInv, Exclusive, Exporting, PhaseInv, EndInv, EndsTruly,
       ReportedAsRecorded, CancelHonoured
  <1>3. WindowInv
    BY DEF Init, WindowInv
  <1> QED
    BY <1>1, <1>2, <1>3 DEF Inv

-----------------------------------------------------------------------------
(* The steps: each part of the invariant, action by action. *)

\* Every step of the process keeps the types: the slot is taken exactly while the
\* worker has a next step (launch_scan, ScanJobManager::finish).
LEMMA TypeStep ==
  ASSUME TypeOK, EndInv, [Next]_vars
  PROVE  TypeOK'
  <1> USE Names, LimitsAssumption DEF TypeOK, LivePhase, EndPhase, Stage, Directive, Step,
      Durable, Job, Result, Closing, vars, registry, others, windows, control, worker,
      counts, Fault, Goto, WorkerElse, Silent, NoFault, Unlocked, Owned, NoExportElse,
      SetExport
  <1>1. CASE BindRun
    BY <1>1 DEF BindRun, Return
  <1>2. CASE ReadDirective
    BY <1>2 DEF ReadDirective, Heard
  <1>3. CASE ActCancel
    BY <1>3 DEF ActCancel, Cancelled, Return
  <1>4. CASE ActDone
    BY <1>4 DEF ActDone, More, Interrupted, Return
  <1>5. CASE ActPause
    BY <1>5 DEF ActPause, More, Interrupted, Return
  <1>6. CASE ActWork
    <2>0. faults' \in 0 .. MaxFaults
      <3>1. faults' = faults \/ (faults < MaxFaults /\ faults' = faults + 1)
        BY <1>6 DEF ActWork
      <3> QED
        BY <3>1
    <2>1. left' \in 0 .. Entries
      <3>1. left \in 0 .. Entries /\ left > 0 /\ left' \in {left, left - 1}
        BY <1>6 DEF ActWork, More, Interrupted, Return
      <3> QED
        BY <3>1
    <2>2. pc' \in Step \ {"idle"} /\ durable' \in Durable /\ outcome' \in EndPhase \cup {None}
      BY <1>6 DEF ActWork, More, Interrupted, Return
    <2>3. bound' \in BOOLEAN /\ seen' \in Directive /\ pc # "idle"
      BY <1>6 DEF ActWork, More, Interrupted, Return
    <2>4. UNCHANGED <<lock, terminal, acked, others, windows, active, control, stopped, jobs>>
      BY <1>6 DEF ActWork
    <2> QED
      BY <2>0, <2>1, <2>2, <2>3, <2>4
  <1>7. CASE Park
    BY <1>7 DEF Park, Record, StickyPhase
  <1>8. CASE Wake
    BY <1>8 DEF Wake, Awake
  <1>9. CASE LeavePark
    BY <1>9 DEF LeavePark, AfterWake
  <1>10. CASE AckResume
    BY <1>10 DEF AckResume, Interrupted, Return
  <1>11. CASE Resumed
    BY <1>11 DEF Resumed, Record, StickyPhase
  <1>12. CASE Settle
    <2>1. pc' \in Step \ {"idle"} /\ directive' \in Directive /\ pc # "idle"
      BY <1>12 DEF Settle, DropPause
    <2>2. enumerating' = FALSE /\ UNCHANGED <<lock, terminal, acked, others, windows, active, seen,
                       left, bound, outcome, durable, counts, stopped>>
      BY <1>12 DEF Settle
    <2>3. (active = None <=> pc = "idle")' /\ (closing \in Closing \cup {None})'
      BY <2>1, <2>2
    <2>4. (enumerating \in BOOLEAN)' /\ (active \in Job \cup {None})' /\ (pc \in Step)'
      BY <2>1, <2>2
    <2> QED
      BY <2>1, <2>2, <2>3, <2>4
  <1>13. CASE EndPausing
    BY <1>13 DEF EndPausing, Record, StickyPhase
  <1>14. CASE Fingerprinting
    BY <1>14 DEF Fingerprinting, EnterStage
  <1>15. CASE Fingerprinted
    BY <1>15 DEF Fingerprinted, EnterStage
  <1>16. CASE Verified
    BY <1>16 DEF Verified, LastLook
  <1>17. CASE StageCancelled
    BY <1>17 DEF StageCancelled, Return
  <1>18. CASE StageFailed
    BY <1>18 DEF StageFailed, Interrupted, Return
  <1>19. CASE Seal
    BY <1>19 DEF Seal, Interrupted, Return
  <1>20. CASE CaptureTime
    BY <1>20 DEF CaptureTime, EnterStage
  <1>21. CASE Captured
    BY <1>21 DEF Captured, EnterStage
  <1>22. CASE Finish
    <2>1. active \in Job /\ jobs \in 1 .. MaxJobs /\ outcome \in EndPhase
      BY <1>22 DEF Finish, EndInv
    <2>2. terminal' \in Result
      BY <1>22, <2>1 DEF Finish
    <2>3. /\ active' = None /\ acked' = FALSE /\ pc' = "idle" /\ seen' = "continue" /\ left' = 0
          /\ bound' = FALSE /\ outcome' = None /\ directive' = "continue" /\ enumerating' = FALSE
          /\ UNCHANGED <<lock, others, windows, durable, stopped, counts>>
      BY <1>22 DEF Finish
    <2>4. /\ (active = None <=> pc = "idle")' /\ (active \in Job \cup {None})'
          /\ (pc \in Step)' /\ (seen \in Directive)' /\ (directive \in Directive)'
          /\ (left \in 0 .. Entries)' /\ (outcome \in EndPhase \cup {None})'
      BY <2>3, LimitsAssumption
    <2>5. /\ (acked \in BOOLEAN)' /\ (bound \in BOOLEAN)' /\ (enumerating \in BOOLEAN)'
      BY <2>3
    <2>6. (jobs \in 0 .. MaxJobs)' /\ (faults \in 0 .. MaxFaults)' /\ (durable \in Durable)'
      BY <2>3
    <2> QED
      BY <2>2, <2>3, <2>4, <2>5, <2>6
  <1>23. CASE Panic
    BY <1>23 DEF Panic, Return
  <1>24. ASSUME NEW w \in Windows, SelectRoot(w) PROVE TypeOK'
    BY <1>24 DEF SelectRoot
  <1>25. ASSUME NEW w \in Windows, Start(w) PROVE TypeOK'
    <2>1. active' \in Job /\ active' # None
      BY <1>25 DEF Start
    <2>2. jobs' \in 0 .. MaxJobs /\ left' \in 0 .. Entries
      BY <1>25 DEF Start
    <2> QED
      BY <1>25, <2>1, <2>2 DEF Start
  <1>26. ASSUME NEW w \in Windows, Pause(w) PROVE TypeOK'
    BY <1>26 DEF Pause, PauseHeard
  <1>27. ASSUME NEW w \in Windows, Resume(w) PROVE TypeOK'
    BY <1>27 DEF Resume, ResumeHeard
  <1>28. ASSUME NEW w \in Windows, Cancel(w) PROVE TypeOK'
    BY <1>28 DEF Cancel, CancelActive, Past
  <1>29. ASSUME NEW w \in Windows, NEW j \in 1 .. MaxJobs, Acknowledge(w, j) PROVE TypeOK'
    BY <1>29 DEF Acknowledge
  <1>30. ASSUME NEW w \in Windows, PickTarget(w) PROVE TypeOK'
    BY <1>30 DEF PickTarget, Quiet
  <1>30a. ASSUME NEW w \in Windows, OpenPicker(w) PROVE TypeOK'
    BY <1>30a DEF OpenPicker
  <1>31. ASSUME NEW w \in Windows, CheckTarget(w) PROVE TypeOK'
    BY <1>31 DEF CheckTarget
  <1>32. ASSUME NEW w \in Windows, GrantExport(w) PROVE TypeOK'
    BY <1>32 DEF GrantExport, Quiet
  <1>33. ASSUME NEW w \in Windows, BeginExport(w) PROVE TypeOK'
    BY <1>33 DEF BeginExport, Quiet
  <1>34. ASSUME NEW w \in Windows, CancelExport(w) PROVE TypeOK'
    BY <1>34 DEF CancelExport
  <1>35. ASSUME NEW w \in Windows, BeginMutation(w) PROVE TypeOK'
    BY <1>35 DEF BeginMutation, MutationAvailable, Quiet, Exporting
  <1>36. ASSUME NEW w \in Windows, RunExport(w) PROVE TypeOK'
    BY <1>36 DEF RunExport
  <1>37. ASSUME NEW w \in Windows, EndExport(w) PROVE TypeOK'
    BY <1>37 DEF EndExport
  <1>38. ASSUME NEW w \in Windows, DeferredCancel(w) PROVE TypeOK'
    BY <1>38 DEF DeferredCancel, CancelActive, Past
  <1>39. CASE EndMutation
    BY <1>39 DEF EndMutation
  <1>40. CASE CloseRevoke
    BY <1>40 DEF CloseRevoke, Revoked
  <1>41. CASE CloseCancel
    BY <1>41 DEF CloseCancel, Postpone, CancelActive, Past
  <1>42. ASSUME NEW w \in Windows, CloseEvent(w) PROVE TypeOK'
    BY <1>42 DEF CloseEvent
  <1>43. CASE UNCHANGED vars
    BY <1>43
  <1> QED
    BY <1>1, <1>2, <1>3, <1>4, <1>5, <1>6, <1>7, <1>8, <1>9, <1>10, <1>11, <1>12, <1>13,
       <1>14, <1>15, <1>16, <1>17, <1>18, <1>19, <1>20, <1>21, <1>22, <1>23, <1>24, <1>25,
       <1>26, <1>27, <1>28, <1>29, <1>30, <1>30a, <1>31, <1>32, <1>33, <1>34, <1>35,
       <1>36, <1>37,
       <1>38, <1>39, <1>40, <1>41, <1>42, <1>43
       DEF Next, Steady, Command, Background

\* A gate opens only under the registry's lock and with the slot free, and the slot
\* is taken only when nobody keeps that lock (ensure_scan_start_available).
LEMMA SlotStep ==
  ASSUME TypeOK, SlotInv, [Next]_vars
  PROVE  SlotInv'
  <1> USE Names DEF TypeOK, SlotInv, Exclusive, Exporting, Quiet, vars, registry, others,
      windows, control, worker, counts, Fault, Goto, WorkerElse, Silent, NoFault, Unlocked,
      Owned, NoExportElse, SetExport
  <1>1. CASE BindRun
    BY <1>1 DEF BindRun, Return
  <1>2. CASE ReadDirective
    BY <1>2 DEF ReadDirective, Heard
  <1>3. CASE ActCancel
    BY <1>3 DEF ActCancel, Cancelled, Return
  <1>4. CASE ActDone
    BY <1>4 DEF ActDone, More, Interrupted, Return
  <1>5. CASE ActPause
    BY <1>5 DEF ActPause, More, Interrupted, Return
  <1>6. CASE ActWork
    BY <1>6 DEF ActWork, More, Interrupted, Return
  <1>7. CASE Park
    BY <1>7 DEF Park, Record, StickyPhase
  <1>8. CASE Wake
    BY <1>8 DEF Wake, Awake
  <1>9. CASE LeavePark
    BY <1>9 DEF LeavePark, AfterWake
  <1>10. CASE AckResume
    BY <1>10 DEF AckResume, Interrupted, Return
  <1>11. CASE Resumed
    BY <1>11 DEF Resumed, Record, StickyPhase
  <1>12. CASE Settle
    BY <1>12 DEF Settle, DropPause
  <1>13. CASE EndPausing
    BY <1>13 DEF EndPausing, Record, StickyPhase
  <1>14. CASE Fingerprinting
    BY <1>14 DEF Fingerprinting, EnterStage
  <1>15. CASE Fingerprinted
    BY <1>15 DEF Fingerprinted, EnterStage
  <1>16. CASE Verified
    BY <1>16 DEF Verified, LastLook
  <1>17. CASE StageCancelled
    BY <1>17 DEF StageCancelled, Return
  <1>18. CASE StageFailed
    BY <1>18 DEF StageFailed, Interrupted, Return
  <1>19. CASE Seal
    BY <1>19 DEF Seal, Interrupted, Return
  <1>20. CASE CaptureTime
    BY <1>20 DEF CaptureTime, EnterStage
  <1>21. CASE Captured
    BY <1>21 DEF Captured, EnterStage
  <1>22. CASE Finish
    BY <1>22 DEF Finish
  <1>23. CASE Panic
    BY <1>23 DEF Panic, Return
  <1>24. ASSUME NEW w \in Windows, SelectRoot(w) PROVE SlotInv'
    BY <1>24 DEF SelectRoot
  <1>25. ASSUME NEW w \in Windows, Start(w) PROVE SlotInv'
    BY <1>25 DEF Start, StartAvailable, SlotFree
  <1>26. ASSUME NEW w \in Windows, Pause(w) PROVE SlotInv'
    BY <1>26 DEF Pause, PauseHeard
  <1>27. ASSUME NEW w \in Windows, Resume(w) PROVE SlotInv'
    BY <1>27 DEF Resume, ResumeHeard
  <1>28. ASSUME NEW w \in Windows, Cancel(w) PROVE SlotInv'
    BY <1>28 DEF Cancel, CancelActive, Past
  <1>29. ASSUME NEW w \in Windows, NEW j \in 1 .. MaxJobs, Acknowledge(w, j) PROVE SlotInv'
    BY <1>29 DEF Acknowledge
  <1>30. ASSUME NEW w \in Windows, PickTarget(w) PROVE SlotInv'
    BY <1>30 DEF PickTarget
  <1>30a. ASSUME NEW w \in Windows, OpenPicker(w) PROVE SlotInv'
    BY <1>30a DEF OpenPicker
  <1>31. ASSUME NEW w \in Windows, CheckTarget(w) PROVE SlotInv'
    BY <1>31 DEF CheckTarget
  <1>32. ASSUME NEW w \in Windows, GrantExport(w) PROVE SlotInv'
    BY <1>32 DEF GrantExport
  <1>33. ASSUME NEW w \in Windows, BeginExport(w) PROVE SlotInv'
    BY <1>33 DEF BeginExport
  <1>34. ASSUME NEW w \in Windows, CancelExport(w) PROVE SlotInv'
    BY <1>34 DEF CancelExport
  <1>35. ASSUME NEW w \in Windows, BeginMutation(w) PROVE SlotInv'
    BY <1>35 DEF BeginMutation, MutationAvailable
  <1>36. ASSUME NEW w \in Windows, RunExport(w) PROVE SlotInv'
    BY <1>36 DEF RunExport
  <1>37. ASSUME NEW w \in Windows, EndExport(w) PROVE SlotInv'
    BY <1>37 DEF EndExport
  <1>38. ASSUME NEW w \in Windows, DeferredCancel(w) PROVE SlotInv'
    BY <1>38 DEF DeferredCancel, CancelActive, Past
  <1>39. CASE EndMutation
    BY <1>39 DEF EndMutation
  <1>40. CASE CloseRevoke
    BY <1>40 DEF CloseRevoke, Revoked
  <1>41. CASE CloseCancel
    BY <1>41 DEF CloseCancel, Postpone, CancelActive, Past
  <1>42. ASSUME NEW w \in Windows, CloseEvent(w) PROVE SlotInv'
    BY <1>42 DEF CloseEvent
  <1>43. CASE UNCHANGED vars
    BY <1>43
  <1> QED
    BY <1>1, <1>2, <1>3, <1>4, <1>5, <1>6, <1>7, <1>8, <1>9, <1>10, <1>11, <1>12, <1>13,
       <1>14, <1>15, <1>16, <1>17, <1>18, <1>19, <1>20, <1>21, <1>22, <1>23, <1>24, <1>25,
       <1>26, <1>27, <1>28, <1>29, <1>30, <1>30a, <1>31, <1>32, <1>33, <1>34, <1>35,
       <1>36, <1>37,
       <1>38, <1>39, <1>40, <1>41, <1>42, <1>43
       DEF Next, Steady, Command, Background

\* Commands and worker change the phase and the control word together, or in an order
\* the next reader understands (pause_for_owner, record_worker_phase).
LEMMA PhaseStep ==
  ASSUME TypeOK, PhaseInv, [Next]_vars
  PROVE  PhaseInv'
  <1> USE Names DEF TypeOK, LivePhase, EndPhase, Stage, Directive, Step, Durable, Job,
      Result, Closing, PhaseInv, Late, vars, registry, others, windows, control, worker,
      counts, Fault, Goto, WorkerElse, Silent, NoFault, Unlocked, Owned, NoExportElse,
      SetExport
  <1>1. CASE BindRun
    BY <1>1 DEF BindRun, Return
  <1>2. CASE ReadDirective
    BY <1>2 DEF ReadDirective, Heard
  <1>3. CASE ActCancel
    BY <1>3 DEF ActCancel, Cancelled, Return
  <1>4. CASE ActDone
    BY <1>4 DEF ActDone, More, Interrupted, Return
  <1>5. CASE ActPause
    BY <1>5 DEF ActPause, More, Interrupted, Return
  <1>6. CASE ActWork
    BY <1>6 DEF ActWork, More, Interrupted, Return
  <1>7. CASE Park
    BY <1>7 DEF Park, Record, StickyPhase
  <1>8. CASE Wake
    BY <1>8 DEF Wake, Awake
  <1>9. CASE LeavePark
    BY <1>9 DEF LeavePark, AfterWake
  <1>10. CASE AckResume
    BY <1>10 DEF AckResume, Interrupted, Return
  <1>11. CASE Resumed
    BY <1>11 DEF Resumed, Record, StickyPhase
  <1>12. CASE Settle
    BY <1>12 DEF Settle, DropPause
  <1>13. CASE EndPausing
    BY <1>13 DEF EndPausing, Record, StickyPhase
  <1>14. CASE Fingerprinting
    BY <1>14 DEF Fingerprinting, EnterStage
  <1>15. CASE Fingerprinted
    BY <1>15 DEF Fingerprinted, EnterStage
  <1>16. CASE Verified
    BY <1>16 DEF Verified, LastLook
  <1>17. CASE StageCancelled
    BY <1>17 DEF StageCancelled, Return
  <1>18. CASE StageFailed
    BY <1>18 DEF StageFailed, Interrupted, Return
  <1>19. CASE Seal
    BY <1>19 DEF Seal, Interrupted, Return
  <1>20. CASE CaptureTime
    BY <1>20 DEF CaptureTime, EnterStage
  <1>21. CASE Captured
    BY <1>21 DEF Captured, EnterStage
  <1>22. CASE Finish
    BY <1>22 DEF Finish
  <1>23. CASE Panic
    BY <1>23 DEF Panic, Return
  <1>24. ASSUME NEW w \in Windows, SelectRoot(w) PROVE PhaseInv'
    BY <1>24 DEF SelectRoot
  <1>25. ASSUME NEW w \in Windows, Start(w) PROVE PhaseInv'
    BY <1>25 DEF Start, StartAvailable, SlotFree, Exporting
  <1>26. ASSUME NEW w \in Windows, Pause(w) PROVE PhaseInv'
    BY <1>26 DEF Pause, PauseHeard
  <1>27. ASSUME NEW w \in Windows, Resume(w) PROVE PhaseInv'
    BY <1>27 DEF Resume, ResumeHeard
  <1>28. ASSUME NEW w \in Windows, Cancel(w) PROVE PhaseInv'
    BY <1>28 DEF Cancel, CancelActive, Past
  <1>29. ASSUME NEW w \in Windows, NEW j \in 1 .. MaxJobs, Acknowledge(w, j) PROVE PhaseInv'
    BY <1>29 DEF Acknowledge
  <1>30. ASSUME NEW w \in Windows, PickTarget(w) PROVE PhaseInv'
    BY <1>30 DEF PickTarget, Quiet
  <1>30a. ASSUME NEW w \in Windows, OpenPicker(w) PROVE PhaseInv'
    BY <1>30a DEF OpenPicker
  <1>31. ASSUME NEW w \in Windows, CheckTarget(w) PROVE PhaseInv'
    BY <1>31 DEF CheckTarget
  <1>32. ASSUME NEW w \in Windows, GrantExport(w) PROVE PhaseInv'
    BY <1>32 DEF GrantExport, Quiet
  <1>33. ASSUME NEW w \in Windows, BeginExport(w) PROVE PhaseInv'
    BY <1>33 DEF BeginExport, Quiet
  <1>34. ASSUME NEW w \in Windows, CancelExport(w) PROVE PhaseInv'
    BY <1>34 DEF CancelExport
  <1>35. ASSUME NEW w \in Windows, BeginMutation(w) PROVE PhaseInv'
    BY <1>35 DEF BeginMutation, MutationAvailable, Quiet, Exporting
  <1>36. ASSUME NEW w \in Windows, RunExport(w) PROVE PhaseInv'
    BY <1>36 DEF RunExport
  <1>37. ASSUME NEW w \in Windows, EndExport(w) PROVE PhaseInv'
    BY <1>37 DEF EndExport
  <1>38. ASSUME NEW w \in Windows, DeferredCancel(w) PROVE PhaseInv'
    BY <1>38 DEF DeferredCancel, CancelActive, Past
  <1>39. CASE EndMutation
    BY <1>39 DEF EndMutation
  <1>40. CASE CloseRevoke
    BY <1>40 DEF CloseRevoke, Revoked
  <1>41. CASE CloseCancel
    BY <1>41 DEF CloseCancel, Postpone, CancelActive, Past
  <1>42. ASSUME NEW w \in Windows, CloseEvent(w) PROVE PhaseInv'
    BY <1>42 DEF CloseEvent
  <1>43. CASE UNCHANGED vars
    BY <1>43
  <1> QED
    BY <1>1, <1>2, <1>3, <1>4, <1>5, <1>6, <1>7, <1>8, <1>9, <1>10, <1>11, <1>12, <1>13,
       <1>14, <1>15, <1>16, <1>17, <1>18, <1>19, <1>20, <1>21, <1>22, <1>23, <1>24, <1>25,
       <1>26, <1>27, <1>28, <1>29, <1>30, <1>30a, <1>31, <1>32, <1>33, <1>34, <1>35,
       <1>36, <1>37,
       <1>38, <1>39, <1>40, <1>41, <1>42, <1>43
       DEF Next, Steady, Command, Background

\* The worker returns what it recorded, and a cancellation accepted before its last
\* look reaches it (run_persistent_scan).
LEMMA EndStep ==
  ASSUME TypeOK, PhaseInv, EndInv, [Next]_vars
  PROVE  EndInv'
  <1> USE Names, LimitsAssumption DEF TypeOK, LivePhase, EndPhase, Stage, Directive, Step,
      Durable, Job, Result, Closing, PhaseInv, Late, EndInv, EndsTruly, ReportedAsRecorded,
      CancelHonoured, Past, vars, registry, others, windows, control, worker, counts, Fault,
      Goto, WorkerElse, Silent, NoFault, Unlocked, Owned, NoExportElse, SetExport
  <1>1. CASE BindRun
    BY <1>1 DEF BindRun, Return
  <1>2. CASE ReadDirective
    BY <1>2 DEF ReadDirective, Heard
  <1>3. CASE ActCancel
    BY <1>3 DEF ActCancel, Cancelled, Return
  <1>4. CASE ActDone
    BY <1>4 DEF ActDone, More, Interrupted, Return
  <1>5. CASE ActPause
    BY <1>5 DEF ActPause, More, Interrupted, Return
  <1>6. CASE ActWork
    BY <1>6 DEF ActWork, More, Interrupted, Return
  <1>7. CASE Park
    BY <1>7 DEF Park, Record, StickyPhase
  <1>8. CASE Wake
    BY <1>8 DEF Wake, Awake
  <1>9. CASE LeavePark
    BY <1>9 DEF LeavePark, AfterWake
  <1>10. CASE AckResume
    BY <1>10 DEF AckResume, Interrupted, Return
  <1>11. CASE Resumed
    BY <1>11 DEF Resumed, Record, StickyPhase
  <1>12. CASE Settle
    BY <1>12 DEF Settle, DropPause
  <1>13. CASE EndPausing
    BY <1>13 DEF EndPausing, Record, StickyPhase
  <1>14. CASE Fingerprinting
    BY <1>14 DEF Fingerprinting, EnterStage
  <1>15. CASE Fingerprinted
    BY <1>15 DEF Fingerprinted, EnterStage
  <1>16. CASE Verified
    BY <1>16 DEF Verified, LastLook
  <1>17. CASE StageCancelled
    BY <1>17 DEF StageCancelled, Return
  <1>18. CASE StageFailed
    BY <1>18 DEF StageFailed, Interrupted, Return
  <1>19. CASE Seal
    BY <1>19 DEF Seal, Interrupted, Return
  <1>20. CASE CaptureTime
    BY <1>20 DEF CaptureTime, EnterStage
  <1>21. CASE Captured
    BY <1>21 DEF Captured, EnterStage
  <1>22. CASE Finish
    BY <1>22 DEF Finish
  <1>23. CASE Panic
    BY <1>23 DEF Panic, Return
  <1>24. ASSUME NEW w \in Windows, SelectRoot(w) PROVE EndInv'
    BY <1>24 DEF SelectRoot
  <1>25. ASSUME NEW w \in Windows, Start(w) PROVE EndInv'
    BY <1>25 DEF Start, StartAvailable, SlotFree, Exporting
  <1>26. ASSUME NEW w \in Windows, Pause(w) PROVE EndInv'
    BY <1>26 DEF Pause, PauseHeard
  <1>27. ASSUME NEW w \in Windows, Resume(w) PROVE EndInv'
    BY <1>27 DEF Resume, ResumeHeard
  <1>28. ASSUME NEW w \in Windows, Cancel(w) PROVE EndInv'
    BY <1>28 DEF Cancel, CancelActive
  <1>29. ASSUME NEW w \in Windows, NEW j \in 1 .. MaxJobs, Acknowledge(w, j) PROVE EndInv'
    BY <1>29 DEF Acknowledge
  <1>30. ASSUME NEW w \in Windows, PickTarget(w) PROVE EndInv'
    BY <1>30 DEF PickTarget, Quiet
  <1>30a. ASSUME NEW w \in Windows, OpenPicker(w) PROVE EndInv'
    BY <1>30a DEF OpenPicker
  <1>31. ASSUME NEW w \in Windows, CheckTarget(w) PROVE EndInv'
    BY <1>31 DEF CheckTarget
  <1>32. ASSUME NEW w \in Windows, GrantExport(w) PROVE EndInv'
    BY <1>32 DEF GrantExport, Quiet
  <1>33. ASSUME NEW w \in Windows, BeginExport(w) PROVE EndInv'
    BY <1>33 DEF BeginExport, Quiet
  <1>34. ASSUME NEW w \in Windows, CancelExport(w) PROVE EndInv'
    BY <1>34 DEF CancelExport
  <1>35. ASSUME NEW w \in Windows, BeginMutation(w) PROVE EndInv'
    BY <1>35 DEF BeginMutation, MutationAvailable, Quiet, Exporting
  <1>36. ASSUME NEW w \in Windows, RunExport(w) PROVE EndInv'
    BY <1>36 DEF RunExport
  <1>37. ASSUME NEW w \in Windows, EndExport(w) PROVE EndInv'
    BY <1>37 DEF EndExport
  <1>38. ASSUME NEW w \in Windows, DeferredCancel(w) PROVE EndInv'
    BY <1>38 DEF DeferredCancel, CancelActive
  <1>39. CASE EndMutation
    BY <1>39 DEF EndMutation
  <1>40. CASE CloseRevoke
    BY <1>40 DEF CloseRevoke, Revoked
  <1>41. CASE CloseCancel
    BY <1>41 DEF CloseCancel, Postpone, CancelActive
  <1>42. ASSUME NEW w \in Windows, CloseEvent(w) PROVE EndInv'
    BY <1>42 DEF CloseEvent
  <1>43. CASE UNCHANGED vars
    BY <1>43
  <1> QED
    BY <1>1, <1>2, <1>3, <1>4, <1>5, <1>6, <1>7, <1>8, <1>9, <1>10, <1>11, <1>12, <1>13,
       <1>14, <1>15, <1>16, <1>17, <1>18, <1>19, <1>20, <1>21, <1>22, <1>23, <1>24, <1>25,
       <1>26, <1>27, <1>28, <1>29, <1>30, <1>30a, <1>31, <1>32, <1>33, <1>34, <1>35,
       <1>36, <1>37,
       <1>38, <1>39, <1>40, <1>41, <1>42, <1>43
       DEF Next, Steady, Command, Background

\* A close event takes the window's token first, its exports second and its scan last
\* (cancel_for_window_close).
LEMMA WindowStep ==
  ASSUME TypeOK, WindowInv, [Next]_vars
  PROVE  WindowInv'
  <1> USE Names DEF TypeOK, LivePhase, EndPhase, Stage, Directive, Step, Durable, Job,
      Result, Closing, WindowInv, vars, registry, others, windows, control, worker, counts,
      Fault, Goto, WorkerElse, Silent, NoFault, Unlocked, Owned, NoExportElse, SetExport
  <1>1. CASE BindRun
    BY <1>1 DEF BindRun, Return
  <1>2. CASE ReadDirective
    BY <1>2 DEF ReadDirective, Heard
  <1>3. CASE ActCancel
    BY <1>3 DEF ActCancel, Cancelled, Return
  <1>4. CASE ActDone
    BY <1>4 DEF ActDone, More, Interrupted, Return
  <1>5. CASE ActPause
    BY <1>5 DEF ActPause, More, Interrupted, Return
  <1>6. CASE ActWork
    BY <1>6 DEF ActWork, More, Interrupted, Return
  <1>7. CASE Park
    BY <1>7 DEF Park, Record, StickyPhase
  <1>8. CASE Wake
    BY <1>8 DEF Wake, Awake
  <1>9. CASE LeavePark
    BY <1>9 DEF LeavePark, AfterWake
  <1>10. CASE AckResume
    BY <1>10 DEF AckResume, Interrupted, Return
  <1>11. CASE Resumed
    BY <1>11 DEF Resumed, Record, StickyPhase
  <1>12. CASE Settle
    BY <1>12 DEF Settle, DropPause
  <1>13. CASE EndPausing
    BY <1>13 DEF EndPausing, Record, StickyPhase
  <1>14. CASE Fingerprinting
    BY <1>14 DEF Fingerprinting, EnterStage
  <1>15. CASE Fingerprinted
    BY <1>15 DEF Fingerprinted, EnterStage
  <1>16. CASE Verified
    BY <1>16 DEF Verified, LastLook
  <1>17. CASE StageCancelled
    BY <1>17 DEF StageCancelled, Return
  <1>18. CASE StageFailed
    BY <1>18 DEF StageFailed, Interrupted, Return
  <1>19. CASE Seal
    BY <1>19 DEF Seal, Interrupted, Return
  <1>20. CASE CaptureTime
    BY <1>20 DEF CaptureTime, EnterStage
  <1>21. CASE Captured
    BY <1>21 DEF Captured, EnterStage
  <1>22. CASE Finish
    BY <1>22 DEF Finish
  <1>23. CASE Panic
    BY <1>23 DEF Panic, Return
  <1>24. ASSUME NEW w \in Windows, SelectRoot(w) PROVE WindowInv'
    BY <1>24 DEF SelectRoot
  <1>25. ASSUME NEW w \in Windows, Start(w) PROVE WindowInv'
    BY <1>25 DEF Start, StartAvailable, SlotFree, Exporting
  <1>26. ASSUME NEW w \in Windows, Pause(w) PROVE WindowInv'
    BY <1>26 DEF Pause, PauseHeard
  <1>27. ASSUME NEW w \in Windows, Resume(w) PROVE WindowInv'
    BY <1>27 DEF Resume, ResumeHeard
  <1>28. ASSUME NEW w \in Windows, Cancel(w) PROVE WindowInv'
    BY <1>28 DEF Cancel, CancelActive, Past
  <1>29. ASSUME NEW w \in Windows, NEW j \in 1 .. MaxJobs, Acknowledge(w, j) PROVE WindowInv'
    BY <1>29 DEF Acknowledge
  <1>30. ASSUME NEW w \in Windows, PickTarget(w) PROVE WindowInv'
    BY <1>30 DEF PickTarget, Quiet
  <1>30a. ASSUME NEW w \in Windows, OpenPicker(w) PROVE WindowInv'
    BY <1>30a DEF OpenPicker
  <1>31. ASSUME NEW w \in Windows, CheckTarget(w) PROVE WindowInv'
    BY <1>31 DEF CheckTarget
  <1>32. ASSUME NEW w \in Windows, GrantExport(w) PROVE WindowInv'
    BY <1>32 DEF GrantExport, Quiet
  <1>33. ASSUME NEW w \in Windows, BeginExport(w) PROVE WindowInv'
    BY <1>33 DEF BeginExport, Quiet
  <1>34. ASSUME NEW w \in Windows, CancelExport(w) PROVE WindowInv'
    BY <1>34 DEF CancelExport
  <1>35. ASSUME NEW w \in Windows, BeginMutation(w) PROVE WindowInv'
    BY <1>35 DEF BeginMutation, MutationAvailable, Quiet, Exporting
  <1>36. ASSUME NEW w \in Windows, RunExport(w) PROVE WindowInv'
    BY <1>36 DEF RunExport
  <1>37. ASSUME NEW w \in Windows, EndExport(w) PROVE WindowInv'
    BY <1>37 DEF EndExport
  <1>38. ASSUME NEW w \in Windows, DeferredCancel(w) PROVE WindowInv'
    BY <1>38 DEF DeferredCancel, CancelActive, Past
  <1>39. CASE EndMutation
    BY <1>39 DEF EndMutation
  <1>40. CASE CloseRevoke
    BY <1>40 DEF CloseRevoke, Revoked
  <1>41. CASE CloseCancel
    BY <1>41 DEF CloseCancel, Postpone, CancelActive, Past
  <1>42. ASSUME NEW w \in Windows, CloseEvent(w) PROVE WindowInv'
    BY <1>42 DEF CloseEvent
  <1>43. CASE UNCHANGED vars
    BY <1>43
  <1> QED
    BY <1>1, <1>2, <1>3, <1>4, <1>5, <1>6, <1>7, <1>8, <1>9, <1>10, <1>11, <1>12, <1>13,
       <1>14, <1>15, <1>16, <1>17, <1>18, <1>19, <1>20, <1>21, <1>22, <1>23, <1>24, <1>25,
       <1>26, <1>27, <1>28, <1>29, <1>30, <1>30a, <1>31, <1>32, <1>33, <1>34, <1>35,
       <1>36, <1>37,
       <1>38, <1>39, <1>40, <1>41, <1>42, <1>43
       DEF Next, Steady, Command, Background

\* No step of any actor forges a resume or drops an unacknowledged result.
LEMMA ForgeStep ==
  ASSUME TypeOK, EndInv, [Next]_vars
  PROVE  Faithful
  <1> USE DEF EndInv, TypeOK, Faithful, vars, registry, others, windows, control, worker,
      counts, Fault, Goto, WorkerElse, Silent, NoFault, Unlocked, Owned, NoExportElse,
      SetExport
  <1>1. CASE BindRun
    BY <1>1 DEF BindRun, Return
  <1>2. CASE ReadDirective
    BY <1>2 DEF ReadDirective, Heard
  <1>3. CASE ActCancel
    BY <1>3 DEF ActCancel, Cancelled, Return
  <1>4. CASE ActDone
    BY <1>4 DEF ActDone, More, Interrupted, Return
  <1>5. CASE ActPause
    BY <1>5 DEF ActPause, More, Interrupted, Return
  <1>6. CASE ActWork
    BY <1>6 DEF ActWork, More, Interrupted, Return
  <1>7. CASE Park
    BY <1>7 DEF Park, Record, StickyPhase
  <1>8. CASE Wake
    BY <1>8 DEF Wake, Awake
  <1>9. CASE LeavePark
    BY <1>9 DEF LeavePark, AfterWake
  <1>10. CASE AckResume
    BY <1>10 DEF AckResume, Interrupted, Return
  <1>11. CASE Resumed
    BY <1>11 DEF Resumed, Record, StickyPhase
  <1>12. CASE Settle
    BY <1>12 DEF Settle, DropPause
  <1>13. CASE EndPausing
    BY <1>13 DEF EndPausing, Record, StickyPhase
  <1>14. CASE Fingerprinting
    BY <1>14 DEF Fingerprinting, EnterStage
  <1>15. CASE Fingerprinted
    BY <1>15 DEF Fingerprinted, EnterStage
  <1>16. CASE Verified
    BY <1>16 DEF Verified, LastLook
  <1>17. CASE StageCancelled
    BY <1>17 DEF StageCancelled, Return
  <1>18. CASE StageFailed
    BY <1>18 DEF StageFailed, Interrupted, Return
  <1>19. CASE Seal
    BY <1>19 DEF Seal, Interrupted, Return
  <1>20. CASE CaptureTime
    BY <1>20 DEF CaptureTime, EnterStage
  <1>21. CASE Captured
    BY <1>21 DEF Captured, EnterStage
  <1>22. CASE Finish
    BY <1>22 DEF Finish
  <1>23. CASE Panic
    BY <1>23 DEF Panic, Return
  <1>24. ASSUME NEW w \in Windows, SelectRoot(w) PROVE Faithful
    BY <1>24 DEF SelectRoot
  <1>25. ASSUME NEW w \in Windows, Start(w) PROVE Faithful
    BY <1>25 DEF Start, StartAvailable, SlotFree, Exporting
  <1>26. ASSUME NEW w \in Windows, Pause(w) PROVE Faithful
    BY <1>26 DEF Pause, PauseHeard
  <1>27. ASSUME NEW w \in Windows, Resume(w) PROVE Faithful
    BY <1>27 DEF Resume, ResumeHeard
  <1>28. ASSUME NEW w \in Windows, Cancel(w) PROVE Faithful
    BY <1>28 DEF Cancel, CancelActive, Past
  <1>29. ASSUME NEW w \in Windows, NEW j \in 1 .. MaxJobs, Acknowledge(w, j) PROVE Faithful
    BY <1>29 DEF Acknowledge
  <1>30. ASSUME NEW w \in Windows, PickTarget(w) PROVE Faithful
    BY <1>30 DEF PickTarget, Quiet
  <1>30a. ASSUME NEW w \in Windows, OpenPicker(w) PROVE Faithful
    BY <1>30a DEF OpenPicker
  <1>31. ASSUME NEW w \in Windows, CheckTarget(w) PROVE Faithful
    BY <1>31 DEF CheckTarget
  <1>32. ASSUME NEW w \in Windows, GrantExport(w) PROVE Faithful
    BY <1>32 DEF GrantExport, Quiet
  <1>33. ASSUME NEW w \in Windows, BeginExport(w) PROVE Faithful
    BY <1>33 DEF BeginExport, Quiet
  <1>34. ASSUME NEW w \in Windows, CancelExport(w) PROVE Faithful
    BY <1>34 DEF CancelExport
  <1>35. ASSUME NEW w \in Windows, BeginMutation(w) PROVE Faithful
    BY <1>35 DEF BeginMutation, MutationAvailable, Quiet, Exporting
  <1>36. ASSUME NEW w \in Windows, RunExport(w) PROVE Faithful
    BY <1>36 DEF RunExport
  <1>37. ASSUME NEW w \in Windows, EndExport(w) PROVE Faithful
    BY <1>37 DEF EndExport
  <1>38. ASSUME NEW w \in Windows, DeferredCancel(w) PROVE Faithful
    BY <1>38 DEF DeferredCancel, CancelActive, Past
  <1>39. CASE EndMutation
    BY <1>39 DEF EndMutation
  <1>40. CASE CloseRevoke
    BY <1>40 DEF CloseRevoke, Revoked
  <1>41. CASE CloseCancel
    BY <1>41 DEF CloseCancel, Postpone, CancelActive, Past
  <1>42. ASSUME NEW w \in Windows, CloseEvent(w) PROVE Faithful
    BY <1>42 DEF CloseEvent
  <1>43. CASE UNCHANGED vars
    BY <1>43
  <1> QED
    BY <1>1, <1>2, <1>3, <1>4, <1>5, <1>6, <1>7, <1>8, <1>9, <1>10, <1>11, <1>12, <1>13,
       <1>14, <1>15, <1>16, <1>17, <1>18, <1>19, <1>20, <1>21, <1>22, <1>23, <1>24, <1>25,
       <1>26, <1>27, <1>28, <1>29, <1>30, <1>30a, <1>31, <1>32, <1>33, <1>34, <1>35,
       <1>36, <1>37,
       <1>38, <1>39, <1>40, <1>41, <1>42, <1>43
       DEF Next, Steady, Command, Background

-----------------------------------------------------------------------------
\* Every reachable state satisfies the invariant.
LEMMA InvHolds == Spec => []Inv
  <1>1. Inv /\ [Next]_vars => Inv'
    BY TypeStep, SlotStep, PhaseStep, EndStep, WindowStep DEF Inv
  <1> QED
    BY InitInv, <1>1, PTL DEF Spec

\* The registry, the control word, the worker and the windows keep their types.
THEOREM TypeCorrect == Spec => []TypeOK
  <1>1. Inv => TypeOK
    BY DEF Inv
  <1> QED
    BY <1>1, InvHolds, PTL

\* A scan, an export and a quarantine operation exclude each other, although
\* each checks the other two at a gate of its own (ensure_scan_start_available,
\* begin_history_export, begin_filesystem_mutation).
THEOREM UsersExclude == Spec => []Exclusive
  <1>1. Inv => Exclusive
    BY DEF Inv, SlotInv
  <1> QED
    BY <1>1, InvHolds, PTL

\* The phase a window is shown and the word the worker obeys agree, whatever
\* command meets whatever step of the worker (record_worker_phase,
\* finish_enumeration).
THEOREM StatusIsTrue == Spec => []StatusTracksControl
  <1>1. Inv => StatusTracksControl
    BY DEF Inv, TypeOK, PhaseInv, StatusTracksControl, Late, Job, LivePhase
  <1> QED
    BY <1>1, InvHolds, PTL

\* A result shown as completed or cancelled is what the store holds, and an
\* accepted cancellation is never answered with a completed scan.
THEOREM EndsAreTrue == Spec => []EndsTruly
  <1>1. Inv => EndsTruly
    BY DEF Inv, EndInv
  <1> QED
    BY <1>1, InvHolds, PTL

\* Nothing of a destroyed window goes on unstopped (cancel_for_window_close).
THEOREM NothingIsOrphaned == Spec => []NoOrphan
  <1>1. Inv => NoOrphan
    BY DEF Inv, WindowInv, NoOrphan
  <1> QED
    BY <1>1, InvHolds, PTL

\* A cancelled pause is never recorded as a resume, and a result nobody has
\* acknowledged is never replaced (wait_while_paused, ScanJobManager::finish).
THEOREM NothingIsForged == Spec => NothingForged
  <1>1. Inv /\ [Next]_vars => [durable = "paused" /\ durable' = "running" => stopped # "paused"]_vars
    BY ForgeStep DEF Inv, Faithful
  <1>2. Inv /\ [Next]_vars => [terminal' # terminal => terminal = None \/ acked]_vars
    BY ForgeStep DEF Inv, Faithful
  <1> QED
    BY <1>1, <1>2, InvHolds, PTL DEF Spec, NothingForged, NoForgedResume, UnacknowledgedKept
=============================================================================
