------------------------------- MODULE Grants -------------------------------
(***************************************************************************)
(* scan_service.rs: what a window may hold of the desktop process.         *)
(*                                                                         *)
(* A window opens a sealed scan and gets a result token; under the token   *)
(* it reads pages and picks a file to export to, which gives an export     *)
(* token; under that one it exports.  A folder picker gives a root token.  *)
(* Each command is a task that takes the registries' locks one after the   *)
(* other, so a close, a reopening, an expiry or the closing of the window  *)
(* may come between any two of its steps.  What a task holds is released   *)
(* by destructors, some of which leave the work to a task of its own.      *)
(*                                                                         *)
(* Tokens, generations and sequence numbers are drawn once and compared    *)
(* for equality only: the number of the opening stands for its permit, its *)
(* token and its generation, the number of the selection for its permit    *)
(* and its export token.  A window that was closed once stays closed, so   *)
(* its epoch says no more than the flag does.  The one scan slot and the   *)
(* gates between scans and exports are in ScanJob; here a gate may refuse. *)
(***************************************************************************)
EXTENDS Naturals, FiniteSets, TLC

CONSTANTS Windows, Runs,
          Tasks,           \* bound: commands in progress at a time
          None,
          MaxReads,        \* MAX_RESULT_READ_TOKENS
          MaxReadsOf,      \* MAX_RESULT_READ_TOKENS_PER_OWNER
          MaxExports,      \* MAX_HISTORY_EXPORTS
          MaxExportsOf,    \* MAX_HISTORY_EXPORTS_PER_OWNER
          MaxRoots,        \* MAX_PENDING_SCAN_ROOT_TOKENS
          MaxListings,     \* MAX_CONCURRENT_HISTORY_READS
          MaxOpens,        \* bound: openings of results
          MaxSelections,   \* bound: export files picked
          MaxPickers,      \* bound: folder pickers opened
          MaxCloses        \* bound: close events of a window (the program has two)

Opens      == 1 .. MaxOpens
Selections == 1 .. MaxSelections
Pickers    == 1 .. MaxPickers

ASSUME BoundsAssumption ==
  {MaxReads, MaxReadsOf, MaxExports, MaxExportsOf, MaxRoots, MaxListings,
   MaxOpens, MaxSelections, MaxPickers, MaxCloses} \subseteq Nat

VARIABLES
  closed,     \* ResultOwnerState.closed
  closing,    \* the close event being handled: its window and next step
  events,     \* close events each window has had
  cleanups,   \* windows whose results a spawned task is to remove
  opened,     \* next_open_sequence
  pending,    \* pending_opens
  reads,      \* ResultReadRegistry.grants
  dropping,   \* openings whose pending record a spawned task is to remove
  releasing,  \* tokens whose in_flight a spawned task is to clear
  selected,   \* HistoryExportRegistry.next_selection_sequence
  exports,    \* its pending selections, grants and running exports
  listings,   \* HistoryReadGate
  picked,     \* ScanRootTokenRegistry.next_selection_sequence
  picking,    \* its pending selections
  roots,      \* its grants, under the picker that gave them
  task,       \* the commands in progress
  revoked,    \* ghost: tokens whose exports were revoked
  stale       \* ghost: pickers open when their window was told to close

closeVars  == <<closed, closing, events, cleanups>>
readVars   == <<opened, pending, reads, dropping, releasing>>
exportVars == <<selected, exports>>
rootVars   == <<picked, picking, roots>>
ghosts     == <<revoked, stale>>
vars == <<closeVars, readVars, exportVars, listings, rootVars, task, ghosts>>

Pending == [window : Windows, run : Runs]
Grant   == [window : Windows, run : Runs, busy : BOOLEAN, late : BOOLEAN]
Export  == [window : Windows, token : Opens,
            stage : {"pending", "granted", "running"}, cancelled : BOOLEAN]

\* A task: its next step, its window, the token it works with, the selection,
\* picker or replaced token it works on, and whether it is an opening.
Step == {"open", "dropOpen", "replace", "issued", "reading", "check", "revokeLease",
         "close", "revoke", "bound", "picking", "checked", "unpick", "exporting",
         "leased", "unlease", "writing", "panicked", "cleanup", "list", "choosing"}
Task == [pc : Step, window : Windows, token : Opens \cup {0},
         number : Opens \cup Selections \cup Pickers \cup {0}, opens : BOOLEAN]

Closing == [window : Windows, step : {"mark", "revoke", "remove"}]
Root    == [window : Windows]

\* None is none of the records it stands beside.
ASSUME NoneAssumption ==
  None \notin Pending \cup Grant \cup Export \cup Task \cup Closing \cup Root

TypeOK ==
  /\ closed \subseteq Windows /\ cleanups \subseteq Windows
  /\ closing \in Closing \cup {None}
  /\ events \in [Windows -> 0 .. MaxCloses]
  /\ opened \in 0 .. MaxOpens
  /\ pending \in [Opens -> Pending \cup {None}]
  /\ reads \in [Opens -> Grant \cup {None}]
  /\ dropping \subseteq Opens /\ releasing \subseteq Opens
  /\ selected \in 0 .. MaxSelections
  /\ exports \in [Selections -> Export \cup {None}]
  /\ listings \in [Windows -> Nat]
  /\ picked \in 0 .. MaxPickers
  /\ picking \in [Windows -> 0 .. MaxPickers]
  /\ roots \in [Pickers -> Root \cup {None}]
  /\ task \in [Tasks -> Task \cup {None}]
  /\ revoked \subseteq Opens /\ stale \subseteq Pickers

Init ==
  /\ closed = {} /\ closing = None /\ events = [w \in Windows |-> 0] /\ cleanups = {}
  /\ opened = 0 /\ pending = [s \in Opens |-> None] /\ reads = [s \in Opens |-> None]
  /\ dropping = {} /\ releasing = {}
  /\ selected = 0 /\ exports = [x \in Selections |-> None]
  /\ listings = [w \in Windows |-> 0]
  /\ picked = 0 /\ picking = [w \in Windows |-> 0] /\ roots = [p \in Pickers |-> None]
  /\ task = [t \in Tasks |-> None]
  /\ revoked = {} /\ stale = {}

-----------------------------------------------------------------------------
(* Tasks. *)

At(t, step) == task[t] # None /\ task[t].pc = step
Goto(t, step) == task' = [task EXCEPT ![t].pc = step]
Renumber(t, step, number) == task' = [task EXCEPT ![t].pc = step, ![t].number = number]
Done(t) == task' = [task EXCEPT ![t] = None]
Begin(t, step, w, token, number) ==
  task' = [task EXCEPT ![t] = [pc |-> step, window |-> w, token |-> token,
                               number |-> number, opens |-> step = "open"]]

\* begin_history_export keeps the job registry locked from its first look at
\* the export token until the export counts as running.
RegistryFree == \A t \in Tasks : ~At(t, "exporting") /\ ~At(t, "leased")

Present(table) == {k \in DOMAIN table : table[k] # None}
OfWindow(table, w) == {k \in Present(table) : table[k].window = w}
Fresh(table) == [k \in DOMAIN table |->
                   IF table[k] # None /\ table[k].late THEN None ELSE table[k]]

-----------------------------------------------------------------------------
(* Opening a sealed result. *)

SameRun(entry, w, r) == entry.window = w /\ entry.run = r
Replaced(grants, w, r) == {s \in Present(grants) : SameRun(grants[s], w, r)}

\* Room for one more token: the one it is to replace does not count.
Room(grants, w, r, waiting) ==
  /\ Cardinality(Present(grants) \ Replaced(grants, w, r)) + Cardinality(waiting)
       < MaxReads
  /\ Cardinality(OfWindow(grants, w) \ Replaced(grants, w, r))
       + Cardinality(waiting \cap OfWindow(pending, w)) < MaxReadsOf

OpenAdmitted(w, r) ==
  /\ \A s \in Present(pending) : ~SameRun(pending[s], w, r)
  /\ Room(Fresh(reads), w, r, Present(pending))

\* begin_result_open
BeginOpen(t, w, r) ==
  /\ task[t] = None /\ opened < MaxOpens /\ w \notin closed
  /\ reads' = Fresh(reads)
  /\ IF OpenAdmitted(w, r)
     THEN /\ opened' = opened + 1
          /\ pending' = [pending EXCEPT ![opened'] = [window |-> w, run |-> r]]
          /\ Begin(t, "open", w, opened', 0)
     ELSE UNCHANGED <<opened, pending, task>>
  /\ UNCHANGED <<closeVars, dropping, releasing, exportVars, listings, rootVars, ghosts>>

\* issue_result_read_at: the pending record and the token of an earlier
\* opening of the run give way to the new token, under one lock; the exports
\* of the replaced token are revoked after it.
Issue(t) ==
  /\ At(t, "open")
  /\ LET s == task[t].token
         w == task[t].window
         r == pending[s].run
         kept == Fresh(reads)
         old == Replaced(kept, w, r)
     IN /\ w \notin closed /\ pending[s] # None
        /\ Room(kept, w, r, Present(pending) \ {s})
        /\ reads' = [p \in Opens |->
             IF p = s THEN [window |-> w, run |-> r, busy |-> FALSE, late |-> FALSE]
             ELSE IF p \in old THEN None ELSE kept[p]]
        /\ pending' = [pending EXCEPT ![s] = None]
        /\ \/ old = {} /\ Goto(t, "issued")
           \/ \E p \in old : Renumber(t, "replace", p)
  /\ UNCHANGED <<closeVars, opened, dropping, releasing, exportVars, listings,
                 rootVars, ghosts>>

\* The run is active again, the reader fails, the window closed or there is
\* no room: open_scan_history returns early.  The refusal for want of room
\* comes after the expired tokens were pruned.
RefuseOpen(t) ==
  /\ At(t, "open")
  /\ reads' \in {reads, Fresh(reads)}
  /\ Goto(t, "dropOpen")
  /\ UNCHANGED <<closeVars, opened, pending, dropping, releasing, exportVars,
                 listings, rootVars, ghosts>>

\* ResultOpenPermit's destructor: at once, or by a task of its own when the
\* registry is locked.
DropOpenOrForget(t) ==
  /\ At(t, "dropOpen")
  /\ \/ pending' = [pending EXCEPT ![task[t].token] = None]
     \/ UNCHANGED pending
  /\ Done(t)
  /\ UNCHANGED <<closeVars, opened, reads, dropping, releasing, exportVars, listings,
                 rootVars, ghosts>>
DropOpen(t) ==
  /\ At(t, "dropOpen")
  /\ \/ pending' = [pending EXCEPT ![task[t].token] = None] /\ UNCHANGED dropping
     \/ dropping' = dropping \cup {task[t].token} /\ UNCHANGED pending
  /\ Done(t)
  /\ UNCHANGED <<closeVars, opened, reads, releasing, exportVars, listings,
                 rootVars, ghosts>>

DropLater(s) ==
  /\ s \in dropping
  /\ pending' = [pending EXCEPT ![s] = None] /\ dropping' = dropping \ {s}
  /\ UNCHANGED <<closeVars, opened, reads, releasing, exportVars, listings,
                 rootVars, task, ghosts>>

-----------------------------------------------------------------------------
(* Exports of a token that is given up. *)

\* revoke_history_exports_for_result_token, ..._for_owner: pending selections
\* and export tokens go, running exports are told to stop.
GivenUpUntold(export) == IF export.stage = "running" THEN export ELSE None
GivenUp(export) ==
  IF export.stage = "running" THEN [export EXCEPT !.cancelled = TRUE] ELSE None

SetStage(x, stage) == exports' = [exports EXCEPT ![x].stage = stage]
Cancel(x) == exports' = [exports EXCEPT ![x].cancelled = TRUE]

Revoke(hit) ==
  exports' = [x \in Selections |-> IF x \in hit THEN GivenUp(exports[x]) ELSE exports[x]]

RevokeFor(s) ==
  /\ Revoke({x \in Present(exports) : exports[x].token = s})
  /\ revoked' = revoked \cup {s}

RevokeReplaced(t) ==
  /\ At(t, "replace")
  /\ RevokeFor(task[t].number)
  /\ Renumber(t, "issued", 0)
  /\ UNCHANGED <<closeVars, readVars, selected, listings, rootVars, stale>>

\* close_result_read, by the window or by an opening that fails late.
CloseRead(t, s, w) ==
  IF s \in OfWindow(reads, w)
  THEN /\ reads' = [reads EXCEPT ![s] = None]
       /\ Begin(t, "revoke", w, s, 0)
  ELSE UNCHANGED reads /\ Done(t)

CloseToken(t, s) ==
  /\ task[t] = None /\ s \in Present(reads)
  /\ CloseRead(t, s, reads[s].window)
  /\ UNCHANGED <<closeVars, opened, pending, dropping, releasing, exportVars,
                 listings, rootVars, ghosts>>

CloseOpened(t) ==
  /\ At(t, "close")
  /\ CloseRead(t, task[t].token, task[t].window)
  /\ UNCHANGED <<closeVars, opened, pending, dropping, releasing, exportVars,
                 listings, rootVars, ghosts>>

RevokeClosed(t) ==
  /\ At(t, "revoke")
  /\ RevokeFor(task[t].token) /\ Done(t)
  /\ UNCHANGED <<closeVars, readVars, selected, listings, rootVars, stale>>

-----------------------------------------------------------------------------
(* Reading under a token. *)

Authorised(w, s) == s \in OfWindow(reads, w) /\ w \notin closed
Readable(w, s) == Authorised(w, s) /\ ~reads[s].late /\ ~reads[s].busy
\* A late token is removed by whoever looks at it.
Expired(w, s) == Authorised(w, s) /\ reads[s].late
Forget(s) == reads' = [reads EXCEPT ![s] = None]

Lease(s) == reads' = [reads EXCEPT ![s].busy = TRUE]
Unleased(s) == IF reads[s] = None THEN reads
               ELSE [reads EXCEPT ![s].busy = FALSE]

\* begin_result_read_at of a page query.
BeginRead(t, s) ==
  /\ task[t] = None /\ s \in Present(reads)
  /\ LET w == reads[s].window
     IN \/ Readable(w, s) /\ Lease(s) /\ Begin(t, "reading", w, s, 0)
        \/ Expired(w, s) /\ Forget(s) /\ UNCHANGED task
  /\ UNCHANGED <<closeVars, opened, pending, dropping, releasing, exportVars,
                 listings, rootVars, ghosts>>

\* ... and of the summary an opening returns.
BeginSummary(t) ==
  /\ At(t, "issued")
  /\ LET s == task[t].token
         w == task[t].window
     IN \/ Readable(w, s) /\ Lease(s) /\ Goto(t, "reading")
        \/ Expired(w, s) /\ Forget(s) /\ Goto(t, "close")
        \/ ~Readable(w, s) /\ ~Expired(w, s) /\ UNCHANGED reads /\ Goto(t, "close")
  /\ UNCHANGED <<closeVars, opened, pending, dropping, releasing, exportVars,
                 listings, rootVars, ghosts>>

\* finish_result_read_at: what it leaves of the token and whether the caller
\* may go on.
Finish(w, s, answered) ==
  \/ reads[s] = None /\ ~answered /\ UNCHANGED reads
  \/ reads[s] # None /\ reads[s].late /\ ~answered /\ Forget(s)
  \/ /\ reads[s] # None /\ ~reads[s].late
     /\ answered <=> w \notin closed /\ reads[s].busy
     /\ reads' = Unleased(s)

\* with_result_reader after its query.  The answer of an opening is checked
\* once more; an opening whose query failed closes its token.
AfterRead(t, answered) ==
  IF task[t].opens
  THEN \/ answered /\ Goto(t, "check")
       \/ Goto(t, "close")
  ELSE Done(t)

FinishRead(t) ==
  /\ At(t, "reading")
  /\ \E answered \in BOOLEAN :
       /\ Finish(task[t].window, task[t].token, answered)
       /\ \/ AfterRead(t, answered)
          \/ answered /\ Goto(t, "revokeLease")   \* the source is another file
  /\ UNCHANGED <<closeVars, opened, pending, dropping, releasing, exportVars,
                 listings, rootVars, ghosts>>

\* revoke_result_read_lease
RevokeLease(t) ==
  /\ At(t, "revokeLease")
  /\ Forget(task[t].token)
  /\ IF task[t].opens THEN Goto(t, "close") ELSE Done(t)
  /\ UNCHANGED <<closeVars, opened, pending, dropping, releasing, exportVars,
                 listings, rootVars, ghosts>>

\* open_scan_history's last checks.
CheckOpened(t) ==
  /\ At(t, "check")
  /\ \/ task[t].window \notin closed /\ Done(t)
     \/ Goto(t, "close")
  /\ UNCHANGED <<closeVars, readVars, exportVars, listings, rootVars, ghosts>>

-----------------------------------------------------------------------------
(* Picking a file to export to. *)

\* begin_history_export_selection: the token is looked up first ...
BeginSelection(t, s) ==
  /\ task[t] = None /\ RegistryFree /\ s \in Present(reads)
  /\ LET w == reads[s].window
     IN \/ /\ Authorised(w, s) /\ ~reads[s].late
           /\ Begin(t, "bound", w, s, 0) /\ UNCHANGED reads
        \/ Expired(w, s) /\ Forget(s) /\ UNCHANGED task
  /\ UNCHANGED <<closeVars, opened, pending, dropping, releasing, exportVars,
                 listings, rootVars, ghosts>>

SelectionRoom(table, w) ==
  /\ Cardinality(Present(table)) < MaxExports
  /\ Cardinality(OfWindow(table, w)) < MaxExportsOf

\* ... and the place in the registry is taken under another lock.
Reserve(t) ==
  /\ At(t, "bound")
  /\ LET w == task[t].window
     IN IF SelectionRoom(exports, w)
        THEN /\ selected < MaxSelections /\ selected' = selected + 1
             /\ exports' = [exports EXCEPT ![selected'] =
                  [window |-> w, token |-> task[t].token, stage |-> "pending",
                   cancelled |-> FALSE]]
             /\ Renumber(t, "picking", selected')
        ELSE Done(t) /\ UNCHANGED <<selected, exports>>
  /\ UNCHANGED <<closeVars, readVars, listings, rootVars, ghosts>>

\* finish_history_export_selection: validate_result_export_binding; a picker
\* that fails, gives nothing or finds no token leaves at once.
Validate(t) ==
  /\ At(t, "picking")
  /\ LET s == task[t].token
         w == task[t].window
     IN \/ Authorised(w, s) /\ ~reads[s].late /\ UNCHANGED reads /\ Goto(t, "checked")
        \/ Expired(w, s) /\ Forget(s) /\ Goto(t, "unpick")
        \/ UNCHANGED reads /\ Goto(t, "unpick")
  /\ UNCHANGED <<closeVars, opened, pending, dropping, releasing, exportVars,
                 listings, rootVars, ghosts>>

\* The gates, then the export token, if the selection is still pending.
GrantExport(t) ==
  /\ At(t, "checked") /\ RegistryFree
  /\ LET x == task[t].number
     IN \/ /\ exports[x] # None
           /\ SetStage(x, "granted") /\ Done(t)
        \/ UNCHANGED exports /\ Goto(t, "unpick")
  /\ UNCHANGED <<closeVars, readVars, selected, listings, rootVars, ghosts>>

\* HistoryExportSelectionPermit's destructor.
Unpick(t) ==
  /\ At(t, "unpick")
  /\ exports' = [exports EXCEPT ![task[t].number] = None] /\ Done(t)
  /\ UNCHANGED <<closeVars, readVars, selected, listings, rootVars, ghosts>>

-----------------------------------------------------------------------------
(* Exporting. *)

Granted(x) == exports[x] # None /\ exports[x].stage = "granted"

\* begin_history_export, under the job registry's lock: the export token,
BeginExport(t, x) ==
  /\ task[t] = None /\ RegistryFree /\ Granted(x)
  /\ Begin(t, "exporting", exports[x].window, exports[x].token, x)
  /\ UNCHANGED <<closeVars, readVars, exportVars, listings, rootVars, ghosts>>

\* the lease on the result,
LeaseExport(t) ==
  /\ At(t, "exporting")
  /\ LET s == task[t].token
         w == task[t].window
     IN \/ Readable(w, s) /\ Lease(s) /\ Goto(t, "leased")
        \/ Expired(w, s) /\ Forget(s) /\ Done(t)
        \/ ~Readable(w, s) /\ ~Expired(w, s) /\ UNCHANGED reads /\ Done(t)
  /\ UNCHANGED <<closeVars, opened, pending, dropping, releasing, exportVars,
                 listings, rootVars, ghosts>>

\* and the export token again, which is used up.
RunExport(t) ==
  /\ At(t, "leased")
  /\ LET x == task[t].number
     IN IF Granted(x)
        THEN SetStage(x, "running") /\ Goto(t, "writing")
        ELSE UNCHANGED exports /\ Goto(t, "unlease")
  /\ UNCHANGED <<closeVars, readVars, selected, listings, rootVars, ghosts>>

\* export_scan_history: the file is written or not (see ExportTarget), the
\* lease is given back; or the blocking task panics.
EndWriting(t) ==
  /\ At(t, "writing")
  /\ \/ \E answered \in BOOLEAN :
          Finish(task[t].window, task[t].token, answered) /\ Goto(t, "cleanup")
     \/ UNCHANGED reads /\ Goto(t, "panicked")
  /\ UNCHANGED <<closeVars, opened, pending, dropping, releasing, exportVars,
                 listings, rootVars, ghosts>>

\* ResultReadLeaseCleanup: at once, or by a task of its own.
DropLease(t) ==
  /\ \/ At(t, "unlease") /\ Done(t)
     \/ At(t, "panicked") /\ Goto(t, "cleanup")
  /\ \/ reads' = Unleased(task[t].token) /\ UNCHANGED releasing
     \/ releasing' = releasing \cup {task[t].token} /\ UNCHANGED reads
  /\ UNCHANGED <<closeVars, opened, pending, dropping, exportVars, listings,
                 rootVars, ghosts>>

ReleaseLater(s) ==
  /\ s \in releasing
  /\ reads' = Unleased(s) /\ releasing' = releasing \ {s}
  /\ UNCHANGED <<closeVars, opened, pending, dropping, exportVars, listings,
                 rootVars, task, ghosts>>

\* HistoryExportRunCleanup
Cleanup(t) ==
  /\ At(t, "cleanup")
  /\ exports' = [exports EXCEPT ![task[t].number] = None] /\ Done(t)
  /\ UNCHANGED <<closeVars, readVars, selected, listings, rootVars, ghosts>>

\* cancel_history_export
CancelExport(x) ==
  /\ exports[x] # None
  /\ \/ Granted(x) /\ exports' = [exports EXCEPT ![x] = None]
     \/ /\ exports[x].stage = "running" /\ exports[x].window \notin closed
        /\ Cancel(x)
  /\ UNCHANGED <<closeVars, readVars, selected, listings, rootVars, task, ghosts>>

-----------------------------------------------------------------------------
(* Listing the history: begin_history_read and its permit. *)

Listing == {t \in Tasks : At(t, "list")}

BeginListing(t, w) ==
  /\ task[t] = None
  /\ listings[w] = 0
  /\ Cardinality({v \in Windows : listings[v] > 0}) < MaxListings
  /\ listings' = [listings EXCEPT ![w] = @ + 1]
  /\ Begin(t, "list", w, 0, 0)
  /\ UNCHANGED <<closeVars, readVars, exportVars, rootVars, ghosts>>

EndListing(t) ==
  /\ At(t, "list")
  /\ listings' = [listings EXCEPT ![task[t].window] = IF @ > 0 THEN @ - 1 ELSE 0]
  /\ Done(t)
  /\ UNCHANGED <<closeVars, readVars, exportVars, rootVars, ghosts>>

-----------------------------------------------------------------------------
(* Root tokens. *)

\* begin_scan_root_selection
BeginPick(t, w) ==
  /\ task[t] = None /\ picked < MaxPickers
  /\ picking[w] = 0
  /\ Cardinality(Present(roots)) + Cardinality({v \in Windows : picking[v] # 0})
       < MaxRoots
  /\ picked' = picked + 1
  /\ picking' = [picking EXCEPT ![w] = picked']
  /\ Begin(t, "choosing", w, 0, picked')
  /\ UNCHANGED <<closeVars, readVars, exportVars, listings, roots, ghosts>>

\* finish_scan_root_selection, with issue_scan_root_token for an answer, and
\* abandon_scan_root_selection.
AnyAwaited(w, p) == picking[w] # 0
Awaited(w, p) == picking[w] = p

EndPick(t) ==
  /\ At(t, "choosing")
  /\ LET w == task[t].window
         p == task[t].number
     IN IF Awaited(w, p)
        THEN /\ picking' = [picking EXCEPT ![w] = 0]
             /\ \/ /\ Cardinality(Present(roots)) < MaxRoots
                   /\ roots' = [roots EXCEPT ![p] = [window |-> w]]
                \/ UNCHANGED roots
        ELSE UNCHANGED <<picking, roots>>
  /\ Done(t)
  /\ UNCHANGED <<closeVars, readVars, exportVars, listings, picked, ghosts>>

\* consume_scan_root_at: used once; and the end of its time.
ConsumeRoot(p) ==
  /\ p \in Present(roots)
  /\ roots' = [roots EXCEPT ![p] = None]
  /\ UNCHANGED <<closeVars, readVars, exportVars, listings, picked, picking, task, ghosts>>

-----------------------------------------------------------------------------
(* cancel_for_window_close, on the main thread. *)

\* clear_scan_roots_for_owner
CloseEvent(w) ==
  /\ closing = None /\ events[w] < MaxCloses
  /\ events' = [events EXCEPT ![w] = @ + 1]
  /\ closing' = [window |-> w, step |-> "mark"]
  /\ roots' = [p \in Pickers |-> IF p \in OfWindow(roots, w) THEN None ELSE roots[p]]
  /\ picking' = [picking EXCEPT ![w] = 0]
  /\ stale' = stale \cup {task[t].number : t \in {u \in Tasks :
                            At(u, "choosing") /\ task[u].window = w}}
  /\ UNCHANGED <<closed, cleanups, readVars, exportVars, listings, picked, task, revoked>>

\* mark_result_owner_closed
CloseMark ==
  /\ closing # None /\ closing.step = "mark"
  /\ closed' = closed \cup {closing.window}
  /\ closing' = [closing EXCEPT !.step = "revoke"]
  /\ UNCHANGED <<events, cleanups, readVars, exportVars, listings, rootVars, task, ghosts>>

\* revoke_history_exports_for_owner
CloseRevoke ==
  /\ closing # None /\ closing.step = "revoke"
  /\ Revoke(OfWindow(exports, closing.window))
  /\ closing' = [closing EXCEPT !.step = "remove"]
  /\ UNCHANGED <<closed, events, cleanups, readVars, selected, listings, rootVars,
                 task, ghosts>>

\* remove_result_reads_for_owner
RemoveTokensFor(w) ==
  /\ reads' = [s \in Opens |-> IF s \in OfWindow(reads, w) THEN None ELSE reads[s]]
  /\ UNCHANGED pending
RemoveFor(w) ==
  /\ pending' = [s \in Opens |-> IF s \in OfWindow(pending, w) THEN None ELSE pending[s]]
  /\ reads' = [s \in Opens |-> IF s \in OfWindow(reads, w) THEN None ELSE reads[s]]

\* try_remove_result_reads_for_owner, or a task that waits for the lock.
CloseRemove ==
  /\ closing # None /\ closing.step = "remove"
  /\ \/ RemoveFor(closing.window) /\ UNCHANGED cleanups
     \/ cleanups' = cleanups \cup {closing.window} /\ UNCHANGED <<pending, reads>>
  /\ closing' = None
  /\ UNCHANGED <<closed, events, opened, dropping, releasing, exportVars, listings,
                 rootVars, task, ghosts>>

RemoveLater(w) ==
  /\ w \in cleanups
  /\ RemoveFor(w) /\ cleanups' = cleanups \ {w}
  /\ UNCHANGED <<closed, closing, events, opened, dropping, releasing, exportVars,
                 listings, rootVars, task, ghosts>>

-----------------------------------------------------------------------------
(* Time: a token may run out at any moment.  An export or root token that   *)
(* ran out is pruned or refused by whoever looks at it next, as if it were   *)
(* gone; a result token that ran out still has its exports revoked when the  *)
(* window closes it.                                                         *)

AgeRead(s) ==
  /\ s \in Present(reads) /\ ~reads[s].late
  /\ reads' = [reads EXCEPT ![s].late = TRUE]
  /\ UNCHANGED <<closeVars, opened, pending, dropping, releasing, exportVars,
                 listings, rootVars, task, ghosts>>

AgeExport(x) ==
  /\ Granted(x)
  /\ exports' = [exports EXCEPT ![x] = None]
  /\ UNCHANGED <<closeVars, readVars, selected, listings, rootVars, task, ghosts>>

-----------------------------------------------------------------------------
(* Specification. *)

OpenStep(t) ==
  \/ \E w \in Windows, r \in Runs : BeginOpen(t, w, r)
  \/ Issue(t) \/ RefuseOpen(t) \/ DropOpen(t) \/ RevokeReplaced(t)
  \/ BeginSummary(t) \/ CheckOpened(t) \/ CloseOpened(t)

ReadStep(t) ==
  \/ \E s \in Opens : BeginRead(t, s) \/ CloseToken(t, s)
  \/ FinishRead(t) \/ RevokeLease(t) \/ RevokeClosed(t)

ExportStep(t) ==
  \/ \E s \in Opens : BeginSelection(t, s)
  \/ Reserve(t) \/ Validate(t) \/ GrantExport(t) \/ Unpick(t)
  \/ \E x \in Selections : BeginExport(t, x)
  \/ LeaseExport(t) \/ RunExport(t) \/ EndWriting(t) \/ DropLease(t) \/ Cleanup(t)

RootStep(t) ==
  \/ \E w \in Windows : BeginListing(t, w) \/ BeginPick(t, w)
  \/ EndListing(t) \/ EndPick(t)

Spawned ==
  \/ \E s \in Opens : DropLater(s) \/ ReleaseLater(s)
  \/ \E w \in Windows : RemoveLater(w)

WindowStep ==
  \/ \E w \in Windows : CloseEvent(w)
  \/ CloseMark \/ CloseRevoke \/ CloseRemove
  \/ \E x \in Selections : CancelExport(x)
  \/ \E p \in Pickers : ConsumeRoot(p)

Clock ==
  \/ \E s \in Opens : AgeRead(s)
  \/ \E x \in Selections : AgeExport(x)

Next ==
  \/ \E t \in Tasks : OpenStep(t) \/ ReadStep(t) \/ ExportStep(t) \/ RootStep(t)
  \/ Spawned \/ WindowStep \/ Clock

Spec == Init /\ [][Next]_vars

-----------------------------------------------------------------------------
(* Properties. *)

Leasing(s) == {t \in Tasks :
  /\ \E step \in {"reading", "leased", "unlease", "writing", "panicked"} : At(t, step)
  /\ task[t].token = s}

\* Whatever counts against a limit, or makes a result busy, belongs to a command
\* in progress or to a destructor's task: no path of open_scan_history, of a
\* query, of an export or of a listing leaves a pending opening, a pending
\* selection, a running export, a listing or a lease behind, and no two queries
\* run under one result token (ResultReadLeaseCleanup clears in_flight only for
\* the lease that set it, however late its task runs);
Accounted ==
  /\ \A s \in Present(pending) :
       s \in dropping \/ \E t \in Tasks : task[t] # None /\ task[t].token = s
                             /\ task[t].pc \in {"open", "dropOpen"}
  /\ \A x \in Present(exports) : exports[x].stage # "granted" =>
       \E t \in Tasks : task[t] # None /\ task[t].number = x /\ task[t].pc \in
         (IF exports[x].stage = "pending" THEN {"picking", "checked", "unpick"}
          ELSE {"writing", "panicked", "cleanup"})
  /\ \A w \in Windows :
       listings[w] = Cardinality({t \in Listing : task[t].window = w})
  /\ \A s \in Present(reads) :
       Cardinality(Leasing(s)) + (IF s \in releasing THEN 1 ELSE 0)
         = (IF reads[s].busy THEN 1 ELSE 0)

\* a window's results, open or being opened, each count once, although a
\* reopening does not count the token it will replace and that token may be
\* closed or run out meanwhile; each of them has one token at most; the other
\* registries keep to their limits (begin_result_open, issue_result_read_at,
\* begin_history_export_selection, begin_scan_root_selection).
Results(w) == {reads[s].run : s \in OfWindow(reads, w)}
                \cup {pending[s].run : s \in OfWindow(pending, w)}
WithinLimits ==
  /\ Cardinality(UNION {{w} \X Results(w) : w \in Windows}) <= MaxReads
  /\ \A w \in Windows :
       /\ Cardinality(Results(w)) <= MaxReadsOf
       /\ \A r \in Runs : Cardinality(Replaced(reads, w, r)) <= 1
       /\ Cardinality(OfWindow(exports, w)) <= MaxExportsOf
  /\ Cardinality(Present(exports)) <= MaxExports
  /\ Cardinality(Present(roots)) <= MaxRoots

\* Every place of every registry is accounted for, and no registry ever holds
\* more than its limits, whatever runs out, is closed or fails meanwhile
\* (the registries of scan_service.rs).
NothingLeaks == Accounted /\ WithinLimits

\* An export that still runs although its result was closed or replaced was
\* told to stop, whichever of its three steps the revocation fell between
\* (begin_history_export against close_result_read), and no export token of
\* that result is left to start another.
RevokedExportsStop ==
  \A x \in Present(exports) : exports[x].token \in revoked =>
    exports[x].stage = "pending" \/ exports[x].cancelled

\* Once the close event of a window was handled, to the last spawned task,
\* nothing is held for it: a command that was between two of its steps mints
\* no token for it, and its export was told to stop (cancel_for_window_close,
\* "no queued or in-flight invoke can mint or deliver a token").
Gone(w) == w \in closed \ cleanups /\ (closing = None \/ closing.window # w)
ClosedHoldsNothing ==
  \A w \in Windows : Gone(w) =>
    /\ OfWindow(reads, w) = {} /\ OfWindow(pending, w) = {}
    /\ \A x \in OfWindow(exports, w) : exports[x].stage = "pending" \/ exports[x].cancelled

\* The answer of a folder picker that was open when its window was told to
\* close gives no root token, whatever picker the window opened since
\* (finish_scan_root_selection's sequence number).
RootsAreAwaited == Present(roots) \cap stale = {}

Alike == Permutations(Windows) \cup Permutations(Runs) \cup Permutations(Tasks)

=============================================================================
